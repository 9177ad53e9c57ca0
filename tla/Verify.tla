------------------------------- MODULE Verify -------------------------------
(***************************************************************************)
(* `verify`, `generate`, `prune`, `list`, `file`, and a `rollover` without *)
(* --reload, over the hosts and ports that they are asked for: MX lookup,  *)
(* then for each host and port the TLSA lookup, the live certificate, and  *)
(* the verdict or the publisher.  All network calls but the publisher's    *)
(* share one budget.                                                       *)
(***************************************************************************)
EXTENDS Starttls, Verdict, Listing

CONSTANTS
    Runs,         \* the command lines of this instance
    InZone,       \* the MX hosts that are under the zone
    Hosts,        \* MX hosts, numbers from 1
    Preferences,  \* of MX records
    Proofs,       \* DNSSEC statuses that a lookup may have
    Zones,        \* what a zone may hold: the names of its TLSA records, in their order
    MaxMx,        \* bound: records of an MX answer
    MaxAddrs      \* bound: addresses of a host

\* A command line; starttls is "default" if there is no --starttls, named if there is a
\* --hostname.
Commands == [cmd : {"verify", "generate", "prune", "list", "file", "rollover"}, mx : BOOLEAN,
             publisher : BOOLEAN, dnssec : BOOLEAN, expiry : BOOLEAN, info : BOOLEAN,
             starttls : Protocols \union {"default"}, named : BOOLEAN, ports : Seq(Nat)]

\* Publish what is in a certificate file.
FromFile == {"file", "rollover"}

ASSUME VerifyAssumption ==
    /\ Runs \subseteq Commands
    /\ \A r \in Runs : /\ r.ports = <<>> => r.cmd = "list" \/ (r.cmd = "file" /\ ~r.publisher)
                       /\ r.cmd = "rollover" => r.publisher
                       /\ r.mx => r.cmd \in {"verify", "generate", "prune"}
    /\ Zones \subseteq Seq(Name)
    /\ Hosts \subseteq Nat \ {0} /\ InZone \subseteq Hosts
    /\ Preferences \subseteq Nat /\ Proofs \subseteq DnssecStatus
    /\ MaxMx \in Nat /\ MaxAddrs \in Nat \ {0}

VARIABLES
    run,      \* the command line
    stage,    \* what it is doing
    answer,   \* the MX answer, until the hosts are chosen from it
    hosts,    \* the hosts, in order; 0 is the one that the command line names
    mx,       \* the DNSSEC verdict on the MX answer
    listed,   \* the names of the publisher's records, for a list
    at,       \* the number of the host and port it is at
    dns,      \* how the TLSA records found compare with what is presented
    dnssec,   \* the DNSSEC verdict on them
    addrs,    \* addresses of the host that are left to try
    results,  \* one per look at a host and port
    code      \* the exit code

vars == <<elapsed, wait, conn, run, stage, answer, hosts, mx, listed, at, dns, dnssec, addrs,
          results, code>>

Matches == {"match", "mismatch", "incomparable"}
Verdicts == DnssecStatus \union {"none"}

\* Stages in which a call with a timeout is under way.
Blocked == stage \in {"mx", "tlsa", "list", "resolve", "connect"} \/ (stage = "talk" /\ Reading)

MxRecord == [preference : Preferences, host : Hosts \union {0}, upper : BOOLEAN, proof : Proofs]
MxAnswers == UNION {[1..n -> MxRecord] : n \in 0..MaxMx}

\* A result: its exit code, and history: what the facts ask for.
Result == [exit : Exits, facts : Exits]

\* The names that a list looks up, and the ports that any command goes through.
names == dns_names(listed, run.named, run.ports)
ports == IF run.cmd = "list" THEN [i \in DOMAIN names |-> names[i].port] ELSE run.ports
NPorts == Len(ports)

TypeOK ==
    /\ ConnTypeOK /\ elapsed \in 0..Limit /\ wait \in 0..Limit
    /\ run \in Runs
    /\ stage \in {"start", "mx", "chosen", "next", "tlsa", "fetch", "resolve", "connect",
                  "talk", "list", "publish", "listing", "done", "aborted"}
    /\ hosts \in Seq(Hosts \union {0}) /\ listed \in Seq(Name)
    /\ mx \in Verdicts /\ dnssec \in Verdicts /\ dns \subseteq Matches
    /\ at \in 1..(2 * Len(hosts) * NPorts + 1) /\ addrs \in 0..MaxAddrs
    /\ Len(results) = at - 1 /\ \A i \in DOMAIN results : results[i] \in Result
    /\ code \in Exits
    /\ (talk = Closed) = (stage # "talk")
    /\ ~Blocked => wait = 0

Init ==
    /\ run \in Runs /\ stage = "start" /\ answer = <<>> /\ hosts = <<>> /\ mx = "none" /\ listed = <<>>
    /\ at = 1 /\ dns = {} /\ dnssec = "none" /\ addrs = 0 /\ results = <<>> /\ code = 0
    /\ elapsed = 0 /\ wait = 0 /\ ConnInit

host == hosts[((at - 1) \div NPorts) + 1]
port == ports[((at - 1) % NPorts) + 1]

\* `list --info` goes through the ports twice: all certificates, then all TLSA lookups.
Certificates == IF run.info THEN NPorts ELSE 0

for_port(p) == CASE p \in {25, 587} -> "smtp" [] p = 143 -> "imap" [] p = 110 -> "pop3"
                 [] p \in {5222, 5269} -> "xmpp" [] OTHER -> "none"
resolve(p) == IF run.starttls = "default" THEN for_port(p) ELSE run.starttls

\* The host is the one named by the command line, or a name under the zone.
in_zone(h) == h = 0 \/ h \in InZone

-----------------------------------------------------------------------------
(* The hosts.                                                              *)

keep == <<run, answer, hosts, mx, listed, at, dns, dnssec, addrs, results, code>>

\* The run ends before the first host or port.
Stops == /\ stage' = "aborted" /\ code' = (IF run.cmd = "verify" THEN 3 ELSE 1) /\ wait' = 0
         /\ UNCHANGED <<elapsed, conn, run, answer, hosts, mx, listed, at, dns, dnssec, addrs, results>>

Start ==
    /\ stage = "start"
    /\ IF run.mx
       THEN Arm /\ stage' = "mx" /\ UNCHANGED <<elapsed, conn, keep>>
       ELSE /\ stage' = (IF run.cmd = "list" /\ run.publisher THEN "listing" ELSE "next")
            /\ hosts' = <<0>>
            /\ UNCHANGED <<elapsed, wait, conn, run, answer, mx, listed, at, dns, dnssec, addrs, results, code>>

MxAnswered ==
    /\ stage = "mx"
    /\ \E a \in MxAnswers :
           /\ answer' = a
           /\ hosts' = [i \in DOMAIN normalize_mx(a) |-> normalize_mx(a)[i].host]
           /\ mx' = IF run.cmd # "verify" \/ run.dnssec THEN mx_verdict(a) ELSE "none"
    /\ stage' = "chosen" /\ wait' = 0
    /\ UNCHANGED <<elapsed, conn, run, listed, at, dns, dnssec, addrs, results, code>>

MxFails == stage = "mx" /\ Stops   \* a failure, or the timeout

\* The certificate file cannot be read.
NoCertificate == stage = "start" /\ run.cmd \in FromFile /\ Stops

\* Faulty: what another zone's exchange needs is written too.
Publishable_any(h) == TRUE

Publishable(h) == in_zone(h)

Chosen ==
    /\ stage = "chosen"
    /\ IF hosts = <<>> \/ (run.publisher /\ \E i \in DOMAIN hosts : ~Publishable(hosts[i]))
       THEN Stops
       ELSE stage' = "next" /\ answer' = <<>>
            /\ UNCHANGED <<elapsed, wait, conn, run, hosts, mx, listed, at, dns, dnssec, addrs, results, code>>

-----------------------------------------------------------------------------
(* The loop over hosts and ports.                                          *)

\* A file goes to the publisher if there is one, until a zone is not managed.
Left ==
    /\ at <= IF run.cmd = "list" THEN Certificates + NPorts ELSE Len(hosts) * NPorts
    /\ run.cmd \in FromFile => run.publisher /\ code = 0

\* Faulty: the last host decides.
code_after_last(exit) == IF run.cmd = "verify" THEN code ELSE exit

\* The exit code of a verify is found at the end, that of the others on the way.
code_after(exit) ==
    IF run.cmd = "verify" THEN code ELSE IF exit # 0 THEN exit ELSE code

Report(exit, facts) ==
    /\ results' = Append(results, [exit |-> exit, facts |-> facts])
    /\ at' = at + 1 /\ code' = code_after(exit)
    /\ stage' = "next" /\ wait' = 0 /\ dns' = {} /\ dnssec' = "none" /\ addrs' = 0
    /\ Close /\ UNCHANGED <<elapsed, run, answer, hosts, mx, listed>>

Aborts == /\ stage' = "aborted" /\ code' = 1 /\ wait' = 0 /\ Close
          /\ UNCHANGED <<elapsed, run, answer, hosts, mx, listed, at, dns, dnssec, addrs, results>>

\* Faulty: the error of one host is the error of the run.
fail_all == IF run.cmd = "verify"
            THEN Report(apply_dnssec(verify_outcome(FALSE, {}), mx), 3)
            ELSE Aborts

\* fail() of a verify; the error result of generate and prune; list only notes it.
fail == IF run.cmd = "verify"
        THEN Report(apply_dnssec(verify_outcome(FALSE, {}), mx), 3)
        ELSE IF run.cmd = "list" THEN Report(0, 0) ELSE Report(1, 1)

Next_port ==
    /\ stage = "next" /\ Left
    /\ IF \/ run.cmd \in {"generate", "prune"}
          \/ run.cmd = "list" /\ at <= Certificates
       THEN stage' = "fetch" /\ UNCHANGED <<elapsed, wait, conn, keep>>
       ELSE IF run.cmd \in FromFile
       THEN stage' = "publish" /\ UNCHANGED <<elapsed, wait, conn, keep>>
       ELSE \/ Arm /\ stage' = "tlsa" /\ UNCHANGED <<elapsed, conn, keep>>
            \/ Spent /\ fail

Finish ==
    /\ stage = "next" /\ ~Left
    /\ stage' = "done"
    /\ code' = IF run.cmd = "verify" THEN worst_verify_exit({results[i].exit : i \in DOMAIN results})
               ELSE code
    /\ UNCHANGED <<elapsed, wait, conn, run, answer, hosts, mx, listed, at, dns, dnssec, addrs, results>>

\* lookup_tlsa, lookup_tlsa_dnssec: an answer, or an error of the resolver that counts as none.
TlsaAnswered ==
    /\ stage = "tlsa" /\ run.cmd = "verify"
    /\ \E found \in SUBSET Matches, status \in IF run.dnssec THEN Proofs ELSE {"none"} :
           /\ dns' = found
           /\ dnssec' = IF found = {} THEN "none" ELSE status
    /\ stage' = "fetch" /\ wait' = 0
    /\ UNCHANGED <<elapsed, conn, run, answer, hosts, mx, listed, at, addrs, results, code>>

\* What is found is printed.
TlsaListed == stage = "tlsa" /\ run.cmd = "list" /\ Report(0, 0)

\* The timeout, or no resolver.
TlsaFails == stage = "tlsa" /\ fail

-----------------------------------------------------------------------------
(* fetch_live.                                                             *)

Fetch ==
    /\ stage = "fetch"
    /\ \/ Arm /\ stage' = "resolve" /\ UNCHANGED <<elapsed, conn, keep>>
       \/ Spent /\ fail

Resolved ==
    /\ stage = "resolve"
    /\ \E n \in 1..MaxAddrs :
           IF Spent THEN fail
           ELSE /\ Arm /\ addrs' = n /\ stage' = "connect"
                /\ UNCHANGED <<elapsed, conn, run, answer, hosts, mx, listed, at, dns, dnssec, results, code>>

\* No address, an error, or the timeout.
ResolveFails == stage = "resolve" /\ fail

Connects ==
    /\ stage = "connect"
    /\ \/ Connected(resolve(port)) /\ stage' = "talk" /\ UNCHANGED <<elapsed, keep>>
       \/ Spent /\ fail

\* Refused: the next address, with what is left of the budget.
Refused ==
    /\ stage = "connect"
    /\ IF addrs = 1 \/ Spent THEN fail
       ELSE /\ Arm /\ addrs' = addrs - 1
            /\ UNCHANGED <<elapsed, conn, run, stage, answer, hosts, mx, listed, at, dns, dnssec, results, code>>

\* TimedOut ends it, with addresses left or not.
ConnectTimesOut == stage = "connect" /\ fail

Talk == stage = "talk" /\ Connection /\ UNCHANGED <<stage, keep>>

TalkFailed == stage = "talk" /\ talk = Failed /\ fail

-----------------------------------------------------------------------------
(* What is made of the certificate.                                        *)

\* Nagios's verdict by the facts: is anything wrong, is anything doubtful.
FactsExit(days, early) ==
    IF dns = {} THEN 3
    ELSE IF \/ "match" \notin dns
            \/ dnssec = "bogus" \/ mx = "bogus"
            \/ run.expiry /\ (early \/ days <= Critical) THEN 2
    ELSE IF \/ {dnssec, mx} \intersect {"insecure", "indeterminate"} # {}
            \/ run.expiry /\ days <= Warn THEN 1
    ELSE 0

\* The days around the thresholds.
Days == {-1, Critical, Critical + 1, Warn, Warn + 1}

Judge ==
    /\ stage = "talk" /\ talk = Up /\ run.cmd = "verify"
    /\ \E days \in Days, early \in BOOLEAN :
           LET found == verify_outcome(TRUE, dns)
               aged == IF run.expiry THEN apply_expiry(found, days, early) ELSE found
               exit == apply_dnssec(apply_dnssec(aged, dnssec), mx)
           IN  Report(exit, FactsExit(days, early))

\* A certificate that cannot be parsed: an error result of a verify, the end of a
\* generate or prune, nothing to a list.
Unreadable ==
    /\ stage = "talk" /\ talk = Up
    /\ IF run.cmd \in {"verify", "list"} THEN fail ELSE Aborts

\* generate and prune go to the publisher, if there is one.
ToPublisher ==
    IF run.publisher
    THEN stage' = "publish" /\ wait' = 0 /\ Close /\ UNCHANGED <<elapsed, keep>>
    ELSE Report(0, 0)

\* prune first looks up what is published, to show it.
Fetched ==
    /\ stage = "talk" /\ talk = Up /\ run.cmd \in {"generate", "prune"}
    /\ IF run.cmd = "prune" /\ ~Spent
       THEN Arm /\ stage' = "list" /\ Close /\ UNCHANGED <<elapsed, keep>>
       ELSE ToPublisher

\* An answer, an error or the timeout: prune goes on.
Listed == stage = "list" /\ ToPublisher

\* list keeps the hash, to mark the records by.
Kept == stage = "talk" /\ talk = Up /\ run.cmd = "list" /\ Report(0, 0)

\* list looks at the publisher's records before anything else.
ListingRead ==
    /\ stage = "listing" /\ stage' = "next"
    /\ \E zone \in Zones :
           listed' = matching(zone, run.named, run.ports)
    /\ UNCHANGED <<elapsed, wait, conn, run, answer, hosts, mx, at, dns, dnssec, addrs, results, code>>

\* nsupdate asks for a transfer of the zone, if no ports are given; one that is not
\* permitted leaves nothing to look up, and is no error.
NoTransfer ==
    /\ stage = "listing" /\ run.ports = <<>> /\ stage' = "next"
    /\ UNCHANGED <<elapsed, wait, conn, keep>>
ListingFails == stage = "listing" /\ Stops   \* or the zone is not managed

Published == stage = "publish" /\ Report(0, 0)
NotManaged == stage = "publish" /\ Report(1, 1)
PublisherFails == stage = "publish" /\ Aborts

-----------------------------------------------------------------------------
\* Time: in a call with a timeout, or in the publisher's, which have none.
Time == \/ Blocked /\ Waits /\ UNCHANGED <<conn, stage, keep>>
        \/ stage \in {"publish", "listing"} /\ Lingers /\ UNCHANGED <<conn, stage, keep>>

\* What the program does by itself.
Proceeds == Start \/ Chosen \/ Next_port \/ Finish \/ Fetch \/ TalkFailed \/ Judge \/ Fetched \/ Kept

\* What the timeout of a call makes it do.
TimesOut == /\ Blocked /\ wait = 0
            /\ \/ MxFails \/ TlsaFails \/ ResolveFails \/ ConnectTimesOut \/ Listed
               \/ stage = "talk" /\ Read_times_out /\ UNCHANGED <<stage, keep>>

Next ==
    \/ Time \/ Proceeds \/ TimesOut
    \/ MxAnswered \/ MxFails \/ TlsaAnswered \/ TlsaListed \/ TlsaFails \/ Resolved \/ ResolveFails
    \/ Connects \/ Refused \/ ConnectTimesOut \/ Talk \/ Unreadable
    \/ NoCertificate \/ ListingRead \/ NoTransfer \/ ListingFails \/ Listed \/ Published \/ NotManaged \/ PublisherFails

\* Time goes by, and the program is scheduled.  Nothing is assumed of servers,
\* resolvers and publishers.
Spec == Init /\ [][Next]_vars /\ WF_vars(Time) /\ WF_vars(Proceeds) /\ WF_vars(TimesOut)

-----------------------------------------------------------------------------
(* Properties.                                                             *)

\* However many calls there are, and however slowly a server answers, a call that
\* has a timeout returns before --timeout is over: each is armed with what is left
\* (timeout.rs, TimedStream).
WithinBudget == elapsed + wait <= Limit

\* The client begins the handshake when a server that follows its protocol does,
\* and has read all of the dialogue: no reply is left to be taken for TLS, and none
\* is still to come (xmpp_read_element, read_crlf_line).
TlsInStep == talk = Tls /\ honest => todo = "TLS" /\ wire = <<>>

\* A server that follows its protocol and agrees to TLS is not turned down, by a reply
\* that is taken for another, a count that runs over from the response before, or a wait
\* for a reply that is not to come: only the budget can end the dialogue.  Two servers that
\* the client does turn down are not smooth: one whose response has MaxLines lines or more
\* that count, and one whose IMAP greeting has " BYE" in its text, as in
\* "* OK byethost.example ready" (cert.rs:480).
HonestServed == smooth /\ talk = Failed => Spent

\* The hosts that --mx goes through (normalize_mx): each that the answer has, in
\* whatever spelling, once, none twice, the lowest preference of any of its records first.
HostsChosen ==
    stage = "chosen" =>
    LET named == {answer[i].host : i \in DOMAIN answer} \ {0}
        prefers(h) == CHOOSE p \in Preferences :
            /\ \E i \in DOMAIN answer : answer[i].host = h /\ answer[i].preference = p
            /\ \A i \in DOMAIN answer : answer[i].host = h => p <= answer[i].preference
    IN  /\ {hosts[i] : i \in DOMAIN hosts} = named
        /\ \A i, j \in DOMAIN hosts : i < j =>
               \/ prefers(hosts[i]) < prefers(hosts[j])
               \/ prefers(hosts[i]) = prefers(hosts[j]) /\ hosts[i] < hosts[j]

\* A list without ports looks up each name that the publisher has, in whatever spelling,
\* once, whatever becomes of the lookups before it (unique_names).
NamesLookedUp ==
    stage = "done" /\ run.cmd = "list" /\ run.ports = <<>> =>
        Cardinality({<<listed[i].owner, listed[i].port>> : i \in DOMAIN listed})
            = Len(results) - Certificates

\* No publisher is asked to write for an exchange of another zone, wherever it is
\* among the hosts (require_targets_in_zone_for_publish).
WritesInZone == stage = "publish" => in_zone(host)

\* What the facts of all hosts and ports ask for, by Nagios's order; a generate or
\* prune fails if it failed anywhere.
RunExit(facts) ==
    IF run.cmd # "verify" THEN IF facts \subseteq {0} THEN 0 ELSE 1
    ELSE IF 2 \in facts THEN 2 ELSE IF 1 \in facts THEN 1 ELSE IF 3 \in facts THEN 3 ELSE 0

\* The exit code tells the worst of what was found on any host and port: nothing that
\* comes later, and no other check of the same port, hides it.
ExitByFacts == stage = "done" => code = RunExit({results[i].facts : i \in DOMAIN results})

\* A host that cannot be reached does not end the run (README.md:121): after the hosts
\* are chosen only a publisher or a certificate that cannot be read does.
Underway == stage \in {"next", "tlsa", "fetch", "resolve", "connect", "list"}
            \/ (stage = "talk" /\ talk # Up)
UnreachableGoesOn == [][Underway => stage' # "aborted"]_vars

\* Without a publisher every run ends, whatever servers and resolvers do: send nothing,
\* or send for ever.
Ends == ~run.publisher => <>(stage \in {"done", "aborted"})
=============================================================================
