------------------------------ MODULE Verdict ------------------------------
(***************************************************************************)
(* The verdict of `verify` on one port (verify_outcome, apply_expiry,      *)
(* apply_dnssec) and on a run (worst_verify_exit), and the exchanges that  *)
(* --mx makes of an MX answer (lookup_mx, normalize_mx, from_mx).          *)
(***************************************************************************)
EXTENDS Integers, Sequences, FiniteSets

CONSTANTS Warn, Critical   \* --warn and --critical, in days

\* main.rs:257 refuses anything else.
ASSUME VerdictAssumption == Warn \in Nat /\ Critical \in Nat /\ Critical <= Warn

\* Exit codes: OK, WARNING, CRITICAL, UNKNOWN.
Exits == 0..3

\* Proof of a DNSSEC validation; "none" when there was no validation or no record.
DnssecStatus == {"secure", "insecure", "indeterminate", "bogus"}

severity(status) == CASE status = "secure" -> 0 [] status = "insecure" -> 1
                      [] status = "indeterminate" -> 2 [] status = "bogus" -> 3

\* The worst proof of a set of records.
worst_dnssec(proofs) ==
    IF proofs = {} THEN "none"
    ELSE CHOOSE p \in proofs : \A q \in proofs : severity(q) <= severity(p)

-----------------------------------------------------------------------------
(* One port.  A set of records is told by how they compare with the chain: *)
(* TRUE, FALSE, or not comparable.                                         *)

verify_outcome(fetched, dns) ==
    IF ~fetched \/ dns = {} THEN 3 ELSE IF "match" \in dns THEN 0 ELSE 2

apply_expiry(outcome, days_left, not_yet_valid) ==
    IF outcome # 0 THEN outcome
    ELSE IF not_yet_valid \/ days_left <= Critical THEN 2
    ELSE IF days_left <= Warn THEN 1 ELSE outcome

\* Faulty: a warning of the certificate's hides that clients cannot connect.
apply_dnssec_ok_only(outcome, dnssec) ==
    IF outcome # 0 \/ dnssec \in {"none", "secure"} THEN outcome
    ELSE IF dnssec = "bogus" THEN 2 ELSE 1

apply_dnssec(outcome, dnssec) ==
    IF dnssec = "bogus" /\ outcome \notin {2, 3} THEN 2
    ELSE IF dnssec \in {"insecure", "indeterminate"} /\ outcome = 0 THEN 1
    ELSE outcome

\* CRITICAL > WARNING > UNKNOWN > OK.
Rank(exit) == IF exit = 2 THEN 3 ELSE IF exit = 1 THEN 2 ELSE IF exit = 3 THEN 1 ELSE 0

\* Faulty: the largest number.
worst_exit_number(exits) ==
    IF exits = {} THEN 0 ELSE CHOOSE e \in exits : \A f \in exits : f <= e

worst_verify_exit(exits) ==
    IF exits = {} THEN 0 ELSE CHOOSE e \in exits : \A f \in exits : Rank(f) <= Rank(e)

-----------------------------------------------------------------------------
(* MX.  An answer is a sequence of records [preference, host, upper,       *)
(* proof]; hosts are numbers in the order of their names, 0 is the null MX,*)
(* and upper is a spelling of the name that differs in case.               *)

\* Faulty: spellings are told apart.
SameHost_spelling(r, s) == r.host = s.host /\ r.upper = s.upper

SameHost(r, s) == r.host = s.host

\* Faulty: a host that is known keeps the preference it was met with first.
Merge_first(hosts, r) ==
    IF \E i \in DOMAIN hosts : SameHost(hosts[i], r) THEN hosts ELSE Append(hosts, r)

\* One record more: a host that is known keeps the lower preference.
Merge(hosts, r) ==
    IF \E i \in DOMAIN hosts : SameHost(hosts[i], r)
    THEN LET i == CHOOSE i \in DOMAIN hosts : SameHost(hosts[i], r)
         IN  IF r.preference < hosts[i].preference
             THEN [hosts EXCEPT ![i].preference = r.preference] ELSE hosts
    ELSE Append(hosts, r)

Before(r, s) == \/ r.preference < s.preference
                \/ r.preference = s.preference /\ r.host < s.host

\* The hosts of the first i records, null MX left out.
Merged(answer) ==
    LET merged[i \in 0..Len(answer)] ==
            IF i = 0 THEN <<>>
            ELSE IF answer[i].host = 0 THEN merged[i - 1]
            ELSE Merge(merged[i - 1], answer[i])
    IN  merged[Len(answer)]

\* sort_by: each host at the place that the number of those ahead of it gives; of two
\* that are equal the earlier one stays ahead.
Sorted(mxhosts) ==
    LET ahead(j, i) == \/ Before(mxhosts[j], mxhosts[i])
                       \/ j < i /\ ~Before(mxhosts[i], mxhosts[j])
        place(i) == 1 + Cardinality({j \in DOMAIN mxhosts : ahead(j, i)})
    IN  [k \in DOMAIN mxhosts |-> mxhosts[CHOOSE i \in DOMAIN mxhosts : place(i) = k]]

normalize_mx(answer) == Sorted(Merged(answer))

\* The verdict on the MX RRset; a null MX counts.
mx_verdict(answer) == worst_dnssec({answer[i].proof : i \in DOMAIN answer})
=============================================================================
