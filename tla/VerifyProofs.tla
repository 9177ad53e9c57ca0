---------------------------- MODULE VerifyProofs ----------------------------
(***************************************************************************)
(* What holds of Verify for every limit, every command line and every set  *)
(* of hosts: the deadline, and that the run goes on.                       *)
(***************************************************************************)
EXTENDS Verify, TLAPS

\* Stages in which no call has been armed.
Unarmed == {"start", "chosen", "next", "publish", "listing"}

\* What a step may do to the budget: a unit of time in a call, or a call is
\* over, begins with what is left, or goes on.
BudgetStep ==
    \/ Waits /\ stage' = stage
    \/ Lingers /\ stage \in Unarmed /\ stage' = stage
    \/ elapsed' = elapsed /\ wait' = wait /\ (stage' \in Unarmed => stage \in Unarmed)
    \/ elapsed' = elapsed /\ wait' = 0
    \/ elapsed' = elapsed /\ Arm /\ stage' \notin Unarmed

LEMMA FailIsBudgetStep == fail => BudgetStep
  BY DEF fail, Report, Unarmed, BudgetStep

LEMMA AbortIsBudgetStep == Aborts \/ Stops => BudgetStep
  BY DEF Aborts, Stops, Unarmed, BudgetStep

LEMMA ToPublisherIsBudgetStep == ToPublisher => elapsed' = elapsed /\ wait' = 0
  BY DEF ToPublisher, Report

\* A step of the connection, with the stage as it is.
LEMMA ConnectionIsBudgetStep ==
  ASSUME stage = "talk", stage' = stage, Connection
  PROVE  BudgetStep
  <1>1. CASE Read
    BY <1>1 DEF Read, Unarmed, BudgetStep
  <1>2. CASE ReadPart
    BY <1>2 DEF ReadPart, Unarmed, BudgetStep
  <1>3. CASE Handshake \/ Handshake_fails \/ Read_times_out \/ Cut
    BY <1>3 DEF Handshake, Handshake_fails, Read_times_out, Cut, Gives_up, Unarmed, BudgetStep
  <1>4. CASE HonestServer \/ OtherServer
    BY <1>4 DEF HonestServer, OtherServer, Unarmed, BudgetStep
  <1> QED
    BY <1>1, <1>2, <1>3, <1>4 DEF Connection

LEMMA EveryStepIsBudgetStep == Next => BudgetStep
  <1> SUFFICES ASSUME Next PROVE BudgetStep
    OBVIOUS
  <1>1. CASE Time
    BY <1>1 DEF Time, Unarmed, BudgetStep
  <1>2. CASE Start
    BY <1>2 DEF Start, Unarmed, BudgetStep
  <1>3. CASE Chosen
    BY <1>3, AbortIsBudgetStep DEF Chosen, Unarmed, BudgetStep
  <1>4. CASE Next_port
    BY <1>4, FailIsBudgetStep DEF Next_port, Unarmed, BudgetStep
  <1>5. CASE Finish
    BY <1>5 DEF Finish, Unarmed, BudgetStep
  <1>6. CASE Fetch
    BY <1>6, FailIsBudgetStep DEF Fetch, Unarmed, BudgetStep
  <1>7. CASE TalkFailed \/ TlsaFails \/ ResolveFails \/ ConnectTimesOut
    BY <1>7, FailIsBudgetStep DEF TalkFailed, TlsaFails, ResolveFails, ConnectTimesOut
  <1>8. CASE Judge
    BY <1>8 DEF Judge, Report, Unarmed, BudgetStep
  <1>9. CASE Fetched
    BY <1>9, ToPublisherIsBudgetStep DEF Fetched, Unarmed, BudgetStep
  <1>10. CASE MxFails
    BY <1>10, AbortIsBudgetStep DEF MxFails
  <1>11. CASE Listed
    BY <1>11, ToPublisherIsBudgetStep DEF Listed, Unarmed, BudgetStep
  <1>12. CASE stage = "talk" /\ Connection /\ UNCHANGED <<stage, keep>>
    BY <1>12, ConnectionIsBudgetStep
  <1>13. CASE MxAnswered
    BY <1>13 DEF MxAnswered, Unarmed, BudgetStep
  <1>14. CASE TlsaAnswered
    BY <1>14 DEF TlsaAnswered, Unarmed, BudgetStep
  <1>15. CASE Resolved
    BY <1>15, FailIsBudgetStep DEF Resolved, Unarmed, BudgetStep
  <1>16. CASE Connects
    BY <1>16, FailIsBudgetStep DEF Connects, Connected, Unarmed, BudgetStep
  <1>17. CASE Refused
    BY <1>17, FailIsBudgetStep DEF Refused, Unarmed, BudgetStep
  <1>18. CASE Unreadable
    BY <1>18, FailIsBudgetStep, AbortIsBudgetStep DEF Unreadable
  <1>19. CASE Published \/ NotManaged \/ PublisherFails
    BY <1>19, AbortIsBudgetStep DEF Published, NotManaged, PublisherFails, Report, Unarmed, BudgetStep
  <1>20. CASE ListingRead \/ NoTransfer \/ ListingFails \/ NoCertificate
    BY <1>20, AbortIsBudgetStep DEF ListingRead, NoTransfer, ListingFails, NoCertificate, Unarmed, BudgetStep
  <1>21. CASE TlsaListed \/ Kept
    BY <1>21 DEF TlsaListed, Kept, Report, BudgetStep
  <1> QED
    BY <1>1, <1>2, <1>3, <1>4, <1>5, <1>6, <1>7, <1>8, <1>9, <1>10, <1>11, <1>12, <1>13, <1>14,
       <1>15, <1>16, <1>17, <1>18, <1>19, <1>20, <1>21 DEF Next, Proceeds, TimesOut, Talk, Connection

\* The budget is kept because no call is under way while the publisher, which
\* knows nothing of it, takes time.
BudgetInv ==
    /\ elapsed \in 0..Limit /\ wait \in Nat
    /\ WithinBudget
    /\ stage \in Unarmed => wait = 0

LEMMA BudgetKept ==
  ASSUME BudgetInv, BudgetStep
  PROVE  BudgetInv'
  <1> USE TimeoutAssumption DEF BudgetInv, WithinBudget, Unarmed
  <1>1. CASE Waits /\ stage' = stage
    BY <1>1 DEF Waits, OneMore
  <1>2. CASE Lingers /\ stage \in Unarmed /\ stage' = stage
    BY <1>2 DEF Lingers, OneMore, Spent
  <1>3. CASE elapsed' = elapsed /\ wait' = wait /\ (stage' \in Unarmed => stage \in Unarmed)
    BY <1>3
  <1>4. CASE elapsed' = elapsed /\ wait' = 0
    BY <1>4
  <1>5. CASE elapsed' = elapsed /\ Arm /\ stage' \notin Unarmed
    BY <1>5 DEF Arm, Spent
  <1> QED
    BY <1>1, <1>2, <1>3, <1>4, <1>5 DEF BudgetStep

LEMMA BudgetInit == Init => BudgetInv
  BY TimeoutAssumption DEF Init, BudgetInv, WithinBudget

LEMMA BudgetNext == BudgetInv /\ [Next]_vars => BudgetInv'
  <1>1. BudgetInv /\ UNCHANGED vars => BudgetInv'
    BY DEF BudgetInv, WithinBudget, Unarmed, vars
  <1> QED
    BY <1>1, EveryStepIsBudgetStep, BudgetKept

\* However many hosts, ports, addresses and replies there are, a call that has a
\* timeout returns before --timeout is over (TimedStream, dns_timeout, tcp_connect).
THEOREM DeadlineHolds == Spec => []WithinBudget
  <1>1. BudgetInv => WithinBudget
    BY DEF BudgetInv
  <1> QED
    BY <1>1, BudgetInit, BudgetNext, PTL DEF Spec

-----------------------------------------------------------------------------
(* The run goes on.                                                        *)

LEMMA FailGoesOn == fail => stage' = "next"
  BY DEF fail, Report

LEMMA ToPublisherGoesOn == ToPublisher => stage' \in {"publish", "next"}
  BY DEF ToPublisher, Report

\* A host that cannot be reached, whatever it does not answer, does not end the run:
\* only a publisher or a certificate that cannot be read does (the `?` of main.rs:97).
THEOREM GoesOn == Spec => UnreachableGoesOn
  <1> DEFINE Step == Underway => stage' # "aborted"
  <1>1. Next => Step
    <2> SUFFICES ASSUME Next, Underway PROVE stage' # "aborted"
      OBVIOUS
    <2>1. CASE Time \/ Talk
      BY <2>1 DEF Time, Talk, Underway, Blocked
    <2>2. CASE Start \/ Chosen \/ MxAnswered \/ MxFails \/ PublisherFails
              \/ ListingRead \/ NoTransfer \/ ListingFails \/ NoCertificate
      BY <2>2 DEF Start, Chosen, MxAnswered, MxFails, PublisherFails, ListingRead, NoTransfer,
                  ListingFails, NoCertificate, Underway
    <2>3. CASE Next_port \/ Fetch
      BY <2>3, FailGoesOn DEF Next_port, Fetch
    <2>4. CASE Finish \/ TlsaAnswered
      BY <2>4 DEF Finish, TlsaAnswered
    <2>5. CASE TalkFailed \/ TlsaFails \/ ResolveFails \/ ConnectTimesOut
      BY <2>5, FailGoesOn DEF TalkFailed, TlsaFails, ResolveFails, ConnectTimesOut
    <2>6. CASE Judge \/ Published \/ NotManaged \/ TlsaListed \/ Kept
      BY <2>6 DEF Judge, Published, NotManaged, TlsaListed, Kept, Report
    <2>7. CASE Fetched \/ Listed
      BY <2>7, ToPublisherGoesOn DEF Fetched, Listed
    <2>8. CASE stage = "talk" /\ Read_times_out /\ UNCHANGED <<stage, keep>>
      BY <2>8
    <2>9. CASE Resolved \/ Refused \/ Connects
      BY <2>9, FailGoesOn DEF Resolved, Refused, Connects, Underway
    <2>10. CASE Unreadable
      BY <2>10 DEF Unreadable, Underway
    <2> QED
      BY <2>1, <2>2, <2>3, <2>4, <2>5, <2>6, <2>7, <2>8, <2>9, <2>10 DEF Next, Proceeds, TimesOut
  <1>2. [Next]_vars => [Step]_vars
    BY <1>1
  <1> QED
    BY <1>2, PTL DEF Spec, UnreachableGoesOn

-----------------------------------------------------------------------------
(* The exit code.                                                          *)

\* What apply_expiry and the two apply_dnssec make of one port is what its facts ask
\* for: none of them takes back what another has found.
LEMMA VerdictByFacts ==
  ASSUME NEW days \in Int, NEW early \in BOOLEAN
  PROVE  LET found == verify_outcome(TRUE, dns)
             aged == IF run.expiry THEN apply_expiry(found, days, early) ELSE found
         IN  apply_dnssec(apply_dnssec(aged, dnssec), mx) = FactsExit(days, early)
  <1> DEFINE found == verify_outcome(TRUE, dns)
             aged == IF run.expiry THEN apply_expiry(found, days, early) ELSE found
             doubted(d) == d = "insecure" \/ d = "indeterminate"
  <1>1. ({dnssec, mx} \intersect {"insecure", "indeterminate"} # {}) <=> (doubted(dnssec) \/ doubted(mx))
    BY Zenon
  <1>2. CASE found # 0
    <2>1. apply_dnssec(apply_dnssec(aged, dnssec), mx) = found
      BY <1>2 DEF verify_outcome, apply_expiry, apply_dnssec
    <2>2. FactsExit(days, early) = found
      BY <1>2 DEF verify_outcome, FactsExit
    <2> QED
      BY <2>1, <2>2
  <1>3. CASE found = 0
    <2>1. dns # {} /\ "match" \in dns
      BY <1>3 DEF verify_outcome
    <2>2. aged = IF run.expiry /\ (early \/ days <= Critical) THEN 2
                 ELSE IF run.expiry /\ days <= Warn THEN 1 ELSE 0
      BY <1>3 DEF apply_expiry
    <2>3. apply_dnssec(apply_dnssec(aged, dnssec), mx) =
              IF aged = 2 \/ dnssec = "bogus" \/ mx = "bogus" THEN 2
              ELSE IF aged = 1 \/ doubted(dnssec) \/ doubted(mx) THEN 1 ELSE 0
      <3> HIDE DEF aged
      <3> QED
        BY <2>2 DEF apply_dnssec
    <2>4. FactsExit(days, early) =
              IF aged = 2 \/ dnssec = "bogus" \/ mx = "bogus" THEN 2
              ELSE IF aged = 1 \/ doubted(dnssec) \/ doubted(mx) THEN 1 ELSE 0
      <3> HIDE DEF aged
      <3> QED
        BY <1>1, <2>1, <2>2 DEF FactsExit
    <2> QED
      BY <2>3, <2>4
  <1> QED
    BY <1>2, <1>3

LEMMA FactsAreExits ==
  ASSUME NEW days \in Int, NEW early \in BOOLEAN
  PROVE  FactsExit(days, early) \in Exits
  BY DEF FactsExit, Exits

\* worst_verify_exit returns the worst by Nagios's order, 3 being better than 1.
LEMMA WorstExit ==
  ASSUME NEW exits \in SUBSET Exits
  PROVE  worst_verify_exit(exits) =
             IF 2 \in exits THEN 2 ELSE IF 1 \in exits THEN 1 ELSE IF 3 \in exits THEN 3 ELSE 0
  <1> DEFINE worst == IF 2 \in exits THEN 2 ELSE IF 1 \in exits THEN 1 ELSE IF 3 \in exits THEN 3 ELSE 0
             Worst(e) == \A f \in exits : Rank(f) <= Rank(e)
  <1>1. CASE exits = {}
    BY <1>1 DEF worst_verify_exit
  <1>2. CASE exits # {}
    <2>0. \A e \in exits : e = 0 \/ e = 1 \/ e = 2 \/ e = 3
      BY DEF Exits
    <2>1. worst \in exits
      BY <1>2, <2>0
    <2>a. Worst(worst)
      <3> SUFFICES ASSUME NEW f \in exits PROVE Rank(f) <= Rank(worst)
        OBVIOUS
      <3>1. worst \in {0, 1, 2, 3} /\ f \in {0, 1, 2, 3}
        BY <2>0
      <3>2. \/ f = worst \/ worst = 2
            \/ worst = 1 /\ f \in {0, 3}
            \/ worst = 3 /\ f = 0
        BY <2>0
      <3> QED
        BY <3>1, <3>2 DEF Rank
    <2>2. \A e \in exits : Worst(e) => e = worst
      <3> SUFFICES ASSUME NEW e \in exits, Rank(worst) <= Rank(e) PROVE e = worst
        BY <2>1
      <3>1. worst \in {0, 1, 2, 3} /\ e \in {0, 1, 2, 3}
        BY <2>0
      <3>2. \/ e = worst \/ worst = 2
            \/ worst = 1 /\ e \in {0, 3}
            \/ worst = 3 /\ e = 0
        BY <2>0
      <3> QED
        BY <3>1, <3>2 DEF Rank
    <2>3. (CHOOSE e \in exits : Worst(e)) = worst
      BY <2>1, <2>a, <2>2
    <2> QED
      BY <1>2, <2>3 DEF worst_verify_exit
  <1> QED
    BY <1>1, <1>2

\* The exits and the facts of the results so far.
ExitsFound == {results[i].exit : i \in DOMAIN results}
FactsFound == {results[i].facts : i \in DOMAIN results}

\* Each result has the exit that its facts ask for; the code of a generate or prune
\* is kept on the way.
ExitInv ==
    /\ results \in Seq(Result)
    /\ \A i \in DOMAIN results : results[i].exit = results[i].facts
    /\ run.cmd # "verify" /\ stage # "aborted" =>
           /\ FactsFound \subseteq {0, 1}
           /\ code = IF FactsFound \subseteq {0} THEN 0 ELSE 1
    /\ ExitByFacts

\* A result whose exit is what the facts ask for.
Reports == \E exit \in Exits :
    /\ run.cmd # "verify" => exit \in {0, 1}
    /\ results' = Append(results, [exit |-> exit, facts |-> exit])
    /\ code' = code_after(exit) /\ stage' = "next" /\ run' = run

\* What a step may do to results and exit code.
ExitStep ==
    /\ stage # "aborted"
    /\ \/ UNCHANGED <<run, results, code>> /\ stage' # "done"
       \/ UNCHANGED <<run, results>> /\ stage' = "aborted"
       \/ Reports
       \/ Finish

\* 0 and 1 without a verdict: the publisher's results.
LEMMA PlainReports ==
  ASSUME NEW exit \in {0, 1}, Report(exit, exit)
  PROVE  Reports
  BY DEF Report, Reports, Exits

LEMMA FailIsReport ==
  ASSUME fail
  PROVE  Reports
  <1>1. CASE run.cmd = "verify"
    <2>1. apply_dnssec(verify_outcome(FALSE, {}), mx) = 3
      BY DEF apply_dnssec, verify_outcome
    <2>2. Report(3, 3)
      BY <1>1, <2>1 DEF fail
    <2> QED
      BY <1>1, <2>2 DEF Report, Reports, Exits
  <1>2. CASE run.cmd # "verify"
    BY <1>2, PlainReports DEF fail
  <1> QED
    BY <1>1, <1>2

LEMMA EveryStepIsExitStep ==
  ASSUME Next
  PROVE  ExitStep
  <1>1. CASE Time \/ Talk \/ (stage = "talk" /\ Read_times_out /\ UNCHANGED <<stage, keep>>)
    BY <1>1 DEF Time, Talk, Blocked, keep, ExitStep
  <1>2. CASE Start \/ MxAnswered \/ TlsaAnswered \/ ListingRead \/ NoTransfer
    BY <1>2 DEF Start, MxAnswered, TlsaAnswered, ListingRead, NoTransfer, keep, ExitStep
  <1>3. CASE Chosen \/ MxFails \/ ListingFails \/ NoCertificate
    BY <1>3 DEF Chosen, MxFails, ListingFails, NoCertificate, Stops, ExitStep
  <1>4. CASE Next_port
    BY <1>4, FailIsReport DEF Next_port, keep, ExitStep
  <1>5. CASE Fetch
    BY <1>5, FailIsReport DEF Fetch, keep, ExitStep
  <1>6. CASE Finish
    BY <1>6 DEF Finish, ExitStep
  <1>7. CASE TalkFailed \/ TlsaFails \/ ResolveFails \/ ConnectTimesOut
    BY <1>7, FailIsReport DEF TalkFailed, TlsaFails, ResolveFails, ConnectTimesOut, ExitStep
  <1>8. CASE Resolved \/ Refused
    BY <1>8, FailIsReport DEF Resolved, Refused, ExitStep
  <1>9. CASE Connects
    BY <1>9, FailIsReport DEF Connects, keep, ExitStep
  <1>10. CASE Judge
    <2>1. PICK days \in Days, early \in BOOLEAN :
              Report(FactsExit(days, early), FactsExit(days, early))
      <3>1. Days \subseteq Int
        BY VerdictAssumption DEF Days
      <3> QED
        BY <1>10, <3>1, VerdictByFacts DEF Judge
    <2>2. FactsExit(days, early) \in Exits
      BY VerdictAssumption, FactsAreExits DEF Days
    <2>3. Reports
      BY <1>10, <2>1, <2>2 DEF Judge, Report, Reports
    <2> QED
      BY <1>10, <2>3 DEF Judge, ExitStep
  <1>11. CASE Fetched \/ Listed
    BY <1>11, PlainReports DEF Fetched, Listed, ToPublisher, keep, ExitStep
  <1>12. CASE Published \/ NotManaged \/ PublisherFails \/ TlsaListed \/ Kept
    BY <1>12, PlainReports DEF Published, NotManaged, PublisherFails, TlsaListed, Kept, Aborts, ExitStep
  <1>13. CASE Unreadable
    BY <1>13, FailIsReport DEF Unreadable, Aborts, ExitStep
  <1> QED
    BY <1>1, <1>2, <1>3, <1>4, <1>5, <1>6, <1>7, <1>8, <1>9, <1>10, <1>11, <1>12, <1>13
       DEF Next, Proceeds, TimesOut

LEMMA ReportKeepsExitInv ==
  ASSUME ExitInv, stage # "aborted", Reports
  PROVE  ExitInv'
  <1>1. PICK exit \in Exits :
            /\ run.cmd # "verify" => exit \in {0, 1}
            /\ results' = Append(results, [exit |-> exit, facts |-> exit])
            /\ code' = code_after(exit) /\ stage' = "next" /\ run' = run
    BY DEF Reports
  <1>2. results' \in Seq(Result) /\ \A i \in DOMAIN results' : results'[i].exit = results'[i].facts
    BY <1>1 DEF ExitInv, Result
  <1>3. FactsFound' = FactsFound \union {exit}
    BY <1>1 DEF ExitInv, FactsFound, Result
  <1>4. ASSUME run.cmd # "verify"
        PROVE  FactsFound' \subseteq {0, 1} /\ code' = IF FactsFound' \subseteq {0} THEN 0 ELSE 1
    BY <1>1, <1>3, <1>4 DEF ExitInv, code_after
  <1> QED
    BY <1>1, <1>2, <1>4 DEF ExitInv, ExitByFacts

LEMMA FinishKeepsExitInv ==
  ASSUME ExitInv, stage # "aborted", Finish
  PROVE  ExitInv'
  <1>1. results' = results /\ run' = run /\ stage' = "done" /\ FactsFound' = FactsFound
    BY DEF Finish, FactsFound
  <1>2. ExitsFound = FactsFound /\ ExitsFound \subseteq Exits
    <2>1. \A i \in DOMAIN results : results[i] \in Result
      BY DEF ExitInv
    <2>2. ExitsFound = FactsFound
      BY DEF ExitInv, ExitsFound, FactsFound
    <2>3. ExitsFound \subseteq Exits
      BY <2>1 DEF ExitsFound, Result
    <2> QED
      BY <2>2, <2>3
  <1>3. code' = RunExit(FactsFound)
    <2>1. CASE run.cmd = "verify"
      BY <1>2, <2>1, WorstExit DEF Finish, ExitsFound, RunExit
    <2>2. CASE run.cmd # "verify"
      BY <2>2 DEF Finish, ExitInv, RunExit
    <2> QED
      BY <2>1, <2>2
  <1>4. ExitByFacts'
    BY <1>1, <1>3 DEF ExitByFacts, FactsFound, RunExit
  <1>5. run.cmd # "verify" => code' = code
    BY DEF Finish
  <1> QED
    BY <1>1, <1>4, <1>5 DEF ExitInv

LEMMA ExitInit == Init => ExitInv
  <1> SUFFICES ASSUME Init PROVE ExitInv
    OBVIOUS
  <1>1. results = <<>> /\ code = 0 /\ stage = "start" /\ FactsFound = {}
    BY DEF Init, FactsFound
  <1> QED
    BY <1>1 DEF ExitInv, ExitByFacts

LEMMA ExitNext == ExitInv /\ [Next]_vars => ExitInv'
  <1>1. ASSUME ExitInv, UNCHANGED vars PROVE ExitInv'
    BY <1>1 DEF ExitInv, ExitByFacts, FactsFound, RunExit, vars
  <1>2. ASSUME ExitInv, UNCHANGED <<run, results, code>>, stage' # "done", stage # "aborted"
        PROVE  ExitInv'
    BY <1>2 DEF ExitInv, ExitByFacts, FactsFound
  <1>3. ASSUME ExitInv, UNCHANGED <<run, results>>, stage' = "aborted"
        PROVE  ExitInv'
    BY <1>3 DEF ExitInv, ExitByFacts, FactsFound
  <1> QED
    BY <1>1, <1>2, <1>3, EveryStepIsExitStep, ReportKeepsExitInv, FinishKeepsExitInv DEF ExitStep

\* The exit code tells the worst of what was found on any host and port
\* (worst_verify_exit, main.rs:110), for any number of them and in any order.
THEOREM ExitTellsFacts == Spec => []ExitByFacts
  <1>1. ExitInv => ExitByFacts
    BY DEF ExitInv
  <1> QED
    BY <1>1, ExitInit, ExitNext, PTL DEF Spec

-----------------------------------------------------------------------------
(* The dialogue with a server that follows its protocol.                     *)

\* What the client waits for in a protocol's dialogue, if the server keeps to it, ...
Waits_of(p) == CASE p = "none" -> {} [] p = "smtp" -> {"banner", "ehlo", "starttls"}
                 [] p = "imap" -> {"greeting", "a001"} [] p = "pop3" -> {"greeting", "stls"}
                 [] p = "xmpp" -> {"features", "answer", "proceed"}

\* ... and with any server.
Talks_of(p) == Waits_of(p) \union IF p = "xmpp" THEN Elements \union {"proceed_failure", "failure"} ELSE {}

\* What the server is about to answer while the client waits for t, ...
Asked(t) == CASE t \in {"banner", "greeting"} -> "greeting" [] t = "ehlo" -> "EHLO"
              [] t \in {"starttls", "a001", "stls", "answer"} -> "STARTTLS"
              [] t = "features" -> "stream" [] t = "proceed" -> "</proceed>"

\* ... and what it is about to do when it has agreed.
Agreed(t) == IF t \in {"starttls", "a001", "stls", "answer", "proceed"} THEN "TLS" ELSE "nothing"

\* Replies that the answer goes on after, that count for a limit, that agree, that refuse
\* or are taken for a refusal.
GoesOn_after(r) == CASE proto = "smtp" -> r.more /\ r.says # "junk"
                     [] proto = "imap" -> talk = "a001" /\ r.says \in {"*", "*..bye"}
                     [] proto = "xmpp" -> talk = "answer" /\ r.says = "blank"
                     [] OTHER -> FALSE
Counted(r) == proto = "smtp" => r.text
Agrees(r) == CASE proto = "smtp" -> ~r.more /\ r.says = smtp_next[talk].code
               [] proto = "imap" -> r.says = (IF talk = "greeting" THEN "*" ELSE "a001_ok")
               [] proto = "pop3" -> r.says = "+ok"
               [] OTHER -> r.says = (CASE talk = "features" -> "features_starttls"
                                       [] talk = "answer" -> "<proceed/>" [] OTHER -> "</proceed>")
Refuses(r) == CASE proto = "smtp" -> ~r.more /\ r.says = "500"
                [] proto = "imap" -> IF talk = "greeting" THEN r.says \in {"*bye", "*..bye"} ELSE r.says = "a001_no"
                [] proto = "pop3" -> r.says = "-err"
                [] OTHER -> \/ talk = "features" /\ r.says = "features"
                            \/ talk = "answer" /\ r.says = "<failure/>"

\* The first n replies on the wire are not the end of the answer, and a smooth one keeps
\* within the limit.
Pending(n) == \A i \in 1..n :
    GoesOn_after(wire[i]) /\ (smooth /\ Counted(wire[i]) => lines + i < MaxLines)

\* What the server has sent of its answer, and what it does next: nothing of the end,
\* all of it, a refusal, or the start tag or both tags of a <proceed>.
Answering ==
    LET n == Len(wire)
    IN  \/ todo = Asked(talk) /\ Pending(n)
        \/ n > 0 /\ todo = Agreed(talk) /\ Pending(n - 1) /\ Agrees(wire[n])
        \/ n > 0 /\ todo = "nothing" /\ ~smooth /\ Pending(n - 1) /\ Refuses(wire[n])
        \/ n > 0 /\ talk = "answer" /\ todo = "</proceed>" /\ Pending(n - 1) /\ wire[n].says = "<proceed>"
        \/ n > 1 /\ talk = "answer" /\ todo = "TLS" /\ Pending(n - 2)
           /\ wire[n - 1].says = "<proceed>" /\ wire[n].says = "</proceed>"

\* Where an honest server and its client are in the dialogue.
InDialogue == IF talk = Tls THEN todo = "TLS" /\ wire = <<>>
              ELSE talk \in Waits_of(proto) /\ Answering

\* Client and server are at the same place of the dialogue.
DialogueInv ==
    /\ ConnTypeOK /\ wire \in Seq(Replies(proto))
    /\ smooth => honest
    /\ proto = "imap" => lines < MaxLines
    /\ talk \in Talks_of(proto) \union {Closed, Tls, Up, Failed}
    /\ honest /\ Reading => InDialogue

\* A call of the dialogue was armed with all of what is left.
ArmedInv ==
    /\ elapsed \in 0..Limit /\ wait \in Nat
    /\ (talk = Closed) = (stage # "talk")
    /\ Reading => elapsed + wait = Limit

WireInv == run \in Runs /\ ArmedInv /\ DialogueInv /\ HonestServed

\* Reading a reply that the answer goes on after.
LEMMA NegotiateGoesOn ==
  ASSUME proto \in Protocols, talk \in Waits_of(proto), NEW r \in Replies(proto), GoesOn_after(r),
         lines \in 0..MaxLines, (Counted(r) => lines + 1 < MaxLines) \/ negotiate(r).talk # Failed
  PROVE  /\ negotiate(r).talk = talk
         /\ negotiate(r).lines = IF Counted(r) THEN lines + 1 ELSE lines
  <1> USE StarttlsAssumption DEF Then, Fails
  <1>1. CASE proto = "smtp"
    BY <1>1 DEF negotiate, smtp_negotiate, Counts, GoesOn_after, Counted
  <1>2. CASE proto = "imap"
    <2>1. talk = "a001" /\ r.says \in {"*", "*..bye"} /\ Counted(r)
      BY <1>2 DEF GoesOn_after, Counted
    <2>2. imap_negotiate(r) = IF lines + 1 = MaxLines THEN Fails ELSE Then(talk, lines + 1)
      BY <2>1 DEF imap_negotiate
    <2>3. lines + 1 # MaxLines
      BY <1>2, <2>1, <2>2 DEF negotiate
    <2> QED
      BY <1>2, <2>1, <2>2, <2>3 DEF negotiate
  <1>3. CASE proto = "xmpp"
    BY <1>3 DEF negotiate, xmpp_negotiate, xmpp_read_element, Begins, Elements, Counts, GoesOn_after, Counted
  <1>4. proto # "none" /\ proto # "pop3"
    BY DEF GoesOn_after
  <1> QED
    BY <1>1, <1>2, <1>3, <1>4 DEF Protocols

\* Reading the end of an answer that agrees: the next question, or TLS.
LEMMA NegotiateAgrees ==
  ASSUME proto \in Protocols, talk \in Waits_of(proto), NEW r \in Replies(proto), Agrees(r)
  PROVE  LET to == negotiate(r).talk
         IN  /\ negotiate(r).lines = 0
             /\ to # talk
             /\ \/ to = Tls /\ Agreed(talk) = "TLS"
                \/ to \in Waits_of(proto) /\ Command(to) = Asked(to) /\ Command(to) # "nothing"
  <1> USE DEF Then, Tls, Command, Asked, Agreed, Waits_of
  <1>1. CASE proto = "smtp"
    <2>1. CASE talk = "banner"
      BY <1>1, <2>1 DEF negotiate, smtp_negotiate, smtp_next, Agrees
    <2>2. CASE talk = "ehlo"
      BY <1>1, <2>2 DEF negotiate, smtp_negotiate, smtp_next, Agrees
    <2>3. CASE talk = "starttls"
      BY <1>1, <2>3 DEF negotiate, smtp_negotiate, smtp_next, Agrees
    <2> QED
      BY <1>1, <2>1, <2>2, <2>3
  <1>2. CASE proto = "imap"
    BY <1>2 DEF negotiate, imap_negotiate, imap_greeting, Agrees
  <1>3. CASE proto = "pop3"
    BY <1>3 DEF negotiate, pop3_negotiate, Agrees
  <1>4. CASE proto = "xmpp"
    <2>1. CASE talk = "features"
      BY <1>4, <2>1 DEF negotiate, xmpp_negotiate, Agrees
    <2>2. CASE talk = "answer"
      <3>1. r.says = "<proceed/>"
        BY <1>4, <2>2 DEF Agrees
      <3>2. xmpp_read_element(r) = Then(Tls, 0)
        BY <2>2, <3>1 DEF xmpp_read_element, Elements, Begins
      <3> QED
        BY <1>4, <2>2, <3>2 DEF negotiate, xmpp_negotiate
    <2>3. CASE talk = "proceed"
      <3>1. r.says = "</proceed>"
        BY <1>4, <2>3 DEF Agrees
      <3>2. xmpp_read_element(r) = Then(Tls, 0)
        BY <2>3, <3>1 DEF xmpp_read_element
      <3> QED
        BY <1>4, <2>3, <3>2 DEF negotiate, xmpp_negotiate
    <2> QED
      BY <1>4, <2>1, <2>2, <2>3
  <1> QED
    BY <1>1, <1>2, <1>3, <1>4 DEF Protocols

LEMMA NegotiateRefuses ==
  ASSUME proto \in Protocols, talk \in Waits_of(proto), NEW r \in Replies(proto), Refuses(r)
  PROVE  negotiate(r).talk = Failed
  <1> USE DEF Then, Fails, Waits_of
  <1>1. CASE proto = "smtp"
    BY <1>1 DEF negotiate, smtp_negotiate, smtp_next, Refuses
  <1>2. CASE proto = "imap"
    BY <1>2 DEF negotiate, imap_negotiate, imap_greeting, Refuses
  <1>3. CASE proto = "pop3"
    BY <1>3 DEF negotiate, pop3_negotiate, Refuses
  <1>4. CASE proto = "xmpp"
    <2>1. CASE talk = "features"
      BY <1>4, <2>1 DEF negotiate, xmpp_negotiate, Refuses
    <2>2. CASE talk # "features"
      <3>1. talk = "answer" /\ r.says = "<failure/>"
        BY <1>4, <2>2 DEF Refuses
      <3>2. xmpp_read_element(r) = Fails
        BY <3>1 DEF xmpp_read_element, Elements, Begins
      <3> QED
        BY <1>4, <3>1, <3>2 DEF negotiate, xmpp_negotiate
    <2> QED
      BY <2>1, <2>2
  <1> QED
    BY <1>1, <1>2, <1>3, <1>4 DEF Protocols

\* Whatever the server sends, the client stays in its protocol and within the limit.
LEMMA NegotiateType ==
  ASSUME proto \in Protocols, talk \in Talks_of(proto), lines \in 0..MaxLines,
         proto = "imap" => lines < MaxLines, NEW r \in Replies(proto)
  PROVE  /\ negotiate(r).talk \in Talks_of(proto) \union {Tls, Failed}
         /\ negotiate(r).lines \in 0..MaxLines
         /\ proto = "imap" => negotiate(r).lines < MaxLines
  <1> USE StarttlsAssumption DEF Then, Fails, Talks_of, Waits_of
  <1>1. CASE proto = "smtp"
    BY <1>1 DEF negotiate, smtp_negotiate, smtp_next, Counts
  <1>2. CASE proto = "imap"
    <2>1. r.says \in {"*", "*..bye", "*bye", "a001_ok", "a001_no", "junk"}
      BY <1>2 DEF Replies, Plain
    <2>2. talk \in {"greeting", "a001"}
      BY <1>2
    <2>3. CASE talk = "greeting"
      <3>1. imap_negotiate(r) \in {Then("a001", 0), Fails}
        BY <2>3 DEF imap_negotiate, imap_greeting
      <3> QED
        BY <1>2, <3>1 DEF negotiate
    <2>4. CASE talk = "a001"
      <3>1. CASE r.says = "a001_ok"
        BY <1>2, <2>4, <3>1 DEF negotiate, imap_negotiate
      <3>2. CASE r.says \in {"a001_no", "*bye"}
        BY <1>2, <2>4, <3>2 DEF negotiate, imap_negotiate
      <3>3. CASE r.says \in {"*", "*..bye", "junk"}
        <4>1. imap_negotiate(r) = IF lines + 1 = MaxLines THEN Fails ELSE Then(talk, lines + 1)
          BY <2>4, <3>3 DEF imap_negotiate
        <4> QED
          BY <1>2, <2>4, <4>1 DEF negotiate
      <3> QED
        BY <2>1, <3>1, <3>2, <3>3
    <2> QED
      BY <2>2, <2>3, <2>4
  <1>3. CASE proto = "pop3"
    BY <1>3 DEF negotiate, pop3_negotiate
  <1>4. CASE proto = "xmpp"
    <2>1. Counts(1).talk \in {talk, Failed} /\ Counts(1).lines \in 0..MaxLines
      BY DEF Counts
    <2>2. xmpp_read_element(r).talk \in Talks_of(proto) \union {Tls, Failed}
          /\ xmpp_read_element(r).lines \in 0..MaxLines
      <3>1. \A ends : Element(ends) \in Elements
        BY DEF Element, Elements
      <3>2. \A ends : (Then(Element(ends), lines + 1)).talk \in Elements
                     /\ (Then(Element(ends), lines + 1)).lines = lines + 1
        BY <3>1
      <3>3. CASE \/ talk = "answer" /\ r.says \notin Begins \union {"blank"}
                 \/ talk \in Elements /\ r.says \notin Begins
        <4>1. xmpp_read_element(r) = IF lines = MaxLines THEN Fails
                  ELSE Then(Element(Ends_of(talk) \union ({r.says} \intersect {"</proceed>", "</failure>"})),
                            lines + 1)
          BY <3>3 DEF xmpp_read_element, Begins, Elements
        <4>2. CASE lines = MaxLines
          BY <1>4, <4>1, <4>2
        <4>3. CASE lines # MaxLines
          <5>1. lines + 1 \in 0..MaxLines
            BY <4>3
          <5> QED
            BY <1>4, <3>2, <4>1, <4>3, <5>1
        <4> QED
          BY <4>2, <4>3
      <3>4. CASE ~(\/ talk = "answer" /\ r.says \notin Begins \union {"blank"}
                   \/ talk \in Elements /\ r.says \notin Begins)
        <4>1. xmpp_read_element(r) \in {Then(Tls, 0), Fails, Then("proceed", 0), Then("failure", 0),
                                       Then("proceed_failure", 0), Counts(1)}
          BY <3>4 DEF xmpp_read_element
        <4> QED
          BY <1>4, <2>1, <4>1
      <3> QED
        BY <3>3, <3>4
    <2>3. negotiate(r) = xmpp_negotiate(r)
      BY <1>4 DEF negotiate
    <2>4. CASE talk = "features"
      <3>1. xmpp_negotiate(r) \in {Then("answer", 0), Fails, Counts(1)}
        BY <2>4 DEF xmpp_negotiate
      <3> QED
        BY <1>4, <2>1, <2>3, <3>1
    <2>5. CASE talk # "features"
      BY <1>4, <2>2, <2>3, <2>5 DEF xmpp_negotiate
    <2> QED
      BY <2>4, <2>5
  <1> QED
    BY <1>1, <1>2, <1>3, <1>4 DEF Protocols

-----------------------------------------------------------------------------
(* A step of the connection.                                                 *)

\* The first reply on the wire.
LEMMA HeadType ==
  ASSUME wire \in Seq(Replies(proto)), wire # <<>>
  PROVE  /\ Head(wire) = wire[1] /\ Head(wire) \in Replies(proto)
         /\ Tail(wire) \in Seq(Replies(proto)) /\ Len(Tail(wire)) = Len(wire) - 1
         /\ Len(wire) \in Nat \ {0}
         /\ \A i \in 1..(Len(wire) - 1) : Tail(wire)[i] = wire[i + 1]
  OBVIOUS

\* What the client makes of an answer as far as it has come.
LEMMA ReadAnswer ==
  ASSUME DialogueInv, honest, talk \in Waits_of(proto), Answering, wire # <<>>,
         wire' = Tail(wire), proto' = proto, smooth' = smooth,
         talk' = negotiate(Head(wire)).talk, lines' = negotiate(Head(wire)).lines, talk' # Failed,
         todo' = IF talk' # talk /\ Command(talk') # "nothing" THEN Command(talk') ELSE todo
  PROVE  IF talk' = Tls THEN todo' = "TLS" /\ wire' = <<>>
         ELSE talk' \in Waits_of(proto) /\ Answering'
  <1> USE HeadType DEF DialogueInv, ConnTypeOK
  <1>0. PICK n \in Nat \ {0}, r \in Replies(proto) : n = Len(wire) /\ r = wire[1]
    OBVIOUS
  <1>1. /\ r = Head(wire) /\ r = wire[1] /\ n = Len(wire) /\ Len(wire') = n - 1
        /\ \A i \in 1..(n - 1) : wire'[i] = wire[i + 1]
    BY <1>0
  <1>2. ASSUME NEW m \in 1..n, Pending(m)
        PROVE  talk' = talk /\ todo' = todo /\ Pending(m - 1)'
    <2>1. GoesOn_after(r)
      <3>1. 1 \in 1..m
        BY <1>0, <1>2
      <3> QED
        BY <1>1, <1>2, <3>1 DEF Pending
    <2>2. talk' = talk /\ lines' = IF Counted(r) THEN lines + 1 ELSE lines
      BY <1>1, <2>1, NegotiateGoesOn
    <2>3. todo' = todo
      BY <2>2
    <2>4. lines' <= lines + 1 /\ lines' \in Int
      BY <2>2
    <2>5. ASSUME NEW i \in 1..(m - 1)
          PROVE  (GoesOn_after(wire[i]) /\ (smooth /\ Counted(wire[i]) => lines + i < MaxLines))'
      <3>1. wire'[i] = wire[i + 1] /\ i + 1 \in 1..m
        BY <1>1
      <3>2. GoesOn_after(wire[i + 1]) /\ (smooth /\ Counted(wire[i + 1]) => lines + (i + 1) < MaxLines)
        BY <1>2, <3>1 DEF Pending
      <3>3. GoesOn_after(wire[i])' /\ (Counted(wire[i])' <=> Counted(wire[i + 1]))
        BY <2>2, <3>1, <3>2 DEF GoesOn_after, Counted
      <3> QED
        <4>1. lines \in Int /\ MaxLines \in Int /\ i \in Int /\ lines' \in Int
          BY <2>4, StarttlsAssumption
        <4>2. lines + (i + 1) < MaxLines => lines' + i < MaxLines
          BY <2>4, <4>1
        <4>3. smooth' /\ Counted(wire[i])' => lines + (i + 1) < MaxLines
          BY <3>2, <3>3
        <4>4. (smooth /\ Counted(wire[i]) => lines + i < MaxLines)'
          BY <4>2, <4>3
        <4> QED
          BY <3>3, <4>4
    <2> QED
      BY <2>2, <2>3, <2>5 DEF Pending
  <1>3. ASSUME NEW m \in 1..n, Pending(m)
        PROVE  talk' # Tls /\ talk' \in Waits_of(proto)
    BY <1>2, <1>3 DEF Waits_of, Protocols, Tls
  <1>4. CASE todo = Asked(talk) /\ Pending(n)
    <2>1. todo' = Asked(talk)' /\ Pending(n - 1)'
      BY <1>1, <1>2, <1>4
    <2> QED
      BY <1>1, <1>3, <1>4, <2>1 DEF Answering
  <1>5. CASE todo = Agreed(talk) /\ Pending(n - 1) /\ Agrees(wire[n])
    <2>1. CASE n = 1
      <3>1. /\ lines' = 0 /\ talk' # talk
            /\ \/ talk' = Tls /\ Agreed(talk) = "TLS"
               \/ talk' \in Waits_of(proto) /\ Command(talk') = Asked(talk)' /\ Command(talk') # "nothing"
        BY <1>1, <1>5, <2>1, NegotiateAgrees
      <3>2. wire' = <<>>
        BY <1>1, <2>1
      <3>3. CASE talk' = Tls
        BY <1>5, <3>1, <3>2, <3>3 DEF Command, Tls
      <3>4. CASE talk' # Tls
        <4>1. todo' = Asked(talk)' /\ talk' \in Waits_of(proto)
          BY <3>1, <3>4
        <4>2. Pending(0)'
          BY DEF Pending
        <4>3. Len(wire') = 0
          BY <1>1, <2>1
        <4> QED
          BY <3>4, <4>1, <4>2, <4>3 DEF Answering
      <3> QED
        BY <3>3, <3>4
    <2>2. CASE n > 1
      <3>1. n - 1 \in 1..n
        BY <1>1, <2>2
      <3>2. talk' = talk /\ todo' = todo /\ Pending(n - 2)' /\ talk' # Tls /\ talk' \in Waits_of(proto)
        BY <1>2, <1>3, <1>5, <3>1
      <3>3. wire'[n - 1] = wire[n] /\ Len(wire') = n - 1 /\ n - 1 > 0
        BY <1>1, <2>2
      <3>4. Agrees(wire[n - 1])' /\ todo' = Agreed(talk)'
        BY <1>5, <3>2, <3>3 DEF Agrees
      <3> QED
        BY <3>2, <3>3, <3>4 DEF Answering
    <2> QED
      BY <1>1, <2>1, <2>2
  <1>6. CASE todo = "nothing" /\ ~smooth /\ Pending(n - 1) /\ Refuses(wire[n])
    <2>1. n > 1
      BY <1>1, <1>6, NegotiateRefuses
    <2>2. talk' = talk /\ todo' = todo /\ Pending(n - 2)' /\ talk' # Tls /\ talk' \in Waits_of(proto)
      BY <1>2, <1>3, <1>6, <2>1
    <2>3. wire'[n - 1] = wire[n] /\ Len(wire') = n - 1 /\ n - 1 > 0
      BY <1>1, <2>1
    <2>4. Refuses(wire[n - 1])'
      BY <1>6, <2>2, <2>3 DEF Refuses
    <2> QED
      BY <1>6, <2>2, <2>3, <2>4 DEF Answering
  <1>7. ASSUME talk = "answer", r.says = "<proceed>"
        PROVE  talk' = "proceed" /\ lines' = 0 /\ todo' = todo /\ proto = "xmpp"
    <2>1. proto = "xmpp"
      BY <1>7 DEF Waits_of, Protocols
    <2>2. negotiate(r) = Then("proceed", 0)
      BY <1>7, <2>1 DEF negotiate, xmpp_negotiate, xmpp_read_element, Begins, Elements
    <2> QED
      BY <1>1, <1>7, <2>1, <2>2 DEF Then, Command
  <1>8. CASE talk = "answer" /\ todo = "</proceed>" /\ Pending(n - 1) /\ wire[n].says = "<proceed>"
    <2>1. CASE n = 1
      <3>1. talk' = "proceed" /\ todo' = "</proceed>" /\ proto = "xmpp" /\ Len(wire') = 0
        BY <1>1, <1>7, <1>8, <2>1
      <3>2. Pending(0)'
        BY DEF Pending
      <3> QED
        BY <3>1, <3>2 DEF Answering, Asked, Waits_of, Tls
    <2>2. CASE n > 1
      <3>1. talk' = talk /\ todo' = todo /\ Pending(n - 2)' /\ talk' # Tls /\ talk' \in Waits_of(proto)
        BY <1>2, <1>3, <1>8, <2>2
      <3>2. wire'[n - 1] = wire[n] /\ Len(wire') = n - 1 /\ n - 1 > 0
        BY <1>1, <2>2
      <3> QED
        BY <1>8, <3>1, <3>2 DEF Answering
    <2> QED
      BY <1>1, <2>1, <2>2
  <1>9. CASE n > 1 /\ talk = "answer" /\ todo = "TLS" /\ Pending(n - 2)
             /\ wire[n - 1].says = "<proceed>" /\ wire[n].says = "</proceed>"
    <2>1. wire'[n - 1] = wire[n] /\ Len(wire') = n - 1 /\ n - 1 > 0
      BY <1>1, <1>9
    <2>2. CASE n = 2
      <3>1. talk' = "proceed" /\ todo' = "TLS" /\ proto = "xmpp"
        BY <1>1, <1>7, <1>9, <2>2
      <3>2. wire'[1] = wire[n] /\ Len(wire') = 1 /\ Len(wire') - 1 = 0 /\ Len(wire') > 0
        <4>1. n - 1 = 1
          BY <2>2
        <4>2. wire'[1] = wire[n]
          BY <2>1, <4>1
        <4>3. Len(wire') = 1
          BY <2>1, <4>1
        <4>4. \A l \in Nat : l = 1 => l - 1 = 0 /\ l > 0
          OBVIOUS
        <4>5. Len(wire') \in Nat
          BY <4>3
        <4> QED
          BY <4>2, <4>3, <4>4, <4>5
      <3>3. Pending(0)'
        BY DEF Pending
      <3>4. Agrees(wire[1])'
        BY <1>9, <2>2, <3>1, <3>2 DEF Agrees
      <3>5. todo' = Agreed(talk)'
        BY <3>1 DEF Agreed
      <3>6. talk' # Tls /\ talk' \in Waits_of(proto)
        BY <3>1 DEF Waits_of, Tls
      <3>7. (Len(wire) > 0 /\ todo = Agreed(talk) /\ Pending(Len(wire) - 1) /\ Agrees(wire[Len(wire)]))'
        <4>1. Pending(Len(wire) - 1)' /\ Agrees(wire[Len(wire)])'
          BY <3>2, <3>3, <3>4
        <4> QED
          BY <3>2, <3>5, <4>1
      <3>8. Answering'
        BY <3>7 DEF Answering
      <3> QED
        BY <3>6, <3>8
    <2>3. CASE n > 2
      <3>1. talk' = talk /\ todo' = todo /\ Pending(n - 3)' /\ talk' # Tls /\ talk' \in Waits_of(proto)
        BY <1>2, <1>3, <1>9, <2>3
      <3>2. wire'[n - 2] = wire[n - 1]
        BY <1>1, <2>3
      <3> QED
        BY <1>9, <2>1, <2>3, <3>1, <3>2 DEF Answering
    <2> QED
      BY <1>9, <2>2, <2>3
  <1> QED
    BY <1>1, <1>4, <1>5, <1>6, <1>8, <1>9 DEF Answering

\* What an agreeable server has sent is never taken for a failure.
LEMMA AgreeableNotFailed ==
  ASSUME DialogueInv, smooth, talk \in Waits_of(proto), Answering, wire # <<>>
  PROVE  negotiate(Head(wire)).talk # Failed
  <1> USE HeadType DEF DialogueInv, ConnTypeOK
  <1>0. PICK n \in Nat \ {0}, r \in Replies(proto) : n = Len(wire) /\ r = wire[1]
    OBVIOUS
  <1>1. r = Head(wire) /\ r = wire[1] /\ n = Len(wire)
    BY <1>0
  <1>2. talk # Failed
    BY DEF Waits_of, Failed, Protocols
  <1>3. ASSUME NEW m \in 1..n, Pending(m)
        PROVE  negotiate(r).talk # Failed
    <2>1. 1 \in 1..m
      BY <1>0, <1>3
    <2>2. GoesOn_after(r) /\ (Counted(r) => lines + 1 < MaxLines)
      BY <1>1, <1>3, <2>1 DEF Pending
    <2> QED
      BY <1>2, <2>2, NegotiateGoesOn
  <1>4. ASSUME Agrees(r)
        PROVE  negotiate(r).talk # Failed
    <2>1. negotiate(r).talk = Tls \/ negotiate(r).talk \in Waits_of(proto)
      BY <1>4, NegotiateAgrees
    <2> QED
      BY <2>1 DEF Waits_of, Failed, Tls, Protocols
  <1>5. ASSUME talk = "answer", r.says = "<proceed>"
        PROVE  negotiate(r).talk # Failed
    <2>1. proto = "xmpp"
      BY <1>5 DEF Waits_of, Protocols
    <2>2. negotiate(r) = Then("proceed", 0)
      BY <1>5, <2>1 DEF negotiate, xmpp_negotiate, xmpp_read_element, Begins, Elements
    <2> QED
      BY <2>2 DEF Then, Failed
  <1>6. \/ Pending(n)
        \/ Pending(n - 1) /\ (Agrees(wire[n]) \/ (talk = "answer" /\ wire[n].says = "<proceed>"))
        \/ n > 1 /\ Pending(n - 2) /\ talk = "answer" /\ wire[n - 1].says = "<proceed>"
    BY <1>1 DEF Answering
  <1>7. CASE n = 1
    BY <1>1, <1>3, <1>4, <1>5, <1>6, <1>7
  <1>8. CASE n = 2
    BY <1>1, <1>3, <1>5, <1>6, <1>8
  <1>9. CASE n > 2
    BY <1>1, <1>3, <1>6, <1>9
  <1> QED
    BY <1>1, <1>7, <1>8, <1>9

\* Every stage of a dialogue is a stage of a connection.
LEMMA TalksOf ==
  ASSUME proto \in Protocols
  PROVE  /\ Talks_of(proto) \subseteq Talks \ {Closed, Tls, Up, Failed}
         /\ Waits_of(proto) \subseteq Talks_of(proto)
  BY DEF Talks_of, Waits_of, Talks, Elements, Closed, Tls, Up, Failed, Protocols

LEMMA ReadKeeps ==
  ASSUME WireInv, stage = "talk", stage' = stage, run' = run, Read
  PROVE  WireInv'
  <1> DEFINE r == Head(wire)
             to == IF Spent THEN Failed ELSE negotiate(r).talk
  <1> USE DEF WireInv, ArmedInv, DialogueInv, ConnTypeOK
  <1>1. /\ Reading /\ wire # <<>> /\ talk # Tls
        /\ talk' = to
        /\ lines' = IF to = Failed THEN 0 ELSE negotiate(r).lines
        /\ IF to = Failed THEN wait' = 0 ELSE Arm
        /\ todo' = IF honest /\ to # talk /\ Command(to) # "nothing" THEN Command(to) ELSE todo
        /\ wire' = Tail(wire)
        /\ UNCHANGED <<elapsed, proto, honest, smooth>>
    BY DEF Read
  <1>2. r \in Replies(proto) /\ wire' \in Seq(Replies(proto)) /\ Len(wire') = Len(wire) - 1
    BY <1>1, HeadType
  <1>3. talk \in Talks_of(proto)
    BY <1>1 DEF Reading
  <1>4. /\ negotiate(r).talk \in Talks_of(proto) \union {Tls, Failed}
        /\ negotiate(r).lines \in 0..MaxLines
        /\ proto = "imap" => negotiate(r).lines < MaxLines
    BY <1>2, <1>3, NegotiateType
  <1>5. talk' \in Talks_of(proto) \union {Tls, Failed}
    BY <1>1, <1>4
  <1>6. lines' \in 0..MaxLines /\ (proto = "imap" => lines' < MaxLines)
    BY <1>1, <1>4, StarttlsAssumption
  <1>7. todo' \in {"nothing", "greeting", "EHLO", "STARTTLS", "stream", "</proceed>", "TLS"}
    BY <1>1 DEF Command
  <1>8. ASSUME honest, talk' # Failed
        PROVE  InDialogue'
    <2>1. talk \in Waits_of(proto) /\ Answering
      BY <1>1, <1>8 DEF InDialogue
    <2>2. talk' = negotiate(Head(wire)).talk /\ lines' = negotiate(Head(wire)).lines
      BY <1>1, <1>8
    <2>3. todo' = IF talk' # talk /\ Command(talk') # "nothing" THEN Command(talk') ELSE todo
      BY <1>1, <1>8
    <2>4. DialogueInv
      OBVIOUS
    <2>5. IF talk' = Tls THEN todo' = "TLS" /\ wire' = <<>>
          ELSE talk' \in Waits_of(proto) /\ Answering'
      BY <1>1, <1>8, <2>1, <2>2, <2>3, <2>4, ReadAnswer
    <2> QED
      BY <1>1, <2>5 DEF InDialogue, Waits_of
  <1>9. HonestServed'
    <2> SUFFICES ASSUME smooth', talk' = Failed PROVE Spent'
      BY DEF HonestServed
    <2>1. talk \in Waits_of(proto) /\ Answering /\ smooth
      BY <1>1 DEF InDialogue
    <2>2. DialogueInv
      OBVIOUS
    <2>3. Spent
      BY <1>1, <2>1, <2>2, AgreeableNotFailed
    <2> QED
      BY <1>1, <2>3 DEF Spent
  <1>10. ArmedInv'
    <2>1. talk' # Closed /\ elapsed' \in 0..Limit
      BY <1>1, <1>5, TalksOf DEF Closed, Tls, Failed
    <2>2. CASE to = Failed
      BY <1>1, <2>1, <2>2 DEF Reading
    <2>3. CASE to # Failed
      BY <1>1, <2>1, <2>3, TimeoutAssumption DEF Arm, Spent
    <2> QED
      BY <2>2, <2>3
  <1>11. ConnTypeOK'
    <2>1. talk' \in Talks
      BY <1>5, TalksOf DEF Talks
    <2>2. Len(wire') <= MaxWire
      BY <1>2, StarttlsAssumption
    <2>3. \A i \in DOMAIN wire' : wire'[i] \in Replies(proto)
      BY <1>2
    <2> QED
      BY <1>1, <1>6, <1>7, <2>1, <2>2, <2>3
  <1>12. DialogueInv'
    BY <1>1, <1>2, <1>5, <1>6, <1>8, <1>11 DEF Reading
  <1> QED
    BY <1>9, <1>10, <1>12

\* The dialogue is where it was if nothing of it changes; a cut makes no difference to it.
LEMMA DialogueStays ==
  ASSUME UNCHANGED <<proto, talk, lines, wire, todo, smooth>>
  PROVE  InDialogue' <=> InDialogue
  BY DEF InDialogue, Answering, Pending, GoesOn_after, Counted, Agrees, Refuses, smtp_next,
         Asked, Agreed, Waits_of

\* The client's other steps, and a server that keeps to nothing.
LEMMA OtherConnectionKeeps ==
  ASSUME WireInv, stage = "talk", stage' = stage, run' = run,
         ReadPart \/ Handshake \/ Handshake_fails \/ Read_times_out \/ Cut \/ OtherServer
  PROVE  WireInv'
  <1> USE TimeoutAssumption, StarttlsAssumption DEF WireInv, ArmedInv, DialogueInv, ConnTypeOK
  <1>1. CASE ReadPart /\ ~Spent
    <2>1. Arm /\ UNCHANGED <<elapsed, conn>>
      BY <1>1 DEF ReadPart, conn
    <2>2. ConnTypeOK' /\ (InDialogue' <=> InDialogue) /\ (HonestServed' <=> HonestServed)
      BY <2>1, DialogueStays DEF conn, HonestServed, Spent
    <2> QED
      BY <1>1, <2>1, <2>2 DEF conn, Arm, Spent, Reading, ReadPart
  <1>2. ASSUME talk' = Failed, lines' = 0, wait' = 0, UNCHANGED <<elapsed, proto, wire, todo, honest>>,
               smooth' \in BOOLEAN, smooth' => smooth /\ Spent
        PROVE  WireInv'
    <2>1. ~Reading' /\ talk' # Closed /\ talk' \in Talks
      BY <1>2 DEF Reading, Failed, Closed, Talks
    <2>2. HonestServed'
      BY <1>2 DEF HonestServed, Spent
    <2> QED
      BY <1>2, <2>1, <2>2
  <1>3. CASE ReadPart /\ Spent
    BY <1>2, <1>3 DEF ReadPart
  <1>4. CASE Handshake
    <2>1. ~Reading' /\ talk' # Closed /\ talk' \in Talks /\ talk' = Up
      BY <1>4 DEF Handshake, Reading, Up, Closed, Talks
    <2>2. HonestServed'
      BY <2>1 DEF HonestServed, Up, Failed
    <2> QED
      BY <1>4, <2>1, <2>2 DEF Handshake
  <1>5. CASE Handshake_fails
    <2>1. ~smooth
      BY <1>5 DEF Handshake_fails, InDialogue, Reading, Tls, Closed, Up, Failed
    <2> QED
      BY <1>2, <1>5, <2>1 DEF Handshake_fails, Gives_up
  <1>6. CASE Read_times_out
    <2>1. Spent
      BY <1>6 DEF Read_times_out, Spent
    <2> QED
      BY <1>2, <1>6, <2>1 DEF Read_times_out, Gives_up
  <1>7. CASE Cut
    BY <1>2, <1>7 DEF Cut, Gives_up
  <1>8. CASE OtherServer
    <2>1. PICK r \in Replies(proto) : wire' = Append(wire, r)
      BY <1>8 DEF OtherServer
    <2>2. wire' \in Seq(Replies(proto)) /\ Len(wire') = Len(wire) + 1 /\ Len(wire') <= MaxWire
      BY <1>8, <2>1 DEF OtherServer
    <2>3. /\ UNCHANGED <<elapsed, wait, proto, talk, lines, todo, honest, smooth>>
          /\ ~honest
      BY <1>8 DEF OtherServer
    <2>4. HonestServed' /\ (Reading' <=> Reading)
      BY <2>3 DEF HonestServed, Spent, Reading
    <2>5. \A i \in DOMAIN wire' : wire'[i] \in Replies(proto)
      BY <2>2
    <2> QED
      BY <2>2, <2>3, <2>4, <2>5
  <1> QED
    BY <1>1, <1>3, <1>4, <1>5, <1>6, <1>7, <1>8

\* What a server that follows its protocol sends: the end of the answer, a refusal, part
\* of the answer, or a start tag.
Meets(a) ==
    \/ Agrees(a.reply) /\ a.todo = Agreed(talk)
    \/ Refuses(a.reply) /\ a.todo = "nothing" /\ ~a.agrees
    \/ /\ GoesOn_after(a.reply) /\ a.todo = todo
       /\ a.agrees /\ Counted(a.reply) => lines + Len(wire) + 1 < MaxLines
    \/ talk = "answer" /\ a.reply.says = "<proceed>" /\ a.todo = "</proceed>"

LEMMA AnswersMeet ==
  ASSUME proto \in Protocols, talk \in Waits_of(proto), todo = Asked(talk), NEW a \in Answers
  PROVE  a.reply \in Replies(proto) /\ a.agrees \in BOOLEAN /\ Meets(a)
  <1> DEFINE Sends(r, next) == a = [reply |-> r, todo |-> next, agrees |-> TRUE]
             Denies(r) == a = [reply |-> r, todo |-> "nothing", agrees |-> FALSE]
             more == lines + Len(wire) + 1 < MaxLines
             Goes_on(r, agrees) == a = [reply |-> r, todo |-> todo, agrees |-> agrees]
             Of_smtp(c, next) == \/ \E t \in BOOLEAN : Sends(Smtp(c, FALSE, t), next)
                                 \/ Denies(Smtp("500", FALSE, TRUE))
                                 \/ \E t \in BOOLEAN : Goes_on(Smtp(c, TRUE, t), t => more)
             Good == a.reply \in Replies(proto) /\ a.agrees \in BOOLEAN /\ Meets(a)
  <1>a. ASSUME NEW r \in Replies(proto), Sends(r, Agreed(talk)), Agrees(r) PROVE Good
    <2>1. a.reply = r /\ a.todo = Agreed(talk) /\ a.agrees = TRUE
      BY <1>a
    <2> QED
      BY <1>a, <2>1 DEF Meets
  <1>b. ASSUME NEW r \in Replies(proto), Denies(r), Refuses(r) PROVE Good
    <2>1. a.reply = r /\ a.todo = "nothing" /\ a.agrees = FALSE
      BY <1>b
    <2> QED
      BY <1>b, <2>1 DEF Meets
  <1>c. ASSUME NEW r \in Replies(proto), NEW agrees \in BOOLEAN, Goes_on(r, agrees), GoesOn_after(r),
               agrees /\ Counted(r) => more
        PROVE  Good
    <2>1. a.reply = r /\ a.todo = todo /\ a.agrees = agrees
      BY <1>c
    <2> QED
      BY <1>c, <2>1 DEF Meets
  <1>d. ASSUME NEW code1 \in {"220", "250"}, proto = "smtp", code1 = smtp_next[talk].code,
               Of_smtp(code1, Agreed(talk))
        PROVE  Good
    <2>1. \A t, u \in BOOLEAN : Smtp(code1, u, t) \in Replies(proto)
      BY <1>d DEF Smtp, Replies
    <2>2. Smtp("500", FALSE, TRUE) \in Replies(proto) /\ Refuses(Smtp("500", FALSE, TRUE))
      BY <1>d DEF Smtp, Replies, Refuses
    <2>3. \A t \in BOOLEAN : Agrees(Smtp(code1, FALSE, t))
      BY <1>d DEF Smtp, Agrees
    <2>4. \A t \in BOOLEAN : GoesOn_after(Smtp(code1, TRUE, t)) /\ (Counted(Smtp(code1, TRUE, t)) <=> t)
      BY <1>d DEF Smtp, GoesOn_after, Counted
    <2>5. ASSUME NEW t \in BOOLEAN, Sends(Smtp(code1, FALSE, t), Agreed(talk)) PROVE Good
      BY <1>a, <2>1, <2>3, <2>5
    <2>6. ASSUME Denies(Smtp("500", FALSE, TRUE)) PROVE Good
      BY <1>b, <2>2, <2>6
    <2>7. ASSUME NEW t \in BOOLEAN, Goes_on(Smtp(code1, TRUE, t), t => more) PROVE Good
      BY <1>c, <2>1, <2>4, <2>7
    <2> QED
      BY <1>d, <2>5, <2>6, <2>7
  <1>e. more \in BOOLEAN
    OBVIOUS
  <1>1. CASE proto = "smtp" /\ talk = "banner"
    <2>1. todo = "greeting" /\ Agreed(talk) = "nothing" /\ smtp_next[talk].code = "220"
      BY <1>1 DEF Asked, Agreed, smtp_next
    <2>2. Of_smtp("220", "nothing")
      BY <1>1, <2>1 DEF Answers
    <2> QED
      BY <1>d, <1>1, <2>1, <2>2
  <1>2. CASE proto = "smtp" /\ talk = "ehlo"
    <2>1. todo = "EHLO" /\ Agreed(talk) = "nothing" /\ smtp_next[talk].code = "250"
      BY <1>2 DEF Asked, Agreed, smtp_next
    <2>2. Of_smtp("250", "nothing")
      BY <1>2, <2>1 DEF Answers
    <2> QED
      BY <1>d, <1>2, <2>1, <2>2
  <1>3. CASE proto = "smtp" /\ talk = "starttls"
    <2>1. todo = "STARTTLS" /\ Agreed(talk) = "TLS" /\ smtp_next[talk].code = "220"
      BY <1>3 DEF Asked, Agreed, smtp_next
    <2>2. Of_smtp("220", "TLS")
      BY <1>3, <2>1 DEF Answers
    <2> QED
      BY <1>d, <1>3, <2>1, <2>2
  <1>4. CASE proto = "imap" /\ talk = "greeting"
    <2>1. todo = "greeting" /\ Agreed(talk) = "nothing"
      BY <1>4 DEF Asked, Agreed
    <2>2. Sends(Plain("*"), "nothing") \/ Denies(Plain("*..bye")) \/ Denies(Plain("*bye"))
      BY <1>4, <2>1 DEF Answers
    <2>3. Plain("*") \in Replies(proto) /\ Plain("*..bye") \in Replies(proto) /\ Plain("*bye") \in Replies(proto)
      BY <1>4 DEF Replies
    <2>4. Agrees(Plain("*")) /\ Refuses(Plain("*..bye")) /\ Refuses(Plain("*bye"))
      BY <1>4 DEF Agrees, Refuses, GoesOn_after, Plain
    <2> QED
      BY <1>a, <1>b, <2>1, <2>2, <2>3, <2>4
  <1>5. CASE proto = "imap" /\ talk = "a001"
    <2>1. todo = "STARTTLS" /\ Agreed(talk) = "TLS"
      BY <1>5 DEF Asked, Agreed
    <2>2. Sends(Plain("a001_ok"), "TLS") \/ Denies(Plain("a001_no"))
          \/ \E t \in {"*", "*..bye"} : Goes_on(Plain(t), more)
      BY <1>5, <2>1 DEF Answers
    <2>3. Plain("a001_ok") \in Replies(proto) /\ Plain("a001_no") \in Replies(proto)
          /\ \A t \in {"*", "*..bye"} : Plain(t) \in Replies(proto)
      BY <1>5 DEF Replies
    <2>4. Agrees(Plain("a001_ok")) /\ Refuses(Plain("a001_no"))
          /\ \A t \in {"*", "*..bye"} : GoesOn_after(Plain(t))
      BY <1>5 DEF Agrees, Refuses, GoesOn_after, Plain
    <2>5. ASSUME NEW t \in {"*", "*..bye"}, Goes_on(Plain(t), more) PROVE Good
      BY <1>c, <1>e, <2>3, <2>4, <2>5
    <2> QED
      BY <1>a, <1>b, <2>1, <2>2, <2>3, <2>4, <2>5
  <1>6. CASE proto = "pop3" /\ talk = "greeting"
    <2>1. todo = "greeting" /\ Agreed(talk) = "nothing"
      BY <1>6 DEF Asked, Agreed
    <2>2. Sends(Plain("+ok"), "nothing") \/ Denies(Plain("-err"))
      BY <1>6, <2>1 DEF Answers
    <2>3. Plain("+ok") \in Replies(proto) /\ Plain("-err") \in Replies(proto)
      BY <1>6 DEF Replies
    <2>4. Agrees(Plain("+ok")) /\ Refuses(Plain("-err"))
      BY <1>6 DEF Agrees, Refuses, GoesOn_after, Plain
    <2> QED
      BY <1>a, <1>b, <2>1, <2>2, <2>3, <2>4
  <1>7. CASE proto = "pop3" /\ talk = "stls"
    <2>1. todo = "STARTTLS" /\ Agreed(talk) = "TLS"
      BY <1>7 DEF Asked, Agreed
    <2>2. Sends(Plain("+ok"), "TLS") \/ Denies(Plain("-err"))
      BY <1>7, <2>1 DEF Answers
    <2>3. Plain("+ok") \in Replies(proto) /\ Plain("-err") \in Replies(proto)
      BY <1>7 DEF Replies
    <2>4. Agrees(Plain("+ok")) /\ Refuses(Plain("-err"))
      BY <1>7 DEF Agrees, Refuses, GoesOn_after, Plain
    <2> QED
      BY <1>a, <1>b, <2>1, <2>2, <2>3, <2>4
  <1>8. CASE proto = "xmpp" /\ talk = "features"
    <2>1. todo = "stream" /\ Agreed(talk) = "nothing"
      BY <1>8 DEF Asked, Agreed
    <2>2. Sends(Plain("features_starttls"), "nothing") \/ Denies(Plain("features"))
      BY <1>8, <2>1 DEF Answers
    <2>3. Plain("features_starttls") \in Replies(proto) /\ Plain("features") \in Replies(proto)
      BY <1>8 DEF Replies
    <2>4. Agrees(Plain("features_starttls")) /\ Refuses(Plain("features"))
      BY <1>8 DEF Agrees, Refuses, GoesOn_after, Plain
    <2> QED
      BY <1>a, <1>b, <2>1, <2>2, <2>3, <2>4
  <1>9. CASE proto = "xmpp" /\ talk = "answer"
    <2>1. todo = "STARTTLS" /\ Agreed(talk) = "TLS"
      BY <1>9 DEF Asked, Agreed
    <2>2. Sends(Plain("<proceed/>"), "TLS") \/ Denies(Plain("<failure/>"))
          \/ Goes_on(Plain("blank"), more) \/ Sends(Plain("<proceed>"), "</proceed>")
      BY <1>9, <2>1 DEF Answers
    <2>3. Plain("<proceed/>") \in Replies(proto) /\ Plain("<failure/>") \in Replies(proto)
          /\ Plain("blank") \in Replies(proto) /\ Plain("<proceed>") \in Replies(proto)
      BY <1>9 DEF Replies
    <2>4. Agrees(Plain("<proceed/>")) /\ Refuses(Plain("<failure/>"))
          /\ GoesOn_after(Plain("blank")) /\ Plain("<proceed>").says = "<proceed>"
      BY <1>9 DEF Agrees, Refuses, GoesOn_after, Plain
    <2>5. ASSUME Sends(Plain("<proceed>"), "</proceed>") PROVE Good
      <3>1. a.reply = Plain("<proceed>") /\ a.todo = "</proceed>" /\ a.agrees = TRUE
        BY <2>5
      <3> QED
        BY <1>9, <2>3, <2>4, <3>1 DEF Meets
    <2>6. ASSUME Goes_on(Plain("blank"), more) PROVE Good
      BY <1>c, <1>e, <2>3, <2>4, <2>6
    <2> QED
      BY <1>a, <1>b, <2>1, <2>2, <2>3, <2>4, <2>5, <2>6
  <1>10. CASE proto = "xmpp" /\ talk = "proceed"
    <2>1. todo = "</proceed>" /\ Agreed(talk) = "TLS"
      BY <1>10 DEF Asked, Agreed
    <2>2. Sends(Plain("</proceed>"), "TLS")
      BY <1>10, <2>1 DEF Answers
    <2>3. Plain("</proceed>") \in Replies(proto)
      BY <1>10 DEF Replies
    <2>4. Agrees(Plain("</proceed>"))
      BY <1>10 DEF Agrees, Refuses, GoesOn_after, Plain
    <2> QED
      BY <1>a, <2>1, <2>2, <2>3, <2>4
  <1> QED
    BY <1>1, <1>2, <1>3, <1>4, <1>5, <1>6, <1>7, <1>8, <1>9, <1>10 DEF Protocols, Waits_of

LEMMA NoAnswers ==
  ASSUME todo \in {"nothing", "TLS"}
  PROVE  Answers = {}
  BY DEF Answers

LEMMA ProceedEnds ==
  ASSUME proto = "xmpp", todo = "</proceed>"
  PROVE  Answers = {[reply |-> Plain("</proceed>"), todo |-> "TLS", agrees |-> TRUE]}
  BY DEF Answers

\* An honest server's reply keeps client and server together.
LEMMA HonestServerKeeps ==
  ASSUME WireInv, stage = "talk", stage' = stage, run' = run, HonestServer
  PROVE  WireInv'
  <1> USE DEF WireInv, DialogueInv, ConnTypeOK
  <1>1. /\ Reading /\ honest /\ Len(wire) < MaxWire
        /\ UNCHANGED <<elapsed, wait, proto, talk, lines, honest>>
    BY DEF HonestServer
  <1>2. PICK a \in Answers : wire' = Append(wire, a.reply) /\ todo' = a.todo /\ smooth' = (smooth /\ a.agrees)
    BY DEF HonestServer
  <1>3. todo \notin {"nothing", "TLS"}
    BY <1>2, NoAnswers
  <1>4. talk \in Waits_of(proto) /\ Answering /\ talk # Tls
    BY <1>1, <1>3 DEF InDialogue
  <1>5. PICK n \in Nat : n = Len(wire)
    OBVIOUS
  <1>6. ASSUME NEW r \in Replies(proto), wire' = Append(wire, r)
        PROVE  /\ Len(wire') = n + 1 /\ wire'[n + 1] = r
               /\ \A i \in 1..n : wire'[i] = wire[i]
               /\ wire' \in Seq(Replies(proto))
    BY <1>5, <1>6
  <1>7. ASSUME NEW r \in Replies(proto), wire' = Append(wire, r), NEW m \in 0..n, Pending(m)
        PROVE  Pending(m)'
    <2> SUFFICES ASSUME NEW i \in 1..m
                 PROVE  (GoesOn_after(wire[i]) /\ (smooth /\ Counted(wire[i]) => lines + i < MaxLines))'
      BY DEF Pending
    <2>1. wire'[i] = wire[i]
      BY <1>6, <1>7
    <2>2. GoesOn_after(wire[i]) /\ (smooth /\ Counted(wire[i]) => lines + i < MaxLines)
      BY <1>7 DEF Pending
    <2>3. GoesOn_after(wire[i])' /\ (Counted(wire[i])' <=> Counted(wire[i]))
      BY <1>1, <2>1, <2>2 DEF GoesOn_after, Counted
    <2>4. (smooth /\ Counted(wire[i]) => lines + i < MaxLines)'
      BY <1>1, <1>2, <2>2, <2>3
    <2> QED
      BY <2>3, <2>4
  <1>8. todo = Asked(talk) \/ (proto = "xmpp" /\ talk = "answer" /\ todo = "</proceed>")
    BY <1>3, <1>4 DEF Answering, Agreed, Waits_of, Protocols
  <1>9. a.reply \in Replies(proto) /\ a.agrees \in BOOLEAN /\ Answering' /\ todo' \in {"nothing", "greeting", "EHLO", "STARTTLS", "stream", "</proceed>", "TLS"}
    <2>1. CASE todo = Asked(talk)
      <3>1. a.reply \in Replies(proto) /\ a.agrees \in BOOLEAN /\ Meets(a)
        BY <1>4, <2>1, AnswersMeet
      <3>2. Pending(n)
        BY <1>3, <1>4, <1>5, <2>1 DEF Answering, Asked, Agreed, Waits_of, Protocols
      <3>3. Pending(n)'
        BY <1>2, <1>7, <3>1, <3>2
      <3>4. Len(wire') = n + 1 /\ Len(wire') - 1 = n /\ Len(wire') > 0 /\ wire'[n + 1] = a.reply
        BY <1>2, <1>6, <3>1
      <3>5. CASE Agrees(a.reply) /\ a.todo = Agreed(talk)
        <4>1. Agrees(wire[Len(wire)])' /\ todo' = Agreed(talk)'
          BY <1>1, <1>2, <3>4, <3>5 DEF Agrees
        <4>2. Answering'
          BY <3>3, <3>4, <4>1 DEF Answering
        <4> QED
          BY <3>1, <4>1, <4>2 DEF Agreed
      <3>6. CASE Refuses(a.reply) /\ a.todo = "nothing" /\ ~a.agrees
        <4>1. Refuses(wire[Len(wire)])' /\ todo' = "nothing" /\ ~smooth'
          BY <1>1, <1>2, <3>4, <3>6 DEF Refuses
        <4>2. Answering'
          BY <3>3, <3>4, <4>1 DEF Answering
        <4> QED
          BY <3>1, <4>1, <4>2
      <3>7. CASE /\ GoesOn_after(a.reply) /\ a.todo = todo
                 /\ a.agrees /\ Counted(a.reply) => lines + Len(wire) + 1 < MaxLines
        <4>1. todo' = Asked(talk)'
          BY <1>1, <1>2, <2>1, <3>7
        <4>2. (GoesOn_after(wire[n + 1]) /\ (smooth /\ Counted(wire[n + 1]) => lines + (n + 1) < MaxLines))'
          <5>1. GoesOn_after(wire[n + 1])' /\ (Counted(wire[n + 1])' <=> Counted(a.reply))
            BY <1>1, <3>4, <3>7 DEF GoesOn_after, Counted
          <5>2. lines + Len(wire) + 1 < MaxLines => lines + (n + 1) < MaxLines
            BY <1>5, StarttlsAssumption
          <5>3. (smooth /\ Counted(wire[n + 1]) => lines + (n + 1) < MaxLines)'
            BY <1>1, <1>2, <3>7, <5>1, <5>2
          <5> QED
            BY <5>1, <5>3
        <4>3. \A i \in 1..(n + 1) : i \in 1..n \/ i = n + 1
          OBVIOUS
        <4>4. Pending(n + 1)'
          BY <3>3, <4>2, <4>3 DEF Pending
        <4>5. Answering'
          BY <3>4, <4>1, <4>4 DEF Answering
        <4> QED
          BY <1>2, <3>1, <3>7, <4>5
      <3>8. CASE talk = "answer" /\ a.reply.says = "<proceed>" /\ a.todo = "</proceed>"
        <4>1. Answering'
          BY <1>1, <1>2, <3>3, <3>4, <3>8 DEF Answering
        <4> QED
          BY <1>2, <3>1, <3>8, <4>1
      <3> QED
        BY <3>1, <3>5, <3>6, <3>7, <3>8 DEF Meets
    <2>2. CASE proto = "xmpp" /\ talk = "answer" /\ todo = "</proceed>"
      <3>1. a.reply = Plain("</proceed>") /\ a.todo = "TLS" /\ a.agrees = TRUE
        BY <2>2, ProceedEnds
      <3>2. a.reply \in Replies(proto) /\ a.reply.says = "</proceed>"
        BY <2>2, <3>1 DEF Replies, Plain
      <3>3. n > 0 /\ Pending(n - 1) /\ wire[n].says = "<proceed>"
        BY <1>4, <1>5, <2>2 DEF Answering, Asked, Agreed
      <3>4. Pending(n - 1)'
        BY <1>2, <1>7, <3>2, <3>3
      <3>5. /\ Len(wire') - 1 = n /\ Len(wire') - 2 = n - 1 /\ Len(wire') > 1
            /\ wire'[n + 1] = a.reply /\ Len(wire') = n + 1
        BY <1>2, <1>6, <3>2, <3>3
      <3>6. wire'[n] = wire[n]
        BY <1>2, <1>6, <3>2, <3>3
      <3>7. Pending(Len(wire) - 2)' /\ (wire[Len(wire) - 1].says = "<proceed>")' /\ (wire[Len(wire)].says = "</proceed>")'
        BY <3>2, <3>3, <3>4, <3>5, <3>6
      <3>8. Answering'
        BY <1>1, <1>2, <2>2, <3>1, <3>5, <3>7 DEF Answering
      <3> QED
        BY <1>2, <3>1, <3>2, <3>8
    <2> QED
      BY <1>8, <2>1, <2>2
  <1>10. InDialogue'
    BY <1>1, <1>4, <1>9 DEF InDialogue, Waits_of
  <1>11. wire' \in Seq(Replies(proto)) /\ Len(wire') <= MaxWire
    BY <1>1, <1>2, <1>5, <1>6, <1>9, StarttlsAssumption
  <1>12. \A i \in DOMAIN wire' : wire'[i] \in Replies(proto)
    BY <1>11
  <1>13. HonestServed' /\ ArmedInv'
    BY <1>1 DEF HonestServed, ArmedInv, Reading
  <1>14. smooth' \in BOOLEAN /\ (smooth' => honest')
    BY <1>1, <1>2, <1>9
  <1>15. ConnTypeOK'
    BY <1>1, <1>9, <1>11, <1>12, <1>14
  <1>16. DialogueInv'
    BY <1>1, <1>10, <1>11, <1>14, <1>15
  <1> QED
    BY <1>1, <1>13, <1>16

\* What a step may do to the connection: a step of its own, time, its end, its
\* beginning, or nothing.
WireStep ==
    \/ stage = "talk" /\ stage' = stage /\ Connection
    \/ stage = "talk" /\ stage' = stage /\ Reading /\ Waits /\ UNCHANGED conn
    \/ stage' # "talk" /\ Close
    \/ stage # "talk" /\ stage' # "talk" /\ UNCHANGED conn
    \/ stage' = "talk" /\ elapsed' = elapsed /\ \E p \in Protocols : Connected(p)

LEMMA FailIsWireStep == fail => WireStep /\ run' = run
  BY DEF fail, Report, WireStep

LEMMA StopIsWireStep ==
  ASSUME Stops, stage # "talk"
  PROVE  WireStep /\ run' = run
  BY DEF Stops, WireStep

LEMMA ToPublisherIsWireStep == ToPublisher => WireStep /\ run' = run
  BY DEF ToPublisher, Report, WireStep, keep

LEMMA EveryStepIsWireStep ==
  ASSUME run \in Runs, Next
  PROVE  WireStep /\ run' = run
  <1>1. CASE Time
    BY <1>1 DEF Time, Blocked, keep, WireStep
  <1>2. CASE Start \/ MxAnswered \/ TlsaAnswered \/ ListingRead \/ NoTransfer \/ Finish
    BY <1>2 DEF Start, MxAnswered, TlsaAnswered, ListingRead, NoTransfer, Finish, keep, WireStep
  <1>3. CASE Chosen \/ MxFails \/ ListingFails \/ NoCertificate
    BY <1>3, StopIsWireStep DEF Chosen, MxFails, ListingFails, NoCertificate, WireStep
  <1>4. CASE Next_port \/ Fetch
    BY <1>4, FailIsWireStep DEF Next_port, Fetch, keep, WireStep
  <1>5. CASE TalkFailed \/ TlsaFails \/ ResolveFails \/ ConnectTimesOut \/ Unreadable
    BY <1>5, FailIsWireStep DEF TalkFailed, TlsaFails, ResolveFails, ConnectTimesOut, Unreadable,
         Aborts, WireStep
  <1>6. CASE Judge \/ TlsaListed \/ Kept \/ Published \/ NotManaged \/ PublisherFails
    BY <1>6 DEF Judge, TlsaListed, Kept, Published, NotManaged, PublisherFails, Report, Aborts, WireStep
  <1>7. CASE Fetched \/ Listed
    BY <1>7, ToPublisherIsWireStep DEF Fetched, Listed, keep, WireStep
  <1>8. CASE Resolved \/ Refused
    BY <1>8, FailIsWireStep DEF Resolved, Refused, WireStep
  <1>9. CASE Connects
    <2>1. resolve(port) \in Protocols
      BY VerifyAssumption DEF resolve, for_port, Protocols, Commands
    <2> QED
      BY <1>9, <2>1, FailIsWireStep DEF Connects, keep, WireStep
  <1>10. CASE stage = "talk" /\ Connection /\ UNCHANGED <<stage, keep>>
    BY <1>10 DEF keep, WireStep
  <1> QED
    BY <1>1, <1>2, <1>3, <1>4, <1>5, <1>6, <1>7, <1>8, <1>9, <1>10
       DEF Next, Proceeds, TimesOut, Talk, Connection

LEMMA ConnectedKeeps ==
  ASSUME WireInv, run' = run, stage' = "talk", elapsed' = elapsed, NEW p \in Protocols, Connected(p)
  PROVE  WireInv'
  <1> USE StarttlsAssumption DEF WireInv, ArmedInv, DialogueInv, ConnTypeOK
  <1>1. /\ Arm /\ proto' = p /\ talk' = Opening(p) /\ lines' = 0 /\ wire' = <<>>
        /\ honest' \in BOOLEAN /\ todo' = Greeting(p) /\ smooth' = honest'
    BY DEF Connected
  <1>2. (talk' = Tls /\ p = "none") \/ talk' \in Waits_of(p)
    BY <1>1 DEF Opening, Waits_of, Protocols
  <1>3. talk' \in Talks_of(p) \union {Tls} /\ talk' \in Talks \ {Closed, Up, Failed}
    <2>1. Waits_of(p) \subseteq Talks \ {Closed, Up, Failed}
      BY DEF Waits_of, Talks, Protocols, Closed, Up, Failed
    <2>2. Tls \in Talks \ {Closed, Up, Failed}
      BY DEF Talks, Tls, Closed, Up, Failed
    <2> QED
      BY <1>2, <2>1, <2>2 DEF Talks_of
  <1>4. InDialogue'
    <2>1. CASE p = "none"
      BY <1>1, <2>1 DEF InDialogue, Opening, Greeting, Tls
    <2>2. CASE p # "none"
      <3>1. talk' # Tls /\ talk' \in Waits_of(p)
        BY <1>2, <2>2 DEF Waits_of, Tls, Protocols
      <3>2. todo' = Asked(talk)'
        BY <1>1, <2>2 DEF Opening, Greeting, Asked, Protocols
      <3>3. Len(wire') = 0 /\ Pending(0)'
        BY <1>1 DEF Pending
      <3>4. Answering'
        BY <3>2, <3>3 DEF Answering
      <3> QED
        BY <1>1, <3>1, <3>4 DEF InDialogue
    <2> QED
      BY <2>1, <2>2
  <1>5. HonestServed'
    BY <1>3 DEF HonestServed
  <1>6. ArmedInv'
    BY <1>1, <1>3, TimeoutAssumption DEF Arm, Spent
  <1>7. ConnTypeOK'
    BY <1>1, <1>3 DEF Greeting
  <1>8. wire' \in Seq(Replies(proto'))
    BY <1>1
  <1> QED
    BY <1>1, <1>3, <1>4, <1>5, <1>6, <1>7, <1>8

LEMMA CloseKeeps ==
  ASSUME WireInv, run' = run, stage' # "talk", elapsed' \in 0..Limit, wait' \in Nat, Close
  PROVE  WireInv'
  <1>1. ConnTypeOK' /\ ~Reading'
    <2>1. talk' \in Talks /\ ~Reading'
      BY DEF Close, Talks, Reading
    <2>2. wire' = <<>> /\ Len(wire') = 0 /\ DOMAIN wire' = {}
      BY DEF Close
    <2>3. proto' \in Protocols /\ lines' = 0 /\ todo' = "nothing" /\ honest' = FALSE /\ smooth' = FALSE
      BY DEF Close, Protocols
    <2>4. \A i \in DOMAIN wire' : wire'[i] \in Replies(proto)'
      BY <2>2
    <2>5. lines' \in 0..MaxLines /\ Len(wire') <= MaxWire
      BY <2>2, <2>3, StarttlsAssumption
    <2> QED
      BY <2>1, <2>3, <2>4, <2>5 DEF ConnTypeOK
  <1>2. wire' \in Seq(Replies(proto))'
    BY DEF Close
  <1>3. HonestServed'
    BY DEF Close, HonestServed
  <1> QED
    BY <1>1, <1>2, <1>3 DEF WireInv, ArmedInv, DialogueInv, Close, Closed

LEMMA ConnectionKeeps ==
  ASSUME WireInv, stage = "talk", stage' = stage, run' = run, Connection
  PROVE  WireInv'
  BY ReadKeeps, OtherConnectionKeeps, HonestServerKeeps DEF Connection

\* Nothing of the connection changes: only time goes by, in a read or elsewhere.
LEMMA ConnSameKeeps ==
  ASSUME WireInv, run' = run, UNCHANGED conn, (stage' = "talk") = (stage = "talk"),
         elapsed' \in 0..Limit, wait' \in Nat, elapsed <= elapsed',
         Reading => elapsed' + wait' = elapsed + wait
  PROVE  WireInv'
  <1>1. DialogueInv'
    BY DialogueStays DEF WireInv, DialogueInv, ConnTypeOK, conn, Reading
  <1>2. HonestServed'
    BY TimeoutAssumption DEF WireInv, ArmedInv, HonestServed, Spent, conn
  <1>3. ArmedInv'
    BY DEF WireInv, ArmedInv, conn, Reading
  <1> QED
    BY <1>1, <1>2, <1>3 DEF WireInv

LEMMA WireNext ==
  ASSUME BudgetInv, WireInv, [Next]_vars
  PROVE  WireInv'
  <1>0. BudgetInv'
    BY BudgetNext
  <1>1. CASE UNCHANGED vars
    BY <1>1, ConnSameKeeps DEF WireInv, ArmedInv, vars
  <1>2. CASE Next
    <2>1. WireStep /\ run' = run
      BY <1>2, EveryStepIsWireStep DEF WireInv
    <2>2. CASE stage = "talk" /\ stage' = stage /\ Connection
      BY <2>1, <2>2, ConnectionKeeps
    <2>3. elapsed' \in 0..Limit /\ wait' \in Nat
      BY <1>0 DEF BudgetInv
    <2>4. CASE stage = "talk" /\ stage' = stage /\ Reading /\ Waits /\ UNCHANGED conn
      <3>1. elapsed < Limit
        BY <2>4, TimeoutAssumption DEF Waits, WireInv, ArmedInv
      <3>2. elapsed' + wait' = elapsed + wait /\ elapsed <= elapsed'
        BY <2>4, <3>1, TimeoutAssumption DEF Waits, OneMore, WireInv, ArmedInv
      <3> QED
        BY <2>1, <2>3, <2>4, <3>2, ConnSameKeeps
    <2>5. CASE stage' # "talk" /\ Close
      BY <2>1, <2>3, <2>5, CloseKeeps
    <2>6. CASE stage # "talk" /\ stage' # "talk" /\ UNCHANGED conn
      <3>1. ~Reading
        BY <2>6 DEF WireInv, ArmedInv, Reading
      <3>2. elapsed <= elapsed'
        BY <1>0, <1>2, EveryStepIsBudgetStep, TimeoutAssumption
           DEF BudgetStep, BudgetInv, Waits, Lingers, OneMore
      <3> QED
        BY <2>1, <2>3, <2>6, <3>1, <3>2, ConnSameKeeps
    <2>7. CASE stage' = "talk" /\ elapsed' = elapsed /\ \E p \in Protocols : Connected(p)
      BY <2>1, <2>7, ConnectedKeeps
    <2> QED
      BY <2>1, <2>2, <2>4, <2>5, <2>6, <2>7 DEF WireStep
  <1> QED
    BY <1>1, <1>2

LEMMA WireInit == Init => WireInv
  <1> SUFFICES ASSUME Init PROVE WireInv
    OBVIOUS
  <1>1. ConnTypeOK /\ ~Reading /\ proto = "none" /\ wire = <<>> /\ smooth = FALSE
    <2>1. talk \in Talks /\ ~Reading
      BY DEF Init, ConnInit, Talks, Reading
    <2>2. wire = <<>> /\ Len(wire) = 0 /\ DOMAIN wire = {}
      BY DEF Init, ConnInit
    <2>3. proto \in Protocols /\ proto = "none" /\ lines = 0 /\ todo = "nothing" /\ honest = FALSE /\ smooth = FALSE
      BY DEF Init, ConnInit, Protocols
    <2>4. \A i \in DOMAIN wire : wire[i] \in Replies(proto)
      BY <2>2
    <2>5. lines \in 0..MaxLines /\ Len(wire) <= MaxWire
      BY <2>2, <2>3, StarttlsAssumption
    <2>6. ConnTypeOK
      BY <2>1, <2>3, <2>4, <2>5 DEF ConnTypeOK
    <2> QED
      BY <2>1, <2>2, <2>3, <2>6
  <1>2. wire \in Seq(Replies(proto))
    BY <1>1
  <1> QED
    BY <1>1, <1>2, TimeoutAssumption
       DEF Init, ConnInit, WireInv, ArmedInv, DialogueInv, HonestServed, Closed

\* Client and server stay in step, whatever the protocol, the limits and the timing.
THEOREM WireInvariance == Spec => [](BudgetInv /\ WireInv)
  <1>1. Init => BudgetInv /\ WireInv
    BY BudgetInit, WireInit
  <1>2. BudgetInv /\ WireInv /\ [Next]_vars => (BudgetInv /\ WireInv)'
    BY BudgetNext, WireNext
  <1> QED
    BY <1>1, <1>2, PTL DEF Spec

\* The handshake begins at the client when it does at a server that follows its
\* protocol, with nothing of the dialogue left on the wire (xmpp_read_element).
THEOREM TlsInStepHolds == Spec => []TlsInStep
  <1>1. WireInv => TlsInStep
    BY DEF WireInv, DialogueInv, InDialogue, TlsInStep, Reading, Tls, Closed, Up, Failed
  <1> QED
    BY <1>1, WireInvariance, PTL

\* A server that follows its protocol, agrees, stays within the limit on lines and greets
\* without BYE in its text (IMAP) is turned down by nothing but the budget: no reply that
\* comes before the one that counts is taken for it, in any of the four dialogues.
THEOREM HonestServedHolds == Spec => []HonestServed
  <1>1. WireInv => HonestServed
    BY DEF WireInv
  <1> QED
    BY <1>1, WireInvariance, PTL
=============================================================================
