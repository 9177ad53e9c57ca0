---------------------------- MODULE RolloverJob -----------------------------
(***************************************************************************)
(* A job of `gentlsa rollover', as it is in its file and in the memory of  *)
(* the processes that execute it, and its moves from phase to phase.       *)
(*                                                                         *)
(* A deadline stored in a job is represented by remaining(deadline, now),  *)
(* the only function of it the code computes, a missing deadline by 0.     *)
(*                                                                         *)
(* A certificate is the number of its renewal, and stands for the SPKI     *)
(* hash that its TLSA 3 1 1 record holds: every renewal has a new key.     *)
(***************************************************************************)
EXTENDS Integers

CONSTANTS
    MaxCert,  \* bound: number of renewals
    TTL,      \* the job's ttl
    NoJob     \* no job file; no job in memory

\* RFC 7671: two TTLs, the record's own and one for the propagation of the zone.
WAIT_TTL_MULTIPLIER == 2
Wait == WAIT_TTL_MULTIPLIER * TTL

Certs == 0..MaxCert

Phases == {"publish", "wait_before_reload", "reload", "wait_before_prune", "prune"}

Job == [certificate : Certs, phase : Phases,
        reload_after : 0..Wait, prune_after : 0..(2 * Wait)]

ASSUME JobAssumption == MaxCert \in Nat /\ TTL \in Nat /\ NoJob \notin Job

NewJob(c) == [certificate |-> c, phase |-> "publish", reload_after |-> 0, prune_after |-> 0]

\* Faulty: one TTL, the record's own, before the reload.
mark_published_one_ttl(j) == [j EXCEPT !.phase = "wait_before_reload",
                                       !.reload_after = TTL, !.prune_after = 2 * TTL]

mark_published(j) == [j EXCEPT !.phase = "wait_before_reload",
                               !.reload_after = Wait, !.prune_after = 2 * Wait]

mark_waiting_reload(j) == [j EXCEPT !.phase = "reload"]

\* Faulty: a late reload leaves the deadline that was set when the hash was published.
mark_reloaded_same_deadline(j) == [j EXCEPT !.phase = "wait_before_prune"]

mark_reloaded(j) == [j EXCEPT !.phase = "wait_before_prune",
                              !.prune_after = IF @ > Wait THEN @ ELSE Wait]

mark_ready_to_prune(j) == [j EXCEPT !.phase = "prune"]

\* Faulty: a deadline that has passed is not saturated.
LaterUnsaturated(j) ==
    IF j = NoJob THEN NoJob
    ELSE [j EXCEPT !.reload_after = @ - 1, !.prune_after = @ - 1]

\* What is left of the job's deadlines one unit of time later.
Later(j) ==
    IF j = NoJob THEN NoJob
    ELSE [j EXCEPT !.reload_after = IF @ = 0 THEN 0 ELSE @ - 1,
                   !.prune_after = IF @ = 0 THEN 0 ELSE @ - 1]
=============================================================================
