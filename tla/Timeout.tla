------------------------------ MODULE Timeout ------------------------------
(***************************************************************************)
(* The budget of --timeout.  One deadline for the process: every network   *)
(* call is armed with what is left of it, and returns with an error when   *)
(* that has gone by.  Calls, not the computation between them, take time.  *)
(***************************************************************************)
EXTENDS Integers

CONSTANT Limit   \* --timeout

ASSUME TimeoutAssumption == Limit \in Nat \ {0}

VARIABLES
    elapsed,  \* since init; what goes beyond Limit makes no difference
    wait      \* for how long the call that the process is in may still take

\* remaining() is an error.
Spent == elapsed >= Limit

\* Faulty: each call may take the whole of --timeout.
Arm_per_call == wait' = Limit

\* The timeout of the next call: what remaining() returns.
Arm == ~Spent /\ wait' = Limit - elapsed

OneMore == IF elapsed < Limit THEN elapsed + 1 ELSE Limit

\* A unit of time goes by in a call with a timeout.
Waits == wait > 0 /\ elapsed' = OneMore /\ wait' = wait - 1

\* A unit of time goes by in a call without one.
Lingers == ~Spent /\ elapsed' = OneMore /\ UNCHANGED wait
=============================================================================
