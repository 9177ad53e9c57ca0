--------------------------- MODULE MCRolloverLock ---------------------------
(* Small instances of RolloverLock for TLC.                                  *)
EXTENDS RolloverLock, TLC

\* The pids are interchangeable.
ProcSymmetry == Permutations(Procs)
=============================================================================
