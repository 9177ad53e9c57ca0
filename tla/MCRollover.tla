----------------------------- MODULE MCRollover -----------------------------
(* Small instances of Rollover for TLC.                                      *)
EXTENDS RolloverInv, TLC

\* The processes are interchangeable.
ProcSymmetry == Permutations(Procs)
=============================================================================
