---------------------------- MODULE MCPublishers ----------------------------
(* Small instances of Publishers for TLC.                                    *)
EXTENDS Publishers, TLC

\* Clients are interchangeable, and so are hashes and ids.
Symmetry == Permutations(Clients) \union Permutations(Hashes) \union Permutations(Ids)
=============================================================================
