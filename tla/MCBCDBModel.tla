---------------------------- MODULE MCBCDBModel ----------------------------
(* Instance of BCDBModel for TLC. *)
EXTENDS BCDBModel, TLC

CONSTANTS p1, p2, a, b

Symmetry == Permutations(Procs) \cup Permutations(Names)
=============================================================================
