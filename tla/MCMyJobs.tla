------------------------------ MODULE MCMyJobs ------------------------------
(* Instance of MyJobs for TLC. *)
EXTENDS MyJobsRefinement, TLC

CONSTANTS w1, w2, n1

Symmetry == Permutations(Workers)
=============================================================================
