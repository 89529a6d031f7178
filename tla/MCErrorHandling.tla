-------------------------- MODULE MCErrorHandling --------------------------
(* An instance of ErrorHandling: batches of one log, two processes.        *)
EXTENDS ErrorHandling, TLC

CONSTANTS p, q
Symmetry == Permutations(Procs)
=============================================================================
