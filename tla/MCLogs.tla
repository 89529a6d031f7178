------------------------------- MODULE MCLogs -------------------------------
(* An instance of Logs: batches of two logs, two processes.                 *)
EXTENDS Logs, TLC

CONSTANTS p, q
Symmetry == Permutations(Procs)
=============================================================================
