----------------------------- MODULE MCPackages -----------------------------
(* An instance of Packages: app has two actors, the core package base none.*)
EXTENDS Packages, TLC

CONSTANTS app, base, one, two

CodeOf == app :> (one :> "text1" @@ two :> "text2") @@ base :> <<>>
Symmetry == Permutations(Clients)
=============================================================================
