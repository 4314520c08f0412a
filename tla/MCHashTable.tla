------------------------------ MODULE MCHashTable ------------------------------
(* Instances of HashTable for TLC: three names, two of which share a chain. *)
EXTENDS HashTable, TLC

CONSTANTS x, y, z

MCNames == {x, y, z}
MCHash == (x :> 0) @@ (y :> 2) @@ (z :> 3)

Symmetric == Permutations(Syms)
=============================================================================
