------------------------------- MODULE MCBitSet -------------------------------
(* Instances of BitSet for TLC. *)
EXTENDS BitSet, TLC

MCBits == 0..3

Symmetric == Permutations(Handles)
=============================================================================
