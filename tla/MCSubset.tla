------------------------------- MODULE MCSubset -------------------------------
(* Instances of SubsetConstruction for TLC: NFAs of five states over two     *)
(* characters.  States 3 and 4 accept, as the ends of two rules; the others  *)
(* have any edge that the construction of nfa.c can give them.               *)
EXTENDS SubsetConstruction

AnyNode(edge, bitset, next, next2) ==
    [edge |-> edge, bitset |-> bitset, next |-> next, next2 |-> next2,
     accept |-> NULL, anchor |-> 0]

Accepting(string, anch) ==
    [edge |-> EMPTY, bitset |-> {}, next |-> NONE, next2 |-> NONE,
     accept |-> string, anchor |-> anch]

Forks == {AnyNode(EPSILON, {}, i, j) : i \in 0..4, j \in 0..4 \union {NONE}}
Moves == {AnyNode(ch, {}, i, NONE) : ch \in Alphabet, i \in 0..4}
Classes == {AnyNode(CCL, {0, 1}, i, NONE) : i \in 0..4}

Machine(n0, n1, n2) ==
    (0 :> n0) @@ (1 :> n1) @@ (2 :> n2) @@ (3 :> Accepting(2, 1)) @@ (4 :> Accepting(1, 0))

MCNfas ==
    {[node |-> Machine(n0, n1, n2), start |-> 0] :
        n0 \in Forks, n1 \in Moves \union Classes \union {AnyNode(EPSILON, {}, i, 0) : i \in 1..4},
        n2 \in Classes \union Moves}
=============================================================================
