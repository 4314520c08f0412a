------------------------------ MODULE Definitions ------------------------------
(***************************************************************************)
(* What a symbol table of rlex promises (lib/hash.c): for every name the   *)
(* symbols defined with it, the newest first.  "If two macros have the     *)
(* same name, the second one takes precedence" (nfa.c:251-252).            *)
(***************************************************************************)
EXTENDS Sequences, SequencesExt

CONSTANTS Names, Syms

VARIABLE defs

Init == defs = [n \in Names |-> <<>>]

Define(n, s) ==
    /\ \A m \in Names : s \notin ToSet(defs[m])
    /\ defs' = [defs EXCEPT ![n] = <<s>> \o @]

Undefine(n, s) ==
    \E k \in 1..Len(defs[n]) :
        /\ defs[n][k] = s
        /\ defs' = [defs EXCEPT ![n] = RemoveAt(@, k)]

Next == \E n \in Names, s \in Syms : Define(n, s) \/ Undefine(n, s)

Spec == Init /\ [][Next]_defs

=============================================================================
