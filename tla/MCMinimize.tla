------------------------------ MODULE MCMinimize ------------------------------
(* Instances of Minimize for TLC.                                            *)
EXTENDS Minimize, TLC

Row(n) == [Alphabet -> {F} \union 0..n-1]

Arcs(s, t) == (0 :> s) @@ (1 :> t)

Label(str, anch) == [string |-> str, anchor |-> anch]

\* States as make_dtran() numbers them: each is first reached from a lower one.
Discovered(d) ==
    \A s \in DOMAIN d \ {0} : \E t \in 0..s-1, c \in Alphabet : d[t][c] = s

SmallDtrans == UNION {{d \in [0..n-1 -> Row(n)] : Discovered(d)} : n \in {1, 3}}
SmallAccepts == [0..0 -> {Label(1, 0)}] \union
                [0..2 -> {Label(NULL, 0), Label(1, 0), Label(2, 1)}]

\* The machine of the rule (c?|ca)c*: several states that have just read a c.
StarsDtrans ==
    {(0 :> Arcs(F, 1)) @@ (1 :> Arcs(3, 2)) @@ (2 :> Arcs(F, 2)) @@ (3 :> Arcs(F, 2))}
StarsAccepts == [0..3 -> {Label(1, 0)}]

\* That of the rules "^x |" and "ab", which share their code: state 0 goes to 1 on the
\* first character of ab and to 2 on a newline, and they to the ends of the rules.
SharedDtrans ==
    {(0 :> Arcs(1, 2)) @@ (1 :> Arcs(3, F)) @@ (2 :> Arcs(4, F)) @@ (3 :> Arcs(F, F)) @@ (4 :> Arcs(F, F))}
SharedAccepts ==
    {(0 :> Label(NULL, 0)) @@ (1 :> Label(NULL, 0)) @@ (2 :> Label(NULL, 0))
      @@ (3 :> Label(1, 0)) @@ (4 :> Label(1, 1))}
=============================================================================
