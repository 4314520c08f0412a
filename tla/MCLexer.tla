------------------------------- MODULE MCLexer -------------------------------
(* Instances of Lexer for TLC: small state machines and short files.         *)
EXTENDS Lexer

a == 11
b == 12
x == 13

MCChars == {NL, a, b, x}

\* The tables of a machine: its transitions and its accepting codes.
Table(n, arcs) ==
    [s \in 0..n |-> [c \in MCChars \union {NUL} |->
        IF \E t \in 0..n : <<s, c, t>> \in arcs
        THEN CHOOSE t \in 0..n : <<s, c, t>> \in arcs ELSE YYF]]

Accepting(n, codes) == [s \in 0..n |-> IF s \in DOMAIN codes THEN codes[s] ELSE 0]

\* a(ab)?   b   \n   ^b   b$   ^b$
AnchorsNext == Table(8,
    {<<0,a,1>>, <<1,a,2>>, <<2,b,3>>, <<0,b,4>>, <<0,NL,5>>, <<5,b,6>>, <<4,NL,7>>, <<6,NL,8>>})
AnchorsAccept == Accepting(8,
    (1 :> 4) @@ (3 :> 4) @@ (4 :> 4) @@ (5 :> 4) @@ (6 :> 1) @@ (7 :> 2) @@ (8 :> 3))

\* a+   ab   \n
WordsNext == Table(4, {<<0,a,1>>, <<1,a,2>>, <<2,a,2>>, <<1,b,3>>, <<0,NL,4>>})
WordsAccept == Accepting(4, (1 :> 4) @@ (2 :> 4) @@ (3 :> 4) @@ (4 :> 4))

\* b   b$   b\naa   a   \n
LongerNext == Table(6,
    {<<0,b,1>>, <<1,NL,2>>, <<2,a,3>>, <<3,a,4>>, <<0,a,5>>, <<0,NL,6>>})
LongerAccept == Accepting(6, (1 :> 4) @@ (2 :> 2) @@ (4 :> 4) @@ (5 :> 4) @@ (6 :> 4))

\* aab   b   \n
KeywordNext == Table(5, {<<0,a,1>>, <<1,a,2>>, <<2,b,3>>, <<0,b,4>>, <<0,NL,5>>})
KeywordAccept == Accepting(5, (3 :> 4) @@ (4 :> 4) @@ (5 :> 4))

\* [a\n]*, minimized: the start state is the only state.
NullableNext == Table(0, {<<0,a,0>>, <<0,NL,0>>})
NullableAccept == Accepting(0, (0 :> 4))

Texts(chars, lengths) == UNION {[1..n -> chars] : n \in lengths}

\* No file here ends where a read ends.
AnchoredFiles == Texts({NL, a, b}, 1..4) \union Texts({a, b}, {5, 7})

\* Lexemes over the limit, bad input, two files, and an action that reads past the buffer.
RoughFiles == {<<a, b>>, <<b, a, a, NL, a>>, <<a, a, a, a, a, a, a>>, <<a, a, a, b, a, b, a, a, NL>>,
               <<a, NL, a, b, NL, a, a, NL>>}

\* Enough of one character for the lexeme to reach the limit.
BadInsideFiles == {<<a, x, a, b>>}
BadFiles == {<<x, x, x, x, x, x, x>>}
LongFiles == {<<a, a, a, a, a, a, b>>}

OneCharFiles == {<<a>>, <<a, a>>}
=============================================================================
