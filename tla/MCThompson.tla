------------------------------ MODULE MCThompson ------------------------------
(* Instances of Thompson for TLC: rules made from regular expressions over two   *)
(* characters.                                                                   *)
EXTENDS Thompson

a == 0
b == 1
MCChars == {a, b, 2}

Token(name, ch) == <<[tok |-> name, lexeme |-> ch]>>
Open == Token("OPEN_PAREN", 40)
Close == Token("CLOSE_PAREN", 41)

One(ch) == [op |-> "class", chars |-> {ch}]
Dot == [op |-> "class", chars |-> {a, b}]
AnyChar == [op |-> "class", chars |-> MCChars]

\* How an expression is written: parentheses only where the grammar needs them.
Level(re) == IF re.op = "or" THEN 0 ELSE IF re.op = "cat" THEN 1
             ELSE IF re.op = "class" THEN 3 ELSE 2

RECURSIVE Text(_)
Within(re, level) == IF Level(re) >= level THEN Text(re) ELSE Open \o Text(re) \o Close
Text(re) ==
    CASE re = Dot -> Token("ANY", 46)
      [] re = AnyChar -> Token("CCL", MCChars)
      [] re.op = "class" -> Token("L", CHOOSE ch \in re.chars : TRUE)
      [] re.op = "or" -> Within(re.l, 0) \o Token("OR", 124) \o Within(re.r, 1)
      [] re.op = "cat" -> Within(re.l, 1) \o Within(re.r, 2)
      [] re.op = "*" -> Within(re.l, 3) \o Token("CLOSURE", 42)
      [] re.op = "+" -> Within(re.l, 3) \o Token("PLUS_CLOSE", 43)
      [] re.op = "?" -> Within(re.l, 3) \o Token("OPTIONAL", 63)

ARule(re, bol, eol, shared) ==
    [ re |-> re, bol |-> bol, eol |-> eol, shared |-> shared,
      toks |-> (IF bol THEN Token("AT_BOL", 94) ELSE <<>>) \o Text(re)
               \o (IF eol THEN Token("AT_EOL", 36) ELSE <<>>) ]

Raw(re, toks) == [re |-> re, bol |-> FALSE, eol |-> FALSE, shared |-> FALSE, toks |-> toks]

Unary(S) == {[op |-> o, l |-> re] : o \in {"*", "+", "?"}, re \in S}
Binary(S, T) == {[op |-> o, l |-> l, r |-> r] : o \in {"or", "cat"}, l \in S, r \in T}

Atoms == {One(a), One(b), Dot}
Small == Atoms \union Unary(Atoms) \union Binary(Atoms, Atoms)
Medium ==
    Unary(Small) \union Binary(Small, {One(b)} \union Unary({One(a)}))
    \union Binary({One(a)}, Small)

Seq2(l, r) == [op |-> "cat", l |-> l, r |-> r]
Nested(n) ==
    LET nest[k \in 0..n] == IF k = 0 THEN One(b) ELSE Seq2(One(a), nest[k-1]) IN nest[n]

\* The same with every operand but the innermost optional: short texts, deep parentheses.
NestedOptions(n) ==
    LET nest[k \in 0..n] == IF k = 0 THEN One(b) ELSE Seq2([op |-> "?", l |-> One(a)], nest[k-1])
    IN  nest[n]

Plain(S) == {ARule(re, FALSE, FALSE, FALSE) : re \in S}

\* Any expression, then one of a few, anchored or sharing its code, then another.
AnyRules ==
    << Plain(Medium),
       {ARule(re, bol, eol, sh) : re \in {Seq2(One(b), One(a))},
                                  bol \in BOOLEAN, eol \in BOOLEAN, sh \in BOOLEAN},
       Plain({[op |-> "*", l |-> Seq2(AnyChar, Dot)]}) >>

\* Nested parentheses and what follows them, an unclosed one, a chain of rules.
DeepRules ==
    LET deep == Plain({NestedOptions(n) : n \in 1..5} \union {Nested(3), [op |-> "+", l |-> Nested(2)]})
                \union {Raw(One(a), Open \o Token("L", a))}
    IN  <<deep, deep \union Plain({AnyChar}), deep>>

MCRuleLists == {AnyRules, DeepRules}

\* Nested parentheses before a rule for any character; and closures after nothing.
OrderRules == {<< Plain({NestedOptions(n) : n \in 1..3}), Plain({AnyChar}) >>}
DanglingRules == {<< {Raw(One(a), Token("CLOSURE", 42) \o Token("L", a))} \union Plain(Small) >>}
=============================================================================
