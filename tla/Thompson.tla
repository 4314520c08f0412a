------------------------------- MODULE Thompson -------------------------------
(***************************************************************************)
(* From the rules of a lex file to one NFA (nfa.c): a recursive-descent    *)
(* parser builds Thompson's machine for each rule out of nodes that come   *)
(* from an array and, when they are given back, from a small stack.  A     *)
(* step parses one rule, as one turn of the loop of machine().             *)
(*                                                                         *)
(* A rule is the sequence of tokens that advance() makes of its text; a    *)
(* token is [tok, lexeme], the lexeme of an operator being its character.  *)
(* A character class is one token, CCL, whose lexeme is the set.  The      *)
(* parser is in a record q: the tokens left, the nodes (Nfa_states), the   *)
(* counters Nstates and Next_alloc, the discard stack, and the error that  *)
(* parse_err() ends the program with.  A pointer to a node is its index.   *)
(***************************************************************************)
EXTENDS Integers, Sequences, SequencesExt, FiniteSets

CONSTANTS
    NFA_MAX,    \* size of the array of nodes (1024 in the code)
    SSIZE,      \* size of the discard stack (32 in the code)
    Chars, NL,  \* the characters, and the newline among them
    RuleLists,  \* lists of sets of rules: the k-th rule of a file is one of the k-th set
    WordLength  \* the words the machine is tried on have at most this length

ASSUME ThompsonAssumption ==
    /\ NFA_MAX \in Nat \ {0} /\ SSIZE \in Nat /\ WordLength \in Nat
    /\ NL \in Chars /\ Chars \subseteq Nat

NULL == -1       \* no node; no accepting string
EPSILON == -1
CCL == -2
EMPTY == -3

START == 1       \* bits of the anchor field
ENDLINE == 2

Unused == [edge |-> 0, bitset |-> {}, next |-> NULL, next2 |-> NULL,
           accept |-> NULL, anchor |-> 0]

VARIABLES
    rules,      \* history: the rules read so far
    q,          \* the parser
    start, p,   \* of machine(): the first node, the last node of the chain of rules
    saved,      \* number of accepting strings stored by save()
    pc

vars == <<rules, q, start, p, saved, pc>>

-----------------------------------------------------------------------------
(* Tokens and nodes *)

Tok(r) == IF r.input = <<>> THEN "EOS" ELSE Head(r.input).tok

Match(r, toks) == Tok(r) \in toks

advance(r) == IF r.input = <<>> THEN r ELSE [r EXCEPT !.input = Tail(@)]

parse_err(r, type) == IF r.err = "none" THEN [r EXCEPT !.err = type] ELSE r

\* The node new() will give out: the last one given back, or the next of the array.
Top(r) == IF r.stack = <<>> THEN r.nalloc ELSE Last(r.stack)

\* Mutants: the node stays on the stack; or the stack is never used.
new_KeepsStack(r) ==
    LET i == Top(r)
    IN  IF r.nstates + 1 >= NFA_MAX THEN [r |-> parse_err(r, "length"), i |-> 0]
        ELSE [ r |-> [r EXCEPT !.nstates = @ + 1, !.node[i].edge = EPSILON,
                               !.nalloc = IF r.stack = <<>> THEN @ + 1 ELSE @],
               i |-> i ]
new_NoReuse(r) ==
    IF r.nstates + 1 >= NFA_MAX THEN [r |-> parse_err(r, "length"), i |-> 0]
    ELSE [ r |-> [r EXCEPT !.nstates = @ + 1, !.node[r.nalloc].edge = EPSILON, !.nalloc = @ + 1],
           i |-> r.nalloc ]

new(r) ==
    LET i == Top(r)
    IN  IF r.nstates + 1 >= NFA_MAX THEN [r |-> parse_err(r, "length"), i |-> 0]
        ELSE [ r |-> [r EXCEPT !.nstates = @ + 1, !.node[i].edge = EPSILON,
                               !.nalloc = IF r.stack = <<>> THEN @ + 1 ELSE @,
                               !.stack = IF @ = <<>> THEN @ ELSE Front(@)],
               i |-> i ]

\* Mutant: the node is lost.
discard_Leaks(r, i) == [r EXCEPT !.nstates = @ - 1, !.node[i] = [Unused EXCEPT !.edge = EMPTY]]

discard(r, i) ==
    LET d == [r EXCEPT !.nstates = @ - 1, !.node[i] = [Unused EXCEPT !.edge = EMPTY],
                       !.stack = Append(@, i)]
    IN  IF Len(d.stack) > SSIZE THEN parse_err(d, "stack") ELSE d

-----------------------------------------------------------------------------
(* The parser.  Each procedure returns [r, s, e]: the parser after it, and   *)
(* the start and the end of the machine it built.                            *)

first_in_cat(r) == ~Match(r, {"CLOSE_PAREN", "AT_EOL", "OR", "EOS"})

\* Two nodes, as [r, s, e].
Ends(s, e) == [r |-> e.r, s |-> s.i, e |-> e.i]
Second(s) == Ends(s, new(s.r))
NewPair(r) == Second(new(r))

RECURSIVE expr(_), Alternatives(_), cat_expr(_), Factors(_), term(_)

expr(r) == Alternatives(cat_expr(r))

\* The loop of expr(): a fork n.s before, and a join n.e behind, the machines m and e2.
Fork(m, e2, n) ==
    [n EXCEPT !.r.node = [@ EXCEPT ![n.s].next = m.s, ![n.s].next2 = e2.s,
                                   ![m.e].next = n.e, ![e2.e].next = n.e]]
Either(m, e2) == Fork(m, e2, NewPair(e2.r))
Alternatives(m) ==
    IF Match(m.r, {"OR"}) THEN Alternatives(Either(m, cat_expr(advance(m.r)))) ELSE m

\* The closures: a way around the machine m, a way back to its start, or both.
Closed(m, n) ==
    LET skips == Match(m.r, {"CLOSURE", "OPTIONAL"})
        loops == Match(m.r, {"CLOSURE", "PLUS_CLOSE"})
    IN  [n EXCEPT !.r = advance([@ EXCEPT !.node = [@ EXCEPT
                        ![n.s].next = m.s, ![m.e].next = n.e,
                        ![n.s].next2 = IF skips THEN n.e ELSE @,
                        ![m.e].next2 = IF loops THEN m.s ELSE @]])]
Factor(m) ==
    IF Match(m.r, {"CLOSURE", "PLUS_CLOSE", "OPTIONAL"}) THEN Closed(m, NewPair(m.r)) ELSE m
factor(r) == Factor(term(r))

\* The loop of cat_expr(): the start of the second machine becomes the end of the first.
Follow(m, e2) ==
    [ r |-> discard([e2.r EXCEPT !.node[m.e] = e2.r.node[e2.s]], e2.s), s |-> m.s, e |-> e2.e ]
Factors(m) == IF first_in_cat(m.r) THEN Factors(Follow(m, factor(m.r))) ELSE m
cat_expr(r) ==
    IF first_in_cat(r) THEN Factors(factor(r)) ELSE [r |-> r, s |-> NULL, e |-> NULL]

\* A class has its characters, "." all but the newline; all else that is no
\* parenthesis stands for itself, an operator too.
Parenthesized(m) ==
    [m EXCEPT !.r = IF Match(@, {"CLOSE_PAREN"}) THEN advance(@) ELSE parse_err(@, "paren")]
Single(n) ==
    LET lexeme == Head(n.r.input).lexeme
        any == Match(n.r, {"ANY"})
        class == Match(n.r, {"ANY", "CCL"})
    IN  [n EXCEPT !.r = advance([@ EXCEPT !.node[n.s] =
            [@ EXCEPT !.next = n.e, !.edge = IF class THEN CCL ELSE lexeme,
                      !.bitset = IF any THEN Chars \ {NL} ELSE IF class THEN lexeme ELSE @]])]
term(r) == IF Match(r, {"OPEN_PAREN"}) THEN Parenthesized(expr(advance(r))) ELSE Single(NewPair(r))

\* rule(): an anchor is a newline before or behind the expression.  accept is what
\* save() returns for the code of the rule.
LineStart(s, m) == [m EXCEPT !.r.node[s.i].next = m.s, !.s = s.i]
AtLineStart(s) == LineStart(s, expr(advance([s.r EXCEPT !.node[s.i].edge = NL])))
LineEnd(m, e) ==
    [m EXCEPT !.r = [e.r EXCEPT !.node[m.e].next = e.i, !.node[m.e].edge = NL], !.e = e.i]
AtLineEnd(m) == IF Match(m.r, {"AT_EOL"}) THEN LineEnd(m, new(advance(m.r))) ELSE m
Accept(m, anchor, accept) ==
    [m EXCEPT !.r.node[m.e].accept = accept, !.r.node[m.e].anchor = anchor]
Anchored(m, bol, accept) ==
    Accept(AtLineEnd(m), bol + (IF Match(m.r, {"AT_EOL"}) THEN ENDLINE ELSE 0), accept)
rule(r, accept) ==
    IF Match(r, {"AT_BOL"}) THEN Anchored(AtLineStart(new(r)), START, accept)
    ELSE Anchored(expr(r), 0, accept)

-----------------------------------------------------------------------------
Init ==
    /\ rules = <<>> /\ start = NULL /\ p = NULL /\ saved = 0 /\ pc = "machine"
    /\ q = [ input |-> <<>>, node |-> [i \in 0..NFA_MAX-1 |-> Unused],
             nstates |-> 0, nalloc |-> 0, stack |-> <<>>, err |-> "none" ]

\* The rules that may come next.
Following ==
    LET open == {list \in RuleLists : /\ Len(rules) < Len(list)
                                     /\ \A k \in 1..Len(rules) : rules[k] \in list[k]}
    IN  UNION {list[Len(rules) + 1] : list \in open}

\* One rule: a node in the chain of rules, the rule's machine, the rule's code.  A rule
\* whose code is "|" has that of the rule after it, the next string to be saved.
Rule ==
    /\ pc = "machine"
    /\ \E text \in Following :
         LET chain == new([q EXCEPT !.input = text.toks])
             m == rule(chain.r, saved + 1)
         IN  /\ rules' = Append(rules, text)
             /\ IF m.r.err # "none"
                THEN /\ pc' = "failed" /\ q' = [q EXCEPT !.err = m.r.err]
                     /\ UNCHANGED <<start, p, saved>>
                ELSE /\ q' = [m.r EXCEPT !.node[chain.i].next = m.s,
                                         !.node = IF p = NULL THEN @
                                                  ELSE [@ EXCEPT ![p].next2 = chain.i]]
                     /\ start' = IF p = NULL THEN chain.i ELSE start
                     /\ p' = chain.i
                     /\ saved' = IF text.shared THEN saved ELSE saved + 1
                     /\ UNCHANGED pc

\* END_OF_INPUT
Finish == /\ pc = "machine" /\ rules # <<>> /\ ~Last(rules).shared
          /\ pc' = "done"
          /\ UNCHANGED <<rules, q, start, p, saved>>

Next == Rule \/ Finish

Spec == Init /\ [][Next]_vars

-----------------------------------------------------------------------------
(* What a regular expression means, and what the machine does                *)

Words == UNION {[1..n -> Chars] : n \in 0..WordLength}

Concat(A, B) == {w \in {u \o v : u \in A, v \in B} : Len(w) <= WordLength}

Star(A) ==
    LET upto[n \in 0..WordLength] ==
            IF n = 0 THEN {<<>>} ELSE upto[n-1] \union Concat(upto[n-1], A)
    IN  upto[WordLength]

\* The words of an expression, [op, l, r] or a class of characters.
RECURSIVE Language(_)
Language(re) ==
    CASE re.op = "class" -> {<<ch>> : ch \in re.chars}
      [] re.op = "or"    -> Language(re.l) \union Language(re.r)
      [] re.op = "cat"   -> Concat(Language(re.l), Language(re.r))
      [] re.op = "*"     -> Star(Language(re.l))
      [] re.op = "+"     -> Concat(Language(re.l), Star(Language(re.l)))
      [] re.op = "?"     -> Language(re.l) \union {<<>>}

Line(anchored) == IF anchored THEN {<<NL>>} ELSE {<<>>}

\* With the newlines that anchor the rule.
RuleLanguage(text) == Concat(Line(text.bol), Concat(Language(text.re), Line(text.eol)))

Anchor(text) == (IF text.bol THEN START ELSE 0) + (IF text.eol THEN ENDLINE ELSE 0)

\* The string of the k-th rule: rules with code "|" share that of the rule after them.
StringOf(k) == 1 + Cardinality({j \in 1..k-1 : ~rules[j].shared})

Successors(S) ==
    UNION {{q.node[i].next, q.node[i].next2} \ {NULL} :
              i \in {j \in S : q.node[j].edge = EPSILON}}

RECURSIVE Closure(_)
Closure(S) == IF Successors(S) \subseteq S THEN S ELSE Closure(S \union Successors(S))

Moves(S, ch) ==
    {q.node[i].next : i \in {j \in S : q.node[j].edge = ch
                                      \/ (q.node[j].edge = CCL /\ ch \in q.node[j].bitset)}}

After(w) == FoldLeft(LAMBDA S, ch : Closure(Moves(S, ch)), Closure({start}), w)

Accepting(S) == {i \in S : q.node[i].accept # NULL}

RECURSIVE Reached(_)
Reached(S) ==
    LET more == UNION {{q.node[i].next, q.node[i].next2} : i \in S} \ {NULL}
    IN  IF more \subseteq S THEN S ELSE Reached(S \union more)

-----------------------------------------------------------------------------
(* The machine accepts exactly the words of the rules, each with the code and the  *)
(* anchor of its rule, after any sequence of rules: copying the start of one       *)
(* machine over the end of another (nfa.c:606) and using its node again loses no   *)
(* path and adds none.                                                             *)
AcceptsRules ==
    pc = "machine" /\ start # NULL =>
        LET lang == [k \in 1..Len(rules) |-> RuleLanguage(rules[k])]
        IN  \A w \in Words :
              {<<q.node[i].accept, q.node[i].anchor>> : i \in Accepting(After(w))}
              = {<<StringOf(k), Anchor(rules[k])>> : k \in {j \in 1..Len(rules) : w \in lang[j]}}

\* Every node of the array up to Next_alloc is either in the machine or, once, on the
\* discard stack: none leaks, and none is given out while the machine still uses it.
NodesAccounted ==
    pc = "machine" /\ start # NULL =>
        LET inUse == Reached({start})
        IN  /\ inUse \intersect Range(q.stack) = {}
            /\ inUse \union Range(q.stack) = 0..q.nalloc-1
            /\ Cardinality(Range(q.stack)) = Len(q.stack)
            /\ q.nstates = Cardinality(inUse)

\* How deep the parentheses of a sequence of tokens are nested.
Nesting(toks) ==
    LET depth[i \in 0..Len(toks)] ==
            IF i = 0 THEN 0
            ELSE depth[i-1] + (IF toks[i].tok = "OPEN_PAREN" THEN 1
                               ELSE IF toks[i].tok = "CLOSE_PAREN" THEN -1 ELSE 0)
    IN  CHOOSE d \in {depth[i] : i \in 0..Len(toks)} :
            \A i \in 0..Len(toks) : depth[i] <= d

\* The discard stack, which new() empties before it takes more of the array, holds
\* more than one node only for nested parentheses: a file of any number of rules
\* fills its SSIZE places only if one of them nests as deep (nfa.c:104-113).
StackNeedsNesting ==
    LET deepest == {Nesting(rules[k].toks) : k \in 1..Len(rules)}
    IN  /\ Len(q.stack) > 1 => \E d \in deepest : Len(q.stack) <= d + 1
        /\ q.err = "stack" => \E d \in deepest : d >= SSIZE

-----------------------------------------------------------------------------
(* What the tests and messages of the code say and the code does not do: each of   *)
(* the following is refuted by a run.                                              *)

\* Of two rules that match a text the first wins: test/wc.lex:12-14 counts a word of
\* one letter with "[a-zA-Z]+" and not with "." below it.  The state machine takes the
\* accepting node of the lowest index (egrep.c:70).
FirstRuleWins ==
    pc = "done" =>
        \A w \in Words :
            LET accepting == Accepting(After(w))
                winner == CHOOSE i \in accepting : \A j \in accepting : i <= j
            IN  accepting # {} =>
                    \A k \in 1..Len(rules) :
                        w \in RuleLanguage(rules[k]) => q.node[winner].accept <= StringOf(k)

\* nfa.c:24 and 41, E_CLOSE: "+ ? or * must follow an expression or subexpression".
ClosureFollowsExpression ==
    pc = "done" =>
        \A k \in 1..Len(rules) :
            LET toks == rules[k].toks
                closure == {"CLOSURE", "PLUS_CLOSE", "OPTIONAL"}
            IN  \A i \in 1..Len(toks) :
                  toks[i].tok \in closure =>
                    i > 1 /\ toks[i-1].tok \notin closure \union {"OPEN_PAREN", "OR", "AT_BOL"}

=============================================================================
