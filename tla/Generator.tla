------------------------------- MODULE Generator -------------------------------
(***************************************************************************)
(* do_file() of lex.c from the rules to the tables of the output: nfa()    *)
(* builds the machine of the rules (Thompson), dfa() makes it              *)
(* deterministic (SubsetConstruction), minimize() merges its states        *)
(* (Minimize), and what is left is printed as the C tables the driver of   *)
(* lex.par runs on: whole, or through squash() with equal columns and rows *)
(* folded.  A step is a step of one of the three modules, or the passage   *)
(* from one to the next; every part runs to its end before the next.       *)
(***************************************************************************)
EXTENDS Thompson

CONSTANTS
    MAX_CHARS,   \* size of the alphabet (128 in the code)
    DFA_MAX,     \* size of the tables of states (254 in the code)
    YYF          \* greatest value of the type of the printed table (255 in the code)

ASSUME GeneratorAssumption ==
    /\ MAX_CHARS \in Nat \ {0} /\ DFA_MAX \in Nat \ {0} /\ YYF \in Nat /\ DFA_MAX <= YYF
    /\ Chars \subseteq 0..MAX_CHARS-1

VARIABLES
    Nfa, Nstates, Dstates, Dtran, Last_marked, dpc, dcurrent, c,      \* SubsetConstruction
    NFA_set, stack, accept_num, isaccept, anchor,
    dtran, accept, Groups, Numgroups, Ingroup, mpc, state,            \* Minimize
    old_numgroups, current, first, next, newdtran, newaccept,
    output       \* the tables in the file lex.yy.c

nfaVars == vars
dfaVars == <<Nfa, Nstates, Dstates, Dtran, Last_marked, dpc, dcurrent, c,
             NFA_set, stack, accept_num, isaccept, anchor>>
minVars == <<dtran, accept, Groups, Numgroups, Ingroup, mpc, state,
             old_numgroups, current, first, next, newdtran, newaccept>>
genVars == <<nfaVars, dfaVars, minVars, output>>

D == INSTANCE SubsetConstruction
        WITH Nfas <- {}, Strings <- Nat, pc <- dpc, current <- dcurrent

M == INSTANCE Minimize WITH Dtrans <- {}, Accepts <- {}, Strings <- Nat, pc <- mpc, i <- state

F == -1
Alphabet == 0..MAX_CHARS-1

-----------------------------------------------------------------------------
(* print.c and lex.c                                                         *)

\* An entry as the type of the table holds it: F becomes YYF.
Printed(entry) == entry % (YYF + 1)

\* print_array() of the whole table; yy_next() is a single index.
Whole(t) == [r \in DOMAIN t |-> [ch \in Alphabet |-> Printed(t[r][ch])]]

(* squash.c: reduce().  A map is -1 where nothing is mapped; n is r_ncols or     *)
(* r_nrows, and kept the positions that are copied.                              *)

col_equiv(t, i, j) == \A r \in DOMAIN t : t[r][i] = t[r][j]

\* The loop over the columns takes for its next one the first that HAS a place.
RECURSIVE Columns(_, _)
Columns(t, m) ==
    LET i == CHOOSE k \in m.n..MAX_CHARS : /\ k < MAX_CHARS => m.map[k] # -1
                                          /\ \A j \in m.n..k-1 : m.map[j] = -1
    IN  IF i = MAX_CHARS THEN m
        ELSE Columns(t, [ n |-> m.n + 1, kept |-> m.kept \union {i},
                          map |-> [j \in Alphabet |->
                              IF j = i \/ (j > i /\ m.map[j] # -1 /\ col_equiv(t, i, j))
                              THEN m.n ELSE m.map[j]] ])

RowEquiv(t, kept, i, j) == \A ch \in kept : t[i][ch] = t[j][ch]

\* The loop over the rows takes the first that has none.
RECURSIVE Rows(_, _, _)
Rows(t, kept, m) ==
    LET nrows == Cardinality(DOMAIN t)
        i == CHOOSE k \in m.n..nrows : /\ k < nrows => m.map[k] = -1
                                      /\ \A j \in m.n..k-1 : m.map[j] # -1
    IN  IF i = nrows THEN m
        ELSE Rows(t, kept, [ n |-> m.n + 1, kept |-> m.kept \union {i},
                             map |-> [j \in DOMAIN t |->
                                 IF j = i \/ (j > i /\ m.map[j] = -1 /\ RowEquiv(t, kept, i, j))
                                 THEN m.n ELSE m.map[j]] ])

Unmapped(S) == [n |-> 0, kept |-> {}, map |-> [j \in S |-> -1]]

\* The k-th of the positions kept, counted from 0.
Position(kept, k) == CHOOSE j \in kept : Cardinality({h \in kept : h < j}) = k

\* The compressed table and its two maps, as they are printed.
Squashed(t, cols, rows) ==
    [ Yy_nxt |-> [r \in 0..rows.n-1 |-> [ch \in 0..cols.n-1 |->
                     Printed(t[Position(rows.kept, r)][Position(cols.kept, ch)])]],
      Yy_cmap |-> [ch \in Alphabet |-> Printed(cols.map[ch])],
      Yy_rmap |-> [r \in DOMAIN t |-> Printed(rows.map[r])] ]
squash(t) ==
    LET cols == Columns(t, Unmapped(Alphabet))
    IN  Squashed(t, cols, Rows(t, cols.kept, Unmapped(DOMAIN t)))

Identity(S) == [k \in S |-> k]

\* The table as yy_next() finds it; -f sets No_compression, with which it is squashed.
Table(No_compression) ==
    IF ~No_compression
    THEN [Yy_nxt |-> Whole(newdtran), Yy_cmap |-> Identity(Alphabet),
          Yy_rmap |-> Identity(DOMAIN newdtran)]
    ELSE squash(newdtran)

\* Mutant: a state that is not anchored is printed as one that does not accept.
pdriver_NoFour == [s \in DOMAIN newaccept |->
                     [Yyaccept |-> newaccept[s].anchor, case |-> newaccept[s].string]]

\* pdriver(): what Yyaccept holds for a state, and the code in its case (0 if none).
pdriver == [s \in DOMAIN newaccept |->
              [Yyaccept |-> M!Yyaccept(newaccept[s]), case |-> newaccept[s].string]]

-----------------------------------------------------------------------------
(* min_dfa() and do_file()                                                   *)

GeneratorInit ==
    /\ Init
    /\ Nfa = <<>> /\ Nstates = 0 /\ Dstates = <<>> /\ Dtran = <<>> /\ Last_marked = 0
    /\ dpc = "idle" /\ dcurrent = F /\ c = 0
    /\ NFA_set = {} /\ stack = <<>> /\ accept_num = 0 /\ isaccept = D!NULL /\ anchor = 0
    /\ dtran = <<>> /\ accept = <<>> /\ Groups = <<>> /\ Numgroups = 0 /\ Ingroup = <<>>
    /\ mpc = "idle" /\ state = 0
    /\ old_numgroups = 0 /\ current = 0 /\ first = 0 /\ next = 0
    /\ newdtran = <<>> /\ newaccept = <<>>
    /\ output = [done |-> FALSE]

BuildNfa == Next /\ UNCHANGED <<dfaVars, minVars, output>>

\* The array of thompson() up to Next_alloc; a rule's string is its place in Strings[].
StartDfa ==
    /\ pc = "done" /\ dpc = "idle"
    /\ Nfa' = [i \in 0..q.nalloc-1 |->
                 [q.node[i] EXCEPT !.accept = IF @ = NULL THEN D!NULL ELSE @]]
    /\ Dstates' = [s \in 0..DFA_MAX-1 |->
                     [mark |-> FALSE, accept |-> D!NULL, anchor |-> 0, set |-> {}]]
    /\ Dtran' = [s \in 0..DFA_MAX-1 |-> [ch \in Alphabet |-> 0]]
    /\ Nstates' = 0 /\ Last_marked' = 0 /\ dcurrent' = F /\ c' = 0
    /\ NFA_set' = {start} /\ stack' = <<start>>
    /\ accept_num' = q.nalloc /\ isaccept' = D!NULL /\ anchor' = 0
    /\ dpc' = "closing"
    /\ UNCHANGED <<nfaVars, minVars, output>>

MakeDfa == D!Next /\ UNCHANGED <<nfaVars, minVars, output>>

\* The tables that dfa() returns have one entry for every state; the sets are freed.
StartMinimize ==
    /\ dpc = "done" /\ mpc = "idle"
    /\ dtran' = [s \in 0..Nstates-1 |-> Dtran[s]]
    /\ accept' = [s \in 0..Nstates-1 |->
                    [string |-> Dstates[s].accept, anchor |-> Dstates[s].anchor]]
    /\ Groups' = [g \in 0..Nstates-1 |-> {}] /\ Ingroup' = [s \in 0..Nstates-1 |-> 0]
    /\ Numgroups' = 0 /\ mpc' = "init" /\ state' = 0
    /\ UNCHANGED <<nfaVars, dfaVars, output, old_numgroups, current, first, next,
                   newdtran, newaccept>>

MinimizeDfa == M!Next /\ UNCHANGED <<nfaVars, dfaVars, output>>

Output ==
    /\ mpc = "done" /\ ~output.done
    /\ \E No_compression \in BOOLEAN :
         output' = [ done |-> TRUE, fast |-> No_compression,
                     table |-> Table(No_compression), states |-> pdriver ]
    /\ UNCHANGED <<nfaVars, dfaVars, minVars>>

GeneratorNext ==
    BuildNfa \/ StartDfa \/ MakeDfa \/ StartMinimize \/ MinimizeDfa \/ Output

\* One program, one step after another.
GeneratorSpec == GeneratorInit /\ [][GeneratorNext]_genVars /\ WF_genVars(GeneratorNext)

-----------------------------------------------------------------------------
(* What the driver does with the tables                                       *)

yy_next(t, s, ch) == t.Yy_nxt[t.Yy_rmap[s]][t.Yy_cmap[ch]]

\* The state after a text, YYF from where there is no transition on.
StateAfter(t, w) ==
    FoldLeft(LAMBDA s, ch : IF s = YYF THEN YYF ELSE yy_next(t, s, ch), 0, w)

Matching(w) == {k \in 1..Len(rules) : w \in RuleLanguage(rules[k])}

\* Of the rules with the code of a string, what Yyaccept may say of their anchors.
Anchors(string) ==
    {IF Anchor(rules[k]) = 0 THEN 4 ELSE Anchor(rules[k]) :
        k \in {j \in 1..Len(rules) : StringOf(j) = string}}

SmallestOf(S) == CHOOSE k \in S : \A j \in S : k <= j

\* No rule has parentheses within parentheses.
Flat == \A k \in 1..Len(rules) : Nesting(rules[k].toks) <= 1

\* The tables printed for a file, taken from state 0 as the driver does, accept exactly
\* the texts of its rules: a state that accepts has the code of a rule that matches,
\* of the first of them where no parentheses are nested, and what Yyaccept says of the
\* anchor is so of a rule with that code.  The three constructions agree on what a
\* state, an edge and no transition are, from nfa.c:467 to print.c:70.
TableAccepts ==
    output.done /\ ~output.fast =>
        \A w \in Words :
            LET s == StateAfter(output.table, w)
                matching == Matching(w)
            IN  IF matching = {} THEN s # YYF => output.states[s].Yyaccept = 0
                ELSE /\ s # YYF
                     /\ output.states[s].Yyaccept \in Anchors(output.states[s].case)
                     /\ output.states[s].case \in {StringOf(k) : k \in matching}
                     /\ Flat => output.states[s].case = StringOf(SmallestOf(matching))

-----------------------------------------------------------------------------
(* What the help text of the code says and the code does not do: refuted by a run. *)

\* lex.c:204, "-f for (f)ast. don't compress tables".
FastTableIsWhole ==
    output.done /\ output.fast => output.table.Yy_nxt = Whole(newdtran)
=============================================================================
