-------------------------- MODULE SubsetConstruction --------------------------
(***************************************************************************)
(* From an NFA to a DFA (dfa.c, and e_closure() and move() of egrep.c).    *)
(* make_dtran() keeps a table of sets of NFA states; for every set and     *)
(* every character it moves, closes the result under epsilon edges with an *)
(* explicit stack, and looks the closed set up in the table.  A step is    *)
(* one turn of the loop of e_closure(), or one turn of those of            *)
(* make_dtran() up to it.                                                  *)
(*                                                                         *)
(* An NFA is a function from 0..Num_states-1 to the nodes of nfa.h; the    *)
(* pointers next and next2 are the indices of their targets.  A string     *)
(* (the code of a rule) is a positive number.                              *)
(***************************************************************************)
EXTENDS Integers, Sequences, SequencesExt, FiniteSetsExt

CONSTANTS
    MAX_CHARS,   \* size of the alphabet (128 in the code)
    DFA_MAX,     \* size of the tables (254 in the code)
    Strings,     \* accepting strings
    Nfas         \* [node |-> the NFA, start |-> the index of its start state]

NULL == 0        \* no accepting string
NONE == -1       \* no next, or no next2
F == -1          \* no transition

EPSILON == -1    \* values of the edge field that are not characters
CCL == -2
EMPTY == -3

Alphabet == 0..MAX_CHARS-1

Node(n) ==
    [ edge : Alphabet \union {EPSILON, CCL, EMPTY}, bitset : SUBSET Alphabet,
      next : 0..n-1 \union {NONE}, next2 : 0..n-1 \union {NONE},
      accept : Strings \union {NULL}, anchor : 0..3 ]

ASSUME SubsetAssumption ==
    /\ MAX_CHARS \in Nat \ {0} /\ DFA_MAX \in Nat \ {0}
    /\ Strings \subseteq Nat \ {NULL}
    /\ \A m \in Nfas : LET n == Cardinality(DOMAIN m.node) IN
         /\ n \in Nat \ {0}
         /\ m.node \in [0..n-1 -> Node(n)] /\ m.start \in 0..n-1
         /\ \A i \in 0..n-1 : m.node[i].edge \in Alphabet \union {CCL} => m.node[i].next # NONE

VARIABLES
    Nfa,          \* the array of nodes
    Nstates, Dstates, Dtran, Last_marked,
    pc,
    current, c,   \* the row and the column being filled; current is F before the first row
    NFA_set, stack, accept_num, isaccept, anchor   \* of e_closure(); its input is NFA_set

closure == <<NFA_set, stack, accept_num, isaccept, anchor>>
table == <<Nstates, Dstates, Dtran, Last_marked>>
vars == <<Nfa, table, pc, current, c, closure>>

States == DOMAIN Nfa

MAX_INT == Cardinality(States)     \* greater than every index

-----------------------------------------------------------------------------
(* egrep.c *)

move(inp_set, ch) ==
    {Nfa[i].next : i \in {j \in inp_set : \/ Nfa[j].edge = ch
                                          \/ Nfa[j].edge = CCL /\ ch \in Nfa[j].bitset}}

\* The members of a set in the order of next_member().
InOrder(S) ==
    [k \in 1..Cardinality(S) |-> CHOOSE i \in S : Cardinality({j \in S : j < i}) = k - 1]

\* The call of e_closure(input) up to its loop.
StartClosure(input) ==
    /\ NFA_set' = input
    /\ stack' = InOrder(input)
    /\ accept_num' = MAX_INT /\ isaccept' = NULL /\ anchor' = 0
    /\ pc' = "closing"

\* Mutants: a state is pushed although it is in the set; or only next is followed.
Fresh_Again(i) ==
    LET p == Nfa[i]
    IN  IF p.edge # EPSILON THEN <<>>
        ELSE (IF p.next # NONE THEN <<p.next>> ELSE <<>>)
             \o (IF p.next2 # NONE THEN <<p.next2>> ELSE <<>>)
Fresh_NextOnly(i) ==
    IF Nfa[i].edge = EPSILON /\ Nfa[i].next \notin NFA_set \union {NONE}
    THEN <<Nfa[i].next>> ELSE <<>>

\* The successors the loop adds and pushes, in that order.
Fresh(i) ==
    LET p == Nfa[i]
        first == IF p.edge = EPSILON /\ p.next \notin NFA_set \union {NONE}
                 THEN <<p.next>> ELSE <<>>
        second == IF p.edge = EPSILON /\ p.next2 \notin NFA_set \union {NONE} \union Range(first)
                  THEN <<p.next2>> ELSE <<>>
    IN  first \o second

\* Mutant: the accepting state that is found last wins.
Close_LastWins ==
    /\ pc = "closing" /\ stack # <<>>
    /\ LET i == Last(stack)
           wins == Nfa[i].accept # NULL
       IN  /\ NFA_set' = NFA_set \union Range(Fresh(i))
           /\ stack' = Front(stack) \o Fresh(i)
           /\ accept_num' = IF wins THEN i ELSE accept_num
           /\ isaccept' = IF wins THEN Nfa[i].accept ELSE isaccept
           /\ anchor' = IF wins THEN Nfa[i].anchor ELSE anchor
    /\ UNCHANGED <<Nfa, table, pc, current, c>>

Close ==
    /\ pc = "closing" /\ stack # <<>>
    /\ LET i == Last(stack)
           wins == Nfa[i].accept # NULL /\ i < accept_num
       IN  /\ NFA_set' = NFA_set \union Range(Fresh(i))
           /\ stack' = Front(stack) \o Fresh(i)
           /\ accept_num' = IF wins THEN i ELSE accept_num
           /\ isaccept' = IF wins THEN Nfa[i].accept ELSE isaccept
           /\ anchor' = IF wins THEN Nfa[i].anchor ELSE anchor
    /\ UNCHANGED <<Nfa, table, pc, current, c>>

Closed == pc = "closing" /\ stack = <<>>

-----------------------------------------------------------------------------
(* dfa.c *)

Init ==
    \E m \in Nfas :
        /\ Nfa = m.node
        /\ Nstates = 0 /\ Last_marked = 0
        /\ Dstates = [s \in 0..DFA_MAX-1 |->
                        [mark |-> FALSE, accept |-> NULL, anchor |-> 0, set |-> {}]]
        /\ Dtran = [s \in 0..DFA_MAX-1 |-> [ch \in Alphabet |-> 0]]
        /\ current = F /\ c = 0
        /\ NFA_set = {m.start} /\ stack = <<m.start>>
        /\ accept_num = Cardinality(DOMAIN m.node) /\ isaccept = NULL /\ anchor = 0
        /\ pc = "closing"

add_to_dstates(set, accept_string, anch) ==
    /\ Nstates' = Nstates + 1
    /\ Dstates' = [Dstates EXCEPT ![Nstates] =
                     [@ EXCEPT !.set = set, !.accept = accept_string, !.anchor = anch]]

\* Mutant: the start state is not looked at.
Same_NotFirst == {s \in 1..Nstates-1 : Dstates[s].set = NFA_set}

\* The states whose set is NFA_set; in_dstates() returns the first.
Same == {s \in 0..Nstates-1 : Dstates[s].set = NFA_set}

\* Dstates[0], the start state.
First == /\ Closed /\ current = F
         /\ add_to_dstates(NFA_set, isaccept, anchor)
         /\ pc' = "row"
         /\ UNCHANGED <<Nfa, Dtran, Last_marked, current, c, closure>>

\* Mutant: the search begins after the state that was marked last.
get_unmarked_After == {s \in Last_marked+1..Nstates-1 : ~Dstates[s].mark}

get_unmarked == {s \in Last_marked..Nstates-1 : ~Dstates[s].mark}

Row == /\ pc = "row" /\ get_unmarked # {}
       /\ current' = Min(get_unmarked) /\ Last_marked' = current'
       /\ Dstates' = [Dstates EXCEPT ![current'].mark = TRUE]
       /\ c' = MAX_CHARS - 1
       /\ pc' = "move"
       /\ UNCHANGED <<Nfa, Nstates, Dtran, closure>>

Finish == /\ pc = "row" /\ get_unmarked = {}
          /\ Last_marked' = Nstates
          /\ pc' = "done"
          /\ UNCHANGED <<Nfa, Nstates, Dstates, Dtran, current, c, closure>>

\* Mutant: the column is not advanced.
Fill_SameColumn(nextstate) ==
    /\ Dtran' = [Dtran EXCEPT ![current][c] = nextstate]
    /\ c' = c
    /\ pc' = IF c = 0 THEN "row" ELSE "move"

\* Dtran[current][c] = nextstate, and on to the next character.
Fill(nextstate) ==
    /\ Dtran' = [Dtran EXCEPT ![current][c] = nextstate]
    /\ c' = c - 1
    /\ pc' = IF c = 0 THEN "row" ELSE "move"

NoMove == /\ pc = "move" /\ move(Dstates[current].set, c) = {}
          /\ Fill(F)
          /\ UNCHANGED <<Nfa, Nstates, Dstates, Last_marked, current, closure>>

Move == /\ pc = "move" /\ move(Dstates[current].set, c) # {}
        /\ StartClosure(move(Dstates[current].set, c))
        /\ UNCHANGED <<Nfa, table, current, c>>

Known == /\ Closed /\ current # F /\ Same # {}
         /\ Fill(Min(Same))
         /\ UNCHANGED <<Nfa, Nstates, Dstates, Last_marked, current, closure>>

\* Mutant: the limit is off by one.
New_OneMore ==
       /\ Closed /\ current # F /\ Same = {} /\ Nstates <= DFA_MAX
       /\ add_to_dstates(NFA_set, isaccept, anchor)
       /\ Fill(Nstates)
       /\ UNCHANGED <<Nfa, Last_marked, current, closure>>

New == /\ Closed /\ current # F /\ Same = {} /\ Nstates < DFA_MAX
       /\ add_to_dstates(NFA_set, isaccept, anchor)
       /\ Fill(Nstates)
       /\ UNCHANGED <<Nfa, Last_marked, current, closure>>

\* ferr("Too many DFA states") ends the program.
TooMany == /\ Closed /\ current # F /\ Same = {} /\ Nstates = DFA_MAX
           /\ pc' = "failed"
           /\ UNCHANGED <<Nfa, table, current, c, closure>>

Next == Close \/ First \/ Row \/ Finish \/ NoMove \/ Move \/ Known \/ New \/ TooMany

\* The program is sequential: while there is a step to take it takes it.
Spec == Init /\ [][Next]_vars /\ WF_vars(Next)

-----------------------------------------------------------------------------
(* Reference definitions *)

EpsilonTargets(S) ==
    UNION {{Nfa[i].next, Nfa[i].next2} \ {NONE} : i \in {j \in S : Nfa[j].edge = EPSILON}}

\* The states reached from S over any number of epsilon edges.
EpsilonClosure(S) ==
    LET reach[n \in 0..Cardinality(States)] ==
            IF n = 0 THEN S
            ELSE reach[n-1] \union EpsilonTargets(reach[n-1])
    IN  reach[Cardinality(States)]

\* The entry of the table for row s and character ch has been filled: all of them have
\* when the construction is done.
Filled(s, ch) == s < current \/ (s = current /\ ch > c) \/ pc = "done"

-----------------------------------------------------------------------------
(* Every variable of make_dtran() and e_closure() has its C type. *)
TypeOK ==
    /\ Nstates \in 0..DFA_MAX /\ Last_marked \in 0..DFA_MAX
    /\ Dstates \in [0..DFA_MAX-1 -> [mark : BOOLEAN, accept : Strings \union {NULL},
                                     anchor : 0..3, set : SUBSET States]]
    /\ Dtran \in [0..DFA_MAX-1 -> [Alphabet -> {F} \union 0..DFA_MAX-1]]
    /\ pc \in {"closing", "row", "move", "done", "failed"}
    /\ current \in {F} \union 0..DFA_MAX-1 /\ c \in -1..MAX_CHARS-1
    /\ NFA_set \subseteq States /\ stack \in Seq(States)
    /\ accept_num \in 0..MAX_INT /\ isaccept \in Strings \union {NULL} /\ anchor \in 0..3

\* e_closure() pushes a state at most once, so its stack of NFA_MAX integers never
\* overflows (egrep.c:48, where nothing checks it), and everything on it is in the set.
StackFits ==
    /\ Len(stack) <= Cardinality(NFA_set)
    /\ \A p, q \in 1..Len(stack) : p # q => stack[p] # stack[q]
    /\ Range(stack) \subseteq NFA_set

\* Every filled entry of Dtran leads to the closed move of its row, and is F exactly
\* where there is none (dfa.c:114-127); at the end get_unmarked() has passed over no
\* state that was added behind Last_marked (dfa.c:68-77).
RowsAreClosedMoves ==
    \A s \in 0..Nstates-1, ch \in Alphabet :
        Filled(s, ch) =>
            LET target == EpsilonClosure(move(Dstates[s].set, ch))
            IN  IF target = {} THEN Dtran[s][ch] = F
                ELSE Dtran[s][ch] \in 0..Nstates-1 /\ Dstates[Dtran[s][ch]].set = target

\* No set of NFA states has two rows (dfa.c:51-65), the first being that of the start.
StatesDistinct ==
    \A s, t \in 0..Nstates-1 : s # t => Dstates[s].set # Dstates[t].set

\* A DFA state accepts what the accepting NFA state of the lowest index in it accepts,
\* with the anchor of that rule (egrep.c:70-74).
AcceptsFirst ==
    \A s \in 0..Nstates-1 :
        LET accepting == {i \in Dstates[s].set : Nfa[i].accept # NULL}
        IN  IF accepting = {} THEN Dstates[s].accept = NULL
            ELSE /\ Dstates[s].accept = Nfa[Min(accepting)].accept
                 /\ Dstates[s].anchor = Nfa[Min(accepting)].anchor

\* make_dtran() comes to an end on every NFA, cyclic ones too.
Terminates == <>(pc \in {"done", "failed"})

=============================================================================
