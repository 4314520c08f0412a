------------------------------- MODULE Minimize -------------------------------
(***************************************************************************)
(* Minimization of a DFA (minimize.c): states are put in groups by what    *)
(* they accept, and the groups are split, pass after pass, wherever two    *)
(* states of a group go to different groups; then every group becomes one  *)
(* state.  A step examines one state.                                      *)
(*                                                                         *)
(* The DFA is as dfa() leaves it: dtran[s][c] is a state or F, accept[s]   *)
(* is the string of a rule (NULL if none) and its anchor.                  *)
(***************************************************************************)
EXTENDS Integers, FiniteSets, FiniteSetsExt

CONSTANTS
    MAX_CHARS,   \* size of the alphabet (128 in the code)
    Strings,     \* accepting strings
    Dtrans,      \* transition tables of the machines to minimize
    Accepts      \* their accepting states: every choice of the right size is tried

NULL == 0        \* no accepting string
F == -1          \* no transition

Alphabet == 0..MAX_CHARS-1

ASSUME MinimizeAssumption ==
    /\ MAX_CHARS \in Nat \ {0}
    /\ Strings \subseteq Nat \ {NULL}
    /\ \A d \in Dtrans : LET n == Cardinality(DOMAIN d) IN
         n \in Nat \ {0} /\ d \in [0..n-1 -> [Alphabet -> {F} \union 0..n-1]]
    /\ \A a \in Accepts :
         a \in [0..Cardinality(DOMAIN a)-1 -> [string : Strings \union {NULL}, anchor : 0..3]]

VARIABLES
    dtran, accept,          \* the DFA
    Groups, Numgroups,      \* Groups[g] is the g-th group, for g < Numgroups
    Ingroup,                \* Ingroup[s] is the group of state s
    pc,
    i,                      \* the state init_groups() has come to
    old_numgroups, current, first, next,   \* of minimize()
    newdtran, newaccept     \* the machine fix_dtran() makes

loop == <<old_numgroups, current, first, next>>
result == <<newdtran, newaccept>>
vars == <<dtran, accept, Groups, Numgroups, Ingroup, pc, i, loop, result>>

States == DOMAIN dtran

nstates == Cardinality(States)

Init ==
    /\ dtran \in Dtrans
    /\ accept \in {a \in Accepts : DOMAIN a = States}
    /\ Groups = [g \in States |-> {}] /\ Numgroups = 0
    /\ Ingroup = [s \in States |-> 0]
    /\ pc = "init" /\ i = 0
    /\ old_numgroups = 0 /\ current = 0 /\ first = 0 /\ next = 0
    /\ newdtran = <<>> /\ newaccept = <<>>

-----------------------------------------------------------------------------
(* init_groups() *)

\* The states before i that accept the same string.
Alike == {j \in 0..i-1 : accept[j].string = accept[i].string}

JoinGroup ==
    /\ pc = "init" /\ i < nstates /\ Alike # {}
    /\ LET g == Ingroup[Max(Alike)]
       IN  /\ Groups' = [Groups EXCEPT ![g] = @ \union {i}]
           /\ Ingroup' = [Ingroup EXCEPT ![i] = g]
    /\ i' = i + 1
    /\ UNCHANGED <<dtran, accept, Numgroups, pc, loop, result>>

FoundGroup ==
    /\ pc = "init" /\ i < nstates /\ Alike = {}
    /\ Groups' = [Groups EXCEPT ![Numgroups] = {i}]
    /\ Ingroup' = [Ingroup EXCEPT ![i] = Numgroups]
    /\ Numgroups' = Numgroups + 1
    /\ i' = i + 1
    /\ UNCHANGED <<dtran, accept, pc, loop, result>>

Classified ==
    /\ pc = "init" /\ i = nstates
    /\ pc' = "pass"
    /\ UNCHANGED <<dtran, accept, Groups, Numgroups, Ingroup, i, loop, result>>

-----------------------------------------------------------------------------
(* minimize() *)

BeginPass ==
    /\ pc = "pass"
    /\ old_numgroups' = Numgroups /\ current' = 0
    /\ pc' = "group"
    /\ UNCHANGED <<dtran, accept, Groups, Numgroups, Ingroup, i, first, next, result>>

SkipGroup ==
    /\ pc = "group" /\ current < Numgroups /\ Cardinality(Groups[current]) <= 1
    /\ current' = current + 1
    /\ UNCHANGED <<dtran, accept, Groups, Numgroups, Ingroup, pc, i, old_numgroups,
                   first, next, result>>

\* Mutant: groups of one state are opened too.
OpenGroup_Any ==
    /\ pc = "group" /\ current < Numgroups
    /\ Groups' = [Groups EXCEPT ![Numgroups] = {}]
    /\ first' = Min(Groups[current]) /\ next' = first'
    /\ pc' = "split"
    /\ UNCHANGED <<dtran, accept, Numgroups, Ingroup, i, old_numgroups, current, result>>

OpenGroup ==
    /\ pc = "group" /\ current < Numgroups /\ Cardinality(Groups[current]) > 1
    /\ Groups' = [Groups EXCEPT ![Numgroups] = {}]
    /\ first' = Min(Groups[current]) /\ next' = first'
    /\ pc' = "split"
    /\ UNCHANGED <<dtran, accept, Numgroups, Ingroup, i, old_numgroups, current, result>>

\* The states next_member() has still to return.
Rest == {s \in Groups[current] : s > next}

\* The group a transition leads to.
Target(s, c) == IF dtran[s][c] = F THEN F ELSE Ingroup[dtran[s][c]]

Differ(s, t) == \E c \in Alphabet : Target(s, c) # Target(t, c)

KeepState ==
    /\ pc = "split" /\ Rest # {} /\ ~Differ(first, Min(Rest))
    /\ next' = Min(Rest)
    /\ UNCHANGED <<dtran, accept, Groups, Numgroups, Ingroup, pc, i, old_numgroups,
                   current, first, result>>

\* Mutant: the state does not know its new group.
MoveState_KeepsIngroup ==
    /\ pc = "split" /\ Rest # {} /\ Differ(first, Min(Rest))
    /\ next' = Min(Rest)
    /\ Groups' = [Groups EXCEPT ![current] = @ \ {next'}, ![Numgroups] = @ \union {next'}]
    /\ UNCHANGED <<dtran, accept, Ingroup, Numgroups, pc, i, old_numgroups, current, first, result>>

\* The state leaves the group at once: the states after it are compared with that.
MoveState ==
    /\ pc = "split" /\ Rest # {} /\ Differ(first, Min(Rest))
    /\ next' = Min(Rest)
    /\ Groups' = [Groups EXCEPT ![current] = @ \ {next'}, ![Numgroups] = @ \union {next'}]
    /\ Ingroup' = [Ingroup EXCEPT ![next'] = Numgroups]
    /\ UNCHANGED <<dtran, accept, Numgroups, pc, i, old_numgroups, current, first, result>>

CloseGroup ==
    /\ pc = "split" /\ Rest = {}
    /\ Numgroups' = IF Groups[Numgroups] = {} THEN Numgroups ELSE Numgroups + 1
    /\ current' = current + 1
    /\ pc' = "group"
    /\ UNCHANGED <<dtran, accept, Groups, Ingroup, i, old_numgroups, first, next, result>>

\* Mutants: one pass only; or always another.
EndPass_Once ==
    /\ pc = "group" /\ current = Numgroups
    /\ pc' = "fix"
    /\ UNCHANGED <<dtran, accept, Groups, Numgroups, Ingroup, i, loop, result>>
EndPass_Never ==
    /\ pc = "group" /\ current = Numgroups
    /\ pc' = "pass"
    /\ UNCHANGED <<dtran, accept, Groups, Numgroups, Ingroup, i, loop, result>>

EndPass ==
    /\ pc = "group" /\ current = Numgroups
    /\ pc' = IF old_numgroups = Numgroups THEN "fix" ELSE "pass"
    /\ UNCHANGED <<dtran, accept, Groups, Numgroups, Ingroup, i, loop, result>>

-----------------------------------------------------------------------------
(* fix_dtran() *)

Representative(g) == Min(Groups[g])

Fix ==
    /\ pc = "fix"
    /\ newdtran' = [g \in 0..Numgroups-1 |->
                     [c \in Alphabet |-> Target(Representative(g), c)]]
    /\ newaccept' = [g \in 0..Numgroups-1 |-> accept[Representative(g)]]
    /\ pc' = "done"
    /\ UNCHANGED <<dtran, accept, Groups, Numgroups, Ingroup, i, loop>>

Next == \/ JoinGroup \/ FoundGroup \/ Classified
        \/ BeginPass \/ SkipGroup \/ OpenGroup \/ KeepState \/ MoveState \/ CloseGroup
        \/ EndPass \/ Fix

\* The program is sequential: while there is a step to take it takes it.
Spec == Init /\ [][Next]_vars /\ WF_vars(Next)

\* The entry of Yyaccept that pdriver() prints for an accepting state.
Yyaccept(a) ==
    IF a.string = NULL THEN 0 ELSE IF a.anchor # 0 THEN a.anchor ELSE 4

-----------------------------------------------------------------------------
(* Every variable of minimize.c has its C type, and no index leaves its table: *)
(* there is room for the group that is being split off (Groups[DFA_MAX] is one *)
(* place past the last).                                                       *)
TypeOK ==
    /\ Groups \in [States -> SUBSET States] /\ Numgroups \in 0..nstates
    /\ Ingroup \in [States -> States]
    /\ pc \in {"init", "pass", "group", "split", "fix", "done"} /\ i \in 0..nstates
    /\ old_numgroups \in 0..nstates /\ current \in 0..nstates
    /\ first \in States /\ next \in States
    /\ pc = "split" => Numgroups < nstates

\* Groups and Ingroup describe one partition of the states at every step, while a
\* state moves from one group to another too (minimize.c:138-140).
OnePartition ==
    /\ \A s \in States : s < i => s \in Groups[Ingroup[s]]
    /\ \A g, h \in States : g # h /\ g <= Numgroups /\ h <= Numgroups =>
         (g = Numgroups /\ pc # "split") \/ (h = Numgroups /\ pc # "split")
         \/ Groups[g] \intersect Groups[h] = {}
    /\ \A g \in 0..Numgroups-1 : Groups[g] # {}

\* When no pass splits a group any more, the groups are a congruence: the new machine
\* does on every text what the old one does, from state 0, where the driver of lex.par
\* starts.
SameLanguage ==
    pc = "done" =>
        /\ Ingroup[0] = 0
        /\ \A s \in States :
            /\ newaccept[Ingroup[s]].string = accept[s].string
            /\ \A c \in Alphabet : newdtran[Ingroup[s]][c] = Target(s, c)

\* The passes come to an end (minimize.c:121-152).
Terminates == <>(pc = "done")

-----------------------------------------------------------------------------
(* What the comments of the code say and the code does not do: each of the   *)
(* following is refuted by a run.                                            *)

\* print.c:80-84, Yyaccept[i] "determines whether the string is anchored": a state
\* keeps the anchor of its rule.
AnchorsKept ==
    pc = "done" =>
        \A s \in States : Yyaccept(newaccept[Ingroup[s]]) = Yyaccept(accept[s])

\* The states that no text tells apart, by refinement from what they accept.
Equivalent ==
    LET same[n \in 0..nstates] ==
            IF n = 0 THEN {p \in States \X States : accept[p[1]].string = accept[p[2]].string}
            ELSE {p \in same[n-1] : \A c \in Alphabet :
                    LET s == dtran[p[1]][c]
                        t == dtran[p[2]][c]
                    IN  s = t \/ (s # F /\ t # F /\ <<s, t>> \in same[n-1])}
    IN  same[nstates]

\* minimize.c:9, "make a minimal DFA by eliminating equivalent states".
Minimal ==
    pc = "done" => \A p \in Equivalent : Ingroup[p[1]] = Ingroup[p[2]]

=============================================================================
