----------------------------- MODULE MaximalMunch -----------------------------
(***************************************************************************)
(* What a generated lexer promises: it cuts the input into lexemes, each   *)
(* the longest prefix of the rest of the input that the state machine      *)
(* accepts, less the newlines that only anchor a rule to a line.           *)
(***************************************************************************)
EXTENDS Integers, Sequences

CONSTANTS Next, Accept,                  \* transition table, accepting codes
          START_ANCHORED, END_ANCHORED,  \* accepting codes with an anchor
          FAIL                           \* marks a transition that does not exist

VARIABLES
    input,    \* the whole input
    pos,      \* number of characters cut so far
    out       \* the lexemes, each with the state that accepted it

vars == <<input, pos, out>>

\* The state the machine is in after the characters p+1..i, or FAIL.
StateAfter(p) ==
    LET run[i \in p..Len(input)] ==
            IF i = p THEN 0
            ELSE IF run[i-1] = FAIL THEN FAIL ELSE Next[run[i-1]][input[i]]
    IN  run

\* The ends of the accepted prefixes of what follows character p.
Matches(p) ==
    LET run == StateAfter(p)
    IN  {i \in p+1..Len(input) : run[i] # FAIL /\ Accept[run[i]] # 0}

Emit ==
    \E last \in Matches(pos) :
        LET state == StateAfter(pos)[last]
            from == IF Accept[state] \in START_ANCHORED THEN pos + 2 ELSE pos + 1
            to == IF Accept[state] \in END_ANCHORED THEN last - 1 ELSE last
        IN  /\ \A i \in Matches(pos) : i <= last
            /\ out' = Append(out, [state |-> state, text |-> SubSeq(input, from, to)])
            /\ pos' = to
            /\ UNCHANGED input

Init == pos = 0 /\ out = <<>>

Safe == Init /\ [][Emit]_vars

Spec == Safe /\ WF_vars(Emit)

=============================================================================
