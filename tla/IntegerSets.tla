------------------------------ MODULE IntegerSets ------------------------------
(***************************************************************************)
(* What the set package of rlex (lib/set.c) promises its callers: a few    *)
(* sets of small integers, each with a flag that says whether it stands    *)
(* for its members or for everything else.  Sizes, words and bits are not  *)
(* visible here.  Inverting and filling a set are relative to a bound that *)
(* the package chooses, which is beyond the members of the set.            *)
(***************************************************************************)
EXTENDS Integers

CONSTANTS Handles,   \* names of sets
          Bits,      \* the integers the callers put into sets
          Bounds     \* upper bounds of what a set may hold

VARIABLES live, val, neg

vars == <<live, val, neg>>

Combined(op, D, S) ==
    CASE op = "union"      -> D \union S
      [] op = "intersect"  -> D \intersect S
      [] op = "difference" -> (D \ S) \union (S \ D)
      [] op = "assign"     -> S

\* A bound beyond every member of S.
Room(S) == {n \in Bounds : S \subseteq 0..n-1}

Init == /\ live = {}
        /\ val = [h \in Handles |-> {}]
        /\ neg = [h \in Handles |-> FALSE]

Create(h) == /\ h \notin live /\ live' = live \union {h}
             /\ UNCHANGED <<val, neg>>

Duplicate(h, s) ==
    /\ h \notin live /\ s \in live /\ live' = live \union {h}
    /\ val' = [val EXCEPT ![h] = val[s]]
    /\ neg' = [neg EXCEPT ![h] = neg[s]]

Delete(h) ==
    /\ h \in live /\ live' = live \ {h}
    /\ val' = [val EXCEPT ![h] = {}]
    /\ neg' = [neg EXCEPT ![h] = FALSE]

SetTo(h, S) == h \in live /\ val' = [val EXCEPT ![h] = S] /\ UNCHANGED <<live, neg>>

Add(h, x) == SetTo(h, val[h] \union {x})

Remove(h, x) == SetTo(h, val[h] \ {x})

Clear(h) == SetTo(h, {})

Invert(h) == \E n \in Room(val[h]) : SetTo(h, (0..n-1) \ val[h])

Fill(h) == \E n \in Room(val[h]) : SetTo(h, 0..n-1)

Operate(op, d, s) == s \in live /\ SetTo(d, Combined(op, val[d], val[s]))

Complement(h) ==
    h \in live /\ neg' = [neg EXCEPT ![h] = ~@] /\ UNCHANGED <<live, val>>

Next ==
    \E h \in Handles :
        \/ Create(h) \/ Delete(h) \/ Clear(h) \/ Invert(h) \/ Fill(h) \/ Complement(h)
        \/ \E x \in Bits : Add(h, x) \/ Remove(h, x)
        \/ \E s \in Handles : Duplicate(h, s)
        \/ \E s \in Handles, op \in {"union", "intersect", "difference", "assign"} :
                Operate(op, h, s)

Spec == Init /\ [][Next]_vars

=============================================================================
