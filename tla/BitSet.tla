-------------------------------- MODULE BitSet --------------------------------
(***************************************************************************)
(* The set package (lib/set.c, include/set.h): sets of small integers as   *)
(* bit maps that grow on demand.  NFA states, DFA states and the           *)
(* characters of a class are all kept in such sets, and the generator      *)
(* compares and combines sets whose maps have different sizes.             *)
(*                                                                         *)
(* A SET is a record [nsize, nbits, compl, map]; map is a function from    *)
(* 0..nsize-1 to words, and a word is the set of its bits that are 1.      *)
(* next_member() keeps the state of a loop over a set in two static        *)
(* variables; a pointer to a set is its handle, which malloc() may give    *)
(* out again when the set has been deleted.                                *)
(***************************************************************************)
EXTENDS Integers, FiniteSets, FiniteSetsExt

CONSTANTS
    W,          \* bits in a word (_BITS_IN_INT, 32)
    DEFSIZE,    \* words in a new map, and the unit a map grows by (4)
    Bits,       \* the integers that are put into sets
    Handles,    \* pointers to sets
    NULL        \* the null pointer

ASSUME BitSetAssumption ==
    /\ W \in Nat \ {0} /\ DEFSIZE \in Nat \ {0}
    /\ Bits \subseteq Nat /\ \E x \in Bits : \A y \in Bits : y <= x
    /\ NULL \notin Handles

VARIABLES
    live,                 \* the sets that exist
    set,                  \* set[h] is *h
    oset, current_member, \* of next_member()
    open,                 \* history: a loop is going on over *oset
    owed                  \* history: the members *oset has had since the loop began
                          \* and that have not been returned

vars == <<live, set, oset, current_member, open, owed>>

loop == <<oset, current_member, open, owed>>

-----------------------------------------------------------------------------
(* set.h *)

Word == SUBSET (0..W-1)

\* _DIV_INDEX and _MOD_VAL
Cell(x) == x \div W
Bit(x) == x % W

\* _ROUND
Round(x) == ((Cell(x) + DEFSIZE) \div DEFSIZE) * DEFSIZE

MEMBER(s, x) == x < s.nbits /\ Bit(x) \in s.map[Cell(x)]

TEST(s, x) == MEMBER(s, x) # s.compl

newset == [ nsize |-> DEFSIZE, nbits |-> DEFSIZE * W, compl |-> FALSE,
            map |-> [i \in 0..DEFSIZE-1 |-> {}] ]

\* Mutant: nbits is not kept in step with nsize.
enlarge_KeepsNbits(need, s) ==
    IF need <= s.nsize THEN s
    ELSE [s EXCEPT !.nsize = need,
                   !.map = [i \in 0..need-1 |-> IF i < s.nsize THEN s.map[i] ELSE {}]]

enlarge(need, s) ==
    IF need <= s.nsize THEN s
    ELSE [s EXCEPT !.nsize = need, !.nbits = need * W,
                   !.map = [i \in 0..need-1 |-> IF i < s.nsize THEN s.map[i] ELSE {}]]

_addset(s, x) == [enlarge(Round(x), s) EXCEPT !.map[Cell(x)] = @ \union {Bit(x)}]

ADD(s, x) ==
    IF x >= s.nbits THEN _addset(s, x) ELSE [s EXCEPT !.map[Cell(x)] = @ \union {Bit(x)}]

REMOVE(s, x) == IF x >= s.nbits THEN s ELSE [s EXCEPT !.map[Cell(x)] = @ \ {Bit(x)}]

COMPLEMENT(s) == [s EXCEPT !.compl = ~@]

AllWords(s, w) == [s EXCEPT !.map = [i \in 0..s.nsize-1 |-> w]]

CLEAR(s) == AllWords(s, {})
FILL(s) == AllWords(s, 0..W-1)

-----------------------------------------------------------------------------
(* set.c *)

invert(s) == [s EXCEPT !.map = [i \in 0..s.nsize-1 |-> (0..W-1) \ s.map[i]]]

\* The flag of a complemented set survives.
truncate(s) == [newset EXCEPT !.compl = s.compl]

Combine(op, d, w) ==
    CASE op = "union"      -> d \union w
      [] op = "intersect"  -> d \intersect w
      [] op = "difference" -> (d \ w) \union (w \ d)
      [] op = "assign"     -> w

\* Mutant: the words beyond the source are left alone by every operation.
_set_op_KeepsTail(op, dest, src) ==
    LET d == enlarge(src.nsize, dest)
    IN  [d EXCEPT !.map = [i \in 0..d.nsize-1 |->
            IF i < src.nsize THEN Combine(op, d.map[i], src.map[i]) ELSE d.map[i]]]

_set_op(op, dest, src) ==
    LET d == enlarge(src.nsize, dest)
        tail(w) == IF op \in {"intersect", "assign"} THEN {} ELSE w
    IN  [d EXCEPT !.map = [i \in 0..d.nsize-1 |->
            IF i < src.nsize THEN Combine(op, d.map[i], src.map[i]) ELSE tail(d.map[i])]]

\* The value of a word, from its highest bit on.
Value(w) ==
    LET upto[k \in 0..W] ==
            IF k = 0 THEN 0 ELSE 2 * upto[k-1] + (IF W - k \in w THEN 1 ELSE 0)
    IN  upto[W]

\* Unsigned arithmetic is modulo 2^W; an unsigned value read as a signed one.
Modulus == Value(0..W-1) + 1
Signed(n) == IF 2 * (n % Modulus) >= Modulus THEN (n % Modulus) - Modulus ELSE n % Modulus

Least(S) == CHOOSE i \in S : \A j \in S : i <= j

Smaller(m, n) == IF m < n THEN m ELSE n

setcmp(s, t) ==
    LET n == Smaller(s.nsize, t.nsize)
        differ == {i \in 0..n-1 : s.map[i] # t.map[i]}
    IN  IF differ # {}
        THEN Signed(Value(s.map[Least(differ)]) - Value(t.map[Least(differ)]))
        ELSE IF \E i \in n..s.nsize-1 : s.map[i] # {} THEN 1
        ELSE IF \E i \in n..t.nsize-1 : t.map[i] # {} THEN -1
        ELSE 0

IS_EQUIVALENT(s, t) == setcmp(s, t) = 0

\* Mutant: the words beyond the other map are not looked at.
subset_IgnoresTail(s, possible_subset) ==
    \A i \in 0..Smaller(s.nsize, possible_subset.nsize)-1 :
        possible_subset.map[i] \subseteq s.map[i]

subset(s, possible_subset) ==
    LET common == Smaller(s.nsize, possible_subset.nsize)
    IN  /\ \A i \in 0..common-1 : possible_subset.map[i] \subseteq s.map[i]
        /\ \A i \in common..possible_subset.nsize-1 : possible_subset.map[i] = {}

num_ele(s) == Cardinality({x \in 0..s.nbits-1 : MEMBER(s, x)})

IS_EMPTY(s) == num_ele(s) = 0

\* _set_test() enlarges both sets.
Enlarged(s, t) == enlarge(t.nsize, s)

_set_test(s, t) ==
    LET p == Enlarged(s, t)
        r == Enlarged(t, s)
        differ == {i \in 0..p.nsize-1 : p.map[i] # r.map[i]}
    IN  IF \E i \in differ : p.map[i] \intersect r.map[i] # {} THEN "INTER"
        ELSE IF differ # {} THEN "DISJ" ELSE "EQUIV"

IS_DISJOINT(s, t) == _set_test(s, t) = "DISJ"
IS_INTERSECTING(s, t) == _set_test(s, t) = "INTER"

-----------------------------------------------------------------------------
(* The calls *)

Members(s) == {x \in 0..s.nbits-1 : MEMBER(s, x)}

Init ==
    /\ live = {} /\ set = [h \in Handles |-> newset]
    /\ oset = NULL /\ current_member = 0
    /\ open = FALSE /\ owed = {}

\* *h becomes s.
Becomes(h, s) ==
    /\ set' = [set EXCEPT ![h] = s]
    /\ owed' = IF h = oset THEN owed \intersect Members(s) ELSE owed
    /\ UNCHANGED <<live, oset, current_member, open>>

New(h) == /\ h \notin live
          /\ live' = live \union {h} /\ set' = [set EXCEPT ![h] = newset]
          /\ UNCHANGED loop

Dup(h, s) == /\ h \notin live /\ s \in live
             /\ live' = live \union {h} /\ set' = [set EXCEPT ![h] = set[s]]
             /\ UNCHANGED loop

\* next_member() is not told of it.
Delete(h) == /\ h \in live
             /\ live' = live \ {h} /\ set' = [set EXCEPT ![h] = newset]
             /\ open' = (open /\ h # oset) /\ owed' = IF open' THEN owed ELSE {}
             /\ UNCHANGED <<oset, current_member>>

Update(h) ==
    /\ h \in live
    /\ \/ \E x \in Bits : Becomes(h, ADD(set[h], x))
       \/ \E x \in Bits : Becomes(h, REMOVE(set[h], x))
       \/ Becomes(h, COMPLEMENT(set[h]))
       \/ Becomes(h, invert(set[h]))
       \/ Becomes(h, truncate(set[h]))
       \/ Becomes(h, CLEAR(set[h]))
       \/ Becomes(h, FILL(set[h]))

Operate(d, s) ==
    /\ d \in live /\ s \in live
    /\ \E op \in {"union", "intersect", "difference", "assign"} :
            Becomes(d, _set_op(op, set[d], set[s]))

\* A call of _set_test(): it leaves two maps of one size.
SetTest(h, s) ==
    /\ {h, s} \subseteq live
    /\ set' = [set EXCEPT ![h] = Enlarged(set[h], set[s]), ![s] = Enlarged(set[s], set[h])]
    /\ UNCHANGED <<live, loop>>

\* next_member(NULL)
Reset == /\ oset' = NULL /\ open' = FALSE /\ owed' = {}
         /\ UNCHANGED <<live, set, current_member>>

\* The zero words in front of a map.
LeadingZeros(s) ==
    Least({i \in 0..s.nsize : i = s.nsize \/ s.map[i] # {}})

\* Mutant: a loop begins where the last one stopped.
From_KeepsPlace(h) == current_member

\* Where the loop of next_member(h) begins.
From(h) == IF oset # h THEN LeadingZeros(set[h]) * W ELSE current_member

\* No set that rlex loops over is complemented; a loop ends at -1, and it does not go on
\* over a set that has been deleted (every loop but that of fix_dtran(), which takes
\* another set every time, begins with next_member(NULL)).
NextMember(h) ==
    /\ h \in live /\ ~set[h].compl
    /\ oset = h => open /\ current_member <= set[h].nbits
    /\ LET found == {x \in From(h)..set[h].nbits-1 : TEST(set[h], x)}
           begun == IF oset = h THEN owed ELSE Members(set[h])
       IN  /\ current_member' = IF found = {} THEN set[h].nbits + 1 ELSE Least(found) + 1
           /\ owed' = IF found = {} THEN begun ELSE begun \ {Least(found)}
    /\ oset' = h /\ open' = TRUE
    /\ UNCHANGED <<live, set>>

Next == \/ \E h \in Handles : New(h) \/ Delete(h) \/ Update(h) \/ NextMember(h)
        \/ \E h, s \in Handles : Dup(h, s) \/ Operate(h, s) \/ SetTest(h, s)
        \/ Reset

Spec == Init /\ [][Next]_vars

-----------------------------------------------------------------------------
(* Every SET is well formed: nsize words in its map, nbits of them. *)
TypeOK ==
    /\ live \subseteq Handles /\ oset \in Handles \union {NULL}
    /\ \A h \in Handles :
         /\ set[h].nsize \in Nat \ {0} /\ set[h].nsize % DEFSIZE = 0
         /\ set[h].nbits = set[h].nsize * W
         /\ set[h].compl \in BOOLEAN
         /\ set[h].map \in [0..set[h].nsize-1 -> Word]
    /\ current_member \in Nat /\ open \in BOOLEAN /\ owed \subseteq Nat

\* The package implements sets of integers: whatever the sizes of the maps, a call
\* changes the members of its set as it says and of no other set.
Sets == INSTANCE IntegerSets WITH
          val <- [h \in Handles |-> Members(set[h])],
          neg <- [h \in Handles |-> set[h].compl],
          Bounds <- {n * W : n \in 1..Round(Max(Bits))}

ImplementsSets == Sets!Spec

\* Comparisons ignore the sizes of the maps: in_dstates() and minimize() compare sets
\* that have grown differently (set.c:94-108, 131-172, 183-211).
ComparisonsAgree ==
    \A h, s \in live :
        /\ IS_EQUIVALENT(set[h], set[s]) <=> Members(set[h]) = Members(set[s])
        /\ subset(set[h], set[s]) <=> Members(set[s]) \subseteq Members(set[h])
        /\ IS_EMPTY(set[h]) <=> IS_EQUIVALENT(set[h], newset)

\* A loop misses no member that its set has had since the loop began, while members are
\* added and removed, before it and behind it, and the map grows and shrinks: minimize()
\* removes from the set it loops over (minimize.c:132-142).
LoopMissesNothing == \A x \in owed : x >= current_member

-----------------------------------------------------------------------------
(* What the tests of the code say and the code does not do: each of the      *)
(* following is refuted by a run.                                            *)

\* set.c:420-421, the test prints that two sets "ARE" disjoint if IS_DISJOINT() says so.
DisjointMeansDisjoint ==
    \A h, s \in live :
        IS_DISJOINT(set[h], set[s]) => Members(set[h]) \intersect Members(set[s]) = {}

\* set.c:324 and 480, the test sorts sets with setcmp(): it is an order.
SetcmpIsAnOrder ==
    \A h, s \in live : setcmp(set[h], set[s]) < 0 <=> setcmp(set[s], set[h]) > 0

=============================================================================
