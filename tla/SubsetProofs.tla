----------------------------- MODULE SubsetProofs -----------------------------
(***************************************************************************)
(* Proofs about the subset construction, for every NFA, every alphabet and *)
(* every size of the tables.                                               *)
(***************************************************************************)
EXTENDS SubsetConstruction, LeastElements, SequenceTheorems, TLAPS

-----------------------------------------------------------------------------
(* The inductive invariant *)

Array == \E m \in Nfas : Nfa = m.node

\* A set of NFA states that epsilon edges do not lead out of.
EClosed(S) == EpsilonTargets(S) \subseteq S

\* The set e_closure() was called with.
Seed == move(Dstates[current].set, c)

Popped == NFA_set \ Range(stack)

\* What e_closure() has found so far: what has been popped has its successors in the set,
\* and only what has to be in the closure is in the set.
Closing ==
    pc = "closing" =>
        /\ EpsilonTargets(Popped) \subseteq NFA_set
        /\ current # F =>
             /\ Seed # {} /\ Seed \subseteq NFA_set
             /\ \A T \in SUBSET States : Seed \subseteq T /\ EClosed(T) => NFA_set \subseteq T

\* The accepting state of the lowest index that has been popped.
Winner ==
    pc = "closing" =>
        /\ \A i \in Popped : Nfa[i].accept # NULL => accept_num <= i
        /\ \/ accept_num = MAX_INT /\ isaccept = NULL
           \/ /\ accept_num \in NFA_set /\ Nfa[accept_num].accept # NULL
              /\ isaccept = Nfa[accept_num].accept /\ anchor = Nfa[accept_num].anchor

\* Rows are filled one after the other, each from the last column to the first; a row is
\* marked when it is begun.
Position ==
    /\ current < Nstates
    /\ \A s \in 0..DFA_MAX-1 : Dstates[s].mark <=> s <= current
    /\ Last_marked = (IF current = F THEN 0 ELSE current) \/ pc = "done"
    /\ pc \in {"row", "done"} => Nstates > 0 /\ (current # F => c = -1)
    /\ pc = "done" => current = Nstates - 1
    /\ pc = "move" => current # F
    /\ pc \in {"move", "closing"} /\ current # F => c \in Alphabet
    /\ pc = "closing" /\ current = F => Nstates = 0

IInv ==
    /\ Array /\ TypeOK /\ StackFits /\ Closing /\ Winner /\ Position
    /\ RowsAreClosedMoves /\ StatesDistinct /\ AcceptsFirst

-----------------------------------------------------------------------------
(* The NFA and its epsilon edges *)

\* The nodes are numbered from 0, and the edges lead to nodes.
LEMMA NfaFacts ==
    ASSUME Array
    PROVE  /\ MAX_INT \in Nat \ {0} /\ States = 0..MAX_INT-1 /\ IsFiniteSet(States)
           /\ Cardinality(States) = MAX_INT
           /\ Nfa \in [States -> Node(MAX_INT)]
           /\ \A i \in States : Nfa[i].edge \in Alphabet \union {CCL} => Nfa[i].next # NONE
<1>1. PICK m \in Nfas : Nfa = m.node
  BY DEF Array
<1> DEFINE n == Cardinality(DOMAIN m.node)
<1>2. /\ n \in Nat \ {0} /\ m.node \in [0..n-1 -> Node(n)]
      /\ \A i \in 0..n-1 : m.node[i].edge \in Alphabet \union {CCL} => m.node[i].next # NONE
  BY SubsetAssumption
<1>3. MAX_INT = n
  BY <1>1 DEF MAX_INT, States
<1>4. States = 0..n-1
  BY <1>1, <1>2 DEF States
<1> HIDE DEF n
<1>5. IsFiniteSet(0..n-1)
  <2>1. n - 1 \in Int
    BY <1>2
  <2> QED BY <2>1, FS_Interval
<1> QED BY <1>1, <1>2, <1>3, <1>4, <1>5 DEF MAX_INT

LEMMA NodeFacts ==
    ASSUME Array, NEW i \in States
    PROVE  /\ Nfa[i].next \in States \union {NONE} /\ Nfa[i].next2 \in States \union {NONE}
           /\ Nfa[i].accept \in Strings \union {NULL} /\ Nfa[i].anchor \in 0..3
           /\ NONE \notin States
BY NfaFacts DEF Node, NONE

LEMMA EpsilonTargetsFacts ==
    ASSUME Array, NEW S \in SUBSET States
    PROVE  /\ EpsilonTargets(S) \in SUBSET States
           /\ \A T \in SUBSET States : S \subseteq T => EpsilonTargets(S) \subseteq EpsilonTargets(T)
           /\ \A T \in SUBSET States :
                (\A i \in S : Nfa[i].edge = EPSILON =>
                    Nfa[i].next \in T \union {NONE} /\ Nfa[i].next2 \in T \union {NONE})
                <=> EpsilonTargets(S) \subseteq T
BY NodeFacts DEF EpsilonTargets

LEMMA MoveFacts ==
    ASSUME Array, NEW S \in SUBSET States, NEW ch \in Alphabet
    PROVE  move(S, ch) \in SUBSET States
<1>1. \A j \in States : Nfa[j].edge = ch \/ Nfa[j].edge = CCL => Nfa[j].next \in States
  BY NodeFacts, NfaFacts
<1> QED BY <1>1 DEF move

\* The recursion of EpsilonClosure defines a function.
LEMMA ReachDefined ==
    ASSUME Array, NEW S \in SUBSET States
    PROVE  \E reach : /\ reach[0] = S
                      /\ \A n \in 1..MAX_INT : reach[n] = reach[n-1] \union EpsilonTargets(reach[n-1])
                      /\ EpsilonClosure(S) = reach[MAX_INT]
<1> DEFINE Step(f, n) == IF n = 0 THEN S ELSE f[n-1] \union EpsilonTargets(f[n-1])
           Equation(f, m) == f = [n \in 0..m |-> Step(f, n)]
           P == {m \in Nat : \E f : Equation(f, m)}
<1>0. MAX_INT \in Nat /\ Cardinality(States) = MAX_INT
  BY NfaFacts
<1>1. 0 \in P
  <2>1. Equation([n \in 0..0 |-> S], 0)
    OBVIOUS
  <2> QED BY <2>1
<1>2. ASSUME NEW m \in Nat, m \in P PROVE m + 1 \in P
  <2>1. PICK f : Equation(f, m)
    BY <1>2
  <2>2. \A n \in 0..m : f[n] = Step(f, n)
    BY <2>1
  <2> DEFINE last == f[m] \union EpsilonTargets(f[m])
             g == [n \in 0..m+1 |-> IF n <= m THEN f[n] ELSE last]
  <2>3. (\A n \in 0..m : g[n] = f[n]) /\ g[m+1] = last
    BY <1>2
  <2>4. ASSUME NEW n \in 0..m+1 PROVE g[n] = Step(g, n)
    <3> HIDE DEF g
    <3>1. CASE n = 0
      <4>1. 0 \in 0..m
        BY <1>2
      <4>2. f[0] = S
        BY <2>2, <4>1
      <4>3. g[0] = S
        BY <2>3, <4>1, <4>2
      <4> QED BY <3>1, <4>3
    <3>2. CASE n # 0 /\ n <= m
      <4>1. n \in 0..m /\ n - 1 \in 0..m
        BY <3>2, <1>2
      <4>2. f[n] = f[n-1] \union EpsilonTargets(f[n-1])
        BY <2>2, <3>2, <4>1
      <4> QED BY <2>3, <3>2, <4>1, <4>2
    <3>3. CASE n = m + 1
      <4>1. n - 1 = m /\ n # 0 /\ m \in 0..m
        BY <3>3, <1>2
      <4> QED BY <2>3, <3>3, <4>1
    <3> QED BY <3>1, <3>2, <3>3, <1>2
  <2>5. g = [n \in 0..m+1 |-> g[n]]
    OBVIOUS
  <2>6. Equation(g, m + 1)
    <3> HIDE DEF g
    <3>1. [n \in 0..m+1 |-> g[n]] = [n \in 0..m+1 |-> Step(g, n)]
      <4> HIDE DEF Step
      <4> QED BY <2>4
    <3> QED BY <2>5, <3>1
  <2>7. \E h : Equation(h, m + 1)
    <3> HIDE DEF Equation, g
    <3> QED BY <2>6
  <2> QED BY <2>7, <1>2
<1>3. \A m \in Nat : m \in P
  <2> HIDE DEF P
  <2> QED BY <1>1, <1>2, SetInduction
<1> DEFINE reach == CHOOSE f : Equation(f, MAX_INT)
<1>4. Equation(reach, MAX_INT)
  <2>1. \E f : Equation(f, MAX_INT)
    BY <1>0, <1>3
  <2> HIDE DEF Equation
  <2> QED BY <2>1
<1>5. EpsilonClosure(S) = reach[MAX_INT]
  BY <1>0 DEF EpsilonClosure
<1>6. /\ reach[0] = S
      /\ \A n \in 1..MAX_INT : reach[n] = reach[n-1] \union EpsilonTargets(reach[n-1])
  <2> HIDE DEF reach
  <2>1. reach = [n \in 0..MAX_INT |-> Step(reach, n)]
    BY <1>4
  <2> HIDE DEF Step
  <2>2. \A n \in 0..MAX_INT : reach[n] = Step(reach, n)
    BY <2>1
  <2>3. reach[0] = Step(reach, 0)
    BY <1>0, <2>2
  <2>4. \A n \in 1..MAX_INT : n \in 0..MAX_INT /\ n # 0
    BY <1>0
  <2> QED BY <2>2, <2>3, <2>4 DEF Step
<1> HIDE DEF reach
<1> QED BY <1>5, <1>6

\* EpsilonClosure(S) is the least set with S in it that epsilon edges do not lead out of:
\* as many turns as there are states are enough.
LEMMA EpsilonClosureIsLeast ==
    ASSUME Array, NEW S \in SUBSET States
    PROVE  /\ EpsilonClosure(S) \in SUBSET States /\ S \subseteq EpsilonClosure(S)
           /\ EClosed(EpsilonClosure(S))
           /\ \A T \in SUBSET States : S \subseteq T /\ EClosed(T) => EpsilonClosure(S) \subseteq T
<1>1. PICK reach : /\ reach[0] = S
                   /\ \A n \in 1..MAX_INT :
                        reach[n] = reach[n-1] \union EpsilonTargets(reach[n-1])
                   /\ EpsilonClosure(S) = reach[MAX_INT]
  BY ReachDefined
<1>2. MAX_INT \in Nat /\ IsFiniteSet(States) /\ Cardinality(States) = MAX_INT
  BY NfaFacts
<1>3. ASSUME NEW n \in Nat, n + 1 <= MAX_INT
      PROVE  reach[n+1] = reach[n] \union EpsilonTargets(reach[n])
  <2>1. n + 1 \in 1..MAX_INT /\ (n + 1) - 1 = n
    BY <1>2, <1>3
  <2> QED BY <1>1, <2>1
<1> DEFINE Holds(n) == /\ reach[n] \in SUBSET States /\ S \subseteq reach[n]
                       /\ EClosed(reach[n]) \/ Cardinality(reach[n]) >= n
                       /\ \A T \in SUBSET States : S \subseteq T /\ EClosed(T) => reach[n] \subseteq T
           P == {n \in Nat : n <= MAX_INT => Holds(n)}
<1>4. 0 \in P
  <2>1. Cardinality(S) >= 0
    BY <1>2, FS_Subset, FS_CardinalityType
  <2> QED BY <1>1, <2>1
<1>5. ASSUME NEW n \in Nat, n \in P PROVE n + 1 \in P
  <2> SUFFICES ASSUME n + 1 <= MAX_INT PROVE Holds(n + 1)
    OBVIOUS
  <2>1. Holds(n) /\ reach[n+1] = reach[n] \union EpsilonTargets(reach[n])
    BY <1>2, <1>3, <1>5
  <2>2. reach[n+1] \in SUBSET States /\ S \subseteq reach[n+1]
    BY <2>1, EpsilonTargetsFacts
  <2>3. ASSUME NEW T \in SUBSET States, S \subseteq T, EClosed(T) PROVE reach[n+1] \subseteq T
    <3>1. EpsilonTargets(reach[n]) \subseteq EpsilonTargets(T)
      BY <2>1, <2>3, EpsilonTargetsFacts
    <3> QED BY <2>1, <2>3, <3>1 DEF EClosed
  <2>4. CASE EClosed(reach[n])
    <3>1. reach[n+1] = reach[n]
      BY <2>1, <2>4 DEF EClosed
    <3> QED BY <2>2, <2>3, <2>4, <3>1
  <2>5. CASE ~EClosed(reach[n])
    <3>1. PICK t \in EpsilonTargets(reach[n]) : t \notin reach[n]
      BY <2>5 DEF EClosed
    <3>2. IsFiniteSet(reach[n]) /\ IsFiniteSet(reach[n+1])
      BY <1>2, <2>1, <2>2, FS_Subset
    <3>3. /\ Cardinality(reach[n] \union {t}) = Cardinality(reach[n]) + 1
          /\ IsFiniteSet(reach[n] \union {t})
      BY <3>1, <3>2, FS_AddElement
    <3>4. Cardinality(reach[n] \union {t}) <= Cardinality(reach[n+1])
      <4>1. reach[n] \union {t} \in SUBSET reach[n+1]
        BY <2>1, <3>1
      <4> QED BY <3>2, <4>1, FS_Subset
    <3>5. Cardinality(reach[n]) \in Nat /\ Cardinality(reach[n+1]) \in Nat
      BY <3>2, FS_CardinalityType
    <3>6. Cardinality(reach[n]) >= n
      BY <2>1, <2>5
    <3>7. Cardinality(reach[n+1]) >= n + 1
      BY <3>3, <3>4, <3>5, <3>6
    <3> QED BY <2>2, <2>3, <3>7
  <2> QED BY <2>4, <2>5
<1>6. \A n \in Nat : n \in P
  <2> HIDE DEF P
  <2> QED BY <1>4, <1>5, SetInduction
<1>7. Holds(MAX_INT)
  BY <1>2, <1>6
<1>8. EClosed(reach[MAX_INT])
  <2> SUFFICES ASSUME Cardinality(reach[MAX_INT]) >= MAX_INT PROVE EClosed(reach[MAX_INT])
    BY <1>7
  <2>1. Cardinality(reach[MAX_INT]) <= Cardinality(States)
    BY <1>2, <1>7, FS_Subset
  <2>2. Cardinality(reach[MAX_INT]) \in Nat
    BY <1>2, <1>7, FS_Subset, FS_CardinalityType
  <2>3. reach[MAX_INT] = States
    BY <1>2, <1>7, <2>1, <2>2, FS_Subset
  <2> QED BY <2>3, EpsilonTargetsFacts DEF EClosed
<1> QED BY <1>1, <1>7, <1>8

\* It is the only such set.
LEMMA EpsilonClosureUnique ==
    ASSUME Array, NEW S \in SUBSET States, NEW C \in SUBSET States, S \subseteq C, EClosed(C),
           \A T \in SUBSET States : S \subseteq T /\ EClosed(T) => C \subseteq T
    PROVE  EpsilonClosure(S) = C
BY EpsilonClosureIsLeast

LEMMA EpsilonClosureEmpty == ASSUME Array PROVE EpsilonClosure({}) = {}
<1>1. EClosed({})
  BY DEF EClosed, EpsilonTargets
<1> QED BY <1>1, EpsilonClosureUnique

-----------------------------------------------------------------------------
(* The stack of e_closure() *)

Distinct(seq) == \A p, q \in 1..Len(seq) : p # q => seq[p] # seq[q]

\* A sequence of different members of a finite set is no longer than the set.
LEMMA DistinctFits ==
    ASSUME NEW S, IsFiniteSet(S), NEW seq \in Seq(S), Distinct(seq)
    PROVE  Len(seq) <= Cardinality(S)
<1>1. seq \in [1..Len(seq) -> S] /\ Len(seq) \in Nat
  OBVIOUS
<1>2. seq \in Injection(1..Len(seq), S)
  BY <1>1 DEF Injection, IsInjective, Distinct
<1>3. Cardinality(1..Len(seq)) = Len(seq)
  <2> DEFINE n == Len(seq)
  <2>1. n \in Nat
    BY <1>1
  <2> HIDE DEF n
  <2>2. Cardinality(1..n) = n
    BY <2>1, FS_Interval
  <2> QED BY <2>2 DEF n
<1>4. Cardinality(1..Len(seq)) <= Cardinality(S)
  BY <1>2, FS_Injection
<1> QED BY <1>3, <1>4

\* InOrder(S) lists every member of S once.
LEMMA InOrderFacts ==
    ASSUME NEW S \in SUBSET Nat, IsFiniteSet(S)
    PROVE  InOrder(S) \in Seq(S) /\ Range(InOrder(S)) = S /\ Distinct(InOrder(S))
<1> DEFINE n == Cardinality(S)
           below(i) == {j \in S : j < i}
           rank == [i \in S |-> Cardinality(below(i))]
<1>1. n \in Nat /\ IsFiniteSet(0..n-1) /\ Cardinality(0..n-1) = n
  <2>1. n \in Nat
    BY FS_CardinalityType
  <2> HIDE DEF n
  <2> QED BY <2>1, CardBelow
<1>2. ASSUME NEW i \in S
      PROVE  /\ rank[i] \in 0..n-1
             /\ \A j \in S : i < j => rank[i] < rank[j]
  <2>1. below(i) \in SUBSET S /\ IsFiniteSet(below(i)) /\ Cardinality(below(i)) \in Nat
    <3>1. below(i) \in SUBSET S
      OBVIOUS
    <3> QED BY <3>1, FS_Subset, FS_CardinalityType
  <2>2. ASSUME NEW T \in SUBSET S, below(i) \union {i} \subseteq T
        PROVE  Cardinality(below(i)) < Cardinality(T)
    <3>1. Cardinality(below(i) \union {i}) = Cardinality(below(i)) + 1
      <4>1. i \notin below(i)
        OBVIOUS
      <4> HIDE DEF below
      <4> QED BY <2>1, <4>1, FS_AddElement
    <3>2. IsFiniteSet(T)
      BY FS_Subset
    <3>3. Cardinality(below(i) \union {i}) <= Cardinality(T) /\ Cardinality(T) \in Nat
      <4> HIDE DEF below
      <4> QED BY <2>2, <3>2, FS_Subset, FS_CardinalityType
    <3> HIDE DEF below
    <3> QED BY <2>1, <3>1, <3>3
  <2>3. Cardinality(below(i)) < n
    BY <2>1, <2>2
  <2>4. ASSUME NEW j \in S, i < j PROVE Cardinality(below(i)) < Cardinality(below(j))
    <3>1. below(i) \union {i} \subseteq below(j) /\ below(j) \in SUBSET S
      <4> HIDE DEF rank, n
      <4>1. i \in Nat /\ j \in Nat /\ \A x \in S : x \in Nat
        OBVIOUS
      <4>2. \A x \in S : x < i => x < j
        BY <4>1, <2>4
      <4> QED BY <4>2, <2>4
    <3> HIDE DEF below
    <3> QED BY <3>1, <2>2
  <2>5. rank[i] = Cardinality(below(i)) /\ \A j \in S : rank[j] = Cardinality(below(j))
    OBVIOUS
  <2> HIDE DEF rank, below, n
  <2> QED BY <1>1, <2>1, <2>3, <2>4, <2>5
<1>3. rank \in [S -> 0..n-1]
  <2>1. rank = [i \in S |-> rank[i]]
    OBVIOUS
  <2> HIDE DEF rank, n
  <2> QED BY <1>2, <2>1
<1>4. \A i, j \in S : rank[i] = rank[j] => i = j
  <2> SUFFICES ASSUME NEW i \in S, NEW j \in S, rank[i] = rank[j] PROVE i = j
    OBVIOUS
  <2>1. rank[i] \in Int /\ ~(i < j) /\ ~(j < i)
    <3> HIDE DEF rank, n
    <3> QED BY <1>2
  <2> QED BY <2>1
<1>5. rank \in Surjection(S, 0..n-1)
  <2>1. rank \in Injection(S, 0..n-1)
    <3> HIDE DEF rank, n
    <3> QED BY <1>3, <1>4 DEF Injection, IsInjective
  <2>2. Cardinality(S) = Cardinality(0..n-1)
    BY <1>1
  <2> HIDE DEF rank, n
  <2> QED BY <1>1, <2>1, <2>2, FS_Injection
<1>6. ASSUME NEW k \in 1..n
      PROVE  InOrder(S)[k] \in S /\ rank[InOrder(S)[k]] = k - 1
  <2>1. k - 1 \in 0..n-1
    <3> HIDE DEF n
    <3> QED BY <1>1
  <2>2. PICK i \in S : rank[i] = k - 1
    <3> HIDE DEF rank, n
    <3> QED BY <1>5, <2>1 DEF Surjection
  <2>3. Cardinality({j \in S : j < i}) = k - 1
    BY <2>2
  <2>4. InOrder(S)[k] = CHOOSE x \in S : Cardinality({j \in S : j < x}) = k - 1
    <3> HIDE DEF rank, below
    <3> QED BY Zenon DEF InOrder
  <2>5. InOrder(S)[k] \in S /\ Cardinality({j \in S : j < InOrder(S)[k]}) = k - 1
    BY <2>3, <2>4
  <2> QED BY <2>5
<1>7. InOrder(S) \in [1..n -> S]
  <2> DEFINE at(k) == CHOOSE i \in S : Cardinality({j \in S : j < i}) = k - 1
  <2>1. InOrder(S) = [k \in 1..n |-> at(k)]
    BY DEF InOrder
  <2> HIDE DEF n, at
  <2>2. \A k \in 1..n : at(k) \in S
    BY <1>6, <2>1
  <2> QED BY <2>1, <2>2
<1>8. InOrder(S) \in Seq(S) /\ Len(InOrder(S)) = n
  <2> HIDE DEF n
  <2> QED BY <1>1, <1>7, SeqDef
<1>9. Distinct(InOrder(S))
  <2> SUFFICES ASSUME NEW p \in 1..n, NEW q \in 1..n, InOrder(S)[p] = InOrder(S)[q] PROVE p = q
    BY <1>8 DEF Distinct
  <2>1. p - 1 = q - 1
    <3> HIDE DEF rank, n
    <3> QED BY <1>6
  <2> HIDE DEF n
  <2> QED BY <1>1, <2>1
<1>10. Range(InOrder(S)) = S
  <2>1. DOMAIN InOrder(S) = 1..n /\ Range(InOrder(S)) \subseteq S
    <3> HIDE DEF n
    <3> QED BY <1>7 DEF Range
  <2>2. ASSUME NEW i \in S PROVE i \in Range(InOrder(S))
    <3> HIDE DEF rank, n
    <3>1. rank[i] + 1 \in 1..n
      BY <1>1, <1>2
    <3>2. rank[InOrder(S)[rank[i] + 1]] = (rank[i] + 1) - 1 /\ InOrder(S)[rank[i] + 1] \in S
      BY <1>6, <3>1
    <3>3. rank[i] \in Int
      BY <1>2
    <3>4. InOrder(S)[rank[i] + 1] = i
      <4>1. (rank[i] + 1) - 1 = rank[i]
        BY <3>3
      <4> QED BY <1>4, <3>2, <4>1
    <3> QED BY <2>1, <3>1, <3>4 DEF Range
  <2> QED BY <2>1, <2>2
<1> QED BY <1>8, <1>9, <1>10

\* What one turn of the loop does to the stack: its top is replaced by new states.
LEMMA PopAndPush ==
    ASSUME NEW S, NEW seq \in Seq(S), seq # <<>>, Distinct(seq),
           NEW new \in Seq(S), Distinct(new), Range(new) \intersect Range(seq) = {}
    PROVE  /\ Front(seq) \o new \in Seq(S) /\ Distinct(Front(seq) \o new)
           /\ Range(Front(seq) \o new) = (Range(seq) \ {Last(seq)}) \union Range(new)
           /\ Last(seq) \in S /\ Last(seq) \in Range(seq)
<1> DEFINE n == Len(seq)
           m == Len(new)
           t == Front(seq) \o new
<1>1. /\ n \in Nat \ {0} /\ m \in Nat /\ seq \in [1..n -> S] /\ new \in [1..m -> S]
      /\ \A k \in 1..n : seq[k] \in Range(seq)
      /\ \A k \in 1..m : new[k] \in Range(new)
  BY DEF Range
<1>2. /\ Front(seq) \in Seq(S) /\ Len(Front(seq)) = n - 1
      /\ \A k \in 1..n-1 : Front(seq)[k] = seq[k]
  BY <1>1 DEF Front
<1>3. /\ t \in Seq(S) /\ Len(t) = n - 1 + m
      /\ \A k \in 1..n-1 : t[k] = seq[k]
      /\ \A k \in n..n-1+m : t[k] = new[k-n+1]
  <2> DEFINE f == Front(seq)
  <2>1. f \in Seq(S) /\ Len(f) = n - 1 /\ \A k \in 1..n-1 : f[k] = seq[k]
    BY <1>2
  <2> HIDE DEF f
  <2>2. /\ f \o new \in Seq(S) /\ Len(f \o new) = Len(f) + Len(new)
        /\ \A k \in 1..Len(f)+Len(new) :
             (f \o new)[k] = IF k <= Len(f) THEN f[k] ELSE new[k-Len(f)]
    BY <2>1, ConcatProperties
  <2>3. t = f \o new
    BY DEF f
  <2> HIDE DEF t, n, m
  <2>4. Len(new) = m
    BY DEF m
  <2>5. /\ t \in Seq(S) /\ Len(t) = n - 1 + m
        /\ \A k \in 1..n-1+m : t[k] = IF k <= n-1 THEN f[k] ELSE new[k-(n-1)]
    BY <2>1, <2>2, <2>3, <2>4
  <2>6. \A k \in n..n-1+m : k \in 1..n-1+m /\ ~(k <= n-1) /\ k-(n-1) = k-n+1
    BY <1>1
  <2>7. \A k \in 1..n-1 : k \in 1..n-1+m /\ k <= n-1
    BY <1>1
  <2> QED BY <2>1, <2>5, <2>6, <2>7
<1> HIDE DEF t, n, m
<1>4. Last(seq) = seq[n] /\ n \in 1..n
  BY <1>1 DEF Last, n
<1>5. \A p, q \in 1..n : p # q => seq[p] # seq[q]
  BY DEF Distinct, n
<1>6. \A p, q \in 1..m : p # q => new[p] # new[q]
  BY DEF Distinct, m
<1>7. \A k \in n..n-1+m : k-n+1 \in 1..m
  BY <1>1
<1>8. Distinct(t)
  <2> SUFFICES ASSUME NEW p \in 1..n-1+m, NEW q \in 1..n-1+m, p # q PROVE t[p] # t[q]
    BY <1>3 DEF Distinct
  <2>1. \A k \in 1..n-1+m : \/ k \in 1..n-1 /\ k \in 1..n /\ t[k] = seq[k]
                            \/ k \in n..n-1+m /\ k-n+1 \in 1..m /\ t[k] = new[k-n+1]
    BY <1>1, <1>3, <1>7
  <2>2. \A k \in 1..n, l \in 1..m : seq[k] # new[l]
    BY <1>1
  <2>3. CASE p \in 1..n-1 /\ q \in 1..n-1
    BY <1>1, <1>3, <1>5, <2>3
  <2>4. CASE p \in n..n-1+m /\ q \in n..n-1+m
    <3>1. p-n+1 # q-n+1
      BY <1>1, <2>4
    <3> QED BY <1>3, <1>6, <1>7, <2>4, <3>1
  <2>5. CASE \/ p \in 1..n-1 /\ q \in n..n-1+m
             \/ q \in 1..n-1 /\ p \in n..n-1+m
    <3>1. \A k \in 1..n-1 : k \in 1..n
      BY <1>1
    <3> QED BY <1>3, <1>7, <2>2, <2>5, <3>1
  <2> QED BY <2>1, <2>3, <2>4, <2>5
<1>9. Range(t) = (Range(seq) \ {Last(seq)}) \union Range(new)
  <2>1. /\ Range(t) = {t[k] : k \in 1..n-1+m}
        /\ Range(seq) = {seq[k] : k \in 1..n}
        /\ Range(new) = {new[k] : k \in 1..m}
    <3>1. DOMAIN t = 1..n-1+m /\ DOMAIN seq = 1..n /\ DOMAIN new = 1..m
      BY <1>1, <1>3
    <3> QED BY <3>1 DEF Range
  <2>2. ASSUME NEW x \in Range(t) PROVE x \in (Range(seq) \ {Last(seq)}) \union Range(new)
    <3>1. PICK k \in 1..n-1+m : x = t[k]
      BY <2>1
    <3>2. CASE k \in 1..n-1
      <4>1. k \in 1..n /\ k # n /\ x = seq[k]
        BY <1>1, <1>3, <3>1, <3>2
      <4> QED BY <1>4, <1>5, <2>1, <4>1
    <3>3. CASE k \in n..n-1+m
      BY <1>3, <1>7, <2>1, <3>1, <3>3
    <3> QED BY <1>1, <3>2, <3>3
  <2>3. ASSUME NEW x \in Range(seq), x # Last(seq) PROVE x \in Range(t)
    <3>1. PICK k \in 1..n : x = seq[k]
      BY <2>1
    <3>2. k \in 1..n-1 /\ k \in 1..n-1+m
      BY <1>1, <1>4, <2>3, <3>1
    <3> QED BY <1>3, <2>1, <3>1, <3>2
  <2>4. ASSUME NEW x \in Range(new) PROVE x \in Range(t)
    <3>1. PICK k \in 1..m : x = new[k]
      BY <2>1
    <3>2. k+n-1 \in n..n-1+m /\ k+n-1 \in 1..n-1+m /\ (k+n-1)-n+1 = k
      BY <1>1
    <3>3. t[k+n-1] = new[k]
      BY <1>3, <3>2
    <3> QED BY <2>1, <3>1, <3>2, <3>3
  <2> QED BY <2>2, <2>3, <2>4
<1> QED BY <1>1, <1>3, <1>4, <1>8, <1>9 DEF t

\* What the loop pushes: the successors that are not in the set, each once.
LEMMA FreshFacts ==
    ASSUME Array, NFA_set \in SUBSET States, NEW i \in States
    PROVE  /\ Fresh(i) \in Seq(States) /\ Distinct(Fresh(i))
           /\ Range(Fresh(i)) \intersect NFA_set = {} /\ Range(Fresh(i)) \subseteq States
           /\ EpsilonTargets({i}) \subseteq NFA_set \union Range(Fresh(i))
           /\ Range(Fresh(i)) \subseteq EpsilonTargets({i})
<1> DEFINE p == Nfa[i]
           first == IF p.edge = EPSILON /\ p.next \notin NFA_set \union {NONE}
                    THEN <<p.next>> ELSE <<>>
           second == IF p.edge = EPSILON /\ p.next2 \notin NFA_set \union {NONE} \union Range(first)
                     THEN <<p.next2>> ELSE <<>>
<1>1. p.next \in States \union {NONE} /\ p.next2 \in States \union {NONE}
  BY NodeFacts
<1>2. /\ first \in Seq(States)
      /\ Range(first) = IF p.edge = EPSILON /\ p.next \notin NFA_set \union {NONE} THEN {p.next} ELSE {}
  <2>1. Range(<<>>) = {} /\ Range(<<p.next>>) = {p.next}
    BY DEF Range
  <2>2. CASE p.edge = EPSILON /\ p.next \notin NFA_set \union {NONE}
    <3>1. first = <<p.next>> /\ p.next \in States
      BY <1>1, <2>2
    <3> QED BY <2>1, <2>2, <3>1
  <2>3. CASE ~(p.edge = EPSILON /\ p.next \notin NFA_set \union {NONE})
    <3>1. first = <<>>
      BY <2>3
    <3>2. <<>> \in Seq(States)
      OBVIOUS
    <3> HIDE DEF first
    <3> QED BY <2>1, <2>3, <3>1, <3>2
  <2> QED BY <2>2, <2>3
<1> HIDE DEF first
<1>3. /\ second \in Seq(States)
      /\ Range(second) = IF p.edge = EPSILON /\ p.next2 \notin NFA_set \union {NONE} \union Range(first)
                         THEN {p.next2} ELSE {}
  <2>1. Range(<<>>) = {} /\ Range(<<p.next2>>) = {p.next2}
    BY DEF Range
  <2>2. CASE p.edge = EPSILON /\ p.next2 \notin NFA_set \union {NONE} \union Range(first)
    <3>1. second = <<p.next2>> /\ p.next2 \in States
      BY <1>1, <2>2
    <3> QED BY <2>1, <2>2, <3>1
  <2>3. CASE ~(p.edge = EPSILON /\ p.next2 \notin NFA_set \union {NONE} \union Range(first))
    <3>1. second = <<>>
      BY <2>3
    <3>2. <<>> \in Seq(States)
      OBVIOUS
    <3> HIDE DEF second
    <3> QED BY <2>1, <2>3, <3>1, <3>2
  <2> QED BY <2>2, <2>3
<1>4. Len(first) \in 0..1 /\ Len(second) \in 0..1
  BY DEF first
<1> HIDE DEF second
<1>5. Fresh(i) = first \o second
  BY DEF Fresh, first, second
<1>6. Fresh(i) \in Seq(States) /\ Range(Fresh(i)) = Range(first) \union Range(second)
  BY <1>2, <1>3, <1>5, RangeConcatenation
<1>7. Distinct(Fresh(i))
  <2> SUFFICES ASSUME NEW k \in 1..Len(Fresh(i)), NEW l \in 1..Len(Fresh(i)), k # l
               PROVE  Fresh(i)[k] # Fresh(i)[l]
    BY DEF Distinct
  <2>1. Len(Fresh(i)) = Len(first) + Len(second)
    BY <1>2, <1>3, <1>5
  <2>2. Len(first) = 1 /\ Len(second) = 1 /\ k \in 1..2 /\ l \in 1..2
    <3> DEFINE a == Len(first)
               b == Len(second)
    <3>1. a \in 0..1 /\ b \in 0..1 /\ k \in 1..a+b /\ l \in 1..a+b
      BY <1>4, <2>1
    <3> HIDE DEF a, b
    <3>2. a = 1 /\ b = 1 /\ k \in 1..2 /\ l \in 1..2
      BY <3>1
    <3> QED BY <3>2 DEF a, b
  <2>3. Fresh(i)[1] = first[1] /\ Fresh(i)[2] = second[1]
    <3>1. \A j \in 1..Len(first)+Len(second) :
            (first \o second)[j] = IF j <= Len(first) THEN first[j] ELSE second[j-Len(first)]
      BY <1>2, <1>3, ConcatProperties
    <3> QED BY <1>5, <2>2, <3>1
  <2>4. first[1] \in Range(first) /\ second[1] \in Range(second)
    BY <1>2, <1>3, <2>2 DEF Range
  <2>5. Range(first) \intersect Range(second) = {}
    BY <1>3
  <2> QED BY <2>2, <2>3, <2>4, <2>5
<1>8. EpsilonTargets({i}) = IF p.edge = EPSILON THEN {p.next, p.next2} \ {NONE} ELSE {}
  BY DEF EpsilonTargets
<1> QED BY <1>1, <1>2, <1>3, <1>6, <1>7, <1>8

-----------------------------------------------------------------------------
(* What the steps have in common *)

LEMMA Facts ==
    ASSUME IInv
    PROVE  /\ Array /\ TypeOK /\ StackFits /\ Closing /\ Winner /\ Position
           /\ RowsAreClosedMoves /\ StatesDistinct /\ AcceptsFirst
           /\ MAX_CHARS \in Nat \ {0} /\ DFA_MAX \in Nat \ {0} /\ Alphabet = 0..MAX_CHARS-1
           /\ Strings \subseteq Nat \ {NULL} /\ NULL = 0 /\ F = -1
           /\ Nstates \in Nat /\ Nstates <= DFA_MAX
           /\ current \in {F} \union 0..DFA_MAX-1 /\ c \in -1..MAX_CHARS-1
           /\ NFA_set \in SUBSET States /\ stack \in Seq(States)
           /\ Dstates \in [0..DFA_MAX-1 -> [mark : BOOLEAN, accept : Strings \union {NULL},
                                            anchor : 0..3, set : SUBSET States]]
           /\ Dtran \in [0..DFA_MAX-1 -> [Alphabet -> {F} \union 0..DFA_MAX-1]]
BY SubsetAssumption DEF IInv, TypeOK, Alphabet, NULL, F

\* No step changes the NFA.
LEMMA NfaStays ==
    ASSUME Nfa' = Nfa
    PROVE  /\ States' = States /\ MAX_INT' = MAX_INT /\ Array' = Array
           /\ \A S : EpsilonTargets(S)' = EpsilonTargets(S) /\ EpsilonClosure(S)' = EpsilonClosure(S)
           /\ \A S, ch : move(S, ch)' = move(S, ch)
BY DEF States, MAX_INT, Array, EpsilonTargets, EpsilonClosure, move

\* What RowsAreClosedMoves says of one entry, and AcceptsFirst of one state.
Entry(s, ch) ==
    LET target == EpsilonClosure(move(Dstates[s].set, ch))
    IN  IF target = {} THEN Dtran[s][ch] = F
        ELSE Dtran[s][ch] \in 0..Nstates-1 /\ Dstates[Dtran[s][ch]].set = target

AcceptsLowest(set, string, anch) ==
    LET accepting == {i \in set : Nfa[i].accept # NULL}
    IN  IF accepting = {} THEN string = NULL
        ELSE string = Nfa[Min(accepting)].accept /\ anch = Nfa[Min(accepting)].anchor

Entries == \A s \in 0..Nstates-1, ch \in Alphabet : Filled(s, ch) => Entry(s, ch)

Accepted == \A s \in 0..Nstates-1 :
    AcceptsLowest(Dstates[s].set, Dstates[s].accept, Dstates[s].anchor)

LEMMA Restated ==
    /\ RowsAreClosedMoves <=> Entries
    /\ AcceptsFirst <=> Accepted
    /\ RowsAreClosedMoves' <=> Entries'
    /\ AcceptsFirst' <=> Accepted'
<1>1. (RowsAreClosedMoves <=> Entries) /\ (RowsAreClosedMoves' <=> Entries')
  BY DEF RowsAreClosedMoves, Entries, Entry
<1>2. (AcceptsFirst <=> Accepted) /\ (AcceptsFirst' <=> Accepted')
  BY DEF AcceptsFirst, Accepted, AcceptsLowest
<1> QED BY <1>1, <1>2

LEMMA EntryStays ==
    ASSUME IInv, Nfa' = Nfa, NEW s \in 0..Nstates-1, NEW ch \in Alphabet, Entry(s, ch),
           Dtran'[s][ch] = Dtran[s][ch], Nstates' \in Nat, Nstates <= Nstates',
           \A t \in 0..Nstates-1 : Dstates'[t].set = Dstates[t].set
    PROVE  Entry(s, ch)'
<1>1. Dstates'[s].set = Dstates[s].set
  OBVIOUS
<1>2. move(Dstates[s].set, ch)' = move(Dstates[s].set, ch)
  BY <1>1 DEF move
<1>3. EpsilonClosure(move(Dstates[s].set, ch))' = EpsilonClosure(move(Dstates[s].set, ch))
  BY <1>2, NfaStays DEF EpsilonClosure, EpsilonTargets, States
<1>4. Dtran[s][ch] \in 0..Nstates-1 => Dtran[s][ch] \in 0..Nstates'-1
  BY Facts, SMTT(30)
<1> QED BY <1>3, <1>4 DEF Entry

LEMMA AcceptsStay ==
    ASSUME IInv, Nfa' = Nfa, NEW s \in 0..Nstates-1,
           Dstates'[s].set = Dstates[s].set, Dstates'[s].accept = Dstates[s].accept,
           Dstates'[s].anchor = Dstates[s].anchor
    PROVE  AcceptsLowest(Dstates[s].set, Dstates[s].accept, Dstates[s].anchor)'
BY Facts DEF AcceptsFirst, AcceptsLowest

\* Steps that leave the tables alone.
LEMMA TablesStay ==
    ASSUME IInv, UNCHANGED <<Nfa, Nstates, Dstates, Dtran, current, c>>, pc' # "done"
    PROVE  RowsAreClosedMoves' /\ StatesDistinct' /\ AcceptsFirst'
<1>1. Entries'
  <2> SUFFICES ASSUME NEW s \in 0..Nstates-1, NEW ch \in Alphabet, Filled(s, ch)'
               PROVE  Entry(s, ch)'
    BY DEF Entries
  <2>1. Filled(s, ch)
    BY DEF Filled
  <2>2. Entry(s, ch)
    BY <2>1, Facts, Restated DEF Entries
  <2> QED BY <2>2, Facts, EntryStays
<1>2. Accepted'
  <2> SUFFICES ASSUME NEW s \in 0..Nstates-1
               PROVE  AcceptsLowest(Dstates[s].set, Dstates[s].accept, Dstates[s].anchor)'
    BY DEF Accepted
  <2> QED BY AcceptsStay
<1>3. StatesDistinct'
  BY Facts DEF StatesDistinct
<1> QED BY <1>1, <1>2, <1>3, Restated

\* When its stack is empty, e_closure() has computed the closure, and knows what the state
\* accepts.
LEMMA ClosureDone ==
    ASSUME IInv, Closed
    PROVE  /\ AcceptsLowest(NFA_set, isaccept, anchor)
           /\ current # F => NFA_set = EpsilonClosure(Seed) /\ NFA_set # {}
<1>1. Popped = NFA_set /\ pc = "closing"
  BY DEF Popped, Closed, Range
<1>2. AcceptsLowest(NFA_set, isaccept, anchor)
  <2> DEFINE accepting == {i \in NFA_set : Nfa[i].accept # NULL}
  <2>1. /\ \A i \in accepting : accept_num <= i
        /\ \/ accept_num = MAX_INT /\ isaccept = NULL
           \/ /\ accept_num \in accepting
              /\ isaccept = Nfa[accept_num].accept /\ anchor = Nfa[accept_num].anchor
    BY <1>1, Facts DEF Winner
  <2>2. accepting \in SUBSET Nat /\ \A i \in accepting : i < MAX_INT
    BY Facts, NfaFacts
  <2>3. CASE accepting = {}
    BY <2>1, <2>3 DEF AcceptsLowest
  <2>4. CASE accepting # {}
    <3>1. Min(accepting) \in accepting /\ \A i \in accepting : Min(accepting) <= i
      <4> HIDE DEF accepting
      <4> QED BY <2>2, <2>4, MinNat
    <3>2. accept_num # MAX_INT
      <4>1. accept_num <= Min(accepting) /\ Min(accepting) < MAX_INT /\ Min(accepting) \in Nat
        <5> HIDE DEF accepting
        <5> QED BY <2>1, <2>2, <3>1
      <4> QED BY <4>1, Facts, NfaFacts
    <3>3. accept_num \in accepting
      BY <2>1, <3>2
    <3>4. accept_num = Min(accepting)
      <4> HIDE DEF accepting
      <4>1. accept_num <= Min(accepting) /\ Min(accepting) <= accept_num
        BY <2>1, <3>1, <3>3
      <4>2. accept_num \in Nat /\ Min(accepting) \in Nat
        BY <2>2, <3>1, <3>3
      <4> QED BY <4>1, <4>2
    <3> QED BY <2>1, <2>4, <3>2, <3>4 DEF AcceptsLowest
  <2> QED BY <2>3, <2>4
<1>3. ASSUME current # F PROVE NFA_set = EpsilonClosure(Seed) /\ NFA_set # {}
  <2>1. /\ Seed # {} /\ Seed \subseteq NFA_set /\ EClosed(NFA_set)
        /\ \A T \in SUBSET States : Seed \subseteq T /\ EClosed(T) => NFA_set \subseteq T
    BY <1>1, <1>3, Facts DEF Closing, EClosed
  <2>2. Seed \in SUBSET States
    BY <2>1, Facts
  <2> QED BY <2>1, <2>2, Facts, EpsilonClosureUnique
<1> QED BY <1>2, <1>3

-----------------------------------------------------------------------------
(* egrep.c *)

LEMMA CloseKeeps == ASSUME IInv, Close PROVE IInv'
<1> DEFINE i == Last(stack)
           wins == Nfa[i].accept # NULL /\ i < accept_num
<1>1. /\ UNCHANGED <<Nfa, Nstates, Dstates, Dtran, Last_marked, pc, current, c>>
      /\ pc = "closing" /\ stack # <<>>
      /\ NFA_set' = NFA_set \union Range(Fresh(i)) /\ stack' = Front(stack) \o Fresh(i)
      /\ accept_num' = IF wins THEN i ELSE accept_num
      /\ isaccept' = IF wins THEN Nfa[i].accept ELSE isaccept
      /\ anchor' = IF wins THEN Nfa[i].anchor ELSE anchor
  BY DEF Close, table
<1>2. /\ States' = States /\ MAX_INT' = MAX_INT /\ Array'
      /\ \A S : EpsilonTargets(S)' = EpsilonTargets(S)
  BY <1>1, Facts, NfaStays
<1>3. Distinct(stack) /\ Range(stack) \subseteq NFA_set
  BY Facts DEF StackFits, Distinct
<1>4. i \in States /\ i \in Range(stack)
  <2>1. /\ <<>> \in Seq(States) /\ Distinct(<<>>) /\ Range(<<>>) \intersect Range(stack) = {}
    BY DEF Distinct, Range
  <2> QED BY <1>1, <1>3, <2>1, Facts, PopAndPush
<1>5. /\ Fresh(i) \in Seq(States) /\ Distinct(Fresh(i))
      /\ Range(Fresh(i)) \intersect NFA_set = {} /\ Range(Fresh(i)) \subseteq States
      /\ EpsilonTargets({i}) \subseteq NFA_set'
      /\ Range(Fresh(i)) \subseteq EpsilonTargets({i})
  BY <1>1, <1>4, Facts, FreshFacts
<1>6. /\ stack' \in Seq(States) /\ Distinct(stack')
      /\ Range(stack') = (Range(stack) \ {i}) \union Range(Fresh(i))
  <2>1. Range(Fresh(i)) \intersect Range(stack) = {}
    BY <1>3, <1>5
  <2> QED BY <1>1, <1>3, <1>5, <2>1, Facts, PopAndPush
<1>7. NFA_set' \in SUBSET States /\ NFA_set \subseteq NFA_set' /\ Range(stack') \subseteq NFA_set'
  BY <1>1, <1>3, <1>5, <1>6, Facts
<1> HIDE DEF i
<1>8. TypeOK'
  <2>1. /\ accept_num' \in 0..MAX_INT /\ isaccept' \in Strings \union {NULL}
        /\ anchor' \in 0..3
    BY <1>1, <1>4, Facts, NfaFacts, NodeFacts, SMTT(30) DEF TypeOK
  <2> QED BY <1>1, <1>2, <1>6, <1>7, <2>1, Facts DEF TypeOK
<1>9. StackFits'
  <2>1. stack' \in Seq(NFA_set')
    <3>1. stack' \in [1..Len(stack') -> Range(stack')] /\ Len(stack') \in Nat
      BY <1>6, RangeOfSeq, SeqOfRange
    <3> QED BY <1>6, <1>7, SeqOfRange
  <2>2. Len(stack') <= Cardinality(NFA_set')
    BY <1>6, <1>7, <2>1, Facts, NfaFacts, FS_Subset, DistinctFits
  <2> QED BY <1>6, <1>7, <2>2 DEF StackFits, Distinct
<1>10. Popped' = Popped \union {i} /\ i \in NFA_set
  BY <1>1, <1>3, <1>4, <1>5, <1>6, <1>7 DEF Popped
<1>11. Closing'
  <2>1. EpsilonTargets(Popped \union {i}) \subseteq EpsilonTargets(Popped) \union EpsilonTargets({i})
    BY DEF EpsilonTargets
  <2>2. EpsilonTargets(Popped)' \subseteq NFA_set'
    <3>1. EpsilonTargets(Popped)' = EpsilonTargets(Popped \union {i})
      BY <1>1, <1>10 DEF EpsilonTargets
    <3> QED BY <1>1, <1>5, <1>7, <2>1, <3>1, Facts DEF Closing
  <2>3. Seed' = Seed
    BY <1>1 DEF Seed, move
  <2>4. ASSUME current # F, NEW T \in SUBSET States, Seed \subseteq T, EClosed(T)
        PROVE  NFA_set' \subseteq T
    <3>1. NFA_set \subseteq T
      BY <1>1, <2>4, Facts DEF Closing
    <3>2. EpsilonTargets({i}) \subseteq EpsilonTargets(T)
      BY <1>10, <3>1, Facts, EpsilonTargetsFacts DEF EpsilonTargets
    <3> QED BY <1>1, <1>5, <2>4, <3>1, <3>2 DEF EClosed
  <2>5. current # F => Seed # {} /\ Seed \subseteq NFA_set'
    BY <1>1, <1>7, Facts DEF Closing
  <2> QED BY <1>1, <1>2, <2>2, <2>3, <2>4, <2>5 DEF Closing, EClosed
<1>12. Winner'
  <2>1. accept_num \in Int /\ accept_num' \in Int /\ i \in Int
    BY <1>2, <1>4, <1>8, Facts, NfaFacts DEF TypeOK
  <2>2. accept_num' <= accept_num
    BY <1>1, <2>1
  <2>3. \A j \in Popped : Nfa[j].accept # NULL => accept_num' <= j
    <3>1. \A j \in Popped : j \in Int /\ (Nfa[j].accept # NULL => accept_num <= j)
      BY <1>1, Facts, NfaFacts DEF Winner, Popped
    <3> QED BY <2>1, <2>2, <3>1
  <2>4. Nfa[i].accept # NULL => accept_num' <= i
    BY <1>1, <2>1
  <2>5. \/ accept_num' = MAX_INT /\ isaccept' = NULL
        \/ /\ accept_num' \in NFA_set' /\ Nfa[accept_num'].accept # NULL
           /\ isaccept' = Nfa[accept_num'].accept /\ anchor' = Nfa[accept_num'].anchor
    <3>1. CASE wins
      BY <1>1, <1>7, <1>10, <3>1
    <3>2. CASE ~wins
      BY <1>1, <1>7, <3>2, Facts DEF Winner
    <3> QED BY <3>1, <3>2
  <2> QED BY <1>1, <1>2, <1>10, <2>3, <2>4, <2>5 DEF Winner
<1>13. Position'
  BY <1>1, Facts DEF Position
<1>14. RowsAreClosedMoves' /\ StatesDistinct' /\ AcceptsFirst'
  BY <1>1, TablesStay
<1> QED BY <1>2, <1>8, <1>9, <1>11, <1>12, <1>13, <1>14 DEF IInv

\* The call of e_closure() with a move that is not empty.
LEMMA MoveKeeps == ASSUME IInv, Move PROVE IInv'
<1>1. /\ UNCHANGED <<Nfa, Nstates, Dstates, Dtran, Last_marked, current, c>>
      /\ pc = "move" /\ pc' = "closing" /\ Seed # {} /\ NFA_set' = Seed /\ stack' = InOrder(Seed)
      /\ accept_num' = MAX_INT /\ isaccept' = NULL /\ anchor' = 0
  BY DEF Move, StartClosure, Seed, table
<1>2. States' = States /\ MAX_INT' = MAX_INT /\ Array'
  BY <1>1, Facts, NfaStays
<1>3. current # F /\ current \in 0..DFA_MAX-1 /\ c \in Alphabet
  BY <1>1, Facts DEF Position
<1>4. Seed \in SUBSET States
  BY <1>3, Facts, MoveFacts DEF Seed
<1>5. IsFiniteSet(Seed) /\ Seed \in SUBSET Nat
  BY <1>4, Facts, NfaFacts, FS_Subset
<1>6. stack' \in Seq(Seed) /\ Range(stack') = Seed /\ Distinct(stack')
  BY <1>1, <1>5, InOrderFacts
<1>7. stack' \in Seq(States)
  BY <1>4, <1>6
<1>8. TypeOK'
  <2>1. MAX_INT \in 0..MAX_INT
    BY Facts, NfaFacts
  <2> QED BY <1>1, <1>2, <1>4, <1>7, <2>1, Facts DEF TypeOK
<1>9. StackFits'
  BY <1>1, <1>5, <1>6, DistinctFits DEF StackFits, Distinct
<1>10. Popped' = {}
  BY <1>1, <1>6 DEF Popped
<1>11. Seed' = Seed
  BY <1>1 DEF Seed, move
<1>12. Closing'
  <2>1. EpsilonTargets(Popped)' = {}
    BY <1>10 DEF EpsilonTargets
  <2> QED BY <1>1, <1>11, <2>1 DEF Closing
<1>13. Winner'
  BY <1>1, <1>2, <1>10 DEF Winner
<1>14. Position'
  BY <1>1, <1>3, Facts DEF Position
<1>15. RowsAreClosedMoves' /\ StatesDistinct' /\ AcceptsFirst'
  BY <1>1, TablesStay
<1> QED BY <1>2, <1>8, <1>9, <1>12, <1>13, <1>14, <1>15 DEF IInv

-----------------------------------------------------------------------------
(* dfa.c *)

\* add_to_dstates() with the result of e_closure(): the new row differs from the others,
\* and accepts what it should.
LEMMA Added ==
    ASSUME IInv, Closed, Same = {}, Nstates < DFA_MAX, Nfa' = Nfa,
           add_to_dstates(NFA_set, isaccept, anchor)
    PROVE  /\ Nstates \in 0..DFA_MAX-1 /\ Nstates' = Nstates + 1 /\ Nstates' \in 0..DFA_MAX
           /\ Dstates' \in [0..DFA_MAX-1 -> [mark : BOOLEAN, accept : Strings \union {NULL},
                                             anchor : 0..3, set : SUBSET States]]
           /\ Dstates'[Nstates].set = NFA_set
           /\ \A s \in 0..DFA_MAX-1 : Dstates'[s].mark = Dstates[s].mark
           /\ \A s \in 0..Nstates-1 : Dstates'[s] = Dstates[s]
           /\ StatesDistinct' /\ AcceptsFirst'
<1>1. /\ Nstates \in 0..DFA_MAX-1 /\ Nstates' = Nstates + 1 /\ Nstates' \in 0..DFA_MAX
      /\ Dstates' = [Dstates EXCEPT ![Nstates] =
                       [@ EXCEPT !.set = NFA_set, !.accept = isaccept, !.anchor = anchor]]
  BY Facts DEF add_to_dstates
<1>2. /\ isaccept \in Strings \union {NULL} /\ anchor \in 0..3
  BY Facts DEF TypeOK
<1>3. /\ Dstates'[Nstates].set = NFA_set /\ Dstates'[Nstates].accept = isaccept
      /\ Dstates'[Nstates].anchor = anchor
      /\ Dstates'[Nstates].mark = Dstates[Nstates].mark
      /\ \A s \in 0..DFA_MAX-1 : s # Nstates => Dstates'[s] = Dstates[s]
  BY <1>1, Facts
<1>4. Dstates' \in [0..DFA_MAX-1 -> [mark : BOOLEAN, accept : Strings \union {NULL},
                                     anchor : 0..3, set : SUBSET States]]
  <2> DEFINE row == [Dstates[Nstates] EXCEPT !.set = NFA_set, !.accept = isaccept, !.anchor = anchor]
             Rows == [mark : BOOLEAN, accept : Strings \union {NULL}, anchor : 0..3,
                      set : SUBSET States]
  <2>1. row \in Rows
    BY <1>1, <1>2, Facts, ZenonT(60)
  <2>2. Dstates' = [Dstates EXCEPT ![Nstates] = row]
    BY <1>1
  <2> HIDE DEF row
  <2> QED BY <2>1, <2>2, Facts
<1>5. \A s \in 0..Nstates-1 : s \in 0..DFA_MAX-1 /\ s # Nstates /\ Dstates'[s] = Dstates[s]
  BY <1>1, <1>3, Facts
<1>6. \A s \in 0..Nstates'-1 : s \in 0..Nstates-1 \/ s = Nstates
  BY <1>1, Facts
<1>7. StatesDistinct'
  <2>1. \A s \in 0..Nstates-1 : Dstates[s].set # NFA_set
    BY DEF Same
  <2> QED BY <1>3, <1>5, <1>6, <2>1, Facts DEF StatesDistinct
<1>8. Accepted'
  <2> SUFFICES ASSUME NEW s \in 0..Nstates'-1
               PROVE  AcceptsLowest(Dstates[s].set, Dstates[s].accept, Dstates[s].anchor)'
    BY DEF Accepted
  <2>1. CASE s \in 0..Nstates-1
    BY <1>5, <2>1, AcceptsStay
  <2>2. CASE s = Nstates
    BY <1>3, <2>2, ClosureDone DEF AcceptsLowest
  <2> QED BY <1>6, <2>1, <2>2
<1> QED BY <1>1, <1>3, <1>4, <1>5, <1>7, <1>8, Restated

\* Fill(nextstate) makes one more entry, and the others stay.
LEMMA Filling ==
    ASSUME IInv, Nfa' = Nfa, UNCHANGED <<Last_marked, current, closure>>,
           current # F, c \in Alphabet, pc # "done", NEW next \in {F} \union 0..DFA_MAX-1, Fill(next),
           Nstates' \in Nat, Nstates <= Nstates',
           \A s \in 0..Nstates-1 : Dstates'[s].set = Dstates[s].set,
           IF move(Dstates[current].set, c) = {} THEN next = F
           ELSE /\ next \in 0..Nstates'-1
                /\ Dstates'[next].set = EpsilonClosure(move(Dstates[current].set, c))
    PROVE  /\ Dtran' \in [0..DFA_MAX-1 -> [Alphabet -> {F} \union 0..DFA_MAX-1]]
           /\ c' \in -1..MAX_CHARS-1 /\ pc' \in {"row", "move"}
           /\ pc' = "row" => c' = -1
           /\ pc' = "move" => c' \in Alphabet
           /\ StackFits' /\ Closing' /\ Winner'
           /\ \A s \in 0..Nstates-1, ch \in Alphabet : Filled(s, ch)' => Entry(s, ch)'
<1>1. /\ Dtran' = [Dtran EXCEPT ![current][c] = next] /\ c' = c - 1
      /\ pc' = IF c = 0 THEN "row" ELSE "move"
      /\ UNCHANGED <<current, NFA_set, stack, accept_num, isaccept, anchor>>
  BY DEF Fill, closure
<1>2. current \in 0..DFA_MAX-1 /\ current < Nstates /\ current \in 0..Nstates-1
  BY Facts DEF Position
<1>3. /\ Dtran' \in [0..DFA_MAX-1 -> [Alphabet -> {F} \union 0..DFA_MAX-1]]
      /\ Dtran'[current][c] = next
      /\ \A s \in 0..DFA_MAX-1, ch \in Alphabet :
           s # current \/ ch # c => Dtran'[s][ch] = Dtran[s][ch]
  BY <1>1, <1>2, Facts
<1>4. /\ c' \in -1..MAX_CHARS-1 /\ pc' \in {"row", "move"}
      /\ pc' = "row" => c' = -1
      /\ pc' = "move" => c' \in Alphabet
  BY <1>1, Facts
<1>5. StackFits' /\ Closing' /\ Winner'
  BY <1>1, <1>4, Facts DEF StackFits, Closing, Winner
<1>6. ASSUME NEW s \in 0..Nstates-1, NEW ch \in Alphabet, Filled(s, ch)'
      PROVE  Entry(s, ch)'
  <2>1. s \in 0..DFA_MAX-1
    BY Facts
  <2>2. CASE s = current /\ ch = c
    <3>1. Dstates'[s].set = Dstates[current].set
      BY <1>2, <2>2
    <3>2. move(Dstates[s].set, ch)' = move(Dstates[current].set, c)
      BY <2>2, <3>1 DEF move
    <3>3. EpsilonClosure(move(Dstates[s].set, ch))' = EpsilonClosure(move(Dstates[current].set, c))
      BY <3>2, NfaStays DEF EpsilonClosure, EpsilonTargets, States
    <3>4. Dstates[current].set \in SUBSET States
      BY <1>2, Facts
    <3>5. move(Dstates[current].set, c) \in SUBSET States
      BY <3>4, Facts, MoveFacts
    <3>6. EpsilonClosure(move(Dstates[current].set, c)) = {} <=> move(Dstates[current].set, c) = {}
      BY <3>5, Facts, EpsilonClosureIsLeast, EpsilonClosureEmpty
    <3>7. Dtran'[s][ch] = next
      BY <1>3, <2>2
    <3> QED BY <3>3, <3>6, <3>7 DEF Entry
  <2>3. CASE s # current \/ ch # c
    <3>1. Filled(s, ch)
      <4>1. s < current \/ (s = current /\ ch > c - 1)
        BY <1>1, <1>4, <1>6 DEF Filled
      <4> QED BY <2>3, <4>1, Facts DEF Filled
    <3>2. Entry(s, ch)
      BY <3>1, Facts, Restated DEF Entries
    <3> QED BY <1>3, <2>1, <2>3, <3>2, EntryStays
  <2> QED BY <2>2, <2>3
<1> QED BY <1>3, <1>4, <1>5, <1>6

LEMMA FirstKeeps == ASSUME IInv, First PROVE IInv'
<1>1. /\ UNCHANGED <<Nfa, Dtran, Last_marked, current, c, NFA_set, stack, accept_num, isaccept,
                      anchor>>
      /\ Closed /\ pc = "closing" /\ pc' = "row" /\ current = F /\ Nstates = 0
      /\ add_to_dstates(NFA_set, isaccept, anchor)
  BY Facts DEF First, Closed, closure, Position
<1>2. States' = States /\ MAX_INT' = MAX_INT /\ Array'
  BY <1>1, Facts, NfaStays
<1>3. Same = {} /\ Nstates < DFA_MAX
  BY <1>1, Facts DEF Same
<1>4. /\ Nstates' = 1 /\ Nstates' \in 0..DFA_MAX
      /\ Dstates' \in [0..DFA_MAX-1 -> [mark : BOOLEAN, accept : Strings \union {NULL},
                                        anchor : 0..3, set : SUBSET States]]
      /\ \A s \in 0..DFA_MAX-1 : Dstates'[s].mark = Dstates[s].mark
      /\ StatesDistinct' /\ AcceptsFirst'
  BY <1>1, <1>3, Added
<1>5. TypeOK'
  BY <1>1, <1>2, <1>4, Facts DEF TypeOK
<1>6. StackFits' /\ Closing' /\ Winner'
  BY <1>1, Facts DEF StackFits, Closing, Winner
<1>7. Position'
  BY <1>1, <1>4, Facts, SMTT(30) DEF Position
<1>8. RowsAreClosedMoves'
  <2>1. \A s \in 0..Nstates'-1, ch \in Alphabet : ~Filled(s, ch)'
    BY <1>1, <1>4, Facts DEF Filled
  <2> QED BY <2>1, Restated DEF Entries
<1> QED BY <1>2, <1>4, <1>5, <1>6, <1>7, <1>8 DEF IInv

LEMMA NoMoveKeeps == ASSUME IInv, NoMove PROVE IInv'
<1>1. /\ UNCHANGED <<Nfa, Nstates, Dstates, Last_marked, current, closure>>
      /\ UNCHANGED <<NFA_set, stack, accept_num, isaccept, anchor>>
      /\ pc = "move" /\ move(Dstates[current].set, c) = {} /\ Fill(F)
  BY DEF NoMove, closure
<1>2. States' = States /\ MAX_INT' = MAX_INT /\ Array'
  BY <1>1, Facts, NfaStays
<1>3. current # F /\ c \in Alphabet
  BY <1>1, Facts DEF Position
<1>4. /\ Dtran' \in [0..DFA_MAX-1 -> [Alphabet -> {F} \union 0..DFA_MAX-1]]
      /\ c' \in -1..MAX_CHARS-1 /\ pc' \in {"row", "move"}
      /\ pc' = "row" => c' = -1
      /\ pc' = "move" => c' \in Alphabet
      /\ StackFits' /\ Closing' /\ Winner'
      /\ \A s \in 0..Nstates-1, ch \in Alphabet : Filled(s, ch)' => Entry(s, ch)'
  BY <1>1, <1>3, Facts, Filling
<1>5. TypeOK'
  BY <1>1, <1>2, <1>4, Facts DEF TypeOK
<1>6. Position'
  BY <1>1, <1>3, <1>4, Facts DEF Position
<1>7. Entries'
  BY <1>1, <1>4 DEF Entries
<1>8. Accepted'
  <2>1. \A s \in 0..Nstates-1 : AcceptsLowest(Dstates[s].set, Dstates[s].accept, Dstates[s].anchor)'
    BY <1>1, AcceptsStay
  <2> QED BY <1>1, <2>1 DEF Accepted
<1>9. StatesDistinct'
  BY <1>1, Facts DEF StatesDistinct
<1> QED BY <1>2, <1>4, <1>5, <1>6, <1>7, <1>8, <1>9, Restated DEF IInv

LEMMA KnownKeeps == ASSUME IInv, Known PROVE IInv'
<1> DEFINE t == Min(Same)
<1>1. /\ UNCHANGED <<Nfa, Nstates, Dstates, Last_marked, current, closure>>
      /\ UNCHANGED <<NFA_set, stack, accept_num, isaccept, anchor>>
      /\ Closed /\ pc = "closing" /\ current # F /\ Same # {} /\ Fill(t)
  BY DEF Known, closure, Closed
<1>2. States' = States /\ MAX_INT' = MAX_INT /\ Array'
  BY <1>1, Facts, NfaStays
<1>3. t \in Same
  <2>1. Same \in SUBSET Nat
    BY Facts DEF Same
  <2> QED BY <1>1, <2>1, MinNat
<1> HIDE DEF t
<1>4. /\ t \in 0..Nstates-1 /\ t \in {F} \union 0..DFA_MAX-1
      /\ Dstates[t].set = EpsilonClosure(move(Dstates[current].set, c))
      /\ move(Dstates[current].set, c) # {} /\ c \in Alphabet
  BY <1>1, <1>3, Facts, ClosureDone DEF Same, Seed, Closing, Position
<1>5. /\ Dtran' \in [0..DFA_MAX-1 -> [Alphabet -> {F} \union 0..DFA_MAX-1]]
      /\ c' \in -1..MAX_CHARS-1 /\ pc' \in {"row", "move"}
      /\ pc' = "row" => c' = -1
      /\ pc' = "move" => c' \in Alphabet
      /\ StackFits' /\ Closing' /\ Winner'
      /\ \A s \in 0..Nstates-1, ch \in Alphabet : Filled(s, ch)' => Entry(s, ch)'
  BY <1>1, <1>4, Facts, Filling, SMTT(30)
<1>6. TypeOK'
  BY <1>1, <1>2, <1>5, Facts DEF TypeOK
<1>7. Position'
  BY <1>1, <1>5, Facts DEF Position
<1>8. Entries'
  BY <1>1, <1>5 DEF Entries
<1>9. Accepted'
  <2>1. \A s \in 0..Nstates-1 : AcceptsLowest(Dstates[s].set, Dstates[s].accept, Dstates[s].anchor)'
    BY <1>1, AcceptsStay
  <2> QED BY <1>1, <2>1 DEF Accepted
<1>10. StatesDistinct'
  BY <1>1, Facts DEF StatesDistinct
<1> QED BY <1>2, <1>5, <1>6, <1>7, <1>8, <1>9, <1>10, Restated DEF IInv

LEMMA NewKeeps == ASSUME IInv, New PROVE IInv'
<1>1. /\ UNCHANGED <<Nfa, Last_marked, current, closure>>
      /\ UNCHANGED <<NFA_set, stack, accept_num, isaccept, anchor>>
      /\ Closed /\ pc = "closing" /\ current # F /\ Same = {} /\ Nstates < DFA_MAX
      /\ add_to_dstates(NFA_set, isaccept, anchor) /\ Fill(Nstates)
  BY DEF New, closure, Closed
<1>2. States' = States /\ MAX_INT' = MAX_INT /\ Array'
  BY <1>1, Facts, NfaStays
<1>3. /\ Nstates \in 0..DFA_MAX-1 /\ Nstates' = Nstates + 1 /\ Nstates' \in 0..DFA_MAX
      /\ Dstates' \in [0..DFA_MAX-1 -> [mark : BOOLEAN, accept : Strings \union {NULL},
                                        anchor : 0..3, set : SUBSET States]]
      /\ Dstates'[Nstates].set = NFA_set
      /\ \A s \in 0..DFA_MAX-1 : Dstates'[s].mark = Dstates[s].mark
      /\ \A s \in 0..Nstates-1 : Dstates'[s] = Dstates[s]
      /\ StatesDistinct' /\ AcceptsFirst'
  BY <1>1, Added
<1>4. /\ NFA_set = EpsilonClosure(move(Dstates[current].set, c))
      /\ move(Dstates[current].set, c) # {} /\ c \in Alphabet /\ current < Nstates
  BY <1>1, Facts, ClosureDone DEF Seed, Closing, Position
<1>5. Nstates' \in Nat /\ Nstates <= Nstates' /\ Nstates \in 0..Nstates'-1
  BY <1>3, Facts
<1>6. /\ Dtran' \in [0..DFA_MAX-1 -> [Alphabet -> {F} \union 0..DFA_MAX-1]]
      /\ c' \in -1..MAX_CHARS-1 /\ pc' \in {"row", "move"}
      /\ pc' = "row" => c' = -1
      /\ pc' = "move" => c' \in Alphabet
      /\ StackFits' /\ Closing' /\ Winner'
      /\ \A s \in 0..Nstates-1, ch \in Alphabet : Filled(s, ch)' => Entry(s, ch)'
  BY <1>1, <1>3, <1>4, <1>5, Facts, Filling
<1>7. TypeOK'
  BY <1>1, <1>2, <1>3, <1>6, Facts DEF TypeOK
<1>8. Position'
  BY <1>1, <1>3, <1>4, <1>6, Facts DEF Position
<1>9. Entries'
  <2>1. \A s \in 0..Nstates'-1 : s \in 0..Nstates-1 \/ s = Nstates
    BY <1>3, Facts
  <2> SUFFICES ASSUME NEW s \in 0..Nstates'-1, NEW ch \in Alphabet, Filled(s, ch)'
               PROVE  Entry(s, ch)'
    BY DEF Entries
  <2>2. CASE s \in 0..Nstates-1
    BY <1>6, <2>2
  <2>3. CASE s = Nstates
    <3>1. ~Filled(s, ch)'
      BY <1>1, <1>4, <1>6, <2>3, Facts DEF Filled
    <3> QED BY <3>1
  <2> QED BY <2>1, <2>2, <2>3
<1> QED BY <1>2, <1>3, <1>6, <1>7, <1>8, <1>9, Restated DEF IInv

LEMMA TooManyKeeps == ASSUME IInv, TooMany PROVE IInv'
<1>1. /\ UNCHANGED <<Nfa, Nstates, Dstates, Dtran, Last_marked, current, c, NFA_set, stack,
                      accept_num, isaccept, anchor>>
      /\ pc = "closing" /\ pc' = "failed" /\ current # F
  BY DEF TooMany, closure, table, Closed
<1>2. States' = States /\ MAX_INT' = MAX_INT /\ Array'
  BY <1>1, Facts, NfaStays
<1>3. TypeOK'
  BY <1>1, <1>2, Facts DEF TypeOK
<1>4. StackFits' /\ Closing' /\ Winner' /\ Position'
  BY <1>1, Facts DEF StackFits, Closing, Winner, Position
<1> QED BY <1>1, <1>2, <1>3, <1>4, TablesStay DEF IInv

\* get_unmarked() returns the row after the one that was filled last, or there is none.
LEMMA Unmarked ==
    ASSUME IInv, pc = "row"
    PROVE  /\ get_unmarked # {} => Min(get_unmarked) = current + 1 /\ current + 1 \in 0..Nstates-1
           /\ get_unmarked = {} => current = Nstates - 1
<1>1. /\ Last_marked = (IF current = F THEN 0 ELSE current) /\ Nstates > 0 /\ current < Nstates
      /\ \A s \in 0..Nstates-1 : Dstates[s].mark <=> s <= current
  BY Facts DEF Position
<1>2. /\ get_unmarked \in SUBSET Nat
      /\ \A s \in 0..Nstates-1 : s > current => s \in get_unmarked
      /\ \A s \in get_unmarked : s > current /\ s \in 0..Nstates-1
  BY <1>1, Facts DEF get_unmarked
<1>3. ASSUME get_unmarked # {}
      PROVE  Min(get_unmarked) = current + 1 /\ current + 1 \in 0..Nstates-1
  <2>1. Min(get_unmarked) \in get_unmarked /\ \A s \in get_unmarked : Min(get_unmarked) <= s
    BY <1>2, <1>3, MinNat
  <2>2. Min(get_unmarked) > current /\ Min(get_unmarked) \in 0..Nstates-1
    BY <1>2, <2>1
  <2>3. current + 1 \in 0..Nstates-1 /\ current + 1 > current
    BY <2>2, Facts
  <2>4. Min(get_unmarked) <= current + 1
    BY <1>2, <2>1, <2>3
  <2> QED BY <2>2, <2>3, <2>4, Facts
<1>4. ASSUME get_unmarked = {}
      PROVE  current = Nstates - 1
  <2>1. ~(current + 1 \in 0..Nstates-1 /\ current + 1 > current)
    BY <1>2, <1>4
  <2> QED BY <1>1, <2>1, Facts
<1> QED BY <1>3, <1>4

LEMMA RowKeeps == ASSUME IInv, Row PROVE IInv'
<1>1. /\ UNCHANGED <<Nfa, Nstates, Dtran, NFA_set, stack, accept_num, isaccept, anchor>>
      /\ pc = "row" /\ pc' = "move" /\ get_unmarked # {}
      /\ current' = Min(get_unmarked) /\ Last_marked' = current'
      /\ Dstates' = [Dstates EXCEPT ![current'].mark = TRUE]
      /\ c' = MAX_CHARS - 1
  BY DEF Row, closure
<1>2. States' = States /\ MAX_INT' = MAX_INT /\ Array'
  BY <1>1, Facts, NfaStays
<1>3. current' = current + 1 /\ current' \in 0..Nstates-1 /\ current' \in 0..DFA_MAX-1
  BY <1>1, Facts, Unmarked
<1>4. /\ \A s \in 0..DFA_MAX-1 : /\ Dstates'[s].set = Dstates[s].set
                                /\ Dstates'[s].accept = Dstates[s].accept
                                /\ Dstates'[s].anchor = Dstates[s].anchor
                                /\ s # current' => Dstates'[s].mark = Dstates[s].mark
      /\ Dstates'[current'].mark = TRUE
      /\ Dstates' \in [0..DFA_MAX-1 -> [mark : BOOLEAN, accept : Strings \union {NULL},
                                        anchor : 0..3, set : SUBSET States]]
  BY <1>1, <1>3, Facts
<1>5. TypeOK'
  <2>1. c' \in -1..MAX_CHARS-1 /\ Last_marked' \in 0..DFA_MAX
    BY <1>1, <1>3, Facts
  <2> QED BY <1>1, <1>2, <1>3, <1>4, <2>1, Facts DEF TypeOK
<1>6. StackFits' /\ Closing' /\ Winner'
  BY <1>1, Facts DEF StackFits, Closing, Winner
<1>7. Position'
  <2>1. \A s \in 0..DFA_MAX-1 : Dstates'[s].mark <=> s <= current'
    <3>1. \A s \in 0..DFA_MAX-1 : s # current' => (s <= current' <=> s <= current)
      BY <1>3, Facts
    <3>2. \A s \in 0..DFA_MAX-1 : Dstates[s].mark <=> s <= current
      BY Facts DEF Position
    <3> SUFFICES ASSUME NEW s \in 0..DFA_MAX-1 PROVE Dstates'[s].mark <=> s <= current'
      OBVIOUS
    <3>3. CASE s = current'
      <4>1. Dstates'[s].mark = TRUE /\ s <= current'
        BY <1>3, <1>4, <3>3, Facts
      <4> QED BY <4>1
    <3>4. CASE s # current'
      <4>1. Dstates'[s] = Dstates[s]
        BY <1>1, <1>3, <3>4, Facts
      <4> QED BY <3>1, <3>2, <3>4, <4>1
    <3> QED BY <3>3, <3>4
  <2>2. c' \in Alphabet /\ current' # F /\ current' < Nstates
    BY <1>1, <1>3, Facts
  <2> QED BY <1>1, <2>1, <2>2 DEF Position
<1>8. \A s \in 0..Nstates-1 : s \in 0..DFA_MAX-1
  BY Facts
<1>9. Entries'
  <2> SUFFICES ASSUME NEW s \in 0..Nstates-1, NEW ch \in Alphabet, Filled(s, ch)'
               PROVE  Entry(s, ch)'
    BY <1>1 DEF Entries
  <2>1. s <= current /\ current # F
    BY <1>1, <1>3, Facts DEF Filled
  <2>2. Filled(s, ch)
    BY <1>1, <2>1, Facts DEF Filled, Position
  <2>3. Entry(s, ch)
    BY <2>2, Facts, Restated DEF Entries
  <2>4. /\ \A t \in 0..Nstates-1 : Dstates'[t].set = Dstates[t].set
        /\ Nstates' = Nstates /\ Dtran'[s][ch] = Dtran[s][ch]
    BY <1>1, <1>4, <1>8
  <2> QED BY <1>1, <2>3, <2>4, Facts, EntryStays
<1>10. Accepted'
  <2>1. \A s \in 0..Nstates-1 : AcceptsLowest(Dstates[s].set, Dstates[s].accept, Dstates[s].anchor)'
    BY <1>1, <1>4, <1>8, AcceptsStay
  <2> QED BY <1>1, <2>1 DEF Accepted
<1>11. StatesDistinct'
  BY <1>1, <1>4, <1>8, Facts DEF StatesDistinct
<1> QED BY <1>2, <1>5, <1>6, <1>7, <1>9, <1>10, <1>11, Restated DEF IInv

LEMMA FinishKeeps == ASSUME IInv, Finish PROVE IInv'
<1>1. /\ UNCHANGED <<Nfa, Nstates, Dstates, Dtran, current, c, NFA_set, stack, accept_num,
                      isaccept, anchor>>
      /\ pc = "row" /\ pc' = "done" /\ get_unmarked = {} /\ Last_marked' = Nstates
  BY DEF Finish, closure
<1>2. States' = States /\ MAX_INT' = MAX_INT /\ Array'
  BY <1>1, Facts, NfaStays
<1>3. current = Nstates - 1 /\ Nstates > 0 /\ current # F /\ c = -1
  BY <1>1, Facts, Unmarked DEF Position
<1>4. TypeOK'
  BY <1>1, <1>2, Facts DEF TypeOK
<1>5. StackFits' /\ Closing' /\ Winner'
  BY <1>1, Facts DEF StackFits, Closing, Winner
<1>6. Position'
  BY <1>1, <1>3, Facts DEF Position
<1>7. Entries'
  <2> SUFFICES ASSUME NEW s \in 0..Nstates-1, NEW ch \in Alphabet PROVE Entry(s, ch)'
    BY <1>1 DEF Entries
  <2>1. Filled(s, ch)
    BY <1>3, Facts DEF Filled
  <2>2. Entry(s, ch)
    BY <2>1, Facts, Restated DEF Entries
  <2> QED BY <1>1, <2>2, Facts, EntryStays
<1>8. Accepted'
  <2>1. \A s \in 0..Nstates-1 : AcceptsLowest(Dstates[s].set, Dstates[s].accept, Dstates[s].anchor)'
    BY <1>1, AcceptsStay
  <2> QED BY <1>1, <2>1 DEF Accepted
<1>9. StatesDistinct'
  BY <1>1, Facts DEF StatesDistinct
<1> QED BY <1>2, <1>4, <1>5, <1>6, <1>7, <1>8, <1>9, Restated DEF IInv

-----------------------------------------------------------------------------
(* Theorems *)

LEMMA InitIInv == Init => IInv
<1> SUFFICES ASSUME Init PROVE IInv
  OBVIOUS
<1>1. PICK m \in Nfas :
        /\ Nfa = m.node /\ NFA_set = {m.start} /\ stack = <<m.start>>
        /\ accept_num = Cardinality(DOMAIN m.node) /\ isaccept = NULL /\ anchor = 0
        /\ Nstates = 0 /\ Last_marked = 0 /\ current = F /\ c = 0 /\ pc = "closing"
        /\ Dstates = [s \in 0..DFA_MAX-1 |->
                        [mark |-> FALSE, accept |-> NULL, anchor |-> 0, set |-> {}]]
        /\ Dtran = [s \in 0..DFA_MAX-1 |-> [ch \in Alphabet |-> 0]]
  BY DEF Init
<1>2. Array /\ MAX_INT = accept_num
  BY <1>1 DEF Array, MAX_INT, States
<1>3. /\ MAX_CHARS \in Nat \ {0} /\ DFA_MAX \in Nat \ {0} /\ F = -1
  BY SubsetAssumption DEF F
<1>4. MAX_INT \in Nat \ {0} /\ States = 0..MAX_INT-1 /\ m.start \in States
  <2>1. m.start \in 0..MAX_INT-1
    BY <1>1, SubsetAssumption DEF MAX_INT, States
  <2> QED BY <1>2, <2>1, NfaFacts
<1>5. Range(stack) = {m.start} /\ stack \in Seq(States) /\ Len(stack) = 1
  BY <1>1, <1>4 DEF Range
<1>6. TypeOK
  <2>1. Dstates \in [0..DFA_MAX-1 -> [mark : BOOLEAN, accept : Strings \union {NULL},
                                     anchor : 0..3, set : SUBSET States]]
    BY <1>1
  <2>2. Dtran \in [0..DFA_MAX-1 -> [Alphabet -> {F} \union 0..DFA_MAX-1]]
    BY <1>1, <1>3
  <2>3. accept_num \in 0..MAX_INT /\ c \in -1..MAX_CHARS-1 /\ 0 \in 0..DFA_MAX
    BY <1>1, <1>2, <1>3, <1>4
  <2> QED BY <1>1, <1>4, <1>5, <2>1, <2>2, <2>3 DEF TypeOK
<1>7. StackFits
  <2>1. Cardinality(NFA_set) = 1
    BY <1>1, FS_Singleton
  <2> QED BY <1>1, <1>5, <2>1 DEF StackFits
<1>8. Popped = {}
  BY <1>1, <1>5 DEF Popped
<1>9. Closing /\ Winner
  BY <1>1, <1>2, <1>8 DEF Closing, Winner, EpsilonTargets
<1>10. Position
  BY <1>1, <1>3 DEF Position
<1>11. RowsAreClosedMoves /\ StatesDistinct /\ AcceptsFirst
  <2>1. 0..Nstates-1 = {}
    BY <1>1
  <2> QED BY <2>1 DEF RowsAreClosedMoves, StatesDistinct, AcceptsFirst
<1> QED BY <1>2, <1>6, <1>7, <1>9, <1>10, <1>11 DEF IInv

LEMMA StepIInv == IInv /\ [Next]_vars => IInv'
<1> SUFFICES ASSUME IInv, [Next]_vars PROVE IInv'
  OBVIOUS
<1>1. CASE Close
  BY <1>1, CloseKeeps
<1>2. CASE First
  BY <1>2, FirstKeeps
<1>3. CASE Row
  BY <1>3, RowKeeps
<1>4. CASE Finish
  BY <1>4, FinishKeeps
<1>5. CASE NoMove
  BY <1>5, NoMoveKeeps
<1>6. CASE Move
  BY <1>6, MoveKeeps
<1>7. CASE Known
  BY <1>7, KnownKeeps
<1>8. CASE New
  BY <1>8, NewKeeps
<1>9. CASE TooMany
  BY <1>9, TooManyKeeps
<1>10. CASE UNCHANGED vars
  <2>1. UNCHANGED <<Nfa, Nstates, Dstates, Dtran, Last_marked, pc, current, c, NFA_set, stack,
                    accept_num, isaccept, anchor>>
    BY <1>10 DEF vars, table, closure
  <2>2. States' = States /\ MAX_INT' = MAX_INT /\ Array'
    BY <2>1, Facts, NfaStays
  <2>3. TypeOK'
    BY <2>1, <2>2, Facts DEF TypeOK
  <2>4. Seed' = Seed /\ EpsilonTargets(Popped)' = EpsilonTargets(Popped) /\ Popped' = Popped
        /\ \A T : EClosed(T)' = EClosed(T)
    BY <2>1 DEF Seed, move, EpsilonTargets, Popped, EClosed
  <2>5. StackFits' /\ Closing' /\ Winner' /\ Position'
    BY <2>1, <2>2, <2>4, Facts DEF StackFits, Closing, Winner, Position
  <2>6. Entries'
    <3> SUFFICES ASSUME NEW s \in 0..Nstates-1, NEW ch \in Alphabet, Filled(s, ch)'
                 PROVE  Entry(s, ch)'
      BY <2>1 DEF Entries
    <3>1. Filled(s, ch)
      BY <2>1 DEF Filled
    <3>2. Entry(s, ch)
      BY <3>1, Facts, Restated DEF Entries
    <3> QED BY <2>1, <3>2, Facts, EntryStays
  <2>7. Accepted'
    <3>1. \A s \in 0..Nstates-1 :
            AcceptsLowest(Dstates[s].set, Dstates[s].accept, Dstates[s].anchor)'
      BY <2>1, AcceptsStay
    <3> QED BY <2>1, <3>1 DEF Accepted
  <2>8. StatesDistinct'
    BY <2>1, Facts DEF StatesDistinct
  <2> QED BY <2>2, <2>3, <2>5, <2>6, <2>7, <2>8, Restated DEF IInv
<1> QED BY <1>1, <1>2, <1>3, <1>4, <1>5, <1>6, <1>7, <1>8, <1>9, <1>10 DEF Next

\* The tables, the row being filled and the closure being computed stay what the invariant
\* says.
THEOREM SubsetInvariant == Spec => []IInv
BY InitIInv, StepIInv, PTL DEF Spec

\* Every variable of make_dtran() and e_closure() keeps its type, and no index leaves the
\* tables of DFA_MAX rows.
THEOREM SubsetTypes == Spec => []TypeOK
<1>1. IInv => TypeOK
  BY DEF IInv
<1> QED BY <1>1, SubsetInvariant, PTL

\* The stack of e_closure() never holds a state twice, so it needs no more places than the
\* NFA has states.
THEOREM ClosureStackFits == Spec => []StackFits
<1>1. IInv => StackFits
  BY DEF IInv
<1> QED BY <1>1, SubsetInvariant, PTL

\* Every entry of the table that has been filled leads to the epsilon closure of the move
\* of its row, however the NFA looks.
THEOREM SubsetRowsAreClosedMoves == Spec => []RowsAreClosedMoves
<1>1. IInv => RowsAreClosedMoves
  BY DEF IInv
<1> QED BY <1>1, SubsetInvariant, PTL

\* No two rows are for the same set.
THEOREM SubsetStatesDistinct == Spec => []StatesDistinct
<1>1. IInv => StatesDistinct
  BY DEF IInv
<1> QED BY <1>1, SubsetInvariant, PTL

\* The rule that comes first wins in every state.
THEOREM SubsetAcceptsFirst == Spec => []AcceptsFirst
<1>1. IInv => AcceptsFirst
  BY DEF IInv
<1> QED BY <1>1, SubsetInvariant, PTL

=============================================================================
