---------------------------- MODULE MinimizeProofs ----------------------------
(***************************************************************************)
(* Proofs about the minimization, for every machine and every alphabet.    *)
(***************************************************************************)
EXTENDS Minimize, Sequences, LeastElements, TLAPS

-----------------------------------------------------------------------------
(* The inductive invariant *)

Machine == dtran \in Dtrans /\ accept \in Accepts /\ DOMAIN accept = States

\* The groups in use, the one that is being split off included.
InUse(g) == g < Numgroups \/ (g = Numgroups /\ pc = "split")

\* Every state that has been placed is in the group Ingroup names, and in no other.
Partition ==
    /\ \A s \in States : s < i => s \in Groups[Ingroup[s]] /\ InUse(Ingroup[s])
    /\ \A g \in States : InUse(g) => \A s \in Groups[g] : s < i /\ Ingroup[s] = g
    /\ \A g \in 0..Numgroups-1 : Groups[g] # {}
    /\ 0 < i => Ingroup[0] = 0

Alikes == \A s, t \in States :
    s < i /\ t < i /\ Ingroup[s] = Ingroup[t] => accept[s].string = accept[t].string

Progress ==
    /\ pc = "init" => Numgroups <= i
    /\ pc # "init" => i = nstates
    /\ pc \in {"group", "split"} => old_numgroups <= Numgroups /\ current <= Numgroups

\* What is known of the group being split: first stays in it and is its least member,
\* and what has left it accepts the same string.
Splitting ==
    pc = "split" =>
        /\ current < Numgroups
        /\ first \in Groups[current] /\ first <= next
        /\ \A s \in Groups[current] : first <= s
        /\ \A s \in Groups[Numgroups] : accept[s].string = accept[first].string

Agree(s, t) == \A ch \in Alphabet : Target(s, ch) = Target(t, ch)

Unsplit ==
    /\ pc \in {"group", "split"} /\ old_numgroups = Numgroups
    /\ pc = "split" => Groups[Numgroups] = {}

\* As long as a pass has split nothing, the groups before current are settled, and so are
\* the members of current that have been compared with first.
Settled ==
    /\ Unsplit => \A s, t \in States :
         Ingroup[s] = Ingroup[t] /\ Ingroup[s] < current => Agree(s, t)
    /\ Unsplit /\ pc = "split" => \A s \in Groups[current] : s <= next => Agree(first, s)
    /\ pc = "fix" => \A s, t \in States : Ingroup[s] = Ingroup[t] => Agree(s, t)

IInv == Machine /\ TypeOK /\ Partition /\ Alikes /\ Progress /\ Splitting /\ Settled /\ SameLanguage

-----------------------------------------------------------------------------
(* Lemmas *)

\* The states are numbered from 0.
LEMMA MachineFacts ==
    ASSUME Machine
    PROVE  /\ nstates \in Nat \ {0} /\ States = 0..nstates-1 /\ IsFiniteSet(States)
           /\ States \subseteq Nat /\ 0 \in States
           /\ dtran \in [States -> [Alphabet -> {F} \union States]]
           /\ accept \in [States -> [string : Strings \union {NULL}, anchor : 0..3]]
<1>1. /\ nstates \in Nat \ {0}
      /\ dtran \in [0..nstates-1 -> [Alphabet -> {F} \union 0..nstates-1]]
  BY MinimizeAssumption DEF Machine, States, nstates
<1>2. States = 0..nstates-1
  BY <1>1 DEF States
<1>3. accept \in [0..nstates-1 -> [string : Strings \union {NULL}, anchor : 0..3]]
  BY MinimizeAssumption DEF Machine, nstates
<1>4. IsFiniteSet(0..nstates-1)
  BY <1>1, FS_Interval
<1> QED BY <1>1, <1>2, <1>3, <1>4

LEMMA TypeFacts ==
    ASSUME Machine, TypeOK
    PROVE  /\ Groups \in [States -> SUBSET States] /\ Ingroup \in [States -> States]
           /\ Numgroups \in Nat /\ i \in Nat /\ old_numgroups \in Nat /\ current \in Nat
           /\ Numgroups <= nstates /\ i <= nstates
           /\ first \in States /\ next \in States
BY MachineFacts DEF TypeOK

\* The least member of a group.
LEMMA MinOfGroup ==
    ASSUME Machine, NEW S \in SUBSET States, S # {}
    PROVE  Min(S) \in S /\ Min(S) \in States /\ \A s \in S : Min(S) <= s
BY MachineFacts, MinNat

\* A group has one member or it has two.
LEMMA TwoMembers ==
    ASSUME Machine, NEW S \in SUBSET States, Cardinality(S) > 1
    PROVE  \E s, t \in S : s # t
<1>1. IsFiniteSet(S)
  BY MachineFacts, FS_Subset
<1>2. S # {}
  BY FS_EmptySet
<1>3. PICK s \in S : TRUE
  BY <1>2
<1>4. S # {s}
  BY FS_Singleton
<1> QED BY <1>3, <1>4

LEMMA OneMember ==
    ASSUME Machine, NEW S \in SUBSET States, Cardinality(S) <= 1, NEW s \in S, NEW t \in S
    PROVE  s = t
<1>1. IsFiniteSet(S)
  BY MachineFacts, FS_Subset
<1>2. Cardinality(S) \in Nat
  BY <1>1, FS_CardinalityType
<1>3. Cardinality(S) # 0
  BY <1>1, FS_EmptySet
<1>4. \E x : S = {x}
  BY <1>1, <1>2, <1>3, FS_Singleton
<1> QED BY <1>4

\* There is a state for every group in use, and another one when a group has two: this is
\* why the table of the groups has room for the one that is split off.
LEMMA RoomForOneMore ==
    ASSUME IInv, pc # "split", NEW g \in 0..Numgroups-1, NEW x \in Groups[g], NEW y \in Groups[g],
           x # y
    PROVE  Numgroups < nstates
<1> DEFINE Used == 0..Numgroups-1
           member == [h \in Used |-> Min(Groups[h])]
<1>0. Machine /\ TypeOK /\ Partition
  BY DEF IInv
<1>1. /\ Numgroups \in Nat /\ Used \subseteq States /\ Groups \in [States -> SUBSET States]
      /\ Numgroups <= nstates /\ nstates \in Nat
  BY <1>0, MachineFacts, TypeFacts
<1>2. \A h \in Used : Groups[h] # {} /\ \A s \in Groups[h] : Ingroup[s] = h
  BY <1>0, <1>1 DEF Partition, InUse
<1>3. \A h \in Used : member[h] \in Groups[h] /\ member[h] \in States
  <2> SUFFICES ASSUME NEW h \in Used PROVE member[h] \in Groups[h] /\ member[h] \in States
    OBVIOUS
  <2>1. Groups[h] \in SUBSET States /\ Groups[h] # {}
    BY <1>1, <1>2
  <2> QED BY <1>0, <2>1, MinOfGroup
<1>4. member \in [Used -> States] /\ \A h, k \in Used : member[h] = member[k] => h = k
  BY <1>2, <1>3
<1>5. member \in Injection(Used, States)
  <2> HIDE DEF member, Used
  <2> QED BY <1>4 DEF Injection, IsInjective
<1>6. Cardinality(Used) = Numgroups
  BY <1>1, CardBelow
<1>7. ASSUME Numgroups = nstates PROVE FALSE
  <2>1. member \in Surjection(Used, States)
    <3> HIDE DEF member, Used
    <3> QED BY <1>0, <1>5, <1>6, <1>7, FS_Injection, MachineFacts DEF nstates
  <2>2. x \in States /\ y \in States
    BY <1>1
  <2>3. PICK h \in Used, k \in Used : member[h] = x /\ member[k] = y
    <3> HIDE DEF member, Used
    <3> QED BY <2>1, <2>2 DEF Surjection
  <2>4. h = g /\ k = g
    BY <1>2, <1>3, <2>3
  <2> QED BY <2>3, <2>4
<1> QED BY <1>1, <1>7

-----------------------------------------------------------------------------
(* init_groups() *)

\* What both of its steps do: state i is put in group g, with states that accept what it
\* accepts.
LEMMA Placed ==
    ASSUME IInv, pc = "init", i < nstates, NEW g \in States, g <= Numgroups,
           Groups' = [Groups EXCEPT ![g] = IF g = Numgroups THEN {i} ELSE @ \union {i}],
           Ingroup' = [Ingroup EXCEPT ![i] = g],
           Numgroups' = IF g = Numgroups THEN Numgroups + 1 ELSE Numgroups,
           \A s \in States : s < i /\ Ingroup[s] = g => accept[s].string = accept[i].string,
           i' = i + 1, UNCHANGED <<dtran, accept, pc, loop, result>>
    PROVE  IInv'
<1>0. Machine /\ TypeOK /\ Partition /\ Alikes /\ Progress
  BY DEF IInv
<1>1. /\ States' = States /\ nstates' = nstates /\ Machine'
      /\ UNCHANGED <<dtran, accept, pc, old_numgroups, current, first, next, newdtran, newaccept>>
  BY <1>0 DEF Machine, States, nstates, loop, result
<1>2. /\ nstates \in Nat /\ States = 0..nstates-1 /\ i \in States /\ i \in Nat
      /\ Groups \in [States -> SUBSET States] /\ Ingroup \in [States -> States]
      /\ Numgroups \in Nat /\ Numgroups <= i
  BY <1>0, MachineFacts, TypeFacts DEF Progress
<1>3. TypeOK'
  <2>1. Numgroups' \in 0..nstates /\ i' \in 0..nstates
    BY <1>2
  <2>2. Groups' \in [States -> SUBSET States] /\ Ingroup' \in [States -> States]
    BY <1>2
  <2> QED BY <1>0, <1>1, <2>1, <2>2 DEF TypeOK
<1>4. Partition'
  <2>1. \A s \in States : s < i' => s \in Groups'[Ingroup'[s]] /\ InUse(Ingroup[s])'
    <3> SUFFICES ASSUME NEW s \in States, s < i'
                 PROVE  s \in Groups'[Ingroup'[s]] /\ Ingroup'[s] < Numgroups'
      BY DEF InUse
    <3>1. CASE s = i
      BY <3>1, <1>2
    <3>2. CASE s # i
      <4>1. s < i /\ Ingroup'[s] = Ingroup[s]
        BY <3>2, <1>2
      <4>2. s \in Groups[Ingroup[s]] /\ Ingroup[s] < Numgroups /\ Ingroup[s] \in States
        BY <4>1, <1>0, <1>2 DEF Partition, InUse
      <4> QED BY <4>1, <4>2, <1>2, SMTT(30)
    <3> QED BY <3>1, <3>2
  <2>2. \A h \in States : InUse(h)' => \A s \in Groups'[h] : s < i' /\ Ingroup'[s] = h
    <3> SUFFICES ASSUME NEW h \in States, h < Numgroups', NEW s \in Groups'[h]
                 PROVE  s < i' /\ Ingroup'[s] = h
      BY <1>1 DEF InUse
    <3>1. CASE s = i
      <4>1. h = g
        <5> SUFFICES ASSUME h # g PROVE FALSE
          OBVIOUS
        <5>1. s \in Groups[h] /\ h < Numgroups
          BY <1>2
        <5> QED BY <5>1, <3>1, <1>0, <1>2 DEF Partition, InUse
      <4> QED BY <4>1, <3>1, <1>2
    <3>2. CASE s # i
      <4>1. h = g => g # Numgroups
        <5> SUFFICES ASSUME h = Numgroups, g = Numgroups PROVE FALSE
          OBVIOUS
        <5>1. Groups'[h] = {i}
          BY <1>2
        <5> QED BY <5>1, <3>2
      <4>2. h < Numgroups
        BY <4>1, <1>2
      <4>3. Groups'[h] \subseteq Groups[h] \union {i}
        BY <4>1, <1>2
      <4>4. s \in Groups[h]
        BY <4>3, <3>2
      <4> QED BY <4>2, <4>4, <3>2, <1>0, <1>2 DEF Partition, InUse
    <3> QED BY <3>1, <3>2
  <2>3. \A h \in 0..Numgroups'-1 : Groups'[h] # {}
    <3> SUFFICES ASSUME NEW h \in 0..Numgroups'-1 PROVE Groups'[h] # {}
      OBVIOUS
    <3>1. h \in States
      BY <1>2
    <3>3. i \in Groups'[g]
      BY <1>2
    <3>2. h # g => Groups'[h] = Groups[h] /\ h \in 0..Numgroups-1
      BY <1>2, <3>1
    <3> QED BY <3>2, <3>3, <1>0 DEF Partition
  <2>4. Ingroup'[0] = 0
    <3>1. CASE i = 0
      BY <3>1, <1>2
    <3>2. CASE i # 0
      <4>1. 0 < i /\ Ingroup[0] = 0 /\ 0 \in States
        BY <3>2, <1>0, <1>2 DEF Partition
      <4> QED BY <4>1, <3>2, <1>2
    <3> QED BY <3>1, <3>2
  <2> QED BY <1>1, <2>1, <2>2, <2>3, <2>4 DEF Partition
<1>5. Alikes'
  <2> SUFFICES ASSUME NEW s \in States, NEW t \in States, s <= i, t <= i,
                      Ingroup'[s] = Ingroup'[t]
               PROVE  accept[s].string = accept[t].string
    BY <1>1, <1>2 DEF Alikes
  <2>1. \A r \in States : r <= i /\ r # i => r < i /\ Ingroup'[r] = Ingroup[r]
    BY <1>2
  <2>2. Ingroup'[i] = g
    BY <1>2
  <2>3. CASE s = i
    BY <2>1, <2>2, <2>3
  <2>4. CASE t = i
    BY <2>1, <2>2, <2>4
  <2>5. CASE s # i /\ t # i
    BY <2>1, <2>5, <1>0 DEF Alikes
  <2> QED BY <2>3, <2>4, <2>5
<1>6. Progress' /\ Splitting' /\ Settled' /\ SameLanguage'
  BY <1>1, <1>2 DEF Progress, Splitting, Settled, Unsplit, SameLanguage
<1> QED BY <1>1, <1>3, <1>4, <1>5, <1>6 DEF IInv

LEMMA JoinGroupKeeps == ASSUME IInv, JoinGroup PROVE IInv'
<1> DEFINE m == Max(Alike)
           g == Ingroup[m]
<1>0. Machine /\ TypeOK /\ Partition /\ Alikes /\ Progress /\ pc = "init" /\ i < nstates
  BY DEF IInv, JoinGroup
<1>1. /\ nstates \in Nat /\ States = 0..nstates-1 /\ i \in States /\ i \in Nat
      /\ Ingroup \in [States -> States] /\ Groups \in [States -> SUBSET States]
      /\ Numgroups \in Nat
  BY <1>0, MachineFacts, TypeFacts
<1>2. m \in Alike
  <2>1. Alike \in SUBSET Nat /\ \A s \in Alike : s <= i
    BY <1>1 DEF Alike
  <2>2. Alike # {}
    BY DEF JoinGroup
  <2> QED BY <2>1, <2>2, <1>1, MaxNat
<1>3. m \in States /\ m < i /\ accept[m].string = accept[i].string
  <2>1. m \in 0..i-1 /\ accept[m].string = accept[i].string
    <3> HIDE DEF m
    <3> QED BY <1>2 DEF Alike
  <2> HIDE DEF m
  <2> QED BY <2>1, <1>0, <1>1
<1>4. g \in States /\ g < Numgroups
  BY <1>0, <1>1, <1>3 DEF Partition, InUse
<1>5. \A s \in States : s < i /\ Ingroup[s] = g => accept[s].string = accept[i].string
  BY <1>0, <1>3 DEF Alikes
<1>6. /\ Groups' = [Groups EXCEPT ![g] = IF g = Numgroups THEN {i} ELSE @ \union {i}]
      /\ Ingroup' = [Ingroup EXCEPT ![i] = g]
      /\ Numgroups' = IF g = Numgroups THEN Numgroups + 1 ELSE Numgroups
      /\ i' = i + 1 /\ UNCHANGED <<dtran, accept, pc, loop, result>>
  <2> HIDE DEF m
  <2>1. g # Numgroups /\ g <= Numgroups
    BY <1>1, <1>4
  <2> QED BY <2>1 DEF JoinGroup, m
<1>7. g <= Numgroups
  BY <1>1, <1>4
<1> HIDE DEF m, g
<1> QED BY <1>0, <1>4, <1>5, <1>6, <1>7, Placed

LEMMA FoundGroupKeeps == ASSUME IInv, FoundGroup PROVE IInv'
<1> DEFINE g == Numgroups
<1>0. Machine /\ TypeOK /\ Partition /\ Progress /\ pc = "init" /\ i < nstates
  BY DEF IInv, FoundGroup
<1>1. /\ nstates \in Nat /\ States = 0..nstates-1 /\ i \in Nat /\ g \in States
      /\ Ingroup \in [States -> States]
  BY <1>0, MachineFacts, TypeFacts DEF Progress
<1>2. \A s \in States : ~(s < i /\ Ingroup[s] = g)
  BY <1>0, <1>1 DEF Partition, InUse
<1>3. /\ Groups' = [Groups EXCEPT ![g] = IF g = Numgroups THEN {i} ELSE @ \union {i}]
      /\ Ingroup' = [Ingroup EXCEPT ![i] = g]
      /\ Numgroups' = IF g = Numgroups THEN Numgroups + 1 ELSE Numgroups
      /\ i' = i + 1 /\ UNCHANGED <<dtran, accept, pc, loop, result>>
  BY DEF FoundGroup
<1>4. g <= Numgroups
  BY <1>1
<1> HIDE DEF g
<1> QED BY <1>0, <1>1, <1>2, <1>3, <1>4, Placed

-----------------------------------------------------------------------------
(* minimize() *)

\* What every step of a pass has to begin with.
LEMMA Facts ==
    ASSUME IInv
    PROVE  /\ Machine /\ TypeOK /\ Partition /\ Alikes /\ Progress /\ Splitting /\ Settled
           /\ SameLanguage
           /\ nstates \in Nat \ {0} /\ States = 0..nstates-1 /\ 0 \in States
           /\ Groups \in [States -> SUBSET States] /\ Ingroup \in [States -> States]
           /\ Numgroups \in Nat /\ i \in Nat /\ old_numgroups \in Nat /\ current \in Nat
           /\ Numgroups <= nstates /\ i <= nstates
           /\ first \in States /\ next \in States
BY MachineFacts, TypeFacts DEF IInv

\* Steps that move no state from one group to another.
LEMMA GroupsStay ==
    ASSUME IInv, UNCHANGED <<dtran, accept, Groups, Ingroup, i>>
    PROVE  /\ Machine' /\ States' = States /\ nstates' = nstates /\ Alikes'
           /\ \A s, t : Agree(s, t)' <=> Agree(s, t)
BY Facts DEF Machine, Alikes, States, nstates, Agree, Target

LEMMA ClassifiedKeeps == ASSUME IInv, Classified PROVE IInv'
<1>1. /\ UNCHANGED <<dtran, accept, Groups, Numgroups, Ingroup, i, old_numgroups, current,
                      first, next, newdtran, newaccept>>
      /\ pc = "init" /\ pc' = "pass" /\ i = nstates
  BY DEF Classified, loop, result
<1>2. Machine' /\ States' = States /\ nstates' = nstates /\ Alikes'
  BY <1>1, GroupsStay
<1>3. TypeOK'
  BY <1>1, <1>2, Facts DEF TypeOK
<1>4. Partition'
  BY <1>1, <1>2, Facts DEF Partition, InUse
<1>5. Progress' /\ Splitting' /\ Settled' /\ SameLanguage'
  BY <1>1, <1>2 DEF Progress, Splitting, Settled, Unsplit, SameLanguage
<1> QED BY <1>2, <1>3, <1>4, <1>5 DEF IInv

LEMMA BeginPassKeeps == ASSUME IInv, BeginPass PROVE IInv'
<1>1. /\ UNCHANGED <<dtran, accept, Groups, Numgroups, Ingroup, i, first, next, newdtran,
                      newaccept>>
      /\ pc = "pass" /\ pc' = "group" /\ old_numgroups' = Numgroups /\ current' = 0
  BY DEF BeginPass, result
<1>2. Machine' /\ States' = States /\ nstates' = nstates /\ Alikes'
  BY <1>1, GroupsStay
<1>3. TypeOK'
  BY <1>1, <1>2, Facts DEF TypeOK
<1>4. Partition'
  BY <1>1, <1>2, Facts DEF Partition, InUse
<1>5. Progress' /\ Splitting' /\ SameLanguage'
  BY <1>1, <1>2, Facts DEF Progress, Splitting, SameLanguage
<1>6. Settled'
  <2>1. \A s \in States : ~(Ingroup'[s] < current')
    BY <1>1, Facts
  <2> QED BY <1>1, <1>2, <2>1 DEF Settled
<1> QED BY <1>2, <1>3, <1>4, <1>5, <1>6 DEF IInv

LEMMA SkipGroupKeeps == ASSUME IInv, SkipGroup PROVE IInv'
<1>1. /\ UNCHANGED <<dtran, accept, Groups, Numgroups, Ingroup, pc, i, old_numgroups, first,
                      next, newdtran, newaccept>>
      /\ pc = "group" /\ current < Numgroups /\ current' = current + 1
      /\ Cardinality(Groups[current]) <= 1
  BY DEF SkipGroup, result
<1>2. /\ Machine' /\ States' = States /\ nstates' = nstates /\ Alikes'
      /\ \A s, t : Agree(s, t)' <=> Agree(s, t)
  BY <1>1, GroupsStay
<1>3. current' <= Numgroups /\ current' \in 0..nstates /\ current \in States
  BY <1>1, Facts
<1>4. TypeOK'
  BY <1>1, <1>2, <1>3, Facts DEF TypeOK
<1>5. Partition'
  BY <1>1, <1>2, Facts DEF Partition, InUse
<1>6. Progress' /\ Splitting' /\ SameLanguage'
  BY <1>1, <1>2, <1>3, Facts DEF Progress, Splitting, SameLanguage
<1>7. Settled'
  <2> SUFFICES ASSUME old_numgroups = Numgroups, NEW s \in States, NEW t \in States,
                      Ingroup[s] = Ingroup[t], Ingroup[s] < current + 1
               PROVE  Agree(s, t)
    BY <1>1, <1>2 DEF Settled, Unsplit
  <2>1. CASE Ingroup[s] < current
    BY <2>1, <1>1, Facts DEF Settled, Unsplit
  <2>2. CASE Ingroup[s] = current
    <3>0. s < i /\ t < i
      BY <1>1, Facts DEF Progress
    <3>1. s \in Groups[current] /\ t \in Groups[current]
      BY <2>2, <3>0, Facts DEF Partition
    <3>2. s = t
      BY <1>1, <1>3, <3>1, Facts, OneMember
    <3> QED BY <3>2 DEF Agree
  <2> QED BY <2>1, <2>2, Facts
<1> QED BY <1>2, <1>4, <1>5, <1>6, <1>7 DEF IInv

LEMMA OpenGroupKeeps == ASSUME IInv, OpenGroup PROVE IInv'
<1>1. /\ UNCHANGED <<dtran, accept, Numgroups, Ingroup, i, old_numgroups, current, newdtran,
                      newaccept>>
      /\ pc = "group" /\ pc' = "split" /\ current < Numgroups
      /\ Cardinality(Groups[current]) > 1
      /\ Groups' = [Groups EXCEPT ![Numgroups] = {}]
      /\ first' = Min(Groups[current]) /\ next' = first'
  BY DEF OpenGroup, result
<1>2. /\ Machine' /\ States' = States /\ nstates' = nstates /\ Alikes'
      /\ \A s, t : Agree(s, t)' <=> Agree(s, t)
  BY <1>1, Facts DEF Machine, Alikes, States, nstates, Agree, Target
<1>3. current \in States /\ Groups[current] \in SUBSET States
  BY <1>1, Facts
<1>4. PICK s \in Groups[current], t \in Groups[current] : s # t
  BY <1>1, <1>3, Facts, TwoMembers
<1>5. Numgroups < nstates /\ Numgroups \in States
  BY <1>1, <1>4, Facts, RoomForOneMore
<1>6. /\ first' \in Groups[current] /\ first' \in States
      /\ \A r \in Groups[current] : first' <= r
  BY <1>1, <1>3, <1>4, Facts, MinOfGroup
<1>7. /\ Groups' \in [States -> SUBSET States] /\ Groups'[Numgroups] = {}
      /\ \A g \in States : g # Numgroups => Groups'[g] = Groups[g]
  BY <1>1, <1>5, Facts
<1>8. TypeOK'
  BY <1>1, <1>2, <1>5, <1>6, <1>7, Facts DEF TypeOK
<1>9. Partition'
  <2>1. \A r \in States : r < i => Ingroup[r] < Numgroups
    BY <1>1, Facts DEF Partition, InUse
  <2>2. \A r \in States : r < i => r \in Groups'[Ingroup[r]]
    <3> SUFFICES ASSUME NEW r \in States, r < i PROVE r \in Groups'[Ingroup[r]]
      OBVIOUS
    <3>1. Ingroup[r] \in States /\ Ingroup[r] # Numgroups
      BY <2>1, Facts
    <3>2. r \in Groups[Ingroup[r]]
      BY Facts DEF Partition
    <3> QED BY <1>7, <3>1, <3>2
  <2>3. \A g \in States : InUse(g)' => \A r \in Groups'[g] : r < i /\ Ingroup[r] = g
    BY <1>1, <1>7, Facts DEF Partition, InUse
  <2>4. \A g \in 0..Numgroups-1 : Groups'[g] # {}
    <3>1. \A g \in 0..Numgroups-1 : g \in States /\ g # Numgroups
      BY <1>5, Facts
    <3> QED BY <1>7, <3>1, Facts DEF Partition
  <2> QED BY <1>1, <1>2, <2>1, <2>2, <2>3, <2>4, Facts DEF Partition, InUse
<1>10. Progress' /\ SameLanguage'
  BY <1>1, <1>2, Facts DEF Progress, SameLanguage
<1>11. Splitting'
  BY <1>1, <1>3, <1>5, <1>6, <1>7, Facts DEF Splitting
<1>12. Settled'
  <2>1. ASSUME Unsplit', NEW r \in States, NEW u \in States, Ingroup[r] = Ingroup[u],
               Ingroup[r] < current
        PROVE  Agree(r, u)
    BY <1>1, <2>1, Facts DEF Settled, Unsplit
  <2>2. ASSUME NEW r \in Groups[current], r <= first'
        PROVE  Agree(first', r)
    <3>1. r = first'
      BY <2>2, <1>3, <1>6, Facts
    <3> QED BY <3>1 DEF Agree
  <2>3. Groups'[current] = Groups[current]
    BY <1>1, <1>3, <1>7, Facts
  <2> QED BY <1>1, <1>2, <2>1, <2>2, <2>3 DEF Settled
<1> QED BY <1>2, <1>8, <1>9, <1>10, <1>11, <1>12 DEF IInv

\* The next state of the group that next_member() returns.
LEMMA RestFacts ==
    ASSUME IInv, pc = "split", Rest # {}
    PROVE  /\ current \in States /\ Numgroups \in States /\ current # Numgroups
           /\ Min(Rest) \in Groups[current] /\ Min(Rest) \in States /\ next < Min(Rest)
           /\ \A s \in Groups[current] : s <= Min(Rest) => s <= next \/ s = Min(Rest)
<1>1. current \in States /\ Numgroups \in States /\ current # Numgroups
  BY Facts DEF Splitting, TypeOK
<1>2. Rest \in SUBSET States /\ Groups[current] \in SUBSET States
  BY <1>1, Facts DEF Rest
<1>3. Min(Rest) \in Rest /\ Min(Rest) \in States /\ \A s \in Rest : Min(Rest) <= s
  BY <1>2, Facts, MinOfGroup
<1>4. Min(Rest) \in Groups[current] /\ next < Min(Rest)
  BY <1>3 DEF Rest
<1>5. ASSUME NEW s \in Groups[current], s <= Min(Rest)
      PROVE  s <= next \/ s = Min(Rest)
  <2>1. s \in Nat /\ next \in Nat /\ Min(Rest) \in Nat
    BY <1>2, <1>3, Facts
  <2>2. s > next => s \in Rest
    BY DEF Rest
  <2> QED BY <1>3, <1>5, <2>1, <2>2
<1> QED BY <1>1, <1>3, <1>4, <1>5

LEMMA KeepStateKeeps == ASSUME IInv, KeepState PROVE IInv'
<1>1. /\ UNCHANGED <<dtran, accept, Groups, Numgroups, Ingroup, pc, i, old_numgroups, current,
                      first, newdtran, newaccept>>
      /\ pc = "split" /\ Rest # {} /\ ~Differ(first, Min(Rest)) /\ next' = Min(Rest)
  BY DEF KeepState, result
<1>2. /\ Machine' /\ States' = States /\ nstates' = nstates /\ Alikes'
      /\ \A s, t : Agree(s, t)' <=> Agree(s, t)
  BY <1>1, GroupsStay
<1>3. /\ next' \in States /\ next < next' /\ next' \in Groups[current] /\ current \in States
      /\ \A s \in Groups[current] : s <= next' => s <= next \/ s = next'
  BY <1>1, RestFacts
<1>4. TypeOK'
  BY <1>1, <1>2, <1>3, Facts DEF TypeOK
<1>5. Partition'
  BY <1>1, <1>2, Facts DEF Partition, InUse
<1>6. Progress' /\ SameLanguage'
  BY <1>1, <1>2, Facts DEF Progress, SameLanguage
<1>7. Splitting'
  BY <1>1, <1>3, Facts DEF Splitting
<1>8. Settled'
  <2>1. Agree(first, next')
    BY <1>1 DEF Agree, Differ
  <2> QED BY <1>1, <1>2, <1>3, <2>1, Facts DEF Settled, Unsplit
<1> QED BY <1>2, <1>4, <1>5, <1>6, <1>7, <1>8 DEF IInv

LEMMA MoveStateKeeps == ASSUME IInv, MoveState PROVE IInv'
<1>1. /\ UNCHANGED <<dtran, accept, Numgroups, pc, i, old_numgroups, current, first, newdtran,
                      newaccept>>
      /\ pc = "split" /\ Rest # {} /\ next' = Min(Rest)
      /\ Groups' = [Groups EXCEPT ![current] = @ \ {next'}, ![Numgroups] = @ \union {next'}]
      /\ Ingroup' = [Ingroup EXCEPT ![next'] = Numgroups]
  BY DEF MoveState, result
<1>2. Machine' /\ States' = States /\ nstates' = nstates
  BY <1>1, Facts DEF Machine, States, nstates
<1>3. /\ next' \in States /\ next < next' /\ next' \in Groups[current]
      /\ current \in States /\ Numgroups \in States /\ current # Numgroups
  BY <1>1, RestFacts
<1>4. /\ Groups' \in [States -> SUBSET States]
      /\ Groups'[current] = Groups[current] \ {next'}
      /\ Groups'[Numgroups] = Groups[Numgroups] \union {next'}
      /\ \A g \in States : g # current /\ g # Numgroups => Groups'[g] = Groups[g]
  BY <1>1, <1>3, Facts
<1>5. /\ Ingroup' \in [States -> States] /\ Ingroup'[next'] = Numgroups
      /\ \A s \in States : s # next' => Ingroup'[s] = Ingroup[s]
  BY <1>1, <1>3, Facts
<1>6. first # next' /\ first \in Groups[current] /\ first < next' /\ 0 # next'
  BY <1>1, <1>3, Facts DEF Splitting
<1>7. TypeOK'
  BY <1>1, <1>2, <1>3, <1>4, <1>5, Facts DEF TypeOK
<1>8. i = nstates /\ \A s \in States : s < i
  BY <1>1, Facts DEF Progress
<1>9. Partition'
  <2>1. ASSUME NEW s \in States
        PROVE  s \in Groups'[Ingroup'[s]] /\ Ingroup'[s] <= Numgroups
    <3>1. CASE s = next'
      BY <3>1, <1>3, <1>4, <1>5, Facts
    <3>2. CASE s # next'
      <4>1. s \in Groups[Ingroup[s]] /\ Ingroup[s] <= Numgroups /\ Ingroup[s] \in States
        BY <1>8, Facts DEF Partition, InUse
      <4> QED BY <3>2, <4>1, <1>4, <1>5
    <3> QED BY <3>1, <3>2
  <2>2. ASSUME NEW g \in States, g <= Numgroups, NEW s \in Groups'[g]
        PROVE  s < i /\ Ingroup'[s] = g
    <3>1. s \in States
      BY <1>4
    <3>2. CASE s = next'
      <4>1. g = Numgroups
        <5> SUFFICES ASSUME g # Numgroups PROVE FALSE
          OBVIOUS
        <5>1. g # current /\ s \in Groups[g] /\ InUse(g)
          BY <1>4, <2>2, <3>2, Facts DEF InUse
        <5>2. Ingroup[s] = g /\ Ingroup[s] = current
          BY <1>1, <1>3, <3>2, <5>1, Facts DEF Partition, InUse, Splitting
        <5> QED BY <5>1, <5>2
      <4> QED BY <4>1, <3>1, <3>2, <1>5, <1>8
    <3>3. CASE s # next'
      <4>1. s \in Groups[g] /\ InUse(g)
        BY <1>1, <1>4, <2>2, <3>3, Facts DEF InUse
      <4> QED BY <4>1, <3>1, <3>3, <1>5, Facts DEF Partition
    <3> QED BY <3>2, <3>3
  <2>3. ASSUME NEW g \in 0..Numgroups-1
        PROVE  Groups'[g] # {}
    <3>1. g \in States /\ g # Numgroups
      BY <1>3, Facts
    <3>2. CASE g = current
      BY <3>2, <1>4, <1>6
    <3>3. CASE g # current
      BY <3>1, <3>3, <1>4, Facts DEF Partition
    <3> QED BY <3>2, <3>3
  <2>4. Ingroup'[0] = 0
    BY <1>3, <1>5, <1>6, <1>8, Facts DEF Partition
  <2>5. \A g \in States : InUse(g)' => g <= Numgroups
    BY <1>1, Facts DEF InUse
  <2>6. \A g \in States : g <= Numgroups => InUse(g)'
    BY <1>1, Facts DEF InUse
  <2>7. \A s \in States : InUse(Ingroup[s])'
    BY <2>1, <2>6, <1>1, <1>5, Facts DEF InUse
  <2> QED BY <1>1, <1>2, <2>1, <2>2, <2>3, <2>4, <2>5, <2>7 DEF Partition
<1>10. \A s \in Groups'[Numgroups] : accept[s].string = accept[first].string
  <2>1. Ingroup[first] = current /\ Ingroup[next'] = current
    BY <1>1, <1>3, <1>6, Facts DEF Partition, InUse, Splitting
  <2>2. accept[next'].string = accept[first].string
    BY <2>1, <1>3, <1>8, Facts DEF Alikes
  <2> QED BY <1>1, <1>4, <2>2, Facts DEF Splitting
<1>11. Alikes'
  <2> SUFFICES ASSUME NEW s \in States, NEW t \in States, Ingroup'[s] = Ingroup'[t]
               PROVE  accept[s].string = accept[t].string
    BY <1>1, <1>2 DEF Alikes
  <2>1. CASE Ingroup'[s] = Numgroups
    <3>1. \A r \in States : r \in Groups'[Ingroup'[r]]
      BY <1>1, <1>2, <1>8, <1>9 DEF Partition
    <3> QED BY <2>1, <3>1, <1>10
  <2>2. CASE Ingroup'[s] # Numgroups
    <3>1. s # next' /\ t # next'
      BY <2>2, <1>5
    <3> QED BY <3>1, <1>5, <1>8, Facts DEF Alikes
  <2> QED BY <2>1, <2>2
<1>12. Progress' /\ SameLanguage'
  BY <1>1, <1>2, Facts DEF Progress, SameLanguage
<1>13. Splitting'
  BY <1>1, <1>3, <1>4, <1>6, <1>10, Facts DEF Splitting
<1>14. Settled'
  <2>1. ~Unsplit'
    BY <1>1, <1>4 DEF Unsplit
  <2> QED BY <1>1, <2>1 DEF Settled
<1> QED BY <1>2, <1>7, <1>9, <1>11, <1>12, <1>13, <1>14 DEF IInv

LEMMA CloseGroupKeeps == ASSUME IInv, CloseGroup PROVE IInv'
<1>1. /\ UNCHANGED <<dtran, accept, Groups, Ingroup, i, old_numgroups, first, next, newdtran,
                      newaccept>>
      /\ pc = "split" /\ pc' = "group" /\ Rest = {} /\ current' = current + 1
      /\ Numgroups' = IF Groups[Numgroups] = {} THEN Numgroups ELSE Numgroups + 1
  BY DEF CloseGroup, result
<1>2. /\ Machine' /\ States' = States /\ nstates' = nstates /\ Alikes'
      /\ \A s, t : Agree(s, t)' <=> Agree(s, t)
  BY <1>1, GroupsStay
<1>3. /\ current < Numgroups /\ Numgroups < nstates /\ current \in States
      /\ Numgroups \in States /\ i = nstates
  BY <1>1, Facts DEF Splitting, TypeOK, Progress
<1>4. Numgroups' \in 0..nstates /\ current' \in 0..nstates /\ current' <= Numgroups'
  BY <1>1, <1>3, Facts
<1>5. TypeOK'
  BY <1>1, <1>2, <1>4, Facts DEF TypeOK
<1>6. Partition'
  <2>1. \A s \in States : Ingroup[s] < Numgroups'
    <3> SUFFICES ASSUME NEW s \in States PROVE Ingroup[s] < Numgroups'
      OBVIOUS
    <3>1. s \in Groups[Ingroup[s]] /\ (Ingroup[s] < Numgroups \/ Ingroup[s] = Numgroups)
      BY <1>3, Facts DEF Partition, InUse
    <3> QED BY <3>1, <1>1, Facts, SMTT(30)
  <2>2. \A g \in States : g < Numgroups' => InUse(g)
    BY <1>1, Facts DEF InUse
  <2>3. \A g \in 0..Numgroups'-1 : Groups[g] # {}
    <3> SUFFICES ASSUME NEW g \in 0..Numgroups'-1 PROVE Groups[g] # {}
      OBVIOUS
    <3>1. g \in 0..Numgroups-1 \/ (g = Numgroups /\ Groups[Numgroups] # {})
      BY <1>1, Facts
    <3> QED BY <3>1, Facts DEF Partition
  <2> QED BY <1>1, <1>2, <2>1, <2>2, <2>3, Facts DEF Partition, InUse
<1>7. Progress' /\ Splitting' /\ SameLanguage'
  <2>1. old_numgroups <= Numgroups'
    BY <1>1, Facts DEF Progress
  <2> QED BY <1>1, <1>2, <1>4, <2>1, Facts DEF Progress, Splitting, SameLanguage
<1>8. Settled'
  <2> SUFFICES ASSUME old_numgroups = Numgroups', NEW s \in States, NEW t \in States,
                      Ingroup[s] = Ingroup[t], Ingroup[s] < current + 1
               PROVE  Agree(s, t)
    BY <1>1, <1>2 DEF Settled, Unsplit
  <2>1. Groups[Numgroups] = {} /\ Unsplit
    BY <1>1, Facts DEF Unsplit, Progress
  <2>2. CASE Ingroup[s] < current
    BY <2>1, <2>2, Facts DEF Settled
  <2>3. CASE Ingroup[s] = current
    <3>0. s < i /\ t < i
      BY <1>3, Facts
    <3>1. s \in Groups[current] /\ t \in Groups[current]
      BY <2>3, <3>0, Facts DEF Partition
    <3>2. s <= next /\ t <= next
      BY <1>1, <3>1, Facts DEF Rest
    <3>3. Agree(first, s) /\ Agree(first, t)
      BY <1>1, <2>1, <3>1, <3>2, Facts DEF Settled
    <3> QED BY <3>3 DEF Agree
  <2> QED BY <2>2, <2>3, Facts
<1> QED BY <1>2, <1>5, <1>6, <1>7, <1>8 DEF IInv

LEMMA EndPassKeeps == ASSUME IInv, EndPass PROVE IInv'
<1>1. /\ UNCHANGED <<dtran, accept, Groups, Numgroups, Ingroup, i, old_numgroups, current,
                      first, next, newdtran, newaccept>>
      /\ pc = "group" /\ current = Numgroups
      /\ pc' = IF old_numgroups = Numgroups THEN "fix" ELSE "pass"
  BY DEF EndPass, loop, result
<1>2. /\ Machine' /\ States' = States /\ nstates' = nstates /\ Alikes'
      /\ \A s, t : Agree(s, t)' <=> Agree(s, t)
  BY <1>1, GroupsStay
<1>3. TypeOK'
  BY <1>1, <1>2, Facts DEF TypeOK
<1>4. Partition'
  BY <1>1, <1>2, Facts DEF Partition, InUse
<1>5. Progress' /\ Splitting' /\ SameLanguage'
  BY <1>1, <1>2, Facts DEF Progress, Splitting, SameLanguage
<1>6. Settled'
  <2> SUFFICES ASSUME old_numgroups = Numgroups, NEW s \in States, NEW t \in States,
                      Ingroup[s] = Ingroup[t]
               PROVE  Agree(s, t)
    BY <1>1, <1>2 DEF Settled, Unsplit
  <2>1. Ingroup[s] < current
    BY <1>1, Facts DEF Partition, InUse, Progress
  <2> QED BY <1>1, <2>1, Facts DEF Settled, Unsplit
<1> QED BY <1>2, <1>3, <1>4, <1>5, <1>6 DEF IInv

-----------------------------------------------------------------------------
(* fix_dtran() *)

LEMMA FixKeeps == ASSUME IInv, Fix PROVE IInv'
<1>1. /\ UNCHANGED <<dtran, accept, Groups, Numgroups, Ingroup, i, old_numgroups, current,
                      first, next>>
      /\ pc = "fix" /\ pc' = "done"
      /\ newdtran' = [g \in 0..Numgroups-1 |->
                        [ch \in Alphabet |-> Target(Representative(g), ch)]]
      /\ newaccept' = [g \in 0..Numgroups-1 |-> accept[Representative(g)]]
  BY DEF Fix, loop
<1>2. /\ Machine' /\ States' = States /\ nstates' = nstates /\ Alikes'
      /\ \A s, ch : Target(s, ch)' = Target(s, ch)
  BY <1>1, GroupsStay DEF Target
<1>3. TypeOK'
  BY <1>1, <1>2, Facts DEF TypeOK
<1>4. Partition'
  BY <1>1, <1>2, Facts DEF Partition, InUse
<1>5. Progress' /\ Splitting' /\ Settled'
  BY <1>1, <1>2, Facts DEF Progress, Splitting, Settled, Unsplit
<1>6. \A s \in States : s < i
  BY <1>1, Facts DEF Progress
<1>7. ASSUME NEW s \in States
      PROVE  /\ newaccept'[Ingroup[s]].string = accept[s].string
             /\ \A ch \in Alphabet : newdtran'[Ingroup[s]][ch] = Target(s, ch)
  <2> DEFINE g == Ingroup[s]
             r == Representative(g)
  <2>1. g \in 0..Numgroups-1 /\ g \in States /\ InUse(g) /\ s \in Groups[g]
    BY <1>1, <1>6, Facts DEF Partition, InUse
  <2>2. r \in Groups[g] /\ r \in States
    BY <2>1, Facts, MinOfGroup DEF Representative
  <2>3. Ingroup[r] = g
    BY <2>1, <2>2, Facts DEF Partition
  <2>4. accept[r].string = accept[s].string
    BY <1>6, <2>2, <2>3, Facts DEF Alikes
  <2>5. Agree(r, s)
    BY <1>1, <2>2, <2>3, Facts DEF Settled
  <2> HIDE DEF r
  <2>6. newaccept'[g] = accept[r]
    BY <1>1, <2>1 DEF r
  <2>7. newdtran'[g] = [ch \in Alphabet |-> Target(r, ch)]
    BY <1>1, <2>1 DEF r
  <2> QED BY <2>4, <2>5, <2>6, <2>7 DEF Agree
<1>8. SameLanguage'
  <2>1. Ingroup[0] = 0
    BY <1>6, Facts DEF Partition
  <2> QED BY <1>1, <1>2, <1>7, <2>1 DEF SameLanguage
<1> QED BY <1>2, <1>3, <1>4, <1>5, <1>8 DEF IInv

-----------------------------------------------------------------------------
(* Theorems *)

LEMMA InitIInv == Init => IInv
<1> SUFFICES ASSUME Init PROVE IInv
  OBVIOUS
<1>1. Machine
  BY DEF Init, Machine
<1>2. nstates \in Nat \ {0} /\ States = 0..nstates-1 /\ 0 \in States
  BY <1>1, MachineFacts
<1>3. TypeOK
  BY <1>2 DEF Init, TypeOK
<1>4. Partition /\ Alikes /\ Progress /\ Splitting /\ Settled /\ SameLanguage
  BY <1>2 DEF Init, Partition, InUse, Alikes, Progress, Splitting, Settled, Unsplit, SameLanguage
<1> QED BY <1>1, <1>3, <1>4 DEF IInv

LEMMA StepIInv == IInv /\ [Next]_vars => IInv'
<1> SUFFICES ASSUME IInv, [Next]_vars PROVE IInv'
  OBVIOUS
<1>1. CASE JoinGroup
  BY <1>1, JoinGroupKeeps
<1>2. CASE FoundGroup
  BY <1>2, FoundGroupKeeps
<1>3. CASE Classified
  BY <1>3, ClassifiedKeeps
<1>4. CASE BeginPass
  BY <1>4, BeginPassKeeps
<1>5. CASE SkipGroup
  BY <1>5, SkipGroupKeeps
<1>6. CASE OpenGroup
  BY <1>6, OpenGroupKeeps
<1>7. CASE KeepState
  BY <1>7, KeepStateKeeps
<1>8. CASE MoveState
  BY <1>8, MoveStateKeeps
<1>9. CASE CloseGroup
  BY <1>9, CloseGroupKeeps
<1>10. CASE EndPass
  BY <1>10, EndPassKeeps
<1>11. CASE Fix
  BY <1>11, FixKeeps
<1>12. CASE UNCHANGED vars
  <2>1. UNCHANGED <<dtran, accept, Groups, Numgroups, Ingroup, pc, i, old_numgroups, current,
                    first, next, newdtran, newaccept>>
    BY <1>12 DEF vars, loop, result
  <2>2. /\ Machine' /\ States' = States /\ nstates' = nstates /\ Alikes'
        /\ \A s, t : Agree(s, t)' <=> Agree(s, t)
        /\ \A s, ch : Target(s, ch)' = Target(s, ch)
    BY <2>1, GroupsStay DEF Target
  <2>3. TypeOK' /\ Partition'
    BY <2>1, <2>2, Facts DEF TypeOK, Partition, InUse
  <2>4. Progress' /\ Splitting'
    BY <2>1, <2>2, Facts DEF Progress, Splitting
  <2>5. Settled' /\ SameLanguage'
    BY <2>1, <2>2, Facts DEF Settled, Unsplit, SameLanguage
  <2> QED BY <2>2, <2>3, <2>4, <2>5 DEF IInv
<1> QED BY <1>1, <1>2, <1>3, <1>4, <1>5, <1>6, <1>7, <1>8, <1>9, <1>10, <1>11, <1>12 DEF Next

\* The groups, the pass and the group being split stay what the invariant says.
THEOREM MinimizeInvariant == Spec => []IInv
BY InitIInv, StepIInv, PTL DEF Spec

\* No index leaves its table in minimize.c, whatever the machine: there is always room for
\* the group that is being split off.
THEOREM MinimizeTypes == Spec => []TypeOK
<1>1. IInv => TypeOK
  BY DEF IInv
<1> QED BY <1>1, MinimizeInvariant, PTL

\* Groups and Ingroup describe one partition at every step.
THEOREM GroupsPartition == Spec => []OnePartition
<1>1. IInv => OnePartition
  <2> SUFFICES ASSUME IInv PROVE OnePartition
    OBVIOUS
  <2>1. \A s \in States : s < i => s \in Groups[Ingroup[s]]
    BY Facts DEF Partition
  <2>2. ASSUME NEW g \in States, NEW h \in States, g # h, InUse(g), InUse(h)
        PROVE  Groups[g] \intersect Groups[h] = {}
    BY <2>2, Facts DEF Partition
  <2>3. \A g \in States : g <= Numgroups => InUse(g) \/ (g = Numgroups /\ pc # "split")
    BY Facts DEF InUse
  <2>4. \A g \in 0..Numgroups-1 : Groups[g] # {}
    BY Facts DEF Partition
  <2> QED BY <2>1, <2>2, <2>3, <2>4 DEF OnePartition
<1> QED BY <1>1, MinimizeInvariant, PTL

\* The new machine accepts what the old one does and goes where the old one goes.
THEOREM MinimizeKeepsLanguage == Spec => []SameLanguage
<1>1. IInv => SameLanguage
  BY DEF IInv
<1> QED BY <1>1, MinimizeInvariant, PTL

-----------------------------------------------------------------------------
(* What SameLanguage means for whole texts *)

\* The states a machine goes through on a text; F once it has no transition.
Follows(d, text, run) ==
    /\ run[0] = 0
    /\ \A k \in 0..Len(text)-1 :
         run[k+1] = IF run[k] = F THEN F ELSE d[run[k]][text[k+1]]

\* On every text, however long, the two machines stop together and accept the same string
\* after every character.
SameRuns ==
    pc = "done" =>
        \A text \in Seq(Alphabet) :
        \A run, newrun \in [0..Len(text) -> {F} \union States] :
            Follows(dtran, text, run) /\ Follows(newdtran, text, newrun) =>
                \A k \in 0..Len(text) :
                    /\ newrun[k] = F <=> run[k] = F
                    /\ run[k] # F => newaccept[newrun[k]].string = accept[run[k]].string

\* The old machine and the new one do the same on every text (from SameLanguage, by
\* induction on the length read).
THEOREM MinimizeKeepsRuns == Spec => []SameRuns
<1>1. IInv => SameRuns
  <2> SUFFICES ASSUME IInv, pc = "done", NEW text \in Seq(Alphabet),
                      NEW run \in [0..Len(text) -> {F} \union States],
                      NEW newrun \in [0..Len(text) -> {F} \union States],
                      Follows(dtran, text, run), Follows(newdtran, text, newrun)
               PROVE  \A k \in 0..Len(text) :
                        /\ newrun[k] = F <=> run[k] = F
                        /\ run[k] # F => newaccept[newrun[k]].string = accept[run[k]].string
    BY DEF SameRuns
  <2> DEFINE Image(s) == IF s = F THEN F ELSE Ingroup[s]
             P == {k \in Nat : k <= Len(text) => newrun[k] = Image(run[k])}
  <2>1. /\ Ingroup[0] = 0 /\ F \notin States /\ Ingroup \in [States -> States]
        /\ \A s \in States : /\ newaccept[Ingroup[s]].string = accept[s].string
                            /\ \A ch \in Alphabet : newdtran[Ingroup[s]][ch] = Target(s, ch)
        /\ dtran \in [States -> [Alphabet -> {F} \union States]]
    BY Facts, MachineFacts, SMTT(30) DEF SameLanguage, F
  <2>2. 0 \in P
    BY <2>1, Facts DEF Follows, F
  <2>3. ASSUME NEW k \in Nat, k \in P PROVE k + 1 \in P
    <3> SUFFICES ASSUME k + 1 <= Len(text) PROVE newrun[k+1] = Image(run[k+1])
      OBVIOUS
    <3>1. k \in 0..Len(text)-1 /\ k \in 0..Len(text) /\ k + 1 \in 1..Len(text)
      OBVIOUS
    <3>2. newrun[k] = Image(run[k]) /\ text[k+1] \in Alphabet
      BY <2>3, <3>1
    <3>3. CASE run[k] = F
      BY <3>1, <3>2, <3>3 DEF Follows
    <3>4. CASE run[k] # F
      <4>1. run[k] \in States /\ newrun[k] = Ingroup[run[k]] /\ newrun[k] # F
        BY <2>1, <3>1, <3>2, <3>4
      <4>2. newrun[k+1] = Target(run[k], text[k+1])
        BY <2>1, <3>1, <3>2, <4>1 DEF Follows
      <4>3. run[k+1] = dtran[run[k]][text[k+1]]
        BY <3>1, <3>4 DEF Follows
      <4> QED BY <4>2, <4>3 DEF Target
    <3> QED BY <3>3, <3>4
  <2>4. \A k \in Nat : k \in P
    <3> HIDE DEF P
    <3> QED BY <2>2, <2>3, SetInduction
  <2>5. ASSUME NEW k \in 0..Len(text)
        PROVE  /\ newrun[k] = F <=> run[k] = F
               /\ run[k] # F => newaccept[newrun[k]].string = accept[run[k]].string
    <3>1. newrun[k] = Image(run[k])
      BY <2>4
    <3> QED BY <2>1, <3>1
  <2> QED BY <2>5
<1> QED BY <1>1, MinimizeInvariant, PTL

=============================================================================
