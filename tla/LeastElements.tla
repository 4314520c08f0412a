----------------------------- MODULE LeastElements -----------------------------
(***************************************************************************)
(* Facts about sets of natural numbers that the proofs share: minimize.c   *)
(* and dfa.c take the members of a set in ascending order (next_member()   *)
(* of set.c), and their models say Min and Max.                            *)
(*                                                                         *)
(* Induction is stated with a set instead of a predicate: the set of the   *)
(* numbers that have the property.                                         *)
(***************************************************************************)
EXTENDS Integers, FiniteSetsExt, FiniteSetTheorems, TLAPS

IsBelow == {p \in Nat \X Nat : p[1] < p[2]}

LEMMA IsBelowWellFounded == IsWellFoundedOn(IsBelow, Nat)
BY NatLessThanWellFounded DEF OpToRel, IsBelow

\* A set of natural numbers that is not empty has a least member, which is Min.
LEMMA MinNat ==
    ASSUME NEW S \in SUBSET Nat, S # {}
    PROVE  Min(S) \in S /\ \A y \in S : Min(S) <= y
<1>1. PICK x \in S : \A y \in S : ~(<<y, x>> \in IsBelow)
  BY IsBelowWellFounded, WFMin
<1>2. \A y \in S : x <= y
  <2> SUFFICES ASSUME NEW y \in S PROVE x <= y
    OBVIOUS
  <2>1. ~(y < x)
    BY <1>1 DEF IsBelow
  <2> QED BY <2>1
<1> QED BY <1>2 DEF Min

\* A bounded one has a greatest member, which is Max.
LEMMA MaxNat ==
    ASSUME NEW S \in SUBSET Nat, S # {}, NEW n \in Nat, \A s \in S : s <= n
    PROVE  Max(S) \in S /\ \A y \in S : y <= Max(S)
<1> DEFINE R == {k \in Nat : \E s \in S : k = n - s}
<1>1. R # {} /\ R \in SUBSET Nat
  <2>1. PICK s \in S : TRUE
    OBVIOUS
  <2>2. n - s \in R
    OBVIOUS
  <2> QED BY <2>2
<1>2. Min(R) \in R /\ \A y \in R : Min(R) <= y
  <2> HIDE DEF R
  <2> QED BY <1>1, MinNat
<1>3. PICK s \in S : Min(R) = n - s
  BY <1>2
<1>4. \A y \in S : n - y \in R
  OBVIOUS
<1>5. \A y \in S : y <= s
  BY <1>2, <1>3, <1>4
<1> QED BY <1>5 DEF Max

\* Induction, by the least number outside the set.
LEMMA SetInduction ==
    ASSUME NEW P, 0 \in P, \A n \in Nat : n \in P => n + 1 \in P
    PROVE  \A n \in Nat : n \in P
<1> DEFINE Rest == {n \in Nat : n \notin P}
<1> SUFFICES ASSUME Rest # {} PROVE FALSE
  OBVIOUS
<1>1. Min(Rest) \in Rest /\ \A y \in Rest : Min(Rest) <= y
  <2>1. Rest \in SUBSET Nat
    OBVIOUS
  <2> HIDE DEF Rest
  <2> QED BY <2>1, MinNat
<1>2. PICK m \in Rest : \A y \in Rest : m <= y
  BY <1>1
<1>3. m \in Nat /\ m # 0 /\ m \notin P
  OBVIOUS
<1>4. m - 1 \in Nat /\ m - 1 \in P
  BY <1>2, <1>3
<1> QED BY <1>3, <1>4

\* As many numbers as there are below n.
LEMMA CardBelow ==
    ASSUME NEW n \in Nat
    PROVE  IsFiniteSet(0..n-1) /\ Cardinality(0..n-1) = n
BY FS_Interval

-----------------------------------------------------------------------------
(* Recursive functions *)

\* A function on 0..N can be defined by its value at 0 and a step, a function of the
\* place and of the value before it.
Defined(N, V, b, T, f) ==
    f \in [0..N -> V] /\ f[0] = b /\ \A k \in 1..N : f[k] = T[k][f[k-1]]

\* There is such a function.
LEMMA Recursion ==
    ASSUME NEW N \in Nat, NEW V, NEW b \in V, NEW T \in [1..N -> [V -> V]]
    PROVE  \E f : Defined(N, V, b, T, f)
<1> DEFINE Has(n) == \E f : Defined(n, V, b, T, f)
           P == {n \in Nat : n <= N => Has(n)}
<1>1. 0 \in P
  <2>1. Defined(0, V, b, T, [k \in 0..0 |-> b])
    BY DEF Defined
  <2>2. Has(0)
    BY <2>1
  <2> HIDE DEF Has
  <2> QED BY <2>2
<1>2. ASSUME NEW n \in Nat, n \in P PROVE n + 1 \in P
  <2> SUFFICES ASSUME n + 1 <= N PROVE Has(n + 1)
    <3> HIDE DEF Has
    <3> QED OBVIOUS
  <2>0. Has(n)
    <3> HIDE DEF Has
    <3> QED BY <1>2
  <2>1. PICK f : Defined(n, V, b, T, f)
    BY <2>0
  <2> DEFINE e == T[n+1][f[n]]
             g == [k \in 0..n+1 |-> IF k = n + 1 THEN e ELSE f[k]]
  <2>2. f \in [0..n -> V] /\ e \in V
    BY <2>1 DEF Defined
  <2>3. g \in [0..n+1 -> V]
    BY <2>2
  <2>4. g[0] = b
    BY <2>1 DEF Defined
  <2>5. ASSUME NEW k \in 1..n+1 PROVE g[k] = T[k][g[k-1]]
    <3>1. CASE k = n + 1
      <4>1. g[k] = e /\ g[k-1] = f[n]
        BY <3>1
      <4> QED BY <4>1, <3>1
    <3>2. CASE k # n + 1
      BY <3>2, <2>1 DEF Defined
    <3> QED BY <3>1, <3>2
  <2> HIDE DEF g
  <2>6. Defined(n + 1, V, b, T, g)
    BY <2>3, <2>4, <2>5 DEF Defined
  <2> QED BY <2>6
<1>3. N \in P
  <2> HIDE DEF P
  <2> QED BY <1>1, <1>2, SetInduction
<1> HIDE DEF Has
<1>4. Has(N)
  BY <1>3
<1> QED BY <1>4 DEF Has

=============================================================================
