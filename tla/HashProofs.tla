------------------------------ MODULE HashProofs ------------------------------
(***************************************************************************)
(* Proofs about the symbol table, for every hash function, number of       *)
(* chains and finite set of symbols: the chains are linked as lib/hash.c   *)
(* means them to be, and the table keeps the definitions of every name as  *)
(* Definitions promises.                                                   *)
(***************************************************************************)
EXTENDS HashTable, LeastElements, SequenceTheorems

-----------------------------------------------------------------------------
(* Sequences *)

\* What is left of the last k elements of s, as Only has it.
Rests(E, s, S, r) ==
    /\ r \in [0..Len(s) -> Seq(E)]
    /\ r[0] = <<>>
    /\ \A k \in 1..Len(s) :
           r[k] = IF s[Len(s)+1-k] \in S THEN <<s[Len(s)+1-k]>> \o r[k-1] ELSE r[k-1]

\* Only is defined by such rests.
LEMMA OnlyRests ==
    ASSUME NEW E, NEW s \in Seq(E), NEW S
    PROVE  \E r : Rests(E, s, S, r) /\ Only(s, S) = r[Len(s)]
<1> DEFINE N == Len(s)
           G(k, v) == IF s[N+1-k] \in S THEN <<s[N+1-k]>> \o v ELSE v
           V == Seq(E)
           T == [k \in 1..N |-> [v \in V |-> G(k, v)]]
           Fits(f) == f = [k \in 0..N |-> IF k = 0 THEN <<>> ELSE G(k, f[k-1])]
           rest == CHOOSE f : Fits(f)
<1>1. N \in Nat /\ <<>> \in V
  BY LenProperties, EmptySeq
<1>2. ASSUME NEW k \in 1..N, NEW v \in V PROVE G(k, v) \in V
  <2>1. N + 1 - k \in 1..N
    BY <1>1
  <2>2. s[N+1-k] \in E
    BY <2>1, ElementOfSeq
  <2> QED BY <2>2
<1>3. Only(s, S) = rest[N]
  BY DEF Only
<1> HIDE DEF G, V, N
<1>4. T \in [1..N -> [V -> V]]
  BY <1>2
<1>5. PICK f : Defined(N, V, <<>>, T, f)
  <2> HIDE DEF T
  <2> QED BY <1>1, <1>4, Recursion
<1>6. \A k \in 1..N : f[k] = G(k, f[k-1])
  <2> SUFFICES ASSUME NEW k \in 1..N PROVE f[k] = G(k, f[k-1])
    OBVIOUS
  <2>1. f[k] = T[k][f[k-1]] /\ f[k-1] \in V
    BY <1>1, <1>5 DEF Defined
  <2>2. T[k] = [v \in V |-> G(k, v)]
    OBVIOUS
  <2> HIDE DEF T
  <2> QED BY <2>1, <2>2
<1>7. Fits(f)
  <2>1. \A k \in 0..N : f[k] = IF k = 0 THEN <<>> ELSE G(k, f[k-1])
    BY <1>1, <1>5, <1>6 DEF Defined
  <2>2. f = [k \in 0..N |-> f[k]]
    BY <1>5 DEF Defined
  <2> QED BY <2>1, <2>2
<1>8. Fits(rest)
  BY <1>7
<1> HIDE DEF rest
<1>9. rest[0] = <<>> /\ \A k \in 1..N : rest[k] = G(k, rest[k-1])
  BY <1>1, <1>8
<1>10. \A k \in 0..N : rest[k] = f[k]
  <2> DEFINE Q == {k \in Nat : k <= N => rest[k] = f[k]}
  <2>1. 0 \in Q
    BY <1>9, <1>5 DEF Defined
  <2>2. ASSUME NEW k \in Nat, k \in Q PROVE k + 1 \in Q
    <3> SUFFICES ASSUME k + 1 <= N PROVE rest[k+1] = f[k+1]
      OBVIOUS
    <3>1. rest[k] = f[k] /\ k + 1 \in 1..N /\ (k + 1) - 1 = k
      BY <1>1, <2>2
    <3>2. rest[k+1] = G(k + 1, rest[k]) /\ f[k+1] = G(k + 1, f[k])
      BY <3>1, <1>6, <1>9
    <3> QED BY <3>1, <3>2
  <2>3. \A k \in Nat : k \in Q
    <3> HIDE DEF Q
    <3> QED BY <2>1, <2>2, SetInduction
  <2> QED BY <2>3, <1>1
<1>11. rest \in [0..N -> V]
  <2>1. rest = [k \in 0..N |-> rest[k]]
    BY <1>8
  <2> QED BY <2>1, <1>10, <1>5 DEF Defined
<1> QED BY <1>3, <1>9, <1>11 DEF Rests, G, V, N

\* An element in front of a sequence, and a sequence without its element at k.
LEMMA InFront ==
    ASSUME NEW E, NEW s \in Seq(E), NEW p \in E
    PROVE  /\ <<p>> \o s \in Seq(E)
           /\ Len(<<p>> \o s) = Len(s) + 1
           /\ (<<p>> \o s)[1] = p
           /\ \A j \in 1..Len(s) : (<<p>> \o s)[j+1] = s[j]
<1>1. <<p>> \in Seq(E) /\ Len(<<p>>) = 1 /\ <<p>>[1] = p
  OBVIOUS
<1>2. Len(s) \in Nat
  BY LenProperties
<1> QED BY <1>1, <1>2, ConcatProperties

\* A sequence without its element at k.
LEMMA Without ==
    ASSUME NEW E, NEW s \in Seq(E), NEW k \in 1..Len(s)
    PROVE  /\ RemoveAt(s, k) \in Seq(E)
           /\ Len(RemoveAt(s, k)) = Len(s) - 1
           /\ \A j \in 1..Len(s)-1 : RemoveAt(s, k)[j] = IF j < k THEN s[j] ELSE s[j+1]
<1> DEFINE a == SubSeq(s, 1, k - 1)
           b == SubSeq(s, k + 1, Len(s))
<1>1. Len(s) \in Nat /\ \A j \in 1..Len(s) : s[j] \in E
  BY LenProperties, ElementOfSeq
<1>2. a \in Seq(E) /\ Len(a) = k - 1 /\ \A j \in 1..k-1 : a[j] = s[j]
  <2>1. \A j \in 1..k-1 : s[j] \in E
    BY <1>1
  <2> QED BY <1>1, <2>1, SubSeqProperties
<1>3. b \in Seq(E) /\ Len(b) = Len(s) - k /\ \A j \in 1..Len(s)-k : b[j] = s[k+j]
  <2>1. \A j \in k+1..Len(s) : s[j] \in E
    BY <1>1
  <2>2. /\ b \in Seq(E)
        /\ Len(b) = IF k + 1 <= Len(s) THEN Len(s) - (k + 1) + 1 ELSE 0
        /\ \A j \in 1..Len(s)-(k+1)+1 : b[j] = s[k + 1 + j - 1]
    BY <1>1, <2>1, SubSeqProperties
  <2> HIDE DEF b
  <2> QED BY <1>1, <2>2
<1>4. RemoveAt(s, k) = a \o b
  BY DEF RemoveAt
<1> HIDE DEF a, b
<1>5. /\ a \o b \in Seq(E) /\ Len(a \o b) = Len(a) + Len(b)
      /\ \A j \in 1..Len(a)+Len(b) : (a \o b)[j] = IF j <= Len(a) THEN a[j] ELSE b[j-Len(a)]
  BY <1>2, <1>3, ConcatProperties
<1> DEFINE d == a \o b
<1> HIDE DEF d
<1>6. \A j \in 1..Len(s)-1 : d[j] = IF j < k THEN s[j] ELSE s[j+1]
  <2> SUFFICES ASSUME NEW j \in 1..Len(s)-1 PROVE d[j] = IF j < k THEN s[j] ELSE s[j+1]
    OBVIOUS
  <2>1. d[j] = IF j <= Len(a) THEN a[j] ELSE b[j-Len(a)]
    BY <1>1, <1>2, <1>3, <1>5 DEF d
  <2>2. CASE j < k
    BY <2>1, <2>2, <1>1, <1>2
  <2>3. CASE j >= k
    <3>1. j - (k - 1) \in 1..Len(s)-k /\ k + (j - (k - 1)) = j + 1
      BY <2>3, <1>1
    <3>2. d[j] = b[j - (k - 1)]
      BY <2>1, <2>3, <1>1, <1>2
    <3>3. b[j - (k - 1)] = s[k + (j - (k - 1))]
      BY <3>1, <1>3
    <3> QED BY <2>3, <3>1, <3>2, <3>3
  <2> QED BY <2>2, <2>3
<1> QED BY <1>1, <1>2, <1>3, <1>4, <1>5, <1>6 DEF d

\* Adding an element in front.
LEMMA OnlyInFront ==
    ASSUME NEW E, NEW s \in Seq(E), NEW p \in E, NEW S
    PROVE  Only(<<p>> \o s, S) = IF p \in S THEN <<p>> \o Only(s, S) ELSE Only(s, S)
<1> DEFINE t == <<p>> \o s
           N == Len(s)
<1>1. /\ N \in Nat /\ t \in Seq(E) /\ Len(t) = N + 1 /\ t[1] = p
      /\ \A j \in 1..N : t[j+1] = s[j]
  BY InFront, LenProperties
<1>2. PICK r : Rests(E, s, S, r) /\ Only(s, S) = r[N]
  BY OnlyRests
<1> HIDE DEF t
<1>3. PICK q : Rests(E, t, S, q) /\ Only(t, S) = q[N+1]
  BY <1>1, OnlyRests
<1> DEFINE Q == {k \in Nat : k <= N => q[k] = r[k]}
<1>4. 0 \in Q
  BY <1>2, <1>3 DEF Rests
<1>5. ASSUME NEW k \in Nat, k \in Q PROVE k + 1 \in Q
  <2> SUFFICES ASSUME k + 1 <= N PROVE q[k+1] = r[k+1]
    OBVIOUS
  <2>1. k + 1 \in 1..N /\ k + 1 \in 1..Len(t) /\ q[(k+1)-1] = r[(k+1)-1]
    BY <1>1, <1>5
  <2>2. t[Len(t)+1-(k+1)] = s[Len(s)+1-(k+1)]
    <3>1. N - k \in 1..N /\ Len(t)+1-(k+1) = (N - k) + 1 /\ Len(s)+1-(k+1) = N - k
      BY <1>1
    <3> QED BY <3>1, <1>1
  <2> QED BY <2>1, <2>2, <1>2, <1>3 DEF Rests
<1>6. \A k \in Nat : k \in Q
  <2> HIDE DEF Q
  <2> QED BY <1>4, <1>5, SetInduction
<1>7. q[N] = r[N]
  BY <1>1, <1>6
<1>8. q[N+1] = IF t[1] \in S THEN <<t[1]>> \o q[N] ELSE q[N]
  <2>1. N + 1 \in 1..Len(t) /\ Len(t)+1-(N+1) = 1 /\ (N+1)-1 = N
    BY <1>1
  <2> QED BY <2>1, <1>3 DEF Rests
<1> QED BY <1>1, <1>2, <1>3, <1>7, <1>8 DEF t

\* Only depends on which of the elements are in the set.
LEMMA OnlySame ==
    ASSUME NEW E, NEW s \in Seq(E), NEW S, NEW R,
           \A j \in 1..Len(s) : s[j] \in S <=> s[j] \in R
    PROVE  Only(s, S) = Only(s, R)
<1> DEFINE N == Len(s)
<1>1. N \in Nat
  BY LenProperties
<1>2. PICK r : Rests(E, s, S, r) /\ Only(s, S) = r[N]
  BY OnlyRests
<1>3. PICK q : Rests(E, s, R, q) /\ Only(s, R) = q[N]
  BY OnlyRests
<1> DEFINE Q == {k \in Nat : k <= N => q[k] = r[k]}
<1>4. 0 \in Q
  BY <1>2, <1>3 DEF Rests
<1>5. ASSUME NEW k \in Nat, k \in Q PROVE k + 1 \in Q
  <2> SUFFICES ASSUME k + 1 <= N PROVE q[k+1] = r[k+1]
    OBVIOUS
  <2>1. k + 1 \in 1..N /\ q[(k+1)-1] = r[(k+1)-1] /\ N+1-(k+1) \in 1..N
    BY <1>1, <1>5
  <2>2. s[N+1-(k+1)] \in S <=> s[N+1-(k+1)] \in R
    BY <2>1
  <2>3. /\ r[k+1] = IF s[N+1-(k+1)] \in S THEN <<s[N+1-(k+1)]>> \o r[(k+1)-1] ELSE r[(k+1)-1]
        /\ q[k+1] = IF s[N+1-(k+1)] \in R THEN <<s[N+1-(k+1)]>> \o q[(k+1)-1] ELSE q[(k+1)-1]
    BY <2>1, <1>2, <1>3, Zenon DEF Rests
  <2> QED BY <2>1, <2>2, <2>3
<1>6. \A k \in Nat : k \in Q
  <2> HIDE DEF Q
  <2> QED BY <1>4, <1>5, SetInduction
<1> QED BY <1>1, <1>2, <1>3, <1>6

\* Taking the element at k out of s takes it out of Only, where it is in the set.
LEMMA OnlyWithout ==
    ASSUME NEW E, NEW s \in Seq(E), NEW k \in 1..Len(s), NEW S
    PROVE  IF s[k] \in S
           THEN \E m \in 1..Len(Only(s, S)) :
                    Only(s, S)[m] = s[k] /\ Only(RemoveAt(s, k), S) = RemoveAt(Only(s, S), m)
           ELSE Only(RemoveAt(s, k), S) = Only(s, S)
<1> DEFINE t == RemoveAt(s, k)
           N == Len(s)
<1>1. /\ N \in Nat /\ t \in Seq(E) /\ Len(t) = N - 1
      /\ \A j \in 1..N-1 : t[j] = IF j < k THEN s[j] ELSE s[j+1]
      /\ \A j \in 1..N : s[j] \in E
  BY Without, LenProperties, ElementOfSeq
<1> HIDE DEF t
<1>2. PICK r : Rests(E, s, S, r) /\ Only(s, S) = r[N]
  BY OnlyRests
<1>3. PICK q : Rests(E, t, S, q) /\ Only(t, S) = q[N-1]
  BY <1>1, OnlyRests
<1>4. /\ q[0] = <<>> /\ r[0] = <<>>
      /\ \A i \in 0..N : r[i] \in Seq(E)
      /\ \A i \in 0..N-1 : q[i] \in Seq(E)
  BY <1>1, <1>2, <1>3 DEF Rests
<1>5. ASSUME NEW i \in Nat, i < N
      PROVE  /\ s[N-i] \in E
             /\ r[i+1] = IF s[N-i] \in S THEN <<s[N-i]>> \o r[i] ELSE r[i]
  <2>1. i + 1 \in 1..Len(s) /\ Len(s)+1-(i+1) = N - i /\ (i+1)-1 = i /\ N - i \in 1..N
    BY <1>1, <1>5
  <2> QED BY <2>1, <1>1, <1>2 DEF Rests
<1>6. ASSUME NEW i \in Nat, i < N - 1
      PROVE  q[i+1] = IF t[N-1-i] \in S THEN <<t[N-1-i]>> \o q[i] ELSE q[i]
  <2>1. Len(t) = N - 1 /\ i \in Nat /\ i < N - 1 /\ N \in Nat
    BY <1>1, <1>6
  <2>2. i + 1 \in 1..Len(t) /\ Len(t)+1-(i+1) = N - 1 - i /\ (i+1)-1 = i
    <3> HIDE DEF N
    <3> QED BY <2>1
  <2> QED BY <2>2, <1>3 DEF Rests
<1>7. \A i \in 0..N-k : q[i] = r[i]
  <2> DEFINE Q == {i \in Nat : i <= N - k => q[i] = r[i]}
  <2>1. 0 \in Q
    BY <1>4
  <2>2. ASSUME NEW i \in Nat, i \in Q PROVE i + 1 \in Q
    <3> SUFFICES ASSUME i + 1 <= N - k PROVE q[i+1] = r[i+1]
      OBVIOUS
    <3>1. q[i] = r[i] /\ i < N - 1 /\ i < N
      BY <1>1, <2>2
    <3>2. t[N-1-i] = s[N-i]
      <4>1. N - 1 - i \in 1..N-1 /\ ~(N - 1 - i < k) /\ (N - 1 - i) + 1 = N - i
        BY <1>1
      <4> QED BY <4>1, <1>1
    <3> QED BY <3>1, <3>2, <1>5, <1>6
  <2>3. \A i \in Nat : i \in Q
    <3> HIDE DEF Q
    <3> QED BY <2>1, <2>2, SetInduction
  <2> QED BY <2>3, <1>1
<1>8. ASSUME NEW i \in Nat, N - k <= i, i + 1 <= N - 1
      PROVE  /\ i < N - 1 /\ i + 1 < N /\ t[N-1-i] = s[N-(i+1)]
  <2>1. N - 1 - i \in 1..N-1 /\ N - 1 - i < k /\ N - 1 - i = N - (i + 1)
    BY <1>1, <1>8
  <2> QED BY <2>1, <1>1, <1>8
<1>9. N - k \in Nat /\ N - k < N /\ N - (N - k) = k /\ N - 1 \in Nat /\ N - k <= N - 1
  BY <1>1
<1>10. CASE s[k] \in S
  <2> DEFINE Out(i) == \E m \in 1..Len(r[i+1]) : r[i+1][m] = s[k] /\ q[i] = RemoveAt(r[i+1], m)
             Q == {i \in Nat : N - k <= i /\ i <= N - 1 => Out(i)}
  <2>1. Out(N - k)
    <3>0. r[(N-k)+1] = IF s[N-(N-k)] \in S THEN <<s[N-(N-k)]>> \o r[N-k] ELSE r[N-k]
      BY <1>5, <1>9
    <3>1. r[N-k] \in Seq(E) /\ r[(N-k)+1] = <<s[k]>> \o r[N-k] /\ q[N-k] = r[N-k] /\ s[k] \in E
      BY <3>0, <1>1, <1>4, <1>7, <1>9, <1>10, SMTT(30)
    <3> DEFINE v == r[N-k]
               w == <<s[k]>> \o v
    <3> HIDE DEF v
    <3>2. v \in Seq(E) /\ r[(N-k)+1] = w /\ q[N-k] = v
      BY <3>1 DEF v
    <3>3. /\ w \in Seq(E) /\ Len(w) = Len(v) + 1 /\ w[1] = s[k] /\ Len(v) \in Nat
          /\ \A j \in 1..Len(v) : w[j+1] = v[j]
      BY <3>1, <3>2, InFront, LenProperties
    <3> HIDE DEF w
    <3>4. RemoveAt(w, 1) = v
      <4>1. /\ RemoveAt(w, 1) \in Seq(E) /\ Len(RemoveAt(w, 1)) = Len(v)
            /\ \A j \in 1..Len(v) : RemoveAt(w, 1)[j] = w[j+1]
        <5>1. 1 \in 1..Len(w)
          BY <3>3
        <5>2. /\ RemoveAt(w, 1) \in Seq(E) /\ Len(RemoveAt(w, 1)) = Len(w) - 1
              /\ \A j \in 1..Len(w)-1 : RemoveAt(w, 1)[j] = IF j < 1 THEN w[j] ELSE w[j+1]
          BY <5>1, <3>3, Without
        <5> QED BY <5>2, <3>3
      <4> QED BY <4>1, <3>2, <3>3, SeqEqual
    <3>5. 1 \in 1..Len(w)
      BY <3>3
    <3> QED BY <3>2, <3>3, <3>4, <3>5
  <2>2. ASSUME NEW i \in Nat, i \in Q PROVE i + 1 \in Q
    <3> SUFFICES ASSUME N - k <= i + 1, i + 1 <= N - 1 PROVE Out(i + 1)
      <4> HIDE DEF Out
      <4> QED OBVIOUS
    <3>1. CASE i + 1 = N - k
      BY <3>1, <2>1
    <3>2. CASE i + 1 # N - k
      <4>1. N - k <= i
        BY <3>2, <1>9
      <4>2. Out(i)
        <5> HIDE DEF Out
        <5> QED BY <4>1, <2>2, <1>9
      <4>3. PICK m \in 1..Len(r[i+1]) : r[i+1][m] = s[k] /\ q[i] = RemoveAt(r[i+1], m)
        BY <4>2
      <4> DEFINE e == s[N-(i+1)]
                 v == r[i+1]
                 w == <<e>> \o v
      <4>4. /\ e \in E /\ v \in Seq(E)
            /\ r[(i+1)+1] = IF e \in S THEN w ELSE v
            /\ q[i+1] = IF e \in S THEN <<e>> \o q[i] ELSE q[i]
        <5>1. i < N - 1 /\ i + 1 < N /\ t[N-1-i] = e /\ i + 1 \in Nat /\ i + 1 \in 0..N
          BY <4>1, <1>1, <1>8, SMTT(30)
        <5>2. /\ s[N-(i+1)] \in E
              /\ r[(i+1)+1] = IF s[N-(i+1)] \in S THEN <<s[N-(i+1)]>> \o r[i+1] ELSE r[i+1]
          BY <5>1, <1>5
        <5>3. q[i+1] = IF t[N-1-i] \in S THEN <<t[N-1-i]>> \o q[i] ELSE q[i]
          BY <5>1, <1>6
        <5>4. v \in Seq(E)
          BY <5>1, <1>4
        <5> QED BY <5>1, <5>2, <5>3, <5>4
      <4> HIDE DEF e, v
      <4>5. CASE e \notin S
        BY <4>3, <4>4, <4>5 DEF v
      <4>6. CASE e \in S
        <5>1. /\ w \in Seq(E) /\ Len(w) = Len(v) + 1 /\ Len(v) \in Nat
              /\ w[1] = e /\ \A j \in 1..Len(v) : w[j+1] = v[j]
          BY <4>4, InFront, LenProperties
        <5> HIDE DEF w
        <5>2. m \in 1..Len(v) /\ v[m] = s[k] /\ q[i] = RemoveAt(v, m)
          BY <4>3 DEF v
        <5>3. m + 1 \in 1..Len(w) /\ w[m+1] = s[k]
          BY <5>1, <5>2
        <5>4. RemoveAt(w, m + 1) = <<e>> \o RemoveAt(v, m)
          <6> DEFINE a == RemoveAt(w, m + 1)
                     b == RemoveAt(v, m)
                     c == <<e>> \o b
          <6>1. /\ a \in Seq(E) /\ Len(a) = Len(v)
                /\ \A j \in 1..Len(v) : a[j] = IF j < m + 1 THEN w[j] ELSE w[j+1]
            <7>1. /\ a \in Seq(E) /\ Len(a) = Len(w) - 1
                  /\ \A j \in 1..Len(w)-1 : a[j] = IF j < m + 1 THEN w[j] ELSE w[j+1]
              BY <5>1, <5>3, Without
            <7> HIDE DEF a
            <7> QED BY <7>1, <5>1
          <6>2. /\ b \in Seq(E) /\ Len(b) = Len(v) - 1
                /\ \A j \in 1..Len(v)-1 : b[j] = IF j < m THEN v[j] ELSE v[j+1]
            BY <4>4, <5>2, Without
          <6> HIDE DEF a, b
          <6>3. /\ c \in Seq(E) /\ Len(c) = Len(v) /\ c[1] = e
                /\ \A j \in 1..Len(v)-1 : c[j+1] = b[j]
            <7>1. /\ c \in Seq(E) /\ Len(c) = Len(b) + 1 /\ c[1] = e
                  /\ \A j \in 1..Len(b) : c[j+1] = b[j]
              BY <4>4, <6>2, InFront
            <7> HIDE DEF c
            <7> QED BY <7>1, <6>2, <5>1
          <6> HIDE DEF c
          <6>4. ASSUME NEW j \in 1..Len(v) PROVE a[j] = c[j]
            <7>1. CASE j = 1
              BY <7>1, <6>1, <6>3, <5>1, <5>2
            <7>2. CASE j # 1
              <8>1. j - 1 \in 1..Len(v)-1 /\ (j - 1) + 1 = j
                BY <7>2, <5>1
              <8>2. c[j] = IF j - 1 < m THEN v[j-1] ELSE v[j]
                BY <8>1, <6>2, <6>3
              <8>3. w[j] = v[j-1] /\ w[j+1] = v[j]
                BY <8>1, <5>1, SMTT(30)
              <8>4. j - 1 < m <=> j < m + 1
                BY <5>1, <5>2
              <8> QED BY <8>2, <8>3, <8>4, <6>1
            <7> QED BY <7>1, <7>2
          <6>5. a = c
            BY <6>1, <6>3, <6>4, SeqEqual
          <6> QED BY <6>5 DEF a, b, c
        <5>5. r[(i+1)+1] = w /\ q[i+1] = RemoveAt(w, m + 1)
          BY <4>4, <4>6, <5>2, <5>4
        <5> QED BY <5>3, <5>5
      <4> QED BY <4>5, <4>6
    <3> QED BY <3>1, <3>2
  <2>3. 0 \in Q
    <3>1. N - k <= 0 /\ 0 <= N - 1 => N - k = 0
      BY <1>9
    <3> HIDE DEF Out
    <3> QED BY <2>1, <3>1
  <2>4. \A i \in Nat : i \in Q
    <3> HIDE DEF Q
    <3> QED BY <2>2, <2>3, SetInduction
  <2>5. Out(N - 1)
    <3> HIDE DEF Out
    <3> QED BY <2>4, <1>9
  <2>6. (N - 1) + 1 = N
    BY <1>1
  <2> QED BY <2>5, <2>6, <1>2, <1>3, <1>10 DEF t
<1>11. CASE s[k] \notin S
  <2> DEFINE Q == {i \in Nat : N - k <= i /\ i <= N - 1 => q[i] = r[i+1]}
  <2>1. q[N-k] = r[(N-k)+1]
    <3>1. r[(N-k)+1] = IF s[N-(N-k)] \in S THEN <<s[N-(N-k)]>> \o r[N-k] ELSE r[N-k]
      BY <1>5, <1>9
    <3> QED BY <3>1, <1>1, <1>7, <1>9, <1>11
  <2>2. ASSUME NEW i \in Nat, i \in Q PROVE i + 1 \in Q
    <3> SUFFICES ASSUME N - k <= i + 1, i + 1 <= N - 1 PROVE q[i+1] = r[(i+1)+1]
      OBVIOUS
    <3>1. CASE i + 1 = N - k
      BY <3>1, <2>1
    <3>2. CASE i + 1 # N - k
      <4>1. N - k <= i /\ q[i] = r[i+1]
        BY <3>2, <1>9, <2>2
      <4>2. i < N - 1 /\ i + 1 < N /\ t[N-1-i] = s[N-(i+1)] /\ i + 1 \in Nat
        BY <4>1, <1>8
      <4>3. r[(i+1)+1] = IF s[N-(i+1)] \in S THEN <<s[N-(i+1)]>> \o r[i+1] ELSE r[i+1]
        BY <4>2, <1>5
      <4>4. q[i+1] = IF t[N-1-i] \in S THEN <<t[N-1-i]>> \o q[i] ELSE q[i]
        BY <4>2, <1>6
      <4> QED BY <4>1, <4>2, <4>3, <4>4
    <3> QED BY <3>1, <3>2
  <2>3. 0 \in Q
    <3>1. N - k <= 0 /\ 0 <= N - 1 => N - k = 0
      BY <1>9
    <3> QED BY <2>1, <3>1
  <2>4. \A i \in Nat : i \in Q
    <3> HIDE DEF Q
    <3> QED BY <2>2, <2>3, SetInduction
  <2>5. q[N-1] = r[(N-1)+1] /\ (N - 1) + 1 = N
    BY <2>4, <1>1, <1>9
  <2> QED BY <2>5, <1>2, <1>3, <1>11 DEF t
<1> QED BY <1>10, <1>11

\* A sequence from its element at j on.
From(s, j) == SubSeq(s, j, Len(s))

\* What is at its places.
LEMMA FromFacts ==
    ASSUME NEW E, NEW s \in Seq(E), NEW j \in 1..Len(s)+1
    PROVE  /\ From(s, j) \in Seq(E)
           /\ Len(From(s, j)) = Len(s) + 1 - j
           /\ \A i \in 1..Len(s)+1-j : From(s, j)[i] = s[j+i-1]
<1>1. Len(s) \in Nat /\ \A i \in j..Len(s) : s[i] \in E
  BY LenProperties, ElementOfSeq
<1>2. /\ SubSeq(s, j, Len(s)) \in Seq(E)
      /\ Len(SubSeq(s, j, Len(s))) = IF j <= Len(s) THEN Len(s) - j + 1 ELSE 0
      /\ \A i \in 1..Len(s)-j+1 : SubSeq(s, j, Len(s))[i] = s[j+i-1]
  BY <1>1, SubSeqProperties
<1> DEFINE d == SubSeq(s, j, Len(s))
<1> HIDE DEF d
<1>3. Len(d) = Len(s) + 1 - j /\ \A i \in 1..Len(s)+1-j : d[i] = s[j+i-1]
  BY <1>1, <1>2 DEF d
<1> QED BY <1>2, <1>3 DEF From, d

\* What follows an element of <<p>> \o u in it follows it in u.
LEMMA FromInFront ==
    ASSUME NEW E, NEW u \in Seq(E), NEW p \in E, NEW j \in 1..Len(u)+1
    PROVE  From(<<p>> \o u, j + 1) = From(u, j)
<1> DEFINE s == <<p>> \o u
           a == From(s, j + 1)
           b == From(u, j)
<1>1. /\ Len(u) \in Nat /\ s \in Seq(E) /\ Len(s) = Len(u) + 1
      /\ \A i \in 1..Len(u) : s[i+1] = u[i]
  BY InFront, LenProperties
<1> HIDE DEF s
<1>2. /\ a \in Seq(E) /\ Len(a) = Len(u) + 1 - j
      /\ \A i \in 1..Len(u)+1-j : a[i] = s[(j+1)+i-1]
  <2>1. j + 1 \in 1..Len(s)+1 /\ Len(s) + 1 - (j + 1) = Len(u) + 1 - j
    BY <1>1
  <2>2. /\ a \in Seq(E) /\ Len(a) = Len(s) + 1 - (j + 1)
        /\ \A i \in 1..Len(s)+1-(j+1) : a[i] = s[(j+1)+i-1]
    BY <2>1, <1>1, FromFacts
  <2> HIDE DEF a
  <2> QED BY <2>1, <2>2
<1>3. /\ b \in Seq(E) /\ Len(b) = Len(u) + 1 - j
      /\ \A i \in 1..Len(u)+1-j : b[i] = u[j+i-1]
  BY FromFacts
<1> HIDE DEF a, b
<1>4. ASSUME NEW i \in 1..Len(u)+1-j PROVE a[i] = b[i]
  <2>1. j + i - 1 \in 1..Len(u) /\ (j+1)+i-1 = (j+i-1) + 1
    BY <1>1
  <2> QED BY <2>1, <1>1, <1>2, <1>3
<1>5. a = b
  BY <1>2, <1>3, <1>4, SeqEqual
<1> QED BY <1>5 DEF a, b, s

\* A sequence is empty or has a first element and a rest.
LEMMA FirstAndRest ==
    ASSUME NEW E, NEW s \in Seq(E), Len(s) # 0
    PROVE  \E p \in E, u \in Seq(E) : s = <<p>> \o u /\ Len(s) = Len(u) + 1
<1> DEFINE u == From(s, 2)
           d == <<s[1]>> \o u
<1>1. Len(s) \in Nat /\ 1 \in 1..Len(s) /\ 2 \in 1..Len(s)+1 /\ s[1] \in E
  BY LenProperties, ElementOfSeq
<1>2. u \in Seq(E) /\ Len(u) = Len(s) - 1 /\ \A i \in 1..Len(s)-1 : u[i] = s[i+1]
  <2>1. /\ u \in Seq(E) /\ Len(u) = Len(s) + 1 - 2
        /\ \A i \in 1..Len(s)+1-2 : u[i] = s[2+i-1]
    BY <1>1, FromFacts
  <2> HIDE DEF u
  <2> QED BY <2>1, <1>1
<1> HIDE DEF u
<1>3. /\ d \in Seq(E) /\ Len(d) = Len(u) + 1 /\ d[1] = s[1]
      /\ \A i \in 1..Len(u) : d[i+1] = u[i]
  BY <1>1, <1>2, InFront
<1> HIDE DEF d
<1>4. ASSUME NEW i \in 1..Len(s) PROVE s[i] = d[i]
  <2>1. CASE i = 1
    BY <2>1, <1>3
  <2>2. CASE i # 1
    <3>1. i - 1 \in 1..Len(s)-1 /\ (i - 1) + 1 = i
      BY <2>2, <1>1
    <3> QED BY <3>1, <1>2, <1>3
  <2> QED BY <2>1, <2>2
<1>5. s = d /\ Len(s) = Len(u) + 1
  BY <1>1, <1>2, <1>3, <1>4, SeqEqual
<1> QED BY <1>1, <1>2, <1>5 DEF d

\* Nothing is selected from nothing.
LEMMA OnlyOfEmpty ==
    ASSUME NEW E, NEW s \in Seq(E), Len(s) = 0, NEW S
    PROVE  Only(s, S) = <<>>
<1>1. PICK r : Rests(E, s, S, r) /\ Only(s, S) = r[Len(s)]
  BY OnlyRests
<1> QED BY <1>1 DEF Rests

\* Only selects elements of s.
LEMMA OnlyType ==
    ASSUME NEW E, NEW s \in Seq(E), NEW S
    PROVE  Only(s, S) \in Seq(E)
<1>1. PICK r : Rests(E, s, S, r) /\ Only(s, S) = r[Len(s)]
  BY OnlyRests
<1>2. Len(s) \in Nat
  BY LenProperties
<1> QED BY <1>1, <1>2 DEF Rests

\* The first element of s that is in S.
First(s, S) ==
    LET found == {k \in 1..Len(s) : s[k] \in S}
    IN  IF found = {} THEN NULL ELSE s[Min(found)]

\* The first element that Only selects is the one that a search from the front finds.
LEMMA OnlyFirst ==
    ASSUME NEW E, NEW S
    PROVE  \A s \in Seq(E) : First(s, S) = IF Len(Only(s, S)) = 0 THEN NULL ELSE Only(s, S)[1]
<1> DEFINE Holds(s) == First(s, S) = IF Len(Only(s, S)) = 0 THEN NULL ELSE Only(s, S)[1]
           P == {n \in Nat : \A s \in Seq(E) : Len(s) = n => Holds(s)}
<1>1. 0 \in P
  <2> SUFFICES ASSUME NEW s \in Seq(E), Len(s) = 0 PROVE Holds(s)
    <3> HIDE DEF Holds
    <3> QED OBVIOUS
  <2>1. Only(s, S) = <<>>
    BY OnlyOfEmpty
  <2>2. {k \in 1..Len(s) : s[k] \in S} = {}
    OBVIOUS
  <2> QED BY <2>1, <2>2 DEF First
<1>2. ASSUME NEW n \in Nat, n \in P PROVE n + 1 \in P
  <2> SUFFICES ASSUME NEW s \in Seq(E), Len(s) = n + 1 PROVE Holds(s)
    <3> HIDE DEF Holds
    <3> QED OBVIOUS
  <2>0. Len(s) # 0
    OBVIOUS
  <2>1. PICK p \in E, u \in Seq(E) : s = <<p>> \o u /\ Len(s) = Len(u) + 1
    BY <2>0, FirstAndRest, Zenon
  <2>2. Len(u) = n /\ Len(u) \in Nat
    BY <2>1, LenProperties
  <2>3. Holds(u)
    <3> HIDE DEF Holds
    <3> QED BY <2>2, <1>2
  <2>4. s[1] = p /\ \A j \in 1..Len(u) : s[j+1] = u[j]
    BY <2>1, InFront
  <2> DEFINE f == {k \in 1..Len(s) : s[k] \in S}
             g == {k \in 1..Len(u) : u[k] \in S}
  <2>5. f \in SUBSET Nat /\ g \in SUBSET Nat
    OBVIOUS
  <2>6. CASE p \in S
    <3>1. 1 \in f /\ \A k \in f : 1 <= k
      BY <2>1, <2>2, <2>4, <2>6
    <3>2. Min(f) = 1
      <4> HIDE DEF f
      <4>1. Min(f) \in f /\ \A y \in f : Min(f) <= y
        BY <3>1, <2>5, MinNat
      <4>2. Min(f) \in Nat /\ 1 <= Min(f) /\ Min(f) <= 1
        BY <4>1, <3>1, <2>5
      <4> QED BY <4>2
    <3>3. First(s, S) = p
      BY <3>1, <3>2, <2>4 DEF First
    <3>4. Only(s, S) = <<p>> \o Only(u, S)
      <4>1. Only(s, S) = IF p \in S THEN <<p>> \o Only(u, S) ELSE Only(u, S)
        BY <2>1, OnlyInFront, Zenon
      <4> QED BY <4>1, <2>6
    <3>5. Len(Only(s, S)) = Len(Only(u, S)) + 1 /\ Only(s, S)[1] = p /\ Len(Only(u, S)) \in Nat
      BY <3>4, OnlyType, InFront, LenProperties
    <3> QED BY <3>3, <3>5
  <2>7. CASE p \notin S
    <3>1. Only(s, S) = Only(u, S)
      BY <2>1, <2>7, OnlyInFront
    <3>2. \A k \in f : k - 1 \in g
      <4> SUFFICES ASSUME NEW k \in f PROVE k - 1 \in g
        OBVIOUS
      <4>1. k # 1
        BY <2>4, <2>7
      <4>2. k - 1 \in 1..Len(u) /\ (k - 1) + 1 = k
        BY <4>1, <2>1, <2>2
      <4> QED BY <4>2, <2>4
    <3>3. \A k \in g : k + 1 \in f
      BY <2>1, <2>2, <2>4
    <3>4. f = {} <=> g = {}
      <4> HIDE DEF f, g
      <4> QED BY <3>2, <3>3
    <3>5. CASE g = {}
      BY <3>1, <3>4, <3>5, <2>3 DEF First
    <3>6. CASE g # {}
      <4>1. Min(f) = Min(g) + 1 /\ Min(g) \in g
        <5> HIDE DEF f, g
        <5>1. Min(f) \in f /\ \A y \in f : Min(f) <= y
          BY <3>4, <3>6, <2>5, MinNat
        <5>2. Min(g) \in g /\ \A y \in g : Min(g) <= y
          BY <3>6, <2>5, MinNat
        <5>3. Min(f) - 1 \in g /\ Min(g) + 1 \in f
          BY <5>1, <5>2, <3>2, <3>3
        <5>4. Min(f) \in Nat /\ Min(g) \in Nat
          BY <5>1, <5>2, <2>5
        <5>5. Min(f) <= Min(g) + 1 /\ Min(g) <= Min(f) - 1
          BY <5>1, <5>2, <5>3
        <5> QED BY <5>2, <5>4, <5>5
      <4>2. s[Min(f)] = u[Min(g)]
        BY <4>1, <2>4
      <4>3. First(s, S) = s[Min(f)] /\ First(u, S) = u[Min(g)]
        BY <3>4, <3>6 DEF First
      <4> QED BY <4>2, <4>3, <3>1, <2>3
    <3> QED BY <3>5, <3>6
  <2> QED BY <2>6, <2>7
<1>3. \A n \in Nat : n \in P
  <2> HIDE DEF P
  <2> QED BY <1>1, <1>2, SetInduction
<1>4. \A s \in Seq(E) : Len(s) \in Nat
  BY LenProperties
<1> HIDE DEF Holds
<1>5. \A s \in Seq(E) : Holds(s)
  BY <1>3, <1>4
<1> QED BY <1>5 DEF Holds

\* Every element of Only(s, S) is one of s that is in S, and what follows it is what is
\* in S of what follows it in s.
LEMMA OnlyNext ==
    ASSUME NEW E, NEW S
    PROVE  \A s \in Seq(E) : \A m \in 1..Len(Only(s, S)) :
               \E j \in 1..Len(s) :
                   /\ Only(s, S)[m] = s[j] /\ s[j] \in S
                   /\ From(Only(s, S), m + 1) = Only(From(s, j + 1), S)
<1> DEFINE At(s, m, j) == /\ Only(s, S)[m] = s[j] /\ s[j] \in S
                          /\ From(Only(s, S), m + 1) = Only(From(s, j + 1), S)
           Holds(s) == \A m \in 1..Len(Only(s, S)) : \E j \in 1..Len(s) : At(s, m, j)
           P == {n \in Nat : \A s \in Seq(E) : Len(s) = n => Holds(s)}
<1>1. 0 \in P
  <2> SUFFICES ASSUME NEW s \in Seq(E), Len(s) = 0 PROVE Holds(s)
    <3> HIDE DEF Holds
    <3> QED OBVIOUS
  <2>1. Only(s, S) = <<>>
    BY OnlyOfEmpty
  <2> QED BY <2>1
<1>2. ASSUME NEW n \in Nat, n \in P PROVE n + 1 \in P
  <2> SUFFICES ASSUME NEW s \in Seq(E), Len(s) = n + 1 PROVE Holds(s)
    <3> HIDE DEF Holds
    <3> QED OBVIOUS
  <2>0. Len(s) # 0
    OBVIOUS
  <2>1. PICK p \in E, u \in Seq(E) : s = <<p>> \o u /\ Len(s) = Len(u) + 1
    BY <2>0, FirstAndRest, Zenon
  <2>2. Len(u) = n /\ Len(u) \in Nat
    BY <2>1, LenProperties
  <2>3. Holds(u)
    <3> HIDE DEF Holds
    <3> QED BY <2>2, <1>2
  <2>4. s[1] = p /\ \A j \in 1..Len(u) : s[j+1] = u[j]
    BY <2>1, InFront
  <2> DEFINE v == Only(u, S)
             w == Only(s, S)
  <2>5. v \in Seq(E) /\ Len(v) \in Nat
    BY OnlyType, LenProperties
  <2>6. ASSUME NEW j \in 1..Len(u) PROVE j + 1 \in 1..Len(s) /\ From(s, (j + 1) + 1) = From(u, j + 1)
    <3>1. j + 1 \in 1..Len(s) /\ j + 1 \in 1..Len(u)+1
      BY <2>1, <2>2
    <3> QED BY <3>1, <2>1, FromInFront
  <2>7. CASE p \in S
    <3>1. w = <<p>> \o v
      BY <2>1, <2>7, OnlyInFront, ZenonT(60)
    <3>2. Len(w) = Len(v) + 1 /\ w[1] = p /\ \A i \in 1..Len(v) : w[i+1] = v[i]
      BY <3>1, <2>5, InFront
    <3>3. ASSUME NEW m \in 1..Len(v)+1 PROVE From(w, m + 1) = From(v, m)
      BY <3>1, <2>5, FromInFront
    <3> SUFFICES ASSUME NEW m \in 1..Len(w) PROVE \E j \in 1..Len(s) : At(s, m, j)
      <4> HIDE DEF At
      <4> QED OBVIOUS
    <3>4. CASE m = 1
      <4>1. From(w, 2) = v
        <5>1. From(w, 1 + 1) = From(v, 1)
          BY <2>5, <3>3
        <5>2. From(v, 1) = v
          BY <2>5, SubSeqFull DEF From
        <5> QED BY <5>1, <5>2
      <4>2. From(s, 2) = u
        <5>1. 1 \in 1..Len(u)+1
          BY <2>2
        <5>2. From(s, 1 + 1) = From(u, 1)
          BY <5>1, <2>1, FromInFront
        <5>3. From(u, 1) = u
          BY SubSeqFull DEF From
        <5> QED BY <5>2, <5>3
      <4>3. At(s, m, 1)
        BY <3>2, <3>4, <4>1, <4>2, <2>4, <2>7
      <4>4. 1 \in 1..Len(s)
        BY <2>1, <2>2
      <4> HIDE DEF At
      <4> QED BY <4>3, <4>4
    <3>5. CASE m # 1
      <4>1. m - 1 \in 1..Len(v) /\ (m - 1) + 1 = m /\ m \in 1..Len(v)+1
        BY <3>2, <3>5, <2>5
      <4>2. PICK j \in 1..Len(u) : At(u, m - 1, j)
        BY <4>1, <2>3
      <4>3. /\ v[m-1] = u[j] /\ u[j] \in S /\ From(v, (m - 1) + 1) = Only(From(u, j + 1), S)
        BY <4>2
      <4>4. w[m] = v[m-1] /\ s[j+1] = u[j]
        BY <4>1, <3>2, <2>4
      <4>5. From(w, m + 1) = From(v, m) /\ From(s, (j + 1) + 1) = From(u, j + 1)
        BY <4>1, <3>3, <2>6
      <4>6. At(s, m, j + 1)
        BY <4>1, <4>3, <4>4, <4>5
      <4> HIDE DEF At
      <4> QED BY <4>6, <2>6
    <3> QED BY <3>4, <3>5
  <2>8. CASE p \notin S
    <3>1. w = v
      BY <2>1, <2>8, OnlyInFront
    <3> SUFFICES ASSUME NEW m \in 1..Len(v) PROVE \E j \in 1..Len(s) : At(s, m, j)
      <4> HIDE DEF At
      <4> QED BY <3>1
    <3>2. PICK j \in 1..Len(u) : At(u, m, j)
      BY <2>3
    <3>3. s[j+1] = u[j] /\ From(s, (j + 1) + 1) = From(u, j + 1)
      BY <2>4, <2>6
    <3>4. At(s, m, j + 1)
      BY <3>1, <3>2, <3>3
    <3> HIDE DEF At
    <3> QED BY <3>4, <2>6
  <2> QED BY <2>7, <2>8
<1>3. \A n \in Nat : n \in P
  <2> HIDE DEF P
  <2> QED BY <1>1, <1>2, SetInduction
<1>4. \A s \in Seq(E) : Len(s) \in Nat
  BY LenProperties
<1>5. \A s \in Seq(E) : Holds(s)
  <2> HIDE DEF Holds
  <2> QED BY <1>3, <1>4
<1> QED BY <1>5

-----------------------------------------------------------------------------
(* Chains *)

\* The constants have the kinds they should have.
LEMMA TableFacts ==
    /\ SIZE \in Nat \ {0} /\ NULL \notin Syms /\ NULL \notin Names
    /\ IsFiniteSet(Syms) /\ Cardinality(Syms) \in Nat
    /\ \A n \in Names : Slot(n) \in 0..SIZE-1
<1>1. IsFiniteSet(Syms) /\ Cardinality(Syms) \in Nat
  BY HashAssumption, FS_CardinalityType
<1>2. ASSUME NEW n \in Names PROVE Slot(n) \in 0..SIZE-1
  <2>1. Hash[n] \in Nat /\ SIZE \in Nat /\ SIZE > 0
    BY HashAssumption
  <2> QED BY <2>1 DEF Slot
<1> QED BY <1>1, <1>2, HashAssumption

\* The symbols of s are linked one after the other and p points to the first.
Path(p, s) ==
    /\ s \in Seq(Syms) /\ Len(s) <= Cardinality(Syms)
    /\ p = IF Len(s) = 0 THEN NULL ELSE s[1]
    /\ \A k \in 1..Len(s) : sym[s[k]].next = IF k = Len(s) THEN NULL ELSE s[k+1]

\* A walk along next finds them all and stops behind the last.
LEMMA ChainOfPath ==
    ASSUME NEW p, NEW s, Path(p, s)
    PROVE  Chain(p) = s
<1> DEFINE N == Cardinality(Syms)
           step(q) == IF q = NULL THEN NULL ELSE sym[q].next
           f == [k \in 0..N |-> IF k < Len(s) THEN s[k+1] ELSE NULL]
           Fits(g) == g = [k \in 0..N |-> IF k = 0 THEN p ELSE
                                          IF g[k-1] = NULL THEN NULL ELSE sym[g[k-1]].next]
           at == CHOOSE g : Fits(g)
<1>1. /\ s \in Seq(Syms) /\ Len(s) \in Nat /\ N \in Nat /\ Len(s) <= N
      /\ \A k \in 1..Len(s) : s[k] \in Syms /\ s[k] # NULL
      /\ s = [k \in 1..Len(s) |-> s[k]]
  BY TableFacts, LenProperties, ElementOfSeq DEF Path
<1>2. ASSUME NEW k \in 0..N
      PROVE  f[k] = IF k = 0 THEN p ELSE IF f[k-1] = NULL THEN NULL ELSE sym[f[k-1]].next
  <2>1. CASE k = 0
    BY <2>1, <1>1 DEF Path
  <2>2. CASE k # 0 /\ k - 1 < Len(s)
    <3>1. k \in 1..Len(s) /\ k - 1 \in 0..N /\ (k - 1) + 1 = k
      BY <2>2, <1>1
    <3>2. f[k-1] = s[k] /\ s[k] # NULL
      BY <3>1, <2>2, <1>1
    <3>3. sym[s[k]].next = IF k = Len(s) THEN NULL ELSE s[k+1]
      BY <3>1 DEF Path
    <3>4. f[k] = IF k < Len(s) THEN s[k+1] ELSE NULL
      OBVIOUS
    <3> HIDE DEF f
    <3> QED BY <3>1, <3>2, <3>3, <3>4, <2>2, <1>1
  <2>3. CASE k # 0 /\ ~(k - 1 < Len(s))
    <3>1. k - 1 \in 0..N /\ ~(k < Len(s))
      BY <2>3, <1>1
    <3>2. f[k-1] = NULL /\ f[k] = NULL
      BY <3>1, <2>3
    <3> HIDE DEF f
    <3> QED BY <3>2, <2>3
  <2> QED BY <2>1, <2>2, <2>3
<1>3. Fits(f)
  <2>1. f = [k \in 0..N |-> f[k]]
    OBVIOUS
  <2> HIDE DEF f
  <2> QED BY <2>1, <1>2
<1>4. Fits(at)
  <2> HIDE DEF f
  <2> QED BY <1>3
<1>5. After(p) = at
  BY DEF After
<1> HIDE DEF at
<1>6. \A k \in 0..N : at[k] = f[k]
  <2> HIDE DEF f
  <2> DEFINE Q == {k \in Nat : k <= N => at[k] = f[k]}
  <2>1. 0 \in Q
    BY <1>1, <1>2, <1>4
  <2>2. ASSUME NEW k \in Nat, k \in Q PROVE k + 1 \in Q
    <3> SUFFICES ASSUME k + 1 <= N PROVE at[k+1] = f[k+1]
      OBVIOUS
    <3>1. at[k] = f[k] /\ k + 1 \in 0..N /\ (k + 1) - 1 = k /\ k + 1 # 0
      BY <1>1, <2>2
    <3>2. f[k+1] = IF f[k] = NULL THEN NULL ELSE sym[f[k]].next
      BY <3>1, <1>2
    <3>3. at[k+1] = IF at[k] = NULL THEN NULL ELSE sym[at[k]].next
      BY <3>1, <1>4
    <3> QED BY <3>1, <3>2, <3>3
  <2>3. \A k \in Nat : k \in Q
    <3> HIDE DEF Q
    <3> QED BY <2>1, <2>2, SetInduction
  <2> QED BY <2>3, <1>1
<1>7. {k \in 0..N : at[k] # NULL} = 0..Len(s)-1
  <2>1. \A k \in 0..N : at[k] # NULL <=> k < Len(s)
    <3> SUFFICES ASSUME NEW k \in 0..N PROVE at[k] # NULL <=> k < Len(s)
      OBVIOUS
    <3>1. at[k] = IF k < Len(s) THEN s[k+1] ELSE NULL
      BY <1>6
    <3>2. k < Len(s) => k + 1 \in 1..Len(s)
      BY <1>1
    <3> QED BY <3>1, <3>2, <1>1
  <2> QED BY <2>1, <1>1
<1>8. Cardinality(0..Len(s)-1) = Len(s)
  BY <1>1, CardBelow
<1>9. Chain(p) = [k \in 1..Len(s) |-> at[k-1]]
  BY <1>5, <1>7, <1>8 DEF Chain
<1>10. \A k \in 1..Len(s) : at[k-1] = s[k]
  <2> SUFFICES ASSUME NEW k \in 1..Len(s) PROVE at[k-1] = s[k]
    OBVIOUS
  <2>1. k - 1 \in 0..N /\ k - 1 < Len(s) /\ (k - 1) + 1 = k
    BY <1>1
  <2> QED BY <2>1, <1>6
<1> QED BY <1>1, <1>9, <1>10

\* The symbols of c.
Members(c) == UNION {ToSet(c[i]) : i \in 0..SIZE-1}

\* The members of the chains are what is at their places.
LEMMA MemberAt ==
    ASSUME NEW c \in [0..SIZE-1 -> Seq(Syms)]
    PROVE  /\ \A i \in 0..SIZE-1 : /\ Len(c[i]) \in Nat
                                   /\ \A k \in 1..Len(c[i]) : c[i][k] \in Members(c)
           /\ \A q \in Members(c) : \E i \in 0..SIZE-1 : \E k \in 1..Len(c[i]) : q = c[i][k]
           /\ Members(c) \in SUBSET Syms
<1>1. \A i \in 0..SIZE-1 : /\ Len(c[i]) \in Nat /\ DOMAIN c[i] = 1..Len(c[i])
                           /\ \A k \in 1..Len(c[i]) : c[i][k] \in Syms
  BY LenProperties, ElementOfSeq
<1>2. \A q : q \in Members(c) <=> \E i \in 0..SIZE-1 : \E k \in 1..Len(c[i]) : q = c[i][k]
  BY <1>1 DEF Members, ToSet
<1> QED BY <1>1, <1>2

\* The memory holds the chains c.
Linked(c) ==
    /\ c \in [0..SIZE-1 -> Seq(Syms)]
    /\ \A i \in 0..SIZE-1 :
         /\ table[i] = IF Len(c[i]) = 0 THEN NULL ELSE c[i][1]
         /\ \A k \in 1..Len(c[i]) :
              /\ c[i][k] \in used
              /\ Slot(sym[c[i][k]].name) = i
              /\ sym[c[i][k]].next = IF k = Len(c[i]) THEN NULL ELSE c[i][k+1]
              /\ sym[c[i][k]].prev = IF k = 1 THEN InTable(i) ELSE InBucket(c[i][k-1])
         /\ \A k, l \in 1..Len(c[i]) : c[i][k] = c[i][l] => k = l

\* Linked chains can be walked from every place.
LEMMA PathFrom ==
    ASSUME NEW c, Linked(c), NEW i \in 0..SIZE-1, NEW j \in 1..Len(c[i])+1
    PROVE  Path(IF j = Len(c[i]) + 1 THEN NULL ELSE c[i][j], From(c[i], j))
<1> DEFINE s == c[i]
           d == From(s, j)
<1>1. /\ s \in Seq(Syms) /\ Len(s) \in Nat
      /\ \A k \in 1..Len(s) : sym[s[k]].next = IF k = Len(s) THEN NULL ELSE s[k+1]
      /\ \A k, l \in 1..Len(s) : s[k] = s[l] => k = l
  BY LenProperties DEF Linked
<1> SUFFICES Path(IF j = Len(s) + 1 THEN NULL ELSE s[j], d)
  OBVIOUS
<1> HIDE DEF s
<1>2. /\ d \in Seq(Syms) /\ Len(d) = Len(s) + 1 - j
      /\ \A k \in 1..Len(s)+1-j : d[k] = s[j+k-1]
  <2>1. s \in Seq(Syms) /\ j \in 1..Len(s)+1
    BY <1>1 DEF s
  <2>2. /\ From(s, j) \in Seq(Syms) /\ Len(From(s, j)) = Len(s) + 1 - j
        /\ \A k \in 1..Len(s)+1-j : From(s, j)[k] = s[j+k-1]
    BY <2>1, FromFacts, Zenon
  <2> QED BY <2>2
<1> HIDE DEF d
<1>3. Len(s) <= Cardinality(Syms)
  <2>1. s \in Injection(1..Len(s), Syms)
    <3>1. s \in [1..Len(s) -> Syms]
      BY <1>1, LenProperties
    <3> QED BY <3>1, <1>1 DEF Injection, IsInjective
  <2>2. Cardinality(1..Len(s)) = Len(s)
    <3>1. Len(s) \in Int /\ 1 \in Int
      BY <1>1
    <3>2. Cardinality(1..Len(s)) = IF 1 > Len(s) THEN 0 ELSE Len(s) - 1 + 1
      BY <3>1, FS_Interval, Zenon
    <3> QED BY <3>2, <1>1
  <2> QED BY <2>1, <2>2, TableFacts, FS_Injection
<1>4. Len(d) <= Cardinality(Syms)
  BY <1>1, <1>2, <1>3, TableFacts DEF s
<1>5. (IF j = Len(s) + 1 THEN NULL ELSE s[j]) = IF Len(d) = 0 THEN NULL ELSE d[1]
  BY <1>1, <1>2 DEF s
<1>6. ASSUME NEW k \in 1..Len(d) PROVE sym[d[k]].next = IF k = Len(d) THEN NULL ELSE d[k+1]
  <2>1. j \in 1..Len(s)+1
    BY DEF s
  <2>2. j + k - 1 \in 1..Len(s) /\ (j + k - 1 = Len(s) <=> k = Len(d))
    BY <2>1, <1>1, <1>2
  <2>3. d[k] = s[j+k-1]
    BY <2>1, <1>1, <1>2
  <2>4. k # Len(d) => d[k+1] = s[(j+k-1)+1]
    <3>0. /\ Len(d) \in Nat /\ Len(d) = Len(s) + 1 - j /\ k \in 1..Len(d)
          /\ j \in Nat /\ Len(s) \in Nat
      BY <2>1, <1>1, <1>2
    <3>1. k # Len(d) => k + 1 \in 1..Len(s)+1-j /\ j + (k + 1) - 1 = (j + k - 1) + 1
      BY <3>0
    <3> QED BY <3>1, <1>2
  <2>5. sym[s[j+k-1]].next = IF j + k - 1 = Len(s) THEN NULL ELSE s[(j+k-1)+1]
    BY <2>2, <1>1
  <2> QED BY <2>2, <2>3, <2>4, <2>5
<1> QED BY <1>2, <1>4, <1>5, <1>6 DEF Path

\* What the memory holds is what a reader of the chains finds.
Readable ==
    \A c : Linked(c) => /\ Chains = c
                        /\ \A i \in 0..SIZE-1 :
                             /\ Chain(table[i]) = c[i]
                             /\ \A k \in 1..Len(c[i]) : Chain(sym[c[i][k]].next) = From(c[i], k + 1)

\* A walk from the head of a slot finds its chain, and one from a symbol finds what
\* follows it.
LEMMA ChainsRead == Readable
<1> SUFFICES ASSUME NEW c, Linked(c)
             PROVE  /\ Chains = c
                    /\ \A i \in 0..SIZE-1 :
                         /\ Chain(table[i]) = c[i]
                         /\ \A k \in 1..Len(c[i]) : Chain(sym[c[i][k]].next) = From(c[i], k + 1)
  BY DEF Readable
<1>1. ASSUME NEW i \in 0..SIZE-1
      PROVE  /\ Chain(table[i]) = c[i]
             /\ \A k \in 1..Len(c[i]) : Chain(sym[c[i][k]].next) = From(c[i], k + 1)
  <2>1. /\ c[i] \in Seq(Syms) /\ Len(c[i]) \in Nat
        /\ table[i] = IF Len(c[i]) = 0 THEN NULL ELSE c[i][1]
        /\ \A k \in 1..Len(c[i]) : sym[c[i][k]].next = IF k = Len(c[i]) THEN NULL ELSE c[i][k+1]
    BY LenProperties DEF Linked
  <2>2. Chain(table[i]) = c[i]
    <3>1. 1 \in 1..Len(c[i])+1 /\ (1 = Len(c[i]) + 1 <=> Len(c[i]) = 0)
      BY <2>1
    <3>2. Path(IF 1 = Len(c[i]) + 1 THEN NULL ELSE c[i][1], From(c[i], 1))
      BY <3>1, PathFrom
    <3>3. From(c[i], 1) = c[i]
      BY <2>1, SubSeqFull DEF From
    <3>4. Path(table[i], c[i])
      BY <2>1, <3>1, <3>2, <3>3
    <3> QED BY <3>4, ChainOfPath
  <2>3. ASSUME NEW k \in 1..Len(c[i]) PROVE Chain(sym[c[i][k]].next) = From(c[i], k + 1)
    <3>1. k + 1 \in 1..Len(c[i])+1 /\ (k + 1 = Len(c[i]) + 1 <=> k = Len(c[i]))
      BY <2>1
    <3>2. Path(IF k + 1 = Len(c[i]) + 1 THEN NULL ELSE c[i][k+1], From(c[i], k + 1))
      BY <3>1, PathFrom
    <3>3. Path(sym[c[i][k]].next, From(c[i], k + 1))
      BY <2>1, <3>1, <3>2
    <3> QED BY <3>3, ChainOfPath
  <2> QED BY <2>2, <2>3
<1>2. Chains = c
  <2>1. c = [i \in 0..SIZE-1 |-> c[i]]
    BY DEF Linked
  <2> QED BY <2>1, <1>1 DEF Chains
<1> QED BY <1>1, <1>2

-----------------------------------------------------------------------------
(* The invariant *)

Cells == {InTable(i) : i \in 0..SIZE-1} \union {InBucket(p) : p \in Syms}
Buckets == [name : Names \union {NULL}, next : Syms \union {NULL}, prev : Cells \union {NULL}]

Typed ==
    /\ sym \in [Syms -> Buckets]
    /\ used \subseteq Syms
    /\ table \in [0..SIZE-1 -> Syms \union {NULL}]
    /\ \A p \in used : sym[p].name \in Names

\* Reading the chains gives what the memory holds, and numsyms counts it.
IInv == Typed /\ Linked(Chains) /\ numsyms = Cardinality(Members(Chains))

\* maketab() makes an array of empty chains (hash.c:26-43).
LEMMA InitHolds == Init => IInv
<1> SUFFICES ASSUME Init PROVE IInv
  OBVIOUS
<1> DEFINE c == [i \in 0..SIZE-1 |-> <<>>]
<1>1. Typed
  BY DEF Init, Typed, Buckets
<1>2. Linked(c)
  <2>1. c \in [0..SIZE-1 -> Seq(Syms)]
    OBVIOUS
  <2>2. \A i \in 0..SIZE-1 : Len(c[i]) = 0 /\ table[i] = NULL
    BY DEF Init
  <2> HIDE DEF c
  <2> QED BY <2>1, <2>2 DEF Linked
<1>3. Chains = c
  BY <1>2, ChainsRead DEF Readable
<1>4. Members(c) = {}
  <2>1. c \in [0..SIZE-1 -> Seq(Syms)] /\ \A i \in 0..SIZE-1 : Len(c[i]) = 0
    OBVIOUS
  <2> HIDE DEF c
  <2>2. \A q \in Members(c) : \E i \in 0..SIZE-1 : \E k \in 1..Len(c[i]) : q = c[i][k]
    BY <2>1, MemberAt
  <2> QED BY <2>1, <2>2
<1>5. numsyms = 0
  BY DEF Init
<1> QED BY <1>1, <1>2, <1>3, <1>4, <1>5, FS_EmptySet DEF IInv

\* What the chains hold is known from the memory, also after a step.
LEMMA ChainsReadNext ==
    ASSUME NEW d, Linked(d)', Typed', numsyms' = Cardinality(Members(d))
    PROVE  IInv'
<1>1. Readable'
  BY ChainsRead, PTL
<1>2. Chains' = d
  BY <1>1 DEF Readable
<1> QED BY <1>2 DEF IInv

\* A bucket that is not in a chain is of no account.
LEMMA UnlinkedBucket ==
    ASSUME IInv, NEW c, c = Chains, NEW p \in Syms, p \notin Members(c), NEW b \in Buckets,
           sym' = [sym EXCEPT ![p] = b], UNCHANGED <<table, numsyms>>,
           used' \subseteq Syms, used' \ {p} = used \ {p}, p \in used' => b.name \in Names
    PROVE  IInv' /\ Linked(c)'
<1>1. Typed'
  BY DEF IInv, Typed
<1>2. Linked(c)'
  <2>1. c \in [0..SIZE-1 -> Seq(Syms)] /\ Linked(c)
    BY DEF IInv, Linked
  <2>2. \A i \in 0..SIZE-1 : \A k \in 1..Len(c[i]) :
            /\ c[i][k] # p /\ c[i][k] \in Syms
            /\ sym'[c[i][k]] = sym[c[i][k]] /\ (c[i][k] \in used => c[i][k] \in used')
    <3> SUFFICES ASSUME NEW i \in 0..SIZE-1, NEW k \in 1..Len(c[i])
                 PROVE  /\ c[i][k] # p /\ c[i][k] \in Syms
                        /\ sym'[c[i][k]] = sym[c[i][k]] /\ (c[i][k] \in used => c[i][k] \in used')
      OBVIOUS
    <3>1. c[i][k] \in Members(c) /\ Members(c) \in SUBSET Syms
      BY <2>1, MemberAt
    <3>2. c[i][k] # p /\ c[i][k] \in Syms
      BY <3>1
    <3> QED BY <3>2 DEF IInv, Typed
  <2> QED BY <2>1, <2>2 DEF Linked
<1> QED BY <1>1, <1>2, ChainsReadNext DEF IInv

\* newsym() gives out a bucket that is in no chain (hash.c:7-18).
LEMMA NewKeeps ==
    ASSUME IInv, NEW c, c = Chains, NEW p \in Syms, NEW n \in Names, newsym(p, n)
    PROVE  IInv' /\ Linked(c)' /\ \A q \in Members(c) : sym'[q].name = sym[q].name
<1> DEFINE b == [name |-> n, next |-> NULL, prev |-> NULL]
<1>1. b \in Buckets
  BY DEF Buckets
<1>2. c \in [0..SIZE-1 -> Seq(Syms)]
  BY DEF IInv, Linked
<1>3. \A q \in Members(c) : q \in Syms /\ q \in used
  <2> SUFFICES ASSUME NEW q \in Members(c) PROVE q \in used
    BY DEF IInv, Typed
  <2>1. PICK i \in 0..SIZE-1 : \E k \in 1..Len(c[i]) : q = c[i][k]
    BY <1>2, MemberAt
  <2> QED BY <2>1 DEF IInv, Linked
<1>4. p \notin Members(c)
  BY <1>3 DEF newsym
<1>5. IInv' /\ Linked(c)'
  BY <1>1, <1>4, UnlinkedBucket DEF newsym, IInv, Typed
<1>6. \A q \in Members(c) : sym'[q] = sym[q]
  BY <1>3, <1>4 DEF newsym, IInv, Typed
<1> QED BY <1>5, <1>6

\* freesym() takes back a bucket that is in no chain (hash.c:20-23).
LEMMA FreeKeeps ==
    ASSUME IInv, NEW c, c = Chains, NEW p \in Syms, freesym(p)
    PROVE  IInv' /\ Linked(c)' /\ \A q \in Members(c) : sym'[q].name = sym[q].name
<1> DEFINE b == [name |-> NULL, next |-> NULL, prev |-> NULL]
<1>1. b \in Buckets
  BY DEF Buckets
<1>2. c \in [0..SIZE-1 -> Seq(Syms)]
  BY DEF IInv, Linked
<1>3. p \notin Members(c) /\ \A q \in Members(c) : q \in Syms
  <2>1. p \notin Members(c)
    BY DEF freesym, InChains, Members
  <2>2. Members(c) \in SUBSET Syms
    BY <1>2, MemberAt
  <2> QED BY <2>1, <2>2
<1>4. IInv' /\ Linked(c)'
  BY <1>1, <1>3, UnlinkedBucket, ZenonT(60) DEF freesym, IInv, Typed
<1>5. \A q \in Members(c) : sym'[q] = sym[q]
  BY <1>3 DEF freesym, IInv, Typed
<1> QED BY <1>4, <1>5

\* Writing one field of a bucket.
LEMMA FieldWritten ==
    ASSUME NEW m \in [Syms -> Buckets], NEW p \in Syms
    PROVE  /\ \A e \in Syms \union {NULL} :
                  LET w == [m EXCEPT ![p].next = e]
                  IN  /\ w \in [Syms -> Buckets]
                      /\ \A q \in Syms : /\ w[q].next = IF q = p THEN e ELSE m[q].next
                                         /\ w[q].name = m[q].name /\ w[q].prev = m[q].prev
           /\ \A e \in Cells \union {NULL} :
                  LET w == [m EXCEPT ![p].prev = e]
                  IN  /\ w \in [Syms -> Buckets]
                      /\ \A q \in Syms : /\ w[q].prev = IF q = p THEN e ELSE m[q].prev
                                         /\ w[q].name = m[q].name /\ w[q].next = m[q].next
BY DEF Buckets

\* What addsym() writes: the new bucket, the head of its chain, and prev of the bucket
\* behind (hash.c:46-62).
LEMMA AddWrites ==
    ASSUME Typed, NEW p \in Syms, addsym(p), NEW i \in 0..SIZE-1, i = Slot(sym[p].name),
           table[i] # p
    PROVE  /\ sym' \in [Syms -> Buckets]
           /\ \A q \in Syms :
                /\ sym'[q].name = sym[q].name
                /\ sym'[q].next = IF q = p THEN table[i] ELSE sym[q].next
                /\ sym'[q].prev = IF q = p THEN InTable(i)
                                  ELSE IF q = table[i] THEN InBucket(p) ELSE sym[q].prev
<1> DEFINE a == [sym EXCEPT ![p].prev = InTable(i)]
           b == [a EXCEPT ![p].next = table[i]]
           d == [b EXCEPT ![table[i]].prev = InBucket(p)]
<1>1. /\ sym \in [Syms -> Buckets] /\ table[i] \in Syms \union {NULL}
      /\ InTable(i) \in Cells /\ InBucket(p) \in Cells /\ NULL \notin Syms
  BY TableFacts DEF Typed, Cells
<1>2. sym' = IF table[i] = NULL THEN b ELSE d
  BY DEF addsym
<1>3. /\ a \in [Syms -> Buckets]
      /\ \A q \in Syms : /\ a[q].prev = IF q = p THEN InTable(i) ELSE sym[q].prev
                         /\ a[q].name = sym[q].name /\ a[q].next = sym[q].next
  BY <1>1, FieldWritten
<1> HIDE DEF a
<1>4. /\ b \in [Syms -> Buckets]
      /\ \A q \in Syms : /\ b[q].next = IF q = p THEN table[i] ELSE a[q].next
                         /\ b[q].name = a[q].name /\ b[q].prev = a[q].prev
  BY <1>1, <1>3, FieldWritten
<1> HIDE DEF b
<1>5. CASE table[i] = NULL
  BY <1>1, <1>2, <1>3, <1>4, <1>5
<1>6. CASE table[i] # NULL
  <2>1. /\ d \in [Syms -> Buckets]
        /\ \A q \in Syms : /\ d[q].prev = IF q = table[i] THEN InBucket(p) ELSE b[q].prev
                           /\ d[q].name = b[q].name /\ d[q].next = b[q].next
    BY <1>1, <1>4, <1>6, FieldWritten
  <2> HIDE DEF d
  <2> QED BY <1>2, <1>3, <1>4, <1>6, <2>1
<1> QED BY <1>5, <1>6

\* addsym() puts the symbol in front of the chain of its name and leaves the others
\* alone (hash.c:46-62).
LEMMA AddKeeps ==
    ASSUME IInv, NEW c, c = Chains, NEW p \in Syms, addsym(p),
           NEW i \in 0..SIZE-1, i = Slot(sym[p].name)
    PROVE  /\ IInv' /\ Linked([c EXCEPT ![i] = <<p>> \o @])'
           /\ \A q \in Syms : sym'[q].name = sym[q].name
           /\ p \notin Members(c)
<1> DEFINE s == c[i]
           t == <<p>> \o s
           d == [c EXCEPT ![i] = t]
<1>1. /\ c \in [0..SIZE-1 -> Seq(Syms)] /\ Linked(c) /\ Typed
      /\ numsyms = Cardinality(Members(c))
  <2>1. Linked(c) /\ Typed /\ numsyms = Cardinality(Members(c))
    BY DEF IInv
  <2> QED BY <2>1 DEF Linked
<1>2. p \in used /\ p \notin Members(c)
  BY DEF addsym, InChains, Members
<1>3. ASSUME NEW h \in 0..SIZE-1, NEW k \in 1..Len(c[h])
      PROVE  /\ c[h][k] \in Members(c) /\ c[h][k] # p /\ c[h][k] \in Syms /\ c[h][k] \in used
             /\ Slot(sym[c[h][k]].name) = h
             /\ sym[c[h][k]].next = IF k = Len(c[h]) THEN NULL ELSE c[h][k+1]
             /\ sym[c[h][k]].prev = IF k = 1 THEN InTable(h) ELSE InBucket(c[h][k-1])
  <2>1. c[h][k] \in Members(c) /\ Members(c) \in SUBSET Syms
    BY <1>1, MemberAt
  <2> QED BY <2>1, <1>1, <1>2 DEF Linked
<1>4. /\ s \in Seq(Syms) /\ Len(s) \in Nat /\ t \in Seq(Syms) /\ Len(t) = Len(s) + 1
      /\ t[1] = p /\ \A j \in 1..Len(s) : t[j+1] = s[j]
  BY <1>1, InFront, LenProperties
<1>5. table[i] = (IF Len(s) = 0 THEN NULL ELSE s[1]) /\ table[i] # p /\ NULL \notin Syms
  <2>1. table[i] = IF Len(s) = 0 THEN NULL ELSE s[1]
    BY <1>1 DEF Linked
  <2>2. Len(s) # 0 => 1 \in 1..Len(s)
    BY <1>4
  <2> QED BY <2>1, <2>2, <1>3, TableFacts
<1>6. /\ sym' \in [Syms -> Buckets]
      /\ \A q \in Syms :
           /\ sym'[q].name = sym[q].name
           /\ sym'[q].next = IF q = p THEN table[i] ELSE sym[q].next
           /\ sym'[q].prev = IF q = p THEN InTable(i)
                             ELSE IF q = table[i] THEN InBucket(p) ELSE sym[q].prev
  BY <1>1, <1>5, AddWrites
<1>7. used' = used /\ numsyms' = numsyms + 1 /\ table' = [table EXCEPT ![i] = p]
  BY DEF addsym
<1> HIDE DEF s, t
<1>8. /\ d \in [0..SIZE-1 -> Seq(Syms)] /\ d[i] = t
      /\ \A h \in 0..SIZE-1 : h # i => d[h] = c[h]
  BY <1>1, <1>4
<1> HIDE DEF d
<1>9. Typed'
  BY <1>1, <1>6, <1>7 DEF Typed
<1>10. Linked(d)'
  <2>1. ASSUME NEW h \in 0..SIZE-1
        PROVE  table'[h] = IF Len(d[h]) = 0 THEN NULL ELSE d[h][1]
    <3>1. CASE h = i
      BY <3>1, <1>1, <1>4, <1>7, <1>8 DEF Typed
    <3>2. CASE h # i
      BY <3>2, <1>1, <1>7, <1>8 DEF Linked, Typed
    <3> QED BY <3>1, <3>2
  <2>2. ASSUME NEW h \in 0..SIZE-1, NEW k \in 1..Len(d[h])
        PROVE  /\ d[h][k] \in used'
               /\ Slot(sym'[d[h][k]].name) = h
               /\ sym'[d[h][k]].next = IF k = Len(d[h]) THEN NULL ELSE d[h][k+1]
               /\ sym'[d[h][k]].prev = IF k = 1 THEN InTable(h) ELSE InBucket(d[h][k-1])
    <3>1. CASE h # i
      <4>1. d[h] = c[h] /\ k \in 1..Len(c[h])
        BY <3>1, <1>8
      <4> DEFINE q == c[h][k]
      <4>2. /\ q # p /\ q \in Syms /\ q \in used /\ Slot(sym[q].name) = h
            /\ sym[q].next = IF k = Len(c[h]) THEN NULL ELSE c[h][k+1]
            /\ sym[q].prev = IF k = 1 THEN InTable(h) ELSE InBucket(c[h][k-1])
        BY <4>1, <1>3, SMTT(30)
      <4>3. q # table[i]
        <5>1. Len(s) # 0 => 1 \in 1..Len(c[i]) /\ s[1] = c[i][1]
          BY <1>4 DEF s
        <5>2. Len(s) # 0 => Slot(sym[s[1]].name) = i
          BY <5>1, <1>3
        <5> QED BY <5>2, <4>2, <3>1, <1>5
      <4> QED BY <4>1, <4>2, <4>3, <1>6, <1>7
    <3>2. CASE h = i /\ k = 1
      <4>1. d[h][k] = p /\ d[h] = t
        BY <3>2, <1>4, <1>8
      <4>2. sym'[p].next = IF k = Len(t) THEN NULL ELSE t[k+1]
        <5>1. k = Len(t) <=> Len(s) = 0
          BY <3>2, <1>4
        <5>2. Len(s) # 0 => 1 \in 1..Len(s)
          BY <1>4
        <5>3. Len(s) # 0 => t[1+1] = s[1]
          BY <5>2, <1>4
        <5> QED BY <5>1, <5>3, <3>2, <1>5, <1>6
      <4> QED BY <4>1, <4>2, <3>2, <1>2, <1>6, <1>7
    <3>3. CASE h = i /\ k # 1
      <4>1. d[h] = t /\ k - 1 \in 1..Len(s) /\ (k - 1) + 1 = k /\ s = c[i]
        BY <3>3, <1>4, <1>8 DEF s
      <4> DEFINE q == s[k-1]
      <4>2. /\ q # p /\ q \in Syms /\ q \in used /\ Slot(sym[q].name) = i
            /\ sym[q].next = IF k - 1 = Len(s) THEN NULL ELSE s[(k-1)+1]
            /\ sym[q].prev = IF k - 1 = 1 THEN InTable(i) ELSE InBucket(s[(k-1)-1])
        <5>1. c[h] = s /\ k - 1 \in 1..Len(c[h])
          BY <4>1, <3>3
        <5>2. PICK m \in 1..Len(c[h]) : m = k - 1
          BY <5>1
        <5>3. /\ c[h][m] # p /\ c[h][m] \in Syms /\ c[h][m] \in used
              /\ Slot(sym[c[h][m]].name) = h
              /\ sym[c[h][m]].next = IF m = Len(c[h]) THEN NULL ELSE c[h][m+1]
              /\ sym[c[h][m]].prev = IF m = 1 THEN InTable(h) ELSE InBucket(c[h][m-1])
          BY <1>3, ZenonT(60)
        <5> QED BY <5>1, <5>2, <5>3, <3>3
      <4>3. t[k] = q
        BY <4>1, <1>4
      <4> HIDE DEF q
      <4>4. sym'[q].next = IF k = Len(t) THEN NULL ELSE t[k+1]
        <5>1. k = Len(t) <=> k - 1 = Len(s)
          BY <4>1, <1>4
        <5>2. k # Len(t) => k \in 1..Len(s)
          BY <4>1, <5>1, <1>4
        <5>3. k # Len(t) => t[k+1] = s[k]
          BY <5>2, <1>4
        <5> QED BY <5>1, <5>3, <4>1, <4>2, <1>6
      <4>5. sym'[q].prev = InBucket(t[k-1])
        <5>1. CASE k - 1 = 1
          <6>1. q = table[i] /\ t[k-1] = p
            BY <5>1, <4>1, <1>4, <1>5 DEF q
          <6> QED BY <6>1, <4>2, <1>6
        <5>2. CASE k - 1 # 1
          <6>1. (k-1)-1 \in 1..Len(s) /\ ((k-1)-1)+1 = k-1 /\ 1 \in 1..Len(s)
            <7>1. k \in Nat /\ Len(s) \in Nat
              BY <1>4
            <7>2. k - 1 \in 1..Len(s)
              BY <4>1
            <7> QED BY <7>1, <7>2, <5>2
          <6>2. q # table[i]
            <7>1. \A j, l \in 1..Len(s) : s[j] = s[l] => j = l
              BY <1>1 DEF Linked, s
            <7>2. table[i] = s[1]
              BY <6>1, <1>5
            <7> QED BY <7>1, <7>2, <6>1, <4>1, <5>2 DEF q
          <6>3. t[k-1] = s[(k-1)-1]
            BY <6>1, <1>4
          <6> QED BY <6>2, <6>3, <5>2, <4>2, <1>6
        <5> QED BY <5>1, <5>2
      <4> QED BY <4>1, <4>2, <4>3, <4>4, <4>5, <3>3, <1>6, <1>7
    <3> QED BY <3>1, <3>2, <3>3
  <2>3. ASSUME NEW h \in 0..SIZE-1, NEW k \in 1..Len(d[h]), NEW l \in 1..Len(d[h]),
               d[h][k] = d[h][l]
        PROVE  k = l
    <3>1. CASE h # i
      BY <3>1, <2>3, <1>1, <1>8 DEF Linked
    <3>2. CASE h = i
      <4>1. d[h] = t /\ \A j \in 1..Len(s) : s[j] # p
        BY <3>2, <1>3, <1>8 DEF s
      <4>2. \A j \in 1..Len(t) : j # 1 => j - 1 \in 1..Len(s) /\ t[j] = s[j-1]
        <5> SUFFICES ASSUME NEW j \in 1..Len(t), j # 1
                     PROVE  j - 1 \in 1..Len(s) /\ t[j] = s[j-1]
          OBVIOUS
        <5>1. j - 1 \in 1..Len(s) /\ (j - 1) + 1 = j
          BY <1>4
        <5> QED BY <5>1, <1>4
      <4>3. \A j, m \in 1..Len(s) : s[j] = s[m] => j = m
        BY <1>1 DEF Linked, s
      <4>4. k \in 1..Len(t) /\ l \in 1..Len(t) /\ t[k] = t[l]
        BY <4>1, <2>3
      <4>5. CASE k = 1 \/ l = 1
        BY <4>1, <4>2, <4>4, <4>5, <1>4
      <4>6. CASE k # 1 /\ l # 1
        <5>1. k - 1 = l - 1
          BY <4>2, <4>3, <4>4, <4>6
        <5> QED BY <5>1
      <4> QED BY <4>5, <4>6
    <3> QED BY <3>1, <3>2
  <2> QED BY <1>8, <2>1, <2>2, <2>3 DEF Linked
<1>11. Members(d) = Members(c) \union {p}
  <2>1. ASSUME NEW q \in Members(d) PROVE q \in Members(c) \union {p}
    <3>1. PICK h \in 0..SIZE-1 : \E k \in 1..Len(d[h]) : q = d[h][k]
      BY <1>8, MemberAt
    <3>2. PICK k \in 1..Len(d[h]) : q = d[h][k]
      BY <3>1
    <3>3. CASE h # i
      BY <3>2, <3>3, <1>3, <1>8
    <3>4. CASE h = i /\ k = 1
      BY <3>2, <3>4, <1>4, <1>8
    <3>5. CASE h = i /\ k # 1
      <4>1. k - 1 \in 1..Len(s) /\ (k - 1) + 1 = k
        BY <3>5, <1>4, <1>8
      <4>2. q = c[i][k-1] /\ k - 1 \in 1..Len(c[i])
        BY <4>1, <3>2, <3>5, <1>4, <1>8 DEF s
      <4> QED BY <4>2, <1>3
    <3> QED BY <3>3, <3>4, <3>5
  <2>2. p \in Members(d)
    <3>1. 1 \in 1..Len(d[i]) /\ d[i][1] = p
      BY <1>4, <1>8
    <3>2. \A k \in 1..Len(d[i]) : d[i][k] \in Members(d)
      BY <1>8, MemberAt
    <3> QED BY <3>1, <3>2
  <2>3. ASSUME NEW q \in Members(c) PROVE q \in Members(d)
    <3>1. PICK h \in 0..SIZE-1 : \E k \in 1..Len(c[h]) : q = c[h][k]
      BY <1>1, MemberAt
    <3>2. PICK k \in 1..Len(c[h]) : q = c[h][k]
      BY <3>1
    <3>3. CASE h # i
      <4>1. k \in 1..Len(d[h]) /\ q = d[h][k]
        BY <3>2, <3>3, <1>8
      <4> QED BY <4>1, <1>8, MemberAt
    <3>4. CASE h = i
      <4>1. k \in 1..Len(s) /\ q = s[k]
        BY <3>2, <3>4 DEF s
      <4>2. k + 1 \in 1..Len(d[i]) /\ q = d[i][k+1]
        BY <4>1, <1>4, <1>8
      <4> QED BY <4>2, <1>8, MemberAt
    <3> QED BY <3>3, <3>4
  <2> QED BY <2>1, <2>2, <2>3
<1>12. numsyms' = Cardinality(Members(d))
  <2>1. IsFiniteSet(Members(c))
    BY <1>1, MemberAt, TableFacts, FS_Subset
  <2>2. Cardinality(Members(c) \union {p}) = Cardinality(Members(c)) + 1
    BY <2>1, <1>2, FS_AddElement
  <2> QED BY <2>2, <1>1, <1>7, <1>11
<1>13. IInv'
  BY <1>9, <1>10, <1>12, ChainsReadNext
<1> QED BY <1>2, <1>6, <1>10, <1>13 DEF d, t, s

\* What delsym() writes: the pointer to the bucket, and prev of the bucket behind
\* (hash.c:64-74).
LEMMA DelWrites ==
    ASSUME Typed, NEW p \in Syms, delsym(p), NEW i \in 0..SIZE-1, NEW front \in Syms \union {NULL},
           sym[p].prev = IF front = NULL THEN InTable(i) ELSE InBucket(front)
    PROVE  /\ sym' \in [Syms -> Buckets]
           /\ \A q \in Syms :
                /\ sym'[q].name = sym[q].name
                /\ sym'[q].next = IF q = front THEN sym[p].next ELSE sym[q].next
                /\ sym'[q].prev = IF q = sym[p].next THEN sym[p].prev ELSE sym[q].prev
           /\ table' = IF front = NULL THEN [table EXCEPT ![i] = sym[p].next] ELSE table
<1> DEFINE cell == sym[p].prev
           nx == sym[p].next
           a == [sym EXCEPT ![front].next = nx]
           u == IF front = NULL THEN sym ELSE a
           b == [u EXCEPT ![nx].prev = cell]
<1>1. /\ sym \in [Syms -> Buckets] /\ nx \in Syms \union {NULL} /\ NULL \notin Syms
      /\ cell \in Cells
  <2>1. sym[p].next \in Syms \union {NULL}
    BY DEF Typed, Buckets
  <2> QED BY <2>1, TableFacts DEF Typed, Cells
<1>2. /\ cell[1] = (IF front = NULL THEN "table" ELSE "next")
      /\ cell[2] = (IF front = NULL THEN i ELSE front)
  BY DEF InTable, InBucket
<1>3. /\ sym' = IF nx # NULL THEN b ELSE u
      /\ table' = IF front = NULL THEN [table EXCEPT ![i] = nx] ELSE table
  <2>1. CASE front = NULL
    BY <2>1, <1>2 DEF delsym
  <2>2. CASE front # NULL
    BY <2>2, <1>2 DEF delsym
  <2> QED BY <2>1, <2>2
<1> HIDE DEF nx, cell
<1>4. /\ u \in [Syms -> Buckets]
      /\ \A q \in Syms : /\ u[q].next = IF q = front THEN nx ELSE sym[q].next
                         /\ u[q].name = sym[q].name /\ u[q].prev = sym[q].prev
  <2>1. CASE front = NULL
    BY <2>1, <1>1
  <2>2. CASE front # NULL
    <3>1. /\ a \in [Syms -> Buckets]
          /\ \A q \in Syms : /\ a[q].next = IF q = front THEN nx ELSE sym[q].next
                             /\ a[q].name = sym[q].name /\ a[q].prev = sym[q].prev
      BY <1>1, <2>2, FieldWritten
    <3> HIDE DEF a
    <3> QED BY <3>1, <2>2
  <2> QED BY <2>1, <2>2
<1> HIDE DEF u
<1>5. CASE nx = NULL
  BY <1>1, <1>3, <1>4, <1>5 DEF nx, cell
<1>6. CASE nx # NULL
  <2>1. /\ b \in [Syms -> Buckets]
        /\ \A q \in Syms : /\ b[q].prev = IF q = nx THEN cell ELSE u[q].prev
                           /\ b[q].name = u[q].name /\ b[q].next = u[q].next
    BY <1>1, <1>4, <1>6, FieldWritten
  <2> HIDE DEF b
  <2> QED BY <1>3, <1>4, <1>6, <2>1 DEF nx, cell
<1> QED BY <1>5, <1>6

\* delsym() takes the symbol out of its chain and leaves the others alone
\* (hash.c:64-74).
LEMMA DelKeeps ==
    ASSUME IInv, NEW c, c = Chains, NEW p \in Syms, delsym(p),
           NEW i \in 0..SIZE-1, NEW k \in 1..Len(c[i]), p = c[i][k]
    PROVE  /\ IInv' /\ Linked([c EXCEPT ![i] = RemoveAt(@, k)])'
           /\ \A q \in Syms : sym'[q].name = sym[q].name
<1> DEFINE s == c[i]
           t == RemoveAt(s, k)
           d == [c EXCEPT ![i] = t]
           front == IF k = 1 THEN NULL ELSE s[k-1]
           nx == IF k = Len(s) THEN NULL ELSE s[k+1]
<1>1. /\ c \in [0..SIZE-1 -> Seq(Syms)] /\ Linked(c) /\ Typed
      /\ numsyms = Cardinality(Members(c))
  <2>1. Linked(c) /\ Typed /\ numsyms = Cardinality(Members(c))
    BY DEF IInv
  <2> QED BY <2>1 DEF Linked
<1>2. \A h \in 0..SIZE-1 : \A m, l \in 1..Len(c[h]) : c[h][m] = c[h][l] => m = l
  BY <1>1 DEF Linked
<1>3. ASSUME NEW h \in 0..SIZE-1, NEW m \in 1..Len(c[h])
      PROVE  /\ c[h][m] \in Members(c) /\ c[h][m] \in Syms /\ c[h][m] \in used
             /\ Slot(sym[c[h][m]].name) = h
             /\ sym[c[h][m]].next = IF m = Len(c[h]) THEN NULL ELSE c[h][m+1]
             /\ sym[c[h][m]].prev = IF m = 1 THEN InTable(h) ELSE InBucket(c[h][m-1])
  <2>1. c[h][m] \in Members(c) /\ Members(c) \in SUBSET Syms
    BY <1>1, MemberAt
  <2> QED BY <2>1, <1>1 DEF Linked
<1>4. /\ s \in Seq(Syms) /\ Len(s) \in Nat /\ k \in 1..Len(s) /\ k \in Nat
      /\ t \in Seq(Syms) /\ Len(t) = Len(s) - 1
      /\ \A j \in 1..Len(s)-1 : t[j] = IF j < k THEN s[j] ELSE s[j+1]
      /\ \A j \in 1..Len(s) : s[j] \in Syms
  BY <1>1, Without, LenProperties, ElementOfSeq
<1>5. NULL \notin Syms
  BY TableFacts
<1>6. /\ s[k] = p /\ sym[p].next = nx
      /\ sym[p].prev = IF front = NULL THEN InTable(i) ELSE InBucket(front)
      /\ front \in Syms \union {NULL} /\ (front = NULL <=> k = 1)
      /\ nx \in Syms \union {NULL} /\ (nx = NULL <=> k = Len(s))
  <2>1. /\ sym[p].next = IF k = Len(c[i]) THEN NULL ELSE c[i][k+1]
        /\ sym[p].prev = IF k = 1 THEN InTable(i) ELSE InBucket(c[i][k-1])
    BY <1>3
  <2>2. k # 1 => s[k-1] \in Syms
    BY <1>4
  <2>3. k # Len(s) => s[k+1] \in Syms
    BY <1>4
  <2> QED BY <2>1, <2>2, <2>3, <1>5
<1>7. /\ sym' \in [Syms -> Buckets]
      /\ \A q \in Syms :
           /\ sym'[q].name = sym[q].name
           /\ sym'[q].next = IF q = front THEN nx ELSE sym[q].next
           /\ sym'[q].prev = IF q = nx THEN sym[p].prev ELSE sym[q].prev
      /\ table' = IF front = NULL THEN [table EXCEPT ![i] = nx] ELSE table
  <2> HIDE DEF front, nx
  <2> QED BY <1>1, <1>6, DelWrites
<1>8. used' = used /\ numsyms' = numsyms - 1
  BY DEF delsym
<1>9. ASSUME NEW m \in 1..Len(s)
      PROVE  /\ s[m] = front <=> m = k - 1
             /\ s[m] = nx <=> m = k + 1
  <2>1. \A j, l \in 1..Len(s) : s[j] = s[l] => j = l
    BY <1>2
  <2>2. s[m] \in Syms
    BY <1>4
  <2>3. s[m] = front <=> m = k - 1
    <3>1. CASE k = 1
      BY <3>1, <2>2, <1>5, <1>4
    <3>2. CASE k # 1
      <4>1. k - 1 \in 1..Len(s)
        BY <3>2, <1>4
      <4> QED BY <4>1, <3>2, <2>1
    <3> QED BY <3>1, <3>2
  <2>4. s[m] = nx <=> m = k + 1
    <3>1. CASE k = Len(s)
      BY <3>1, <2>2, <1>5, <1>4
    <3>2. CASE k # Len(s)
      <4>1. k + 1 \in 1..Len(s)
        BY <3>2, <1>4
      <4> QED BY <4>1, <3>2, <2>1
    <3> QED BY <3>1, <3>2
  <2> QED BY <2>3, <2>4
<1>10. ASSUME NEW h \in 0..SIZE-1, h # i, NEW m \in 1..Len(c[h])
       PROVE  c[h][m] # front /\ c[h][m] # nx
  <2>1. Slot(sym[c[h][m]].name) = h /\ c[h][m] \in Syms
    BY <1>3
  <2>2. ASSUME NEW j \in 1..Len(s) PROVE c[h][m] # s[j]
    <3>1. Slot(sym[c[i][j]].name) = i
      BY <1>3
    <3> QED BY <3>1, <2>1, <1>10
  <2>3. c[h][m] # front
    <3>1. CASE k = 1
      BY <3>1, <2>1, <1>5
    <3>2. CASE k # 1
      <4>1. k - 1 \in 1..Len(s)
        BY <3>2, <1>4
      <4> QED BY <4>1, <3>2, <2>2
    <3> QED BY <3>1, <3>2
  <2>4. c[h][m] # nx
    <3>1. CASE k = Len(s)
      BY <3>1, <2>1, <1>5
    <3>2. CASE k # Len(s)
      <4>1. k + 1 \in 1..Len(s)
        BY <3>2, <1>4
      <4> QED BY <4>1, <3>2, <2>2
    <3> QED BY <3>1, <3>2
  <2> QED BY <2>3, <2>4
<1> HIDE DEF t
<1>11. /\ d \in [0..SIZE-1 -> Seq(Syms)] /\ d[i] = t
       /\ \A h \in 0..SIZE-1 : h # i => d[h] = c[h]
  BY <1>1, <1>4
<1> HIDE DEF d
<1>12. Typed'
  BY <1>1, <1>6, <1>7, <1>8 DEF Typed
<1>13. ASSUME NEW j \in 1..Len(t)
       PROVE  \E m \in 1..Len(s) : /\ m = (IF j < k THEN j ELSE j + 1) /\ m # k
                                   /\ t[j] = s[m]
  <2>1. j \in 1..Len(s)-1 /\ t[j] = IF j < k THEN s[j] ELSE s[j+1]
    BY <1>4
  <2>2. CASE j < k
    <3>1. j \in 1..Len(s) /\ j # k
      BY <2>1, <2>2, <1>4
    <3> QED BY <3>1, <2>1, <2>2
  <2>3. CASE ~(j < k)
    <3>1. j + 1 \in 1..Len(s) /\ j + 1 # k
      BY <2>1, <2>3, <1>4
    <3> QED BY <3>1, <2>1, <2>3
  <2> QED BY <2>2, <2>3
<1>14. \A m \in 1..Len(s) : m # k => \E j \in 1..Len(t) : s[m] = t[j]
  <2> SUFFICES ASSUME NEW m \in 1..Len(s), m # k PROVE \E j \in 1..Len(t) : s[m] = t[j]
    OBVIOUS
  <2>1. CASE m < k
    <3>1. m \in 1..Len(s)-1 /\ m \in 1..Len(t)
      BY <2>1, <1>4
    <3>2. t[m] = s[m]
      BY <2>1, <3>1, <1>4
    <3> QED BY <3>1, <3>2
  <2>2. CASE ~(m < k)
    <3>1. m - 1 \in 1..Len(s)-1 /\ m - 1 \in 1..Len(t) /\ ~(m - 1 < k) /\ (m - 1) + 1 = m
      BY <2>2, <1>4
    <3>2. t[m-1] = s[m]
      BY <3>1, <1>4
    <3> QED BY <3>1, <3>2
  <2> QED BY <2>1, <2>2
<1>15. \A j \in 1..Len(t) : t[j] = IF j < k THEN s[j] ELSE s[j+1]
  BY <1>4
<1>16. Linked(d)'
  <2>1. ASSUME NEW h \in 0..SIZE-1
        PROVE  table'[h] = IF Len(d[h]) = 0 THEN NULL ELSE d[h][1]
    <3>0. /\ table \in [0..SIZE-1 -> Syms \union {NULL}]
          /\ \A g \in 0..SIZE-1 : table[g] = IF Len(c[g]) = 0 THEN NULL ELSE c[g][1]
      BY <1>1 DEF Linked, Typed
    <3>1. CASE h # i
      <4>1. table'[h] = table[h]
        BY <3>0, <3>1, <1>7
      <4> QED BY <4>1, <3>0, <3>1, <1>11
    <3>2. CASE h = i /\ k = 1
      <4>1. table'[i] = nx
        BY <3>0, <3>2, <1>6, <1>7
      <4>2. k = Len(s) <=> Len(t) = 0
        BY <3>2, <1>4
      <4>3. k # Len(s) => t[1] = s[k+1]
        <5>1. k # Len(s) => 1 \in 1..Len(t)
          <6>1. k = 1 /\ Len(t) = Len(s) - 1 /\ Len(s) \in Nat /\ 1 <= Len(s)
            BY <3>2, <1>4
          <6> SUFFICES ASSUME k # Len(s) PROVE Len(t) >= 1 /\ Len(t) \in Nat
            OBVIOUS
          <6> HIDE DEF s
          <6> QED BY <6>1
        <5> QED BY <5>1, <1>15, <3>2
      <4> QED BY <4>1, <4>2, <4>3, <3>2, <1>11
    <3>3. CASE h = i /\ k # 1
      <4>1. table'[i] = table[i] /\ table[i] = s[1]
        BY <3>0, <3>3, <1>4, <1>6, <1>7
      <4>2. Len(t) # 0 /\ 1 \in 1..Len(t) /\ 1 < k
        BY <3>3, <1>4
      <4>3. t[1] = s[1]
        BY <4>2, <1>15
      <4> QED BY <4>1, <4>2, <4>3, <3>3, <1>11
    <3> QED BY <3>1, <3>2, <3>3
  <2>2. ASSUME NEW h \in 0..SIZE-1, h # i, NEW j \in 1..Len(d[h])
        PROVE  /\ d[h][j] \in used'
               /\ Slot(sym'[d[h][j]].name) = h
               /\ sym'[d[h][j]].next = IF j = Len(d[h]) THEN NULL ELSE d[h][j+1]
               /\ sym'[d[h][j]].prev = IF j = 1 THEN InTable(h) ELSE InBucket(d[h][j-1])
    <3>1. d[h] = c[h] /\ j \in 1..Len(c[h])
      BY <2>2, <1>11
    <3>2. /\ c[h][j] \in Syms /\ c[h][j] \in used
          /\ Slot(sym[c[h][j]].name) = h
          /\ sym[c[h][j]].next = IF j = Len(c[h]) THEN NULL ELSE c[h][j+1]
          /\ sym[c[h][j]].prev = IF j = 1 THEN InTable(h) ELSE InBucket(c[h][j-1])
      BY <3>1, <1>3
    <3>3. c[h][j] # front /\ c[h][j] # nx
      BY <3>1, <2>2, <1>10
    <3> HIDE DEF front, nx
    <3> QED BY <3>1, <3>2, <3>3, <1>7, <1>8
  <2>3. ASSUME NEW j \in 1..Len(t)
        PROVE  /\ t[j] \in used'
               /\ Slot(sym'[t[j]].name) = i
               /\ sym'[t[j]].next = IF j = Len(t) THEN NULL ELSE t[j+1]
               /\ sym'[t[j]].prev = IF j = 1 THEN InTable(i) ELSE InBucket(t[j-1])
    <3>1. PICK m \in 1..Len(s) : m = (IF j < k THEN j ELSE j + 1) /\ m # k /\ t[j] = s[m]
      BY <1>13
    <3>2. /\ s[m] \in Syms /\ s[m] \in used /\ Slot(sym[s[m]].name) = i
          /\ sym[s[m]].next = IF m = Len(s) THEN NULL ELSE s[m+1]
          /\ sym[s[m]].prev = IF m = 1 THEN InTable(i) ELSE InBucket(s[m-1])
      BY <1>3
    <3>3. /\ sym'[t[j]].name = sym[s[m]].name
          /\ sym'[t[j]].next = IF m = k - 1 THEN nx ELSE sym[s[m]].next
          /\ sym'[t[j]].prev = IF m = k + 1 THEN sym[p].prev ELSE sym[s[m]].prev
      <4> HIDE DEF front, nx
      <4> QED BY <3>1, <3>2, <1>7, <1>9, SMTT(30)
    <3>4. j \in Nat /\ 1 <= j /\ j <= Len(s) - 1 /\ Len(s) \in Nat /\ Len(t) = Len(s) - 1 /\ k \in Nat
          /\ 1 <= k /\ k <= Len(s)
      BY <1>4
    <3>5. sym'[t[j]].next = IF j = Len(t) THEN NULL ELSE t[j+1]
      <4>1. CASE m = k - 1
        <5>1. j = k - 1 /\ (j = Len(t) <=> k = Len(s))
          BY <4>1, <3>1, <3>4
        <5>2. j # Len(t) => j + 1 \in 1..Len(t) /\ j + 1 = k
          BY <5>1, <3>4
        <5>3. j # Len(t) => t[j+1] = s[k+1]
          BY <5>2, <3>4, <1>15
        <5> QED BY <5>1, <5>3, <4>1, <3>3
      <4>2. CASE m # k - 1 /\ j < k
        <5>1. m = j /\ m # Len(s) /\ j # Len(t) /\ j + 1 \in 1..Len(t) /\ j + 1 < k
          BY <4>2, <3>1, <3>4
        <5>2. t[j+1] = s[j+1]
          BY <5>1, <1>15
        <5> QED BY <5>1, <5>2, <4>2, <3>2, <3>3
      <4>3. CASE m # k - 1 /\ ~(j < k)
        <5>1. m = j + 1 /\ (m = Len(s) <=> j = Len(t))
          BY <4>3, <3>1, <3>4
        <5>2. j # Len(t) => j + 1 \in 1..Len(t) /\ ~(j + 1 < k)
          BY <4>3, <3>4
        <5>3. j # Len(t) => t[j+1] = s[m+1]
          BY <5>1, <5>2, <1>15
        <5> QED BY <5>1, <5>3, <4>3, <3>2, <3>3
      <4> QED BY <4>1, <4>2, <4>3
    <3>6. sym'[t[j]].prev = IF j = 1 THEN InTable(i) ELSE InBucket(t[j-1])
      <4>1. CASE m = k + 1
        <5>1. j = k
          BY <4>1, <3>1, <3>4
        <5>2. j # 1 => j - 1 \in 1..Len(t) /\ j - 1 < k
          BY <5>1, <3>4
        <5>3. j # 1 => t[j-1] = s[k-1]
          BY <5>1, <5>2, <1>15
        <5>4. sym[p].prev = IF k = 1 THEN InTable(i) ELSE InBucket(s[k-1])
          BY <1>6
        <5> QED BY <5>1, <5>3, <5>4, <4>1, <3>3
      <4>2. CASE m # k + 1 /\ j < k
        <5>1. m = j
          BY <4>2, <3>1, <3>4
        <5>2. j # 1 => j - 1 \in 1..Len(t) /\ j - 1 < k
          BY <4>2, <3>4
        <5>3. j # 1 => t[j-1] = s[j-1]
          BY <5>2, <1>15
        <5> QED BY <5>1, <5>3, <4>2, <3>2, <3>3
      <4>3. CASE m # k + 1 /\ ~(j < k)
        <5>1. m = j + 1 /\ m # 1 /\ j # 1 /\ j - 1 \in 1..Len(t) /\ ~(j - 1 < k)
              /\ (j - 1) + 1 = m - 1
          BY <4>3, <3>1, <3>4, SMTT(30)
        <5>2. t[j-1] = s[m-1]
          BY <5>1, <1>15
        <5> QED BY <5>1, <5>2, <4>3, <3>2, <3>3
      <4> QED BY <4>1, <4>2, <4>3
    <3> QED BY <3>1, <3>2, <3>3, <3>5, <3>6, <1>8
  <2>4. ASSUME NEW h \in 0..SIZE-1, NEW j \in 1..Len(d[h]), NEW l \in 1..Len(d[h]),
               d[h][j] = d[h][l]
        PROVE  j = l
    <3>1. CASE h # i
      BY <3>1, <2>4, <1>2, <1>11
    <3>2. CASE h = i
      <4>0. j \in 1..Len(t) /\ l \in 1..Len(t) /\ t[j] = t[l]
        BY <3>2, <2>4, <1>11
      <4>1. PICK m \in 1..Len(s) : m = (IF j < k THEN j ELSE j + 1) /\ m # k /\ t[j] = s[m]
        BY <4>0, <1>13
      <4>2. PICK n \in 1..Len(s) : n = (IF l < k THEN l ELSE l + 1) /\ n # k /\ t[l] = s[n]
        BY <4>0, <1>13
      <4>3. m = n
        <5>1. \A f, g \in 1..Len(s) : s[f] = s[g] => f = g
          BY <1>2
        <5> QED BY <4>0, <4>1, <4>2, <5>1
      <4>4. j \in Nat /\ l \in Nat /\ k \in Nat
        BY <4>0, <1>4
      <4> QED BY <4>1, <4>2, <4>3, <4>4
    <3> QED BY <3>1, <3>2
  <2>5. \A h \in 0..SIZE-1 : \A j \in 1..Len(d[h]) :
            /\ d[h][j] \in used'
            /\ Slot(sym'[d[h][j]].name) = h
            /\ sym'[d[h][j]].next = IF j = Len(d[h]) THEN NULL ELSE d[h][j+1]
            /\ sym'[d[h][j]].prev = IF j = 1 THEN InTable(h) ELSE InBucket(d[h][j-1])
    <3> SUFFICES ASSUME NEW h \in 0..SIZE-1, NEW j \in 1..Len(d[h])
                 PROVE  /\ d[h][j] \in used'
                        /\ Slot(sym'[d[h][j]].name) = h
                        /\ sym'[d[h][j]].next = IF j = Len(d[h]) THEN NULL ELSE d[h][j+1]
                        /\ sym'[d[h][j]].prev = IF j = 1 THEN InTable(h) ELSE InBucket(d[h][j-1])
      OBVIOUS
    <3>1. CASE h # i
      BY <3>1, <2>2
    <3>2. CASE h = i
      BY <3>2, <2>3, <1>11
    <3> QED BY <3>1, <3>2
  <2> QED BY <1>11, <2>1, <2>4, <2>5 DEF Linked
<1>17. Members(d) = Members(c) \ {p}
  <2>1. ASSUME NEW q \in Members(d) PROVE q \in Members(c) /\ q # p
    <3>1. PICK h \in 0..SIZE-1 : \E j \in 1..Len(d[h]) : q = d[h][j]
      BY <1>11, MemberAt
    <3>2. PICK j \in 1..Len(d[h]) : q = d[h][j]
      BY <3>1
    <3>3. CASE h # i
      <4>1. j \in 1..Len(c[h]) /\ q = c[h][j]
        BY <3>2, <3>3, <1>11
      <4>2. Slot(sym[q].name) = h /\ Slot(sym[p].name) = i /\ q \in Members(c)
        BY <4>1, <1>3
      <4> QED BY <4>2, <3>3
    <3>4. CASE h = i
      <4>1. PICK m \in 1..Len(s) : m # k /\ q = s[m]
        BY <3>2, <3>4, <1>11, <1>13
      <4>2. s[m] # s[k] /\ s[m] \in Members(c)
        BY <4>1, <1>2, <1>3
      <4> QED BY <4>1, <4>2, <1>6
    <3> QED BY <3>3, <3>4
  <2>2. ASSUME NEW q \in Members(c), q # p PROVE q \in Members(d)
    <3>1. PICK h \in 0..SIZE-1 : \E j \in 1..Len(c[h]) : q = c[h][j]
      BY <1>1, MemberAt
    <3>2. PICK j \in 1..Len(c[h]) : q = c[h][j]
      BY <3>1
    <3>3. \A g \in 0..SIZE-1 : \A l \in 1..Len(d[g]) : d[g][l] \in Members(d)
      BY <1>11, MemberAt
    <3>4. CASE h # i
      BY <3>2, <3>3, <3>4, <1>11
    <3>5. CASE h = i
      <4>1. j \in 1..Len(s) /\ q = s[j] /\ j # k
        BY <3>2, <3>5, <2>2
      <4>2. PICK l \in 1..Len(t) : q = t[l]
        BY <4>1, <1>14
      <4> QED BY <4>2, <3>3, <1>11
    <3> QED BY <3>4, <3>5
  <2> QED BY <2>1, <2>2
<1>18. numsyms' = Cardinality(Members(d))
  <2>1. IsFiniteSet(Members(c))
    BY <1>1, MemberAt, TableFacts, FS_Subset
  <2>2. p \in Members(c)
    BY <1>3
  <2>3. Cardinality(Members(c) \ {p}) = Cardinality(Members(c)) - 1
    BY <2>1, <2>2, FS_RemoveElement
  <2> QED BY <2>3, <1>1, <1>8, <1>17
<1>19. IInv'
  BY <1>12, <1>16, <1>18, ChainsReadNext
<1> QED BY <1>7, <1>16, <1>19 DEF d, t

\* Every call keeps the invariant.
LEMMA NextHolds == IInv /\ [Next]_vars => IInv'
<1> SUFFICES ASSUME IInv, [Next]_vars PROVE IInv'
  OBVIOUS
<1>0. PICK c : c = Chains
  OBVIOUS
<1>1. ASSUME NEW p \in Syms, NEW n \in Names, newsym(p, n) PROVE IInv'
  BY <1>0, <1>1, NewKeeps
<1>2. ASSUME NEW p \in Syms, freesym(p) PROVE IInv'
  BY <1>0, <1>2, FreeKeeps
<1>3. ASSUME NEW p \in Syms, addsym(p) PROVE IInv'
  <2>1. Slot(sym[p].name) \in 0..SIZE-1
    BY <1>3, TableFacts DEF addsym, IInv, Typed
  <2> QED BY <1>0, <1>3, <2>1, AddKeeps
<1>4. ASSUME NEW p \in Syms, delsym(p) PROVE IInv'
  <2>1. p \in Members(c) /\ c \in [0..SIZE-1 -> Seq(Syms)]
    <3>1. Linked(c)
      BY <1>0 DEF IInv
    <3>2. p \in Members(c)
      BY <1>0, <1>4 DEF delsym, InChains, Members
    <3> QED BY <3>1, <3>2 DEF Linked
  <2>2. PICK i \in 0..SIZE-1 : \E k \in 1..Len(c[i]) : p = c[i][k]
    BY <2>1, MemberAt
  <2> QED BY <1>0, <1>4, <2>2, DelKeeps
<1>5. CASE UNCHANGED vars
  <2>1. Typed' /\ numsyms' = numsyms
    BY <1>5 DEF vars, IInv, Typed
  <2>2. Linked(c)'
    BY <1>0, <1>5 DEF vars, IInv, Linked
  <2> QED BY <1>0, <2>1, <2>2, ChainsReadNext DEF IInv
<1> QED BY <1>1, <1>2, <1>3, <1>4, <1>5 DEF Next

\* The chains are linked as they should be after any sequence of calls.
THEOREM TableInvariant == Spec => []IInv
<1>1. Init => IInv
  BY InitHolds
<1>2. IInv /\ [Next]_vars => IInv'
  BY NextHolds
<1> QED BY <1>1, <1>2, PTL DEF Spec

\* Every field of a bucket and of the table has its C type, and numsyms does not pass
\* the number of symbols (hash.h; hash.c:46-74).
THEOREM TableTypes == Spec => []TypeOK
<1>1. ASSUME IInv PROVE TypeOK
  <2>1. Members(Chains) \in SUBSET Syms
    BY <1>1, MemberAt DEF IInv, Linked
  <2>2. IsFiniteSet(Members(Chains)) /\ Cardinality(Members(Chains)) <= Cardinality(Syms)
    BY <2>1, TableFacts, FS_Subset
  <2>3. Cardinality(Members(Chains)) \in Nat
    BY <2>2, FS_CardinalityType
  <2>4. numsyms \in 0..Cardinality(Syms)
    BY <1>1, <2>2, <2>3, TableFacts DEF IInv
  <2> QED BY <1>1, <2>4 DEF TypeOK, IInv, Typed, Buckets, Cells
<1>2. IInv => TypeOK
  BY <1>1
<1> QED BY <1>2, TableInvariant, PTL

-----------------------------------------------------------------------------
(* What ptab() lists *)

\* ptab() lists the chains one after the other (hash.c:117-124).
LEMMA PtabIs ==
    ASSUME NEW c \in [0..SIZE-1 -> Seq(Syms)], c = Chains
    PROVE  \E f \in [0..SIZE -> Seq(Syms)] :
               /\ f[0] = <<>> /\ \A i \in 1..SIZE : f[i] = f[i-1] \o c[i-1]
               /\ ptab = f[SIZE]
<1> DEFINE V == Seq(Syms)
           G(i, v) == v \o c[i-1]
           T == [i \in 1..SIZE |-> [v \in V |-> G(i, v)]]
           Fits(f) == f = [i \in 0..SIZE |-> IF i = 0 THEN <<>> ELSE G(i, f[i-1])]
           all == CHOOSE f : Fits(f)
<1>1. SIZE \in Nat /\ <<>> \in V
  BY TableFacts, EmptySeq
<1>2. ASSUME NEW i \in 1..SIZE, NEW v \in V PROVE G(i, v) \in V
  <2>1. c[i-1] \in Seq(Syms)
    BY <1>1
  <2> QED BY <2>1, ConcatProperties
<1>3. ptab = all[SIZE]
  BY DEF ptab
<1> HIDE DEF G, V
<1>4. T \in [1..SIZE -> [V -> V]]
  BY <1>2
<1>5. PICK f : Defined(SIZE, V, <<>>, T, f)
  <2> HIDE DEF T
  <2> QED BY <1>1, <1>4, Recursion
<1>6. \A i \in 1..SIZE : f[i] = G(i, f[i-1])
  <2> SUFFICES ASSUME NEW i \in 1..SIZE PROVE f[i] = G(i, f[i-1])
    OBVIOUS
  <2>1. f[i] = T[i][f[i-1]] /\ f[i-1] \in V
    BY <1>1, <1>5, SMTT(30) DEF Defined
  <2>2. T[i] = [v \in V |-> G(i, v)]
    OBVIOUS
  <2> HIDE DEF T
  <2> QED BY <2>1, <2>2
<1>7. Fits(f)
  <2>1. \A i \in 0..SIZE : f[i] = IF i = 0 THEN <<>> ELSE G(i, f[i-1])
    BY <1>1, <1>5, <1>6 DEF Defined
  <2>2. f = [i \in 0..SIZE |-> f[i]]
    BY <1>5 DEF Defined
  <2> QED BY <2>1, <2>2
<1>8. Fits(all)
  BY <1>7
<1> HIDE DEF all
<1>9. all[0] = <<>> /\ \A i \in 1..SIZE : all[i] = G(i, all[i-1])
  BY <1>1, <1>8
<1>10. \A i \in 0..SIZE : all[i] = f[i]
  <2> DEFINE Q == {i \in Nat : i <= SIZE => all[i] = f[i]}
  <2>1. 0 \in Q
    BY <1>9, <1>5 DEF Defined
  <2>2. ASSUME NEW i \in Nat, i \in Q PROVE i + 1 \in Q
    <3> SUFFICES ASSUME i + 1 <= SIZE PROVE all[i+1] = f[i+1]
      OBVIOUS
    <3>1. all[i] = f[i] /\ i + 1 \in 1..SIZE /\ (i + 1) - 1 = i
      BY <1>1, <2>2
    <3>2. all[i+1] = G(i + 1, all[i]) /\ f[i+1] = G(i + 1, f[i])
      BY <3>1, <1>6, <1>9
    <3> QED BY <3>1, <3>2
  <2>3. \A i \in Nat : i \in Q
    <3> HIDE DEF Q
    <3> QED BY <2>1, <2>2, SetInduction
  <2> QED BY <2>3, <1>1
<1>11. all \in [0..SIZE -> V]
  <2>1. all = [i \in 0..SIZE |-> all[i]]
    BY <1>8
  <2> QED BY <2>1, <1>10, <1>5 DEF Defined
<1> QED BY <1>3, <1>9, <1>11 DEF G, V

\* ptab() lists every linked symbol once.
LEMMA PtabLists ==
    ASSUME IInv
    PROVE  IsInjective(ptab) /\ Len(ptab) = numsyms
<1> DEFINE c == Chains
<1>1. /\ c \in [0..SIZE-1 -> Seq(Syms)] /\ SIZE \in Nat
      /\ \A i \in 0..SIZE-1 : /\ Len(c[i]) \in Nat /\ c[i] \in Seq(Syms)
                              /\ \A k, l \in 1..Len(c[i]) : c[i][k] = c[i][l] => k = l
                              /\ \A k \in 1..Len(c[i]) : Slot(sym[c[i][k]].name) = i
  BY TableFacts, LenProperties DEF IInv, Linked
<1>2. PICK f \in [0..SIZE -> Seq(Syms)] : /\ f[0] = <<>>
                                          /\ \A i \in 1..SIZE : f[i] = f[i-1] \o c[i-1]
                                          /\ ptab = f[SIZE]
  BY <1>1, PtabIs
<1> HIDE DEF c
<1> DEFINE Once(i) ==
               /\ \A j, l \in 1..Len(f[i]) : f[i][j] = f[i][l] => j = l
               /\ \A j \in 1..Len(f[i]) : \E h \in 0..i-1 : \E k \in 1..Len(c[h]) : f[i][j] = c[h][k]
               /\ \A h \in 0..i-1 : \A k \in 1..Len(c[h]) : \E j \in 1..Len(f[i]) : f[i][j] = c[h][k]
           Q == {i \in Nat : i <= SIZE => Once(i)}
<1>3. 0 \in Q
  BY <1>2
<1>4. ASSUME NEW i \in Nat, i \in Q PROVE i + 1 \in Q
  <2> SUFFICES ASSUME i + 1 <= SIZE PROVE Once(i + 1)
    <3> HIDE DEF Once
    <3> QED OBVIOUS
  <2>0. Once(i)
    <3> HIDE DEF Once
    <3> QED BY <1>1, <1>4
  <2> DEFINE a == f[i]
             b == c[i]
             d == a \o b
  <2>1. /\ a \in Seq(Syms) /\ b \in Seq(Syms) /\ f[i+1] = d /\ i \in 0..SIZE-1
        /\ Len(a) \in Nat /\ Len(b) \in Nat
    <3>1. i + 1 \in 1..SIZE /\ (i + 1) - 1 = i /\ i \in 0..SIZE /\ i \in 0..SIZE-1
      BY <1>1
    <3>2. f[i+1] = f[i] \o c[i]
      BY <3>1, <1>2
    <3> QED BY <3>1, <3>2, <1>1, LenProperties
  <2>2. /\ Len(d) = Len(a) + Len(b)
        /\ \A j \in 1..Len(a)+Len(b) : d[j] = IF j <= Len(a) THEN a[j] ELSE b[j-Len(a)]
    BY <2>1, ConcatProperties
  <2> HIDE DEF d
  <2>3. ASSUME NEW j \in 1..Len(d)
        PROVE  \/ j \in 1..Len(a) /\ d[j] = a[j]
               \/ \E k \in 1..Len(b) : j = Len(a) + k /\ d[j] = b[k]
    <3> HIDE DEF a, b
    <3>1. CASE j <= Len(a)
      BY <3>1, <2>1, <2>2
    <3>2. CASE ~(j <= Len(a))
      <4>1. j - Len(a) \in 1..Len(b) /\ j = Len(a) + (j - Len(a))
        BY <3>2, <2>1, <2>2
      <4>2. d[j] = b[j-Len(a)]
        BY <3>2, <2>1, <2>2
      <4> QED BY <4>1, <4>2
    <3> QED BY <3>1, <3>2
  <2>4. /\ \A j \in 1..Len(a) : j \in 1..Len(d) /\ d[j] = a[j]
        /\ \A k \in 1..Len(b) : Len(a) + k \in 1..Len(d) /\ d[Len(a)+k] = b[k]
    <3> HIDE DEF a, b
    <3>1. \A j \in 1..Len(a) : j \in 1..Len(d) /\ d[j] = a[j]
      BY <2>1, <2>2
    <3>2. ASSUME NEW k \in 1..Len(b) PROVE Len(a) + k \in 1..Len(d) /\ d[Len(a)+k] = b[k]
      <4>1. Len(a) + k \in 1..Len(a)+Len(b) /\ ~(Len(a) + k <= Len(a)) /\ (Len(a) + k) - Len(a) = k
        BY <2>1
      <4> QED BY <4>1, <2>2
    <3> QED BY <3>1, <3>2
  <2>5. ASSUME NEW j \in 1..Len(a), NEW k \in 1..Len(b) PROVE a[j] # b[k]
    <3>1. PICK h \in 0..i-1 : \E l \in 1..Len(c[h]) : a[j] = c[h][l]
      BY <2>0
    <3>2. h \in 0..SIZE-1 /\ h # i
      BY <2>1, <1>1
    <3>3. Slot(sym[a[j]].name) = h /\ Slot(sym[b[k]].name) = i
      BY <3>1, <3>2, <2>1, <1>1
    <3> QED BY <3>2, <3>3
  <2>6. ASSUME NEW j \in 1..Len(d), NEW l \in 1..Len(d), d[j] = d[l] PROVE j = l
    <3>1. CASE j \in 1..Len(a) /\ d[j] = a[j] /\ l \in 1..Len(a) /\ d[l] = a[l]
      BY <3>1, <2>0, <2>6
    <3>2. CASE (\E k \in 1..Len(b) : j = Len(a) + k /\ d[j] = b[k])
               /\ (\E k \in 1..Len(b) : l = Len(a) + k /\ d[l] = b[k])
      <4>1. PICK k \in 1..Len(b) : j = Len(a) + k /\ d[j] = b[k]
        BY <3>2
      <4>2. PICK m \in 1..Len(b) : l = Len(a) + m /\ d[l] = b[m]
        BY <3>2
      <4>3. k = m
        BY <4>1, <4>2, <2>1, <2>6, <1>1
      <4> QED BY <4>1, <4>2, <4>3
    <3>3. CASE j \in 1..Len(a) /\ d[j] = a[j] /\ \E k \in 1..Len(b) : l = Len(a) + k /\ d[l] = b[k]
      BY <3>3, <2>5, <2>6
    <3>4. CASE l \in 1..Len(a) /\ d[l] = a[l] /\ \E k \in 1..Len(b) : j = Len(a) + k /\ d[j] = b[k]
      BY <3>4, <2>5, <2>6
    <3> QED BY <3>1, <3>2, <3>3, <3>4, <2>3
  <2>7. ASSUME NEW j \in 1..Len(d)
        PROVE  \E h \in 0..i : \E k \in 1..Len(c[h]) : d[j] = c[h][k]
    <3>1. CASE j \in 1..Len(a) /\ d[j] = a[j]
      <4>1. PICK h \in 0..i-1 : \E k \in 1..Len(c[h]) : a[j] = c[h][k]
        BY <3>1, <2>0
      <4> QED BY <4>1, <3>1, SMTT(30)
    <3>2. CASE \E k \in 1..Len(b) : j = Len(a) + k /\ d[j] = b[k]
      BY <3>2
    <3> QED BY <3>1, <3>2, <2>3
  <2>8. ASSUME NEW h \in 0..i, NEW k \in 1..Len(c[h])
        PROVE  \E j \in 1..Len(d) : d[j] = c[h][k]
    <3>1. CASE h = i
      BY <3>1, <2>4
    <3>2. CASE h # i
      <4>1. h \in 0..i-1
        BY <3>2
      <4>2. PICK j \in 1..Len(a) : a[j] = c[h][k]
        BY <4>1, <2>0
      <4> QED BY <4>2, <2>4
    <3> QED BY <3>1, <3>2
  <2>9. (i + 1) - 1 = i
    OBVIOUS
  <2> QED BY <2>1, <2>6, <2>7, <2>8, <2>9
<1>5. Once(SIZE)
  <2>1. \A i \in Nat : i \in Q
    <3> HIDE DEF Q
    <3> QED BY <1>3, <1>4, SetInduction
  <2> HIDE DEF Once
  <2> QED BY <2>1, <1>1
<1> DEFINE t == f[SIZE]
<1>6. t \in Seq(Syms) /\ Len(t) \in Nat /\ DOMAIN t = 1..Len(t) /\ t \in [1..Len(t) -> Syms]
  BY <1>1, <1>2, LenProperties
<1>7. IsInjective(t)
  BY <1>5, <1>6 DEF IsInjective
<1>8. \A q \in Members(c) : \E j \in 1..Len(t) : t[j] = q
  <2> SUFFICES ASSUME NEW q \in Members(c) PROVE \E j \in 1..Len(t) : t[j] = q
    OBVIOUS
  <2>1. PICK h \in 0..SIZE-1 : \E k \in 1..Len(c[h]) : q = c[h][k]
    BY <1>1, MemberAt
  <2>2. PICK k \in 1..Len(c[h]) : q = c[h][k]
    BY <2>1
  <2>3. \E j \in 1..Len(t) : t[j] = c[h][k]
    BY <1>5
  <2> HIDE DEF t
  <2> QED BY <2>2, <2>3
<1>9. \A j \in 1..Len(t) : t[j] \in Members(c)
  <2> SUFFICES ASSUME NEW j \in 1..Len(t) PROVE t[j] \in Members(c)
    OBVIOUS
  <2>1. PICK h \in 0..SIZE-1 : \E k \in 1..Len(c[h]) : t[j] = c[h][k]
    BY <1>5
  <2>2. \A k \in 1..Len(c[h]) : c[h][k] \in Members(c)
    BY <1>1, MemberAt
  <2> QED BY <2>1, <2>2
<1>10. Len(t) = Cardinality(Members(c))
  <2>1. IsFiniteSet(Members(c))
    BY <1>1, MemberAt, TableFacts, FS_Subset
  <2>2. t \in [1..Len(t) -> Members(c)]
    BY <1>6, <1>9
  <2>3. t \in Injection(1..Len(t), Members(c)) /\ t \in Surjection(1..Len(t), Members(c))
    BY <1>6, <1>7, <1>8, <2>2 DEF Injection, Surjection
  <2>4. Cardinality(1..Len(t)) = Len(t)
    <3>1. Len(t) \in Int /\ 1 \in Int
      BY <1>6
    <3>2. Cardinality(1..Len(t)) = IF 1 > Len(t) THEN 0 ELSE Len(t) - 1 + 1
      BY <3>1, FS_Interval, Zenon
    <3> QED BY <3>2, <1>6
  <2>5. Cardinality(1..Len(t)) = Cardinality(Members(c))
    BY <2>1, <2>3, FS_Injection
  <2> QED BY <2>4, <2>5
<1>11. numsyms = Cardinality(Members(c))
  BY DEF IInv, c
<1> QED BY <1>2, <1>7, <1>10, <1>11

-----------------------------------------------------------------------------
(* Lookups *)

\* The symbols whose name is n.
Of(n) == {p \in Syms : sym[p].name = n}

\* A search for a name, in terms of the symbols selected.
LEMMA FirstNamedIs ==
    ASSUME NEW s \in Seq(Syms), NEW n
    PROVE  FirstNamed(s, n) = IF Len(Only(s, Of(n))) = 0 THEN NULL ELSE Only(s, Of(n))[1]
<1>1. \A k \in 1..Len(s) : s[k] \in Syms
  BY ElementOfSeq
<1>2. {k \in 1..Len(s) : sym[s[k]].name = n} = {k \in 1..Len(s) : s[k] \in Of(n)}
  BY <1>1 DEF Of
<1>3. FirstNamed(s, n) = First(s, Of(n))
  BY <1>2 DEF FirstNamed, First
<1>4. First(s, Of(n)) = IF Len(Only(s, Of(n))) = 0 THEN NULL ELSE Only(s, Of(n))[1]
  BY OnlyFirst
<1> QED BY <1>3, <1>4

\* Named, said of what the memory holds.
NamedIs == \A c : Linked(c) => \A n \in Names : Named(n) = Only(c[Slot(n)], Of(n))

\* It holds of every memory.
LEMMA NamedRead == NamedIs
<1> SUFFICES ASSUME NEW c, Linked(c), NEW n \in Names
             PROVE  Named(n) = Only(c[Slot(n)], Of(n))
  BY DEF NamedIs
<1>1. Slot(n) \in 0..SIZE-1
  BY TableFacts
<1>2. Chain(table[Slot(n)]) = c[Slot(n)]
  BY <1>1, ChainsRead DEF Readable
<1> QED BY <1>2 DEF Named, Of

\* findsym() and nextsym() go through the symbols of a name in their order
\* (hash.c:76-99).
LEMMA LookupsFollow == IInv => LookupsFollowChains
<1> SUFFICES ASSUME IInv, NEW n \in Names
             PROVE  LET named == Named(n)
                        after(k) == IF k = Len(named) THEN NULL ELSE named[k+1]
                    IN  /\ findsym(n) = after(0)
                        /\ \A k \in 1..Len(named) : nextsym(named[k]) = after(k)
  BY DEF LookupsFollowChains
<1> DEFINE c == Chains
           i == Slot(n)
           s == c[i]
           S == Of(n)
           w == Only(s, S)
<1>1. Linked(c) /\ i \in 0..SIZE-1 /\ s \in Seq(Syms) /\ Len(s) \in Nat
  BY TableFacts, LenProperties DEF IInv, Linked
<1> HIDE DEF c
<1>2. Named(n) = w
  BY <1>1, NamedRead DEF NamedIs
<1>3. /\ Chain(table[i]) = s
      /\ \A k \in 1..Len(s) : Chain(sym[s[k]].next) = From(s, k + 1)
  BY <1>1, ChainsRead DEF Readable
<1>4. w \in Seq(Syms) /\ Len(w) \in Nat
  BY <1>1, OnlyType, LenProperties
<1>5. findsym(n) = IF 0 = Len(w) THEN NULL ELSE w[0+1]
  <2>1. findsym(n) = FirstNamed(s, n)
    BY <1>3 DEF findsym
  <2>2. FirstNamed(s, n) = IF Len(w) = 0 THEN NULL ELSE w[1]
    BY <1>1, FirstNamedIs
  <2> QED BY <2>1, <2>2
<1>6. ASSUME NEW k \in 1..Len(w)
      PROVE  nextsym(w[k]) = IF k = Len(w) THEN NULL ELSE w[k+1]
  <2>1. PICK j \in 1..Len(s) : w[k] = s[j] /\ s[j] \in S /\ From(w, k + 1) = Only(From(s, j + 1), S)
    BY <1>1, OnlyNext
  <2>2. nextsym(w[k]) = FirstNamed(From(s, j + 1), n)
    BY <2>1, <1>3 DEF nextsym, Of
  <2>3. From(s, j + 1) \in Seq(Syms)
    <3>1. j + 1 \in 1..Len(s)+1
      BY <1>1
    <3> QED BY <3>1, <1>1, FromFacts
  <2>4. FirstNamed(From(s, j + 1), n) =
            IF Len(From(w, k + 1)) = 0 THEN NULL ELSE From(w, k + 1)[1]
    BY <2>1, <2>3, FirstNamedIs
  <2> HIDE DEF w
  <2>5. /\ Len(From(w, k + 1)) = Len(w) + 1 - (k + 1)
        /\ \A l \in 1..Len(w)+1-(k+1) : From(w, k + 1)[l] = w[(k+1)+l-1]
    <3>1. k + 1 \in 1..Len(w)+1
      BY <1>4
    <3> QED BY <3>1, <1>4, FromFacts
  <2>6. CASE k = Len(w)
    <3>1. Len(From(w, k + 1)) = 0
      BY <2>5, <2>6, <1>4
    <3> QED BY <3>1, <2>2, <2>4, <2>6
  <2>7. CASE k # Len(w)
    <3>1. 1 \in 1..Len(w)+1-(k+1) /\ (k + 1) + 1 - 1 = k + 1 /\ Len(w) + 1 - (k + 1) # 0
      BY <2>7, <1>4
    <3>2. From(w, k + 1)[1] = w[k+1] /\ Len(From(w, k + 1)) # 0
      BY <3>1, <2>5
    <3> QED BY <3>2, <2>2, <2>4, <2>7
  <2> QED BY <2>6, <2>7
<1> HIDE DEF w
<1> QED BY <1>2, <1>5, <1>6

\* The chains have no cycle, no symbol is in two places, a symbol is in the chain its
\* name hashes to, and prev of every linked bucket is where its pointer is, after any
\* sequence of additions and deletions (hash.c:46-74); numsyms is the number of linked
\* symbols (hash.c:126-137); and lookups find every symbol of a name, the newest first
\* (hash.c:76-99).
THEOREM LinksHold == Spec => []ChainsLinked
<1>1. ASSUME IInv PROVE ChainsLinked
  <2>1. IsInjective(ptab) /\ Len(ptab) = numsyms
    BY <1>1, PtabLists
  <2>2. LookupsFollowChains
    BY <1>1, LookupsFollow
  <2> QED BY <1>1, <2>1, <2>2 DEF ChainsLinked, IInv, Linked
<1>2. IInv => ChainsLinked
  BY <1>1
<1> QED BY <1>2, TableInvariant, PTL

-----------------------------------------------------------------------------
(* The table implements Definitions *)

\* What the table keeps, and how a step changes it.
Kept == [n \in Names |-> Named(n)]

\* The definitions after a step that leaves the chains d.
LEMMA KeptAfter ==
    ASSUME NEW d, Linked(d)'
    PROVE  Kept' = [n \in Names |-> Only(d[Slot(n)], Of(n)')]
<1>1. NamedIs'
  BY NamedRead, PTL
<1>2. \A n \in Names : Named(n)' = Only(d[Slot(n)], Of(n)')
  BY <1>1 DEF NamedIs, Slot
<1> QED BY <1>2 DEF Kept

\* The names of the linked symbols stay, and so do the definitions.
LEMMA KeptStays ==
    ASSUME IInv, NEW c, c = Chains, Linked(c)',
           \A q \in Members(c) : sym'[q].name = sym[q].name
    PROVE  Kept' = Kept
<1>1. Linked(c) /\ c \in [0..SIZE-1 -> Seq(Syms)]
  BY DEF IInv, Linked
<1>2. \A n \in Names : Named(n) = Only(c[Slot(n)], Of(n))
  BY <1>1, NamedRead DEF NamedIs
<1>3. Kept' = [n \in Names |-> Only(c[Slot(n)], Of(n)')]
  BY KeptAfter
<1>4. ASSUME NEW n \in Names PROVE Only(c[Slot(n)], Of(n)') = Only(c[Slot(n)], Of(n))
  <2> DEFINE s == c[Slot(n)]
  <2>1. Slot(n) \in 0..SIZE-1
    BY TableFacts
  <2>2. s \in Seq(Syms)
    BY <2>1, <1>1
  <2>3. \A j \in 1..Len(s) : s[j] \in Members(c) /\ s[j] \in Syms
    BY <2>1, <2>2, <1>1, MemberAt, ElementOfSeq
  <2>4. \A j \in 1..Len(s) : s[j] \in Of(n)' <=> s[j] \in Of(n)
    BY <2>3 DEF Of
  <2> HIDE DEF s
  <2>5. Only(s, Of(n)') = Only(s, Of(n))
    BY <2>2, <2>4, OnlySame
  <2> QED BY <2>5 DEF s
<1> QED BY <1>2, <1>3, <1>4 DEF Kept

\* A symbol that is kept under a name is linked.
LEMMA KeptLinked ==
    ASSUME IInv, NEW n \in Names, NEW q \in ToSet(Kept[n])
    PROVE  q \in Members(Chains)
<1> DEFINE c == Chains
           s == c[Slot(n)]
           w == Only(s, Of(n))
<1>1. Linked(c) /\ c \in [0..SIZE-1 -> Seq(Syms)] /\ Slot(n) \in 0..SIZE-1
  BY TableFacts DEF IInv, Linked
<1> HIDE DEF c
<1>2. Kept[n] = w
  BY <1>1, NamedRead DEF NamedIs, Kept
<1>3. s \in Seq(Syms)
  BY <1>1
<1>4. w \in Seq(Syms) /\ DOMAIN w = 1..Len(w)
  BY <1>3, OnlyType, LenProperties
<1>5. PICK m \in 1..Len(w) : q = w[m]
  BY <1>2, <1>4 DEF ToSet
<1>6. \E j \in 1..Len(s) : w[m] = s[j]
  <2>1. \A u \in Seq(Syms) : \A l \in 1..Len(Only(u, Of(n))) :
            \E j \in 1..Len(u) : Only(u, Of(n))[l] = u[j]
    BY OnlyNext
  <2> QED BY <2>1, <1>3
<1> QED BY <1>1, <1>5, <1>6, MemberAt DEF c

\* addsym() defines the name once more.
LEMMA AddDefines ==
    ASSUME IInv, NEW p \in Syms, addsym(p)
    PROVE  sym[p].name \in Names /\ Defs!Define(sym[p].name, p)
<1> DEFINE m == sym[p].name
           i == Slot(m)
<1>0. PICK c : c = Chains
  OBVIOUS
<1>1. m \in Names /\ i \in 0..SIZE-1
  BY TableFacts DEF addsym, IInv, Typed
<1>2. PICK h \in 0..SIZE-1 : h = i
  BY <1>1
<1>3. /\ Linked([c EXCEPT ![h] = <<p>> \o @])'
      /\ \A q \in Syms : sym'[q].name = sym[q].name
      /\ p \notin Members(c)
  BY <1>0, <1>2, AddKeeps
<1> DEFINE e == [c EXCEPT ![h] = <<p>> \o @]
<1>4. Linked(c) /\ c \in [0..SIZE-1 -> Seq(Syms)]
  BY <1>0 DEF IInv, Linked
<1>5. \A n \in Names : Kept[n] = Only(c[Slot(n)], Of(n))
  BY <1>4, NamedRead DEF NamedIs, Kept
<1>6. \A n : Of(n)' = Of(n)
  BY <1>3 DEF Of
<1>7. Kept' = [n \in Names |-> Only(e[Slot(n)], Of(n))]
  <2> HIDE DEF e
  <2>1. Kept' = [n \in Names |-> Only(e[Slot(n)], Of(n)')]
    BY <1>3, KeptAfter DEF e
  <2>2. \A n \in Names : Only(e[Slot(n)], Of(n)') = Only(e[Slot(n)], Of(n))
    BY <1>6
  <2> QED BY <2>1, <2>2
<1>8. ASSUME NEW n \in Names
      PROVE  Only(e[Slot(n)], Of(n)) = IF n = m THEN <<p>> \o Kept[n] ELSE Kept[n]
  <2>1. Slot(n) \in 0..SIZE-1 /\ c[Slot(n)] \in Seq(Syms)
    BY <1>4, TableFacts
  <2>2. CASE Slot(n) # h
    BY <2>1, <2>2, <1>2, <1>4, <1>5
  <2>3. CASE Slot(n) = h
    <3>1. e[Slot(n)] = <<p>> \o c[Slot(n)]
      BY <2>1, <2>3, <1>4
    <3>2. Only(<<p>> \o c[Slot(n)], Of(n)) =
              IF p \in Of(n) THEN <<p>> \o Only(c[Slot(n)], Of(n)) ELSE Only(c[Slot(n)], Of(n))
      BY <2>1, OnlyInFront, Zenon
    <3>3. p \in Of(n) <=> n = m
      BY DEF Of
    <3> QED BY <3>1, <3>2, <3>3, <1>5
  <2> QED BY <2>2, <2>3
<1>9. Kept' = [Kept EXCEPT ![m] = <<p>> \o @]
  <2> HIDE DEF e, m
  <2>1. Kept' = [n \in Names |-> IF n = m THEN <<p>> \o Kept[n] ELSE Kept[n]]
    BY <1>7, <1>8
  <2>2. Kept = [n \in Names |-> Kept[n]]
    BY DEF Kept
  <2> QED BY <2>1, <2>2, <1>1
<1>10. \A n \in Names : p \notin ToSet(Kept[n])
  BY <1>0, <1>3, KeptLinked
<1>11. \A s : Defs!ToSet(s) = ToSet(s)
  BY DEF Defs!ToSet, ToSet
<1> QED BY <1>1, <1>9, <1>10, <1>11 DEF Defs!Define, Kept

\* delsym() takes out one definition of one name.
LEMMA DelUndefines ==
    ASSUME IInv, NEW p \in Syms, delsym(p)
    PROVE  sym[p].name \in Names /\ Defs!Undefine(sym[p].name, p)
<1> DEFINE m == sym[p].name
<1>0. PICK c : c = Chains
  OBVIOUS
<1>1. Linked(c) /\ c \in [0..SIZE-1 -> Seq(Syms)] /\ p \in Members(c)
  <2>1. Linked(c)
    BY <1>0 DEF IInv
  <2>2. p \in Members(c)
    BY <1>0 DEF delsym, InChains, Members
  <2> QED BY <2>1, <2>2 DEF Linked
<1>2. PICK i \in 0..SIZE-1 : \E k \in 1..Len(c[i]) : p = c[i][k]
  BY <1>1, MemberAt
<1>3. PICK k \in 1..Len(c[i]) : p = c[i][k]
  BY <1>2
<1>4. m \in Names /\ Slot(m) = i
  BY <1>1, <1>3 DEF Linked, IInv, Typed
<1>5. /\ Linked([c EXCEPT ![i] = RemoveAt(@, k)])'
      /\ \A q \in Syms : sym'[q].name = sym[q].name
  BY <1>0, <1>3, DelKeeps
<1> DEFINE e == [c EXCEPT ![i] = RemoveAt(@, k)]
<1>6. \A n \in Names : Kept[n] = Only(c[Slot(n)], Of(n))
  BY <1>1, NamedRead DEF NamedIs, Kept
<1>7. \A n : Of(n)' = Of(n)
  BY <1>5 DEF Of
<1>8. Kept' = [n \in Names |-> Only(e[Slot(n)], Of(n))]
  <2> HIDE DEF e
  <2>1. Kept' = [n \in Names |-> Only(e[Slot(n)], Of(n)')]
    BY <1>5, KeptAfter DEF e
  <2>2. \A n \in Names : Only(e[Slot(n)], Of(n)') = Only(e[Slot(n)], Of(n))
    BY <1>7
  <2> QED BY <2>1, <2>2
<1>9. e[i] = RemoveAt(c[i], k) /\ \A h \in 0..SIZE-1 : h # i => e[h] = c[h]
  BY <1>1
<1> HIDE DEF e
<1>10. c[i] \in Seq(Syms)
  BY <1>1
<1>11. ASSUME NEW n \in Names, n # m PROVE Only(e[Slot(n)], Of(n)) = Kept[n]
  <2>1. CASE Slot(n) # i
    BY <2>1, <1>6, <1>9, TableFacts
  <2>2. CASE Slot(n) = i
    <3>1. c[i][k] \notin Of(n)
      BY <1>3, <1>11 DEF Of
    <3>2. Only(RemoveAt(c[i], k), Of(n)) = Only(c[i], Of(n))
      BY <3>1, <1>10, OnlyWithout
    <3> QED BY <3>2, <2>2, <1>6, <1>9
  <2> QED BY <2>1, <2>2
<1>12. PICK j \in 1..Len(Kept[m]) : Kept[m][j] = p /\ Only(e[i], Of(m)) = RemoveAt(Kept[m], j)
  <2>1. c[i][k] \in Of(m)
    BY <1>3 DEF Of
  <2>2. \E j \in 1..Len(Only(c[i], Of(m))) :
            /\ Only(c[i], Of(m))[j] = c[i][k]
            /\ Only(RemoveAt(c[i], k), Of(m)) = RemoveAt(Only(c[i], Of(m)), j)
    BY <2>1, <1>10, OnlyWithout
  <2>3. Kept[m] = Only(c[i], Of(m))
    BY <1>4, <1>6
  <2> HIDE DEF m
  <2> QED BY <2>2, <2>3, <1>3, <1>9
<1>13. Kept' = [Kept EXCEPT ![m] = RemoveAt(@, j)]
  <2> HIDE DEF m
  <2>1. Kept' = [n \in Names |-> IF n = m THEN RemoveAt(Kept[n], j) ELSE Kept[n]]
    BY <1>4, <1>8, <1>11, <1>12
  <2>2. Kept = [n \in Names |-> Kept[n]]
    BY DEF Kept
  <2> QED BY <2>1, <2>2, <1>4
<1>14. \A s, l : Defs!RemoveAt(s, l) = RemoveAt(s, l)
  BY DEF Defs!RemoveAt, RemoveAt
<1> QED BY <1>4, <1>12, <1>13, <1>14 DEF Defs!Undefine, Kept

\* An empty table has no definitions.
LEMMA InitKeeps == Init => Defs!Init
<1> SUFFICES ASSUME Init PROVE Kept = [n \in Names |-> <<>>]
  BY DEF Defs!Init, Kept
<1>1. IInv
  BY InitHolds
<1> DEFINE c == Chains
<1>2. Linked(c) /\ c \in [0..SIZE-1 -> Seq(Syms)]
  BY <1>1 DEF IInv, Linked
<1> HIDE DEF c
<1>3. ASSUME NEW n \in Names PROVE Named(n) = <<>>
  <2>1. Slot(n) \in 0..SIZE-1
    BY TableFacts
  <2>2. c[Slot(n)] \in Seq(Syms) /\ Len(c[Slot(n)]) \in Nat
    BY <2>1, <1>2, LenProperties
  <2>3. Len(c[Slot(n)]) = 0
    <3> SUFFICES ASSUME Len(c[Slot(n)]) # 0 PROVE FALSE
      OBVIOUS
    <3>1. 1 \in 1..Len(c[Slot(n)])
      BY <2>2
    <3>2. c[Slot(n)][1] \in used
      BY <2>1, <3>1, <1>2 DEF Linked
    <3> QED BY <3>2 DEF Init
  <2>4. Only(c[Slot(n)], Of(n)) = <<>>
    BY <2>2, <2>3, OnlyOfEmpty
  <2> QED BY <2>4, <1>2, NamedRead DEF NamedIs
<1> QED BY <1>3 DEF Kept

\* Every call is a step of Definitions or changes no definition.
LEMMA NextKeeps == IInv /\ [Next]_vars => [Defs!Next]_Kept
<1> SUFFICES ASSUME IInv, [Next]_vars PROVE [Defs!Next]_Kept
  OBVIOUS
<1>0. PICK c : c = Chains
  OBVIOUS
<1>1. ASSUME NEW p \in Syms, NEW n \in Names, newsym(p, n) PROVE Kept' = Kept
  BY <1>0, <1>1, NewKeeps, KeptStays
<1>2. ASSUME NEW p \in Syms, freesym(p) PROVE Kept' = Kept
  BY <1>0, <1>2, FreeKeeps, KeptStays
<1>3. ASSUME NEW p \in Syms, addsym(p) PROVE Defs!Next
  BY <1>3, AddDefines DEF Defs!Next
<1>4. ASSUME NEW p \in Syms, delsym(p) PROVE Defs!Next
  BY <1>4, DelUndefines DEF Defs!Next
<1>5. CASE UNCHANGED vars
  <2>1. Linked(c)'
    BY <1>0, <1>5 DEF vars, IInv, Linked
  <2>2. \A q \in Members(c) : sym'[q].name = sym[q].name
    BY <1>5 DEF vars
  <2> QED BY <1>0, <2>1, <2>2, KeptStays
<1> QED BY <1>1, <1>2, <1>3, <1>4, <1>5 DEF Next

\* The table keeps definitions as Definitions says: the newest that has not been deleted
\* is the first of its name, and a deletion disturbs no other symbol and no other name
\* (hash.c:46-74; nfa.c:251-252).
THEOREM DefinitionsKept == Spec => ImplementsDefinitions
<1>1. Init => Defs!Init
  BY InitKeeps
<1>2. IInv /\ [Next]_vars => [Defs!Next]_Kept
  BY NextKeeps
<1> QED BY <1>1, <1>2, TableInvariant, PTL DEF Spec, ImplementsDefinitions, Defs!Spec, Kept

=============================================================================
