----------------------------- MODULE BitSetProofs -----------------------------
(***************************************************************************)
(* Proofs about the set package, for every size of a word and of a new     *)
(* map, every number of sets and all members: it implements sets of        *)
(* integers, comparisons ignore the sizes of the maps, and a loop over a   *)
(* set misses no member.                                                   *)
(***************************************************************************)
EXTENDS BitSet, LeastElements

-----------------------------------------------------------------------------
(* Cells and bits *)

LEMMA WordSize == W \in Nat /\ W > 0 /\ DEFSIZE \in Nat /\ DEFSIZE > 0
BY BitSetAssumption

LEMMA TimesMonotonic ==
    ASSUME NEW m \in Nat, NEW n \in Nat, NEW k \in Nat, m <= n
    PROVE  m * k <= n * k
<1>1. PICK d \in Nat : n = m + d
  <2>1. n - m \in Nat /\ n = m + (n - m)
    OBVIOUS
  <2> QED BY <2>1
<1>2. n * k = m * k + d * k /\ d * k \in Nat /\ m * k \in Nat
  BY <1>1
<1> QED BY <1>2

LEMMA CellBit ==
    ASSUME NEW x \in Nat
    PROVE  Cell(x) \in Nat /\ Bit(x) \in 0..W-1 /\ x = Cell(x) * W + Bit(x)
BY WordSize DEF Cell, Bit

LEMMA SameCellBit ==
    ASSUME NEW x \in Nat, NEW y \in Nat, Cell(x) = Cell(y), Bit(x) = Bit(y)
    PROVE  x = y
BY CellBit

LEMMA CellBelow ==
    ASSUME NEW x \in Nat, NEW n \in Nat
    PROVE  x < n * W <=> Cell(x) < n
<1> DEFINE c == Cell(x)
<1>1. c \in Nat /\ W \in Nat /\ W > 0 /\ c * W <= x /\ x < c * W + W /\ c * W \in Nat /\ n * W \in Nat
  <2> DEFINE a == c * W
  <2>1. a \in Nat /\ c \in Nat /\ W \in Nat /\ n * W \in Nat /\ x = a + Bit(x)
        /\ Bit(x) \in 0..W-1
    BY CellBit, WordSize
  <2> HIDE DEF a
  <2>2. a <= x /\ x < a + W
    BY <2>1
  <2> QED BY <2>1, <2>2, WordSize DEF a
<1> HIDE DEF c
<1>2. CASE c < n
  <2>1. (c + 1) * W <= n * W
    BY <1>1, <1>2, TimesMonotonic
  <2>2. (c + 1) * W = c * W + W
    BY <1>1
  <2>3. x < n * W
    <3> DEFINE a == c * W
               b == n * W
    <3>1. x < a + W /\ a + W <= b /\ a \in Nat /\ b \in Nat
      BY <1>1, <2>1, <2>2
    <3> HIDE DEF a, b
    <3>2. x < b
      BY <1>1, <3>1
    <3> QED BY <3>2 DEF b
  <2> QED BY <1>2, <2>3 DEF c
<1>3. CASE ~(c < n)
  <2>1. n * W <= c * W
    BY <1>1, <1>3, TimesMonotonic
  <2>2. ~(x < n * W)
    <3> DEFINE a == c * W
               b == n * W
    <3>1. a <= x /\ b <= a /\ a \in Nat /\ b \in Nat
      BY <1>1, <2>1
    <3> HIDE DEF a, b
    <3>2. ~(x < b)
      BY <3>1
    <3> QED BY <3>2 DEF b
  <2> QED BY <1>3, <2>2 DEF c
<1> QED BY <1>2, <1>3

\* Every place of every cell is that of an integer.
LEMMA IntegerAt ==
    ASSUME NEW c \in Nat, NEW b \in 0..W-1
    PROVE  \E x \in Nat : Cell(x) = c /\ Bit(x) = b
<1> DEFINE x == c * W + b
<1>1. x \in Nat /\ W \in Nat /\ W > 0 /\ c * W \in Nat
  BY WordSize
<1>2. x < (c + 1) * W /\ ~(x < c * W)
  <2>1. (c + 1) * W = c * W + W
    BY <1>1
  <2> DEFINE a == c * W
  <2>2. a \in Nat /\ b < W /\ b \in Nat
    BY <1>1
  <2> HIDE DEF a
  <2>3. a + b < a + W /\ ~(a + b < a)
    BY <1>1, <2>2
  <2> QED BY <2>1, <2>3 DEF a
<1> HIDE DEF x
<1>3. Cell(x) < c + 1 /\ ~(Cell(x) < c)
  BY <1>1, <1>2, CellBelow
<1>4. Cell(x) = c
  BY <1>1, <1>3, CellBit
<1>5. Bit(x) = b
  <2>1. c * W + Bit(x) = c * W + b /\ Bit(x) \in Nat
    BY <1>1, <1>4, CellBit DEF x
  <2> QED BY <1>1, <2>1
<1> QED BY <1>1, <1>4, <1>5

LEMMA RoundFacts ==
    ASSUME NEW x \in Nat
    PROVE  /\ Round(x) \in Nat /\ Cell(x) < Round(x) /\ DEFSIZE <= Round(x)
           /\ Round(x) % DEFSIZE = 0
<1> DEFINE c == Cell(x)
           k == (c + DEFSIZE) \div DEFSIZE
<1>1. c \in Nat /\ DEFSIZE \in Nat /\ DEFSIZE > 0
  BY CellBit, WordSize
<1> HIDE DEF c
<1>2. k \in Nat /\ k * DEFSIZE <= c + DEFSIZE /\ c + DEFSIZE < k * DEFSIZE + DEFSIZE
  BY <1>1
<1>3. k >= 1
  BY <1>1
<1> HIDE DEF k
<1>4. k * DEFSIZE \in Nat /\ c < k * DEFSIZE /\ DEFSIZE <= k * DEFSIZE
      /\ (k * DEFSIZE) % DEFSIZE = 0
  <2>1. 1 * DEFSIZE <= k * DEFSIZE /\ 1 * DEFSIZE = DEFSIZE
    BY <1>1, <1>2, <1>3, TimesMonotonic
  <2>2. (k * DEFSIZE) % DEFSIZE = 0
    BY <1>1, <1>2
  <2> DEFINE a == k * DEFSIZE
  <2>3. a \in Nat /\ c + DEFSIZE < a + DEFSIZE /\ DEFSIZE <= a
    BY <1>1, <1>2, <2>1
  <2> HIDE DEF a
  <2>4. c < a
    BY <1>1, <2>3
  <2> QED BY <2>2, <2>3, <2>4 DEF a
<1> QED BY <1>4 DEF Round, c, k

LEMMA RoundMonotonic ==
    ASSUME NEW x \in Nat, NEW y \in Nat, x <= y
    PROVE  Round(x) <= Round(y)
<1> DEFINE c == Cell(x)
           d == Cell(y)
<1>1. c \in Nat /\ d \in Nat /\ c <= d
  <2>1. y < (d + 1) * W
    BY CellBit, CellBelow
  <2>2. x < (d + 1) * W
    BY <2>1, CellBit, WordSize
  <2> QED BY <2>2, CellBit, CellBelow
<1> HIDE DEF c, d
<1> DEFINE k == (c + DEFSIZE) \div DEFSIZE
           l == (d + DEFSIZE) \div DEFSIZE
<1>2. k \in Nat /\ l \in Nat /\ k <= l
  BY <1>1, WordSize
<1> HIDE DEF k, l
<1>3. k * DEFSIZE <= l * DEFSIZE
  BY <1>2, WordSize, TimesMonotonic
<1> QED BY <1>3 DEF Round, c, d, k, l

-----------------------------------------------------------------------------
(* Sets: their words, and the members the words stand for *)

\* No map is longer than the greatest integer that is put into a set makes it.
MaxSize == Round(Max(Bits))

Maps == UNION {[0..n-1 -> Word] : n \in Nat}

SETs == [nsize : Nat, nbits : Nat, compl : BOOLEAN, map : Maps]

WellFormed(s) ==
    /\ s \in SETs
    /\ s.nsize \in 1..MaxSize /\ s.nsize % DEFSIZE = 0
    /\ s.nbits = s.nsize * W
    /\ s.map \in [0..s.nsize-1 -> Word]

\* The word of a cell; the cells behind the map are empty.
WordAt(s, i) == IF i < s.nsize THEN s.map[i] ELSE {}

LEMMA MaxSizeFacts ==
    /\ MaxSize \in Nat /\ DEFSIZE <= MaxSize
    /\ \A x \in Bits : x \in Nat /\ Round(x) <= MaxSize
<1>1. PICK m \in Bits : \A y \in Bits : y <= m
  BY BitSetAssumption
<1>2. m \in Nat /\ Bits \in SUBSET Nat /\ Bits # {}
  BY <1>1, BitSetAssumption
<1>3. Max(Bits) \in Bits /\ \A y \in Bits : y <= Max(Bits)
  BY <1>1, <1>2, MaxNat
<1>4. Max(Bits) \in Nat
  BY <1>2, <1>3
<1> QED BY <1>2, <1>3, <1>4, RoundFacts, RoundMonotonic DEF MaxSize

LEMMA WordAtIsWord ==
    ASSUME NEW s, WellFormed(s), NEW i \in Nat
    PROVE  WordAt(s, i) \in SUBSET (0..W-1)
BY DEF WellFormed, WordAt, Word

LEMMA MemberIsBit ==
    ASSUME NEW s, WellFormed(s), NEW x \in Nat
    PROVE  /\ x \in Members(s) <=> Bit(x) \in WordAt(s, Cell(x))
           /\ MEMBER(s, x) <=> x \in Members(s)
<1>1. s.nsize \in Nat /\ s.nbits = s.nsize * W /\ s.nbits \in Nat
  BY DEF WellFormed, SETs
<1>2. x < s.nbits <=> Cell(x) < s.nsize
  BY <1>1, CellBelow
<1>3. x \in 0..s.nbits-1 <=> x < s.nbits
  BY <1>1
<1> QED BY <1>1, <1>2, <1>3 DEF Members, MEMBER, WordAt

LEMMA MembersAreNat ==
    ASSUME NEW s, WellFormed(s)
    PROVE  /\ Members(s) \in SUBSET Nat /\ s.nbits \in Nat /\ Members(s) \subseteq 0..s.nbits-1
           /\ s.nsize \in Nat /\ s.nbits = s.nsize * W
BY DEF WellFormed, SETs, Members

\* One set includes another if its words do.
LEMMA SubsetByWords ==
    ASSUME NEW s, WellFormed(s), NEW t, WellFormed(t)
    PROVE  Members(s) \subseteq Members(t) <=> \A i \in Nat : WordAt(s, i) \subseteq WordAt(t, i)
<1>1. ASSUME Members(s) \subseteq Members(t), NEW i \in Nat, NEW b \in WordAt(s, i)
      PROVE  b \in WordAt(t, i)
  <2>1. b \in 0..W-1
    BY WordAtIsWord
  <2>2. PICK x \in Nat : Cell(x) = i /\ Bit(x) = b
    BY <2>1, IntegerAt
  <2> QED BY <1>1, <2>2, MemberIsBit
<1>2. ASSUME \A i \in Nat : WordAt(s, i) \subseteq WordAt(t, i), NEW x \in Members(s)
      PROVE  x \in Members(t)
  <2>1. x \in Nat /\ Cell(x) \in Nat
    BY MembersAreNat, CellBit
  <2> QED BY <1>2, <2>1, MemberIsBit
<1> QED BY <1>1, <1>2

\* Two sets have the same members if they have the same words.
LEMMA EqualByWords ==
    ASSUME NEW s, WellFormed(s), NEW t, WellFormed(t)
    PROVE  Members(s) = Members(t) <=> \A i \in Nat : WordAt(s, i) = WordAt(t, i)
<1>1. Members(s) = Members(t) <=> (Members(s) \subseteq Members(t) /\ Members(t) \subseteq Members(s))
  OBVIOUS
<1>2. (\A i \in Nat : WordAt(s, i) = WordAt(t, i))
      <=> ((\A i \in Nat : WordAt(s, i) \subseteq WordAt(t, i))
           /\ (\A i \in Nat : WordAt(t, i) \subseteq WordAt(s, i)))
  OBVIOUS
<1>3. Members(s) \subseteq Members(t) <=> \A i \in Nat : WordAt(s, i) \subseteq WordAt(t, i)
  BY SubsetByWords
<1>4. Members(t) \subseteq Members(s) <=> \A i \in Nat : WordAt(t, i) \subseteq WordAt(s, i)
  BY SubsetByWords
<1> QED BY <1>1, <1>2, <1>3, <1>4

-----------------------------------------------------------------------------
(* The operations *)

\* A set with another map: n words, the i-th of them w[i].
Mapped(s, n, w) == [s EXCEPT !.nsize = n, !.nbits = n * W, !.map = w]

LEMMA MappedFacts ==
    ASSUME NEW s, WellFormed(s), NEW n \in 1..MaxSize, n % DEFSIZE = 0, NEW w \in [0..n-1 -> Word]
    PROVE  LET r == Mapped(s, n, w)
           IN  /\ WellFormed(r) /\ r.compl = s.compl /\ r.nsize = n /\ r.map = w
               /\ r.nbits = n * W
               /\ \A i \in Nat : WordAt(r, i) = IF i < n THEN w[i] ELSE {}
<1> DEFINE r == Mapped(s, n, w)
<1>1. n \in Nat /\ n * W \in Nat /\ w \in Maps
  <2>1. n \in Nat
    BY MaxSizeFacts
  <2>2. w \in Maps
    BY <2>1 DEF Maps
  <2> QED BY <2>1, <2>2, WordSize
<1>2. s \in SETs /\ s.compl \in BOOLEAN
  BY DEF WellFormed, SETs
<1>5. r = [nsize |-> n, nbits |-> n * W, compl |-> s.compl, map |-> w]
  <2> DEFINE b == n * W
             a1 == [s EXCEPT !.nsize = n]
             a2 == [a1 EXCEPT !.nbits = b]
             a3 == [a2 EXCEPT !.map = w]
  <2> HIDE DEF b
  <2>1. a1 = [nsize |-> n, nbits |-> s.nbits, compl |-> s.compl, map |-> s.map]
    BY <1>2 DEF SETs
  <2>2. [s EXCEPT !.nsize = n, !.nbits = b, !.map = w] = a3
    BY Zenon
  <2> HIDE DEF a1
  <2>3. a2 = [nsize |-> n, nbits |-> b, compl |-> s.compl, map |-> s.map]
    BY <2>1
  <2> HIDE DEF a2
  <2>4. a3 = [nsize |-> n, nbits |-> b, compl |-> s.compl, map |-> w]
    BY <2>3
  <2> QED BY <2>2, <2>4, Zenon DEF b, Mapped
<1> HIDE DEF r
<1>3. WellFormed(r)
  BY <1>1, <1>2, <1>5 DEF WellFormed, SETs
<1>4. \A i \in Nat : WordAt(r, i) = IF i < n THEN w[i] ELSE {}
  BY <1>5 DEF WordAt
<1> QED BY <1>3, <1>4, <1>5 DEF r

LEMMA SizeFacts ==
    ASSUME NEW s, WellFormed(s)
    PROVE  /\ s.nsize \in 1..MaxSize /\ s.nsize \in Nat /\ s.nsize % DEFSIZE = 0
           /\ s.nbits = s.nsize * W /\ s.map \in [0..s.nsize-1 -> Word]
           /\ \A w : [s EXCEPT !.map = w] = Mapped(s, s.nsize, w)
           /\ s = Mapped(s, s.nsize, s.map)
BY DEF WellFormed, SETs, Mapped

LEMMA NewSetFacts ==
    /\ WellFormed(newset) /\ newset.compl = FALSE /\ Members(newset) = {}
    /\ \A i \in Nat : WordAt(newset, i) = {}
<1> DEFINE w == [i \in 0..DEFSIZE-1 |-> {}]
<1>1. w \in [0..DEFSIZE-1 -> Word] /\ DEFSIZE \in 1..MaxSize /\ DEFSIZE \in Nat
      /\ DEFSIZE % DEFSIZE = 0 /\ DEFSIZE * W \in Nat
  BY WordSize, MaxSizeFacts DEF Word
<1>2. w \in Maps
  BY <1>1 DEF Maps
<1>3. newset = [nsize |-> DEFSIZE, nbits |-> DEFSIZE * W, compl |-> FALSE, map |-> w]
  BY DEF newset
<1>4. \A i \in 0..DEFSIZE-1 : w[i] = {}
  OBVIOUS
<1> HIDE DEF w
<1>5. WellFormed(newset)
  BY <1>1, <1>2, <1>3 DEF WellFormed, SETs
<1>6. \A i \in Nat : WordAt(newset, i) = {}
  BY <1>1, <1>3, <1>4 DEF WordAt
<1>7. Members(newset) = {}
  <2> SUFFICES ASSUME NEW x \in Members(newset) PROVE FALSE
    OBVIOUS
  <2>1. x \in Nat /\ Cell(x) \in Nat
    BY <1>5, MembersAreNat, CellBit
  <2> QED BY <1>5, <1>6, <2>1, MemberIsBit
<1> QED BY <1>3, <1>5, <1>6, <1>7

LEMMA EnlargeFacts ==
    ASSUME NEW s, WellFormed(s), NEW need \in 1..MaxSize, need % DEFSIZE = 0
    PROVE  LET r == enlarge(need, s)
           IN  /\ WellFormed(r) /\ r.compl = s.compl /\ Members(r) = Members(s)
               /\ r.nsize \in Nat /\ need <= r.nsize /\ s.nsize <= r.nsize
               /\ r.nsize \in {need, s.nsize}
               /\ \A i \in Nat : WordAt(r, i) = WordAt(s, i)
<1> DEFINE r == enlarge(need, s)
<1>0. s.nsize \in Nat /\ need \in Nat
  BY SizeFacts, MaxSizeFacts
<1>1. CASE need <= s.nsize
  BY <1>0, <1>1 DEF enlarge
<1>2. CASE ~(need <= s.nsize)
  <2> DEFINE w == [i \in 0..need-1 |-> IF i < s.nsize THEN s.map[i] ELSE {}]
  <2>1. w \in [0..need-1 -> Word]
    BY <1>0, SizeFacts DEF Word
  <2>2. r = Mapped(s, need, w)
    BY <1>2 DEF enlarge, Mapped
  <2>3. \A i \in Nat : i < need => w[i] = WordAt(s, i)
    BY <1>0 DEF WordAt
  <2>4. \A i \in Nat : ~(i < need) => WordAt(s, i) = {}
    BY <1>0, <1>2 DEF WordAt
  <2> HIDE DEF w, r
  <2>5. /\ WellFormed(r) /\ r.compl = s.compl /\ r.nsize = need
        /\ \A i \in Nat : WordAt(r, i) = IF i < need THEN w[i] ELSE {}
    BY <2>1, <2>2, MappedFacts
  <2>6. \A i \in Nat : WordAt(r, i) = WordAt(s, i)
    BY <2>3, <2>4, <2>5
  <2> QED BY <1>0, <1>2, <2>5, <2>6, EqualByWords DEF r
<1> QED BY <1>1, <1>2

LEMMA OtherWords ==
    ASSUME NEW s, WellFormed(s), NEW w \in [0..s.nsize-1 -> Word]
    PROVE  LET r == [s EXCEPT !.map = w]
           IN  /\ WellFormed(r) /\ r.compl = s.compl /\ r.nsize = s.nsize /\ r.nbits = s.nbits
               /\ \A i \in Nat : WordAt(r, i) = IF i < s.nsize THEN w[i] ELSE {}
<1> DEFINE n == s.nsize
           r == [s EXCEPT !.map = w]
<1>1. n \in 1..MaxSize /\ n % DEFSIZE = 0 /\ r = Mapped(s, n, w) /\ s.nbits = n * W
      /\ w \in [0..n-1 -> Word]
  BY SizeFacts
<1> HIDE DEF n, r
<1>2. /\ WellFormed(r) /\ r.compl = s.compl /\ r.nsize = n
      /\ \A i \in Nat : WordAt(r, i) = IF i < n THEN w[i] ELSE {}
  <2>1. LET q == Mapped(s, n, w)
           IN  /\ WellFormed(q) /\ q.compl = s.compl /\ q.nsize = n /\ q.map = w
               /\ q.nbits = n * W
               /\ \A i \in Nat : WordAt(q, i) = IF i < n THEN w[i] ELSE {}
    BY <1>1, MappedFacts, ZenonT(30)
  <2> QED BY <1>1, <2>1
<1>3. r.nbits = n * W
  BY <1>2, SizeFacts
<1> QED BY <1>1, <1>2, <1>3 DEF n, r

LEMMA OtherWord ==
    ASSUME NEW s, WellFormed(s), NEW c \in 0..s.nsize-1, NEW v \in Word
    PROVE  LET r == [s EXCEPT !.map[c] = v]
           IN  /\ WellFormed(r) /\ r.compl = s.compl /\ r.nsize = s.nsize /\ r.nbits = s.nbits
               /\ \A i \in Nat : WordAt(r, i) = IF i = c THEN v ELSE WordAt(s, i)
<1> DEFINE w == [s.map EXCEPT ![c] = v]
           r == [s EXCEPT !.map = w]
<1>1. s.nsize \in Nat /\ s.map \in [0..s.nsize-1 -> Word] /\ c \in Nat
  BY SizeFacts
<1>2. w \in [0..s.nsize-1 -> Word]
      /\ \A i \in Nat : i < s.nsize => w[i] = IF i = c THEN v ELSE s.map[i]
  BY <1>1
<1>3. [s EXCEPT !.map[c] = v] = r
  OBVIOUS
<1> HIDE DEF w
<1>4. /\ WellFormed(r) /\ r.compl = s.compl /\ r.nsize = s.nsize /\ r.nbits = s.nbits
      /\ \A i \in Nat : WordAt(r, i) = IF i < s.nsize THEN w[i] ELSE {}
  BY <1>2, OtherWords
<1> HIDE DEF r
<1>5. \A i \in Nat : WordAt(r, i) = IF i = c THEN v ELSE WordAt(s, i)
  BY <1>1, <1>2, <1>4 DEF WordAt
<1> QED BY <1>3, <1>4, <1>5

\* A set with another word in the cell of x: its members outside the cell stay.
LEMMA MembersByCell ==
    ASSUME NEW s, WellFormed(s), NEW r, WellFormed(r), NEW c \in Nat,
           \A i \in Nat : i # c => WordAt(r, i) = WordAt(s, i)
    PROVE  \A y \in Nat : Cell(y) # c => (y \in Members(r) <=> y \in Members(s))
BY CellBit, MemberIsBit

LEMMA AddFacts ==
    ASSUME NEW s, WellFormed(s), NEW x \in Bits
    PROVE  LET r == ADD(s, x)
           IN  WellFormed(r) /\ r.compl = s.compl /\ Members(r) = Members(s) \union {x}
<1> DEFINE e == IF x >= s.nbits THEN enlarge(Round(x), s) ELSE s
           c == Cell(x)
           b == Bit(x)
<1>1. x \in Nat /\ Round(x) \in 1..MaxSize /\ Round(x) % DEFSIZE = 0 /\ c < Round(x)
      /\ c \in Nat /\ b \in 0..W-1
  BY MaxSizeFacts, RoundFacts, CellBit, WordSize
<1>2. /\ WellFormed(e) /\ e.compl = s.compl /\ e.nsize \in Nat /\ c < e.nsize
      /\ \A i \in Nat : WordAt(e, i) = WordAt(s, i)
  <2>1. CASE x >= s.nbits
    <3>1. Round(x) \in Nat
      BY <1>1, RoundFacts
    <3> QED BY <1>1, <2>1, <3>1, EnlargeFacts
  <2>2. CASE ~(x >= s.nbits)
    <3>1. x < s.nsize * W /\ s.nsize \in Nat
      BY <1>1, <2>2, MembersAreNat
    <3>2. c < s.nsize
      BY <1>1, <3>1, CellBelow
    <3> QED BY <2>2, <3>1, <3>2
  <2> QED BY <2>1, <2>2
<1>3. ADD(s, x) = [e EXCEPT !.map[c] = e.map[c] \union {b}]
  BY DEF ADD, _addset
<1> HIDE DEF e, c
<1> DEFINE v == e.map[c] \union {b}
           r == [e EXCEPT !.map[c] = v]
<1>4. c \in 0..e.nsize-1 /\ e.map[c] = WordAt(s, c) /\ v \in Word
  <2>1. c \in 0..e.nsize-1 /\ e.map[c] \in Word
    BY <1>1, <1>2, SizeFacts
  <2>2. e.map[c] = WordAt(e, c)
    BY <1>2 DEF WordAt
  <2> QED BY <1>1, <1>2, <2>1, <2>2 DEF Word
<1> HIDE DEF v
<1>5. /\ WellFormed(r) /\ r.compl = e.compl
      /\ \A i \in Nat : WordAt(r, i) = IF i = c THEN v ELSE WordAt(e, i)
  BY <1>2, <1>4, OtherWord
<1> HIDE DEF r
<1>6. \A y \in Nat : y \in Members(r) <=> (y \in Members(s) \/ y = x)
  <2> TAKE y \in Nat
  <2>1. CASE Cell(y) # c
    <3>1. y # x
      BY <2>1 DEF c
    <3> QED BY <1>1, <1>2, <1>5, <2>1, <3>1, MembersByCell
  <2>2. CASE Cell(y) = c
    <3>1. y \in Members(r) <=> Bit(y) \in v
      BY <1>1, <1>5, <2>2, MemberIsBit
    <3>2. y \in Members(s) <=> Bit(y) \in WordAt(s, c)
      BY <2>2, MemberIsBit
    <3>3. Bit(y) = b <=> y = x
      BY <1>1, <2>2, SameCellBit DEF c
    <3> QED BY <1>4, <3>1, <3>2, <3>3 DEF v
  <2> QED BY <2>1, <2>2
<1>7. Members(r) \in SUBSET Nat /\ Members(s) \in SUBSET Nat
  BY <1>5, MembersAreNat
<1>8. Members(r) = Members(s) \union {x}
  BY <1>1, <1>6, <1>7
<1> QED BY <1>2, <1>3, <1>5, <1>8 DEF r, v

LEMMA RemoveFacts ==
    ASSUME NEW s, WellFormed(s), NEW x \in Bits
    PROVE  LET r == REMOVE(s, x)
           IN  WellFormed(r) /\ r.compl = s.compl /\ Members(r) = Members(s) \ {x}
<1>1. x \in Nat /\ Cell(x) \in Nat /\ s.nbits \in Nat
  BY MaxSizeFacts, CellBit, MembersAreNat
<1>2. CASE x >= s.nbits
  <2>1. x \notin Members(s)
    BY <1>1, <1>2, MembersAreNat
  <2> QED BY <1>2, <2>1 DEF REMOVE
<1>3. CASE ~(x >= s.nbits)
  <2> DEFINE c == Cell(x)
             b == Bit(x)
             v == s.map[c] \ {b}
             r == [s EXCEPT !.map[c] = v]
  <2>1. REMOVE(s, x) = r
    BY <1>3 DEF REMOVE
  <2>2. c \in 0..s.nsize-1
    <3>1. x < s.nsize * W /\ s.nsize \in Nat
      BY <1>1, <1>3, MembersAreNat
    <3> QED BY <1>1, <3>1, CellBelow
  <2>3. s.map[c] = WordAt(s, c) /\ v \in Word /\ c \in Nat
    <3>1. s.map[c] \in Word
      BY <2>2, SizeFacts
    <3>2. s.map[c] = WordAt(s, c)
      BY <2>2, SizeFacts DEF WordAt
    <3> QED BY <1>1, <3>1, <3>2 DEF Word
  <2> HIDE DEF v, c
  <2>4. /\ WellFormed(r) /\ r.compl = s.compl
        /\ \A i \in Nat : WordAt(r, i) = IF i = c THEN v ELSE WordAt(s, i)
    BY <2>2, <2>3, OtherWord, ZenonT(60)
  <2> HIDE DEF r
  <2>5. \A y \in Nat : y \in Members(r) <=> (y \in Members(s) /\ y # x)
    <3> TAKE y \in Nat
    <3>1. CASE Cell(y) # c
      <4>1. y # x
        BY <3>1 DEF c
      <4> QED BY <2>3, <2>4, <3>1, <4>1, MembersByCell
    <3>2. CASE Cell(y) = c
      <4>1. y \in Members(r) <=> Bit(y) \in v
        BY <2>3, <2>4, <3>2, MemberIsBit
      <4>2. y \in Members(s) <=> Bit(y) \in WordAt(s, c)
        BY <3>2, MemberIsBit
      <4>3. Bit(y) = b <=> y = x
        BY <1>1, <3>2, SameCellBit DEF c
      <4> QED BY <2>3, <4>1, <4>2, <4>3 DEF v
    <3> QED BY <3>1, <3>2
  <2>6. Members(r) \in SUBSET Nat /\ Members(s) \in SUBSET Nat
    BY <2>4, MembersAreNat
  <2>7. Members(r) = Members(s) \ {x}
    BY <2>5, <2>6
  <2> QED BY <2>1, <2>4, <2>7
<1> QED BY <1>2, <1>3

LEMMA ClearFacts ==
    ASSUME NEW s, WellFormed(s)
    PROVE  LET r == CLEAR(s)
           IN  WellFormed(r) /\ r.compl = s.compl /\ Members(r) = {}
<1> DEFINE w == [i \in 0..s.nsize-1 |-> {}]
           r == [s EXCEPT !.map = w]
<1>1. w \in [0..s.nsize-1 -> Word] /\ CLEAR(s) = r /\ s.nsize \in Nat
      /\ \A i \in Nat : i < s.nsize => w[i] = {}
  BY SizeFacts DEF Word, CLEAR, AllWords
<1> HIDE DEF w
<1>2. /\ WellFormed(r) /\ r.compl = s.compl
      /\ \A i \in Nat : WordAt(r, i) = IF i < s.nsize THEN w[i] ELSE {}
  BY <1>1, OtherWords
<1> HIDE DEF r
<1>3. \A i \in Nat : WordAt(r, i) = {}
  BY <1>1, <1>2
<1>4. \A x \in Members(r) : FALSE
  BY <1>2, <1>3, MembersAreNat, CellBit, MemberIsBit
<1> QED BY <1>1, <1>2, <1>4 DEF r

\* The members of a set whose words are all full, or the inverses of another's.
LEMMA FillFacts ==
    ASSUME NEW s, WellFormed(s)
    PROVE  LET r == FILL(s)
           IN  WellFormed(r) /\ r.compl = s.compl /\ Members(r) = 0..s.nbits-1
<1> DEFINE w == [i \in 0..s.nsize-1 |-> 0..W-1]
           r == [s EXCEPT !.map = w]
<1>1. w \in [0..s.nsize-1 -> Word] /\ FILL(s) = r /\ s.nsize \in Nat
      /\ \A i \in Nat : i < s.nsize => w[i] = 0..W-1
  BY SizeFacts DEF Word, FILL, AllWords
<1> HIDE DEF w
<1>2. /\ WellFormed(r) /\ r.compl = s.compl /\ r.nbits = s.nbits /\ r.nsize = s.nsize
      /\ \A i \in Nat : WordAt(r, i) = IF i < s.nsize THEN w[i] ELSE {}
  BY <1>1, OtherWords
<1> HIDE DEF r
<1>3. \A x \in Nat : x \in Members(r) <=> x < s.nbits
  <2> TAKE x \in Nat
  <2>1. Cell(x) \in Nat /\ Bit(x) \in 0..W-1
    BY CellBit
  <2>2. x < s.nbits <=> Cell(x) < s.nsize
    BY <1>1, CellBelow, MembersAreNat
  <2>3. x \in Members(r) <=> Bit(x) \in WordAt(r, Cell(x))
    BY <1>2, MemberIsBit
  <2> QED BY <1>1, <1>2, <2>1, <2>2, <2>3
<1>4. Members(r) \in SUBSET Nat /\ s.nbits \in Nat
  BY <1>2, MembersAreNat
<1>5. Members(r) = 0..s.nbits-1
  <2>1. \A x \in Members(r) : x \in 0..s.nbits-1
    BY <1>3, <1>4
  <2>2. \A x \in 0..s.nbits-1 : x \in Members(r)
    BY <1>3, <1>4
  <2> QED BY <2>1, <2>2
<1> QED BY <1>1, <1>2, <1>5 DEF r

LEMMA InvertFacts ==
    ASSUME NEW s, WellFormed(s)
    PROVE  LET r == invert(s)
           IN  /\ WellFormed(r) /\ r.compl = s.compl
               /\ Members(r) = (0..s.nbits-1) \ Members(s)
<1> DEFINE w == [i \in 0..s.nsize-1 |-> (0..W-1) \ s.map[i]]
           r == [s EXCEPT !.map = w]
<1>1. w \in [0..s.nsize-1 -> Word] /\ invert(s) = r /\ s.nsize \in Nat
      /\ \A i \in Nat : i < s.nsize => w[i] = (0..W-1) \ s.map[i]
  BY SizeFacts DEF Word, invert
<1> HIDE DEF w
<1>2. /\ WellFormed(r) /\ r.compl = s.compl /\ r.nbits = s.nbits /\ r.nsize = s.nsize
      /\ \A i \in Nat : WordAt(r, i) = IF i < s.nsize THEN w[i] ELSE {}
  BY <1>1, OtherWords
<1> HIDE DEF r
<1>3. \A x \in Nat : x \in Members(r) <=> (x < s.nbits /\ x \notin Members(s))
  <2> TAKE x \in Nat
  <2>1. Cell(x) \in Nat /\ Bit(x) \in 0..W-1
    BY CellBit
  <2>2. x < s.nbits <=> Cell(x) < s.nsize
    BY <1>1, CellBelow, MembersAreNat
  <2>3. x \in Members(r) <=> Bit(x) \in WordAt(r, Cell(x))
    BY <1>2, MemberIsBit
  <2>4. x \in Members(s) <=> Bit(x) \in WordAt(s, Cell(x))
    BY MemberIsBit
  <2>5. CASE Cell(x) < s.nsize
    <3>1. WordAt(r, Cell(x)) = (0..W-1) \ WordAt(s, Cell(x))
      BY <1>1, <1>2, <2>1, <2>5 DEF WordAt
    <3> QED BY <2>1, <2>2, <2>3, <2>4, <2>5, <3>1
  <2>6. CASE ~(Cell(x) < s.nsize)
    BY <1>1, <1>2, <2>1, <2>2, <2>3, <2>6
  <2> QED BY <2>5, <2>6
<1>4. Members(r) \in SUBSET Nat /\ Members(s) \in SUBSET Nat /\ s.nbits \in Nat
  BY <1>2, MembersAreNat
<1>5. Members(r) = (0..s.nbits-1) \ Members(s)
  <2>1. \A x \in Members(r) : x \in 0..s.nbits-1 /\ x \notin Members(s)
    BY <1>3, <1>4
  <2>2. \A x \in 0..s.nbits-1 : x \notin Members(s) => x \in Members(r)
    BY <1>3, <1>4
  <2> QED BY <2>1, <2>2
<1> QED BY <1>1, <1>2, <1>5 DEF r

\* The flag of a set says nothing about its members.
LEMMA FlagFacts ==
    ASSUME NEW s, WellFormed(s), NEW f \in BOOLEAN
    PROVE  LET r == [s EXCEPT !.compl = f]
           IN  WellFormed(r) /\ r.compl = f /\ Members(r) = Members(s)
<1> DEFINE r == [s EXCEPT !.compl = f]
<1>1. r \in SETs /\ r.nsize = s.nsize /\ r.nbits = s.nbits /\ r.map = s.map /\ r.compl = f
  <2>1. s \in SETs
    BY DEF WellFormed
  <2>2. r = [nsize |-> s.nsize, nbits |-> s.nbits, compl |-> f, map |-> s.map]
    BY <2>1 DEF SETs
  <2>3. s.nsize \in Nat /\ s.nbits \in Nat /\ s.map \in Maps
    BY <2>1 DEF SETs
  <2> HIDE DEF r
  <2> QED BY <2>2, <2>3 DEF SETs
<1> HIDE DEF r
<1>2. WellFormed(r)
  BY <1>1 DEF WellFormed
<1>3. Members(r) = Members(s)
  BY <1>1 DEF Members, MEMBER
<1> QED BY <1>1, <1>2, <1>3 DEF r

LEMMA ComplementFacts ==
    ASSUME NEW s, WellFormed(s)
    PROVE  LET r == COMPLEMENT(s)
           IN  WellFormed(r) /\ r.compl = ~s.compl /\ Members(r) = Members(s)
<1>1. s.compl \in BOOLEAN
  BY DEF WellFormed, SETs
<1>2. (~s.compl) \in BOOLEAN
  BY <1>1
<1> QED BY <1>1, <1>2, FlagFacts DEF COMPLEMENT

LEMMA TruncateFacts ==
    ASSUME NEW s, WellFormed(s)
    PROVE  LET r == truncate(s)
           IN  WellFormed(r) /\ r.compl = s.compl /\ Members(r) = {}
<1>1. s.compl \in BOOLEAN
  BY DEF WellFormed, SETs
<1> QED BY <1>1, FlagFacts, NewSetFacts DEF truncate

LEMMA OperateFacts ==
    ASSUME NEW d, WellFormed(d), NEW s, WellFormed(s),
           NEW op \in {"union", "intersect", "difference", "assign"}
    PROVE  LET r == _set_op(op, d, s)
           IN  /\ WellFormed(r) /\ r.compl = d.compl
               /\ Members(r) = Combine(op, Members(d), Members(s))
<1> DEFINE e == enlarge(s.nsize, d)
           tail(v) == IF op \in {"intersect", "assign"} THEN {} ELSE v
           w == [i \in 0..e.nsize-1 |->
                   IF i < s.nsize THEN Combine(op, e.map[i], s.map[i]) ELSE tail(e.map[i])]
           r == [e EXCEPT !.map = w]
<1>1. _set_op(op, d, s) = r
  BY Zenon DEF _set_op
<1>2. s.nsize \in 1..MaxSize /\ s.nsize % DEFSIZE = 0 /\ s.nsize \in Nat
  BY SizeFacts
<1>3. /\ WellFormed(e) /\ e.compl = d.compl /\ e.nsize \in Nat /\ s.nsize <= e.nsize
      /\ \A i \in Nat : WordAt(e, i) = WordAt(d, i)
  BY <1>2, EnlargeFacts
<1> HIDE DEF e
<1>4. \A i \in Nat : i < e.nsize => w[i] = Combine(op, WordAt(d, i), WordAt(s, i))
  <2> TAKE i \in Nat
  <2> HAVE i < e.nsize
  <2>1. e.map[i] = WordAt(d, i)
    BY <1>3 DEF WordAt
  <2>2. w[i] = IF i < s.nsize THEN Combine(op, e.map[i], s.map[i]) ELSE tail(e.map[i])
    BY <1>3
  <2>3. CASE i < s.nsize
    BY <2>1, <2>2, <2>3 DEF WordAt
  <2>4. CASE ~(i < s.nsize)
    <3>1. WordAt(s, i) = {}
      BY <2>4 DEF WordAt
    <3>2. tail(WordAt(d, i)) = Combine(op, WordAt(d, i), {})
      BY DEF Combine
    <3> QED BY <2>1, <2>2, <2>4, <3>1, <3>2
  <2> QED BY <2>3, <2>4
<1>5. \A i \in Nat : Combine(op, WordAt(d, i), WordAt(s, i)) \in Word
  <2> TAKE i \in Nat
  <2>1. WordAt(d, i) \in SUBSET (0..W-1) /\ WordAt(s, i) \in SUBSET (0..W-1)
    BY WordAtIsWord
  <2> QED BY <2>1 DEF Combine, Word
<1>6. w \in [0..e.nsize-1 -> Word]
  <2>1. \A i \in 0..e.nsize-1 : w[i] \in Word
    <3> HIDE DEF w
    <3> QED BY <1>3, <1>4, <1>5
  <2>2. w = [i \in 0..e.nsize-1 |-> w[i]]
    BY Zenon
  <2> HIDE DEF w
  <2> QED BY <2>1, <2>2
<1> HIDE DEF w
<1>7. /\ WellFormed(r) /\ r.compl = e.compl
      /\ \A i \in Nat : WordAt(r, i) = IF i < e.nsize THEN w[i] ELSE {}
  BY <1>3, <1>6, OtherWords
<1> HIDE DEF r
<1>8. \A i \in Nat : WordAt(r, i) = Combine(op, WordAt(d, i), WordAt(s, i))
  <2> TAKE i \in Nat
  <2>1. CASE i < e.nsize
    BY <1>4, <1>7, <2>1
  <2>2. CASE ~(i < e.nsize)
    <3>1. WordAt(d, i) = {} /\ WordAt(s, i) = {} /\ WordAt(r, i) = {}
      BY <1>2, <1>3, <1>7, <2>2 DEF WordAt
    <3>2. Combine(op, {}, {}) = {}
      BY DEF Combine
    <3> QED BY <3>1, <3>2
  <2> QED BY <2>1, <2>2
<1>9. \A x \in Nat : x \in Members(r) <=> x \in Combine(op, Members(d), Members(s))
  <2> TAKE x \in Nat
  <2>1. Cell(x) \in Nat
    BY CellBit
  <2>2. x \in Members(r) <=> Bit(x) \in Combine(op, WordAt(d, Cell(x)), WordAt(s, Cell(x)))
    BY <1>7, <1>8, <2>1, MemberIsBit
  <2>3. x \in Members(d) <=> Bit(x) \in WordAt(d, Cell(x))
    BY MemberIsBit
  <2>4. x \in Members(s) <=> Bit(x) \in WordAt(s, Cell(x))
    BY MemberIsBit
  <2> QED BY <2>2, <2>3, <2>4 DEF Combine
<1>10. Members(r) \in SUBSET Nat /\ Combine(op, Members(d), Members(s)) \in SUBSET Nat
  <2>1. Members(r) \in SUBSET Nat /\ Members(d) \in SUBSET Nat /\ Members(s) \in SUBSET Nat
    BY <1>7, MembersAreNat
  <2> QED BY <2>1 DEF Combine
<1>11. Members(r) = Combine(op, Members(d), Members(s))
  BY <1>9, <1>10
<1> QED BY <1>1, <1>3, <1>7, <1>11

LEMMA LeastFacts ==
    ASSUME NEW S \in SUBSET Nat, S # {}
    PROVE  Least(S) \in S /\ \A y \in S : Least(S) <= y
BY MinNat DEF Least, Min

\* No member is in front of the words that next_member() passes over.
LEMMA LeadingZerosFacts ==
    ASSUME NEW s, WellFormed(s)
    PROVE  /\ LeadingZeros(s) * W \in Nat
           /\ \A x \in Members(s) : x >= LeadingZeros(s) * W
<1> DEFINE S == {i \in 0..s.nsize : i = s.nsize \/ s.map[i] # {}}
           z == LeadingZeros(s)
<1>1. s.nsize \in Nat /\ S \in SUBSET Nat /\ s.nsize \in S /\ z = Least(S)
  BY SizeFacts DEF LeadingZeros
<1>2. \A i \in Nat : i < s.nsize /\ WordAt(s, i) # {} => i \in S
  BY <1>1 DEF WordAt
<1> HIDE DEF S
<1>3. z \in S /\ \A i \in S : z <= i
  <2> HIDE DEF z
  <2> QED BY <1>1, LeastFacts
<1>4. z \in Nat /\ z * W \in Nat
  <2>1. z \in Nat
    BY <1>1, <1>3, Zenon
  <2> HIDE DEF z
  <2> QED BY <2>1, WordSize
<1> HIDE DEF z
<1>5. ASSUME NEW x \in Members(s) PROVE x >= z * W
  <2>1. x \in Nat /\ Cell(x) \in Nat /\ x < s.nsize * W
    BY MembersAreNat, CellBit
  <2>2. Cell(x) < s.nsize /\ WordAt(s, Cell(x)) # {}
    BY <1>1, <2>1, CellBelow, MemberIsBit
  <2>3. ~(Cell(x) < z)
    BY <1>2, <1>3, <1>4, <2>1, <2>2
  <2>4. ~(x < z * W)
    BY <1>4, <2>1, <2>3, CellBelow
  <2> DEFINE a == z * W
  <2>5. a \in Nat /\ ~(x < a)
    BY <1>4, <2>4
  <2> HIDE DEF a
  <2>6. x >= a
    BY <2>1, <2>5
  <2> QED BY <2>6 DEF a
<1> QED BY <1>4, <1>5 DEF z

LEMMA TestFacts ==
    ASSUME NEW s, WellFormed(s), ~s.compl, NEW x \in Nat
    PROVE  TEST(s, x) <=> x \in Members(s)
<1>1. s.compl = FALSE
  BY DEF WellFormed, SETs
<1>2. (MEMBER(s, x) # FALSE) <=> MEMBER(s, x)
  BY Zenon DEF MEMBER
<1>3. TEST(s, x) <=> MEMBER(s, x)
  BY <1>1, <1>2, Zenon DEF TEST
<1> QED BY <1>3, MemberIsBit

-----------------------------------------------------------------------------
(* The inductive invariant: between two calls of next_member() the members  *)
(* still owed are in the set and not in front of current_member, and a set  *)
(* that has been deleted is as new (its handle may come back).              *)

SetInv ==
    /\ live \subseteq Handles /\ oset \in Handles \union {NULL}
    /\ set \in [Handles -> SETs]
    /\ \A h \in Handles : WellFormed(set[h])
    /\ \A h \in Handles : h \notin live => set[h] = newset
    /\ current_member \in Nat /\ open \in BOOLEAN /\ owed \in SUBSET Nat
    /\ ~open => owed = {}
    /\ open => oset \in live /\ owed \subseteq Members(set[oset])
    /\ \A x \in owed : x >= current_member

LEMMA InitSetInv == Init => SetInv
<1> SUFFICES ASSUME Init PROVE SetInv
  OBVIOUS
<1>1. newset \in SETs
  BY NewSetFacts DEF WellFormed
<1>2. set = [h \in Handles |-> newset]
  BY DEF Init
<1>3. \A h \in Handles : set[h] = newset
  BY <1>2
<1>4. set \in [Handles -> SETs]
  BY <1>1, <1>2
<1>5. \A h \in Handles : WellFormed(set[h])
  BY <1>3, NewSetFacts
<1> QED BY <1>3, <1>4, <1>5 DEF Init, SetInv

LEMMA BecomesKeeps ==
    ASSUME SetInv, NEW h \in live, NEW r, WellFormed(r), Becomes(h, r)
    PROVE  SetInv'
<1>1. h \in Handles /\ r \in SETs
  BY DEF SetInv, WellFormed
<1>2. /\ set' = [set EXCEPT ![h] = r] /\ live' = live /\ oset' = oset
      /\ current_member' = current_member /\ open' = open
      /\ owed' = IF h = oset THEN owed \intersect Members(r) ELSE owed
  BY DEF Becomes
<1>3. set \in [Handles -> SETs]
  BY DEF SetInv
<1>4. set' \in [Handles -> SETs]
  BY <1>1, <1>2, <1>3
<1>5. \A k \in Handles : set'[k] = IF k = h THEN r ELSE set[k]
  BY <1>2, <1>3
<1>6. \A k \in Handles : WellFormed(set'[k])
  BY <1>5 DEF SetInv
<1>7. \A k \in Handles : k \notin live' => set'[k] = newset
  BY <1>2, <1>5 DEF SetInv
<1>8. owed' \subseteq owed
  BY <1>2
<1>9. open' => oset' \in live' /\ owed' \subseteq Members(set'[oset'])
  BY <1>2, <1>5 DEF SetInv
<1>10. ~open' => owed' = {}
  BY <1>2, <1>8 DEF SetInv
<1>11. \A x \in owed' : x >= current_member'
  BY <1>2, <1>8 DEF SetInv
<1>12. live' \subseteq Handles /\ oset' \in Handles \union {NULL} /\ current_member' \in Nat
       /\ open' \in BOOLEAN /\ owed' \in SUBSET Nat
  BY <1>2, <1>8 DEF SetInv
<1> QED BY <1>4, <1>6, <1>7, <1>9, <1>10, <1>11, <1>12 DEF SetInv

\* The calls that give a set its next value.
UpdateOf(h, r) ==
    \/ \E x \in Bits : r = ADD(set[h], x) \/ r = REMOVE(set[h], x)
    \/ r \in { COMPLEMENT(set[h]), invert(set[h]), truncate(set[h]),
               CLEAR(set[h]), FILL(set[h]) }

LEMMA UpdateBecomes ==
    ASSUME NEW h \in Handles, Update(h)
    PROVE  h \in live /\ \E r : UpdateOf(h, r) /\ Becomes(h, r)
BY DEF Update, UpdateOf

LEMMA UpdateWellFormed ==
    ASSUME NEW h, WellFormed(set[h]), NEW r, UpdateOf(h, r)
    PROVE  WellFormed(r)
<1> DEFINE s == set[h]
<1>1. ASSUME NEW x \in Bits, r = ADD(s, x) PROVE WellFormed(r)
  <2> HIDE DEF s
  <2> QED BY <1>1, AddFacts DEF s
<1>2. ASSUME NEW x \in Bits, r = REMOVE(s, x) PROVE WellFormed(r)
  <2> HIDE DEF s
  <2> QED BY <1>2, RemoveFacts DEF s
<1>3. WellFormed(COMPLEMENT(s))
  BY ComplementFacts
<1>4. WellFormed(invert(s))
  BY InvertFacts
<1>5. WellFormed(truncate(s))
  BY TruncateFacts
<1>6. WellFormed(CLEAR(s))
  BY ClearFacts
<1>7. WellFormed(FILL(s))
  BY FillFacts
<1> QED BY <1>1, <1>2, <1>3, <1>4, <1>5, <1>6, <1>7, Zenon DEF UpdateOf

LEMMA NewKeeps ==
    ASSUME SetInv, NEW h \in Handles, h \notin live, NEW r, WellFormed(r),
           live' = live \union {h}, set' = [set EXCEPT ![h] = r], UNCHANGED loop
    PROVE  SetInv'
<1>1. r \in SETs
  BY DEF WellFormed
<1>2. set \in [Handles -> SETs]
  BY DEF SetInv
<1>3. set' \in [Handles -> SETs]
  BY <1>1, <1>2
<1>4. \A k \in Handles : set'[k] = IF k = h THEN r ELSE set[k]
  BY <1>2
<1>5. \A k \in Handles : WellFormed(set'[k])
  BY <1>4 DEF SetInv
<1>6. \A k \in Handles : k \notin live' => set'[k] = newset
  BY <1>4 DEF SetInv
<1>7. oset' = oset /\ current_member' = current_member /\ open' = open /\ owed' = owed
  BY DEF loop
<1>8. open' => oset' \in live' /\ owed' \subseteq Members(set'[oset'])
  BY <1>4, <1>7 DEF SetInv
<1>9. live' \subseteq Handles
  BY DEF SetInv
<1> QED BY <1>3, <1>5, <1>6, <1>7, <1>8, <1>9 DEF SetInv

LEMMA DeleteKeeps ==
    ASSUME SetInv, NEW h \in Handles, Delete(h)
    PROVE  SetInv'
<1>1. newset \in SETs /\ WellFormed(newset)
  BY NewSetFacts DEF WellFormed
<1>2. /\ set' = [set EXCEPT ![h] = newset] /\ live' = live \ {h} /\ oset' = oset
      /\ current_member' = current_member
      /\ open' = (open /\ h # oset)
      /\ owed' = IF open' THEN owed ELSE {}
  BY DEF Delete
<1>3. set \in [Handles -> SETs]
  BY DEF SetInv
<1>4. set' \in [Handles -> SETs]
  BY <1>1, <1>2, <1>3
<1>5. \A k \in Handles : set'[k] = IF k = h THEN newset ELSE set[k]
  BY <1>2, <1>3
<1>6. \A k \in Handles : WellFormed(set'[k])
  BY <1>1, <1>5 DEF SetInv
<1>7. \A k \in Handles : k \notin live' => set'[k] = newset
  BY <1>2, <1>5 DEF SetInv
<1>8. open' \in BOOLEAN /\ (open' => open /\ h # oset)
  BY <1>2
<1>9. owed' \subseteq owed /\ (~open' => owed' = {}) /\ (open' => owed' = owed)
  BY <1>2
<1>10. open' => oset' \in live' /\ owed' \subseteq Members(set'[oset'])
  BY <1>2, <1>5, <1>8, <1>9 DEF SetInv
<1>11. live' \subseteq Handles /\ oset' \in Handles \union {NULL} /\ current_member' \in Nat
       /\ owed' \in SUBSET Nat /\ \A x \in owed' : x >= current_member'
  BY <1>2, <1>9 DEF SetInv
<1> QED BY <1>4, <1>6, <1>7, <1>8, <1>9, <1>10, <1>11 DEF SetInv

LEMMA SetTestKeeps ==
    ASSUME SetInv, NEW h \in Handles, NEW s \in Handles, SetTest(h, s)
    PROVE  /\ SetInv'
           /\ \A k \in Handles : /\ Members(set'[k]) = Members(set[k])
                                 /\ set'[k].compl = set[k].compl
<1> DEFINE p == Enlarged(set[h], set[s])
           q == Enlarged(set[s], set[h])
<1>1. WellFormed(set[h]) /\ WellFormed(set[s]) /\ set \in [Handles -> SETs]
  BY DEF SetInv
<1>2. /\ set' = [set EXCEPT ![h] = p, ![s] = q] /\ h \in live /\ s \in live
      /\ live' = live /\ oset' = oset /\ current_member' = current_member
      /\ open' = open /\ owed' = owed
  BY DEF SetTest, loop
<1>3. WellFormed(p) /\ Members(p) = Members(set[h]) /\ p.compl = set[h].compl
  BY <1>1, SizeFacts, EnlargeFacts DEF Enlarged
<1>4. WellFormed(q) /\ Members(q) = Members(set[s]) /\ q.compl = set[s].compl
  BY <1>1, SizeFacts, EnlargeFacts DEF Enlarged
<1> HIDE DEF p, q
<1>5. p \in SETs /\ q \in SETs
  BY <1>3, <1>4 DEF WellFormed
<1>6. set' \in [Handles -> SETs]
  BY <1>1, <1>2, <1>5
<1>7. \A k \in Handles : set'[k] = IF k = s THEN q ELSE IF k = h THEN p ELSE set[k]
  BY <1>1, <1>2
<1>8. \A k \in Handles : WellFormed(set'[k])
  BY <1>3, <1>4, <1>7 DEF SetInv
<1>9. \A k \in Handles : /\ Members(set'[k]) = Members(set[k])
                         /\ set'[k].compl = set[k].compl
  BY <1>3, <1>4, <1>7
<1>10. \A k \in Handles : k \notin live' => set'[k] = newset
  BY <1>2, <1>7 DEF SetInv
<1>11. open' => oset' \in live' /\ owed' \subseteq Members(set'[oset'])
  BY <1>2, <1>9 DEF SetInv
<1>12. SetInv'
  BY <1>2, <1>6, <1>8, <1>10, <1>11 DEF SetInv
<1> QED BY <1>9, <1>12

LEMMA NextMemberKeeps ==
    ASSUME SetInv, NEW h \in Handles, NextMember(h)
    PROVE  SetInv'
<1> DEFINE found == {x \in From(h)..set[h].nbits-1 : TEST(set[h], x)}
           begun == IF oset = h THEN owed ELSE Members(set[h])
<1>1. /\ h \in live /\ ~set[h].compl /\ (oset = h => open)
      /\ current_member' = IF found = {} THEN set[h].nbits + 1 ELSE Least(found) + 1
      /\ owed' = IF found = {} THEN begun ELSE begun \ {Least(found)}
      /\ oset' = h /\ open' = TRUE /\ live' = live /\ set' = set
  BY DEF NextMember
<1>2. WellFormed(set[h])
  BY DEF SetInv
<1>3. /\ set[h].nbits \in Nat /\ Members(set[h]) \in SUBSET Nat
      /\ Members(set[h]) \subseteq 0..set[h].nbits-1
  BY <1>2, MembersAreNat
<1>4. From(h) \in Nat /\ begun \subseteq Members(set[h]) /\ \A x \in begun : x >= From(h)
  <2>1. CASE oset = h
    BY <1>1, <2>1 DEF From, SetInv
  <2>2. CASE oset # h
    BY <1>2, <2>2, LeadingZerosFacts DEF From
  <2> QED BY <2>1, <2>2
<1>5. \A x \in begun : x \in found
  <2> TAKE x \in begun
  <2>1. x \in Nat /\ x \in Members(set[h]) /\ x >= From(h) /\ x \in 0..set[h].nbits-1
    BY <1>3, <1>4
  <2>2. TEST(set[h], x)
    BY <1>1, <1>2, <2>1, TestFacts
  <2> QED BY <1>3, <1>4, <2>1, <2>2
<1>6. found \in SUBSET Nat
  BY <1>3, <1>4
<1> HIDE DEF found, begun
<1>7. begun \in SUBSET Nat
  BY <1>3, <1>4
<1>8. /\ current_member' \in Nat /\ owed' \subseteq begun
      /\ \A x \in owed' : x >= current_member'
  <2>1. CASE found = {}
    <3>1. begun = {}
      BY <1>5, <2>1
    <3> QED BY <1>1, <1>3, <2>1, <3>1
  <2>2. CASE found # {}
    <3> DEFINE l == Least(found)
    <3>1. l \in found /\ \A y \in found : l <= y
      BY <1>6, <2>2, LeastFacts
    <3>2. current_member' = l + 1 /\ owed' = begun \ {l}
      BY <1>1, <2>2
    <3> HIDE DEF l
    <3>3. l \in Nat
      BY <1>6, <3>1
    <3>4. ASSUME NEW x \in owed' PROVE x >= l + 1
      <4>1. x \in Nat /\ x # l /\ l <= x
        BY <1>5, <1>6, <3>1, <3>2
      <4> QED BY <3>3, <4>1
    <3> QED BY <3>2, <3>3, <3>4
  <2> QED BY <2>1, <2>2
<1>9. owed' \subseteq Members(set'[oset']) /\ oset' \in live'
  BY <1>1, <1>4, <1>8
<1> QED BY <1>1, <1>7, <1>8, <1>9 DEF SetInv

LEMMA StepSetInv == SetInv /\ [Next]_vars => SetInv'
<1> SUFFICES ASSUME SetInv, [Next]_vars PROVE SetInv'
  OBVIOUS
<1>1. CASE UNCHANGED vars
  BY <1>1 DEF vars, SetInv
<1>2. ASSUME NEW h \in Handles, New(h) PROVE SetInv'
  BY <1>2, NewSetFacts, NewKeeps DEF New
<1>3. ASSUME NEW h \in Handles, Delete(h) PROVE SetInv'
  BY <1>3, DeleteKeeps
<1>4. ASSUME NEW h \in Handles, Update(h) PROVE SetInv'
  <2>1. PICK r : h \in live /\ UpdateOf(h, r) /\ Becomes(h, r)
    BY <1>4, UpdateBecomes
  <2>2. WellFormed(set[h])
    BY DEF SetInv
  <2>3. WellFormed(r)
    BY <2>1, <2>2, UpdateWellFormed
  <2> QED BY <2>1, <2>3, BecomesKeeps
<1>5. ASSUME NEW h \in Handles, NextMember(h) PROVE SetInv'
  BY <1>5, NextMemberKeeps
<1>6. ASSUME NEW h \in Handles, NEW s \in Handles, Dup(h, s) PROVE SetInv'
  <2>1. WellFormed(set[s])
    BY DEF SetInv
  <2> QED BY <1>6, <2>1, NewKeeps DEF Dup
<1>7. ASSUME NEW d \in Handles, NEW s \in Handles, Operate(d, s) PROVE SetInv'
  <2>1. PICK op \in {"union", "intersect", "difference", "assign"} :
            d \in live /\ Becomes(d, _set_op(op, set[d], set[s]))
    BY <1>7 DEF Operate
  <2>2. WellFormed(set[d]) /\ WellFormed(set[s])
    BY DEF SetInv
  <2>3. WellFormed(_set_op(op, set[d], set[s]))
    BY <2>2, OperateFacts
  <2> QED BY <2>1, <2>3, BecomesKeeps
<1>8. ASSUME NEW h \in Handles, NEW s \in Handles, SetTest(h, s) PROVE SetInv'
  BY <1>8, SetTestKeeps
<1>9. CASE Reset
  BY <1>9 DEF Reset, SetInv
<1> QED BY <1>1, <1>2, <1>3, <1>4, <1>5, <1>6, <1>7, <1>8, <1>9 DEF Next

\* What holds between any two calls of the package.
THEOREM SetInvariant == Spec => []SetInv
<1>1. Init => SetInv
  BY InitSetInv
<1>2. SetInv /\ [Next]_vars => SetInv'
  BY StepSetInv
<1> QED BY <1>1, <1>2, PTL DEF Spec

\* Every SET stays well formed, whatever is done to it (set.h:11-31, set.c:67-87).
THEOREM SetTypes == Spec => []TypeOK
<1>1. SetInv => TypeOK
  <2> SUFFICES ASSUME SetInv, NEW h \in Handles
               PROVE  /\ set[h].nsize \in Nat \ {0} /\ set[h].nsize % DEFSIZE = 0
                      /\ set[h].nbits = set[h].nsize * W
                      /\ set[h].compl \in BOOLEAN
                      /\ set[h].map \in [0..set[h].nsize-1 -> Word]
    BY DEF SetInv, TypeOK
  <2>1. WellFormed(set[h])
    BY DEF SetInv
  <2>2. set[h].nsize \in 1..MaxSize /\ set[h].nsize \in Nat
    BY <2>1, SizeFacts
  <2>3. set[h].nsize # 0
    BY <2>2, MaxSizeFacts
  <2> QED BY <2>1, <2>2, <2>3 DEF WellFormed, SETs
<1> QED BY <1>1, SetInvariant, PTL

\* A loop of next_member() returns every member its set has had since the loop began,
\* although members are added and removed and the map grows (set.c:276-301).
THEOREM LoopsMissNothing == Spec => []LoopMissesNothing
<1>1. SetInv => LoopMissesNothing
  BY DEF SetInv, LoopMissesNothing
<1> QED BY <1>1, SetInvariant, PTL

-----------------------------------------------------------------------------
(* The package implements sets of integers: every call is a step of          *)
(* IntegerSets, or changes nothing that a caller can see.                    *)

Vals == [h \in Handles |-> Members(set[h])]
Negs == [h \in Handles |-> set[h].compl]

LEMMA BecomesSetTo ==
    ASSUME SetInv, NEW h \in live, NEW r, Becomes(h, r)
    PROVE  /\ live' = live
           /\ Vals' = [Vals EXCEPT ![h] = Members(r)]
           /\ Negs' = [Negs EXCEPT ![h] = r.compl]
<1>1. h \in Handles /\ set \in [Handles -> SETs] /\ set' = [set EXCEPT ![h] = r] /\ live' = live
  BY DEF SetInv, Becomes
<1>2. \A k \in Handles : set'[k] = IF k = h THEN r ELSE set[k]
  BY <1>1
<1>3. Vals' = [k \in Handles |-> Members(set'[k])]
  BY DEF Vals
<1>4. Negs' = [k \in Handles |-> set'[k].compl]
  BY DEF Negs
<1>5. Vals' = [Vals EXCEPT ![h] = Members(r)]
  BY <1>1, <1>2, <1>3 DEF Vals
<1>6. Negs' = [Negs EXCEPT ![h] = r.compl]
  BY <1>1, <1>2, <1>4 DEF Negs
<1> QED BY <1>1, <1>5, <1>6

LEMMA SetToStep ==
    ASSUME SetInv, NEW h \in live, NEW r, Becomes(h, r), r.compl = set[h].compl, NEW S,
           Members(r) = S
    PROVE  Sets!SetTo(h, S)
<1>1. h \in Handles /\ Negs[h] = r.compl
  BY DEF SetInv, Negs
<1>2. [Negs EXCEPT ![h] = r.compl] = Negs
  BY <1>1 DEF Negs
<1>3. live' = live /\ Vals' = [Vals EXCEPT ![h] = S] /\ Negs' = Negs
  BY <1>2, BecomesSetTo
<1> QED BY <1>3 DEF Sets!SetTo, Vals, Negs

LEMMA InitSets == Init => Sets!Init
<1> SUFFICES ASSUME Init PROVE Sets!Init
  OBVIOUS
<1>1. \A h \in Handles : set[h] = newset
  BY DEF Init
<1>2. [h \in Handles |-> Members(set[h])] = [h \in Handles |-> {}]
  BY <1>1, NewSetFacts
<1>3. [h \in Handles |-> set[h].compl] = [h \in Handles |-> FALSE]
  BY <1>1, NewSetFacts
<1> QED BY <1>2, <1>3 DEF Init, Sets!Init

\* The bits of a map are a bound that inverting and filling may take.
LEMMA MapIsRoom ==
    ASSUME SetInv, NEW h \in Handles
    PROVE  set[h].nbits \in Sets!Room(Members(set[h]))
<1>1. WellFormed(set[h])
  BY DEF SetInv
<1>2. set[h].nbits = set[h].nsize * W /\ set[h].nsize \in 1..MaxSize
  BY <1>1, SizeFacts
<1>3. Members(set[h]) \subseteq 0..set[h].nbits-1
  BY <1>1, MembersAreNat
<1>4. set[h].nbits \in {n * W : n \in 1..MaxSize}
  BY <1>2, Zenon
<1>5. set[h].nbits \in {n \in {k * W : k \in 1..MaxSize} : Members(set[h]) \subseteq 0..n-1}
  BY <1>3, <1>4, Zenon
<1> QED BY <1>5, Zenon DEF Sets!Room, MaxSize

LEMMA UpdateStep ==
    ASSUME SetInv, NEW h \in Handles, Update(h)
    PROVE  Sets!Next
<1> DEFINE s == set[h]
<1>0. WellFormed(s) /\ s.nbits \in Sets!Room(Members(s)) /\ Vals[h] = Members(s)
      /\ Negs[h] = s.compl
  BY MapIsRoom DEF SetInv, Vals, Negs
<1>1. PICK r : h \in live /\ UpdateOf(h, r) /\ Becomes(h, r)
  BY UpdateBecomes
<1>2. ASSUME NEW x \in Bits, r = ADD(s, x) PROVE Sets!Add(h, x)
  <2>1. r.compl = s.compl /\ Members(r) = Vals[h] \union {x}
    <3> HIDE DEF s
    <3> QED BY <1>0, <1>2, AddFacts
  <2>2. Sets!SetTo(h, Vals[h] \union {x})
    BY <1>1, <2>1, SetToStep
  <2> QED BY <2>2 DEF Sets!Add, Vals
<1>3. ASSUME NEW x \in Bits, r = REMOVE(s, x) PROVE Sets!Remove(h, x)
  <2>1. r.compl = s.compl /\ Members(r) = Vals[h] \ {x}
    <3> HIDE DEF s
    <3> QED BY <1>0, <1>3, RemoveFacts
  <2>2. Sets!SetTo(h, Vals[h] \ {x})
    BY <1>1, <2>1, SetToStep
  <2> QED BY <2>2 DEF Sets!Remove, Vals
<1>4. ASSUME r = COMPLEMENT(s) PROVE Sets!Complement(h)
  <2>1. r.compl = (~s.compl) /\ Members(r) = Members(s)
    <3> HIDE DEF s
    <3> QED BY <1>0, <1>4, ComplementFacts
  <2>2. /\ live' = live
        /\ Vals' = [Vals EXCEPT ![h] = Members(r)]
        /\ Negs' = [Negs EXCEPT ![h] = r.compl]
    BY <1>1, BecomesSetTo
  <2>3. [Vals EXCEPT ![h] = Members(r)] = Vals
    BY <1>0, <2>1 DEF Vals
  <2>4. [Negs EXCEPT ![h] = r.compl] = [Negs EXCEPT ![h] = ~@]
    BY <1>0, <2>1
  <2> QED BY <1>1, <2>2, <2>3, <2>4 DEF Sets!Complement, Vals, Negs
<1>5. ASSUME r = invert(s) PROVE Sets!Invert(h)
  <2>1. r.compl = s.compl /\ Members(r) = (0..s.nbits-1) \ Vals[h]
    <3> HIDE DEF s
    <3> QED BY <1>0, <1>5, InvertFacts
  <2>2. Sets!SetTo(h, (0..s.nbits-1) \ Vals[h])
    BY <1>1, <2>1, SetToStep
  <2>3. s.nbits \in Sets!Room(Vals[h])
    BY <1>0
  <2> QED BY <2>2, <2>3 DEF Sets!Invert, Vals
<1>6. ASSUME r = FILL(s) PROVE Sets!Fill(h)
  <2>1. r.compl = s.compl /\ Members(r) = 0..s.nbits-1
    <3> HIDE DEF s
    <3> QED BY <1>0, <1>6, FillFacts
  <2>2. Sets!SetTo(h, 0..s.nbits-1)
    BY <1>1, <2>1, SetToStep
  <2>3. s.nbits \in Sets!Room(Vals[h])
    BY <1>0
  <2> QED BY <2>2, <2>3 DEF Sets!Fill, Vals
<1>7. ASSUME r = CLEAR(s) \/ r = truncate(s) PROVE Sets!Clear(h)
  <2>1. r.compl = s.compl /\ Members(r) = {}
    <3> HIDE DEF s
    <3> QED BY <1>0, <1>7, ClearFacts, TruncateFacts
  <2>2. Sets!SetTo(h, {})
    BY <1>1, <2>1, SetToStep
  <2> QED BY <2>2 DEF Sets!Clear
<1> HIDE DEF s
<1>8. \/ \E x \in Bits : Sets!Add(h, x) \/ Sets!Remove(h, x)
      \/ Sets!Complement(h) \/ Sets!Invert(h) \/ Sets!Fill(h) \/ Sets!Clear(h)
  <2>1. \/ \E x \in Bits : r = ADD(s, x) \/ r = REMOVE(s, x)
        \/ r \in {COMPLEMENT(s), invert(s), truncate(s), CLEAR(s), FILL(s)}
    BY <1>1, Zenon DEF UpdateOf, s
  <2> QED BY <1>2, <1>3, <1>4, <1>5, <1>6, <1>7, <2>1, Zenon
<1> QED BY <1>8, Zenon DEF Sets!Next

LEMMA CreateSteps ==
    ASSUME SetInv, NEW h \in Handles, h \notin live, NEW r,
           live' = live \union {h}, set' = [set EXCEPT ![h] = r]
    PROVE  /\ Vals' = [Vals EXCEPT ![h] = Members(r)]
           /\ Negs' = [Negs EXCEPT ![h] = r.compl]
<1>1. set \in [Handles -> SETs]
  BY DEF SetInv
<1>2. \A k \in Handles : set'[k] = IF k = h THEN r ELSE set[k]
  BY <1>1
<1>3. Vals' = [k \in Handles |-> Members(set'[k])]
  BY DEF Vals
<1>4. Negs' = [k \in Handles |-> set'[k].compl]
  BY DEF Negs
<1>5. Vals' = [Vals EXCEPT ![h] = Members(r)]
  BY <1>1, <1>2, <1>3 DEF Vals
<1>6. Negs' = [Negs EXCEPT ![h] = r.compl]
  BY <1>1, <1>2, <1>4 DEF Negs
<1> QED BY <1>5, <1>6

LEMMA StepSets == SetInv /\ [Next]_vars => [Sets!Next]_(Sets!vars)
<1> SUFFICES ASSUME SetInv, [Next]_vars PROVE Sets!Next \/ UNCHANGED Sets!vars
  OBVIOUS
<1>0. ASSUME live' = live, Vals' = Vals, Negs' = Negs
      PROVE  UNCHANGED Sets!vars
  BY <1>0 DEF Sets!vars, Vals, Negs
<1>1. ASSUME set' = set, live' = live PROVE UNCHANGED Sets!vars
  <2>1. Vals' = Vals /\ Negs' = Negs
    BY <1>1 DEF Vals, Negs
  <2> QED BY <1>0, <1>1, <2>1
<1>2. ASSUME NEW h \in Handles, New(h) PROVE Sets!Next
  <2>1. h \notin live /\ live' = live \union {h} /\ set' = [set EXCEPT ![h] = newset]
    BY <1>2 DEF New
  <2>2. set[h] = newset /\ set \in [Handles -> SETs]
    BY <2>1 DEF SetInv
  <2>3. [set EXCEPT ![h] = newset] = set
    BY <2>2
  <2>4. set' = set
    BY <2>1, <2>3
  <2>5. Sets!Create(h)
    BY <2>1, <2>4 DEF Sets!Create
  <2> QED BY <2>5, Zenon DEF Sets!Next
<1>3. ASSUME NEW h \in Handles, NEW s \in Handles, Dup(h, s) PROVE Sets!Next
  <2>1. /\ h \notin live /\ s \in live /\ live' = live \union {h}
        /\ set' = [set EXCEPT ![h] = set[s]]
    BY <1>3 DEF Dup
  <2>2. /\ Vals' = [Vals EXCEPT ![h] = Vals[s]]
        /\ Negs' = [Negs EXCEPT ![h] = Negs[s]]
    <3>1. Vals[s] = Members(set[s]) /\ Negs[s] = set[s].compl
      BY DEF Vals, Negs
    <3>2. /\ Vals' = [Vals EXCEPT ![h] = Members(set[s])]
          /\ Negs' = [Negs EXCEPT ![h] = set[s].compl]
      BY <2>1, CreateSteps
    <3> QED BY <3>1, <3>2
  <2>3. Sets!Duplicate(h, s)
    BY <2>1, <2>2 DEF Sets!Duplicate, Vals, Negs
  <2> QED BY <2>3, Zenon DEF Sets!Next
<1>4. ASSUME NEW h \in Handles, Delete(h) PROVE Sets!Next
  <2>1. h \in live /\ live' = live \ {h} /\ set' = [set EXCEPT ![h] = newset]
    BY <1>4 DEF Delete
  <2>2. set \in [Handles -> SETs]
    BY DEF SetInv
  <2>3. \A k \in Handles : set'[k] = IF k = h THEN newset ELSE set[k]
    BY <2>1, <2>2
  <2>4. Vals' = [k \in Handles |-> Members(set'[k])] /\ Negs' = [k \in Handles |-> set'[k].compl]
    BY DEF Vals, Negs
  <2>5. Vals' = [Vals EXCEPT ![h] = {}]
    BY <2>3, <2>4, NewSetFacts DEF Vals
  <2>6. Negs' = [Negs EXCEPT ![h] = FALSE]
    BY <2>3, <2>4, NewSetFacts DEF Negs
  <2>7. Sets!Delete(h)
    BY <2>1, <2>5, <2>6 DEF Sets!Delete, Vals, Negs
  <2> QED BY <2>7, Zenon DEF Sets!Next
<1>5. ASSUME NEW h \in Handles, Update(h) PROVE Sets!Next
  BY <1>5, UpdateStep
<1>6. ASSUME NEW d \in Handles, NEW s \in Handles, Operate(d, s) PROVE Sets!Next
  <2>1. PICK op \in {"union", "intersect", "difference", "assign"} :
            d \in live /\ s \in live /\ Becomes(d, _set_op(op, set[d], set[s]))
    BY <1>6 DEF Operate
  <2> DEFINE r == _set_op(op, set[d], set[s])
  <2>2. WellFormed(set[d]) /\ WellFormed(set[s])
    BY DEF SetInv
  <2>3. r.compl = set[d].compl /\ Members(r) = Combine(op, Members(set[d]), Members(set[s]))
    BY <2>2, OperateFacts
  <2> HIDE DEF r
  <2>4. Vals[d] = Members(set[d]) /\ Vals[s] = Members(set[s])
    BY DEF Vals
  <2>5. Members(r) = Sets!Combined(op, Vals[d], Vals[s])
    BY <2>3, <2>4 DEF Combine, Sets!Combined
  <2>6. Sets!SetTo(d, Sets!Combined(op, Vals[d], Vals[s]))
    BY <2>1, <2>3, <2>5, SetToStep DEF r
  <2>7. Sets!Operate(op, d, s)
    BY <2>1, <2>6 DEF Sets!Operate, Vals
  <2> QED BY <2>7, Zenon DEF Sets!Next
<1>7. ASSUME NEW h \in Handles, NEW s \in Handles, SetTest(h, s) PROVE UNCHANGED Sets!vars
  <2>1. \A k \in Handles : /\ Members(set'[k]) = Members(set[k])
                           /\ set'[k].compl = set[k].compl
    BY <1>7, SetTestKeeps
  <2>2. Vals' = [k \in Handles |-> Members(set'[k])] /\ Negs' = [k \in Handles |-> set'[k].compl]
    BY DEF Vals, Negs
  <2>3. Vals' = Vals /\ Negs' = Negs
    BY <2>1, <2>2 DEF Vals, Negs
  <2>4. live' = live
    BY <1>7 DEF SetTest
  <2> QED BY <1>0, <2>3, <2>4
<1>8. ASSUME NEW h \in Handles, NextMember(h) PROVE UNCHANGED Sets!vars
  BY <1>1, <1>8 DEF NextMember
<1>9. CASE Reset
  BY <1>1, <1>9 DEF Reset
<1>10. CASE UNCHANGED vars
  BY <1>1, <1>10 DEF vars
<1> QED BY <1>2, <1>3, <1>4, <1>5, <1>6, <1>7, <1>8, <1>9, <1>10 DEF Next

\* The set package implements sets of integers: adding, removing, inverting, filling,
\* emptying and combining sets do what they say, whatever the sizes of the maps, and a
\* call that grows a map or walks over it changes no set (set.c:67-92, 213-301).
THEOREM SetsImplemented == Spec => ImplementsSets
<1>1. Init => Sets!Init
  BY InitSets
<1>2. SetInv /\ [Next]_vars => [Sets!Next]_(Sets!vars)
  BY StepSets
<1> QED BY <1>1, <1>2, SetInvariant, PTL DEF Spec, ImplementsSets, Sets!Spec

-----------------------------------------------------------------------------
(* Comparisons: the value of a word determines it, so the difference of two  *)
(* values is 0 only for equal words, although it is taken modulo 2^W.        *)

\* The bit of a word that the k-th turn of Value adds.
Digit(w, k) == IF W - k \in w THEN 1 ELSE 0

\* The recursion of Value defines a function.
LEMMA ValueDefined ==
    ASSUME NEW w
    PROVE  \E v : /\ v[0] = 0 /\ \A k \in 1..W : v[k] = 2 * v[k-1] + Digit(w, k)
                  /\ Value(w) = v[W]
<1> DEFINE Step(f, k) == IF k = 0 THEN 0 ELSE 2 * f[k-1] + Digit(w, k)
           Equation(f, m) == f = [k \in 0..m |-> Step(f, k)]
           P == {m \in Nat : \E f : Equation(f, m)}
<1>1. 0 \in P
  <2>1. Equation([k \in 0..0 |-> 0], 0)
    OBVIOUS
  <2> QED BY <2>1
<1>2. ASSUME NEW m \in Nat, m \in P PROVE m + 1 \in P
  <2>1. PICK f : Equation(f, m)
    BY <1>2
  <2>2. \A k \in 0..m : f[k] = Step(f, k)
    BY <2>1
  <2> DEFINE last == 2 * f[m] + Digit(w, m + 1)
             g == [k \in 0..m+1 |-> IF k <= m THEN f[k] ELSE last]
  <2>3. (\A k \in 0..m : g[k] = f[k]) /\ g[m+1] = last
    BY <1>2
  <2>4. ASSUME NEW k \in 0..m+1 PROVE g[k] = Step(g, k)
    <3> HIDE DEF g
    <3>1. CASE k = 0
      <4>1. 0 \in 0..m
        BY <1>2
      <4>2. f[0] = 0
        BY <2>2, <4>1
      <4>3. g[0] = 0
        BY <2>3, <4>1, <4>2
      <4> QED BY <3>1, <4>3
    <3>2. CASE k # 0 /\ k <= m
      <4>1. k \in 0..m /\ k - 1 \in 0..m
        BY <3>2, <1>2
      <4>2. f[k] = 2 * f[k-1] + Digit(w, k)
        BY <2>2, <3>2, <4>1
      <4>3. g[k] = f[k] /\ g[k-1] = f[k-1]
        BY <2>3, <4>1
      <4>4. g[k] = 2 * g[k-1] + Digit(w, k)
        BY <4>2, <4>3
      <4> QED BY <3>2, <4>4
    <3>3. CASE k = m + 1
      <4>1. k - 1 = m /\ k # 0 /\ m \in 0..m
        BY <3>3, <1>2
      <4> QED BY <2>3, <3>3, <4>1
    <3> QED BY <3>1, <3>2, <3>3, <1>2
  <2>5. g = [k \in 0..m+1 |-> g[k]]
    OBVIOUS
  <2>6. Equation(g, m + 1)
    <3> HIDE DEF g
    <3>1. [k \in 0..m+1 |-> g[k]] = [k \in 0..m+1 |-> Step(g, k)]
      <4> HIDE DEF Step
      <4> QED BY <2>4
    <3> QED BY <2>5, <3>1
  <2>7. \E h : Equation(h, m + 1)
    <3> HIDE DEF Equation, g
    <3> QED BY <2>6
  <2> QED BY <2>7, <1>2
<1>3. \A m \in Nat : m \in P
  <2> HIDE DEF P
  <2> QED BY <1>1, <1>2, SetInduction
<1> DEFINE v == CHOOSE f : Equation(f, W)
<1>4. Equation(v, W)
  <2>1. \E f : Equation(f, W)
    BY <1>3, WordSize
  <2> HIDE DEF Equation
  <2> QED BY <2>1
<1>5. Value(w) = v[W]
  BY WordSize DEF Value, Digit
<1>6. v[0] = 0 /\ \A k \in 1..W : v[k] = 2 * v[k-1] + Digit(w, k)
  <2> HIDE DEF v
  <2>1. v = [k \in 0..W |-> Step(v, k)]
    BY <1>4
  <2> HIDE DEF Step
  <2>2. \A k \in 0..W : v[k] = Step(v, k)
    BY <2>1
  <2>3. v[0] = Step(v, 0)
    BY WordSize, <2>2
  <2>4. \A k \in 1..W : k \in 0..W /\ k # 0
    BY WordSize
  <2> QED BY <2>2, <2>3, <2>4 DEF Step
<1> HIDE DEF v
<1> QED BY <1>5, <1>6

\* Words with the same value are the same.
LEMMA ValueInjective ==
    ASSUME NEW w \in Word, NEW x \in Word, Value(w) = Value(x)
    PROVE  w = x
<1>1. PICK v : /\ v[0] = 0 /\ \A k \in 1..W : v[k] = 2 * v[k-1] + Digit(w, k)
               /\ Value(w) = v[W]
  BY ValueDefined
<1>2. PICK y : /\ y[0] = 0 /\ \A k \in 1..W : y[k] = 2 * y[k-1] + Digit(x, k)
               /\ Value(x) = y[W]
  BY ValueDefined
<1>3. \A k : Digit(w, k) \in {0, 1} /\ Digit(x, k) \in {0, 1}
  BY DEF Digit
<1> DEFINE P == {k \in Nat : k <= W => /\ v[k] \in Nat /\ y[k] \in Nat
                                       /\ v[k] = y[k] => \A j \in 1..k : Digit(w, j) = Digit(x, j)}
<1>4. 0 \in P
  BY <1>1, <1>2
<1>5. ASSUME NEW k \in Nat, k \in P PROVE k + 1 \in P
  <2> SUFFICES ASSUME k + 1 <= W
               PROVE  /\ v[k+1] \in Nat /\ y[k+1] \in Nat
                      /\ v[k+1] = y[k+1] => \A j \in 1..(k+1) : Digit(w, j) = Digit(x, j)
    OBVIOUS
  <2>1. /\ v[k] \in Nat /\ y[k] \in Nat
        /\ v[k] = y[k] => \A j \in 1..k : Digit(w, j) = Digit(x, j)
    BY <1>5, WordSize
  <2> HIDE DEF P
  <2>2. k + 1 \in 1..W /\ (k + 1) - 1 = k
    BY WordSize
  <2>3. v[k+1] = 2 * v[k] + Digit(w, k + 1) /\ y[k+1] = 2 * y[k] + Digit(x, k + 1)
    BY <1>1, <1>2, <2>2
  <2>4. Digit(w, k + 1) \in {0, 1} /\ Digit(x, k + 1) \in {0, 1}
    BY <1>3
  <2>5. v[k+1] \in Nat /\ y[k+1] \in Nat
        /\ (v[k+1] = y[k+1] => v[k] = y[k] /\ Digit(w, k + 1) = Digit(x, k + 1))
    <3> DEFINE a == Digit(w, k + 1)
               b == Digit(x, k + 1)
    <3> HIDE DEF a, b
    <3>1. a \in {0, 1} /\ b \in {0, 1} /\ v[k+1] = 2 * v[k] + a /\ y[k+1] = 2 * y[k] + b
      BY <2>3, <2>4 DEF a, b
    <3>2. v[k+1] \in Nat /\ y[k+1] \in Nat /\ (v[k+1] = y[k+1] => v[k] = y[k] /\ a = b)
      BY <2>1, <3>1
    <3> QED BY <3>2 DEF a, b
  <2>6. \A j \in 1..(k+1) : j \in 1..k \/ j = k + 1
    OBVIOUS
  <2> QED BY <2>1, <2>5, <2>6
<1>6. \A k \in Nat : k \in P
  <2> HIDE DEF P
  <2> QED BY <1>4, <1>5, SetInduction
<1>7. \A j \in 1..W : Digit(w, j) = Digit(x, j)
  <2>1. W \in P
    BY <1>6, WordSize
  <2>2. v[W] = y[W] => \A j \in 1..W : Digit(w, j) = Digit(x, j)
    BY <2>1, WordSize
  <2>3. v[W] = y[W]
    BY <1>1, <1>2
  <2> QED BY <2>2, <2>3
<1>8. \A i \in 0..W-1 : i \in w <=> i \in x
  <2> TAKE i \in 0..W-1
  <2>1. W - i \in 1..W /\ W - (W - i) = i
    BY WordSize
  <2>2. Digit(w, W - i) = Digit(x, W - i)
    BY <1>7, <2>1
  <2> QED BY <2>1, <2>2 DEF Digit
<1> QED BY <1>8 DEF Word

\* No word has a value beyond that of the full word.
LEMMA ValueBelowModulus ==
    ASSUME NEW w \in Word
    PROVE  Value(w) \in Nat /\ Modulus \in Nat /\ Value(w) < Modulus
<1> DEFINE full == 0..W-1
<1>1. PICK v : /\ v[0] = 0 /\ \A k \in 1..W : v[k] = 2 * v[k-1] + Digit(w, k)
               /\ Value(w) = v[W]
  BY ValueDefined
<1>2. PICK y : /\ y[0] = 0 /\ \A k \in 1..W : y[k] = 2 * y[k-1] + Digit(full, k)
               /\ Value(full) = y[W]
  BY ValueDefined
<1>3. \A k \in 1..W : Digit(w, k) \in {0, 1} /\ Digit(full, k) = 1
  BY WordSize DEF Digit
<1> DEFINE P == {k \in Nat : k <= W => v[k] \in Nat /\ y[k] \in Nat /\ v[k] <= y[k]}
<1>4. 0 \in P
  BY <1>1, <1>2
<1>5. ASSUME NEW k \in Nat, k \in P PROVE k + 1 \in P
  <2> SUFFICES ASSUME k + 1 <= W
               PROVE  v[k+1] \in Nat /\ y[k+1] \in Nat /\ v[k+1] <= y[k+1]
    OBVIOUS
  <2>1. v[k] \in Nat /\ y[k] \in Nat /\ v[k] <= y[k]
    BY <1>5, WordSize
  <2> HIDE DEF P, full
  <2>2. k + 1 \in 1..W /\ (k + 1) - 1 = k
    BY WordSize
  <2> DEFINE a == Digit(w, k + 1)
  <2> HIDE DEF a
  <2>3. v[k+1] = 2 * v[k] + a /\ y[k+1] = 2 * y[k] + 1 /\ a \in {0, 1}
    BY <1>1, <1>2, <1>3, <2>2 DEF a
  <2> QED BY <2>1, <2>3
<1>6. \A k \in Nat : k \in P
  <2> HIDE DEF P
  <2> QED BY <1>4, <1>5, SetInduction
<1>7. W \in P
  BY <1>6, WordSize
<1> QED BY <1>1, <1>2, <1>7, WordSize DEF Modulus

\* A difference of two values that is 0 modulo 2^W is 0.
LEMMA SignedZero ==
    ASSUME NEW m \in Nat, NEW d \in Int, -m < d, d < m
    PROVE  d % m = 0 <=> d = 0
<1> DEFINE q == d \div m
           r == d % m
<1>1. m > 0 /\ q \in Int /\ r \in Int /\ d = m * q + r
  OBVIOUS
<1>2. d = 0 => r = 0
  OBVIOUS
<1> HIDE DEF q, r
<1>3. ASSUME r = 0, d # 0 PROVE FALSE
  <2> DEFINE p == m * q
  <2>1. d = p /\ p \in Int
    BY <1>1, <1>3
  <2>2. q >= 1 => p >= m
    BY <1>1
  <2>3. q <= -1 => p <= -m
    BY <1>1
  <2>4. q = 0 => p = 0
    BY <1>1
  <2> HIDE DEF p
  <2> QED BY <1>1, <1>3, <2>1, <2>2, <2>3, <2>4
<1> QED BY <1>2, <1>3 DEF r

LEMMA WordsCompared ==
    ASSUME NEW w \in Word, NEW x \in Word
    PROVE  Signed(Value(w) - Value(x)) = 0 <=> w = x
<1> DEFINE m == Modulus
           d == Value(w) - Value(x)
           r == d % m
<1>1. m \in Nat /\ d \in Int /\ -m < d /\ d < m /\ m > 0
  <2> DEFINE a == Value(w)
             b == Value(x)
  <2>1. a \in Nat /\ b \in Nat /\ m \in Nat /\ a < m /\ b < m
    BY ValueBelowModulus
  <2> HIDE DEF a, b, m
  <2>2. m \in Nat /\ a - b \in Int /\ -m < a - b /\ a - b < m /\ m > 0
    BY <2>1
  <2> QED BY <2>2 DEF a, b
<1>2. w = x <=> d = 0
  <2> DEFINE a == Value(w)
             b == Value(x)
  <2>1. a \in Nat /\ b \in Nat
    BY ValueBelowModulus
  <2>2. w = x <=> a = b
    BY ValueInjective
  <2> HIDE DEF a, b
  <2>3. a = b <=> a - b = 0
    BY <2>1
  <2> QED BY <2>2, <2>3 DEF a, b
<1>3. Signed(d) = IF 2 * r >= m THEN r - m ELSE r
  BY Zenon DEF Signed
<1> HIDE DEF m, d
<1>4. r \in Nat /\ r < m /\ (r = 0 <=> d = 0)
  BY <1>1, SignedZero
<1> HIDE DEF r
<1>5. Signed(d) = 0 <=> r = 0
  BY <1>1, <1>3, <1>4
<1> QED BY <1>2, <1>4, <1>5 DEF d

LEMMA SetcmpFacts ==
    ASSUME NEW s, WellFormed(s), NEW t, WellFormed(t)
    PROVE  IS_EQUIVALENT(s, t) <=> Members(s) = Members(t)
<1> DEFINE n == Smaller(s.nsize, t.nsize)
           differ == {i \in 0..n-1 : s.map[i] # t.map[i]}
           l == Least(differ)
           tail1 == \E i \in n..s.nsize-1 : s.map[i] # {}
           tail2 == \E i \in n..t.nsize-1 : t.map[i] # {}
<1>1. s.nsize \in Nat /\ t.nsize \in Nat /\ n \in Nat /\ n <= s.nsize /\ n <= t.nsize
      /\ (n = s.nsize \/ n = t.nsize)
  BY SizeFacts DEF Smaller
<1>2. setcmp(s, t) = IF differ # {} THEN Signed(Value(s.map[l]) - Value(t.map[l]))
                     ELSE IF tail1 THEN 1 ELSE IF tail2 THEN -1 ELSE 0
  BY Zenon DEF setcmp
<1>3. Members(s) = Members(t) <=> \A i \in Nat : WordAt(s, i) = WordAt(t, i)
  BY EqualByWords
<1>4. CASE differ # {}
  <2>1. differ \in SUBSET Nat
    BY <1>1
  <2>2. l \in differ
    <3> HIDE DEF differ
    <3> QED BY <1>4, <2>1, LeastFacts
  <2>3. l \in Nat /\ l < s.nsize /\ l < t.nsize /\ s.map[l] # t.map[l]
    <3> HIDE DEF n, l
    <3> QED BY <1>1, <2>2
  <2>4. s.map[l] \in Word /\ t.map[l] \in Word
    <3> HIDE DEF l
    <3> QED BY <1>1, <2>3, SizeFacts
  <2>5. setcmp(s, t) # 0
    <3>1. setcmp(s, t) = Signed(Value(s.map[l]) - Value(t.map[l]))
      BY <1>2, <1>4
    <3> HIDE DEF l
    <3> QED BY <2>3, <2>4, <3>1, WordsCompared
  <2>6. WordAt(s, l) # WordAt(t, l)
    <3> HIDE DEF l
    <3> QED BY <2>3 DEF WordAt
  <2> HIDE DEF l
  <2> QED BY <1>3, <2>3, <2>5, <2>6 DEF IS_EQUIVALENT
<1>5. CASE differ = {}
  <2>1. \A i \in Nat : i < n => s.map[i] = t.map[i]
    <3> HIDE DEF n
    <3> QED BY <1>1, <1>5
  <2>2. setcmp(s, t) = 0 <=> ~tail1 /\ ~tail2
    <3> HIDE DEF differ, tail1, tail2
    <3> QED BY <1>2, <1>5
  <2> HIDE DEF n, differ
  <2>3. ASSUME tail1 PROVE \E i \in Nat : WordAt(s, i) # WordAt(t, i)
    <3>1. PICK i \in n..s.nsize-1 : s.map[i] # {}
      BY <2>3
    <3>2. i \in Nat /\ i < s.nsize /\ ~(i < t.nsize)
      BY <1>1, <3>1
    <3> QED BY <3>1, <3>2 DEF WordAt
  <2>4. ASSUME tail2 PROVE \E i \in Nat : WordAt(s, i) # WordAt(t, i)
    <3>1. PICK i \in n..t.nsize-1 : t.map[i] # {}
      BY <2>4
    <3>2. i \in Nat /\ i < t.nsize /\ ~(i < s.nsize)
      BY <1>1, <3>1
    <3> QED BY <3>1, <3>2 DEF WordAt
  <2>5. ASSUME ~tail1, ~tail2, NEW i \in Nat PROVE WordAt(s, i) = WordAt(t, i)
    <3>1. CASE i < n
      BY <1>1, <2>1, <3>1 DEF WordAt
    <3>2. CASE ~(i < n)
      <4>1. i < s.nsize => s.map[i] = {}
        BY <1>1, <2>5, <3>2
      <4>2. i < t.nsize => t.map[i] = {}
        BY <1>1, <2>5, <3>2
      <4> QED BY <4>1, <4>2 DEF WordAt
    <3> QED BY <3>1, <3>2
  <2> HIDE DEF tail1, tail2
  <2> QED BY <1>3, <2>2, <2>3, <2>4, <2>5 DEF IS_EQUIVALENT
<1> QED BY <1>4, <1>5

LEMMA SubsetFacts ==
    ASSUME NEW s, WellFormed(s), NEW t, WellFormed(t)
    PROVE  subset(s, t) <=> Members(t) \subseteq Members(s)
<1> DEFINE n == Smaller(s.nsize, t.nsize)
<1>1. s.nsize \in Nat /\ t.nsize \in Nat /\ n \in Nat /\ n <= s.nsize /\ n <= t.nsize
      /\ (n = s.nsize \/ n = t.nsize)
  BY SizeFacts DEF Smaller
<1>2. subset(s, t) <=> /\ \A i \in 0..n-1 : t.map[i] \subseteq s.map[i]
                       /\ \A i \in n..t.nsize-1 : t.map[i] = {}
  BY Zenon DEF subset
<1> HIDE DEF n
<1>3. ASSUME subset(s, t), NEW i \in Nat PROVE WordAt(t, i) \subseteq WordAt(s, i)
  <2>1. CASE i < n
    BY <1>1, <1>2, <1>3, <2>1 DEF WordAt
  <2>2. CASE ~(i < n)
    <3>1. i < t.nsize => t.map[i] = {}
      BY <1>1, <1>2, <1>3, <2>2
    <3> QED BY <3>1 DEF WordAt
  <2> QED BY <2>1, <2>2
<1>4. ASSUME \A i \in Nat : WordAt(t, i) \subseteq WordAt(s, i) PROVE subset(s, t)
  <2>1. ASSUME NEW i \in 0..n-1 PROVE t.map[i] \subseteq s.map[i]
    <3>1. i \in Nat /\ i < s.nsize /\ i < t.nsize
      BY <1>1
    <3> QED BY <1>4, <3>1 DEF WordAt
  <2>2. ASSUME NEW i \in n..t.nsize-1 PROVE t.map[i] = {}
    <3>1. i \in Nat /\ ~(i < s.nsize) /\ i < t.nsize
      BY <1>1
    <3> QED BY <1>4, <3>1 DEF WordAt
  <2> QED BY <1>2, <2>1, <2>2
<1> QED BY <1>3, <1>4, SubsetByWords

LEMMA EmptyFacts ==
    ASSUME NEW s, WellFormed(s)
    PROVE  IS_EMPTY(s) <=> Members(s) = {}
<1>1. s.nbits \in Nat /\ Members(s) \subseteq 0..s.nbits-1
  BY MembersAreNat
<1>2. IsFiniteSet(0..s.nbits-1)
  BY <1>1, CardBelow
<1>3. IsFiniteSet(Members(s))
  BY <1>1, <1>2, FS_Subset
<1>4. Cardinality(Members(s)) = 0 <=> Members(s) = {}
  BY <1>3, FS_EmptySet
<1> QED BY <1>4 DEF IS_EMPTY, num_ele, Members

\* Two sets are found equivalent, one a subset of the other, or empty, exactly if their
\* members say so, whatever the sizes of their maps (set.c:94-108, 131-172, 183-211).
THEOREM ComparisonsIgnoreSizes == Spec => []ComparisonsAgree
<1>1. SetInv => ComparisonsAgree
  <2> SUFFICES ASSUME SetInv, NEW h \in live, NEW s \in live
               PROVE  /\ IS_EQUIVALENT(set[h], set[s]) <=> Members(set[h]) = Members(set[s])
                      /\ subset(set[h], set[s]) <=> Members(set[s]) \subseteq Members(set[h])
                      /\ IS_EMPTY(set[h]) <=> IS_EQUIVALENT(set[h], newset)
    BY DEF ComparisonsAgree
  <2>1. WellFormed(set[h]) /\ WellFormed(set[s])
    BY DEF SetInv
  <2>2. WellFormed(newset) /\ Members(newset) = {}
    BY NewSetFacts
  <2>3. IS_EQUIVALENT(set[h], newset) <=> Members(set[h]) = {}
    BY <2>1, <2>2, SetcmpFacts
  <2> QED BY <2>1, <2>3, SetcmpFacts, SubsetFacts, EmptyFacts
<1> QED BY <1>1, SetInvariant, PTL

=============================================================================
