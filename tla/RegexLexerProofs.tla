--------------------------- MODULE RegexLexerProofs ---------------------------
(***************************************************************************)
(* Proofs that the front end of rlex stays within its texts and tables,    *)
(* whatever file it reads: the pointers of advance() point into the line   *)
(* or the macro they are for, the stack of macros into the line that is    *)
(* being read, and the code of the rules fits into its block.              *)
(***************************************************************************)
EXTENDS RegexLexer, LeastElements, SequenceTheorems

-----------------------------------------------------------------------------
(* What the files must not have *)

\* No escape sequence is cut off by the end of its text: esc() would step over the NUL
\* (escape.c:46-57).
EscapesEnd ==
    InChar /\ ~Ends /\ ~Quoted /\ Here(Behind) = BACKSLASH =>
        /\ Here(Skip(Behind, 1)) # NUL
        /\ Here(Skip(Behind, 1)) = CARET => Here(Skip(Behind, 2)) # NUL

\* No expression ends within a macro: the pointer behind the macro's name would be used
\* in the next line (nfa.c:425).
EndsInLine == InChar /\ Ends => stack = <<>>

\* The check for room is within the loop over the code (nfa.c:141): there is none for a
\* rule that has no code.
RoomForNone == EndOfRule /\ Code = <<>> => WORD * (savep + 2) <= STR_MAX

Regular == EscapesEnd /\ EndsInLine /\ RoomForNone

-----------------------------------------------------------------------------
(* The inductive invariant *)

HeadPlaces == {"head", "strip", "head line"}
Reading == HeadPlaces \union {"call", "line", "got", "null"}

Pointer == [src : Int, at : Int]

\* What the reader of rules keeps.
Typed ==
    /\ file \in Files
    /\ Input_buf \in Seq(Nat) /\ macros \in Seq([name : Seq(Nat), text : Seq(Nat)])
    /\ at \in 0..Len(file.lines) /\ p \in 0..MAXINP-1
    /\ Actual_lineno \in 1..at+1 /\ Lineno \in 1..Actual_lineno
    /\ pc = "line" => p <= Len(Input_buf)

\* A line of the head ends with white space and a NUL.
LineEnds(s, e) ==
    e \in 2..Len(s) /\ s[e] = NUL /\ isspace(s[e-1]) /\ \A j \in 1..e-1 : s[j] # NUL

HeadLine == pc \in {"strip", "head line"} => \E e \in 2..Len(Input_buf) : LineEnds(Input_buf, e)

\* The pointers into a line or a macro that is there, to a character or to the NUL behind.
Good == {ptr \in Pointer : ValidPointer(ptr)}

\* No pointer is used for a line other than the one it points to.
Pointers ==
    /\ Input \in Pointer /\ stack \in Seq(Pointer)
    /\ pc \in HeadPlaces => Input = [src |-> 0, at |-> 1]
    /\ pc \in {"token", "scan", "parse"} => Input = NULL \/ Input \in Good
    /\ pc # "failed" => stack \in Seq(Good) /\ Len(stack) <= SSIZE
    /\ pc \in Reading => stack = <<>>
    /\ pc \in {"token", "parse"} /\ Current_tok = "EOS" => stack = <<>>

\* A new line is only read at the end of the one before, and Input is NULL only at the end
\* of the rules.
Turns ==
    /\ (Input = NULL) = (Current_tok = "END_OF_INPUT")
    /\ pc \in Reading => Current_tok = "EOS" /\ mode # "end"
    /\ mode = "end" => Current_tok # "END_OF_INPUT"
    /\ mode = "end" /\ pc \in {"token", "scan"} => Current_tok = "AT_EOL"

Modes == {"rule", "expr", "end", "class", "negated", "dodash", "range"}

Saved ==
    /\ depth \in Nat /\ mode \in Modes
    /\ savep \in Nat /\ WORD * savep <= STR_MAX
    /\ \A str \in strings : str.at \in 1..savep

LineInv == Typed /\ HeadLine /\ Pointers /\ Turns /\ Saved

-----------------------------------------------------------------------------
(* Scans *)

\* Where a scan of s from i on stops: e is the first place in stops, or behind the end.
Stopped(s, i, e, stops) ==
    /\ e \in Nat /\ e >= i
    /\ i <= Len(s) + 1 => e <= Len(s) + 1
    /\ e <= Len(s) => e \in stops
    /\ \A j \in i..e-1 : j \in 1..Len(s) /\ j \notin stops

LEMMA FirstStop ==
    ASSUME NEW s \in Seq(Nat), NEW i \in Nat, i >= 1, NEW stops, stops \subseteq i..Len(s)
    PROVE  Stopped(s, i, IF i > Len(s) THEN i ELSE Min(stops \union {Len(s) + 1}), stops)
<1>0. Len(s) \in Nat
  BY LenProperties
<1>1. CASE i > Len(s)
  BY <1>0, <1>1 DEF Stopped
<1>2. CASE i <= Len(s)
  <2> DEFINE S == stops \union {Len(s) + 1}
             e == Min(S)
  <2>1. \A y \in S : y \in Nat /\ y >= i /\ y <= Len(s) + 1
    BY <1>0, <1>2
  <2>2. Len(s) + 1 \in S
    OBVIOUS
  <2>3. e \in S /\ \A y \in S : e <= y
    <3> HIDE DEF S
    <3> QED BY <2>1, <2>2, MinNat
  <2>4. e <= Len(s) => e \in stops
    BY <1>0, <2>3
  <2>5. e \in Nat /\ e >= i /\ e <= Len(s) + 1
    <3> HIDE DEF S, e
    <3> QED BY <2>1, <2>3
  <2>6. \A j \in i..e-1 : j \notin stops
    <3> SUFFICES ASSUME NEW j \in i..e-1, j \in stops PROVE FALSE
      OBVIOUS
    <3>1. j \in S
      OBVIOUS
    <3>2. e <= j
      BY <2>3, <3>1
    <3> HIDE DEF S, e
    <3> QED BY <2>5, <3>2
  <2> HIDE DEF e
  <2>7. Stopped(s, i, e, stops)
    BY <1>0, <1>2, <2>4, <2>5, <2>6 DEF Stopped
  <2> QED BY <1>0, <1>2, <2>7 DEF e
<1> QED BY <1>0, <1>1, <1>2

LEMMA SkipFacts ==
    ASSUME NEW s \in Seq(Nat), NEW i \in Nat, i >= 1
    PROVE  Stopped(s, i, SkipSpace(s, i), {k \in i..Len(s) : ~isspace(s[k])})
<1> DEFINE stops == {k \in i..Len(s) : ~isspace(s[k])}
<1>1. SkipSpace(s, i) = IF i > Len(s) THEN i ELSE Min(stops \union {Len(s) + 1})
  BY DEF Scan, SkipSpace
<1> HIDE DEF stops
<1>2. stops \subseteq i..Len(s)
  BY DEF stops
<1>3. Stopped(s, i, SkipSpace(s, i), stops)
  BY <1>1, <1>2, FirstStop
<1> QED BY <1>3 DEF stops

LEMMA NameFacts ==
    ASSUME Input_buf \in Seq(Nat)
    PROVE  Stopped(Input_buf, 1, NameEnd, {k \in 1..Len(Input_buf) : isspace(Input_buf[k])})
<1> DEFINE s == Input_buf
           stops == {k \in 1..Len(s) : isspace(s[k])}
<1>1. NameEnd = IF 1 > Len(s) THEN 1 ELSE Min(stops \union {Len(s) + 1})
  BY DEF Scan, NameEnd
<1>0. s \in Seq(Nat)
  OBVIOUS
<1> HIDE DEF stops, s
<1>2. stops \subseteq 1..Len(s)
  BY DEF stops
<1>3. Stopped(s, 1, NameEnd, stops)
  <2>1. 1 \in Nat /\ 1 >= 1
    OBVIOUS
  <2>2. Stopped(s, 1, IF 1 > Len(s) THEN 1 ELSE Min(stops \union {Len(s) + 1}), stops)
    BY <1>0, <1>2, <2>1, FirstStop, Zenon
  <2> QED BY <1>1, <2>2
<1> QED BY <1>3 DEF stops, s

LEMMA NulFacts ==
    ASSUME NEW s \in Seq(Nat), NEW i \in Nat, i >= 1
    PROVE  Stopped(s, i, EndOf(s, i), {k \in i..Len(s) : s[k] = NUL})
<1> DEFINE stops == {k \in i..Len(s) : s[k] = NUL}
<1>1. EndOf(s, i) = IF i > Len(s) THEN i ELSE Min(stops \union {Len(s) + 1})
  BY DEF Scan, EndOf
<1> HIDE DEF stops
<1>2. stops \subseteq i..Len(s)
  BY DEF stops
<1>3. Stopped(s, i, EndOf(s, i), stops)
  BY <1>1, <1>2, FirstStop
<1> QED BY <1>3 DEF stops

LEMMA BraceFacts ==
    ASSUME NEW s \in Seq(Nat), NEW i \in Nat, i >= 1
    PROVE  Stopped(s, i, NameClose(s, i), {k \in i..Len(s) : s[k] \in {RBRACE, NUL}})
<1> DEFINE stops == {k \in i..Len(s) : s[k] \in {RBRACE, NUL}}
<1>1. NameClose(s, i) = IF i > Len(s) THEN i ELSE Min(stops \union {Len(s) + 1})
  BY DEF Scan, NameClose
<1> HIDE DEF stops
<1>2. stops \subseteq i..Len(s)
  BY DEF stops
<1>3. Stopped(s, i, NameClose(s, i), stops)
  BY <1>1, <1>2, FirstStop
<1> QED BY <1>3 DEF stops

-----------------------------------------------------------------------------
(* Strings *)

\* Any part of a text is one.
LEMMA PartOf ==
    ASSUME NEW s \in Seq(Nat), NEW m \in Int, NEW n \in Int, m >= 1, n <= Len(s)
    PROVE  /\ SubSeq(s, m, n) \in Seq(Nat)
           /\ Len(SubSeq(s, m, n)) = IF m <= n THEN n - m + 1 ELSE 0
           /\ \A i \in 1..n-m+1 : SubSeq(s, m, n)[i] = s[m+i-1]
<1>1. \A i \in m..n : s[i] \in Nat
  BY LenProperties, ElementOfSeq
<1> QED BY <1>1, SubSeqProperties

LEMMA PutFacts ==
    ASSUME NEW s \in Seq(Nat), NEW i \in 0..Len(s), NEW t \in Seq(Nat)
    PROVE  /\ Put(s, i, t) \in Seq(Nat)
           /\ Len(Put(s, i, t)) >= i + Len(t) + 1
           /\ \A j \in 1..Len(t) : Put(s, i, t)[i+j] = t[j]
           /\ Put(s, i, t)[i+Len(t)+1] = NUL
<1>0. Len(s) \in Nat /\ Len(t) \in Nat
  BY LenProperties
<1> DEFINE u == SubSeq(s, 1, i)
           v == u \o t
           w == v \o <<NUL>>
           r == SubSeq(s, i + Len(t) + 2, Len(s))
<1>1. u \in Seq(Nat) /\ Len(u) = i
  BY <1>0, PartOf
<1>2. r \in Seq(Nat) /\ Len(r) \in Nat
  BY <1>0, PartOf, LenProperties
<1>3. <<NUL>> \in Seq(Nat) /\ Len(<<NUL>>) = 1 /\ <<NUL>>[1] = NUL
  BY DEF NUL
<1> HIDE DEF u, r
<1>4. /\ v \in Seq(Nat) /\ Len(v) = i + Len(t)
      /\ \A j \in 1..i+Len(t) : v[j] = IF j <= i THEN u[j] ELSE t[j-i]
  BY <1>1, ConcatProperties
<1> HIDE DEF v
<1>5. /\ w \in Seq(Nat) /\ Len(w) = i + Len(t) + 1
      /\ \A j \in 1..i+Len(t)+1 : w[j] = IF j <= i + Len(t) THEN v[j] ELSE <<NUL>>[j-(i+Len(t))]
  <2>1. /\ w \in Seq(Nat) /\ Len(w) = Len(v) + Len(<<NUL>>)
        /\ \A j \in 1..Len(v)+Len(<<NUL>>) :
              w[j] = IF j <= Len(v) THEN v[j] ELSE <<NUL>>[j-Len(v)]
    BY <1>3, <1>4, ConcatProperties
  <2> QED BY <1>3, <1>4, <2>1
<1> HIDE DEF w
<1>6. /\ w \o r \in Seq(Nat) /\ Len(w \o r) = i + Len(t) + 1 + Len(r)
      /\ \A j \in 1..i+Len(t)+1 : (w \o r)[j] = w[j]
  <2>1. w \in Seq(Nat) /\ r \in Seq(Nat)
    BY <1>2, <1>5
  <2>2. /\ w \o r \in Seq(Nat) /\ Len(w \o r) = Len(w) + Len(r)
        /\ \A j \in 1..Len(w)+Len(r) : (w \o r)[j] = IF j <= Len(w) THEN w[j] ELSE r[j-Len(w)]
    BY <2>1, ConcatProperties, Zenon
  <2> QED BY <1>0, <1>2, <1>5, <2>2
<1>7. Put(s, i, t) = w \o r
  BY DEF Put, u, v, w, r
<1>8. \A j \in 1..Len(t) : w[i+j] = t[j]
  <2> SUFFICES ASSUME NEW j \in 1..Len(t) PROVE w[i+j] = t[j]
    OBVIOUS
  <2>1. i + j \in 1..i+Len(t) /\ ~(i + j <= i) /\ (i + j) - i = j
    BY <1>0
  <2>2. v[i+j] = t[j]
    BY <1>4, <2>1
  <2>3. i + j \in 1..i+Len(t)+1 /\ i + j <= i + Len(t)
    BY <1>0
  <2> QED BY <1>5, <2>2, <2>3
<1>9. w[i+Len(t)+1] = NUL
  <2>1. /\ i + Len(t) + 1 \in 1..i+Len(t)+1 /\ ~(i + Len(t) + 1 <= i + Len(t))
        /\ (i + Len(t) + 1) - (i + Len(t)) = 1
    BY <1>0
  <2> QED BY <1>3, <1>5, <2>1
<1>10. /\ \A j \in 1..Len(t) : i + j \in 1..i+Len(t)+1
       /\ i + Len(t) + 1 \in 1..i+Len(t)+1
  BY <1>0
<1> QED BY <1>0, <1>2, <1>6, <1>7, <1>8, <1>9, <1>10

LEMMA CharFacts ==
    ASSUME NEW s \in Seq(Nat), NEW i \in Int
    PROVE  /\ Char(s, i) \in Nat
           /\ Char(s, i) # NUL => i \in 1..Len(s) /\ Char(s, i) = s[i]
BY ElementOfSeq DEF Char, NUL

-----------------------------------------------------------------------------
(* Escape sequences *)

\* From i up to before k there is no NUL.
Within(s, i, k) == k \in Int /\ k > i /\ \A j \in i..k-1 : Char(s, j) # NUL

LEMMA Digits ==
    /\ \A c : IsHexDigit(c) => c # NUL
    /\ \A c : IsOctDigit(c) => c # NUL
<1>1. ~IsHexDigit(NUL) /\ ~IsOctDigit(NUL)
  BY DEF IsHexDigit, IsDigit, IsOctDigit, NUL
<1> QED BY <1>1

LEMMA HexWithin ==
    ASSUME NEW s \in Seq(Nat), NEW i \in Int, i >= 1
    PROVE  Len(HexDigits(s, i)) \in 0..3 /\ \A j \in i..i+Len(HexDigits(s, i))-1 : Char(s, j) # NUL
<1> DEFINE S == {k \in 0..3 : \A j \in 0..k-1 : IsHexDigit(Char(s, i + j))}
           n == Max(S)
<1>1. S \in SUBSET Nat /\ S # {} /\ \A k \in S : k <= 3
  <2>1. 0 \in S
    OBVIOUS
  <2> QED BY <2>1
<1>2. n \in S
  <2> HIDE DEF S
  <2> QED BY <1>1, MaxNat
<1> HIDE DEF n
<1>3. \A j \in 0..n-1 : Char(s, i + j) # NUL
  BY <1>2, Digits
<1>4. \A j \in i..i+n-1 : Char(s, j) # NUL
  <2> SUFFICES ASSUME NEW j \in i..i+n-1 PROVE Char(s, j) # NUL
    OBVIOUS
  <2>1. j - i \in 0..n-1 /\ i + (j - i) = j
    BY <1>2
  <2> QED BY <1>3, <2>1
<1>5. n >= 1 => i + n - 1 <= Len(s)
  <2>1. n >= 1 => i + n - 1 \in i..i+n-1
    BY <1>2
  <2>2. n >= 1 => Char(s, i + n - 1) # NUL /\ i + n - 1 \in Int
    BY <1>2, <1>4, <2>1
  <2>3. n >= 1 => i + n - 1 \in 1..Len(s)
    BY <2>2, CharFacts
  <2> QED BY <2>3
<1>6. HexDigits(s, i) = SubSeq(s, i, i + n - 1)
  BY DEF HexDigits, n
<1>7. Len(SubSeq(s, i, i + n - 1)) = n
  <2>1. CASE n >= 1
    BY <1>2, <1>5, <2>1, PartOf
  <2>2. CASE n = 0
    BY <2>2, SubSeqEmpty
  <2> QED BY <1>2, <2>1, <2>2
<1> QED BY <1>2, <1>4, <1>6, <1>7

LEMMA OctWithin ==
    ASSUME NEW s \in Seq(Nat), NEW i \in Int, i >= 1, IsOctDigit(Char(s, i))
    PROVE  /\ Len(OctDigits(s, i)) \in 1..3
           /\ \A j \in i..i+Len(OctDigits(s, i))-1 : Char(s, j) # NUL
<1> DEFINE n == IF ~IsHexDigit(Char(s, i + 1)) THEN 1 ELSE IF ~IsOctDigit(Char(s, i + 2)) THEN 2 ELSE 3
<1>1. OctDigits(s, i) = SubSeq(s, i, i + n - 1)
  BY DEF OctDigits
<1>2. n \in 1..3
  OBVIOUS
<1>3. /\ Char(s, i) # NUL /\ (n >= 2 => Char(s, i + 1) # NUL) /\ (n >= 3 => Char(s, i + 2) # NUL)
  BY Digits
<1> HIDE DEF n
<1>4. \A j \in i..i+n-1 : Char(s, j) # NUL
  BY <1>2, <1>3
<1>5. i + n - 1 <= Len(s)
  <2>1. i + n - 1 \in i..i+n-1 /\ i + n - 1 \in Int
    BY <1>2
  <2>2. i + n - 1 \in 1..Len(s)
    BY <1>4, <2>1, CharFacts
  <2> QED BY <2>2, LenProperties
<1>6. Len(SubSeq(s, i, i + n - 1)) = n
  BY <1>2, <1>5, PartOf
<1> QED BY <1>1, <1>2, <1>4, <1>6

LEMMA Upper ==
    ASSUME NEW c \in Nat
    PROVE  /\ toupper(c) \in Int
           /\ toupper(c) = CARET => c = CARET
           /\ IsOctDigit(toupper(c)) => IsOctDigit(c)
BY DEF toupper, CARET, IsOctDigit

\* esc() stays in front of the NUL if the sequence is not cut off by it (escape.c:46-110).
LEMMA EscFacts ==
    ASSUME NEW s \in Seq(Nat), NEW i \in Int, i >= 1, Char(s, i) # NUL,
           Char(s, i) = BACKSLASH =>
               /\ Char(s, i + 1) # NUL
               /\ Char(s, i + 1) = CARET => Char(s, i + 2) # NUL
    PROVE  Within(s, i, esc(s, i).at)
<1> DEFINE ch == Char(s, i + 1)
           kind == toupper(ch)
           hex == HexDigits(s, i + 2)
           oct == OctDigits(s, i + 1)
<1>1. CASE Char(s, i) # BACKSLASH
  BY <1>1 DEF esc, Within
<1>2. CASE Char(s, i) = BACKSLASH
  <2>1. Len(hex) \in 0..3 /\ \A j \in i+2..i+2+Len(hex)-1 : Char(s, j) # NUL
    BY HexWithin
  <2>2. ch \in Nat /\ kind \in Int
    <3>1. i + 1 \in Int
      OBVIOUS
    <3>2. ch \in Nat
      BY <3>1, CharFacts
    <3> QED BY <3>2, Upper
  <2>0. /\ \A k \in DOMAIN Named : k # CARET /\ k # 88 /\ ~IsOctDigit(k)
        /\ CARET # 88 /\ ~IsOctDigit(CARET) /\ ~IsOctDigit(88)
    <3>1. DOMAIN Named = {66, 70, 78, 82, 83, 84, 69, NUL}
      BY Zenon DEF Named
    <3> QED BY <3>1 DEF CARET, IsOctDigit, NUL
  <2>3. CASE kind \in DOMAIN Named
    <3>1. esc(s, i).at = i + 2
      BY <1>2, <2>0, <2>3 DEF esc
    <3> QED BY <1>2, <3>1 DEF Within
  <2>4. CASE kind \notin DOMAIN Named /\ kind = CARET
    <3>1. esc(s, i).at = i + 3
      BY <1>2, <2>0, <2>4 DEF esc
    <3>2. ch = CARET
      BY <2>2, <2>4, Upper
    <3> QED BY <1>2, <3>1, <3>2 DEF Within
  <2>5. CASE kind \notin DOMAIN Named /\ kind # CARET /\ kind = 88
    <3>1. esc(s, i).at = i + 2 + Len(hex)
      BY <1>2, <2>0, <2>5 DEF esc
    <3> QED BY <1>2, <2>1, <3>1 DEF Within
  <2>6. CASE kind \notin DOMAIN Named /\ kind # CARET /\ kind # 88 /\ IsOctDigit(kind)
    <3>1. esc(s, i).at = i + 1 + Len(oct)
      BY <1>2, <2>6 DEF esc
    <3>2. IsOctDigit(ch)
      BY <2>2, <2>6, Upper
    <3>3. Len(oct) \in 1..3 /\ \A j \in i+1..i+1+Len(oct)-1 : Char(s, j) # NUL
      BY <3>2, OctWithin
    <3> QED BY <1>2, <3>1, <3>3 DEF Within
  <2>7. CASE kind \notin DOMAIN Named /\ kind # CARET /\ kind # 88 /\ ~IsOctDigit(kind)
    <3>1. esc(s, i).at = i + 2
      BY <1>2, <2>7 DEF esc
    <3> QED BY <1>2, <3>1 DEF Within
  <2> QED BY <2>3, <2>4, <2>5, <2>6, <2>7
<1> QED BY <1>1, <1>2

-----------------------------------------------------------------------------
(* Pointers *)

LEMMA TextTyped ==
    ASSUME Typed, NEW ptr \in Pointer, ptr.src \in 0..Len(macros)
    PROVE  Text(ptr) \in Seq(Nat)
<1>1. CASE ptr.src = 0
  BY <1>1 DEF Text, Typed
<1>2. CASE ptr.src # 0
  <2>1. macros \in Seq([name : Seq(Nat), text : Seq(Nat)])
    BY DEF Typed
  <2>2. ptr.src \in 1..Len(macros)
    BY <1>2, <2>1, LenProperties
  <2>3. macros[ptr.src] \in [name : Seq(Nat), text : Seq(Nat)]
    BY <2>1, <2>2, ElementOfSeq
  <2> QED BY <1>2, <2>3 DEF Text
<1> QED BY <1>1, <1>2

\* A pointer may be moved over characters that are not NUL.
LEMMA Moves ==
    ASSUME NEW ptr \in Good, NEW k \in Int, k >= ptr.at,
           \A j \in ptr.at..k-1 : Char(Text(ptr), j) # NUL
    PROVE  [ptr EXCEPT !.at = k] \in Good
<1> DEFINE q == [ptr EXCEPT !.at = k]
<1>1. ptr \in Pointer /\ ValidPointer(ptr)
  BY DEF Good
<1>2. q \in Pointer /\ q.src = ptr.src /\ q.at = k
  BY <1>1 DEF Pointer
<1>3. Text(q) = Text(ptr)
  BY <1>2 DEF Text
<1>4. \A i \in 1..k-1 : Char(Text(ptr), i) # NUL
  <2> SUFFICES ASSUME NEW i \in 1..k-1 PROVE Char(Text(ptr), i) # NUL
    OBVIOUS
  <2>1. ptr.at \in Int
    BY <1>1 DEF Pointer
  <2>2. CASE i < ptr.at
    BY <1>1, <2>1, <2>2 DEF ValidPointer
  <2>3. CASE i >= ptr.at
    BY <2>1, <2>3
  <2> QED BY <2>1, <2>2, <2>3
<1>5. ptr.at \in Int /\ ptr.src \in 0..Len(macros) /\ ptr.at >= 1
  BY <1>1 DEF ValidPointer, Pointer
<1> HIDE DEF q
<1>6. ValidPointer(q)
  BY <1>2, <1>3, <1>4, <1>5 DEF ValidPointer
<1> QED BY <1>2, <1>6 DEF Good, q

LEMMA SkipGood ==
    ASSUME NEW ptr \in Good, Here(ptr) # NUL
    PROVE  Skip(ptr, 1) \in Good /\ Skip(ptr, 1).src = ptr.src /\ Skip(ptr, 1).at = ptr.at + 1
<1>1. ptr \in Pointer /\ ptr.at \in Int
  BY DEF Good, Pointer
<1>2. Skip(ptr, 1) = [ptr EXCEPT !.at = ptr.at + 1]
  BY DEF Skip
<1>3. \A j \in ptr.at..(ptr.at+1)-1 : Char(Text(ptr), j) # NUL
  BY <1>1 DEF Here
<1>4. [ptr EXCEPT !.at = ptr.at + 1] \in Good
  BY <1>1, <1>3, Moves
<1> QED BY <1>1, <1>2, <1>4 DEF Pointer

LEMMA GoodFacts ==
    ASSUME Typed, NEW ptr \in Good
    PROVE  /\ ptr \in Pointer /\ ptr # NULL /\ ptr.src \in 0..Len(macros)
           /\ ptr.at \in Int /\ ptr.at >= 1 /\ Text(ptr) \in Seq(Nat)
<1>1. ptr \in Pointer /\ ValidPointer(ptr)
  BY DEF Good
<1>2. ptr.src \in 0..Len(macros) /\ ptr.at >= 1 /\ ptr.at \in Int /\ ptr.src \in Int
  BY <1>1 DEF ValidPointer, Pointer
<1>3. ptr # NULL
  <2>1. NULL.src = -1
    BY DEF NULL
  <2>2. -1 \notin 0..Len(macros)
    OBVIOUS
  <2> QED BY <1>2, <2>1, <2>2
<1> QED BY <1>1, <1>2, <1>3, TextTyped

LEMMA StartGood ==
    ASSUME Typed, NEW k \in 0..Len(macros)
    PROVE  [src |-> k, at |-> 1] \in Good
<1>1. [src |-> k, at |-> 1] \in Pointer
  BY DEF Pointer
<1>2. ValidPointer([src |-> k, at |-> 1])
  BY DEF ValidPointer
<1> QED BY <1>1, <1>2 DEF Good

LEMMA GoodStays ==
    ASSUME UNCHANGED <<macros, Input_buf>>
    PROVE  Good' = Good
BY DEF Good, ValidPointer, Text, Char, Pointer, NUL

\* Where a line or the text of a macro goes on, at the character that advance() looks at.
LEMMA BehindGood ==
    ASSUME Typed, Input \in Good
    PROVE  /\ Behind \in Good /\ Behind.src = Input.src /\ Text(Behind) = Text(Input)
           /\ Behind.at \in Int /\ Behind.at >= Input.at
           /\ \A k : [Behind EXCEPT !.at = k] = [Input EXCEPT !.at = k]
<1>1. Input \in Pointer /\ Input.at \in Int
  BY GoodFacts
<1>2. CASE AtQuote
  <2>1. Here(Input) # NUL
    BY <1>2 DEF AtQuote, QUOTE, NUL
  <2>2. Behind = Skip(Input, 1)
    BY <1>2 DEF Behind
  <2>3. Behind \in Good /\ Behind.src = Input.src /\ Behind.at = Input.at + 1
    BY <2>1, <2>2, SkipGood
  <2>4. Text(Behind) = Text(Input)
    BY <2>3 DEF Text
  <2>5. \A k : [Behind EXCEPT !.at = k] = [Input EXCEPT !.at = k]
    BY <1>1, <2>2 DEF Skip, Pointer
  <2> QED BY <1>1, <2>3, <2>4, <2>5
<1>3. CASE ~AtQuote
  BY <1>1, <1>3 DEF Behind
<1> QED BY <1>2, <1>3

LEMMA LastFront ==
    ASSUME NEW S, NEW s \in Seq(S), s # <<>>
    PROVE  Last(s) \in S /\ Front(s) \in Seq(S) /\ Len(Front(s)) = Len(s) - 1
<1>1. Len(s) \in Nat \ {0}
  BY EmptySeq
<1>2. s[Len(s)] \in S
  BY <1>1, ElementOfSeq
<1>3. \A i \in 1..Len(s)-1 : s[i] \in S
  BY <1>1, ElementOfSeq
<1>4. /\ SubSeq(s, 1, Len(s) - 1) \in Seq(S)
      /\ Len(SubSeq(s, 1, Len(s) - 1)) = IF 1 <= Len(s) - 1 THEN (Len(s) - 1) - 1 + 1 ELSE 0
  BY <1>1, <1>3, SubSeqProperties
<1>5. Len(SubSeq(s, 1, Len(s) - 1)) = Len(s) - 1
  <2> DEFINE n == Len(s)
             m == Len(SubSeq(s, 1, n - 1))
  <2>1. n \in Nat \ {0} /\ m = IF 1 <= n - 1 THEN (n - 1) - 1 + 1 ELSE 0
    BY <1>1, <1>4
  <2> HIDE DEF n, m
  <2>2. m = n - 1
    BY <2>1
  <2> QED BY <2>2 DEF n, m
<1> QED BY <1>2, <1>4, <1>5 DEF Last, Front

LEMMA Appended ==
    ASSUME NEW S, NEW s \in Seq(S), NEW x \in S
    PROVE  /\ Append(s, x) \in Seq(S) /\ Len(Append(s, x)) = Len(s) + 1
           /\ \A i \in 1..Len(s) : Append(s, x)[i] = s[i]
           /\ Append(s, x)[Len(s)+1] = x
OBVIOUS

-----------------------------------------------------------------------------
(* The reader of rules *)

LEMMA LineTyped ==
    ASSUME Typed, at < Len(file.lines)
    PROVE  Line(at) \in Seq(Nat) /\ \A j \in 1..Len(Line(at)) : Line(at)[j] # NUL
<1>1. file.lines \in Seq(Seq(Nat \ {NUL})) /\ at \in Nat
  BY FilesAssumption DEF Typed
<1>2. at + 1 \in 1..Len(file.lines)
  BY <1>1, LenProperties
<1>3. Line(at) \in Seq(Nat \ {NUL})
  BY <1>1, <1>2, ElementOfSeq DEF Line
<1>4. \A j \in 1..Len(Line(at)) : Line(at)[j] \in Nat \ {NUL}
  BY <1>3, ElementOfSeq
<1>5. Line(at) \in Seq(Nat)
  BY <1>3, SeqMonotonic
<1> QED BY <1>4, <1>5

LEMMA InitLine == Init => LineInv
<1> SUFFICES ASSUME Init PROVE LineInv
  OBVIOUS
<1> USE DEF Init, ReaderInit
<1>1. Len(file.lines) \in Nat
  BY FilesAssumption, LenProperties
<1>2. Typed
  BY <1>1, SizeAssumption DEF Typed
<1>3. HeadLine
  BY DEF HeadLine
<1>4. [src |-> 0, at |-> 1] \in Good
  BY <1>2, StartGood
<1>5. Pointers
  BY <1>4, LimitsAssumption DEF Pointers, HeadPlaces, Reading, Good
<1>6. Turns
  <2>1. [src |-> 0, at |-> 1].src # NULL.src
    BY DEF NULL
  <2> QED BY <2>1 DEF Turns
<1>7. Saved
  BY LimitsAssumption DEF Saved, Modes, WORD
<1> QED BY <1>2, <1>3, <1>5, <1>6, <1>7 DEF LineInv

\* The parser and its pointers wait while lines are read.
LEMMA ReaderKeeps ==
    ASSUME LineInv, UNCHANGED <<lexerVars, parserVars>>, Typed', pc \in Reading,
           pc' \in HeadPlaces => pc \in HeadPlaces,
           pc' = "token" => pc \in HeadPlaces,
           pc' \notin {"scan", "parse"}
    PROVE  Pointers' /\ Turns' /\ Saved'
<1>1. /\ Input' = Input /\ stack' = stack /\ Current_tok' = Current_tok /\ mode' = mode
      /\ depth' = depth /\ savep' = savep /\ strings' = strings
  BY DEF lexerVars, parserVars
<1>2. stack = <<>> /\ Current_tok = "EOS" /\ mode # "end" /\ Input \in Pointer
  BY DEF LineInv, Pointers, Turns
<1>3. pc \in HeadPlaces => Input' = [src |-> 0, at |-> 1]
  BY <1>1 DEF LineInv, Pointers
<1>4. [src |-> 0, at |-> 1] \in Good'
  <2>1. Len(macros') \in Nat
    BY LenProperties DEF Typed
  <2>2. [src |-> 0, at |-> 1] \in Pointer
    BY DEF Pointer
  <2>3. ValidPointer([src |-> 0, at |-> 1])'
    BY <2>1 DEF ValidPointer
  <2> QED BY <2>2, <2>3 DEF Good
<1>5. <<>> \in Seq(Pointer) /\ <<>> \in Seq(Good') /\ Len(<<>>) = 0
  OBVIOUS
<1>6. Pointers'
  BY <1>1, <1>2, <1>3, <1>4, <1>5, LimitsAssumption DEF Pointers
<1>7. Turns'
  BY <1>1, <1>2 DEF LineInv, Turns
<1>8. Saved'
  BY <1>1 DEF LineInv, Saved
<1> QED BY <1>6, <1>7, <1>8

LEMMA FgetsLine ==
    ASSUME LineInv, Fgets, UNCHANGED <<lexerVars, parserVars>>
    PROVE  LineInv'
<1>1. /\ pc = "head" /\ at < Len(file.lines) /\ at' = at + 1
      /\ Actual_lineno' = Actual_lineno + 1 /\ pc' \in {"head line", "strip"}
      /\ Input_buf' = Put(Input_buf, 0, Append(Line(at), NL))
      /\ file' = file /\ p' = p /\ Lineno' = Lineno /\ macros' = macros
  BY DEF Fgets, headVars
<1>2. Typed /\ Input_buf \in Seq(Nat) /\ Len(Input_buf) \in Nat
  BY LenProperties DEF LineInv, Typed
<1> DEFINE l == Line(at)
           t == Append(l, NL)
           e == Len(l) + 2
<1>3. l \in Seq(Nat) /\ (\A j \in 1..Len(l) : l[j] # NUL) /\ Len(l) \in Nat
  BY <1>1, <1>2, LineTyped, LenProperties
<1>4. /\ t \in Seq(Nat) /\ Len(t) = Len(l) + 1
      /\ \A j \in 1..Len(l) : t[j] = l[j]
      /\ t[Len(l)+1] = NL
  BY <1>3, Appended DEF NL
<1> HIDE DEF l, t
<1>5. /\ Input_buf' \in Seq(Nat) /\ Len(Input_buf') >= 0 + Len(t) + 1
      /\ \A j \in 1..Len(t) : Input_buf'[0+j] = t[j]
      /\ Input_buf'[0+Len(t)+1] = NUL
  <2>1. 0 \in 0..Len(Input_buf)
    BY <1>2
  <2>2. Input_buf' = Put(Input_buf, 0, t)
    BY <1>1 DEF t, l
  <2> QED BY <1>2, <1>4, <2>1, <2>2, PutFacts
<1>6. Len(Input_buf') \in Nat
  BY <1>5, LenProperties
<1>7. Typed'
  <2>1. Len(file.lines) \in Nat
    BY <1>2, FilesAssumption, LenProperties DEF Typed
  <2>2. at' \in 0..Len(file'.lines) /\ Actual_lineno' \in 1..at'+1 /\ Lineno' \in 1..Actual_lineno'
    <3> DEFINE n == Len(file.lines)
    <3>1. at \in 0..n /\ at < n /\ n \in Nat /\ at' = at + 1 /\ Len(file'.lines) = n
      BY <1>1, <1>2, <2>1 DEF Typed
    <3>2. /\ Actual_lineno \in 1..at+1 /\ Lineno \in 1..Actual_lineno
          /\ Actual_lineno' = Actual_lineno + 1 /\ Lineno' = Lineno
      BY <1>1, <1>2 DEF Typed
    <3> HIDE DEF n
    <3> QED BY <3>1, <3>2
  <2>3. pc' # "line"
    BY <1>1
  <2> QED BY <1>1, <1>2, <1>5, <2>2, <2>3 DEF Typed
<1>8. LineEnds(Input_buf', e)
  <2>1. e \in 2..Len(Input_buf') /\ Input_buf'[e] = NUL
    BY <1>3, <1>4, <1>5, <1>6
  <2>2. \A j \in 1..e-1 : Input_buf'[j] = t[j]
    BY <1>3, <1>4, <1>5
  <2>3. isspace(Input_buf'[e-1])
    <3>1. e - 1 \in 1..e-1 /\ e - 1 = Len(l) + 1
      BY <1>3
    <3>2. Input_buf'[e-1] = NL
      BY <1>4, <2>2, <3>1
    <3> QED BY <3>2 DEF isspace, NL
  <2>4. ASSUME NEW j \in 1..e-1 PROVE Input_buf'[j] # NUL
    <3>1. Input_buf'[j] = t[j]
      BY <2>2
    <3>2. CASE j \in 1..Len(l)
      BY <1>3, <1>4, <3>1, <3>2
    <3>3. CASE j \notin 1..Len(l)
      <4>1. j = Len(l) + 1
        BY <1>3, <3>3
      <4> QED BY <1>4, <3>1, <4>1 DEF NL, NUL
    <3> QED BY <3>2, <3>3
  <2> QED BY <2>1, <2>3, <2>4 DEF LineEnds
<1>9. HeadLine'
  <2>1. e \in 2..Len(Input_buf')
    BY <1>8 DEF LineEnds
  <2> QED BY <1>8, <2>1 DEF HeadLine, LineEnds
<1>10. Pointers' /\ Turns' /\ Saved'
  <2>1. pc \in HeadPlaces /\ pc \in Reading
    BY <1>1 DEF HeadPlaces, Reading
  <2>2. pc' \notin {"scan", "parse"} /\ pc' # "token"
    BY <1>1
  <2> QED BY <1>7, <2>1, <2>2, ReaderKeeps
<1> QED BY <1>7, <1>9, <1>10 DEF LineInv


LEMMA FunctionSeq ==
    ASSUME NEW n \in Nat, NEW S, NEW f \in [1..n -> S]
    PROVE  f \in Seq(S) /\ Len(f) = n
<1>1. f \in Seq(S)
  BY SeqDef
<1>2. Len(f) \in Nat /\ 1..Len(f) = 1..n
  BY <1>1, LenProperties
<1> QED BY <1>1, <1>2

\* A line of the head ends at its NUL.
LEMMA EndOfLine ==
    ASSUME NEW s \in Seq(Nat), NEW e, LineEnds(s, e)
    PROVE  EndOf(s, 1) = e
<1> DEFINE E == EndOf(s, 1)
<1>1. Stopped(s, 1, E, {k \in 1..Len(s) : s[k] = NUL})
  BY NulFacts
<1>2. e \in 2..Len(s) /\ s[e] = NUL /\ (\A j \in 1..e-1 : s[j] # NUL) /\ Len(s) \in Nat
  BY LenProperties DEF LineEnds
<1>3. E \in Nat /\ E >= 1
  BY <1>1 DEF Stopped
<1>4. ASSUME E < e PROVE FALSE
  <2>1. E \in 1..e-1 /\ E <= Len(s)
    BY <1>2, <1>3, <1>4
  <2>2. s[E] = NUL
    BY <1>1, <2>1 DEF Stopped
  <2> QED BY <1>2, <2>1, <2>2
<1>5. ASSUME e < E PROVE FALSE
  <2>1. e \in 1..E-1
    BY <1>2, <1>3, <1>5
  <2>2. e \notin {k \in 1..Len(s) : s[k] = NUL}
    BY <1>1, <2>1 DEF Stopped
  <2> QED BY <1>2, <2>2
<1> HIDE DEF E
<1>6. E = e
  BY <1>2, <1>3, <1>4, <1>5
<1> QED BY <1>6 DEF E

LEMMA StripLine ==
    ASSUME LineInv, Strip, UNCHANGED <<lexerVars, parserVars>>
    PROVE  LineInv'
<1>1. /\ pc = "strip" /\ pc' = "head line"
      /\ UNCHANGED <<file, at, p, Lineno, Actual_lineno, macros>>
  BY DEF Strip
<1>2. Typed /\ Input_buf \in Seq(Nat) /\ Len(Input_buf) \in Nat
  BY LenProperties DEF LineInv, Typed
<1>3. PICK e \in 2..Len(Input_buf) : LineEnds(Input_buf, e)
  BY <1>1 DEF LineInv, HeadLine
<1>4. /\ Input_buf[e] = NUL /\ isspace(Input_buf[e-1])
      /\ \A j \in 1..e-1 : Input_buf[j] # NUL
  BY <1>3 DEF LineEnds
<1> DEFINE kind == Kind(LineStart)
           keep(i) == i >= e \/ kind[i] = "code" \/ (kind[i] = "comment" /\ isspace(Input_buf[i]))
<1>5. Input_buf' = [i \in 1..Len(Input_buf) |-> IF keep(i) THEN Input_buf[i] ELSE SPACE]
  <2>1. EndOf(Input_buf, 1) = e
    BY <1>2, <1>3, EndOfLine
  <2> QED BY <2>1 DEF Strip
<1> HIDE DEF kind
<1>6. \A i \in 1..Len(Input_buf) : Input_buf'[i] = IF keep(i) THEN Input_buf[i] ELSE SPACE
  BY <1>5
<1>7. Input_buf' \in Seq(Nat) /\ Len(Input_buf') = Len(Input_buf)
  <2>1. \A i \in 1..Len(Input_buf) : Input_buf[i] \in Nat
    BY <1>2, ElementOfSeq
  <2>2. Input_buf' \in [1..Len(Input_buf) -> Nat]
    BY <1>5, <2>1 DEF SPACE
  <2> QED BY <1>2, <2>2, FunctionSeq
<1>8. LineEnds(Input_buf', e)
  <2>1. e \in 1..Len(Input_buf) /\ e - 1 \in 1..Len(Input_buf) /\ e >= e
    BY <1>2, <1>3
  <2>2. Input_buf'[e] = NUL
    BY <1>4, <1>6, <2>1
  <2>3. isspace(Input_buf'[e-1])
    BY <1>4, <1>6, <2>1 DEF isspace, SPACE
  <2>4. \A j \in 1..e-1 : Input_buf'[j] # NUL
    BY <1>2, <1>3, <1>4, <1>6 DEF SPACE, NUL
  <2> QED BY <1>3, <1>7, <2>2, <2>3, <2>4 DEF LineEnds
<1>9. Typed'
  BY <1>1, <1>2, <1>7 DEF Typed
<1>10. HeadLine'
  BY <1>3, <1>7, <1>8 DEF HeadLine
<1>11. Pointers' /\ Turns' /\ Saved'
  <2>1. pc \in HeadPlaces /\ pc \in Reading /\ pc' # "token" /\ pc' \notin {"scan", "parse"}
    BY <1>1 DEF HeadPlaces, Reading
  <2> QED BY <1>9, <2>1, ReaderKeeps
<1> QED BY <1>9, <1>10, <1>11 DEF LineInv

\* The steps that leave the line and the macros alone.
LEMMA HeadKeeps ==
    ASSUME LineInv, UNCHANGED <<lineVars, macros>>, UNCHANGED <<lexerVars, parserVars>>,
           pc \in Reading, pc' \in {"token", "head", "call", "got", "null", "failed"},
           pc' = "head" \/ pc' = "token" => pc \in HeadPlaces
    PROVE  LineInv'
<1>1. Typed'
  BY DEF LineInv, Typed, lineVars
<1>2. HeadLine'
  BY DEF HeadLine
<1>3. Pointers' /\ Turns' /\ Saved'
  <2>1. /\ pc' \in HeadPlaces => pc \in HeadPlaces
        /\ pc' = "token" => pc \in HeadPlaces
        /\ pc' \notin {"scan", "parse"}
    BY DEF HeadPlaces
  <2> QED BY <1>1, <2>1, ReaderKeeps
<1> QED BY <1>1, <1>2, <1>3 DEF LineInv

LEMMA HeadLineKeeps ==
    ASSUME LineInv, EndOfHead \/ Directive \/ CopyLine \/ HeadAtEof \/ EndOfRules,
           UNCHANGED <<lexerVars, parserVars>>
    PROVE  LineInv'
<1> DEFINE Steps == /\ UNCHANGED <<lineVars, macros>> /\ pc \in Reading
                    /\ pc' \in {"token", "head", "call", "got", "null", "failed"}
                    /\ pc' = "head" \/ pc' = "token" => pc \in HeadPlaces
<1> USE DEF HeadPlaces, Reading, headVars
<1>1. EndOfHead => Steps
  BY DEF EndOfHead
<1>2. Directive => Steps
  BY DEF Directive
<1>3. CopyLine => Steps
  BY DEF CopyLine
<1>4. HeadAtEof => Steps
  BY DEF HeadAtEof
<1>5. EndOfRules => Steps
  BY DEF EndOfRules
<1>6. Steps
  BY <1>1, <1>2, <1>3, <1>4, <1>5
<1> QED BY <1>6, HeadKeeps

LEMMA Overwritten ==
    ASSUME NEW s \in Seq(Nat), NEW i \in 1..Len(s), NEW v \in Nat
    PROVE  [s EXCEPT ![i] = v] \in Seq(Nat) /\ Len([s EXCEPT ![i] = v]) = Len(s)
BY ExceptSeq

\* The name of a macro and its text end before the line does.
LEMMA MacroEnds ==
    ASSUME NEW e, LineEnds(Input_buf, e), Input_buf \in Seq(Nat), ~isspace(Input_buf[1])
    PROVE  /\ NameEnd \in 2..e-1 /\ TextStart \in NameEnd..e
           /\ TextEnd \in NameEnd..e-1
<1> DEFINE s == Input_buf
           n == NameEnd
           t == TextStart
<1>0. /\ e \in 2..Len(s) /\ s[e] = NUL /\ isspace(s[e-1]) /\ Len(s) \in Nat
  BY LenProperties DEF LineEnds
<1>1. Stopped(s, 1, n, {k \in 1..Len(s) : isspace(s[k])})
  BY NameFacts
<1>2. n \in Nat /\ n >= 1
  BY <1>1 DEF Stopped
<1>3. n <= e - 1
  <2> SUFFICES ASSUME n > e - 1 PROVE FALSE
    BY <1>0, <1>2
  <2>1. e - 1 \in 1..n-1 /\ e - 1 \in 1..Len(s)
    BY <1>0, <1>2
  <2>2. e - 1 \notin {k \in 1..Len(s) : isspace(s[k])}
    BY <1>1, <2>1 DEF Stopped
  <2> QED BY <1>0, <2>1, <2>2
<1>4. n # 1
  <2> SUFFICES ASSUME n = 1 PROVE FALSE
    OBVIOUS
  <2>1. n <= Len(s)
    BY <1>0, <1>3
  <2>2. isspace(s[n])
    BY <1>1, <2>1 DEF Stopped
  <2> QED BY <2>2
<1>5. n \in 2..e-1
  BY <1>0, <1>2, <1>3, <1>4
<1>6. ~isspace(s[n-1])
  <2>1. n - 1 \in 1..n-1 /\ n - 1 \in 1..Len(s)
    BY <1>0, <1>5
  <2>2. n - 1 \notin {k \in 1..Len(s) : isspace(s[k])}
    BY <1>1, <2>1 DEF Stopped
  <2> QED BY <2>1, <2>2
<1>7. Stopped(s, n, t, {k \in n..Len(s) : ~isspace(s[k])})
  <2>1. n \in Nat /\ n >= 1
    BY <1>2
  <2> HIDE DEF n
  <2>2. t = SkipSpace(s, n)
    BY DEF TextStart, n
  <2> QED BY <2>1, <2>2, SkipFacts
<1>8. t \in n..e
  <2>1. t \in Nat /\ t >= n
    BY <1>7 DEF Stopped
  <2>2. t <= e
    <3> SUFFICES ASSUME t > e PROVE FALSE
      BY <1>0, <2>1
    <3>1. e \in n..t-1 /\ e \in n..Len(s)
      BY <1>0, <1>5, <2>1
    <3>2. e \notin {k \in n..Len(s) : ~isspace(s[k])}
      BY <1>7, <3>1 DEF Stopped
    <3>3. ~isspace(s[e])
      BY <1>0 DEF isspace, NUL
    <3> QED BY <3>1, <3>2, <3>3
  <2> QED BY <1>0, <1>2, <2>1, <2>2
<1> DEFINE S == {k \in n..e-1 : ~isspace(s[k-1])}
<1>9. TextEnd = Max(S)
  <2>1. EndOf(s, 1) = e
    BY EndOfLine
  <2> QED BY <2>1 DEF TextEnd
<1>10. S \in SUBSET Nat /\ n \in S /\ \A k \in S : k <= e
  BY <1>0, <1>5, <1>6
<1>11. Max(S) \in S
  <2> HIDE DEF S, n
  <2>1. S # {} /\ e \in Nat
    BY <1>0, <1>10
  <2> QED BY <1>10, <2>1, MaxNat
<1> QED BY <1>5, <1>8, <1>9, <1>11

LEMMA MacroLine ==
    ASSUME LineInv, Macro, UNCHANGED <<lexerVars, parserVars>>
    PROVE  LineInv'
<1>1. /\ pc = "head line" /\ ~isspace(Input_buf[1]) /\ pc' \in {"head", "failed"}
      /\ UNCHANGED <<file, at, p, Lineno, Actual_lineno>>
  BY DEF Macro, Fail
<1>2. Typed /\ Input_buf \in Seq(Nat) /\ Len(Input_buf) \in Nat
  BY LenProperties DEF LineInv, Typed
<1>3. PICK e \in 2..Len(Input_buf) : LineEnds(Input_buf, e)
  BY <1>1 DEF LineInv, HeadLine
<1>4. NameEnd \in 2..e-1 /\ TextStart \in NameEnd..e /\ TextEnd \in NameEnd..e-1
  BY <1>1, <1>2, <1>3, MacroEnds
<1>5. Input_buf' \in Seq(Nat) /\ macros' \in Seq([name : Seq(Nat), text : Seq(Nat)])
  <2>1. CASE Input_buf[TextStart] = NUL
    BY <1>2, <2>1 DEF Macro, Typed
  <2>2. CASE Input_buf[TextStart] # NUL
    <3> DEFINE n == NameEnd
               t == TextStart
               m == TextEnd
               name == SubSeq(Input_buf, 1, n - 1)
               text == SubSeq(Input_buf, t, m - 1)
    <3>1. /\ macros' = Append(macros, [name |-> name, text |-> text])
          /\ Input_buf' = [Input_buf EXCEPT ![n] = NUL, ![m] = NUL]
      BY <2>2 DEF Macro
    <3>2. n \in 2..Len(Input_buf) /\ t \in 1..e /\ m \in 1..Len(Input_buf) /\ NUL \in Nat
      BY <1>2, <1>3, <1>4 DEF NUL
    <3> HIDE DEF n, t, m
    <3>3. name \in Seq(Nat) /\ text \in Seq(Nat)
      BY <1>2, <3>2, PartOf
    <3>4. Input_buf' \in Seq(Nat)
      <4>1. n \in 1..Len(Input_buf)
        BY <3>2
      <4>2. [Input_buf EXCEPT ![n] = NUL] \in Seq(Nat) /\ Len([Input_buf EXCEPT ![n] = NUL]) = Len(Input_buf)
        BY <1>2, <3>2, <4>1, Overwritten
      <4> DEFINE b == [Input_buf EXCEPT ![n] = NUL]
      <4> HIDE DEF b
      <4>3. b \in Seq(Nat) /\ m \in 1..Len(b)
        BY <3>2, <4>2 DEF b
      <4>4. [b EXCEPT ![m] = NUL] \in Seq(Nat)
        BY <3>2, <4>3, Overwritten
      <4> QED BY <3>1, <4>4 DEF b
    <3> HIDE DEF name, text
    <3>5. [name |-> name, text |-> text] \in [name : Seq(Nat), text : Seq(Nat)]
      BY <3>3
    <3> QED BY <1>2, <3>1, <3>4, <3>5, AppendProperties DEF Typed
  <2> QED BY <2>1, <2>2
<1>6. Typed'
  BY <1>1, <1>2, <1>5 DEF Typed
<1>7. HeadLine'
  BY <1>1 DEF HeadLine
<1>8. Pointers' /\ Turns' /\ Saved'
  <2>1. pc \in HeadPlaces /\ pc \in Reading /\ pc' # "token" /\ pc' \notin {"scan", "parse"}
    BY <1>1 DEF HeadPlaces, Reading
  <2> QED BY <1>6, <2>1, ReaderKeeps
<1> QED BY <1>6, <1>7, <1>8 DEF LineInv

LEMMA FirstLineKeeps ==
    ASSUME LineInv, FirstLine, UNCHANGED <<lexerVars, parserVars>>
    PROVE  LineInv'
<1>1. /\ pc = "call" /\ pc' = "line" /\ Lineno' = Actual_lineno /\ p' = 0
      /\ UNCHANGED <<file, at, Input_buf, Actual_lineno, macros>>
  BY DEF FirstLine, headVars
<1>2. Typed /\ Len(Input_buf) \in Nat /\ Actual_lineno \in Nat
  BY LenProperties DEF LineInv, Typed
<1>3. Typed'
  BY <1>1, <1>2, SizeAssumption DEF Typed
<1>4. HeadLine'
  BY <1>1 DEF HeadLine
<1>5. Pointers' /\ Turns' /\ Saved'
  BY <1>1, <1>3, ReaderKeeps DEF HeadPlaces, Reading
<1> QED BY <1>3, <1>4, <1>5 DEF LineInv

LEMMA LinesEnd ==
    ASSUME LineInv, NothingToRead \/ RuleTooLong, UNCHANGED <<lexerVars, parserVars>>
    PROVE  LineInv'
<1>1. /\ pc = "line" /\ pc' \in {"got", "failed"}
      /\ UNCHANGED <<file, at, Input_buf, p, Lineno, Actual_lineno, macros>>
  BY DEF NothingToRead, RuleTooLong, Fail, headVars
<1>2. Typed'
  BY <1>1 DEF LineInv, Typed
<1>3. HeadLine'
  BY <1>1 DEF HeadLine
<1>4. Pointers' /\ Turns' /\ Saved'
  BY <1>1, <1>2, ReaderKeeps DEF HeadPlaces, Reading
<1> QED BY <1>2, <1>3, <1>4 DEF LineInv

\* A line that is not too long fits behind what the rule has, with its newline and a NUL.
LEMMA RuleLineKeeps ==
    ASSUME LineInv, RuleLine, UNCHANGED <<lexerVars, parserVars>>
    PROVE  LineInv'
<1> DEFINE l == Line(at)
           end == p + Len(l)
           next == Peek(at + 1)
           blank == end = 0
           joins == next # EOF /\ ~blank /\ isspace(next)
           read == Put(Input_buf, p, l)
           n == Len(file.lines)
<1>1. /\ pc = "line" /\ at < n /\ ~TooLong(MAXINP - p)
      /\ at' = at + 1
      /\ Actual_lineno' = IF next = EOF THEN Actual_lineno ELSE Actual_lineno + 1
      /\ Input_buf' = IF joins THEN [read EXCEPT ![end + 1] = NL] ELSE read
      /\ p' = IF joins THEN end + 1 ELSE end
      /\ pc' \in {"line", "got"}
      /\ UNCHANGED <<file, Lineno, macros>>
  BY DEF RuleLine, headVars
<1>2. Typed /\ Input_buf \in Seq(Nat) /\ Len(Input_buf) \in Nat /\ n \in Nat
  BY FilesAssumption, LenProperties DEF LineInv, Typed
<1>3. l \in Seq(Nat) /\ Len(l) \in Nat
  BY <1>1, <1>2, LineTyped, LenProperties
<1>4. p \in 0..MAXINP-1 /\ p <= Len(Input_buf) /\ at \in 0..n
  BY <1>1, <1>2 DEF Typed
<1>5. Len(l) + 1 <= (MAXINP - p) - 1
  <2>1. ~(Len(l) + 1 > (MAXINP - p) - 1)
    BY <1>1 DEF TooLong
  <2> HIDE DEF l
  <2> QED BY <1>3, <1>4, <2>1, SizeAssumption
<1> HIDE DEF l, next, n
<1>6. read \in Seq(Nat) /\ Len(read) >= end + 1 /\ Len(read) \in Nat
  <2>1. p \in 0..Len(Input_buf)
    BY <1>2, <1>4
  <2>2. read \in Seq(Nat) /\ Len(read) >= p + Len(l) + 1
    BY <1>2, <1>3, <2>1, PutFacts
  <2> QED BY <2>2, LenProperties
<1> HIDE DEF read
<1>7. end \in Nat /\ end + 1 \in 0..MAXINP-1
  BY <1>3, <1>4, <1>5, SizeAssumption
<1>8. Input_buf' \in Seq(Nat) /\ Len(Input_buf') >= end + 1
  <2>1. end + 1 \in 1..Len(read) /\ NL \in Nat
    BY <1>6, <1>7 DEF NL
  <2>2. [read EXCEPT ![end + 1] = NL] \in Seq(Nat) /\ Len([read EXCEPT ![end + 1] = NL]) = Len(read)
    BY <1>6, <2>1, Overwritten
  <2> HIDE DEF joins, end
  <2> QED BY <1>1, <1>6, <2>2
<1>9. p' \in 0..MAXINP-1 /\ p' <= Len(Input_buf')
  <2>1. p' \in {end, end + 1} /\ Len(Input_buf') \in Nat
    BY <1>1, <1>8, LenProperties
  <2>2. end \in Nat /\ end + 1 \in 0..MAXINP-1 /\ Len(Input_buf') >= end + 1
    BY <1>7, <1>8
  <2> DEFINE m == Len(Input_buf')
  <2>3. m \in Nat /\ m >= end + 1
    BY <2>1, <2>2
  <2> HIDE DEF end, m
  <2>4. p' \in 0..MAXINP-1 /\ p' <= m
    BY <2>1, <2>2, <2>3, SizeAssumption
  <2> QED BY <2>4 DEF m
<1>10. /\ at' \in 0..n /\ Actual_lineno' \in 1..at'+1 /\ Lineno' \in 1..Actual_lineno'
  <2>1. /\ Actual_lineno \in 1..at+1 /\ Lineno \in 1..Actual_lineno /\ Lineno' = Lineno
        /\ Actual_lineno' \in {Actual_lineno, Actual_lineno + 1}
    BY <1>1, <1>2 DEF Typed
  <2> QED BY <1>1, <1>2, <1>4, <2>1
<1>11. Typed'
  <2>1. Len(file'.lines) = n /\ file' \in Files /\ macros' \in Seq([name : Seq(Nat), text : Seq(Nat)])
    BY <1>1, <1>2 DEF Typed, n
  <2> QED BY <1>8, <1>9, <1>10, <2>1 DEF Typed
<1>12. HeadLine'
  BY <1>1 DEF HeadLine
<1>13. Pointers' /\ Turns' /\ Saved'
  BY <1>1, <1>11, ReaderKeeps DEF HeadPlaces, Reading
<1> QED BY <1>11, <1>12, <1>13 DEF LineInv

\* What follows the rules is copied with the pointers as they are.
LEMMA TailKeeps ==
    ASSUME LineInv, tail, UNCHANGED <<lexerVars, parserVars>>
    PROVE  LineInv'
<1> DEFINE n == Len(file.lines)
<1>1. Typed /\ n \in Nat
  BY FilesAssumption, LenProperties DEF LineInv, Typed
<1>2. /\ pc \in {"tail", "copy"} /\ pc' \in {"copy", "done"}
      /\ UNCHANGED <<file, Input_buf, p, Lineno, Actual_lineno, macros>>
  BY DEF tail, SkipMark, CopyTail, headVars
<1>3. at' \in Nat /\ at <= at' /\ at' <= n
  <2>0. at \in 0..n
    BY <1>1 DEF Typed
  <2>1. CASE SkipMark
    <3> DEFINE S == {at + 1, n}
    <3>1. at' = Min(S)
      BY <2>1 DEF SkipMark
    <3>2. S \in SUBSET Nat /\ S # {} /\ n \in S /\ \A k \in S : at <= k
      BY <1>1, <2>0
    <3> HIDE DEF S, n
    <3>3. Min(S) \in S /\ \A k \in S : Min(S) <= k
      BY <3>2, MinNat
    <3> QED BY <3>1, <3>2, <3>3
  <2>2. CASE CopyTail
    <3>1. at' \in {at, at + 1} /\ (at' = at + 1 => at < n)
      BY <2>0, <2>2 DEF CopyTail
    <3> HIDE DEF n
    <3> QED BY <1>1, <2>0, <3>1
  <2> QED BY <2>1, <2>2 DEF tail
<1>4. Typed'
  <2>1. at' \in 0..n /\ Len(file'.lines) = n
    BY <1>1, <1>2, <1>3
  <2>2. /\ Actual_lineno \in 1..at+1 /\ Lineno \in 1..Actual_lineno /\ at \in Nat
        /\ Actual_lineno' = Actual_lineno /\ Lineno' = Lineno
    BY <1>1, <1>2 DEF Typed
  <2> HIDE DEF n
  <2>3. Actual_lineno' \in 1..at'+1 /\ Lineno' \in 1..Actual_lineno'
    <3> DEFINE b == at'
    <3>1. b \in Nat /\ at <= b /\ at \in Nat
      BY <1>3, <2>2
    <3> HIDE DEF b
    <3>2. Actual_lineno \in 1..b+1 /\ Lineno \in 1..Actual_lineno
      BY <2>2, <3>1
    <3> QED BY <2>2, <3>2 DEF b
  <2> QED BY <1>1, <1>2, <2>1, <2>3 DEF Typed
<1>5. HeadLine'
  BY <1>2 DEF HeadLine
<1>6. Good' = Good
  BY <1>2, GoodStays
<1>7. Pointers'
  BY <1>2, <1>6 DEF LineInv, Pointers, lexerVars, HeadPlaces, Reading
<1>8. Turns'
  BY <1>2 DEF LineInv, Turns, lexerVars, parserVars, HeadPlaces, Reading
<1>9. Saved'
  BY DEF LineInv, Saved, parserVars
<1> QED BY <1>4, <1>5, <1>7, <1>8, <1>9 DEF LineInv

-----------------------------------------------------------------------------
(* advance() *)

\* The steps of advance() and of the parser read what the reader of rules has left.
LEMMA TypedStays ==
    ASSUME Typed, UNCHANGED <<lineVars, headVars>>, pc' # "line"
    PROVE  Typed'
BY DEF Typed, lineVars, headVars

LEMMA SavedStays ==
    ASSUME Saved, UNCHANGED parserVars
    PROVE  Saved'
BY DEF Saved, parserVars

LEMMA NextLineKeeps ==
    ASSUME LineInv, NextLine
    PROVE  LineInv'
<1>1. /\ pc = "token" /\ Current_tok = "EOS" /\ pc' \in {"failed", "call"}
      /\ UNCHANGED <<lineVars, headVars, lexerVars, parserVars>>
  BY DEF NextLine, Fail
<1>2. Typed' /\ HeadLine' /\ Saved'
  BY <1>1, TypedStays, SavedStays DEF LineInv, HeadLine
<1>3. Good' = Good
  BY <1>1, GoodStays DEF lineVars, headVars
<1>4. stack = <<>> /\ mode # "end"
  BY <1>1 DEF LineInv, Pointers, Turns
<1>5. Pointers'
  BY <1>1, <1>3, <1>4 DEF LineInv, Pointers, lexerVars, HeadPlaces, Reading
<1>6. Turns'
  BY <1>1, <1>4 DEF LineInv, Turns, lexerVars, parserVars, HeadPlaces, Reading
<1> QED BY <1>2, <1>5, <1>6 DEF LineInv

LEMMA GotLineKeeps ==
    ASSUME LineInv, GotLine
    PROVE  LineInv'
<1> DEFINE k == SkipSpace(Input_buf, 1)
<1>1. /\ pc = "got" /\ Input' = [src |-> 0, at |-> k] /\ pc' \in {"call", "scan"}
      /\ UNCHANGED <<lineVars, headVars, inquote, stack, Current_tok, Lexeme, parserVars>>
  BY DEF GotLine
<1>2. Typed' /\ HeadLine' /\ Saved'
  BY <1>1, TypedStays, SavedStays DEF LineInv, HeadLine
<1>3. Good' = Good
  BY <1>1, GoodStays DEF lineVars, headVars
<1>4. stack = <<>> /\ mode # "end" /\ Current_tok = "EOS"
  BY <1>1 DEF LineInv, Pointers, Turns, Reading
<1>5. Typed /\ Input_buf \in Seq(Nat) /\ Len(macros) \in Nat
  BY LenProperties DEF LineInv, Typed
<1>6. Stopped(Input_buf, 1, k, {j \in 1..Len(Input_buf) : ~isspace(Input_buf[j])})
  BY <1>5, SkipFacts
<1>7. k \in Int /\ k >= 1
  BY <1>6 DEF Stopped
<1>8. \A j \in 1..k-1 : Char(Input_buf, j) # NUL
  <2> SUFFICES ASSUME NEW j \in 1..k-1 PROVE Char(Input_buf, j) # NUL
    OBVIOUS
  <2>1. j \in 1..Len(Input_buf) /\ isspace(Input_buf[j])
    BY <1>6 DEF Stopped
  <2> QED BY <2>1 DEF Char, isspace, NUL
<1> HIDE DEF k
<1>9. Input' \in Good /\ Input' # NULL /\ Input' \in Pointer
  <2> DEFINE ptr == [src |-> 0, at |-> 1]
  <2>1. ptr \in Good
    BY <1>5, StartGood
  <2>2. Text(ptr) = Input_buf /\ ptr.at = 1
    BY DEF Text
  <2>3. [ptr EXCEPT !.at = k] = [src |-> 0, at |-> k]
    OBVIOUS
  <2> HIDE DEF ptr
  <2>4. [ptr EXCEPT !.at = k] \in Good
    BY <1>7, <1>8, <2>1, <2>2, Moves
  <2>5. Input' \in Good
    BY <1>1, <2>3, <2>4
  <2> QED BY <1>5, <2>5, GoodFacts
<1>10. Pointers'
  BY <1>1, <1>3, <1>4, <1>9 DEF LineInv, Pointers, HeadPlaces, Reading
<1>11. Turns'
  BY <1>1, <1>4, <1>9 DEF LineInv, Turns, parserVars, HeadPlaces, Reading
<1> QED BY <1>2, <1>10, <1>11 DEF LineInv

LEMMA GotNullKeeps ==
    ASSUME LineInv, GotNull
    PROVE  LineInv'
<1>1. /\ pc = "null" /\ Input' = NULL /\ Current_tok' = "END_OF_INPUT" /\ pc' = "parse"
      /\ UNCHANGED <<lineVars, headVars, stack, parserVars>>
  BY DEF GotNull
<1>2. Typed' /\ HeadLine' /\ Saved'
  BY <1>1, TypedStays, SavedStays DEF LineInv, HeadLine
<1>3. Good' = Good
  BY <1>1, GoodStays DEF lineVars, headVars
<1>4. stack = <<>> /\ mode # "end" /\ NULL \in Pointer
  BY <1>1 DEF LineInv, Pointers, Turns, Reading, NULL, Pointer
<1>5. Pointers'
  BY <1>1, <1>3, <1>4 DEF LineInv, Pointers, HeadPlaces, Reading
<1>6. Turns'
  BY <1>1, <1>4 DEF LineInv, Turns, parserVars, HeadPlaces, Reading
<1> QED BY <1>2, <1>5, <1>6 DEF LineInv

LEMMA ReadsNullKeeps ==
    ASSUME LineInv, ReadsNull
    PROVE  LineInv'
<1>1. /\ pc \in {"scan", "token"} /\ pc' = "failed"
      /\ UNCHANGED <<lineVars, headVars, lexerVars, parserVars>>
  BY DEF ReadsNull, Scanning, Fail
<1>2. Typed' /\ HeadLine' /\ Saved'
  BY <1>1, TypedStays, SavedStays DEF LineInv, HeadLine
<1>3. Pointers'
  BY <1>1 DEF LineInv, Pointers, lexerVars, HeadPlaces, Reading
<1>4. Turns'
  BY <1>1 DEF LineInv, Turns, lexerVars, parserVars, HeadPlaces, Reading
<1> QED BY <1>2, <1>3, <1>4 DEF LineInv

\* A turn of the scan that goes on in a text, or returns a token.
LEMMA ScanKeeps ==
    ASSUME LineInv, InText, UNCHANGED <<lineVars, headVars, parserVars>>,
           pc' \in {"scan", "parse", "failed"},
           Input' \in Good, stack' \in Seq(Pointer),
           pc' # "failed" => stack' \in Seq(Good) /\ Len(stack') <= SSIZE,
           pc' # "parse" => Current_tok' = Current_tok,
           pc' = "parse" => /\ Current_tok' # "END_OF_INPUT"
                            /\ Current_tok' = "EOS" => stack' = <<>>
    PROVE  LineInv'
<1>1. Typed' /\ HeadLine' /\ Saved'
  BY TypedStays, SavedStays DEF LineInv, HeadLine
<1>2. Good' = Good
  BY GoodStays DEF lineVars, headVars
<1>3. Input' \in Pointer /\ Input' # NULL
  BY GoodFacts DEF LineInv
<1>4. Input # NULL /\ pc \in {"scan", "token"} /\ Current_tok # "END_OF_INPUT"
  BY DEF InText, Scanning, LineInv, Turns
<1>5. Pointers'
  BY <1>2, <1>3 DEF Pointers, HeadPlaces, Reading
<1>6. Turns'
  BY <1>3, <1>4 DEF LineInv, Turns, parserVars, HeadPlaces, Reading
<1> QED BY <1>1, <1>5, <1>6 DEF LineInv

LEMMA InTextFacts ==
    ASSUME LineInv, InText
    PROVE  /\ Typed /\ Input \in Good /\ stack \in Seq(Good) /\ stack \in Seq(Pointer)
           /\ Len(stack) <= SSIZE /\ Current_tok # "END_OF_INPUT"
BY DEF LineInv, InText, Scanning, Pointers, Turns

LEMMA RestoreKeeps ==
    ASSUME LineInv, Restore
    PROVE  LineInv'
<1>1. /\ InText /\ stack # <<>> /\ Input' = Last(stack) /\ stack' = Front(stack)
      /\ pc' = "scan" /\ Current_tok' = Current_tok
      /\ UNCHANGED <<lineVars, headVars, parserVars>>
  BY DEF Restore, ScanUnchanged
<1>2. stack \in Seq(Good) /\ stack \in Seq(Pointer) /\ Len(stack) <= SSIZE /\ Len(stack) \in Nat
  BY <1>1, InTextFacts, LenProperties
<1>3. Last(stack) \in Good /\ Front(stack) \in Seq(Good) /\ Len(Front(stack)) = Len(stack) - 1
  BY <1>1, <1>2, LastFront
<1>4. Front(stack) \in Seq(Pointer)
  BY <1>1, <1>2, LastFront
<1>5. Len(stack') <= SSIZE
  <2> DEFINE n == Len(stack)
  <2> HIDE DEF n
  <2>1. n \in Nat /\ n <= SSIZE /\ Len(stack') = n - 1
    BY <1>1, <1>2, <1>3 DEF n
  <2> QED BY <2>1, LimitsAssumption
<1> QED BY <1>1, <1>3, <1>4, <1>5, ScanKeeps

LEMMA EndOfStringKeeps ==
    ASSUME LineInv, EndOfString
    PROVE  LineInv'
<1>1. /\ InText /\ stack = <<>> /\ stack' = stack /\ Input' = Input
      /\ pc' = "parse" /\ Current_tok' = "EOS"
      /\ UNCHANGED <<lineVars, headVars, parserVars>>
  BY DEF EndOfString, ScanUnchanged, Returns
<1> QED BY <1>1, InTextFacts, ScanKeeps

LEMMA EndOfExprKeeps ==
    ASSUME LineInv, EndsInLine, EndOfExpr
    PROVE  LineInv'
<1>1. /\ InText /\ stack' = stack /\ Input' = Behind
      /\ pc' = "parse" /\ Current_tok' = "EOS"
      /\ UNCHANGED <<lineVars, headVars, parserVars>>
  BY DEF EndOfExpr, InChar, ScanUnchanged, Returns
<1>2. stack = <<>>
  BY DEF EndsInLine, EndOfExpr
<1>3. Behind \in Good
  BY <1>1, InTextFacts, BehindGood
<1> QED BY <1>1, <1>2, <1>3, InTextFacts, ScanKeeps

LEMMA TokmapFacts ==
    ASSUME NEW ch
    PROVE  Tokmap(ch) \notin {"EOS", "END_OF_INPUT"}
BY DEF Tokmap, Tokens

LEMMA PlainCharKeeps ==
    ASSUME LineInv, EscapesEnd, PlainChar
    PROVE  LineInv'
<1> DEFINE ch == esc(Text(Input), Behind.at)
<1>1. /\ InText /\ stack' = stack /\ Input' = [Input EXCEPT !.at = ch.at]
      /\ pc' = "parse" /\ Current_tok' = IF Here(Behind) = BACKSLASH THEN "L" ELSE Tokmap(ch.ch)
      /\ UNCHANGED <<lineVars, headVars, parserVars>>
  BY DEF PlainChar, InChar, ScanUnchanged, Returns
<1>2. Current_tok' # "EOS" /\ Current_tok' # "END_OF_INPUT"
  <2> HIDE DEF ch
  <2> QED BY <1>1, TokmapFacts
<1>3. Typed /\ Input \in Good
  BY <1>1, InTextFacts
<1>4. /\ Behind \in Good /\ Text(Behind) = Text(Input) /\ Behind.at \in Int /\ Behind.at >= 1
      /\ Text(Input) \in Seq(Nat)
      /\ \A k : [Behind EXCEPT !.at = k] = [Input EXCEPT !.at = k]
  BY <1>3, BehindGood, GoodFacts
<1> DEFINE s == Text(Input)
           i == Behind.at
<1>5. Here(Behind) = Char(s, i)
  BY <1>4 DEF Here
<1>6. \A n \in {1, 2} : Here(Skip(Behind, n)) = Char(s, i + n)
  <2>1. Behind \in Pointer
    BY <1>3, <1>4, GoodFacts
  <2> SUFFICES ASSUME NEW n \in {1, 2} PROVE Here(Skip(Behind, n)) = Char(s, i + n)
    OBVIOUS
  <2>2. Skip(Behind, n).src = Behind.src /\ Skip(Behind, n).at = i + n
    BY <2>1 DEF Skip, Pointer
  <2>3. Text(Skip(Behind, n)) = s
    BY <1>4, <2>2 DEF Text
  <2> QED BY <2>2, <2>3 DEF Here
<1>7. /\ Char(s, i) # NUL
      /\ Char(s, i) = BACKSLASH =>
            /\ Char(s, i + 1) # NUL
            /\ Char(s, i + 1) = CARET => Char(s, i + 2) # NUL
  BY <1>5, <1>6 DEF PlainChar, Ends, EscapesEnd
<1>8. Within(s, i, ch.at)
  <2> HIDE DEF ch, s, i
  <2>1. s \in Seq(Nat) /\ i \in Int /\ i >= 1
    BY <1>4 DEF s, i
  <2>2. Within(s, i, esc(s, i).at)
    BY <1>7, <2>1, EscFacts
  <2> QED BY <2>2 DEF ch, s, i
<1>9. Input' \in Good
  <2> HIDE DEF ch
  <2>1. ch.at \in Int /\ ch.at >= Behind.at /\ \A j \in Behind.at..ch.at-1 : Char(Text(Behind), j) # NUL
    BY <1>4, <1>8 DEF Within
  <2>2. [Behind EXCEPT !.at = ch.at] \in Good
    BY <1>4, <2>1, Moves
  <2> QED BY <1>1, <1>4, <2>2
<1> HIDE DEF ch
<1> QED BY <1>1, <1>2, <1>9, InTextFacts, ScanKeeps

LEMMA QuotedCharKeeps ==
    ASSUME LineInv, QuotedChar
    PROVE  LineInv'
<1>1. /\ InText /\ stack' = stack /\ pc' = "parse" /\ Current_tok' = "L"
      /\ Input' \in {Skip(Behind, 1), Skip(Behind, 2)}
      /\ Input' = Skip(Behind, 2) => Here(Skip(Behind, 1)) = QUOTE \/ Skip(Behind, 2) = Skip(Behind, 1)
      /\ UNCHANGED <<lineVars, headVars, parserVars>>
  BY DEF QuotedChar, InChar, ScanUnchanged, Returns
<1>2. Typed /\ Input \in Good
  BY <1>1, InTextFacts
<1>3. Behind \in Good /\ Behind \in Pointer
  BY <1>2, BehindGood, GoodFacts
<1>4. Here(Behind) # NUL
  BY DEF QuotedChar, Ends
<1>5. Skip(Behind, 1) \in Good
  BY <1>3, <1>4, SkipGood
<1>6. Here(Skip(Behind, 1)) = QUOTE => Skip(Behind, 2) \in Good
  <2> SUFFICES ASSUME Here(Skip(Behind, 1)) = QUOTE PROVE Skip(Behind, 2) \in Good
    OBVIOUS
  <2>1. Skip(Skip(Behind, 1), 1) = Skip(Behind, 2)
    <3>1. /\ Behind = [src |-> Behind.src, at |-> Behind.at]
          /\ Behind.at \in Int
      BY <1>3 DEF Pointer
    <3>2. \A n \in {1, 2} : Skip(Behind, n) = [src |-> Behind.src, at |-> Behind.at + n]
      BY <3>1 DEF Skip
    <3>3. Skip(Skip(Behind, 1), 1) = [src |-> Behind.src, at |-> (Behind.at + 1) + 1]
      <4>1. Skip(Behind, 1) = [src |-> Behind.src, at |-> Behind.at + 1]
        BY <3>2
      <4>2. \A x, y : Skip([src |-> x, at |-> y], 1) = [src |-> x, at |-> y + 1]
        BY DEF Skip
      <4> QED BY <4>1, <4>2
    <3>4. (Behind.at + 1) + 1 = Behind.at + 2
      BY <3>1
    <3> QED BY <3>2, <3>3, <3>4
  <2>2. Here(Skip(Behind, 1)) # NUL
    BY DEF QUOTE, NUL
  <2> QED BY <1>5, <2>1, <2>2, SkipGood
<1>7. Input' \in Good
  BY <1>1, <1>5, <1>6
<1> QED BY <1>1, <1>7, InTextFacts, ScanKeeps

\* A name is closed by a brace in the same text; it goes on behind it.
LEMMA NameGood ==
    ASSUME Typed, NEW ptr \in Good, Here(ptr) = LBRACE, Name(ptr).closed
    PROVE  Name(ptr).behind \in Good
<1> DEFINE s == Text(ptr)
           i == ptr.at
           close == NameClose(s, i + 1)
<1>1. s \in Seq(Nat) /\ i \in Int /\ i >= 1 /\ ptr \in Pointer
  BY GoodFacts
<1>2. Char(s, close) = RBRACE /\ Name(ptr).behind = [ptr EXCEPT !.at = close + 1]
  BY DEF Name
<1>3. Stopped(s, i + 1, close, {k \in i+1..Len(s) : s[k] \in {RBRACE, NUL}})
  <2> HIDE DEF s, i
  <2>1. i + 1 \in Nat /\ i + 1 >= 1
    BY <1>1
  <2> QED BY <1>1, <2>1, BraceFacts
<1>4. Char(s, i) = LBRACE
  BY DEF Here
<1>5. close \in Int /\ close >= i + 1
  BY <1>3 DEF Stopped
<1> HIDE DEF close
<1>6. \A j \in i..(close+1)-1 : Char(s, j) # NUL
  <2> SUFFICES ASSUME NEW j \in i..close PROVE Char(s, j) # NUL
    BY <1>5
  <2>1. CASE j = i
    BY <1>4, <2>1 DEF LBRACE, NUL
  <2>2. CASE j = close
    BY <1>2, <2>2 DEF RBRACE, NUL
  <2>3. CASE j \in i+1..close-1
    <3>1. j \in 1..Len(s) /\ j \notin {k \in i+1..Len(s) : s[k] \in {RBRACE, NUL}}
      BY <1>3, <2>3 DEF Stopped
    <3> HIDE DEF s, i
    <3>2. j \in i+1..Len(s)
      BY <1>1, <1>5, <2>3, <3>1
    <3>3. s[j] # NUL
      BY <3>1, <3>2
    <3> QED BY <3>1, <3>3 DEF Char
  <2> HIDE DEF s, i
  <2> QED BY <1>1, <1>5, <2>1, <2>2, <2>3
<1>7. [ptr EXCEPT !.at = close + 1] \in Good
  <2>1. close + 1 \in Int /\ close + 1 >= ptr.at
    BY <1>1, <1>5
  <2> QED BY <1>6, <2>1, Moves
<1> QED BY <1>2, <1>7

LEMMA FoundFacts ==
    ASSUME Typed, NEW name
    PROVE  FindMacro(name) \in 0..Len(macros)
<1> DEFINE S == {k \in 1..Len(macros) : macros[k].name = name} \union {0}
           n == Len(macros)
<1>1. n \in Nat
  BY LenProperties DEF Typed
<1>2. S \in SUBSET Nat /\ S # {} /\ (\A k \in S : k <= n) /\ S \subseteq 0..n
  BY <1>1
<1> HIDE DEF S, n
<1>3. Max(S) \in S
  BY <1>1, <1>2, MaxNat
<1> QED BY <1>2, <1>3 DEF FindMacro, S, n

LEMMA ExpandKeeps ==
    ASSUME LineInv, Expand
    PROVE  LineInv'
<1> DEFINE name == Name(Input)
           found == FindMacro(name.text)
<1>1. /\ InText /\ Here(Input) = LBRACE /\ Current_tok' = Current_tok
      /\ UNCHANGED <<lineVars, headVars, parserVars>>
  BY DEF Expand, ScanUnchanged
<1>2. /\ Typed /\ Input \in Good /\ stack \in Seq(Good) /\ stack \in Seq(Pointer)
      /\ Len(stack) <= SSIZE
  BY <1>1, InTextFacts
<1>3. CASE ~name.closed \/ found = 0
  <2>1. pc' = "failed" /\ Input' = Input /\ stack' = stack
    BY <1>3 DEF Expand, Fail
  <2> QED BY <1>1, <1>2, <2>1, ScanKeeps
<1>4. CASE name.closed /\ found # 0
  <2>1. /\ stack' = Append(stack, name.behind) /\ Input' = [src |-> found, at |-> 1]
        /\ pc' \in {"scan", "failed"} /\ (pc' # "failed" => ~TooDeep(stack'))
    BY <1>4 DEF Expand, Fail
  <2>2. name.behind \in Good
    BY <1>1, <1>2, <1>4, NameGood
  <2>3. name.behind \in Pointer
    BY <1>2, <2>2, GoodFacts
  <2>4. found \in 0..Len(macros)
    BY <1>2, FoundFacts
  <2> HIDE DEF name, found
  <2>5. Input' \in Good
    BY <1>2, <2>1, <2>4, StartGood
  <2>6. stack' \in Seq(Good) /\ stack' \in Seq(Pointer) /\ Len(stack') \in Nat
    BY <1>2, <2>1, <2>2, <2>3, AppendProperties, LenProperties
  <2>7. pc' # "failed" => Len(stack') <= SSIZE
    <3> DEFINE n == Len(stack')
    <3>1. pc' # "failed" => ~(n > SSIZE)
      BY <2>1 DEF TooDeep
    <3>2. n \in Nat
      BY <2>6
    <3> HIDE DEF n
    <3>3. pc' # "failed" => n <= SSIZE
      BY <3>1, <3>2, LimitsAssumption
    <3> QED BY <3>3 DEF n
  <2> QED BY <1>1, <2>1, <2>5, <2>6, <2>7, ScanKeeps
<1> HIDE DEF name, found
<1> QED BY <1>3, <1>4

-----------------------------------------------------------------------------
(* The parser *)

\* The parser leaves the texts and the pointers to advance().
LEMMA ParserKeeps ==
    ASSUME LineInv, UNCHANGED <<lineVars, headVars, lexerVars>>, pc = "parse",
           pc' \in {"token", "tail", "failed"}, Saved',
           mode' = "end" => Current_tok # "END_OF_INPUT" /\ (pc' = "token" => Current_tok = "AT_EOL")
    PROVE  LineInv'
<1>1. Typed' /\ HeadLine'
  BY TypedStays DEF LineInv, HeadLine
<1>2. Good' = Good
  BY GoodStays DEF lineVars, headVars
<1>3. Pointers'
  BY <1>2 DEF LineInv, Pointers, lexerVars, HeadPlaces, Reading
<1>4. Turns'
  BY DEF LineInv, Turns, lexerVars, HeadPlaces, Reading
<1> QED BY <1>1, <1>3, <1>4 DEF LineInv

\* Of the parser's steps only the end of a rule moves the pointer or saves code.
LEMMA ParseKeeps ==
    ASSUME LineInv, parse, ~SaveRule
    PROVE  LineInv'
<1> DEFINE Frame == UNCHANGED <<lineVars, headVars, lexerVars>> /\ UNCHANGED <<savep, strings>>
           Steps == /\ Frame /\ pc = "parse" /\ pc' \in {"token", "tail", "failed"}
                    /\ depth' \in Nat /\ mode' \in Modes
                    /\ mode' = "end" => (mode = mode' /\ pc' = "failed") \/ Current_tok = "AT_EOL"
<1>0. depth \in Nat /\ mode \in Modes
  BY DEF LineInv, Saved
<1> USE DEF Modes
<1> USE DEF ReaderStays, Match, Fail
<1>1. EndOfInput => Steps
  BY <1>0 DEF EndOfInput, NoMoreRules, parserVars
<1>2. Item => Steps
  BY <1>0 DEF Item, Take
<1>3. OpenParen => Steps
  BY <1>0 DEF OpenParen, Take
<1>4. CloseParen => Steps
  BY <1>0 DEF CloseParen, Take
<1>5. MissingParen => Steps
  BY <1>0 DEF MissingParen, parserVars
<1>6. AtEol => Steps
  BY <1>0 DEF AtEol
<1>7. RuleFails => Steps
  BY <1>0 DEF RuleFails, EndOfRule, parserVars
<1>8. OpenClass => Steps
  BY <1>0 DEF OpenClass, ClassGoesOn
<1>9. Negate => Steps
  BY <1>0 DEF Negate, ClassGoesOn
<1>10. EmptyClass => Steps
  BY <1>0 DEF EmptyClass, ClassEnds
<1>11. DashWarning => Steps
  BY <1>0 DEF DashWarning, AtClass, parserVars
<1>12. ClassChar => Steps
  BY <1>0 DEF ClassChar, InClass, AtClass, ClassGoesOn
<1>13. Dash => Steps
  BY <1>0 DEF Dash, ClassGoesOn
<1>14. EndOfRange => Steps
  BY <1>0 DEF EndOfRange, ClassGoesOn
<1>15. EndOfClass => Steps
  BY <1>0 DEF EndOfClass, InClass, AtClass, ClassEnds
<1>16. Steps
  BY <1>1, <1>2, <1>3, <1>4, <1>5, <1>6, <1>7, <1>8, <1>9, <1>10, <1>11, <1>12, <1>13,
     <1>14, <1>15 DEF parse
<1>17. Saved'
  BY <1>16 DEF LineInv, Saved
<1>18. mode' = "end" => Current_tok # "END_OF_INPUT" /\ (pc' = "token" => Current_tok = "AT_EOL")
  BY <1>16 DEF LineInv, Turns
<1> QED BY <1>16, <1>17, <1>18, ParserKeeps

\* n characters and a NUL, in whole words, fit into a block of whole words that they fit into.
LEMMA WordsFit ==
    ASSUME NEW n \in Nat, NEW s \in Nat, WORD * (s + 1) + n + 1 <= STR_MAX
    PROVE  Words(n + 1) \in Nat \ {0} /\ WORD * (s + 1 + Words(n + 1)) <= STR_MAX
<1> DEFINE w == Words(n + 1)
<1>1. w = (n + 4) \div 4
  <2>1. (n + 1) + WORD - 1 = n + 4
    BY DEF WORD
  <2> QED BY <2>1 DEF Words, WORD
<1>2. w \in Nat \ {0} /\ 4 * w <= n + 4
  <2> HIDE DEF w
  <2> QED BY <1>1
<1>3. STR_MAX \in Nat /\ STR_MAX % 4 = 0
  BY LimitsAssumption DEF WORD
<1> DEFINE q == STR_MAX \div 4
<1>4. STR_MAX = 4 * q /\ q \in Int
  BY <1>3
<1> HIDE DEF w, q
<1>5. 4 * (s + 1) + n + 1 <= 4 * q
  BY <1>4 DEF WORD
<1>6. 4 * (s + 1 + w) <= 4 * q
  <2>1. 4 * (s + 1 + w) <= 4 * q + 3
    BY <1>2, <1>4, <1>5
  <2> QED BY <1>2, <1>4, <2>1
<1> QED BY <1>2, <1>4, <1>6 DEF w, WORD

LEMMA CodeTyped ==
    ASSUME Typed, Input \in Good
    PROVE  /\ SkipSpace(Text(Input), Input.at) \in Int
           /\ [Input EXCEPT !.at = SkipSpace(Text(Input), @)] \in Good
           /\ Len(Code) \in Nat /\ (Code # <<>> => Len(Code) # 0)
<1> DEFINE s == Text(Input)
           i == Input.at
           k == SkipSpace(s, i)
           end == EndOf(s, k)
<1>1. s \in Seq(Nat) /\ i \in Nat /\ i >= 1 /\ Len(s) \in Nat
  BY GoodFacts, LenProperties
<1>2. Stopped(s, i, k, {j \in i..Len(s) : ~isspace(s[j])})
  <2> HIDE DEF s, i
  <2> QED BY <1>1, SkipFacts DEF k
<1>3. i <= Len(s) + 1
  <2>1. \A j \in 1..i-1 : Char(s, j) # NUL
    BY DEF Good, ValidPointer
  <2>2. i - 1 \in 1..i-1 => i - 1 \in 1..Len(s)
    <3> HIDE DEF s, i
    <3> QED BY <1>1, <2>1, CharFacts
  <2> HIDE DEF s, i
  <2> QED BY <1>1, <2>2
<1>4. k \in Nat /\ k >= i /\ k <= Len(s) + 1
  BY <1>2, <1>3 DEF Stopped
<1>5. \A j \in i..k-1 : Char(s, j) # NUL
  <2> SUFFICES ASSUME NEW j \in i..k-1 PROVE Char(s, j) # NUL
    OBVIOUS
  <2>1. j \in 1..Len(s) /\ j \notin {l \in i..Len(s) : ~isspace(s[l])}
    BY <1>2 DEF Stopped
  <2> HIDE DEF s, i, k
  <2>2. isspace(s[j])
    BY <1>1, <1>4, <2>1
  <2> QED BY <2>1, <2>2 DEF Char, isspace, NUL
<1>6. Stopped(s, k, end, {j \in k..Len(s) : s[j] = NUL})
  <2> HIDE DEF s, i, k
  <2>1. k \in Nat /\ k >= 1
    BY <1>1, <1>4
  <2> QED BY <1>1, <2>1, NulFacts DEF end
<1>7. end \in Nat /\ end <= Len(s) + 1
  BY <1>4, <1>6 DEF Stopped
<1>8. Code = SubSeq(s, k, end - 1)
  BY DEF Code, StringAt
<1>9. Code \in Seq(Nat)
  <2> HIDE DEF s, i, k, end
  <2>1. k \in Int /\ k >= 1 /\ end - 1 \in Int /\ end - 1 <= Len(s)
    BY <1>1, <1>4, <1>7
  <2> QED BY <1>1, <1>8, <2>1, PartOf
<1>10. [Input EXCEPT !.at = k] \in Good
  <2>1. k \in Int /\ k >= Input.at
    BY <1>1, <1>4
  <2> HIDE DEF k
  <2> QED BY <1>5, <2>1, Moves
<1> QED BY <1>4, <1>9, <1>10, LenProperties, EmptySeq

LEMMA SaveRuleKeeps ==
    ASSUME LineInv, RoomForNone, SaveRule
    PROVE  LineInv'
<1>1. /\ pc = "parse" /\ pc' = "token" /\ mode' = "rule" /\ depth' = depth
      /\ Input' = [Input EXCEPT !.at = SkipSpace(Text(Input), @)]
      /\ UNCHANGED <<lineVars, headVars, stack, Current_tok>>
      /\ mode = "end" \/ Current_tok \in {"EOS", "CLOSE_PAREN"}
  BY DEF SaveRule, EndOfRule, ReaderStays
<1>2. Typed' /\ HeadLine'
  BY <1>1, TypedStays DEF LineInv, HeadLine
<1>3. Good' = Good
  BY <1>1, GoodStays DEF lineVars, headVars
<1>4. Current_tok # "END_OF_INPUT" /\ Input \in Good /\ Typed
  BY <1>1 DEF LineInv, Turns, Pointers
<1>5. Input' \in Good /\ Len(Code) \in Nat /\ (Code # <<>> => Len(Code) # 0)
  BY <1>1, <1>4, CodeTyped
<1>6. Input' # NULL /\ Input' \in Pointer
  BY <1>4, <1>5, GoodFacts
<1>7. Pointers'
  BY <1>1, <1>3, <1>5, <1>6 DEF LineInv, Pointers, HeadPlaces, Reading
<1>8. Turns'
  BY <1>1, <1>4, <1>6 DEF LineInv, Turns, HeadPlaces, Reading
<1>9. Saved'
  <2>1. /\ depth \in Nat /\ savep \in Nat /\ WORD * savep <= STR_MAX
        /\ \A str \in strings : str.at \in 1..savep
    BY DEF LineInv, Saved
  <2>2. CASE Shared
    <3>1. savep' = savep /\ strings' = strings
      BY <2>2 DEF SaveRule
    <3> QED BY <1>1, <2>1, <3>1 DEF Saved, Modes
  <2>3. CASE ~Shared
    <3> DEFINE n == Len(Code)
               w == Words(n + 1)
    <3>1. /\ savep' = savep + 1 + w /\ ~NoRoom
          /\ strings' = strings \union {[at |-> savep + 1, line |-> Lineno, text |-> Code]}
      BY <2>3 DEF SaveRule
    <3>2. w \in Nat \ {0} /\ WORD * (savep + 1 + w) <= STR_MAX
      <4>1. CASE Code = <<>>
        <5>1. WORD * (savep + 2) <= STR_MAX
          BY <4>1 DEF RoomForNone, SaveRule
        <5>2. w = 1
          <6>1. n = 0
            BY <4>1
          <6> QED BY <6>1 DEF Words, WORD
        <5>3. savep + 1 + w = savep + 2
          BY <2>1, <5>2
        <5> QED BY <5>1, <5>2, <5>3
      <4>2. CASE Code # <<>>
        <5>1. ~(WORD * (savep + 1) + n - 1 >= STR_MAX - 1)
          BY <3>1, <4>2 DEF NoRoom
        <5>2. n \in Nat
          BY <1>5
        <5> HIDE DEF n
        <5>3. WORD * (savep + 1) + n + 1 <= STR_MAX
          BY <2>1, <5>1, <5>2, LimitsAssumption DEF WORD
        <5> QED BY <2>1, <5>2, <5>3, WordsFit
      <4> QED BY <4>1, <4>2
    <3> HIDE DEF n, w
    <3>3. savep' \in Nat /\ savep <= savep' /\ savep + 1 \in 1..savep'
      BY <2>1, <3>1, <3>2
    <3>4. \A str \in strings' : str.at \in 1..savep'
      <4> SUFFICES ASSUME NEW str \in strings' PROVE str.at \in 1..savep'
        OBVIOUS
      <4>1. CASE str \in strings
        BY <2>1, <3>3, <4>1
      <4>2. CASE str = [at |-> savep + 1, line |-> Lineno, text |-> Code]
        BY <3>3, <4>2
      <4> QED BY <3>1, <4>1, <4>2
    <3>5. WORD * savep' <= STR_MAX
      BY <3>1, <3>2
    <3> QED BY <1>1, <2>1, <3>3, <3>4, <3>5 DEF Saved, Modes
  <2> QED BY <2>2, <2>3
<1> QED BY <1>2, <1>7, <1>8, <1>9 DEF LineInv

-----------------------------------------------------------------------------
(* Theorems *)

LEMMA StutterKeeps ==
    ASSUME LineInv, UNCHANGED vars
    PROVE  LineInv'
<1> USE DEF vars, readerVars, lineVars, headVars, lexerVars, parserVars
<1>1. Typed' /\ HeadLine' /\ Turns' /\ Saved'
  BY DEF LineInv, Typed, HeadLine, Turns, Saved
<1>2. Good' = Good
  BY GoodStays
<1>3. Pointers'
  BY <1>2 DEF LineInv, Pointers
<1> QED BY <1>1, <1>3 DEF LineInv

LEMMA NextLineInv == LineInv /\ Regular /\ [Next]_vars => LineInv'
<1> SUFFICES ASSUME LineInv, Regular, [Next]_vars PROVE LineInv'
  OBVIOUS
<1>1. CASE (head \/ get_expr \/ tail) /\ UNCHANGED <<lexerVars, parserVars>>
  <2>1. CASE head
    BY <1>1, <2>1, FgetsLine, StripLine, HeadLineKeeps, MacroLine DEF head
  <2>2. CASE get_expr
    BY <1>1, <2>2, HeadLineKeeps, FirstLineKeeps, LinesEnd, RuleLineKeeps DEF get_expr
  <2>3. CASE tail
    BY <1>1, <2>3, TailKeeps
  <2> QED BY <1>1, <2>1, <2>2, <2>3
<1>2. CASE advance
  BY <1>2, NextLineKeeps, GotLineKeeps, GotNullKeeps, ReadsNullKeeps, RestoreKeeps,
     EndOfStringKeeps, ExpandKeeps, EndOfExprKeeps, PlainCharKeeps, QuotedCharKeeps
     DEF advance, Regular
<1>3. CASE parse
  BY <1>3, ParseKeeps, SaveRuleKeeps DEF Regular
<1>4. CASE UNCHANGED vars
  BY <1>4, StutterKeeps
<1> QED BY <1>1, <1>2, <1>3, <1>4 DEF Next

\* The invariant that all of it rests on (nfa.c:403-454, lex.c:117-167): while lines are
\* read the stack is empty, so that no pointer outlives the line it is for.
THEOREM LineInvariant == Spec /\ []Regular => []LineInv
<1>1. LineInv /\ Regular /\ [Next]_vars => LineInv'
  BY NextLineInv
<1> QED BY <1>1, InitLine, PTL DEF Spec

\* Whatever the file, the pointers of advance() point into their texts, the stack of macros
\* is not exceeded, and the code that is saved fits into its block (nfa.c:120-152, 403-454,
\* lex.c:117-167), as long as no escape is cut off by the end of its text, no expression
\* ends within a macro, and there is room when a rule has no code.
THEOREM PointersWithin == Spec /\ []Regular => []TypeOK
<1>1. LineInv => TypeOK
  <2> SUFFICES ASSUME LineInv PROVE TypeOK
    OBVIOUS
  <2>1. \A i \in 1..Len(stack) : pc # "failed" => ValidPointer(stack[i])
    <3> SUFFICES ASSUME pc # "failed", NEW i \in 1..Len(stack) PROVE ValidPointer(stack[i])
      OBVIOUS
    <3>1. stack \in Seq(Good)
      BY DEF LineInv, Pointers
    <3>2. stack[i] \in Good
      BY <3>1, ElementOfSeq
    <3> QED BY <3>2 DEF Good
  <2>2. pc \in {"scan", "parse"} => Input = NULL \/ ValidPointer(Input)
    BY DEF LineInv, Pointers, Good
  <2>3. Actual_lineno <= at + 1
    <3>1. Actual_lineno \in 1..at+1
      BY DEF LineInv, Typed
    <3> QED BY <3>1
  <2> QED BY <2>1, <2>2, <2>3 DEF LineInv, Typed, Pointers, Turns, Saved, Modes, TypeOK
<1> QED BY <1>1, LineInvariant, PTL
=============================================================================
