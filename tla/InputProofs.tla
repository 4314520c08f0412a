----------------------------- MODULE InputProofs -----------------------------
(***************************************************************************)
(* Proofs about the input system, for every buffer geometry, every set of  *)
(* files and every mixture of calls that InputClient allows: the pointers  *)
(* keep their order, the buffer is a window on the file, the line numbers  *)
(* count its newlines, a refill moves the text under the lexemes without   *)
(* moving the lexemes in it, and nothing but the file is delivered.        *)
(***************************************************************************)
EXTENDS InputClient, FiniteSetTheorems, FunctionTheorems, SequenceTheorems, TLAPS

-----------------------------------------------------------------------------
(* The inductive invariant *)

InputState ==
    [ buf : [0..BUFSIZE-1 -> Chars \union {NUL}],
      end : 0..END, next : 0..END, sMark : 0..END, eMark : 0..END,
      pMark : {NULL} \union 0..END, pLength : Int, pLineno : Int,
      line : Int, mline : Int, term : Chars \union {NUL},
      eof : BOOLEAN, called : BOOLEAN, file : Seq(Chars), rd : Nat,
      opened : 1..MaxOpens, err : {"none", "full", "read"}, text : Seq(Chars) ]

\* The order of the pointers, and what Eof_read says of the room behind End_buf: before
\* the end of the file a read leaves less than MAXLEX, at the end at least one place.
\* Until the first call of ii_advance() nothing has been read.
Base(b) ==
    /\ b.sMark <= b.eMark /\ b.eMark <= b.next /\ b.next <= b.end
    /\ b.pMark # NULL => b.pMark <= b.sMark
    /\ b.eof => b.end < END
    /\ ~b.eof => b.end > END - MAXLEX
    /\ ~b.called => b.end = END /\ ~b.eof /\ b.text = <<>>

Ready(b) == ~b.eof /\ b.text # <<>> => b.end - b.next >= MAXLOOK

Typed(b) == b \in InputState /\ b.rd <= Len(b.file)

Sound(b) == Typed(b) /\ (b.err = "none" => Base(b) /\ Ready(b))

IInv ==
    /\ Sound(ib)
    /\ inAction \in BOOLEAN /\ failed \in BOOLEAN /\ unputs \in 0..MaxUnputs
    /\ ib.err = "none" /\ inAction => Loaded
    /\ failed => ib.called
    /\ RefusedOnlyWhenFull

-----------------------------------------------------------------------------
LEMMA BufferSize ==
    /\ BUFSIZE \in Nat /\ END = BUFSIZE
    /\ MAXLEX \in Nat /\ MAXLOOK \in Nat /\ MAXLOOK >= 1 /\ MAXLEX > MAXLOOK
    /\ BUFSIZE = MAXLEX + MAXLEX + MAXLEX + MAXLOOK + MAXLOOK
BY SizeAssumption DEF BUFSIZE, END

\* The types of the fields that the pointer arithmetic is about.
LEMMA FieldTypes ==
    ASSUME NEW b, Typed(b)
    PROVE  /\ b.end \in 0..BUFSIZE /\ b.next \in 0..BUFSIZE
           /\ b.sMark \in 0..BUFSIZE /\ b.eMark \in 0..BUFSIZE
           /\ b.pMark \in -1..BUFSIZE
           /\ b.line \in Int /\ b.mline \in Int
           /\ b.eof \in BOOLEAN /\ b.called \in BOOLEAN
           /\ b.buf \in [0..BUFSIZE-1 -> Chars \union {NUL}]
           /\ b.term \in Chars \union {NUL}
           /\ b.file \in Seq(Chars) /\ b.text \in Seq(Chars)
           /\ b.rd \in Nat /\ b.rd <= Len(b.file)
BY BufferSize, SMTT(30) DEF Typed, InputState, NULL

-----------------------------------------------------------------------------
(* The marks *)

LEMMA MarkStartSound ==
    ASSUME NEW b, Sound(b), b.err = "none"
    PROVE  LET m == ii_mark_start(b)
           IN  /\ Sound(m) /\ m.err = "none" /\ m.text = b.text /\ m.end = b.end
               /\ m.next = b.next /\ m.sMark = b.next /\ m.eMark = b.next
               /\ m.pMark = b.pMark /\ m.eof = b.eof /\ m.called = b.called
<1> DEFINE m == ii_mark_start(b)
<1>1. /\ m.next = b.next /\ m.end = b.end /\ m.sMark = b.next /\ m.eMark = b.next
      /\ m.pMark = b.pMark /\ m.eof = b.eof /\ m.text = b.text /\ m.err = b.err
      /\ m.called = b.called
  BY DEF Sound, Typed, InputState, ii_mark_start
<1>2. Typed(m)
  BY DEF Sound, Typed, InputState, ii_mark_start
<1>3. Base(m) /\ Ready(m)
  BY <1>1, FieldTypes, BufferSize DEF Sound, Base, Ready
<1> QED BY <1>1, <1>2, <1>3 DEF Sound

LEMMA MarkEndSound ==
    ASSUME NEW b, Sound(b), b.err = "none"
    PROVE  Sound(ii_mark_end(b)) /\ ii_mark_end(b).text = b.text
           /\ ii_mark_end(b).err = "none"
<1> DEFINE m == ii_mark_end(b)
<1>1. /\ m.next = b.next /\ m.end = b.end /\ m.sMark = b.sMark /\ m.eMark = b.next
      /\ m.pMark = b.pMark /\ m.eof = b.eof /\ m.text = b.text /\ m.err = b.err
      /\ m.called = b.called
  BY DEF Sound, Typed, InputState, ii_mark_end
<1>2. Typed(m)
  BY DEF Sound, Typed, InputState, ii_mark_end
<1>3. Base(m) /\ Ready(m)
  BY <1>1, FieldTypes, BufferSize DEF Sound, Base, Ready
<1> QED BY <1>1, <1>2, <1>3 DEF Sound

LEMMA MoveStartSound ==
    ASSUME NEW b, Sound(b), b.err = "none"
    PROVE  Sound(ii_move_start(b)) /\ ii_move_start(b).text = b.text
<1> DEFINE m == ii_move_start(b)
<1>1. CASE b.sMark >= b.eMark
  BY <1>1 DEF ii_move_start
<1>2. CASE ~(b.sMark >= b.eMark)
  <2>1. /\ m.next = b.next /\ m.end = b.end /\ m.sMark = b.sMark + 1 /\ m.eMark = b.eMark
        /\ m.pMark = b.pMark /\ m.eof = b.eof /\ m.text = b.text /\ m.err = b.err
        /\ m.called = b.called
    BY <1>2 DEF Sound, Typed, InputState, ii_move_start
  <2>2. b.sMark + 1 \in 0..END
    BY <1>2, FieldTypes, BufferSize DEF Sound
  <2>3. Typed(m)
    BY <1>2, <2>2 DEF Sound, Typed, InputState, ii_move_start
  <2>4. Base(m) /\ Ready(m)
    BY <1>2, <2>1, FieldTypes, BufferSize DEF Sound, Base, Ready, NULL
  <2> QED BY <2>1, <2>3, <2>4 DEF Sound
<1> QED BY <1>1, <1>2

LEMMA ToMarkSound ==
    ASSUME NEW b, Sound(b), b.err = "none"
    PROVE  Sound(ii_to_mark(b)) /\ ii_to_mark(b).text = b.text
<1> DEFINE m == ii_to_mark(b)
<1>1. /\ m.next = b.eMark /\ m.end = b.end /\ m.sMark = b.sMark /\ m.eMark = b.eMark
      /\ m.pMark = b.pMark /\ m.eof = b.eof /\ m.text = b.text /\ m.err = b.err
      /\ m.called = b.called
  BY DEF Sound, Typed, InputState, ii_to_mark
<1>2. Typed(m)
  BY DEF Sound, Typed, InputState, ii_to_mark
<1>3. Base(m) /\ Ready(m)
  BY <1>1, FieldTypes, BufferSize DEF Sound, Base, Ready
<1> QED BY <1>1, <1>2, <1>3 DEF Sound

LEMMA MarkPrevSound ==
    ASSUME NEW b, Sound(b), b.err = "none"
    PROVE  LET m == ii_mark_prev(b)
           IN  /\ Sound(m) /\ m.text = b.text /\ m.err = "none" /\ m.end = b.end
               /\ m.next = b.next /\ m.sMark = b.sMark /\ m.eMark = b.eMark
               /\ m.pMark = b.sMark /\ m.eof = b.eof /\ m.called = b.called
<1> DEFINE m == ii_mark_prev(b)
<1>1. /\ m.next = b.next /\ m.end = b.end /\ m.sMark = b.sMark /\ m.eMark = b.eMark
      /\ m.pMark = b.sMark /\ m.eof = b.eof /\ m.text = b.text /\ m.err = b.err
      /\ m.called = b.called
  BY DEF Sound, Typed, InputState, ii_mark_prev
<1>2. b.eMark - b.sMark \in Int
  BY FieldTypes DEF Sound
<1>3. Typed(m)
  BY <1>2 DEF Sound, Typed, InputState, ii_mark_prev
<1>4. Base(m) /\ Ready(m)
  BY <1>1, FieldTypes, BufferSize DEF Sound, Base, Ready
<1> QED BY <1>1, <1>3, <1>4 DEF Sound

-----------------------------------------------------------------------------
(* Filling the buffer *)

\* need is a multiple of MAXLEX, and less than MAXLEX is left over.
LEMMA NeedBounds ==
    ASSUME NEW p \in 0..END
    PROVE  /\ Need(p) \in Nat /\ p + Need(p) <= END /\ p + Need(p) > END - MAXLEX
           /\ Need(p) = 0 \/ Need(p) >= MAXLEX
<1> DEFINE n == END - p
           q == n \div MAXLEX
<1>1. n \in Nat /\ MAXLEX \in Nat \ {0}
  BY BufferSize
<1>2. q \in Nat /\ MAXLEX * q <= n /\ n < MAXLEX * q + MAXLEX
  <2> HIDE DEF n
  <2>1. q \in Int /\ n = MAXLEX * q + (n % MAXLEX) /\ n % MAXLEX \in 0..MAXLEX-1
    BY <1>1, Z3
  <2> QED BY <1>1, <2>1, Z3
<1>3. Need(p) = MAXLEX * q
  BY <1>1, <1>2, Z3 DEF Need
<1>4. q = 0 \/ MAXLEX * q >= MAXLEX
  BY <1>1, <1>2, Z3
<1>5. MAXLEX * q \in Nat /\ (q = 0 => MAXLEX * q = 0)
  BY <1>1, <1>2, Z3
<1> QED BY <1>2, <1>3, <1>4, <1>5, BufferSize

LEMMA ReadResultBounds ==
    ASSUME NEW b, Typed(b), NEW need \in Nat, NEW got \in ReadResults(b, need)
    PROVE  got \in -1..need /\ b.rd + got <= Len(b.file)
<1>1. Len(b.file) \in Nat /\ b.rd \in Nat /\ b.rd <= Len(b.file)
  BY FieldTypes
<1> QED BY <1>1 DEF ReadResults

\* Moving text keeps the buffer a buffer and changes nothing else.
LEMMA MoveTextTyped ==
    ASSUME NEW b, Typed(b), NEW left \in 0..END, left <= b.end
    PROVE  LET m == MoveText(b, left)
           IN  /\ Typed(m)
               /\ m.end = b.end /\ m.next = b.next /\ m.sMark = b.sMark
               /\ m.eMark = b.eMark /\ m.pMark = b.pMark /\ m.eof = b.eof
               /\ m.text = b.text /\ m.err = b.err /\ m.rd = b.rd /\ m.file = b.file
               /\ m.called = b.called
<1> DEFINE m == MoveText(b, left)
           buf == [i \in 0..BUFSIZE-1 |-> IF i < b.end - left THEN b.buf[i + left] ELSE b.buf[i]]
<1>1. \A i \in 0..BUFSIZE-1 : i < b.end - left => i + left \in 0..BUFSIZE-1
  BY BufferSize, FieldTypes
<1>2. b.buf \in [0..BUFSIZE-1 -> Chars \union {NUL}]
  BY FieldTypes
<1>3. buf \in [0..BUFSIZE-1 -> Chars \union {NUL}]
  BY <1>1, <1>2
<1> HIDE DEF buf
<1>4. m = [b EXCEPT !.buf = buf]
  BY DEF MoveText, buf
<1> QED BY <1>3, <1>4 DEF Typed, InputState

\* What read() stores comes from the file and fits in the buffer.
LEMMA ReadIntoTyped ==
    ASSUME NEW b, Typed(b), NEW p \in 0..END,
           NEW got \in 0..Need(p), b.rd + got <= Len(b.file)
    PROVE  LET m == ReadInto(b, p, got)
           IN  /\ Typed(m)
               /\ m.end = p + got /\ m.next = b.next /\ m.sMark = b.sMark
               /\ m.eMark = b.eMark /\ m.pMark = b.pMark
               /\ m.eof = (b.eof \/ got < Need(p))
               /\ got > 0 => m.text # <<>>
               /\ m.err = b.err /\ m.called = b.called
<1> DEFINE m == ReadInto(b, p, got)
           buf == [i \in 0..BUFSIZE-1 |-> IF p <= i /\ i < p + got
                      THEN b.file[b.rd + (i - p) + 1] ELSE b.buf[i]]
           piece == SubSeq(b.file, b.rd + 1, b.rd + got)
           text == b.text \o piece
           eof == b.eof \/ got < Need(p)
<1> HIDE DEF buf, piece, text, eof
<1>0. Need(p) \in Nat /\ p + Need(p) <= END
  BY NeedBounds
<1>1. /\ b.rd \in Nat /\ got \in Nat /\ p + got \in 0..END /\ b.rd + got \in Nat
      /\ b.file \in Seq(Chars) /\ Len(b.file) \in Nat /\ b.text \in Seq(Chars)
      /\ b.buf \in [0..BUFSIZE-1 -> Chars \union {NUL}]
  <2>1. b.rd \in Nat /\ b.file \in Seq(Chars) /\ b.text \in Seq(Chars)
        /\ b.buf \in [0..BUFSIZE-1 -> Chars \union {NUL}]
    BY FieldTypes
  <2>2. Len(b.file) \in Nat
    BY <2>1
  <2>3. got \in Nat /\ p + got \in 0..END /\ b.rd + got \in Nat
    BY <1>0, <2>1, BufferSize
  <2> QED BY <2>1, <2>2, <2>3
<1>2. buf \in [0..BUFSIZE-1 -> Chars \union {NUL}]
  <2>1. ASSUME NEW i \in 0..BUFSIZE-1, p <= i, i < p + got
        PROVE  b.file[b.rd + (i - p) + 1] \in Chars
    <3> DEFINE L == Len(b.file)
               k == b.rd + (i - p) + 1
    <3>1. L \in Nat /\ b.rd \in Nat /\ got \in Nat /\ p \in Nat /\ i \in Nat /\ b.rd + got <= L
      BY <1>1, BufferSize
    <3> HIDE DEF L
    <3>2. k \in 1..L
      BY <3>1, <2>1
    <3> HIDE DEF k
    <3> QED BY <1>1, <3>2, ElementOfSeq DEF L, k
  <2> QED BY <1>1, <2>1 DEF buf
<1>3. piece \in Seq(Chars) /\ Len(piece) = got
  <2>1. \A k \in b.rd+1..b.rd+got : b.file[k] \in Chars
    BY <1>1
  <2>2. b.rd + 1 \in Int /\ b.rd + got \in Int
    BY <1>1
  <2>3. piece \in Seq(Chars)
        /\ Len(piece) = IF b.rd + 1 <= b.rd + got THEN (b.rd + got) - (b.rd + 1) + 1 ELSE 0
    BY <2>1, <2>2, SubSeqProperties DEF piece
  <2> QED BY <1>1, <2>3
<1>4. text \in Seq(Chars) /\ (got > 0 => text # <<>>)
  <2>1. text \in Seq(Chars) /\ Len(text) = Len(b.text) + Len(piece) /\ Len(b.text) \in Nat
    BY <1>1, <1>3, ConcatProperties, LenProperties DEF text
  <2>2. got > 0 => Len(text) # 0
    BY <1>1, <1>3, <2>1
  <2> QED BY <2>1, <2>2, EmptySeq
<1>5. eof \in BOOLEAN
  BY DEF eof
<1>6. m = [b EXCEPT !.buf = buf, !.end = p + got, !.eof = eof, !.rd = b.rd + got, !.text = text]
  BY DEF ReadInto, buf, text, piece, eof, Typed, InputState
<1> HIDE DEF m
<1>7. Typed(m) /\ m.end = p + got /\ m.eof = eof /\ m.text = text /\ m.err = b.err
  <2>1. m \in InputState
    BY <1>1, <1>2, <1>4, <1>5, <1>6 DEF Typed, InputState
  <2>2. /\ m.end = p + got /\ m.eof = eof /\ m.text = text /\ m.err = b.err
        /\ m.rd = b.rd + got /\ m.file = b.file
    BY <1>6 DEF Typed, InputState
  <2> QED BY <2>1, <2>2 DEF Typed
<1>8. /\ m.next = b.next /\ m.sMark = b.sMark /\ m.eMark = b.eMark /\ m.pMark = b.pMark
      /\ m.called = b.called
  BY <1>6 DEF Typed, InputState
<1> QED BY <1>4, <1>7, <1>8 DEF eof, m

\* ii_flush() with the left edge at left: it fails, or the pointers still delimit the
\* same text and there is more to read behind it.
LEMMA RefillSound ==
    ASSUME NEW b, Typed(b), b.err = "none", ~b.eof, b.called, Base(b),
           NEW left \in 0..END, left <= b.sMark, b.pMark # NULL => left <= b.pMark,
           NEW got \in ReadResults(b, Need(b.end - left))
    PROVE  LET r == Refill(b, left, got)
           IN  /\ Typed(r)
               /\ r.err = "none" =>
                    /\ Base(r) /\ r.called /\ r.text # <<>> /\ r.end > r.next
                    /\ ~r.eof => r.end - r.next >= MAXLEX
<1> DEFINE copy == b.end - left
           m == MoveText(b, left)
           filled == ii_fillbuf(m, copy, got)
           r == Refill(b, left, got)
<1>0. /\ b.end \in 0..BUFSIZE /\ b.next \in 0..BUFSIZE /\ b.sMark \in 0..BUFSIZE
      /\ b.eMark \in 0..BUFSIZE /\ b.pMark \in -1..BUFSIZE
      /\ b.sMark <= b.eMark /\ b.eMark <= b.next /\ b.next <= b.end
      /\ b.pMark # NULL => b.pMark <= b.sMark
  BY FieldTypes DEF Base
<1>1. /\ copy \in 0..END /\ left <= b.end /\ b.next - left <= copy
      /\ b.sMark - left \in 0..END /\ b.eMark - left \in 0..END /\ b.next - left \in 0..END
  BY <1>0, BufferSize
<1>2. /\ Need(copy) \in Nat /\ copy + Need(copy) <= END /\ copy + Need(copy) > END - MAXLEX
      /\ Need(copy) = 0 \/ Need(copy) >= MAXLEX
  BY <1>1, NeedBounds
<1>3. got \in -1..Need(copy) /\ b.rd + got <= Len(b.file)
  BY <1>2, ReadResultBounds
<1>4. /\ Typed(m) /\ m.end = b.end /\ m.next = b.next /\ m.sMark = b.sMark
      /\ m.eMark = b.eMark /\ m.pMark = b.pMark /\ m.eof = b.eof
      /\ m.err = b.err /\ m.rd = b.rd /\ m.file = b.file /\ m.called
  BY <1>1, MoveTextTyped
<1> HIDE DEF copy, m, filled, r
<1>5. CASE Need(copy) = 0
  <2>1. r = [m EXCEPT !.err = "full"]
    BY <1>5 DEF r, Refill, ii_fillbuf, m, copy
  <2> QED BY <1>4, <2>1 DEF Typed, InputState, r
<1>6. CASE Need(copy) # 0 /\ got < 0
  <2>1. got # 0
    BY <1>6, <1>3
  <2>2. r = [m EXCEPT !.err = "read"]
    BY <1>6, <2>1 DEF r, Refill, ii_fillbuf, m, copy
  <2> QED BY <1>4, <2>2 DEF Typed, InputState, r
<1>7. CASE Need(copy) # 0 /\ ~(got < 0)
  <2> DEFINE n == ReadInto(m, copy, got)
  <2>1. filled.ret = got /\ filled.b = n
    BY <1>7 DEF filled, ii_fillbuf
  <2>2. got \in 0..Need(copy)
    BY <1>7, <1>2, <1>3
  <2>3. /\ Typed(n) /\ n.end = copy + got /\ n.next = b.next /\ n.sMark = b.sMark
        /\ n.eMark = b.eMark /\ n.pMark = b.pMark /\ n.eof = (got < Need(copy))
        /\ (got > 0 => n.text # <<>>) /\ n.err = "none" /\ n.called
    BY <1>1, <1>3, <1>4, <2>2, ReadIntoTyped
  <2> HIDE DEF n
  <2>4. CASE got = 0
    <3>1. r = [n EXCEPT !.err = "full"]
      BY <2>1, <2>4 DEF r, Refill, filled, m, copy
    <3> QED BY <2>3, <3>1 DEF Typed, InputState, r
  <2>5. CASE got # 0
    <3> DEFINE pm == IF b.pMark # NULL THEN b.pMark - left ELSE b.pMark
    <3>1. r = Shift(n, left)
      BY <1>7, <2>1, <2>5 DEF r, Refill, filled, m, copy
    <3>2. pm \in {NULL} \union 0..END
      BY <1>0, BufferSize DEF NULL
    <3> HIDE DEF pm
    <3>3. r = [n EXCEPT !.pMark = pm, !.sMark = b.sMark - left,
                        !.eMark = b.eMark - left, !.next = b.next - left]
      BY <2>3, <3>1 DEF Shift, Typed, InputState, pm
    <3>4. /\ r.pMark = pm /\ r.sMark = b.sMark - left /\ r.eMark = b.eMark - left
          /\ r.next = b.next - left /\ r.end = copy + got /\ r.text = n.text
          /\ r.eof = (got < Need(copy)) /\ r.err = "none" /\ r.called
      BY <2>3, <3>3 DEF Typed, InputState
    <3>5. Typed(r)
      <4>1. r \in InputState
        BY <1>1, <2>3, <3>2, <3>3 DEF Typed, InputState
      <4>2. r.rd = n.rd /\ r.file = n.file
        BY <2>3, <3>3 DEF Typed, InputState
      <4> QED BY <2>3, <4>1, <4>2 DEF Typed
    <3>a. (r.eof => got < Need(copy)) /\ (~r.eof => got >= Need(copy))
      <4>1. (r.eof => got < Need(copy)) /\ (~r.eof => ~(got < Need(copy)))
        BY <3>4, Zenon
      <4>2. ~(got < Need(copy)) => got >= Need(copy)
        BY <1>2, <2>2
      <4> QED BY <4>1, <4>2
    <3>6. Base(r)
      <4>1. r.sMark <= r.eMark /\ r.eMark <= r.next /\ r.next <= r.end
        BY <1>0, <1>1, <2>2, <3>4, BufferSize
      <4>2. r.pMark # NULL => r.pMark <= r.sMark
        BY <1>0, <1>1, <3>4, BufferSize DEF pm
      <4>3. (r.eof => r.end < END) /\ (~r.eof => r.end > END - MAXLEX)
        <5>1. r.end = copy + got
          BY <3>4
        <5> QED BY <1>1, <1>2, <2>2, <3>a, <5>1, BufferSize
      <4> QED BY <3>4, <4>1, <4>2, <4>3 DEF Base
    <3>7. r.end > r.next /\ (~r.eof => r.end - r.next >= MAXLEX)
      <4>1. r.end = copy + got /\ r.next = b.next - left
        BY <3>4
      <4> QED BY <1>1, <1>2, <1>7, <2>2, <2>5, <3>a, <4>1, BufferSize
    <3>8. r.text # <<>>
      BY <2>2, <2>3, <2>5, <3>4
    <3> QED BY <3>4, <3>5, <3>6, <3>7, <3>8 DEF r
  <2> QED BY <2>4, <2>5
<1> QED BY <1>5, <1>6, <1>7

-----------------------------------------------------------------------------
(* ii_flush() and ii_advance() *)

\* A flush keeps the text in order and leaves something to deliver, or fails; it is
\* refused only when MAXLEX characters are held back.
LEMMA FlushSound ==
    ASSUME NEW b, Typed(b), b.err = "none", Base(b), b.called,
           NEW force \in BOOLEAN, force => Ready(b), NEW got \in FlushReads(b, force)
    PROVE  LET r == ii_flush(b, force, got)
           IN  /\ Typed(r.b)
               /\ r.b.err = "none" =>
                    /\ Base(r.b) /\ r.b.called /\ (b.text # <<>> => r.b.text # <<>>)
                    /\ r.ret # -1 /\ ~NO_MORE_CHARS(b) =>
                         /\ r.b.end > r.b.next
                         /\ ~r.b.eof => r.b.end - r.b.next > MAXLOOK
               /\ r.ret = -1 => r.b = b /\ TooFull(b) /\ b.next - LeftEdge(b) >= MAXLEX
<1> DEFINE r == ii_flush(b, force, got)
<1>0. /\ b.end \in 0..BUFSIZE /\ b.next \in 0..BUFSIZE /\ b.sMark \in 0..BUFSIZE
      /\ b.pMark \in -1..BUFSIZE /\ b.eof \in BOOLEAN
      /\ b.sMark <= b.next /\ b.next <= b.end
      /\ b.pMark # NULL => b.pMark <= b.sMark
      /\ ~b.eof => b.end > END - MAXLEX
  BY FieldTypes DEF Base
<1>1. /\ LeftEdge(b) \in 0..END /\ LeftEdge(b) <= b.sMark
      /\ b.pMark # NULL => LeftEdge(b) <= b.pMark
  BY <1>0, BufferSize DEF LeftEdge, NULL
<1>2. CASE NO_MORE_CHARS(b)
  BY <1>2 DEF ii_flush
<1>3. CASE ~NO_MORE_CHARS(b) /\ ~MustFlush(b, force)
  <2>1. r.b = b /\ r.ret = 1
    BY <1>3 DEF ii_flush
  <2>2. b.end > b.next /\ (~b.eof => b.end - b.next > MAXLOOK)
    BY <1>0, <1>3, BufferSize DEF NO_MORE_CHARS, MustFlush, DANGER
  <2> QED BY <2>1, <2>2
<1>4. CASE ~NO_MORE_CHARS(b) /\ MustFlush(b, force) /\ ~TooFull(b)
  <2>1. r.b = Refill(b, LeftEdge(b), got) /\ r.ret = 1
    BY <1>4 DEF ii_flush
  <2>2. got \in ReadResults(b, Need(b.end - LeftEdge(b))) /\ ~b.eof
    BY <1>4 DEF FlushReads, MustFlush
  <2>3. /\ Typed(r.b)
        /\ r.b.err = "none" =>
             /\ Base(r.b) /\ r.b.called /\ r.b.text # <<>> /\ r.b.end > r.b.next
             /\ ~r.b.eof => r.b.end - r.b.next >= MAXLEX
    BY <1>1, <2>1, <2>2, RefillSound
  <2>4. Typed(r.b) => r.b.end \in Int /\ r.b.next \in Int
    BY FieldTypes, BufferSize
  <2> HIDE DEF r
  <2>5. /\ r.b.err = "none" /\ ~r.b.eof => r.b.end - r.b.next > MAXLOOK
        /\ r.ret # -1
    BY <2>1, <2>3, <2>4, BufferSize
  <2> QED BY <2>3, <2>5 DEF r
<1>5. CASE ~NO_MORE_CHARS(b) /\ MustFlush(b, force) /\ TooFull(b) /\ ~force
  <2>1. r.b = b /\ r.ret = -1
    BY <1>5 DEF ii_flush
  <2>2. b.next - LeftEdge(b) >= MAXLEX
    BY <1>0, <1>1, <1>5, BufferSize DEF MustFlush, DANGER, TooFull
  <2> QED BY <1>5, <2>1, <2>2
<1>6. CASE ~NO_MORE_CHARS(b) /\ MustFlush(b, force) /\ TooFull(b) /\ force
  <2> DEFINE c == ii_mark_prev(ii_mark_start(b))
  <2>1. r.b = Refill(c, b.next, got) /\ r.ret = 1
    BY <1>6 DEF ii_flush
  <2>2. got \in ReadResults(b, Need(b.end - b.next)) /\ ~b.eof
    BY <1>6 DEF FlushReads, MustFlush
  <2>3. Sound(b)
    BY <1>6 DEF Sound
  <2>4. LET d == ii_mark_start(b)
        IN  /\ Sound(d) /\ d.err = "none" /\ d.text = b.text /\ d.end = b.end
            /\ d.next = b.next /\ d.sMark = b.next /\ d.eMark = b.next
            /\ d.eof = b.eof /\ d.called = b.called
    BY <2>3, MarkStartSound
  <2>5. /\ Sound(c) /\ c.err = "none" /\ c.end = b.end /\ c.next = b.next
        /\ c.sMark = b.next /\ c.pMark = b.next /\ ~c.eof /\ c.called
    BY <2>2, <2>4, MarkPrevSound
  <2>6. c.rd = b.rd /\ c.file = b.file
    BY DEF ii_mark_prev, ii_mark_start, Typed, InputState
  <2>7. got \in ReadResults(c, Need(c.end - b.next))
    BY <2>2, <2>5, <2>6 DEF ReadResults
  <2> HIDE DEF c
  <2>8. b.next \in 0..END /\ b.next <= c.sMark /\ (c.pMark # NULL => b.next <= c.pMark)
    BY <1>0, <2>5, BufferSize
  <2>9. /\ Typed(r.b)
        /\ r.b.err = "none" =>
             /\ Base(r.b) /\ r.b.called /\ r.b.text # <<>> /\ r.b.end > r.b.next
             /\ ~r.b.eof => r.b.end - r.b.next >= MAXLEX
    BY <2>1, <2>5, <2>7, <2>8, RefillSound DEF Sound
  <2>10. Typed(r.b) => r.b.end \in Int /\ r.b.next \in Int
    BY FieldTypes, BufferSize
  <2> HIDE DEF r
  <2>11. /\ r.b.err = "none" /\ ~r.b.eof => r.b.end - r.b.next > MAXLOOK
         /\ r.ret # -1
    BY <2>1, <2>9, <2>10, BufferSize
  <2> QED BY <2>9, <2>11 DEF r
<1> QED BY <1>2, <1>3, <1>4, <1>5, <1>6

\* The newline in front of the input is ready to be delivered, and the buffer can shift.
LEMMA FirstAdvanceSound ==
    ASSUME NEW b, Sound(b), b.err = "none"
    PROVE  LET f == FirstAdvance(b)
           IN  /\ Typed(f) /\ f.err = "none" /\ Base(f) /\ f.called
               /\ b.text # <<>> => f = b
               /\ NO_MORE_CHARS(f) \/ TooFull(f) => f = b
<1> DEFINE f == FirstAdvance(b)
<1>1. CASE b.called
  <2>1. f = b
    BY <1>1 DEF FirstAdvance
  <2> QED BY <1>1, <2>1 DEF Sound
<1>2. CASE ~b.called
  <2>0. b.end = END /\ ~b.eof /\ b.text = <<>>
    BY <1>2 DEF Sound, Base
  <2> DEFINE buf == [b.buf EXCEPT ![END - 1] = NL]
             text == <<NL>>
  <2>1. buf \in [0..BUFSIZE-1 -> Chars \union {NUL}] /\ text \in Seq(Chars)
    <3>1. b.buf \in [0..BUFSIZE-1 -> Chars \union {NUL}]
      BY FieldTypes DEF Sound
    <3>2. NL \in Chars
      BY CharAssumption
    <3>3. buf \in [0..BUFSIZE-1 -> Chars \union {NUL}]
      BY <3>1, <3>2, Zenon
    <3>4. text \in Seq(Chars)
      BY <3>2
    <3> QED BY <3>3, <3>4
  <2>2. END - 1 \in 0..END /\ b.line - 1 \in Int /\ b.mline - 1 \in Int /\ 0 \in Int
    BY FieldTypes, BufferSize, SMTT(30) DEF Sound
  <2> HIDE DEF buf, text
  <2>3. f = [b EXCEPT !.next = END - 1, !.sMark = END - 1, !.eMark = END - 1,
                      !.pMark = NULL, !.pLength = 0, !.buf = buf,
                      !.line = b.line - 1, !.mline = b.mline - 1, !.called = TRUE,
                      !.text = text]
    BY <1>2 DEF FirstAdvance, buf, text, Sound, Typed, InputState
  <2>4. /\ f.next = END - 1 /\ f.sMark = END - 1 /\ f.eMark = END - 1 /\ f.pMark = NULL
        /\ f.end = END /\ f.called /\ ~f.eof /\ f.err = "none"
        /\ f.rd = b.rd /\ f.file = b.file
    BY <2>0, <2>3 DEF Sound, Typed, InputState
  <2>5. Typed(f)
    <3> DEFINE g == [b EXCEPT !.next = END - 1, !.sMark = END - 1, !.eMark = END - 1,
                              !.pMark = NULL, !.pLength = 0]
    <3> HIDE DEF f
    <3>0. g \in InputState
      BY <2>2 DEF Sound, Typed, InputState
    <3>2. f = [g EXCEPT !.buf = buf, !.line = b.line - 1, !.mline = b.mline - 1,
                        !.called = TRUE, !.text = text]
      BY <2>3
    <3> HIDE DEF g
    <3>1. f \in InputState
      BY <2>1, <2>2, <3>0, <3>2 DEF InputState
    <3> QED BY <2>4, <3>1 DEF Sound, Typed
  <2>6. Base(f)
    BY <2>4, BufferSize DEF Base
  <2>7. ~NO_MORE_CHARS(f) /\ ~TooFull(f)
    BY <2>4, BufferSize DEF NO_MORE_CHARS, TooFull, LeftEdge
  <2> QED BY <2>0, <2>4, <2>5, <2>6, <2>7
<1> QED BY <1>1, <1>2

\* ii_advance() delivers one character, or reports the end of the file, or is refused
\* with MAXLEX characters held back.
LEMMA AdvanceSound ==
    ASSUME NEW b, Sound(b), b.err = "none", NEW got \in AdvanceReads(b)
    PROVE  LET r == ii_advance(b, got)
           IN  /\ Sound(r.b)
               /\ r.b.err = "none" =>
                    /\ b.text # <<>> => r.b.text # <<>>
                    /\ r.ret = -1 => r.b.called /\ r.b.next - LeftEdge(r.b) >= MAXLEX
<1> DEFINE f == FirstAdvance(b)
           fl == ii_flush(f, FALSE, got)
           r == ii_advance(b, got)
<1>1. /\ Typed(f) /\ f.err = "none" /\ Base(f) /\ f.called
      /\ b.text # <<>> => f = b
      /\ NO_MORE_CHARS(f) \/ TooFull(f) => f = b
  BY FirstAdvanceSound
<1>2. got \in FlushReads(f, FALSE)
  BY DEF AdvanceReads
<1> HIDE DEF f
<1>3. /\ Typed(fl.b)
      /\ fl.b.err = "none" =>
           /\ Base(fl.b) /\ fl.b.called /\ (f.text # <<>> => fl.b.text # <<>>)
           /\ fl.ret # -1 /\ ~NO_MORE_CHARS(f) =>
                /\ fl.b.end > fl.b.next
                /\ ~fl.b.eof => fl.b.end - fl.b.next > MAXLOOK
      /\ fl.ret = -1 => fl.b = f /\ TooFull(f) /\ f.next - LeftEdge(f) >= MAXLEX
  BY <1>1, <1>2, FlushSound
<1>4. fl.ret \in {-1, 0, 1}
  BY DEF ii_flush
<1> HIDE DEF fl
<1>5. CASE NO_MORE_CHARS(f)
  <2>1. r.b = f /\ r.ret = 0
    BY <1>5 DEF ii_advance, f
  <2> HIDE DEF r
  <2> QED BY <1>1, <1>5, <2>1 DEF r
<1>6. CASE ~NO_MORE_CHARS(f) /\ fl.ret < 0
  <2>1. r.b = fl.b /\ r.ret = -1
    BY <1>6 DEF ii_advance, f, fl
  <2>2. fl.ret = -1
    BY <1>4, <1>6
  <2> HIDE DEF r
  <2> QED BY <1>1, <1>3, <2>1, <2>2 DEF r
<1>7. CASE ~NO_MORE_CHARS(f) /\ ~(fl.ret < 0) /\ fl.b.err # "none"
  <2>1. r.b = fl.b
    BY <1>7 DEF ii_advance, f, fl
  <2> HIDE DEF r
  <2> QED BY <1>3, <1>7, <2>1 DEF r, Sound
<1>8. CASE ~NO_MORE_CHARS(f) /\ ~(fl.ret < 0) /\ fl.b.err = "none"
  <2> DEFINE c == fl.b
             d == Consume(c)
             line == IF c.buf[c.next] = NL THEN c.line + 1 ELSE c.line
  <2>1. r.b = d /\ r.ret = c.buf[c.next]
    BY <1>8 DEF ii_advance, f, fl
  <2>2. /\ Typed(c) /\ Base(c) /\ c.called /\ (f.text # <<>> => c.text # <<>>)
        /\ c.end > c.next /\ (~c.eof => c.end - c.next > MAXLOOK) /\ c.err = "none"
    BY <1>3, <1>4, <1>8
  <2> HIDE DEF c
  <2>3. /\ c.end \in 0..BUFSIZE /\ c.next \in 0..BUFSIZE /\ c.sMark \in 0..BUFSIZE
        /\ c.eMark \in 0..BUFSIZE /\ c.pMark \in -1..BUFSIZE /\ c.line \in Int
        /\ c.buf \in [0..BUFSIZE-1 -> Chars \union {NUL}]
    BY <2>2, FieldTypes
  <2>4. c.next + 1 \in 0..END /\ c.next \in 0..BUFSIZE-1
    BY <2>2, <2>3, BufferSize
  <2>5. line \in Int
    BY <2>3
  <2>6. r.ret \in Nat
    <3>1. c.buf[c.next] \in Chars \union {NUL}
      BY <2>3, <2>4
    <3>2. Chars \union {NUL} \subseteq Nat
      BY CharAssumption DEF NUL
    <3> QED BY <2>1, <3>1, <3>2
  <2> HIDE DEF line
  <2>7. d = [c EXCEPT !.next = c.next + 1, !.line = line]
    BY <2>2 DEF Consume, line, Typed, InputState
  <2>8. /\ d.next = c.next + 1 /\ d.end = c.end /\ d.sMark = c.sMark /\ d.eMark = c.eMark
        /\ d.pMark = c.pMark /\ d.eof = c.eof /\ d.called = c.called /\ d.text = c.text
        /\ d.err = c.err
    BY <2>2, <2>7 DEF Typed, InputState
  <2>9. Typed(d)
    BY <2>2, <2>4, <2>5, <2>7, ZenonT(60) DEF Typed, InputState
  <2>10. Base(d)
    BY <2>2, <2>3, <2>8, BufferSize DEF Base
  <2>11. Ready(d)
    BY <2>2, <2>3, <2>8, BufferSize, SMTT(30) DEF Ready
  <2>12. b.text # <<>> => d.text # <<>>
    BY <1>1, <2>2, <2>8
  <2>13. r.ret # -1
    BY <2>6
  <2> HIDE DEF r, d
  <2> QED BY <2>1, <2>9, <2>10, <2>11, <2>12, <2>13 DEF Sound, r
<1> QED BY <1>5, <1>6, <1>7, <1>8

\* ii_flush(1): nothing is lost of the invariant when characters are discarded.
LEMMA ForceFlushSound ==
    ASSUME NEW b, Sound(b), b.err = "none", b.called, NEW got \in FlushReads(b, TRUE)
    PROVE  LET r == ii_flush(b, TRUE, got)
           IN  /\ Sound(r.b)
               /\ b.text # <<>> /\ r.b.err = "none" => r.b.text # <<>>
<1> DEFINE r == ii_flush(b, TRUE, got)
<1>1. /\ Typed(r.b)
      /\ r.b.err = "none" =>
           /\ Base(r.b) /\ r.b.called /\ (b.text # <<>> => r.b.text # <<>>)
           /\ r.ret # -1 /\ ~NO_MORE_CHARS(b) =>
                /\ r.b.end > r.b.next
                /\ ~r.b.eof => r.b.end - r.b.next > MAXLOOK
      /\ r.ret = -1 => r.b = b /\ TooFull(b) /\ b.next - LeftEdge(b) >= MAXLEX
  BY FlushSound DEF Sound
<1>2. CASE NO_MORE_CHARS(b)
  <2>1. r.b = b
    BY <1>2 DEF ii_flush
  <2> QED BY <2>1
<1>3. CASE ~NO_MORE_CHARS(b)
  <2>1. r.ret # -1
    BY <1>3 DEF ii_flush
  <2> HIDE DEF r
  <2>2. Typed(r.b) => r.b.end \in Int /\ r.b.next \in Int
    BY FieldTypes, BufferSize
  <2>3. r.b.err = "none" => Ready(r.b)
    BY <1>1, <1>3, <2>1, <2>2, BufferSize DEF Ready
  <2> QED BY <1>1, <2>3 DEF Sound, r
<1> QED BY <1>2, <1>3

-----------------------------------------------------------------------------
(* Opening a file, and pushing back *)

LEMMA StaticsSound ==
    ASSUME NEW f \in Files
    PROVE  Sound(Statics(f)) /\ Statics(f).err = "none"
<1> DEFINE b == Statics(f)
           buf == [i \in 0..BUFSIZE-1 |-> NUL]
<1>1. buf \in [0..BUFSIZE-1 -> Chars \union {NUL}]
  OBVIOUS
<1> HIDE DEF buf
<1>2. b = [ buf |-> buf, end |-> END, next |-> END,
            sMark |-> END, eMark |-> END, pMark |-> NULL, pLength |-> 0, pLineno |-> 0,
            line |-> 1, mline |-> 1, term |-> NUL, eof |-> FALSE, called |-> FALSE,
            file |-> f, rd |-> 0, opened |-> 1, err |-> "none", text |-> <<>> ]
  BY DEF Statics, buf
<1>3. /\ END \in 0..END /\ 1 \in 1..MaxOpens /\ f \in Seq(Chars) /\ Len(f) \in Nat
      /\ <<>> \in Seq(Chars)
  BY BufferSize, ClientAssumption, CharAssumption
<1> HIDE DEF b
<1>4. Typed(b)
  BY <1>1, <1>2, <1>3 DEF Typed, InputState
<1>5. Base(b) /\ Ready(b)
  BY <1>2, BufferSize DEF Base, Ready
<1>6. b.err = "none"
  BY <1>2
<1> QED BY <1>4, <1>5, <1>6 DEF Sound, b

LEMMA NewFileSound ==
    ASSUME NEW b, Sound(b), b.err = "none", NEW f \in Files, b.opened < MaxOpens
    PROVE  Sound(ii_newfile(b, f))
<1> DEFINE m == ii_newfile(b, f)
<1>1. /\ END \in 0..END /\ b.opened + 1 \in 1..MaxOpens
      /\ f \in Seq(Chars) /\ Len(f) \in Nat /\ <<>> \in Seq(Chars)
  <2>1. b.opened \in 1..MaxOpens
    BY DEF Sound, Typed, InputState
  <2>2. b.opened + 1 \in 1..MaxOpens
    BY <2>1, ClientAssumption
  <2>3. END \in 0..END
    BY BufferSize
  <2>4. f \in Seq(Chars)
    BY CharAssumption
  <2> QED BY <2>2, <2>3, <2>4
<1> DEFINE g == [b EXCEPT !.file = f, !.rd = 0, !.text = <<>>, !.opened = b.opened + 1,
                          !.eof = FALSE]
<1>2. g \in InputState /\ g.called = b.called
  BY <1>1 DEF Sound, Typed, InputState
<1>3. m = [g EXCEPT !.next = END, !.sMark = END, !.pMark = END, !.eMark = END,
                    !.end = END, !.line = 1, !.mline = 1]
  BY DEF ii_newfile, Sound, Typed, InputState
<1>4. /\ m.next = END /\ m.sMark = END /\ m.pMark = END /\ m.eMark = END /\ m.end = END
      /\ ~m.eof /\ m.text = <<>> /\ m.rd = 0 /\ m.file = f
  BY <1>2, <1>3 DEF InputState
<1> HIDE DEF g, m
<1>5. m \in InputState
  <2> DEFINE h == [g EXCEPT !.next = END, !.sMark = END, !.pMark = END, !.eMark = END,
                            !.end = END]
  <2>1. h \in InputState
    BY <1>1, <1>2 DEF InputState
  <2>2. m = [h EXCEPT !.line = 1, !.mline = 1]
    BY <1>3
  <2> HIDE DEF h
  <2>3. ASSUME NEW n \in Int, n = 1 PROVE m \in InputState
    <3>1. m = [h EXCEPT !.line = n, !.mline = n]
      BY <2>2, <2>3
    <3> QED BY <2>1, <3>1 DEF InputState
  <2>4. 1 \in Int
    OBVIOUS
  <2> QED BY <2>3, <2>4
<1>6. Typed(m)
  BY <1>1, <1>4, <1>5 DEF Typed
<1>7. Base(m) /\ Ready(m)
  BY <1>4, BufferSize DEF Base, Ready
<1> QED BY <1>6, <1>7 DEF Sound, m

\* A pushback stops at the start of the lexeme and takes the end of the lexeme along.
LEMMA PushbackSound ==
    ASSUME NEW b, Sound(b), b.err = "none", NEW n \in Nat
    PROVE  LET m == ii_pushback(b, n).b
           IN  Sound(m) /\ m.text = b.text /\ m.err = "none"
<1> DEFINE to == b.next - Pushed(b, n)
           newlines == {i \in to..b.next - 1 : b.buf[i] = NL}
           ln == b.line - Cardinality(newlines)
           back == [b EXCEPT !.next = to, !.line = ln]
           m == ii_pushback(b, n).b
<1>0. /\ b.end \in 0..BUFSIZE /\ b.next \in 0..BUFSIZE /\ b.sMark \in 0..BUFSIZE
      /\ b.eMark \in 0..BUFSIZE /\ b.pMark \in -1..BUFSIZE /\ b.line \in Int
      /\ b.sMark <= b.eMark /\ b.eMark <= b.next /\ b.next <= b.end
  BY FieldTypes DEF Sound, Base
<1>1. to \in b.sMark..b.next /\ to \in 0..END
  BY <1>0, BufferSize DEF Pushed
<1> HIDE DEF to
<1>2. ln \in Int
  <2>1. IsFiniteSet(to..b.next - 1)
    BY <1>0, <1>1, FS_Interval
  <2>2. IsFiniteSet(newlines)
    BY <2>1, FS_Subset
  <2>3. Cardinality(newlines) \in Nat
    BY <2>2, FS_CardinalityType
  <2> HIDE DEF newlines
  <2> QED BY <1>0, <2>3
<1> HIDE DEF ln
<1>3. m = IF to < b.eMark THEN [back EXCEPT !.eMark = to, !.mline = ln] ELSE back
  BY DEF ii_pushback, to, ln
<1>4. /\ m.next = to /\ m.end = b.end /\ m.sMark = b.sMark /\ m.pMark = b.pMark
      /\ m.eMark = (IF to < b.eMark THEN to ELSE b.eMark)
      /\ m.eof = b.eof /\ m.called = b.called /\ m.text = b.text /\ m.err = b.err
  BY <1>3 DEF Sound, Typed, InputState
<1>5. Typed(m)
  <2>1. Typed(back)
    BY <1>1, <1>2 DEF Sound, Typed, InputState
  <2> HIDE DEF back, m
  <2>2. CASE to < b.eMark
    BY <1>1, <1>2, <1>3, <2>1, <2>2 DEF Typed, InputState
  <2>3. CASE ~(to < b.eMark)
    BY <1>3, <2>1, <2>3
  <2> QED BY <2>2, <2>3
<1> HIDE DEF m
<1>6. Base(m)
  BY <1>0, <1>1, <1>4 DEF Sound, Base
<1>7. Ready(m)
  BY <1>0, <1>1, <1>4, BufferSize, SMTT(30) DEF Sound, Ready
<1> QED BY <1>4, <1>5, <1>6, <1>7 DEF Sound, m

-----------------------------------------------------------------------------
(* The lexeme as a C string *)

\* Once something is loaded there is a place for the terminator.
LEMMA RoomForTerminator ==
    ASSUME NEW b, Sound(b), b.err = "none", b.text # <<>>
    PROVE  b.next \in 0..BUFSIZE-1
BY FieldTypes, BufferSize DEF Sound, Base, Ready

Written(b, buf, t) == [b EXCEPT !.buf = buf, !.term = t]

\* Only the buffer and Termchar change when the terminator is stored or removed.
LEMMA BufferWriteSound ==
    ASSUME NEW b, Sound(b), b.err = "none",
           NEW buf \in [0..BUFSIZE-1 -> Chars \union {NUL}], NEW t \in Chars \union {NUL}
    PROVE  LET m == Written(b, buf, t)
           IN  Sound(m) /\ m.text = b.text /\ m.err = "none"
<1> DEFINE m == Written(b, buf, t)
<1>1. /\ m.next = b.next /\ m.end = b.end /\ m.sMark = b.sMark /\ m.eMark = b.eMark
      /\ m.pMark = b.pMark /\ m.eof = b.eof /\ m.text = b.text /\ m.err = b.err
      /\ m.called = b.called
  BY DEF Written, Sound, Typed, InputState
<1>2. Typed(m)
  BY DEF Written, Sound, Typed, InputState
<1> HIDE DEF m
<1>3. Base(m) /\ Ready(m)
  BY <1>1 DEF Sound, Base, Ready
<1> QED BY <1>1, <1>2, <1>3 DEF Sound, m

LEMMA TermSound ==
    ASSUME NEW b, Sound(b), b.err = "none", b.text # <<>>
    PROVE  LET m == ii_term(b)
           IN  Sound(m) /\ m.text = b.text /\ m.err = "none"
<1> DEFINE buf == [b.buf EXCEPT ![b.next] = NUL]
           t == b.buf[b.next]
<1>1. b.buf \in [0..BUFSIZE-1 -> Chars \union {NUL}] /\ b.next \in 0..BUFSIZE-1
  BY FieldTypes, RoomForTerminator DEF Sound
<1>2. buf \in [0..BUFSIZE-1 -> Chars \union {NUL}] /\ t \in Chars \union {NUL}
  BY <1>1, Zenon
<1> HIDE DEF buf, t
<1>3. ii_term(b) = Written(b, buf, t)
  BY DEF Written, ii_term, buf, t, Sound, Typed, InputState
<1> QED BY <1>2, <1>3, BufferWriteSound

LEMMA UntermSound ==
    ASSUME NEW b, Sound(b), b.err = "none"
    PROVE  LET m == ii_unterm(b)
           IN  Sound(m) /\ m.text = b.text /\ m.err = "none"
<1>1. CASE b.term = NUL
  BY <1>1 DEF ii_unterm
<1>2. CASE b.term # NUL
  <2> DEFINE buf == [b.buf EXCEPT ![b.next] = b.term]
  <2>1. /\ b.buf \in [0..BUFSIZE-1 -> Chars \union {NUL}]
        /\ b.term \in Chars \union {NUL} /\ NUL \in Chars \union {NUL}
    BY FieldTypes DEF Sound
  <2>2. buf \in [0..BUFSIZE-1 -> Chars \union {NUL}]
    BY <2>1, Zenon
  <2> HIDE DEF buf
  <2>3. ii_unterm(b) = Written(b, buf, NUL)
    BY <1>2 DEF Written, ii_unterm, buf, Sound, Typed, InputState
  <2> QED BY <2>1, <2>2, <2>3, BufferWriteSound
<1> QED BY <1>1, <1>2

LEMMA RewrapSound ==
    ASSUME NEW b, NEW c, Sound(c), c.err = "none", c.text # <<>>
    PROVE  LET m == Rewrap(b, c)
           IN  Sound(m) /\ m.text = c.text /\ m.err = "none"
BY TermSound DEF Rewrap

LEMMA InputSound ==
    ASSUME NEW b, Sound(b), b.err = "none", b.text # <<>>,
           NEW got \in AdvanceReads(ii_unterm(b))
    PROVE  LET m == ii_input(b, got).b
           IN  Sound(m) /\ (m.err = "none" => m.text # <<>>)
<1> DEFINE u == ii_unterm(b)
           adv == ii_advance(u, got)
           m == ii_input(b, got).b
<1>1. Sound(u) /\ u.text # <<>> /\ u.err = "none"
  BY UntermSound
<1> HIDE DEF u
<1>2. Sound(adv.b) /\ (adv.b.err = "none" => adv.b.text # <<>>)
  BY <1>1, AdvanceSound DEF u
<1>3. CASE adv.b.err # "none"
  <2>1. m = adv.b
    BY <1>3 DEF ii_input, u
  <2> HIDE DEF m, adv
  <2> QED BY <1>2, <1>3, <2>1 DEF m
<1>4. CASE adv.b.err = "none"
  <2> DEFINE e == ii_mark_end(adv.b)
  <2>1. Sound(e) /\ e.err = "none" /\ e.text # <<>>
    BY <1>2, <1>4, MarkEndSound
  <2>2. m = Rewrap(b, e)
    BY <1>4 DEF ii_input, u
  <2> HIDE DEF e, m
  <2> QED BY <2>1, <2>2, RewrapSound DEF m
<1> QED BY <1>3, <1>4

LEMMA OverwriteSound ==
    ASSUME NEW b, Sound(b), b.err = "none", b.text # <<>>, NEW c \in Chars
    PROVE  LET m == Overwrite(b, c)
           IN  Sound(m) /\ m.text # <<>> /\ m.err = "none"
<1> DEFINE m == Overwrite(b, c)
           k == Len(b.text) - (b.end - b.next) + 1
           buf == [b.buf EXCEPT ![b.next] = c]
           text == [b.text EXCEPT ![k] = c]
<1>1. b.buf \in [0..BUFSIZE-1 -> Chars \union {NUL}] /\ b.text \in Seq(Chars)
  BY FieldTypes DEF Sound
<1>2. buf \in [0..BUFSIZE-1 -> Chars \union {NUL}]
  BY <1>1, Zenon
<1> HIDE DEF k
<1>3. text \in Seq(Chars) /\ text # <<>>
  <2>1. CASE k \in 1..Len(b.text)
    <3>1. text \in Seq(Chars) /\ Len(text) = Len(b.text)
      BY <1>1, <2>1, ExceptSeq
    <3>2. Len(b.text) # 0
      BY <1>1, EmptySeq
    <3> QED BY <3>1, <3>2, EmptySeq
  <2>2. CASE k \notin 1..Len(b.text)
    <3>1. DOMAIN b.text = 1..Len(b.text)
      BY <1>1, LenProperties
    <3>2. text = b.text
      BY <1>1, <2>2, <3>1
    <3> QED BY <1>1, <3>2
  <2> QED BY <2>1, <2>2
<1> HIDE DEF buf, text
<1>4. m = [b EXCEPT !.buf = buf, !.text = text]
  BY DEF Overwrite, buf, text, k, Sound, Typed, InputState
<1>5. /\ m.next = b.next /\ m.end = b.end /\ m.sMark = b.sMark /\ m.eMark = b.eMark
      /\ m.pMark = b.pMark /\ m.eof = b.eof /\ m.text = text /\ m.err = b.err
      /\ m.called = b.called
  BY <1>4 DEF Sound, Typed, InputState
<1> HIDE DEF m
<1>6. Typed(m)
  BY <1>2, <1>3, <1>4 DEF Sound, Typed, InputState
<1>7. Base(m) /\ Ready(m)
  BY <1>5, <1>3 DEF Sound, Base, Ready
<1> QED BY <1>3, <1>5, <1>6, <1>7 DEF Sound, m

LEMMA UnputSound ==
    ASSUME NEW b, Sound(b), b.err = "none", b.text # <<>>, NEW c \in Chars
    PROVE  LET m == ii_unput(b, c)
           IN  Sound(m) /\ m.text # <<>> /\ m.err = "none"
<1> DEFINE u == ii_unterm(b)
           back == ii_pushback(u, 1)
           d == IF back.ret THEN Overwrite(back.b, c) ELSE back.b
<1>1. Sound(u) /\ u.text # <<>> /\ u.err = "none"
  BY UntermSound
<1> HIDE DEF u
<1>3. Sound(back.b) /\ back.b.text # <<>> /\ back.b.err = "none"
  BY <1>1, PushbackSound
<1> HIDE DEF back
<1>4. Sound(d) /\ d.text # <<>> /\ d.err = "none"
  BY <1>3, OverwriteSound
<1> HIDE DEF d
<1>5. ii_unput(b, c) = Rewrap(b, d)
  BY DEF ii_unput, d, back, u
<1> QED BY <1>4, <1>5, RewrapSound

LEMMA FlushBufSound ==
    ASSUME NEW b, Sound(b), b.err = "none", b.text # <<>>,
           NEW got \in FlushReads(ii_unterm(b), TRUE)
    PROVE  LET m == ii_flushbuf(b, got).b
           IN  Sound(m) /\ (m.err = "none" => m.text # <<>>)
<1> DEFINE u == ii_unterm(b)
           r == ii_flush(u, TRUE, got)
<1>1. Sound(u) /\ u.text # <<>> /\ u.err = "none"
  BY UntermSound
<1> HIDE DEF u
<1>2. u.called
  BY <1>1, FieldTypes DEF Sound, Base
<1>3. Sound(r.b) /\ (r.b.err = "none" => r.b.text # <<>>)
  BY <1>1, <1>2, ForceFlushSound DEF u
<1>4. ii_flushbuf(b, got) = r
  BY DEF ii_flushbuf, u
<1> HIDE DEF r
<1> QED BY <1>3, <1>4

-----------------------------------------------------------------------------
(* The theorems *)

LEMMA InitIInv == Init => IInv
<1> SUFFICES ASSUME Init PROVE IInv
  OBVIOUS
<1>1. PICK f \in Files : ib = Statics(f)
  BY DEF Init
<1>2. Sound(ib)
  BY <1>1, StaticsSound
<1>3. ~failed /\ ~inAction /\ failed \in BOOLEAN /\ inAction \in BOOLEAN
  BY DEF Init
<1>4. unputs \in 0..MaxUnputs
  BY ClientAssumption DEF Init
<1> QED BY <1>2, <1>3, <1>4 DEF IInv, RefusedOnlyWhenFull

\* What a call that is no ii_advance() has to keep.
LEMMA CallKeepsIInv ==
    ASSUME IInv, failed' = FALSE, inAction' \in BOOLEAN, unputs' \in 0..MaxUnputs,
           Sound(ib'), ib'.err = "none" /\ inAction' => ib'.text # <<>>
    PROVE  IInv'
BY DEF IInv, RefusedOnlyWhenFull, Loaded

LEMMA StepIInv == IInv /\ [Next]_vars => IInv'
<1> SUFFICES ASSUME IInv, [Next]_vars PROVE IInv'
  OBVIOUS
<1>0. /\ Sound(ib) /\ inAction \in BOOLEAN /\ unputs \in 0..MaxUnputs
      /\ ib.err = "none" /\ inAction => ib.text # <<>>
      /\ failed => ib.called
  BY DEF IInv, Loaded
<1>1. ASSUME NEW f \in Files, NewFile(f) PROVE IInv'
  <2>1. ib.err = "none" /\ ~inAction /\ ib.opened < MaxOpens
        /\ ib' = ii_newfile(ib, f) /\ failed' = FALSE /\ inAction' = inAction /\ unputs' = unputs
    BY <1>1 DEF NewFile, Scanning, Becomes
  <2>2. Sound(ib')
    BY <1>0, <2>1, NewFileSound
  <2> QED BY <1>0, <2>1, <2>2, CallKeepsIInv
<1>2. ASSUME Advance PROVE IInv'
  <2>1. PICK got \in AdvanceReads(ib) :
          /\ ib' = ii_advance(ib, got).b
          /\ failed' = (ii_advance(ib, got).ret = -1 /\ ii_advance(ib, got).b.err = "none")
    BY <1>2 DEF Advance
  <2>2. ib.err = "none" /\ ~inAction /\ inAction' = inAction /\ unputs' = unputs
    BY <1>2 DEF Advance, Scanning
  <2>3. /\ Sound(ib')
        /\ failed' => ib'.called /\ ib'.next - LeftEdge(ib') >= MAXLEX
    BY <1>0, <2>1, <2>2, AdvanceSound
  <2>4. failed' \in BOOLEAN
    BY <2>1
  <2>5. RefusedOnlyWhenFull'
    BY <2>3 DEF RefusedOnlyWhenFull, LeftEdge
  <2> QED BY <1>0, <2>2, <2>3, <2>4, <2>5 DEF IInv
<1>3. ASSUME ForceFlush PROVE IInv'
  <2>1. PICK got \in FlushReads(ib, TRUE) : ib' = ii_flush(ib, TRUE, got).b
    BY <1>3 DEF ForceFlush, Becomes
  <2>2. /\ ib.err = "none" /\ ~inAction /\ failed
        /\ failed' = FALSE /\ inAction' = inAction /\ unputs' = unputs
    BY <1>3 DEF ForceFlush, Scanning, Becomes
  <2>3. Sound(ib')
    BY <1>0, <2>1, <2>2, ForceFlushSound
  <2> QED BY <1>0, <2>2, <2>3, CallKeepsIInv
<1>4. ASSUME NEW n \in 1..MaxBack, Pushback(n) PROVE IInv'
  <2>1. ib.err = "none" /\ ~inAction /\ ib' = ii_pushback(ib, n).b
        /\ failed' = FALSE /\ inAction' = inAction /\ unputs' = unputs
    BY <1>4 DEF Pushback, Scanning, Becomes
  <2>2. n \in Nat
    BY ClientAssumption
  <2>3. Sound(ib')
    BY <1>0, <2>1, <2>2, PushbackSound
  <2> QED BY <1>0, <2>1, <2>3, CallKeepsIInv
<1>5. ASSUME NEW n \in 1..MaxBack, Less(n) PROVE IInv'
  <2> DEFINE u == ii_unterm(ib)
             p == ii_pushback(u, n).b
  <2>1. ib.err = "none" /\ inAction /\ ib' = ii_term(p)
        /\ failed' = FALSE /\ inAction' = inAction /\ unputs' = unputs
    BY <1>5 DEF Less, Acting, Becomes
  <2>2. n \in Nat
    BY ClientAssumption
  <2>3. Sound(u) /\ u.err = "none" /\ u.text # <<>>
    BY <1>0, <2>1, UntermSound
  <2> HIDE DEF u
  <2>4. Sound(p) /\ p.err = "none" /\ p.text # <<>>
    BY <2>2, <2>3, PushbackSound
  <2> HIDE DEF p
  <2>5. Sound(ib') /\ ib'.text # <<>>
    BY <2>1, <2>4, TermSound
  <2> QED BY <1>0, <2>1, <2>5, CallKeepsIInv
<1>6. ASSUME MarkStart \/ MarkEnd \/ MoveStart \/ ToMark \/ MarkPrev PROVE IInv'
  <2>1. /\ ib.err = "none" /\ ~inAction
        /\ failed' = FALSE /\ inAction' = inAction /\ unputs' = unputs
        /\ \/ ib' = ii_mark_start(ib) \/ ib' = ii_mark_end(ib) \/ ib' = ii_move_start(ib)
           \/ ib' = ii_to_mark(ib) \/ ib' = ii_mark_prev(ib)
    BY <1>6 DEF MarkStart, MarkEnd, MoveStart, ToMark, MarkPrev, Scanning, Becomes
  <2>2. Sound(ib')
    BY <1>0, <2>1, MarkStartSound, MarkEndSound, MoveStartSound, ToMarkSound, MarkPrevSound
  <2> QED BY <1>0, <2>1, <2>2, CallKeepsIInv
<1>7. ASSUME Term PROVE IInv'
  <2>1. /\ ib.err = "none" /\ ib.text # <<>> /\ ib' = ii_term(ib)
        /\ failed' = FALSE /\ inAction' = TRUE /\ unputs' = unputs
    BY <1>7 DEF Term, Scanning, Loaded
  <2>2. Sound(ib') /\ ib'.text # <<>>
    BY <1>0, <2>1, TermSound
  <2> QED BY <1>0, <2>1, <2>2, CallKeepsIInv
<1>8. ASSUME Unterm PROVE IInv'
  <2>1. /\ ib.err = "none" /\ ib' = ii_unterm(ib)
        /\ failed' = FALSE /\ inAction' = FALSE /\ unputs' = unputs
    BY <1>8 DEF Unterm
  <2>2. Sound(ib')
    BY <1>0, <2>1, UntermSound
  <2> QED BY <1>0, <2>1, <2>2, CallKeepsIInv
<1>9. ASSUME Input PROVE IInv'
  <2>1. PICK got \in AdvanceReads(ii_unterm(ib)) : ib' = ii_input(ib, got).b
    BY <1>9 DEF Input, Becomes
  <2>2. /\ ib.err = "none" /\ inAction
        /\ failed' = FALSE /\ inAction' = inAction /\ unputs' = unputs
    BY <1>9 DEF Input, Acting, Becomes
  <2>3. Sound(ib') /\ (ib'.err = "none" => ib'.text # <<>>)
    BY <1>0, <2>1, <2>2, InputSound
  <2> QED BY <1>0, <2>2, <2>3, CallKeepsIInv
<1>10. ASSUME NEW c \in UnputChars, Unput(c) PROVE IInv'
  <2>1. /\ ib.err = "none" /\ inAction /\ ib' = ii_unput(ib, c) /\ unputs < MaxUnputs
        /\ failed' = FALSE /\ inAction' = inAction /\ unputs' = unputs + 1
    BY <1>10 DEF Unput, Acting
  <2>2. c \in Chars /\ unputs + 1 \in 0..MaxUnputs
    BY <1>0, <2>1, ClientAssumption
  <2>3. Sound(ib') /\ ib'.text # <<>>
    BY <1>0, <2>1, <2>2, UnputSound
  <2> QED BY <1>0, <2>1, <2>2, <2>3, CallKeepsIInv
<1>11. ASSUME FlushBuf PROVE IInv'
  <2>1. PICK got \in FlushReads(ii_unterm(ib), TRUE) : ib' = ii_flushbuf(ib, got).b
    BY <1>11 DEF FlushBuf, Becomes
  <2>2. /\ ib.err = "none" /\ inAction
        /\ failed' = FALSE /\ inAction' = inAction /\ unputs' = unputs
    BY <1>11 DEF FlushBuf, Acting, Becomes
  <2>3. Sound(ib') /\ (ib'.err = "none" => ib'.text # <<>>)
    BY <1>0, <2>1, <2>2, FlushBufSound
  <2> QED BY <1>0, <2>2, <2>3, CallKeepsIInv
<1>12. CASE UNCHANGED vars
  BY <1>12 DEF vars, IInv, RefusedOnlyWhenFull, Loaded, LeftEdge
<1> QED BY <1>1, <1>2, <1>3, <1>4, <1>5, <1>6, <1>7, <1>8, <1>9, <1>10, <1>11, <1>12 DEF Next

\* Whatever calls a lexer makes, in whatever order, with reads of whatever size, the
\* pointers of the input system stay a consistent description of the buffer.
THEOREM InputInvariant == Spec => []IInv
BY InitIInv, StepIInv, PTL DEF Spec

\* Every variable of input.c keeps its type; in particular no pointer leaves Start_buf.
THEOREM InputTypes == Spec => []TypeOK
<1>1. IInv => TypeOK
  <2> SUFFICES ASSUME IInv PROVE TypeOK
    OBVIOUS
  <2>1. ib \in InputState /\ ib.rd <= Len(ib.file)
    BY DEF IInv, Sound, Typed
  <2>2. /\ ib.buf \in [0..BUFSIZE-1 -> Chars \union {NUL}]
        /\ {ib.end, ib.next, ib.sMark, ib.eMark} \subseteq 0..END
        /\ ib.pMark \in {NULL} \union 0..END
        /\ {ib.line, ib.mline, ib.pLineno, ib.pLength} \subseteq Int
        /\ ib.term \in Chars \union {NUL}
        /\ ib.eof \in BOOLEAN /\ ib.called \in BOOLEAN
        /\ ib.file \in Seq(Chars) /\ ib.text \in Seq(Chars) /\ ib.rd \in Nat
        /\ ib.opened \in 1..MaxOpens /\ ib.err \in {"none", "full", "read"}
    BY <2>1 DEF InputState
  <2>3. Len(ib.file) \in Nat
    BY <2>2
  <2>4. ib.rd \in 0..Len(ib.file)
    BY <2>1, <2>2, <2>3
  <2>5. unputs \in 0..MaxUnputs /\ inAction \in BOOLEAN /\ failed \in BOOLEAN
    BY DEF IInv
  <2> QED BY <2>2, <2>4, <2>5, Zenon DEF TypeOK
<1> QED BY <1>1, InputInvariant, PTL

\* The lexemes and the next character keep their order through every shift.
THEOREM PointersStayOrdered == Spec => []PointersOrdered
<1>1. IInv => PointersOrdered
  BY DEF IInv, Sound, Base, PointersOrdered
<1> QED BY <1>1, InputInvariant, PTL

\* In mid-file MAXLOOK characters can be looked at, and the terminator that ii_term()
\* writes is inside the buffer.
THEOREM LookaheadIsReady == Spec => []LookaheadReady
<1>1. IInv => LookaheadReady
  BY RoomForTerminator, BufferSize DEF IInv, Sound, Ready, Loaded, LookaheadReady
<1> QED BY <1>1, InputInvariant, PTL

\* ii_advance() gives up only with MAXLEX characters or more kept for the lexemes.
THEOREM RefusalMeansFull == Spec => []RefusedOnlyWhenFull
<1>1. IInv => RefusedOnlyWhenFull
  BY DEF IInv
<1> QED BY <1>1, InputInvariant, PTL

-----------------------------------------------------------------------------
(* The text: Window and LinesAgree say nothing of a state in                 *)
(* which the text held back would be longer than the text read, nor of the   *)
(* terminator of a lexeme that is no longer one; both have to be excluded.   *)

Pos(b, p) == Len(b.text) - (b.end - p)

At(b, i) == IF b.term # NUL /\ i = b.next THEN b.term ELSE b.buf[i]

NewlinesBefore(b, n) == Cardinality({i \in 1..n : b.text[i] = NL})

\* The number of the first line: 0 with the newline of the first ii_advance() in front.
FirstLine(b) == IF Len(b.text) > b.rd THEN 0 ELSE 1

Shows(b) == \A i \in LeftEdge(b)..b.end-1 : At(b, i) = b.text[Pos(b, i) + 1]

Counted(b) == /\ b.line = FirstLine(b) + NewlinesBefore(b, Pos(b, b.next))
              /\ b.mline = FirstLine(b) + NewlinesBefore(b, Pos(b, b.eMark))

Faithful(b) == /\ b.end - LeftEdge(b) <= Len(b.text)
               /\ Len(b.text) \in {b.rd, b.rd + 1}
               /\ Shows(b) /\ Counted(b)

TextInv == ib.err = "none" => Faithful(ib) /\ (ib.term # NUL => inAction)

-----------------------------------------------------------------------------
LEMMA EdgeFacts ==
    ASSUME NEW b, Typed(b), Base(b)
    PROVE  /\ LeftEdge(b) \in 0..BUFSIZE /\ LeftEdge(b) <= b.sMark
           /\ b.sMark <= b.eMark /\ b.eMark <= b.next /\ b.next <= b.end /\ b.end <= BUFSIZE
           /\ b.end \in Nat /\ b.next \in Nat /\ b.sMark \in Nat /\ b.eMark \in Nat
           /\ b.pMark # NULL => LeftEdge(b) = b.pMark /\ b.pMark \in Nat /\ b.pMark <= b.sMark
           /\ b.pMark = NULL => LeftEdge(b) = b.sMark
           /\ Len(b.text) \in Nat /\ BUFSIZE \in Nat
BY FieldTypes, BufferSize DEF Base, LeftEdge, NULL

\* The places of the window are places of the text.
LEMMA PositionFacts ==
    ASSUME NEW b, Typed(b), Base(b), Faithful(b), NEW p \in LeftEdge(b)..b.end
    PROVE  Pos(b, p) \in 0..Len(b.text) /\ (p < b.end => Pos(b, p) + 1 \in 1..Len(b.text))
<1>1. b.end - LeftEdge(b) <= Len(b.text)
  BY DEF Faithful
<1> DEFINE e == LeftEdge(b)
           l == Len(b.text)
<1>2. e \in Nat /\ l \in Nat /\ b.end \in Nat /\ e <= p /\ p <= b.end /\ p \in Int
      /\ b.end - e <= l
  BY <1>1, EdgeFacts
<1> HIDE DEF e, l
<1>3. l - (b.end - p) \in 0..l /\ (p < b.end => l - (b.end - p) + 1 \in 1..l)
  BY <1>2
<1> QED BY <1>3 DEF Pos, l

\* Places and positions are the same distances apart.
LEMMA PositionSteps ==
    ASSUME NEW b, Typed(b), NEW i \in Int, NEW j \in Int
    PROVE  Pos(b, i) \in Int /\ Pos(b, j) = Pos(b, i) + (j - i)
<1> DEFINE l == Len(b.text)
           e == b.end
<1>1. l \in Int /\ e \in Int
  BY FieldTypes, BufferSize
<1> HIDE DEF l, e
<1>2. l - (e - i) \in Int /\ l - (e - j) = (l - (e - i)) + (j - i)
  BY <1>1
<1> QED BY <1>2 DEF Pos, l, e

LEMMA CountFinite ==
    ASSUME NEW b, NEW n \in Nat
    PROVE  NewlinesBefore(b, n) \in Nat /\ IsFiniteSet({i \in 1..n : b.text[i] = NL})
<1>1. IsFiniteSet(1..n)
  BY FS_Interval
<1>2. IsFiniteSet({i \in 1..n : b.text[i] = NL})
  BY <1>1, FS_Subset
<1> QED BY <1>2, FS_CardinalityType DEF NewlinesBefore

\* One more character is one more newline, or it is not.
LEMMA CountNext ==
    ASSUME NEW b, NEW n \in Nat
    PROVE  NewlinesBefore(b, n + 1)
             = NewlinesBefore(b, n) + (IF b.text[n + 1] = NL THEN 1 ELSE 0)
<1> DEFINE S == {i \in 1..n : b.text[i] = NL}
           T == {i \in 1..n+1 : b.text[i] = NL}
<1>1. IsFiniteSet(S) /\ NewlinesBefore(b, n) = Cardinality(S)
      /\ NewlinesBefore(b, n + 1) = Cardinality(T) /\ NewlinesBefore(b, n) \in Nat
  BY CountFinite DEF NewlinesBefore
<1>2. \A i \in Int : i \in 1..n+1 <=> i \in 1..n \/ i = n + 1
  OBVIOUS
<1>3. CASE b.text[n + 1] = NL
  <2>1. T = S \union {n + 1} /\ n + 1 \notin S
    BY <1>2, <1>3
  <2> HIDE DEF S, T
  <2> QED BY <1>1, <1>3, <2>1, FS_AddElement
<1>4. CASE b.text[n + 1] # NL
  <2>1. T = S
    BY <1>2, <1>4
  <2> HIDE DEF S, T
  <2> QED BY <1>1, <1>4, <2>1
<1> QED BY <1>3, <1>4

-----------------------------------------------------------------------------
(* Marks and pushbacks: the text stays where it is *)

LEMMA MovedFaithful ==
    ASSUME NEW b, Typed(b), Base(b), Faithful(b), b.term = NUL,
           NEW m, Typed(m), Base(m),
           m.text = b.text, m.end = b.end, m.rd = b.rd, m.buf = b.buf, m.term = NUL,
           LeftEdge(m) >= LeftEdge(b),
           m.line = FirstLine(b) + NewlinesBefore(b, Pos(b, m.next)),
           m.mline = FirstLine(b) + NewlinesBefore(b, Pos(b, m.eMark))
    PROVE  Faithful(m)
<1>1. Shows(m)
  <2> SUFFICES ASSUME NEW i \in LeftEdge(m)..m.end-1
               PROVE  At(m, i) = m.text[Pos(m, i) + 1]
    BY DEF Shows
  <2>1. i \in LeftEdge(b)..b.end-1
    BY EdgeFacts
  <2>2. At(b, i) = b.text[Pos(b, i) + 1]
    BY <2>1 DEF Faithful, Shows
  <2> QED BY <2>2 DEF At, Pos
<1>2. Counted(m)
  BY DEF Counted, FirstLine, NewlinesBefore, Pos
<1>3. m.end - LeftEdge(m) <= Len(m.text) /\ Len(m.text) \in {m.rd, m.rd + 1}
  BY EdgeFacts DEF Faithful
<1> QED BY <1>1, <1>2, <1>3 DEF Faithful

LEMMA MarksFaithful ==
    ASSUME NEW b, Sound(b), b.err = "none", Faithful(b), b.term = NUL,
           NEW m, m \in {ii_mark_start(b), ii_mark_end(b), ii_move_start(b), ii_to_mark(b),
                         ii_mark_prev(b)}
    PROVE  Faithful(m) /\ m.term = NUL /\ m.rd = b.rd /\ m.file = b.file /\ m.opened = b.opened
           /\ m.eof = b.eof /\ m.err = "none"
<1>1. Typed(b) /\ Base(b)
  BY DEF Sound
<1>2. /\ m.term = NUL /\ m.rd = b.rd /\ m.text = b.text /\ m.end = b.end /\ m.buf = b.buf
      /\ m.file = b.file /\ m.opened = b.opened /\ m.eof = b.eof /\ m.err = "none"
  BY <1>1, ZenonT(60) DEF Typed, InputState, ii_mark_start, ii_mark_end, ii_move_start, ii_to_mark,
              ii_mark_prev
<1>3. Sound(m)
  BY MarkStartSound, MarkEndSound, MoveStartSound, ToMarkSound, MarkPrevSound
<1>4. /\ m.line = FirstLine(b) + NewlinesBefore(b, Pos(b, m.next))
      /\ m.mline = FirstLine(b) + NewlinesBefore(b, Pos(b, m.eMark))
  <2>1. \/ m.line = b.line /\ m.next = b.next
        \/ m.line = b.mline /\ m.next = b.eMark
    BY <1>1, ZenonT(60) DEF Typed, InputState, ii_mark_start, ii_mark_end, ii_move_start, ii_to_mark,
                ii_mark_prev
  <2>2. \/ m.mline = b.line /\ m.eMark = b.next
        \/ m.mline = b.mline /\ m.eMark = b.eMark
    BY <1>1 DEF Typed, InputState, ii_mark_start, ii_mark_end, ii_move_start, ii_to_mark,
                ii_mark_prev
  <2> QED BY <2>1, <2>2 DEF Faithful, Counted
<1>5. LeftEdge(m) >= LeftEdge(b)
  <2>1. \/ m.pMark = b.pMark /\ m.sMark \in {b.next, b.sMark, b.sMark + 1}
        \/ m.pMark = b.sMark
    BY <1>1 DEF Typed, InputState, ii_mark_start, ii_mark_end, ii_move_start, ii_to_mark,
                ii_mark_prev
  <2> QED BY <1>1, <2>1, EdgeFacts DEF LeftEdge, NULL
<1> QED BY <1>1, <1>2, <1>3, <1>4, <1>5, MovedFaithful DEF Sound

-----------------------------------------------------------------------------
(* Storing and removing the terminator *)

\* What ii_term() and ii_unterm() may do to the buffer: seen through the terminator, it
\* is as before.
LEMMA WrittenFaithful ==
    ASSUME NEW b, Typed(b), Base(b), Faithful(b),
           NEW buf \in [0..BUFSIZE-1 -> Chars \union {NUL}], NEW t \in Chars \union {NUL},
           \A i \in LeftEdge(b)..b.end-1 : At(Written(b, buf, t), i) = At(b, i)
    PROVE  LET m == Written(b, buf, t)
           IN  /\ Faithful(m) /\ m.term = t /\ m.buf = buf /\ LeftEdge(m) = LeftEdge(b)
               /\ m.text = b.text /\ m.rd = b.rd /\ m.file = b.file /\ m.opened = b.opened
               /\ m.end = b.end /\ m.next = b.next /\ m.sMark = b.sMark /\ m.pMark = b.pMark
               /\ m.eof = b.eof /\ m.err = b.err
<1> DEFINE m == Written(b, buf, t)
<1>1. /\ m.next = b.next /\ m.end = b.end /\ m.sMark = b.sMark /\ m.eMark = b.eMark
      /\ m.pMark = b.pMark /\ m.text = b.text /\ m.line = b.line /\ m.mline = b.mline
      /\ m.rd = b.rd /\ m.file = b.file /\ m.opened = b.opened /\ m.eof = b.eof
      /\ m.err = b.err /\ m.buf = buf /\ m.term = t
  BY DEF Written, Typed, InputState
<1> HIDE DEF m
<1>2. LeftEdge(m) = LeftEdge(b)
  BY <1>1 DEF LeftEdge
<1>3. Shows(m)
  BY <1>1, <1>2 DEF Shows, Faithful, Pos, m
<1>4. Counted(m)
  BY <1>1 DEF Counted, FirstLine, NewlinesBefore, Pos, Faithful
<1> QED BY <1>1, <1>2, <1>3, <1>4 DEF Faithful, m

LEMMA TermFaithful ==
    ASSUME NEW b, Sound(b), b.err = "none", b.text # <<>>, Faithful(b), b.term = NUL
    PROVE  LET m == ii_term(b)
           IN  /\ Faithful(m) /\ m.text = b.text /\ m.rd = b.rd /\ m.file = b.file
               /\ m.opened = b.opened /\ m.end = b.end /\ m.next = b.next
               /\ m.sMark = b.sMark /\ m.pMark = b.pMark /\ m.eof = b.eof /\ m.err = b.err
<1> DEFINE buf == [b.buf EXCEPT ![b.next] = NUL]
           t == b.buf[b.next]
<1>1. b.buf \in [0..BUFSIZE-1 -> Chars \union {NUL}] /\ b.next \in 0..BUFSIZE-1
  BY FieldTypes, RoomForTerminator DEF Sound
<1>2. buf \in [0..BUFSIZE-1 -> Chars \union {NUL}] /\ t \in Chars \union {NUL}
  BY <1>1, Zenon
<1>3. /\ buf[b.next] = NUL
      /\ \A i \in 0..BUFSIZE-1 : i # b.next => buf[i] = b.buf[i]
  BY <1>1
<1> HIDE DEF buf, t
<1>4. ii_term(b) = Written(b, buf, t)
  BY DEF Written, ii_term, buf, t, Sound, Typed, InputState
<1>5. Written(b, buf, t).term = t /\ Written(b, buf, t).buf = buf
      /\ Written(b, buf, t).next = b.next
  BY DEF Written, Sound, Typed, InputState
<1>6. ASSUME NEW i \in LeftEdge(b)..b.end-1
      PROVE  At(Written(b, buf, t), i) = At(b, i)
  <2>1. i \in 0..BUFSIZE-1 /\ At(b, i) = b.buf[i]
    BY EdgeFacts DEF Sound, At
  <2>2. CASE i = b.next
    BY <1>3, <1>5, <2>1, <2>2 DEF At, t
  <2>3. CASE i # b.next
    BY <1>3, <1>5, <2>1, <2>3 DEF At
  <2> QED BY <2>2, <2>3
<1> QED BY <1>2, <1>4, <1>6, WrittenFaithful DEF Sound

LEMMA UntermFaithful ==
    ASSUME NEW b, Sound(b), b.err = "none", Faithful(b)
    PROVE  LET m == ii_unterm(b)
           IN  /\ Faithful(m) /\ m.term = NUL /\ m.text = b.text /\ m.rd = b.rd
               /\ m.file = b.file /\ m.opened = b.opened /\ m.end = b.end /\ m.next = b.next
               /\ m.sMark = b.sMark /\ m.pMark = b.pMark /\ m.eof = b.eof /\ m.err = b.err
<1>1. CASE b.term = NUL
  BY <1>1 DEF ii_unterm
<1>2. CASE b.term # NUL
  <2> DEFINE buf == [b.buf EXCEPT ![b.next] = b.term]
             w == Written(b, buf, NUL)
  <2>1. /\ b.buf \in [0..BUFSIZE-1 -> Chars \union {NUL}] /\ b.next \in 0..BUFSIZE
        /\ b.term \in Chars \union {NUL} /\ NUL \in Chars \union {NUL}
    BY FieldTypes DEF Sound
  <2>2. buf \in [0..BUFSIZE-1 -> Chars \union {NUL}]
    BY <2>1, Zenon
  <2>3. \A i \in 0..BUFSIZE-1 : buf[i] = IF i = b.next THEN b.term ELSE b.buf[i]
    BY <2>1
  <2> HIDE DEF buf
  <2>4. ii_unterm(b) = w
    BY <1>2 DEF Written, ii_unterm, buf, Sound, Typed, InputState
  <2>5. w.term = NUL /\ w.buf = buf
    BY DEF Written, Sound, Typed, InputState
  <2> HIDE DEF w
  <2>6. ASSUME NEW i \in LeftEdge(b)..b.end-1
        PROVE  At(w, i) = At(b, i)
    <3>1. i \in 0..BUFSIZE-1
      BY EdgeFacts DEF Sound
    <3> QED BY <1>2, <2>3, <2>5, <3>1 DEF At
  <2> QED BY <2>1, <2>2, <2>4, <2>6, WrittenFaithful DEF Sound, w
<1> QED BY <1>1, <1>2

LEMMA RewrapFaithful ==
    ASSUME NEW b, NEW c, Sound(c), c.err = "none", c.text # <<>>, Faithful(c), c.term = NUL
    PROVE  LET m == Rewrap(b, c)
           IN  /\ Faithful(m) /\ m.text = c.text /\ m.rd = c.rd /\ m.file = c.file
               /\ m.opened = c.opened /\ m.end = c.end /\ m.next = c.next
               /\ m.sMark = c.sMark /\ m.pMark = c.pMark /\ m.eof = c.eof /\ m.err = c.err
               /\ m.term # NUL => b.term # NUL
BY TermFaithful DEF Rewrap

-----------------------------------------------------------------------------
(* Pushing back *)

\* The newlines between two places of the window are the newlines between the two
\* positions in the text.
LEMMA CountBack ==
    ASSUME NEW b, Typed(b), Base(b), Faithful(b), b.term = NUL,
           NEW lo \in LeftEdge(b)..b.next
    PROVE  NewlinesBefore(b, Pos(b, lo))
             = NewlinesBefore(b, Pos(b, b.next))
                 - Cardinality({i \in lo..b.next-1 : b.buf[i] = NL})
<1> DEFINE p == Pos(b, lo)
           q == Pos(b, b.next)
           D == {i \in lo..b.next-1 : b.buf[i] = NL}
           E == {j \in p+1..q : b.text[j] = NL}
           S == {j \in 1..p : b.text[j] = NL}
           T == {j \in 1..q : b.text[j] = NL}
<1>1. /\ lo \in Nat /\ b.next \in Nat /\ lo <= b.next /\ b.next <= b.end /\ b.end \in Nat
      /\ LeftEdge(b) \in Nat /\ LeftEdge(b) <= lo
  BY EdgeFacts
<1>2. /\ p \in Nat /\ q \in Nat /\ q - p = b.next - lo
      /\ \A i \in Int : Pos(b, i) = p + (i - lo)
  <2>1. p \in Nat /\ q \in Nat
    BY <1>1, PositionFacts, EdgeFacts
  <2>2. q = p + (b.next - lo) /\ \A i \in Int : Pos(b, i) = p + (i - lo)
    <3>1. lo \in Int /\ b.next \in Int
      BY <1>1
    <3>2. \A i \in Int : Pos(b, i) = p + (i - lo)
      BY <3>1, PositionSteps, Zenon
    <3> QED BY <3>1, <3>2
  <2> HIDE DEF p, q
  <2> QED BY <1>1, <2>1, <2>2
<1>3. \A i \in lo..b.next-1 : b.buf[i] = b.text[p + (i - lo) + 1]
  <2> SUFFICES ASSUME NEW i \in lo..b.next-1
               PROVE  b.buf[i] = b.text[p + (i - lo) + 1]
    OBVIOUS
  <2>1. i \in LeftEdge(b)..b.end-1 /\ i \in Int
    BY <1>1
  <2>2. At(b, i) = b.text[Pos(b, i) + 1]
    BY <2>1 DEF Faithful, Shows
  <2> QED BY <1>2, <2>1, <2>2 DEF At
<1> HIDE DEF p, q
<1>4. ExistsBijection(D, E)
  <2> DEFINE g == [i \in D |-> p + (i - lo) + 1]
  <2>1. g \in [D -> E]
    <3> SUFFICES ASSUME NEW i \in D PROVE p + (i - lo) + 1 \in E
      OBVIOUS
    <3> QED BY <1>1, <1>2, <1>3
  <2>2. \A i, j \in D : g[i] = g[j] => i = j
    BY <1>1, <1>2
  <2>3. \A j \in E : \E i \in D : g[i] = j
    <3> SUFFICES ASSUME NEW j \in E PROVE \E i \in D : g[i] = j
      OBVIOUS
    <3>1. lo + (j - p - 1) \in lo..b.next-1 /\ p + ((lo + (j - p - 1)) - lo) + 1 = j
      BY <1>1, <1>2
    <3>2. PICK at \in lo..b.next-1 : p + (at - lo) + 1 = j
      BY <3>1, Zenon
    <3>3. b.buf[at] = b.text[p + (at - lo) + 1]
      BY <1>3, <3>2
    <3>4. at \in D
      BY <3>2, <3>3
    <3> QED BY <3>2, <3>4
  <2> HIDE DEF g, D, E
  <2>4. g \in Bijection(D, E)
    BY <2>1, <2>2, <2>3, Fun_IsBij
  <2> QED BY <2>4 DEF ExistsBijection
<1>5. IsFiniteSet(D) /\ IsFiniteSet(S) /\ IsFiniteSet(E)
  <2>1. IsFiniteSet(lo..b.next-1) /\ IsFiniteSet(1..p) /\ IsFiniteSet(p+1..q)
    <3>1. lo \in Int /\ b.next-1 \in Int /\ 1 \in Int /\ p \in Int /\ p+1 \in Int /\ q \in Int
      BY <1>1, <1>2
    <3> QED BY <3>1, FS_Interval
  <2> QED BY <2>1, FS_Subset
<1>6. T = S \union E /\ S \cap E = {}
  <2>1. \A j \in Int : j \in 1..q <=> j \in 1..p \/ j \in p+1..q
    BY <1>1, <1>2
  <2>2. \A j \in Int : ~(j \in 1..p /\ j \in p+1..q)
    BY <1>2
  <2> QED BY <2>1, <2>2
<1> HIDE DEF D, E, S, T
<1>7. Cardinality(E) = Cardinality(D)
  BY <1>4, <1>5, FS_Bijection
<1>8. Cardinality(T) = Cardinality(S) + Cardinality(E)
  <2>1. Cardinality(T) = Cardinality(S) + Cardinality(E) - Cardinality({})
    BY <1>5, <1>6, FS_Union
  <2>2. Cardinality({}) = 0 /\ Cardinality(S) \in Nat /\ Cardinality(E) \in Nat
    BY <1>5, FS_EmptySet, FS_CardinalityType
  <2> QED BY <2>1, <2>2
<1>9. Cardinality(S) \in Nat /\ Cardinality(D) \in Nat
  BY <1>5, FS_CardinalityType
<1>10. Cardinality(S) = Cardinality(T) - Cardinality(D)
  BY <1>7, <1>8, <1>9
<1> QED BY <1>10 DEF NewlinesBefore, S, T, D, p, q

LEMMA PushbackFaithful ==
    ASSUME NEW b, Sound(b), b.err = "none", Faithful(b), b.term = NUL, NEW n \in Nat
    PROVE  LET m == ii_pushback(b, n).b
           IN  /\ Faithful(m) /\ m.term = NUL /\ m.rd = b.rd /\ m.file = b.file
               /\ m.opened = b.opened /\ m.eof = b.eof
               /\ ii_pushback(b, n).ret /\ n > 0 => m.next < m.end
<1> DEFINE to == b.next - Pushed(b, n)
           ln == b.line - Cardinality({i \in to..b.next - 1 : b.buf[i] = NL})
           back == [b EXCEPT !.next = to, !.line = ln]
           m == ii_pushback(b, n).b
<1>1. Typed(b) /\ Base(b) /\ Sound(m)
  BY PushbackSound DEF Sound
<1>2. to \in b.sMark..b.next /\ to \in LeftEdge(b)..b.next
  BY <1>1, EdgeFacts DEF Pushed
<1>3. ln = FirstLine(b) + NewlinesBefore(b, Pos(b, to))
  <2>1. b.line = FirstLine(b) + NewlinesBefore(b, Pos(b, b.next))
    BY DEF Faithful, Counted
  <2>2. NewlinesBefore(b, Pos(b, to))
          = NewlinesBefore(b, Pos(b, b.next))
              - Cardinality({i \in to..b.next-1 : b.buf[i] = NL})
    BY <1>1, <1>2, CountBack
  <2>3. Pos(b, b.next) \in Nat /\ FirstLine(b) \in Nat
    BY <1>1, EdgeFacts, PositionFacts DEF FirstLine
  <2>4. NewlinesBefore(b, Pos(b, b.next)) \in Nat
    BY <2>3, CountFinite
  <2>5. Cardinality({i \in to..b.next-1 : b.buf[i] = NL}) \in Nat
    <3>1. IsFiniteSet(to..b.next-1)
      <4>1. to \in Int /\ b.next-1 \in Int
        BY <1>1, <1>2, EdgeFacts
      <4> QED BY <4>1, FS_Interval
    <3>2. IsFiniteSet({i \in to..b.next-1 : b.buf[i] = NL})
      BY <3>1, FS_Subset
    <3> QED BY <3>2, FS_CardinalityType
  <2> QED BY <2>1, <2>2, <2>3, <2>4, <2>5
<1> HIDE DEF to, ln
<1>4. m = (IF to < b.eMark THEN [back EXCEPT !.eMark = to, !.mline = ln] ELSE back)
      /\ ii_pushback(b, n).ret = (to > b.sMark)
  BY DEF ii_pushback, to, ln
<1>5. /\ m.next = to /\ m.end = b.end /\ m.sMark = b.sMark /\ m.pMark = b.pMark
      /\ m.line = ln /\ m.text = b.text /\ m.rd = b.rd /\ m.buf = b.buf /\ m.term = b.term
      /\ m.file = b.file /\ m.opened = b.opened /\ m.eof = b.eof /\ m.err = b.err
      /\ \/ m.eMark = to /\ m.mline = ln
         \/ m.eMark = b.eMark /\ m.mline = b.mline
  BY <1>1, <1>4 DEF Typed, InputState
<1> HIDE DEF m, back
<1>6. LeftEdge(m) = LeftEdge(b)
  BY <1>5 DEF LeftEdge
<1>7. /\ m.line = FirstLine(b) + NewlinesBefore(b, Pos(b, m.next))
      /\ m.mline = FirstLine(b) + NewlinesBefore(b, Pos(b, m.eMark))
  BY <1>3, <1>5 DEF Faithful, Counted
<1>8. Typed(m) /\ Base(m)
  BY <1>1, <1>5 DEF Sound
<1>9. Faithful(m)
  BY <1>1, <1>5, <1>6, <1>7, <1>8, MovedFaithful, EdgeFacts
<1>10. ii_pushback(b, n).ret /\ n > 0 => m.next < m.end
  <2>1. to > b.sMark /\ n > 0 => to < b.next
    BY <1>1, EdgeFacts DEF to, Pushed
  <2>2. ii_pushback(b, n).ret => to > b.sMark
    BY <1>4
  <2>3. to \in Int /\ b.next <= b.end /\ b.next \in Int /\ b.end \in Int
    BY <1>1, <1>2, EdgeFacts
  <2>4. m.next = to /\ m.end = b.end
    BY <1>5
  <2> QED BY <2>1, <2>2, <2>3, <2>4
<1> QED BY <1>5, <1>9, <1>10 DEF m

\* ii_unput() writes the character into the buffer; the text changes with it.
LEMMA OverwriteFaithful ==
    ASSUME NEW b, Sound(b), b.err = "none", Faithful(b), b.term = NUL, b.next < b.end,
           NEW c \in Chars
    PROVE  LET m == Overwrite(b, c)
           IN  /\ Faithful(m) /\ m.term = NUL /\ m.rd = b.rd /\ m.file = b.file
               /\ m.opened = b.opened /\ m.eof = b.eof
<1> DEFINE m == Overwrite(b, c)
           k == Len(b.text) - (b.end - b.next) + 1
           buf == [b.buf EXCEPT ![b.next] = c]
           text == [b.text EXCEPT ![k] = c]
<1>1. Typed(b) /\ Base(b)
  BY DEF Sound
<1>2. b.buf \in [0..BUFSIZE-1 -> Chars \union {NUL}] /\ b.text \in Seq(Chars)
      /\ b.next \in LeftEdge(b)..b.end-1 /\ b.next \in 0..BUFSIZE-1
  BY <1>1, FieldTypes, EdgeFacts
<1>3. k \in 1..Len(b.text) /\ k = Pos(b, b.next) + 1
  <2>1. k = Pos(b, b.next) + 1
    BY DEF Pos
  <2> HIDE DEF k
  <2>2. b.next \in LeftEdge(b)..b.end
    BY <1>2, <1>1, EdgeFacts
  <2> QED BY <1>1, <2>1, <2>2, PositionFacts
<1> HIDE DEF k
<1>4. /\ buf[b.next] = c
      /\ \A i \in 0..BUFSIZE-1 : i # b.next => buf[i] = b.buf[i]
  BY <1>2
<1>5. /\ Len(text) = Len(b.text) /\ text[k] = c
      /\ \A i \in 1..Len(b.text) : i # k => text[i] = b.text[i]
  BY <1>2, <1>3, ExceptSeq
<1> HIDE DEF buf, text
<1>6. m = [b EXCEPT !.buf = buf, !.text = text]
  BY <1>1 DEF Overwrite, buf, text, k, Typed, InputState
<1>7. /\ m.next = b.next /\ m.end = b.end /\ m.sMark = b.sMark /\ m.eMark = b.eMark
      /\ m.pMark = b.pMark /\ m.buf = buf /\ m.text = text /\ m.rd = b.rd
      /\ m.line = b.line /\ m.mline = b.mline /\ m.term = b.term
      /\ m.file = b.file /\ m.opened = b.opened /\ m.eof = b.eof
  BY <1>1, <1>6 DEF Typed, InputState
<1> HIDE DEF m
<1>8. LeftEdge(m) = LeftEdge(b) /\ FirstLine(m) = FirstLine(b)
      /\ \A i : Pos(m, i) = Pos(b, i)
  BY <1>5, <1>7 DEF LeftEdge, FirstLine, Pos
<1>9. Shows(m)
  <2> SUFFICES ASSUME NEW i \in LeftEdge(b)..b.end-1
               PROVE  m.buf[i] = m.text[Pos(b, i) + 1]
    BY <1>7, <1>8 DEF Shows, At
  <2>1. b.buf[i] = b.text[Pos(b, i) + 1]
    BY DEF Faithful, Shows, At
  <2>2. i \in 0..BUFSIZE-1 /\ i \in Int /\ Pos(b, i) + 1 \in 1..Len(b.text)
    BY <1>1, EdgeFacts, PositionFacts, SMTT(30)
  <2>3. i # b.next => Pos(b, i) + 1 # k
    <3>1. b.next \in Int /\ i \in Int
      BY <1>1, <2>2, EdgeFacts
    <3>2. Pos(b, b.next) \in Int /\ Pos(b, i) = Pos(b, b.next) + (i - b.next)
      BY <1>1, <3>1, PositionSteps
    <3> QED BY <1>3, <2>2, <3>1, <3>2
  <2>4. CASE i = b.next
    BY <1>3, <1>4, <1>5, <1>7, <2>4
  <2>5. CASE i # b.next
    BY <1>4, <1>5, <1>7, <2>1, <2>2, <2>3, <2>5
  <2> QED BY <2>4, <2>5
<1>10. ASSUME NEW p \in LeftEdge(b)..b.next
       PROVE  NewlinesBefore(m, Pos(m, p)) = NewlinesBefore(b, Pos(b, p))
  <2>1. Pos(b, p) \in 0..Len(b.text) /\ Pos(b, p) < k
    <3>1. p \in LeftEdge(b)..b.end /\ p \in Int /\ b.next \in Int /\ p <= b.next
      BY <1>1, EdgeFacts
    <3>2. Pos(b, p) \in 0..Len(b.text)
      BY <1>1, <3>1, PositionFacts
    <3>3. Pos(b, b.next) \in Int /\ Pos(b, p) = Pos(b, b.next) + (p - b.next)
      BY <1>1, <3>1, PositionSteps
    <3> QED BY <1>3, <3>1, <3>2, <3>3
  <2>2. \A i \in 1..Pos(b, p) : m.text[i] = b.text[i]
    BY <1>3, <1>5, <1>7, <2>1
  <2>3. {i \in 1..Pos(b, p) : m.text[i] = NL} = {i \in 1..Pos(b, p) : b.text[i] = NL}
    BY <2>2
  <2> QED BY <1>8, <2>3 DEF NewlinesBefore
<1>11. b.next \in LeftEdge(b)..b.next /\ b.eMark \in LeftEdge(b)..b.next
  BY <1>1, EdgeFacts
<1>12. Counted(m)
  BY <1>7, <1>8, <1>10, <1>11 DEF Counted, Faithful
<1> QED BY <1>5, <1>7, <1>8, <1>9, <1>12 DEF Faithful, m

-----------------------------------------------------------------------------
(* Refilling the buffer *)

\* The text when got characters more have been read.
Appended(b, got) == b.text \o SubSeq(b.file, b.rd + 1, b.rd + got)

\* What Refill does to each field: with got characters they are appended to the text and
\* all pointers are shifted by left; without, or when read() fails, nothing is read.
LEMMA RefillFields ==
    ASSUME NEW b, Typed(b), b.err = "none", ~b.eof, b.called, Base(b),
           NEW left \in 0..END, left <= b.sMark, b.pMark # NULL => left <= b.pMark,
           NEW got \in ReadResults(b, Need(b.end - left))
    PROVE  LET r == Refill(b, left, got)
               copy == b.end - left
           IN  /\ r.file = b.file /\ r.opened = b.opened /\ r.term = b.term
               /\ r.err = "none" =>
                    /\ got > 0 /\ got <= Need(copy) /\ b.rd + got <= Len(b.file)
                    /\ r.end = copy + got /\ r.next = b.next - left
                    /\ r.sMark = b.sMark - left /\ r.eMark = b.eMark - left
                    /\ r.pMark = IF b.pMark # NULL THEN b.pMark - left ELSE b.pMark
                    /\ r.rd = b.rd + got /\ r.line = b.line /\ r.mline = b.mline
                    /\ r.text = Appended(b, got)
                    /\ r.eof = (got < Need(copy))
                    /\ \A i \in 0..BUFSIZE-1 :
                         r.buf[i] = IF copy <= i /\ i < copy + got
                                    THEN b.file[b.rd + (i - copy) + 1]
                                    ELSE IF i < copy THEN b.buf[i + left] ELSE b.buf[i]
               /\ r.err # "none" => r.rd = b.rd /\ (r.eof => got = 0 /\ Need(copy) # 0)
               /\ r.err = "full" => Need(copy) = 0 \/ got = 0
<1> DEFINE copy == b.end - left
           mbuf == [i \in 0..BUFSIZE-1 |-> IF i < copy THEN b.buf[i + left] ELSE b.buf[i]]
           m == MoveText(b, left)
           filled == ii_fillbuf(m, copy, got)
           r == Refill(b, left, got)
<1>0. /\ copy \in 0..END /\ left <= b.end
      /\ Need(copy) \in Nat /\ got \in -1..Need(copy) /\ b.rd + got <= Len(b.file)
  <2>1. copy \in 0..END /\ left <= b.end
    BY EdgeFacts, BufferSize
  <2>2. Need(copy) \in Nat
    BY <2>1, NeedBounds
  <2> QED BY <2>1, <2>2, ReadResultBounds
<1>1. /\ m = [b EXCEPT !.buf = mbuf] /\ m.buf = mbuf
      /\ m.end = b.end /\ m.next = b.next /\ m.sMark = b.sMark /\ m.eMark = b.eMark
      /\ m.pMark = b.pMark /\ m.eof = b.eof /\ m.text = b.text /\ m.err = b.err
      /\ m.rd = b.rd /\ m.file = b.file /\ m.line = b.line /\ m.mline = b.mline
      /\ m.opened = b.opened /\ m.term = b.term
  BY DEF MoveText, Typed, InputState
<1>2. Typed(m)
  BY <1>0, MoveTextTyped
<1> HIDE DEF mbuf, m, copy, filled, r
<1>3. CASE Need(copy) = 0
  <2>1. r = [m EXCEPT !.err = "full"]
    BY <1>3 DEF r, Refill, ii_fillbuf, m, copy
  <2>2. /\ r.err = "full" /\ r.rd = m.rd /\ r.file = m.file /\ r.opened = m.opened
        /\ r.term = m.term /\ r.eof = m.eof
    BY <1>2, <2>1 DEF Typed, InputState
  <2> HIDE DEF r
  <2> QED BY <1>1, <1>3, <2>2 DEF r, copy
<1>4. CASE Need(copy) # 0 /\ got < 0
  <2>1. got # 0
    BY <1>0, <1>4
  <2>2. r = [m EXCEPT !.err = "read"]
    BY <1>4, <2>1 DEF r, Refill, ii_fillbuf, m, copy
  <2>3. /\ r.err = "read" /\ r.rd = m.rd /\ r.file = m.file /\ r.opened = m.opened
        /\ r.term = m.term /\ r.eof = m.eof
    BY <1>2, <2>2 DEF Typed, InputState
  <2> QED BY <1>1, <1>4, <2>3 DEF r, copy
<1>5. CASE Need(copy) # 0 /\ ~(got < 0)
  <2> DEFINE n == ReadInto(m, copy, got)
             nbuf == [i \in 0..BUFSIZE-1 |-> IF copy <= i /\ i < copy + got
                        THEN m.file[m.rd + (i - copy) + 1] ELSE m.buf[i]]
             text == m.text \o SubSeq(m.file, m.rd + 1, m.rd + got)
             eof == m.eof \/ got < Need(copy)
  <2>1. filled.ret = got /\ filled.b = n
    BY <1>5 DEF filled, ii_fillbuf
  <2>2. got \in 0..Need(copy)
    BY <1>0, <1>5
  <2> HIDE DEF nbuf, text, eof
  <2>3. n = [m EXCEPT !.buf = nbuf, !.end = copy + got, !.eof = eof, !.rd = m.rd + got,
                      !.text = text]
    BY <1>2 DEF ReadInto, nbuf, text, eof, Typed, InputState
  <2> HIDE DEF n
  <2>4. /\ n.buf = nbuf /\ n.end = copy + got /\ n.eof = eof /\ n.rd = b.rd + got
        /\ n.text = text /\ n.next = b.next /\ n.sMark = b.sMark /\ n.eMark = b.eMark
        /\ n.pMark = b.pMark /\ n.err = "none" /\ n.file = b.file /\ n.line = b.line
        /\ n.mline = b.mline /\ n.opened = b.opened /\ n.term = b.term
    BY <1>1, <1>2, <2>3 DEF Typed, InputState
  <2>5. Typed(n)
    <3>1. got \in 0..Need(copy) /\ m.rd + got <= Len(m.file)
      BY <1>0, <1>1, <2>2
    <3> QED BY <1>0, <1>2, <3>1, ReadIntoTyped DEF n
  <2>6. CASE got = 0
    <3>1. r = [n EXCEPT !.err = "full"]
      BY <2>1, <2>6 DEF r, Refill, filled, m, copy
    <3>2. /\ r.err = "full" /\ r.rd = n.rd /\ r.file = n.file /\ r.opened = n.opened
          /\ r.term = n.term /\ r.eof = n.eof
      BY <2>5, <3>1 DEF Typed, InputState
    <3>3. b.rd + got = b.rd
      BY <2>6, FieldTypes
    <3> QED BY <1>5, <2>4, <2>6, <3>2, <3>3 DEF r, copy
  <2>7. CASE got # 0
    <3> DEFINE pm == IF b.pMark # NULL THEN b.pMark - left ELSE b.pMark
    <3>1. r = Shift(n, left)
      BY <1>5, <2>1, <2>7 DEF r, Refill, filled, m, copy
    <3> HIDE DEF pm
    <3>2. r = [n EXCEPT !.pMark = pm, !.sMark = b.sMark - left,
                        !.eMark = b.eMark - left, !.next = b.next - left]
      BY <2>4, <2>5, <3>1 DEF Shift, Typed, InputState, pm
    <3>3. /\ r.pMark = pm /\ r.sMark = b.sMark - left /\ r.eMark = b.eMark - left
          /\ r.next = b.next - left /\ r.end = n.end /\ r.text = n.text /\ r.eof = n.eof
          /\ r.err = n.err /\ r.rd = n.rd /\ r.file = n.file /\ r.line = n.line
          /\ r.mline = n.mline /\ r.opened = n.opened /\ r.term = n.term /\ r.buf = n.buf
      BY <2>5, <3>2 DEF Typed, InputState
    <3>4. got > 0 /\ got <= Need(copy)
      BY <1>0, <2>2, <2>7
    <3>5. \A i \in 0..BUFSIZE-1 :
            r.buf[i] = IF copy <= i /\ i < copy + got THEN b.file[b.rd + (i - copy) + 1]
                       ELSE IF i < copy THEN b.buf[i + left] ELSE b.buf[i]
      BY <1>1, <2>4, <3>3 DEF nbuf, mbuf
    <3>6. /\ r.file = b.file /\ r.opened = b.opened /\ r.term = b.term /\ r.err = "none"
          /\ r.end = copy + got /\ r.rd = b.rd + got /\ r.line = b.line
          /\ r.mline = b.mline
          /\ r.text = Appended(b, got) /\ r.eof = (got < Need(copy))
      BY <1>1, <2>4, <3>3 DEF text, eof, Appended
    <3> QED BY <1>0, <3>3, <3>4, <3>5, <3>6 DEF r, copy, pm
  <2> QED BY <2>6, <2>7
<1> QED BY <1>3, <1>4, <1>5

\* A refill keeps the window on the text, and every pointer at its position.
LEMMA RefillFaithful ==
    ASSUME NEW b, Typed(b), b.err = "none", ~b.eof, b.called, Base(b), Faithful(b),
           b.term = NUL,
           NEW left \in 0..END, left <= b.sMark, b.pMark # NULL => left <= b.pMark,
           NEW got \in ReadResults(b, Need(b.end - left)),
           Refill(b, left, got).err = "none"
    PROVE  LET r == Refill(b, left, got)
           IN  /\ Faithful(r) /\ r.term = NUL
               /\ Pos(r, r.next) = Pos(b, b.next) /\ Pos(r, r.sMark) = Pos(b, b.sMark)
               /\ b.pMark # NULL => r.pMark # NULL /\ Pos(r, r.pMark) = Pos(b, b.pMark)
<1> DEFINE r == Refill(b, left, got)
           copy == b.end - left
           piece == SubSeq(b.file, b.rd + 1, b.rd + got)
           L == Len(b.text)
<1>0. got \in Int /\ b.term = NUL
  <2>1. copy \in 0..END
    BY EdgeFacts, BufferSize
  <2>2. Need(copy) \in Nat
    BY <2>1, NeedBounds
  <2>3. got \in -1..Need(copy)
    BY <2>2, ReadResultBounds
  <2> HIDE DEF copy
  <2> QED BY <2>2, <2>3
<1>1. /\ r.term = NUL /\ got > 0 /\ b.rd + got <= Len(b.file)
      /\ r.end = copy + got /\ r.next = b.next - left
      /\ r.sMark = b.sMark - left /\ r.eMark = b.eMark - left
      /\ r.pMark = IF b.pMark # NULL THEN b.pMark - left ELSE b.pMark
      /\ r.rd = b.rd + got /\ r.line = b.line /\ r.mline = b.mline
      /\ r.text = b.text \o piece
  <2>1. /\ r.term = NUL /\ got > 0 /\ b.rd + got <= Len(b.file)
        /\ r.rd = b.rd + got /\ r.line = b.line /\ r.mline = b.mline
    BY <1>0, RefillFields
  <2>2. /\ r.end = copy + got /\ r.next = b.next - left
        /\ r.sMark = b.sMark - left /\ r.eMark = b.eMark - left
    BY <1>0, RefillFields
  <2>3. r.pMark = IF b.pMark # NULL THEN b.pMark - left ELSE b.pMark
    BY <1>0, RefillFields
  <2>4. r.text = b.text \o piece
    <3>1. r.text = Appended(b, got)
      BY RefillFields
    <3> QED BY <3>1 DEF Appended
  <2> QED BY <2>1, <2>2, <2>3, <2>4
<1>a. \A i \in 0..BUFSIZE-1 :
        r.buf[i] = IF copy <= i /\ i < copy + got THEN b.file[b.rd + (i - copy) + 1]
                   ELSE IF i < copy THEN b.buf[i + left] ELSE b.buf[i]
  BY RefillFields
<1>2. Typed(r) /\ Base(r)
  BY RefillSound
<1> HIDE DEF r
<1>3. /\ left \in Nat /\ copy \in Nat /\ b.end = copy + left /\ L \in Nat /\ b.rd \in Nat
      /\ b.end \in Nat /\ LeftEdge(b) \in Nat /\ left <= LeftEdge(b) /\ LeftEdge(b) <= b.next
      /\ b.next <= b.end /\ b.next \in Nat /\ b.sMark \in Nat /\ b.eMark \in Nat
      /\ LeftEdge(b) <= b.sMark /\ b.sMark <= b.eMark /\ b.eMark <= b.next
      /\ b.pMark # NULL => b.pMark \in Nat /\ LeftEdge(b) <= b.pMark
  BY EdgeFacts, FieldTypes, BufferSize, SMTT(30) DEF LeftEdge
<1>4. /\ b.file \in Seq(Chars) /\ b.text \in Seq(Chars) /\ Len(b.file) \in Nat
  BY FieldTypes
<1>b. got \in Nat /\ got > 0 /\ b.rd \in Nat /\ b.rd + got <= Len(b.file)
  BY <1>0, <1>1, <1>3
<1>5. /\ piece \in Seq(Chars) /\ Len(piece) = got
      /\ \A j \in 1..got : piece[j] = b.file[b.rd + j]
  <2>1. b.rd + 1 \in Int /\ b.rd + got \in Int
    BY <1>b
  <2>2. \A k \in b.rd+1..b.rd+got : b.file[k] \in Chars
    <3> SUFFICES ASSUME NEW k \in b.rd+1..b.rd+got PROVE b.file[k] \in Chars
      OBVIOUS
    <3>1. k \in 1..Len(b.file)
      BY <1>b, <1>4
    <3> QED BY <1>4, <3>1, ElementOfSeq
  <2>3. /\ piece \in Seq(Chars)
        /\ Len(piece) = IF b.rd + 1 <= b.rd + got THEN (b.rd + got) - (b.rd + 1) + 1 ELSE 0
        /\ \A j \in 1..(b.rd + got) - (b.rd + 1) + 1 : piece[j] = b.file[(b.rd + 1) + j - 1]
    BY <2>1, <2>2, SubSeqProperties
  <2> HIDE DEF piece
  <2>4. Len(piece) = got
    BY <1>b, <2>3
  <2>5. (b.rd + got) - (b.rd + 1) + 1 = got
    BY <1>b
  <2>6. ASSUME NEW j \in 1..got
        PROVE  piece[j] = b.file[b.rd + j]
    <3>1. (b.rd + 1) + j - 1 = b.rd + j
      BY <1>b
    <3> QED BY <2>3, <2>5, <3>1
  <2> QED BY <2>3, <2>4, <2>6
<1> HIDE DEF piece
<1>6. /\ Len(r.text) = L + got
      /\ \A k \in 1..L : r.text[k] = b.text[k]
      /\ \A j \in 1..got : r.text[L + j] = b.file[b.rd + j]
  <2>1. /\ Len(b.text \o piece) = L + Len(piece)
        /\ \A k \in 1..L + Len(piece) :
             (b.text \o piece)[k] = IF k <= L THEN b.text[k] ELSE piece[k - L]
    <3>1. Len(b.text \o piece) = L + Len(piece)
      BY <1>4, <1>5, ConcatProperties
    <3>2. ASSUME NEW k \in 1..L + Len(piece)
          PROVE  (b.text \o piece)[k] = IF k <= L THEN b.text[k] ELSE piece[k - L]
      BY <1>4, <1>5, ConcatProperties
    <3> QED BY <3>1, <3>2
  <2> HIDE DEF L
  <2>2. Len(r.text) = L + got
        /\ \A k \in 1..L + got : r.text[k] = IF k <= L THEN b.text[k] ELSE piece[k - L]
    BY <1>1, <1>5, <2>1
  <2>3. \A k \in 1..L : k \in 1..L + got /\ k <= L
    BY <1>b, <1>3
  <2>4. \A j \in 1..got : L + j \in 1..L + got /\ ~(L + j <= L) /\ (L + j) - L = j
    BY <1>b, <1>3
  <2>5. \A k \in 1..L : r.text[k] = b.text[k]
    BY <2>2, <2>3
  <2>6. ASSUME NEW j \in 1..got
        PROVE  r.text[L + j] = b.file[b.rd + j]
    <3>1. r.text[L + j] = piece[(L + j) - L]
      BY <2>2, <2>4
    <3> QED BY <1>5, <2>4, <3>1
  <2> QED BY <2>2, <2>5, <2>6
<1>7. \A x \in Int : Pos(r, x - left) = Pos(b, x)
  <2> HIDE DEF L, copy
  <2>1. \A x \in Int : (L + got) - ((copy + got) - (x - left)) = L - (b.end - x)
    BY <1>b, <1>3
  <2>2. Len(r.text) = L + got /\ r.end = copy + got
    BY <1>1, <1>6 DEF copy
  <2> QED BY <2>1, <2>2 DEF Pos, L
<1>8. /\ Pos(r, r.next) = Pos(b, b.next) /\ Pos(r, r.sMark) = Pos(b, b.sMark)
      /\ Pos(r, r.eMark) = Pos(b, b.eMark)
      /\ b.pMark # NULL => r.pMark # NULL /\ Pos(r, r.pMark) = Pos(b, b.pMark)
  <2>1. b.next \in Int /\ b.sMark \in Int /\ b.eMark \in Int
    BY <1>3
  <2>2. ASSUME b.pMark # NULL
        PROVE  r.pMark # NULL /\ Pos(r, r.pMark) = Pos(b, b.pMark)
    <3>1. b.pMark \in Int /\ b.pMark - left >= 0 /\ r.pMark = b.pMark - left
      BY <1>1, <1>3, <2>2
    <3> QED BY <1>7, <3>1 DEF NULL
  <2> QED BY <1>1, <1>7, <2>1, <2>2
<1>9. LeftEdge(r) = LeftEdge(b) - left
  BY <1>1, <1>8 DEF LeftEdge
<1>10. FirstLine(r) = FirstLine(b) /\ Len(r.text) \in {r.rd, r.rd + 1}
       /\ r.end - LeftEdge(r) <= Len(r.text)
  <2>1. L \in {b.rd, b.rd + 1} /\ b.end - LeftEdge(b) <= L
    BY DEF Faithful
  <2> HIDE DEF L, copy
  <2>2. (L + got > b.rd + got <=> L > b.rd) /\ L + got \in {b.rd + got, b.rd + got + 1}
        /\ (copy + got) - (LeftEdge(b) - left) <= L + got
    <3>1. L > b.rd <=> L + got > b.rd + got
      BY <1>b, <1>3
    <3>2. L + got \in {b.rd + got, b.rd + got + 1}
      <4>1. CASE L = b.rd
        BY <4>1
      <4>2. CASE L = b.rd + 1
        <5>1. L + got = b.rd + got + 1
          BY <1>b, <1>3, <4>2
        <5> QED BY <5>1
      <4> QED BY <2>1, <4>1, <4>2
    <3>3. (copy + got) - (LeftEdge(b) - left) <= L + got
      BY <1>b, <1>3, <2>1
    <3> QED BY <3>1, <3>2, <3>3
  <2> QED BY <1>1, <1>6, <1>9, <2>2 DEF FirstLine, L, copy
<1>11. Shows(r)
  <2> SUFFICES ASSUME NEW i \in LeftEdge(r)..r.end-1
               PROVE  r.buf[i] = r.text[Pos(r, i) + 1]
    BY <1>1 DEF Shows, At
  <2>1. i \in 0..BUFSIZE-1 /\ i \in Nat /\ i < copy + got /\ LeftEdge(b) <= i + left
    <3>1. LeftEdge(r) \in Nat /\ r.end \in Nat /\ r.end <= BUFSIZE /\ BUFSIZE \in Nat
      BY <1>2, EdgeFacts
    <3>2. LeftEdge(r) = LeftEdge(b) - left /\ r.end = copy + got
      BY <1>1, <1>9
    <3> HIDE DEF copy
    <3>3. i \in Nat /\ i < copy + got /\ LeftEdge(b) - left <= i /\ i < BUFSIZE
      BY <3>1, <3>2
    <3> QED BY <1>3, <3>1, <3>3
  <2>2. Pos(r, i) = Pos(b, i + left)
    <3>1. i + left \in Int /\ (i + left) - left = i
      BY <1>3, <2>1
    <3>2. Pos(r, (i + left) - left) = Pos(b, i + left)
      BY <1>7, <3>1
    <3> QED BY <3>1, <3>2
  <2>3. CASE i < copy
    <3>1. i + left \in LeftEdge(b)..b.end-1 /\ i + left \in LeftEdge(b)..b.end
          /\ i + left < b.end
      BY <1>3, <2>1, <2>3
    <3>2. b.buf[i + left] = b.text[Pos(b, i + left) + 1]
      BY <3>1 DEF Faithful, Shows, At
    <3>3. Pos(b, i + left) + 1 \in 1..L
      BY <3>1, PositionFacts
    <3>4. r.buf[i] = b.buf[i + left]
      <4> HIDE DEF copy
      <4> QED BY <1>a, <1>3, <2>1, <2>3
    <3> QED BY <1>6, <2>2, <3>2, <3>3, <3>4
  <2>4. CASE ~(i < copy)
    <3> DEFINE j == (i - copy) + 1
    <3>1. copy <= i /\ j \in 1..got
      <4> HIDE DEF copy
      <4> QED BY <1>b, <1>3, <2>1, <2>4
    <3>2. r.buf[i] = b.file[b.rd + (i - copy) + 1]
      BY <1>a, <2>1, <3>1
    <3>3. Pos(r, i) + 1 = L + j
      <4>1. Pos(r, i) = L - (b.end - (i + left))
        BY <2>2 DEF Pos
      <4> HIDE DEF L, copy
      <4> QED BY <1>3, <2>1, <4>1
    <3>4. b.rd + (i - copy) + 1 = b.rd + j
      BY <1>3, <2>1, SMTT(30)
    <3> HIDE DEF j
    <3> QED BY <1>6, <3>1, <3>2, <3>3, <3>4
  <2> QED BY <2>3, <2>4
<1>12. ASSUME NEW p \in LeftEdge(b)..b.end
       PROVE  NewlinesBefore(r, Pos(b, p)) = NewlinesBefore(b, Pos(b, p))
  <2>1. Pos(b, p) \in 0..L
    BY PositionFacts
  <2>2. \A i \in 1..Pos(b, p) : r.text[i] = b.text[i]
    BY <1>3, <1>6, <2>1
  <2>3. {i \in 1..Pos(b, p) : r.text[i] = NL} = {i \in 1..Pos(b, p) : b.text[i] = NL}
    BY <2>2
  <2> QED BY <2>3 DEF NewlinesBefore
<1>13. Counted(r)
  <2>1. b.next \in LeftEdge(b)..b.end /\ b.eMark \in LeftEdge(b)..b.end
    BY EdgeFacts
  <2> QED BY <1>1, <1>8, <1>10, <1>12, <2>1 DEF Counted, Faithful
<1> QED BY <1>1, <1>8, <1>10, <1>11, <1>13 DEF Faithful, r

-----------------------------------------------------------------------------
(* ii_flush() and ii_advance() *)

\* A flush delivers nothing; unless it is forced it leaves the lexemes in their places.
LEMMA FlushFaithful ==
    ASSUME NEW b, Typed(b), b.err = "none", Base(b), b.called, Faithful(b), b.term = NUL,
           NEW force \in BOOLEAN, force => Ready(b), NEW got \in FlushReads(b, force)
    PROVE  LET r == ii_flush(b, force, got)
           IN  /\ r.b.opened = b.opened
               /\ r.b.err # "none" => r.b.rd = b.rd
               /\ r.b.err = "none" =>
                    /\ Faithful(r.b) /\ r.b.term = NUL
                    /\ Pos(r.b, r.b.next) = Pos(b, b.next)
                    /\ ~force => /\ Pos(r.b, r.b.sMark) = Pos(b, b.sMark)
                                 /\ b.pMark # NULL => /\ r.b.pMark # NULL
                                                      /\ Pos(r.b, r.b.pMark) = Pos(b, b.pMark)
<1> DEFINE r == ii_flush(b, force, got)
<1>1. CASE r.b = b
  BY <1>1
<1>2. CASE ~NO_MORE_CHARS(b) /\ MustFlush(b, force) /\ ~TooFull(b)
  <2>1. r.b = Refill(b, LeftEdge(b), got)
    BY <1>2 DEF ii_flush
  <2>2. got \in ReadResults(b, Need(b.end - LeftEdge(b))) /\ ~b.eof
    BY <1>2 DEF FlushReads, MustFlush
  <2>3. LeftEdge(b) \in 0..END /\ LeftEdge(b) <= b.sMark /\ (b.pMark # NULL => LeftEdge(b) <= b.pMark)
    BY EdgeFacts, BufferSize DEF END
  <2>4. r.b.opened = b.opened /\ (r.b.err # "none" => r.b.rd = b.rd)
    BY <2>1, <2>2, <2>3, RefillFields
  <2>5. ASSUME r.b.err = "none"
        PROVE  /\ Faithful(r.b) /\ r.b.term = NUL
               /\ Pos(r.b, r.b.next) = Pos(b, b.next) /\ Pos(r.b, r.b.sMark) = Pos(b, b.sMark)
               /\ b.pMark # NULL => r.b.pMark # NULL /\ Pos(r.b, r.b.pMark) = Pos(b, b.pMark)
    <3>1. Refill(b, LeftEdge(b), got).err = "none"
      BY <2>1, <2>5
    <3> HIDE DEF r
    <3> QED BY <2>1, <2>2, <2>3, <3>1, RefillFaithful
  <2> QED BY <2>4, <2>5
<1>3. CASE ~NO_MORE_CHARS(b) /\ MustFlush(b, force) /\ TooFull(b) /\ force
  <2> DEFINE d == ii_mark_start(b)
             c == ii_mark_prev(d)
  <2>1. r.b = Refill(c, b.next, got)
    BY <1>3 DEF ii_flush
  <2>2. got \in ReadResults(b, Need(b.end - b.next)) /\ ~b.eof /\ b.next \in 0..END
    BY <1>3, EdgeFacts, BufferSize DEF FlushReads, MustFlush
  <2>3. Sound(b)
    BY <1>3 DEF Sound
  <2>4. /\ Sound(d) /\ d.err = "none" /\ d.text = b.text /\ d.end = b.end
        /\ d.next = b.next /\ d.sMark = b.next /\ d.eof = b.eof /\ d.called = b.called
    BY <2>3, MarkStartSound
  <2>5. Faithful(d) /\ d.term = NUL /\ d.rd = b.rd /\ d.file = b.file /\ d.opened = b.opened
    BY <2>3, MarksFaithful
  <2> HIDE DEF d
  <2>6. /\ Sound(c) /\ c.err = "none" /\ c.text = b.text /\ c.end = b.end /\ c.next = b.next
        /\ c.sMark = b.next /\ c.pMark = b.next /\ ~c.eof /\ c.called
    BY <2>2, <2>4, MarkPrevSound
  <2>7. Faithful(c) /\ c.term = NUL /\ c.rd = b.rd /\ c.file = b.file /\ c.opened = b.opened
    BY <2>4, <2>5, MarksFaithful
  <2>8. got \in ReadResults(c, Need(c.end - b.next))
    BY <2>2, <2>6, <2>7 DEF ReadResults
  <2>9. Typed(c) /\ Base(c) /\ b.next <= c.sMark /\ (c.pMark # NULL => b.next <= c.pMark)
    BY <2>2, <2>6, BufferSize DEF Sound
  <2> HIDE DEF c
  <2>10. r.b.opened = b.opened /\ (r.b.err # "none" => r.b.rd = b.rd)
    BY <2>1, <2>2, <2>6, <2>7, <2>8, <2>9, RefillFields
  <2>11. ASSUME r.b.err = "none"
         PROVE  Faithful(r.b) /\ r.b.term = NUL /\ Pos(r.b, r.b.next) = Pos(b, b.next)
    <3>1. Refill(c, b.next, got).err = "none"
      BY <2>1, <2>11
    <3> HIDE DEF r
    <3>2. Faithful(r.b) /\ r.b.term = NUL /\ Pos(r.b, r.b.next) = Pos(c, c.next)
      BY <2>1, <2>2, <2>6, <2>7, <2>8, <2>9, <3>1, RefillFaithful
    <3>3. Pos(c, c.next) = Pos(b, b.next)
      BY <2>6 DEF Pos
    <3> QED BY <3>2, <3>3
  <2> QED BY <1>3, <2>10, <2>11
<1>4. \/ r.b = b
      \/ ~NO_MORE_CHARS(b) /\ MustFlush(b, force) /\ ~TooFull(b)
      \/ ~NO_MORE_CHARS(b) /\ MustFlush(b, force) /\ TooFull(b) /\ force
  BY DEF ii_flush
<1> QED BY <1>1, <1>2, <1>3, <1>4

LEMMA FirstAdvanceFaithful ==
    ASSUME NEW b, Sound(b), b.err = "none", Faithful(b), b.term = NUL
    PROVE  LET f == FirstAdvance(b)
           IN  Faithful(f) /\ f.term = NUL /\ f.rd = b.rd /\ f.opened = b.opened
<1> DEFINE f == FirstAdvance(b)
<1>1. CASE b.called
  <2>1. f = b
    BY <1>1 DEF FirstAdvance
  <2> QED BY <2>1
<1>2. CASE ~b.called
  <2>1. Typed(b) /\ Base(b) /\ b.end = END /\ b.text = <<>>
    BY <1>2 DEF Sound, Base
  <2>2. b.rd = 0 /\ b.next = b.end /\ b.eMark = b.end
    <3>1. Len(b.text) = 0
      BY <2>1
    <3>2. b.end - LeftEdge(b) <= 0 /\ (b.rd = 0 \/ b.rd + 1 = 0) /\ b.rd \in Nat
      BY <2>1, <3>1, FieldTypes DEF Faithful
    <3> QED BY <2>1, <3>2, EdgeFacts
  <2>3. \A g : NewlinesBefore(g, 0) = 0
    <3>1. \A g : {i \in 1..0 : g.text[i] = NL} = {}
      OBVIOUS
    <3> QED BY <3>1, FS_EmptySet DEF NewlinesBefore
  <2>4. b.line = 1 /\ b.mline = 1
    <3>1. Len(b.text) = 0 /\ FirstLine(b) = 1
      BY <2>1, <2>2 DEF FirstLine
    <3>2. Pos(b, b.next) = 0 /\ Pos(b, b.eMark) = 0
      BY <2>1, <2>2, <3>1, BufferSize DEF Pos
    <3> QED BY <2>3, <3>1, <3>2 DEF Faithful, Counted
  <2> DEFINE buf == [b.buf EXCEPT ![END - 1] = NL]
  <2>5. buf[END - 1] = NL
    BY FieldTypes, BufferSize DEF Sound
  <2> HIDE DEF buf
  <2>6. f = [b EXCEPT !.next = END - 1, !.sMark = END - 1, !.eMark = END - 1,
                      !.pMark = NULL, !.pLength = 0, !.buf = buf,
                      !.line = b.line - 1, !.mline = b.mline - 1, !.called = TRUE,
                      !.text = <<NL>>]
    BY <1>2, <2>1 DEF FirstAdvance, buf, Typed, InputState
  <2>7. /\ f.next = END - 1 /\ f.sMark = END - 1 /\ f.eMark = END - 1 /\ f.pMark = NULL
        /\ f.end = END /\ f.buf = buf /\ f.text = <<NL>> /\ f.line = 0 /\ f.mline = 0
        /\ f.rd = 0 /\ f.term = NUL /\ f.opened = b.opened
    BY <2>1, <2>2, <2>4, <2>6 DEF Typed, InputState
  <2> HIDE DEF f
  <2>8. LeftEdge(f) = END - 1 /\ Len(f.text) = 1 /\ END \in Nat /\ END - 1 \in Nat
    BY <2>7, BufferSize DEF LeftEdge
  <2>9. Pos(f, END - 1) = 0
    BY <2>7, <2>8 DEF Pos
  <2>10. Shows(f)
    <3> SUFFICES ASSUME NEW i \in LeftEdge(f)..f.end-1
                 PROVE  f.buf[i] = f.text[Pos(f, i) + 1]
      BY <2>7 DEF Shows, At
    <3>1. i = END - 1
      BY <2>7, <2>8
    <3>2. f.text[1] = NL
      BY <2>7
    <3> QED BY <2>5, <2>7, <2>9, <3>1, <3>2
  <2>11. Counted(f)
    <3>1. FirstLine(f) = 0
      BY <2>7, <2>8 DEF FirstLine
    <3> QED BY <2>3, <2>7, <2>9, <3>1 DEF Counted
  <2>12. f.end - LeftEdge(f) <= Len(f.text) /\ Len(f.text) \in {f.rd, f.rd + 1}
    BY <2>7, <2>8
  <2> QED BY <2>2, <2>7, <2>10, <2>11, <2>12 DEF Faithful, f
<1> QED BY <1>1, <1>2

\* The character that is delivered is the next one of the text.
LEMMA ConsumeFaithful ==
    ASSUME NEW b, Typed(b), Base(b), Faithful(b), b.term = NUL, b.next < b.end,
           Typed(Consume(b)), Base(Consume(b))
    PROVE  LET m == Consume(b)
           IN  /\ Faithful(m) /\ m.term = NUL /\ m.rd = b.rd /\ m.opened = b.opened
               /\ m.sMark = b.sMark /\ m.pMark = b.pMark /\ m.text = b.text /\ m.end = b.end
               /\ m.next = b.next + 1
<1> DEFINE m == Consume(b)
           line == IF b.buf[b.next] = NL THEN b.line + 1 ELSE b.line
<1> HIDE DEF line
<1>1. m = [b EXCEPT !.next = b.next + 1, !.line = line]
  BY DEF Consume, line, Typed, InputState
<1>2. /\ m.next = b.next + 1 /\ m.end = b.end /\ m.sMark = b.sMark /\ m.eMark = b.eMark
      /\ m.pMark = b.pMark /\ m.text = b.text /\ m.rd = b.rd /\ m.buf = b.buf
      /\ m.term = b.term /\ m.line = line /\ m.mline = b.mline /\ m.opened = b.opened
  BY <1>1 DEF Typed, InputState
<1>3. b.next \in LeftEdge(b)..b.end-1 /\ b.next \in LeftEdge(b)..b.end /\ b.next \in Int
      /\ b.next + 1 \in Int
  BY EdgeFacts, SMTT(30)
<1>4. b.buf[b.next] = b.text[Pos(b, b.next) + 1]
  BY <1>3 DEF Faithful, Shows, At
<1>5. Pos(b, b.next + 1) = Pos(b, b.next) + 1 /\ Pos(b, b.next) \in Nat
  <2>1. Pos(b, b.next + 1) = Pos(b, b.next) + ((b.next + 1) - b.next)
    BY <1>3, PositionSteps
  <2>2. Pos(b, b.next) \in Nat
    BY <1>3, PositionFacts, EdgeFacts
  <2> QED BY <1>3, <2>1, <2>2
<1>6. line = FirstLine(b) + NewlinesBefore(b, Pos(b, b.next + 1))
  <2>1. NewlinesBefore(b, Pos(b, b.next) + 1) = NewlinesBefore(b, Pos(b, b.next))
          + (IF b.text[Pos(b, b.next) + 1] = NL THEN 1 ELSE 0)
    BY <1>5, CountNext
  <2>2. NewlinesBefore(b, Pos(b, b.next)) \in Nat /\ FirstLine(b) \in Nat
    BY <1>5, CountFinite DEF FirstLine
  <2>3. b.line = FirstLine(b) + NewlinesBefore(b, Pos(b, b.next))
    BY DEF Faithful, Counted
  <2> QED BY <1>4, <1>5, <2>1, <2>2, <2>3 DEF line
<1>7. m.mline = FirstLine(b) + NewlinesBefore(b, Pos(b, m.eMark))
  BY <1>2 DEF Faithful, Counted
<1>8. LeftEdge(m) = LeftEdge(b)
  BY <1>2 DEF LeftEdge
<1> HIDE DEF m
<1>9. Faithful(m)
  BY <1>2, <1>6, <1>7, <1>8, MovedFaithful, EdgeFacts DEF m
<1> QED BY <1>2, <1>9 DEF m

\* ii_advance() delivers the next character of the text or nothing, and whatever it reads
\* it leaves the lexemes in their places.
LEMMA AdvanceFaithful ==
    ASSUME NEW b, Sound(b), b.err = "none", Faithful(b), b.term = NUL,
           NEW got \in AdvanceReads(b)
    PROVE  LET r == ii_advance(b, got).b
           IN  /\ r.opened = b.opened
               /\ r.err = "none" => Faithful(r) /\ r.term = NUL
               /\ b.text # <<>> /\ r.rd > b.rd =>
                    /\ r.err = "none" /\ Pos(r, r.next) = Pos(b, b.next) + 1
                    /\ Pos(r, r.sMark) = Pos(b, b.sMark)
                    /\ b.pMark # NULL => Pos(r, r.pMark) = Pos(b, b.pMark)
<1> DEFINE f == FirstAdvance(b)
           fl == ii_flush(f, FALSE, got)
           r == ii_advance(b, got).b
<1>1. /\ Typed(f) /\ f.err = "none" /\ Base(f) /\ f.called
      /\ b.text # <<>> => f = b
  BY FirstAdvanceSound
<1>2. Faithful(f) /\ f.term = NUL /\ f.rd = b.rd /\ f.opened = b.opened
  BY FirstAdvanceFaithful
<1>3. got \in FlushReads(f, FALSE)
  BY DEF AdvanceReads
<1>r. Sound(r)
  BY AdvanceSound
<1>n. b.rd \in Nat
  BY FieldTypes DEF Sound
<1> HIDE DEF f
<1>4. /\ Typed(fl.b)
      /\ fl.b.err = "none" =>
           /\ Base(fl.b)
           /\ fl.ret # -1 /\ ~NO_MORE_CHARS(f) => fl.b.end > fl.b.next
  BY <1>1, <1>3, FlushSound
<1>5. /\ fl.b.opened = f.opened
      /\ fl.b.err # "none" => fl.b.rd = f.rd
      /\ fl.b.err = "none" =>
           /\ Faithful(fl.b) /\ fl.b.term = NUL
           /\ Pos(fl.b, fl.b.next) = Pos(f, f.next) /\ Pos(fl.b, fl.b.sMark) = Pos(f, f.sMark)
           /\ f.pMark # NULL => /\ fl.b.pMark # NULL
                                /\ Pos(fl.b, fl.b.pMark) = Pos(f, f.pMark)
  BY <1>1, <1>2, <1>3, FlushFaithful
<1>6. fl.ret \in {-1, 0, 1} /\ (fl.ret = -1 => fl.b = f)
  BY DEF ii_flush
<1> HIDE DEF fl
<1>7. CASE r = f
  <2> HIDE DEF r
  <2> QED BY <1>1, <1>2, <1>7, <1>n DEF r
<1>8. CASE r = fl.b /\ fl.b.err # "none"
  <2> HIDE DEF r
  <2> QED BY <1>1, <1>2, <1>5, <1>8, <1>n DEF r
<1>9. CASE r = Consume(fl.b) /\ fl.b.err = "none" /\ ~NO_MORE_CHARS(f) /\ fl.ret # -1
  <2> DEFINE c == fl.b
  <2>1. /\ Typed(c) /\ Base(c) /\ c.next < c.end /\ c.err = "none"
        /\ Faithful(c) /\ c.term = NUL
    BY <1>4, <1>5, <1>9, EdgeFacts
  <2> HIDE DEF r
  <2>2. r.err = "none"
    BY <1>9, <2>1 DEF Consume, Typed, InputState
  <2>3. Typed(r) /\ Base(r)
    BY <1>r, <2>2 DEF Sound
  <2> HIDE DEF c
  <2>4. /\ Faithful(r) /\ r.term = NUL /\ r.opened = c.opened
        /\ r.sMark = c.sMark /\ r.pMark = c.pMark /\ r.text = c.text /\ r.end = c.end
        /\ r.next = c.next + 1
    BY <1>9, <2>1, <2>3, ConsumeFaithful DEF c
  <2>5. \A p : Pos(r, p) = Pos(c, p)
    BY <2>4 DEF Pos
  <2>6. Pos(r, r.next) = Pos(c, c.next) + 1
    <3>1. c.next \in Int /\ c.next + 1 \in Int /\ (c.next + 1) - c.next = 1
      BY <2>1, EdgeFacts
    <3>2. Pos(c, c.next + 1) = Pos(c, c.next) + ((c.next + 1) - c.next)
      BY <2>1, <3>1, PositionSteps
    <3> QED BY <2>4, <2>5, <3>1, <3>2
  <2> QED BY <1>1, <1>2, <1>5, <2>1, <2>2, <2>4, <2>5, <2>6 DEF r, c
<1>10. \/ r = f
       \/ r = fl.b /\ fl.b.err # "none"
       \/ r = Consume(fl.b) /\ fl.b.err = "none" /\ ~NO_MORE_CHARS(f) /\ fl.ret # -1
  <2>1. CASE NO_MORE_CHARS(f)
    BY <2>1 DEF ii_advance, f
  <2>2. CASE ~NO_MORE_CHARS(f) /\ (fl.ret < 0 \/ fl.b.err # "none")
    <3>1. r = fl.b
      BY <2>2 DEF ii_advance, f, fl
    <3> HIDE DEF r
    <3> QED BY <1>6, <2>2, <3>1
  <2>3. CASE ~NO_MORE_CHARS(f) /\ ~(fl.ret < 0) /\ fl.b.err = "none"
    <3>1. r = Consume(fl.b)
      BY <2>3 DEF ii_advance, f, fl
    <3> HIDE DEF r
    <3> QED BY <2>3, <3>1
  <2> QED BY <2>1, <2>2, <2>3
<1> QED BY <1>7, <1>8, <1>9, <1>10

-----------------------------------------------------------------------------
(* The calls of an action *)

\* What b becomes when a call with the lexeme terminated leaves it as r: RefillKeepsLexemes
\* of one call.
KeepsLexemes(b, r) ==
    r.rd > b.rd =>
      LET delivered == Pos(r, r.next) - Pos(b, b.next)
      IN  /\ delivered \in 0..1
          /\ delivered = 1 => /\ Pos(r, r.sMark) = Pos(b, b.sMark)
                              /\ b.pMark # NULL => Pos(r, r.pMark) = Pos(b, b.pMark)

LEMMA PositionIsInt ==
    ASSUME NEW b, Typed(b), Base(b)
    PROVE  Pos(b, b.next) \in Int
<1>1. b.next \in Int
  BY EdgeFacts
<1> QED BY <1>1, PositionSteps

LEMMA AdvanceKeepsLexemes ==
    ASSUME NEW b, Sound(b), b.err = "none", Faithful(b), b.term = NUL, b.text # <<>>,
           NEW got \in AdvanceReads(b)
    PROVE  KeepsLexemes(b, ii_advance(b, got).b)
<1>1. Pos(b, b.next) \in Int
  BY PositionIsInt DEF Sound
<1> QED BY <1>1, AdvanceFaithful DEF KeepsLexemes

LEMMA InputFaithful ==
    ASSUME NEW b, Sound(b), b.err = "none", Faithful(b), b.text # <<>>,
           NEW got \in AdvanceReads(ii_unterm(b))
    PROVE  LET r == ii_input(b, got).b
           IN  /\ r.opened = b.opened
               /\ r.err = "none" => Faithful(r)
               /\ KeepsLexemes(b, r)
<1> DEFINE u == ii_unterm(b)
           a == ii_advance(u, got).b
           r == ii_input(b, got).b
<1>1. /\ Sound(u) /\ u.text # <<>> /\ u.err = "none"
      /\ Faithful(u) /\ u.term = NUL /\ u.text = b.text /\ u.rd = b.rd /\ u.opened = b.opened
      /\ u.end = b.end /\ u.next = b.next /\ u.sMark = b.sMark /\ u.pMark = b.pMark
  BY UntermSound, UntermFaithful
<1> HIDE DEF u
<1>2. /\ a.opened = u.opened /\ KeepsLexemes(u, a)
      /\ a.err = "none" => Faithful(a) /\ a.term = NUL
      /\ Sound(a) /\ (a.err = "none" => a.text # <<>>)
  BY <1>1, AdvanceFaithful, AdvanceKeepsLexemes, AdvanceSound DEF u
<1>3. \A x : KeepsLexemes(u, x) => KeepsLexemes(b, x)
  BY <1>1 DEF KeepsLexemes, Pos
<1> HIDE DEF a
<1>4. CASE a.err # "none"
  <2>1. r = a
    BY <1>4 DEF ii_input, u, a
  <2> HIDE DEF r
  <2> QED BY <1>1, <1>2, <1>3, <1>4, <2>1 DEF r
<1>5. CASE a.err = "none"
  <2> DEFINE e == ii_mark_end(a)
  <2>1. Sound(e) /\ e.err = "none" /\ e.text # <<>>
    BY <1>2, <1>5, MarkEndSound
  <2>2. Faithful(e) /\ e.term = NUL /\ e.rd = a.rd /\ e.opened = a.opened
    BY <1>2, <1>5, MarksFaithful
  <2>3. e.text = a.text /\ e.end = a.end /\ e.next = a.next /\ e.sMark = a.sMark
        /\ e.pMark = a.pMark
    BY <1>2 DEF ii_mark_end, Sound, Typed, InputState
  <2>4. r = Rewrap(b, e)
    BY <1>5 DEF ii_input, u, a
  <2> HIDE DEF e, r
  <2>5. /\ Faithful(r) /\ r.text = e.text /\ r.rd = e.rd /\ r.opened = e.opened
        /\ r.end = e.end /\ r.next = e.next /\ r.sMark = e.sMark /\ r.pMark = e.pMark
    BY <2>1, <2>2, <2>4, RewrapFaithful
  <2>6. KeepsLexemes(b, a) => KeepsLexemes(b, r)
    BY <2>2, <2>3, <2>5 DEF KeepsLexemes, Pos
  <2> QED BY <1>1, <1>2, <1>3, <2>2, <2>5, <2>6 DEF r
<1> QED BY <1>4, <1>5

LEMMA UnputFaithful ==
    ASSUME NEW b, Sound(b), b.err = "none", Faithful(b), b.text # <<>>, NEW c \in Chars
    PROVE  LET r == ii_unput(b, c)
           IN  Faithful(r) /\ r.rd = b.rd /\ r.opened = b.opened
<1> DEFINE u == ii_unterm(b)
           back == ii_pushback(u, 1)
           d == IF back.ret THEN Overwrite(back.b, c) ELSE back.b
<1>1. /\ Sound(u) /\ u.text # <<>> /\ u.err = "none"
      /\ Faithful(u) /\ u.term = NUL /\ u.rd = b.rd /\ u.opened = b.opened
  BY UntermSound, UntermFaithful
<1> HIDE DEF u
<1>2. /\ Sound(back.b) /\ back.b.text # <<>> /\ back.b.err = "none"
      /\ Faithful(back.b) /\ back.b.term = NUL /\ back.b.rd = u.rd /\ back.b.opened = u.opened
      /\ back.ret => back.b.next < back.b.end
  BY <1>1, PushbackSound, PushbackFaithful
<1> HIDE DEF back
<1>3. /\ Sound(d) /\ d.text # <<>> /\ d.err = "none"
      /\ Faithful(d) /\ d.term = NUL /\ d.rd = u.rd /\ d.opened = u.opened
  BY <1>2, OverwriteSound, OverwriteFaithful
<1> HIDE DEF d
<1>4. ii_unput(b, c) = Rewrap(b, d)
  BY DEF ii_unput, d, back, u
<1> QED BY <1>1, <1>3, <1>4, RewrapFaithful

LEMMA FlushBufFaithful ==
    ASSUME NEW b, Sound(b), b.err = "none", Faithful(b), b.text # <<>>,
           NEW got \in FlushReads(ii_unterm(b), TRUE)
    PROVE  LET r == ii_flushbuf(b, got).b
           IN  /\ r.opened = b.opened
               /\ r.err = "none" => Faithful(r) /\ r.term = NUL
               /\ KeepsLexemes(b, r)
<1> DEFINE u == ii_unterm(b)
           r == ii_flush(u, TRUE, got).b
<1>1. /\ Sound(u) /\ u.text # <<>> /\ u.err = "none"
      /\ Faithful(u) /\ u.term = NUL /\ u.text = b.text /\ u.rd = b.rd /\ u.opened = b.opened
      /\ u.end = b.end /\ u.next = b.next
  BY UntermSound, UntermFaithful
<1> HIDE DEF u
<1>2. u.called /\ Typed(u) /\ Base(u) /\ Ready(u) /\ u.rd \in Nat
  BY <1>1, FieldTypes DEF Sound, Base
<1>3. /\ r.opened = u.opened /\ (r.err # "none" => r.rd = u.rd)
      /\ r.err = "none" => Faithful(r) /\ r.term = NUL /\ Pos(r, r.next) = Pos(u, u.next)
  BY <1>1, <1>2, FlushFaithful, ZenonT(60) DEF u
<1>4. Pos(u, u.next) = Pos(b, b.next) /\ Pos(b, b.next) \in Int
  BY <1>1, PositionIsInt DEF Pos, Sound
<1>5. ii_flushbuf(b, got).b = r
  BY DEF ii_flushbuf, u
<1> HIDE DEF r
<1>6. KeepsLexemes(b, r)
  BY <1>1, <1>2, <1>3, <1>4 DEF KeepsLexemes
<1> QED BY <1>1, <1>3, <1>5, <1>6

-----------------------------------------------------------------------------
(* The theorems about the text *)

\* Nothing read yet: at the start, and after ii_newfile().
LEMMA EmptyFaithful ==
    ASSUME NEW m, m.text = <<>>, m.rd = 0, m.end = END, m.next = END, m.eMark = END,
           LeftEdge(m) = END, m.line = 1, m.mline = 1
    PROVE  Faithful(m)
<1>1. END \in Nat /\ Len(m.text) = 0
  BY BufferSize
<1>2. Shows(m)
  BY <1>1 DEF Shows
<1>3. Pos(m, m.next) = 0 /\ Pos(m, m.eMark) = 0 /\ FirstLine(m) = 1
  BY <1>1 DEF Pos, FirstLine
<1>4. NewlinesBefore(m, 0) = 0
  <2>1. {i \in 1..0 : m.text[i] = NL} = {}
    OBVIOUS
  <2> QED BY <2>1, FS_EmptySet DEF NewlinesBefore
<1>5. Counted(m)
  BY <1>3, <1>4 DEF Counted
<1> QED BY <1>1, <1>2, <1>5 DEF Faithful

LEMMA InitTextInv == Init => TextInv
<1> SUFFICES ASSUME Init PROVE TextInv
  OBVIOUS
<1>1. PICK f \in Files : ib = Statics(f)
  BY DEF Init
<1>2. /\ ib.text = <<>> /\ ib.rd = 0 /\ ib.end = END /\ ib.next = END /\ ib.eMark = END
      /\ ib.sMark = END /\ ib.pMark = NULL /\ ib.line = 1 /\ ib.mline = 1 /\ ib.term = NUL
  BY <1>1 DEF Statics
<1>3. Faithful(ib)
  BY <1>2, EmptyFaithful DEF LeftEdge
<1> QED BY <1>2, <1>3 DEF TextInv

Kept == Loaded /\ ~failed /\ ib.opened' = ib.opened /\ ib.rd' > ib.rd =>
          LET delivered == Position(ib.next)' - Position(ib.next)
          IN  /\ delivered \in 0..1
              /\ delivered = 1 =>
                   /\ Position(ib.sMark)' = Position(ib.sMark)
                   /\ ib.pMark # NULL => Position(ib.pMark)' = Position(ib.pMark)

LEMMA KeptByCall ==
    ASSUME KeepsLexemes(ib, ib')
    PROVE  Kept
BY DEF KeepsLexemes, Kept, Pos, Position

LEMMA KeptUnread ==
    ASSUME IInv, ib'.rd = ib.rd
    PROVE  Kept
<1>1. ib.rd \in Nat
  BY FieldTypes DEF IInv, Sound
<1> QED BY <1>1 DEF Kept

LEMMA StepTextInv == IInv /\ TextInv /\ [Next]_vars => TextInv' /\ [Kept]_vars
<1> SUFFICES ASSUME IInv, TextInv, [Next]_vars PROVE TextInv' /\ [Kept]_vars
  OBVIOUS
<1>0. /\ Sound(ib) /\ (ib.err = "none" /\ inAction => ib.text # <<>>)
      /\ (ib.err = "none" => Faithful(ib) /\ (ib.term # NUL => inAction))
  BY DEF IInv, Loaded, TextInv
<1>1. ASSUME NEW f \in Files, NewFile(f) PROVE TextInv' /\ Kept
  <2>1. ib.err = "none" /\ ~inAction /\ ib' = ii_newfile(ib, f)
    BY <1>1 DEF NewFile, Scanning, Becomes
  <2>2. /\ ib'.text = <<>> /\ ib'.rd = 0 /\ ib'.end = END /\ ib'.next = END /\ ib'.eMark = END
        /\ ib'.sMark = END /\ ib'.pMark = END /\ ib'.line = 1 /\ ib'.mline = 1
        /\ ib'.term = ib.term /\ ib'.opened = ib.opened + 1 /\ ib.opened \in Nat
    BY <1>0, <2>1 DEF ii_newfile, Sound, Typed, InputState
  <2>3. Faithful(ib')
    BY <2>2, EmptyFaithful DEF LeftEdge
  <2>4. TextInv'
    BY <1>0, <2>1, <2>2, <2>3 DEF TextInv
  <2> QED BY <2>2, <2>4 DEF Kept
<1>2. ASSUME Advance PROVE TextInv' /\ Kept
  <2>1. PICK got \in AdvanceReads(ib) : ib' = ii_advance(ib, got).b
    BY <1>2 DEF Advance
  <2>2. ib.err = "none" /\ ~inAction /\ inAction' = inAction
    BY <1>2 DEF Advance, Scanning
  <2>3. ib'.err = "none" => Faithful(ib') /\ ib'.term = NUL
    BY <1>0, <2>1, <2>2, AdvanceFaithful
  <2>4. CASE Loaded
    BY <1>0, <2>1, <2>2, <2>3, <2>4, AdvanceKeepsLexemes, KeptByCall DEF TextInv, Loaded
  <2>5. CASE ~Loaded
    BY <2>3, <2>5 DEF TextInv, Kept
  <2> QED BY <2>4, <2>5
<1>3. ASSUME ForceFlush PROVE TextInv' /\ Kept
  <2>1. PICK got \in FlushReads(ib, TRUE) : ib' = ii_flush(ib, TRUE, got).b
    BY <1>3 DEF ForceFlush, Becomes
  <2>2. ib.err = "none" /\ ~inAction /\ failed /\ ib.called
    BY <1>3 DEF ForceFlush, Scanning, IInv
  <2>3. ib'.err = "none" => Faithful(ib') /\ ib'.term = NUL
    BY <1>0, <2>1, <2>2, FlushFaithful DEF Sound
  <2> QED BY <2>2, <2>3 DEF TextInv, Kept
<1>4. ASSUME NEW n \in 1..MaxBack, Pushback(n) PROVE TextInv' /\ Kept
  <2>1. ib.err = "none" /\ ~inAction /\ ib' = ii_pushback(ib, n).b /\ n \in Nat
    BY <1>4, ClientAssumption DEF Pushback, Scanning, Becomes
  <2>2. Faithful(ib') /\ ib'.term = NUL /\ ib'.rd = ib.rd
    BY <1>0, <2>1, PushbackFaithful
  <2> QED BY <2>2, KeptUnread DEF TextInv
<1>5. ASSUME NEW n \in 1..MaxBack, Less(n) PROVE TextInv' /\ Kept
  <2> DEFINE u == ii_unterm(ib)
             p == ii_pushback(u, n).b
  <2>1. ib.err = "none" /\ inAction /\ inAction' = inAction /\ ib' = ii_term(p) /\ n \in Nat
    BY <1>5, ClientAssumption DEF Less, Acting, Becomes
  <2>2. /\ Sound(u) /\ u.err = "none" /\ u.text # <<>>
        /\ Faithful(u) /\ u.term = NUL /\ u.rd = ib.rd
    BY <1>0, <2>1, UntermSound, UntermFaithful
  <2> HIDE DEF u
  <2>3. /\ Sound(p) /\ p.err = "none" /\ p.text # <<>>
        /\ Faithful(p) /\ p.term = NUL /\ p.rd = u.rd
    BY <2>1, <2>2, PushbackSound, PushbackFaithful
  <2> HIDE DEF p
  <2>4. Faithful(ib') /\ ib'.rd = ib.rd
    BY <2>1, <2>2, <2>3, TermFaithful
  <2> QED BY <2>1, <2>4, KeptUnread DEF TextInv
<1>6. ASSUME MarkStart \/ MarkEnd \/ MoveStart \/ ToMark \/ MarkPrev PROVE TextInv' /\ Kept
  <2>1. /\ ib.err = "none" /\ ~inAction
        /\ ib' \in {ii_mark_start(ib), ii_mark_end(ib), ii_move_start(ib), ii_to_mark(ib),
                    ii_mark_prev(ib)}
    BY <1>6 DEF MarkStart, MarkEnd, MoveStart, ToMark, MarkPrev, Scanning, Becomes
  <2>2. Faithful(ib') /\ ib'.term = NUL /\ ib'.rd = ib.rd
    BY <1>0, <2>1, MarksFaithful
  <2> QED BY <2>2, KeptUnread DEF TextInv
<1>7. ASSUME Term PROVE TextInv' /\ Kept
  <2>1. ib.err = "none" /\ ~inAction /\ ib.text # <<>> /\ ib' = ii_term(ib) /\ inAction' = TRUE
    BY <1>7 DEF Term, Scanning, Loaded
  <2>2. Faithful(ib') /\ ib'.rd = ib.rd
    BY <1>0, <2>1, TermFaithful
  <2> QED BY <2>1, <2>2, KeptUnread DEF TextInv
<1>8. ASSUME Unterm PROVE TextInv' /\ Kept
  <2>1. ib.err = "none" /\ ib' = ii_unterm(ib)
    BY <1>8 DEF Unterm
  <2>2. Faithful(ib') /\ ib'.term = NUL /\ ib'.rd = ib.rd
    BY <1>0, <2>1, UntermFaithful
  <2> QED BY <2>2, KeptUnread DEF TextInv
<1>9. ASSUME Input PROVE TextInv' /\ Kept
  <2>1. PICK got \in AdvanceReads(ii_unterm(ib)) : ib' = ii_input(ib, got).b
    BY <1>9 DEF Input, Becomes
  <2>2. ib.err = "none" /\ inAction /\ inAction' = inAction
    BY <1>9 DEF Input, Acting, Becomes
  <2>3. (ib'.err = "none" => Faithful(ib')) /\ KeepsLexemes(ib, ib')
    BY <1>0, <2>1, <2>2, InputFaithful
  <2> QED BY <2>2, <2>3, KeptByCall DEF TextInv
<1>10. ASSUME NEW c \in UnputChars, Unput(c) PROVE TextInv' /\ Kept
  <2>1. ib.err = "none" /\ inAction /\ inAction' = inAction /\ ib' = ii_unput(ib, c) /\ c \in Chars
    BY <1>10, ClientAssumption DEF Unput, Acting
  <2>2. Faithful(ib') /\ ib'.rd = ib.rd
    BY <1>0, <2>1, UnputFaithful
  <2> QED BY <2>1, <2>2, KeptUnread DEF TextInv
<1>11. ASSUME FlushBuf PROVE TextInv' /\ Kept
  <2>1. PICK got \in FlushReads(ii_unterm(ib), TRUE) : ib' = ii_flushbuf(ib, got).b
    BY <1>11 DEF FlushBuf, Becomes
  <2>2. ib.err = "none" /\ inAction
    BY <1>11 DEF FlushBuf, Acting
  <2>3. /\ ib'.err = "none" => Faithful(ib') /\ ib'.term = NUL
        /\ KeepsLexemes(ib, ib')
    BY <1>0, <2>1, <2>2, FlushBufFaithful
  <2> QED BY <2>3, KeptByCall DEF TextInv
<1>12. CASE UNCHANGED vars
  BY <1>12 DEF vars, TextInv
<1> QED BY <1>1, <1>2, <1>3, <1>4, <1>5, <1>6, <1>7, <1>8, <1>9, <1>10, <1>11, <1>12 DEF Next

\* Whatever is read, delivered, pushed back, replaced or shifted, the buffer, the text of
\* the file and the line numbers describe each other.
THEOREM TextInvariant == Spec => []TextInv
<1>1. IInv /\ TextInv /\ [Next]_vars => TextInv'
  BY StepTextInv
<1> QED BY InitTextInv, InputInvariant, <1>1, PTL DEF Spec

\* No flush, short read, pushback, replaced character or terminator loses, repeats or
\* reorders a character that has still to be delivered.
THEOREM BufferIsWindow == Spec => []Window
<1>1. TextInv => Window
  BY DEF TextInv, Faithful, Shows, At, Pos, Window, CharAt, Position
<1> QED BY <1>1, TextInvariant, PTL

\* Lineno and Mline count the newlines before the next character and before the end of the
\* lexeme.
THEOREM LinesCounted == Spec => []LinesAgree
<1>1. TextInv => LinesAgree
  BY DEF TextInv, Faithful, Counted, FirstLine, NewlinesBefore, Pos, LinesAgree, Newlines,
         Position
<1> QED BY <1>1, TextInvariant, PTL

\* When a character is delivered with a refill the lexemes start where they started.
THEOREM LexemesKept == Spec => RefillKeepsLexemes
<1>1. IInv /\ TextInv /\ [Next]_vars => [Kept]_vars
  BY StepTextInv
<1> QED BY InputInvariant, TextInvariant, <1>1, PTL DEF Spec, RefillKeepsLexemes, Kept

-----------------------------------------------------------------------------
(* The end of the file.  A read that returns less than it is asked for is    *)
(* taken for the last one, so both theorems are about files whose reads do   *)
(* not; and a flush that a rule's code forces asks for nothing when there    *)
(* is no room for one unit behind the kept text (lib/input.c:263), so        *)
(* FullOnlyAtEof is proved of clients that force none.                       *)

ReadsAll(b) == b.eof => b.rd = Len(b.file)

EndInv == EofMeansAllRead /\ ("flushbuf" \notin Calls => FullOnlyAtEof)

\* A regular read returns less than was asked for at the end of the file only.
LEMMA RefillReadsAll ==
    ASSUME ShortReads = FALSE,
           NEW b, Typed(b), b.err = "none", ~b.eof, b.called, Base(b),
           NEW left \in 0..END, left <= b.sMark, b.pMark # NULL => left <= b.pMark,
           NEW got \in ReadResults(b, Need(b.end - left))
    PROVE  LET r == Refill(b, left, got)
           IN  /\ ReadsAll(r)
               /\ r.err = "full" /\ left >= MAXLEX => r.rd = Len(r.file)
<1> DEFINE r == Refill(b, left, got)
           copy == b.end - left
           need == Need(copy)
           l == Len(b.file)
<1>1. /\ copy \in 0..END /\ need \in Nat /\ b.rd \in Nat /\ l \in Nat /\ b.rd <= l
      /\ left >= MAXLEX => need # 0
  <2>1. copy \in 0..END /\ (left >= MAXLEX => copy <= END - MAXLEX)
    BY EdgeFacts, BufferSize
  <2>2. b.rd \in Nat /\ l \in Nat /\ b.rd <= l
    BY FieldTypes
  <2> HIDE DEF copy, l
  <2>3. need \in Nat /\ copy + need > END - MAXLEX
    BY <2>1, NeedBounds
  <2> HIDE DEF need
  <2>4. left >= MAXLEX => need # 0
    BY <2>1, <2>3, BufferSize
  <2> QED BY <2>1, <2>2, <2>3, <2>4
<1>2. got = IF need < l - b.rd THEN need ELSE l - b.rd
  BY DEF ReadResults
<1>3. /\ r.file = b.file
      /\ r.err = "none" => r.rd = b.rd + got /\ r.eof = (got < need)
      /\ r.err # "none" => r.rd = b.rd /\ (r.eof => got = 0 /\ need # 0)
      /\ r.err = "full" => need = 0 \/ got = 0
  BY RefillFields
<1> HIDE DEF r, copy, need, l
<1>4. r.err = "none" /\ r.eof => got < need
  BY <1>3
<1>5. (got < need \/ (got = 0 /\ need # 0)) => b.rd + got = l
  BY <1>1, <1>2
<1>6. ReadsAll(r)
  <2> SUFFICES ASSUME r.eof PROVE r.rd = l
    BY <1>3 DEF ReadsAll, l
  <2>1. CASE r.err = "none"
    <3>1. r.rd = b.rd + got
      BY <1>3, <2>1
    <3>2. got < need
      BY <1>4, <2>1
    <3> QED BY <1>5, <3>1, <3>2
  <2>2. CASE r.err # "none"
    <3>1. b.rd + got = b.rd /\ b.rd + got = l /\ r.rd = b.rd
      BY <1>1, <1>3, <1>5, <2>2
    <3> QED BY <3>1
  <2> QED BY <2>1, <2>2
<1>7. r.err = "full" /\ left >= MAXLEX => r.rd = Len(r.file)
  BY <1>1, <1>3, <1>5 DEF l
<1> QED BY <1>6, <1>7 DEF r

LEMMA FlushReadsAll ==
    ASSUME ShortReads = FALSE,
           NEW b, Typed(b), b.err = "none", Base(b), b.called, ReadsAll(b),
           NEW force \in BOOLEAN, force => Ready(b), NEW got \in FlushReads(b, force)
    PROVE  LET r == ii_flush(b, force, got).b
           IN  /\ ReadsAll(r)
               /\ r.err = "full" /\ (force => b.next - LeftEdge(b) >= MAXLEX) =>
                    r.rd = Len(r.file)
<1> DEFINE r == ii_flush(b, force, got).b
<1>1. CASE r = b
  BY <1>1
<1>2. CASE ~NO_MORE_CHARS(b) /\ MustFlush(b, force) /\ ~TooFull(b)
  <2>1. r = Refill(b, LeftEdge(b), got)
    BY <1>2 DEF ii_flush
  <2>2. got \in ReadResults(b, Need(b.end - LeftEdge(b))) /\ ~b.eof
    BY <1>2 DEF FlushReads, MustFlush
  <2>3. LeftEdge(b) \in 0..END /\ LeftEdge(b) <= b.sMark /\ (b.pMark # NULL => LeftEdge(b) <= b.pMark)
        /\ LeftEdge(b) >= MAXLEX
    BY <1>2, EdgeFacts, BufferSize DEF END, TooFull
  <2> HIDE DEF r
  <2> QED BY <2>1, <2>2, <2>3, RefillReadsAll DEF r
<1>3. CASE ~NO_MORE_CHARS(b) /\ MustFlush(b, force) /\ TooFull(b) /\ force
  <2> DEFINE d == ii_mark_start(b)
             c == ii_mark_prev(d)
  <2>1. r = Refill(c, b.next, got)
    BY <1>3 DEF ii_flush
  <2>2. got \in ReadResults(b, Need(b.end - b.next)) /\ ~b.eof /\ b.next \in 0..END
    BY <1>3, EdgeFacts, BufferSize DEF FlushReads, MustFlush
  <2>3. Sound(b)
    BY <1>3 DEF Sound
  <2>4. /\ Sound(d) /\ d.err = "none" /\ d.end = b.end
        /\ d.next = b.next /\ d.sMark = b.next /\ d.eof = b.eof /\ d.called = b.called
        /\ d.rd = b.rd /\ d.file = b.file
    BY <2>3, MarkStartSound DEF ii_mark_start, Sound, Typed, InputState
  <2> HIDE DEF d
  <2>6. /\ Sound(c) /\ c.err = "none" /\ c.end = b.end /\ c.next = b.next
        /\ c.sMark = b.next /\ c.pMark = b.next /\ ~c.eof /\ c.called
    BY <2>2, <2>4, MarkPrevSound
  <2>7. c.rd = b.rd /\ c.file = b.file
    BY <2>4 DEF ii_mark_prev, Sound, Typed, InputState
  <2>8. got \in ReadResults(c, Need(c.end - b.next))
    BY <2>2, <2>6, <2>7 DEF ReadResults
  <2>9. Typed(c) /\ Base(c) /\ b.next <= c.sMark /\ (c.pMark # NULL => b.next <= c.pMark)
    BY <2>2, <2>6, BufferSize DEF Sound
  <2>10. b.next - LeftEdge(b) >= MAXLEX => b.next >= MAXLEX
    BY EdgeFacts, BufferSize
  <2> HIDE DEF c, r
  <2> QED BY <1>3, <2>1, <2>2, <2>6, <2>7, <2>8, <2>9, <2>10, RefillReadsAll, ZenonT(60) DEF r
<1>4. \/ r = b
      \/ ~NO_MORE_CHARS(b) /\ MustFlush(b, force) /\ ~TooFull(b)
      \/ ~NO_MORE_CHARS(b) /\ MustFlush(b, force) /\ TooFull(b) /\ force
  BY DEF ii_flush
<1> QED BY <1>1, <1>2, <1>3, <1>4

LEMMA AdvanceReadsAll ==
    ASSUME ShortReads = FALSE,
           NEW b, Sound(b), b.err = "none", ReadsAll(b), NEW got \in AdvanceReads(b)
    PROVE  LET r == ii_advance(b, got).b
           IN  ReadsAll(r) /\ (r.err = "full" => r.rd = Len(r.file))
<1> DEFINE f == FirstAdvance(b)
           fl == ii_flush(f, FALSE, got)
           r == ii_advance(b, got).b
<1>1. /\ Typed(f) /\ f.err = "none" /\ Base(f) /\ f.called
  BY FirstAdvanceSound
<1>2. ReadsAll(f)
  BY DEF ReadsAll, FirstAdvance, Sound, Typed, InputState
<1>3. got \in FlushReads(f, FALSE)
  BY DEF AdvanceReads
<1> HIDE DEF f
<1>4. ReadsAll(fl.b) /\ (fl.b.err = "full" => fl.b.rd = Len(fl.b.file)) /\ Typed(fl.b)
  BY <1>1, <1>2, <1>3, FlushReadsAll, FlushSound
<1>5. r \in {f, fl.b, Consume(fl.b)}
  BY DEF ii_advance, f, fl
<1> HIDE DEF fl
<1>6. /\ Consume(fl.b).eof = fl.b.eof /\ Consume(fl.b).rd = fl.b.rd
      /\ Consume(fl.b).file = fl.b.file /\ Consume(fl.b).err = fl.b.err
  BY <1>4 DEF Consume, Typed, InputState
<1> HIDE DEF r
<1> QED BY <1>1, <1>2, <1>4, <1>5, <1>6 DEF ReadsAll, r

\* The calls of an action, with the lexeme terminated.
LEMMA UntermFields ==
    ASSUME NEW b, Typed(b)
    PROVE  LET m == ii_unterm(b)
           IN  /\ m.eof = b.eof /\ m.rd = b.rd /\ m.file = b.file /\ m.err = b.err
               /\ \A x : ReadsAll(b) => ReadsAll(m)
BY DEF ii_unterm, ReadsAll, Typed, InputState

LEMMA TermFields ==
    ASSUME NEW b, NEW c, Typed(c)
    PROVE  /\ ii_term(c).eof = c.eof /\ ii_term(c).rd = c.rd /\ ii_term(c).file = c.file
           /\ ii_term(c).err = c.err
           /\ Rewrap(b, c).eof = c.eof /\ Rewrap(b, c).rd = c.rd /\ Rewrap(b, c).file = c.file
           /\ Rewrap(b, c).err = c.err
BY DEF ii_term, Rewrap, Typed, InputState

LEMMA PushbackFields ==
    ASSUME NEW b, Typed(b), NEW n
    PROVE  LET m == ii_pushback(b, n).b
           IN  m.eof = b.eof /\ m.rd = b.rd /\ m.file = b.file /\ m.err = b.err
BY DEF ii_pushback, Typed, InputState

LEMMA InputReadsAll ==
    ASSUME ShortReads = FALSE,
           NEW b, Sound(b), b.err = "none", ReadsAll(b),
           NEW got \in AdvanceReads(ii_unterm(b))
    PROVE  LET r == ii_input(b, got).b
           IN  ReadsAll(r) /\ (r.err = "full" => r.rd = Len(r.file))
<1> DEFINE u == ii_unterm(b)
           a == ii_advance(u, got).b
           e == ii_mark_end(a)
           r == ii_input(b, got).b
<1>1. Sound(u) /\ u.err = "none" /\ ReadsAll(u)
  BY UntermSound, UntermFields DEF Sound
<1> HIDE DEF u
<1>2. /\ ReadsAll(a) /\ (a.err = "full" => a.rd = Len(a.file)) /\ Sound(a)
  BY <1>1, AdvanceReadsAll, AdvanceSound DEF u
<1> HIDE DEF a
<1>3. e.eof = a.eof /\ e.rd = a.rd /\ e.file = a.file /\ e.err = a.err
  BY <1>2 DEF ii_mark_end, Sound, Typed, InputState
<1>4. CASE a.err # "none"
  <2>1. r = a
    BY <1>4 DEF ii_input, u, a
  <2> HIDE DEF r
  <2> QED BY <1>2, <2>1 DEF r
<1>5. CASE a.err = "none"
  <2>1. r = Rewrap(b, e)
    BY <1>5 DEF ii_input, u, a
  <2>2. Typed(e)
    BY <1>2, <1>5, MarkEndSound DEF Sound
  <2> HIDE DEF e, r
  <2>3. r.eof = e.eof /\ r.rd = e.rd /\ r.file = e.file /\ r.err = e.err
    BY <2>1, <2>2, TermFields
  <2> QED BY <1>2, <1>3, <1>5, <2>3 DEF ReadsAll, r
<1> QED BY <1>4, <1>5

LEMMA UnputFields ==
    ASSUME NEW b, Sound(b), b.err = "none", b.text # <<>>, NEW c \in Chars
    PROVE  LET r == ii_unput(b, c)
           IN  r.eof = b.eof /\ r.rd = b.rd /\ r.file = b.file /\ r.err = b.err
<1> DEFINE u == ii_unterm(b)
           back == ii_pushback(u, 1)
           d == IF back.ret THEN Overwrite(back.b, c) ELSE back.b
<1>1. /\ Sound(u) /\ u.text # <<>> /\ u.err = "none"
      /\ u.eof = b.eof /\ u.rd = b.rd /\ u.file = b.file
  BY UntermSound, UntermFields DEF Sound
<1> HIDE DEF u
<1>2. /\ Sound(back.b) /\ back.b.text # <<>> /\ back.b.err = "none"
      /\ back.b.eof = u.eof /\ back.b.rd = u.rd /\ back.b.file = u.file
  BY <1>1, PushbackSound, PushbackFields DEF Sound
<1> HIDE DEF back
<1>3. /\ Overwrite(back.b, c).eof = back.b.eof /\ Overwrite(back.b, c).rd = back.b.rd
      /\ Overwrite(back.b, c).file = back.b.file /\ Overwrite(back.b, c).err = back.b.err
      /\ Sound(Overwrite(back.b, c))
  BY <1>2, OverwriteSound DEF Overwrite, Sound, Typed, InputState
<1>4. Typed(d) /\ d.eof = u.eof /\ d.rd = u.rd /\ d.file = u.file /\ d.err = "none"
  BY <1>2, <1>3 DEF Sound
<1> HIDE DEF d
<1>5. ii_unput(b, c) = Rewrap(b, d)
  BY DEF ii_unput, d, back, u
<1> QED BY <1>1, <1>4, <1>5, TermFields

\* A call that reads nothing keeps what it was told of the file.
LEMMA UnreadKeepsEnd ==
    ASSUME IInv, EofMeansAllRead, ib.err = "none",
           ib'.eof = ib.eof, ib'.rd = ib.rd, ib'.file = ib.file, ib'.err = ib.err
    PROVE  EofMeansAllRead' /\ FullOnlyAtEof'
BY DEF EofMeansAllRead, FullOnlyAtEof

LEMMA StepReadsAll ==
    ASSUME ShortReads = FALSE, IInv, EndInv, [Next]_vars
    PROVE  EndInv'
<1>e. EofMeansAllRead
  BY DEF EndInv
<1>0. /\ Sound(ib) /\ (ib.err = "none" /\ inAction => ib.text # <<>>) /\ ReadsAll(ib) /\ Typed(ib)
  BY <1>e DEF IInv, Loaded, EofMeansAllRead, ReadsAll, Sound
<1>a. ReadsAll(ib') /\ (ib'.err = "full" => ib'.rd = Len(ib'.file))
        => EofMeansAllRead' /\ FullOnlyAtEof'
  BY DEF ReadsAll, EofMeansAllRead, FullOnlyAtEof
<1>1. ASSUME NEW f \in Files, NewFile(f) PROVE EofMeansAllRead' /\ FullOnlyAtEof'
  <2>1. ib.err = "none" /\ ib' = ii_newfile(ib, f)
    BY <1>1 DEF NewFile, Scanning, Becomes
  <2>2. ~ib'.eof /\ ib'.err = "none"
    BY <1>0, <2>1 DEF ii_newfile, Typed, InputState
  <2> QED BY <2>2 DEF EofMeansAllRead, FullOnlyAtEof
<1>2. ASSUME Advance PROVE EofMeansAllRead' /\ FullOnlyAtEof'
  <2>1. PICK got \in AdvanceReads(ib) : ib' = ii_advance(ib, got).b
    BY <1>2 DEF Advance
  <2>2. ib.err = "none"
    BY <1>2 DEF Advance, Scanning
  <2> QED BY <1>0, <1>a, <2>1, <2>2, AdvanceReadsAll
<1>3. ASSUME ForceFlush PROVE EofMeansAllRead' /\ FullOnlyAtEof'
  <2>1. PICK got \in FlushReads(ib, TRUE) : ib' = ii_flush(ib, TRUE, got).b
    BY <1>3 DEF ForceFlush, Becomes
  <2>2. /\ ib.err = "none" /\ ib.called /\ Base(ib) /\ Ready(ib)
        /\ ib.next - LeftEdge(ib) >= MAXLEX
    BY <1>0, <1>3 DEF ForceFlush, Scanning, IInv, RefusedOnlyWhenFull, Sound
  <2> QED BY <1>0, <1>a, <2>1, <2>2, FlushReadsAll
<1>4. ASSUME NEW n \in 1..MaxBack, Pushback(n) PROVE EofMeansAllRead' /\ FullOnlyAtEof'
  <2>1. ib.err = "none" /\ ib' = ii_pushback(ib, n).b
    BY <1>4 DEF Pushback, Scanning, Becomes
  <2> QED BY <1>0, <2>1, PushbackFields, <1>e, UnreadKeepsEnd
<1>5. ASSUME NEW n \in 1..MaxBack, Less(n) PROVE EofMeansAllRead' /\ FullOnlyAtEof'
  <2> DEFINE u == ii_unterm(ib)
             p == ii_pushback(u, n).b
  <2>1. ib.err = "none" /\ inAction /\ ib' = ii_term(p) /\ n \in Nat
    BY <1>5, ClientAssumption DEF Less, Acting, Becomes
  <2>2. Sound(u) /\ u.err = "none" /\ u.eof = ib.eof /\ u.rd = ib.rd /\ u.file = ib.file
    BY <1>0, <2>1, UntermSound, UntermFields
  <2> HIDE DEF u
  <2>3. /\ Typed(p) /\ p.eof = u.eof /\ p.rd = u.rd /\ p.file = u.file /\ p.err = u.err
    BY <2>1, <2>2, PushbackSound, PushbackFields DEF Sound
  <2> HIDE DEF p
  <2>4. ib'.eof = ib.eof /\ ib'.rd = ib.rd /\ ib'.file = ib.file /\ ib'.err = ib.err
    BY <2>1, <2>2, <2>3, TermFields
  <2> QED BY <2>1, <2>4, <1>e, UnreadKeepsEnd
<1>6. ASSUME MarkStart \/ MarkEnd \/ MoveStart \/ ToMark \/ MarkPrev
      PROVE  EofMeansAllRead' /\ FullOnlyAtEof'
  <2>1. /\ ib.err = "none"
        /\ \/ ib' = ii_mark_start(ib) \/ ib' = ii_mark_end(ib) \/ ib' = ii_move_start(ib)
           \/ ib' = ii_to_mark(ib) \/ ib' = ii_mark_prev(ib)
    BY <1>6 DEF MarkStart, MarkEnd, MoveStart, ToMark, MarkPrev, Scanning, Becomes
  <2>2. ib'.eof = ib.eof /\ ib'.rd = ib.rd /\ ib'.file = ib.file /\ ib'.err = ib.err
    BY <1>0, <2>1, ZenonT(60) DEF Typed, InputState, ii_mark_start, ii_mark_end, ii_move_start,
                      ii_to_mark, ii_mark_prev
  <2> QED BY <2>1, <2>2, <1>e, UnreadKeepsEnd
<1>7. ASSUME Term \/ Unterm PROVE EofMeansAllRead' /\ FullOnlyAtEof'
  <2>1. ib.err = "none" /\ (ib' = ii_term(ib) \/ ib' = ii_unterm(ib))
    BY <1>7 DEF Term, Unterm, Scanning
  <2>2. ib'.eof = ib.eof /\ ib'.rd = ib.rd /\ ib'.file = ib.file /\ ib'.err = ib.err
    BY <1>0, <2>1, TermFields, UntermFields
  <2> QED BY <2>1, <2>2, <1>e, UnreadKeepsEnd
<1>8. ASSUME Input PROVE EofMeansAllRead' /\ FullOnlyAtEof'
  <2>1. PICK got \in AdvanceReads(ii_unterm(ib)) : ib' = ii_input(ib, got).b
    BY <1>8 DEF Input, Becomes
  <2>2. ib.err = "none"
    BY <1>8 DEF Input, Acting
  <2> QED BY <1>0, <1>a, <2>1, <2>2, InputReadsAll
<1>9. ASSUME NEW c \in UnputChars, Unput(c) PROVE EofMeansAllRead' /\ FullOnlyAtEof'
  <2>1. ib.err = "none" /\ ib.text # <<>> /\ ib' = ii_unput(ib, c) /\ c \in Chars
    BY <1>0, <1>9, ClientAssumption DEF Unput, Acting
  <2>2. ib'.eof = ib.eof /\ ib'.rd = ib.rd /\ ib'.file = ib.file /\ ib'.err = ib.err
    BY <1>0, <2>1, UnputFields
  <2> QED BY <2>1, <2>2, <1>e, UnreadKeepsEnd
<1>10. ASSUME FlushBuf PROVE EofMeansAllRead' /\ "flushbuf" \in Calls
  <2> DEFINE u == ii_unterm(ib)
  <2>1. PICK got \in FlushReads(u, TRUE) : ib' = ii_flushbuf(ib, got).b
    BY <1>10 DEF FlushBuf, Becomes
  <2>2. ib.err = "none" /\ ib.text # <<>> /\ "flushbuf" \in Calls
    BY <1>0, <1>10 DEF FlushBuf, Acting
  <2>3. Sound(u) /\ u.err = "none" /\ u.text # <<>> /\ ReadsAll(u)
    BY <1>0, <2>2, UntermSound, UntermFields
  <2>4. ib' = ii_flush(u, TRUE, got).b
    BY <2>1 DEF ii_flushbuf
  <2> HIDE DEF u
  <2>5. u.called /\ Typed(u) /\ Base(u) /\ Ready(u)
    BY <2>3, FieldTypes DEF Sound, Base
  <2>6. ReadsAll(ib')
    BY <2>1, <2>3, <2>4, <2>5, FlushReadsAll
  <2> QED BY <2>2, <2>6 DEF ReadsAll, EofMeansAllRead
<1>11. CASE UNCHANGED vars
  BY <1>11 DEF vars, EndInv, EofMeansAllRead, FullOnlyAtEof
<1> QED BY <1>1, <1>2, <1>3, <1>4, <1>5, <1>6, <1>7, <1>8, <1>9, <1>10, <1>11 DEF Next, EndInv

LEMMA EndInvariant ==
    ASSUME ShortReads = FALSE
    PROVE  Spec => []EndInv
<1>1. Init => EndInv
  <2> SUFFICES ASSUME Init PROVE EndInv
    OBVIOUS
  <2>1. PICK f \in Files : ib = Statics(f)
    BY DEF Init
  <2>2. ~ib.eof /\ ib.err = "none"
    BY <2>1 DEF Statics
  <2> QED BY <2>2 DEF EndInv, EofMeansAllRead, FullOnlyAtEof
<1>2. IInv /\ EndInv /\ [Next]_vars => EndInv'
  BY StepReadsAll
<1> QED BY <1>1, <1>2, InputInvariant, PTL DEF Spec

\* When read() returns what it is asked for until the file ends, Eof_read is only set when
\* nothing is left in the file.
THEOREM EofMeansRead == ASSUME ShortReads = FALSE PROVE Spec => []EofMeansAllRead
<1>1. EndInv => EofMeansAllRead
  BY DEF EndInv
<1> QED BY <1>1, EndInvariant, PTL

\* ... and unless an action forces a flush, no refill fails for want of room.
THEOREM FullMeansEof ==
    ASSUME ShortReads = FALSE, "flushbuf" \notin Calls
    PROVE  Spec => []FullOnlyAtEof
<1>1. EndInv => FullOnlyAtEof
  BY DEF EndInv
<1> QED BY <1>1, EndInvariant, PTL

=============================================================================
