------------------------------ MODULE LexerProofs ------------------------------
(***************************************************************************)
(* Proofs about yylex(), for every pair of tables, every set of files and  *)
(* every mixture of the calls that the code of the rules may make: it is a *)
(* client that keeps to the protocol of the input system, and the yytext   *)
(* and yyleng that a rule sees are the lexeme, as a C string, until        *)
(* unput() finds the lexeme empty and counts down all the same.  Then that *)
(* it cuts its input as MaximalMunch promises: each lexeme it gives to a   *)
(* rule is the longest prefix of the rest of the input that the state      *)
(* machine accepts, although the buffer is refilled and moved while the    *)
(* lexeme is collected.                                                    *)
(***************************************************************************)
EXTENDS Lexer, InputProofs, LeastElements

-----------------------------------------------------------------------------
(* The inductive invariant *)

States == DOMAIN Yy_nxt

\* A rule's code runs, or has returned and yylex() has not been called again.
Holding == pc = "action" \/ (pc = "idle" /\ yystate # -1)

LexTypes ==
    /\ pc \in labels
    /\ yystate \in States \union {-1} /\ yynstate \in States \union {YYF}
    /\ yyprev \in States /\ yylastaccept \in States
    /\ yyanchor \in 0..4 /\ yymoreflg \in 0..1
    /\ calls \in 0..MaxUserCalls
    /\ missed \in Nat
    /\ yyleng \in -missed..BUFSIZE /\ yytext \in 0..END /\ start \in Nat
    /\ out \in Seq([state : States, text : Seq(Chars)])

\* The machine is in a state while characters are read, and has a state to go to when one
\* has been chosen.
Driven ==
    /\ pc \notin {"idle", "init", "unload", "top"} => yystate # -1
    /\ pc \in {"shift", "discard", "note"} => yynstate # YYF

\* From the return to the mark until the rule's code has ended, the next character is the
\* one behind the lexeme: what is read or pushed back changes both ends of it alike.
AtLexemeEnd ==
    ib.err = "none" /\ (pc \in {"unread", "skip", "term"} \/ Holding) => ib.next = ib.eMark

\* yytext is the lexeme and yyleng its length, less what unput() took off an empty one.
Described ==
    ib.err = "none" /\ Holding =>
        yytext = ib.sMark /\ yyleng <= Length /\ Length - missed <= yyleng

\* The place behind the lexeme holds a NUL; that the NUL is not one ii_term() wrote is
\* possible at the end of the file only, where input() has nothing to move.
StringEnds(b) == b.buf[b.next] = NUL /\ (b.term = NUL => NO_MORE_CHARS(b))

Terminated == ib.err = "none" /\ unputs = 0 /\ Holding => StringEnds(ib)

LexInv == LexTypes /\ Driven /\ AtLexemeEnd /\ Described /\ Terminated

-----------------------------------------------------------------------------
(* yylex() is a client of the input system *)

\* Every step of yylex() is a call that InputClient allows in that state, or none.
LEMMA LexStepIsCall == LexNext => [Next]_vars
<1> SUFFICES ASSUME LexNext PROVE [Next]_vars
  OBVIOUS
<1>0. 1 \in 1..MaxBack
  BY LexerAssumption, ClientAssumption
<1>1. CASE Call \/ Look \/ WrapUp \/ UserReturn \/ UserMore
  BY <1>1 DEF Call, Look, WrapUp, UserReturn, UserMore
<1>2. CASE LoadFirst \/ Reload \/ ShiftState \/ BadInput
  BY <1>2 DEF LoadFirst, Reload, ShiftState, BadInput, Next
<1>3. CASE Unload \/ UnreadNewline
  BY <1>0, <1>3 DEF Unload, UnreadNewline, Next
<1>4. CASE Top \/ Resume
  BY <1>4 DEF Top, Resume, Next
<1>5. CASE Mark \/ Restart
  BY <1>5 DEF Mark, Restart, Next
<1>6. CASE WrapOpen \/ Discard
  BY <1>6 DEF WrapOpen, Discard, Next
<1>7. CASE Note
  BY <1>7 DEF Note, Next
<1>8. CASE BackUp \/ SkipNewline \/ Accept
  BY <1>8 DEF BackUp, SkipNewline, Accept, Next
<1>9. CASE UserInput
  <2>1. Input
    BY <1>9 DEF UserInput, Input
  <2> QED BY <2>1 DEF Next
<1>10. CASE \E n \in 1..MaxBack : UserLess(n)
  BY <1>10 DEF UserLess, Next
<1>11. CASE \E c \in UnputChars : UserUnput(c)
  BY <1>11 DEF UserUnput, Next
<1> QED BY <1>1, <1>2, <1>3, <1>4, <1>5, <1>6, <1>7, <1>8, <1>9, <1>10, <1>11 DEF LexNext

\* Everything that is proved of the input system holds of a lexer's.
THEOREM LexerIsClient == LexSpec => Spec
<1>1. LexInit => Init
  BY DEF LexInit
<1>2. [LexNext]_lexVars => [Next]_vars
  BY LexStepIsCall DEF lexVars, vars
<1> QED BY <1>1, <1>2, PTL DEF LexSpec, Spec

-----------------------------------------------------------------------------
(* What the calls of the input system do to the lexeme *)

LEMMA UntermPlaces ==
    ASSUME NEW b, Typed(b)
    PROVE  LET u == ii_unterm(b)
           IN  /\ u.next = b.next /\ u.sMark = b.sMark /\ u.eMark = b.eMark
               /\ u.end = b.end /\ u.eof = b.eof /\ u.term = NUL
               /\ b.term = NUL => u = b
BY DEF ii_unterm, Typed, InputState

LEMMA TermPlaces ==
    ASSUME NEW b, Typed(b)
    PROVE  LET t == ii_term(b)
           IN  /\ t.next = b.next /\ t.sMark = b.sMark /\ t.eMark = b.eMark
               /\ t.end = b.end /\ t.eof = b.eof /\ t.err = b.err /\ t.term = b.buf[b.next]
               /\ t.buf = [b.buf EXCEPT ![b.next] = NUL]
BY DEF ii_term, Typed, InputState

\* A character of the text is not NUL.
LEMMA TextIsChars ==
    ASSUME NEW b, Typed(b), Base(b), Faithful(b), NEW i \in LeftEdge(b)..b.end-1
    PROVE  At(b, i) \in Chars
<1>1. i \in LeftEdge(b)..b.end /\ i < b.end
  BY EdgeFacts
<1>2. Pos(b, i) + 1 \in 1..Len(b.text)
  BY <1>1, PositionFacts
<1>3. b.text \in Seq(Chars)
  BY FieldTypes
<1>4. At(b, i) = b.text[Pos(b, i) + 1]
  BY DEF Faithful, Shows
<1> QED BY <1>2, <1>3, <1>4

LEMMA TermEnds ==
    ASSUME NEW b, Sound(b), b.err = "none", Faithful(b), b.term = NUL, b.text # <<>>
    PROVE  StringEnds(ii_term(b))
<1> DEFINE t == ii_term(b)
<1>1. Typed(b) /\ Base(b) /\ Ready(b)
  BY DEF Sound
<1>2. /\ t.next = b.next /\ t.end = b.end /\ t.eof = b.eof /\ t.term = b.buf[b.next]
      /\ t.buf = [b.buf EXCEPT ![b.next] = NUL]
  BY <1>1, TermPlaces
<1>3. b.next \in 0..BUFSIZE-1 /\ b.buf \in [0..BUFSIZE-1 -> Chars \union {NUL}]
  BY <1>1, RoomForTerminator, FieldTypes
<1>4. t.buf[t.next] = NUL
  BY <1>2, <1>3
<1>5. ASSUME t.term = NUL PROVE NO_MORE_CHARS(t)
  <2>1. ~(b.next < b.end)
    <3> SUFFICES ASSUME b.next < b.end PROVE FALSE
      OBVIOUS
    <3>1. b.next \in LeftEdge(b)..b.end-1
      BY <1>1, EdgeFacts
    <3>2. b.buf[b.next] \in Chars
      BY <1>1, <3>1, TextIsChars DEF At
    <3> QED BY <1>2, <1>5, <3>2, CharAssumption
  <2>2. b.eof
    BY <1>1, <2>1, EdgeFacts, FieldTypes, BufferSize DEF Ready
  <2> QED BY <1>1, <1>2, <2>1, <2>2, EdgeFacts DEF NO_MORE_CHARS
<1> QED BY <1>4, <1>5 DEF StringEnds

\* ii_advance() delivers one character of the text, or leaves everything as it is.
LEMMA AdvanceDelivers ==
    ASSUME NEW b, Sound(b), b.err = "none", Faithful(b), b.term = NUL, b.text # <<>>,
           NEW got \in AdvanceReads(b), ii_advance(b, got).b.err = "none"
    PROVE  LET r == ii_advance(b, got)
           IN  /\ \/ r.ret \in {0, -1} /\ r.b = b
                  \/ r.ret \in Chars /\ r.b.next - r.b.sMark = (b.next - b.sMark) + 1
               /\ NO_MORE_CHARS(b) => r.b = b
<1> DEFINE fl == ii_flush(b, FALSE, got)
           c == fl.b
           r == ii_advance(b, got)
<1>1. /\ FirstAdvance(b) = b /\ Typed(b) /\ Base(b) /\ b.called
  BY FirstAdvanceSound DEF Sound
<1>2. got \in FlushReads(b, FALSE)
  BY <1>1 DEF AdvanceReads
<1>3. r = IF NO_MORE_CHARS(b) THEN [b |-> b, ret |-> 0]
          ELSE IF fl.ret < 0 \/ fl.b.err # "none" THEN [b |-> fl.b, ret |-> -1]
          ELSE [b |-> Consume(fl.b), ret |-> fl.b.buf[fl.b.next]]
  BY <1>1 DEF ii_advance
<1>4. fl.ret \in {-1, 0, 1} /\ (fl.ret = -1 => fl.b = b)
  BY DEF ii_flush
<1>5. /\ Typed(c)
      /\ c.err = "none" =>
           /\ Base(c)
           /\ fl.ret # -1 /\ ~NO_MORE_CHARS(b) => c.end > c.next
  BY <1>1, <1>2, FlushSound
<1>6. c.err = "none" =>
           /\ Faithful(c) /\ c.term = NUL
           /\ Pos(c, c.next) = Pos(b, b.next) /\ Pos(c, c.sMark) = Pos(b, b.sMark)
  BY <1>1, <1>2, FlushFaithful
<1> HIDE DEF fl
<1>7. CASE NO_MORE_CHARS(b)
  <2>1. r = [b |-> b, ret |-> 0]
    BY <1>3, <1>7
  <2> HIDE DEF r
  <2> QED BY <2>1 DEF r
<1>8. CASE ~NO_MORE_CHARS(b) /\ (fl.ret < 0 \/ fl.b.err # "none")
  <2>1. r = [b |-> fl.b, ret |-> -1]
    BY <1>3, <1>8
  <2> HIDE DEF r
  <2>2. fl.b.err = "none"
    BY <2>1 DEF r
  <2>3. fl.b = b
    BY <1>4, <1>8, <2>2
  <2> QED BY <1>8, <2>1, <2>3 DEF r
<1>9. CASE ~NO_MORE_CHARS(b) /\ ~(fl.ret < 0 \/ fl.b.err # "none")
  <2>1. r = [b |-> Consume(c), ret |-> c.buf[c.next]]
    BY <1>3, <1>9
  <2>2. /\ Typed(c) /\ Base(c) /\ c.end > c.next /\ Faithful(c) /\ c.term = NUL
        /\ Pos(c, c.next) = Pos(b, b.next) /\ Pos(c, c.sMark) = Pos(b, b.sMark)
    BY <1>4, <1>5, <1>6, <1>9
  <2> HIDE DEF c, r
  <2>3. c.buf[c.next] \in Chars
    <3>1. c.next \in LeftEdge(c)..c.end-1
      BY <2>2, EdgeFacts
    <3> QED BY <2>2, <3>1, TextIsChars DEF At
  <2>4. Consume(c).next = c.next + 1 /\ Consume(c).sMark = c.sMark
    BY <2>2 DEF Consume, Typed, InputState
  <2>5. c.next - c.sMark = b.next - b.sMark
    <3>1. b.next \in Int /\ b.sMark \in Int /\ c.next \in Int /\ c.sMark \in Int
      BY <1>1, <2>2, EdgeFacts
    <3>2. Pos(c, c.sMark) \in Int /\ Pos(b, b.sMark) \in Int
          /\ Pos(c, c.next) = Pos(c, c.sMark) + (c.next - c.sMark)
          /\ Pos(b, b.next) = Pos(b, b.sMark) + (b.next - b.sMark)
      BY <1>1, <2>2, <3>1, PositionSteps
    <3> DEFINE p == Pos(c, c.sMark)
               d == c.next - c.sMark
               e == b.next - b.sMark
    <3>3. p + d = p + e
      BY <2>2, <3>2, Zenon
    <3>5. p \in Int /\ d \in Int /\ e \in Int
      BY <3>1, <3>2
    <3> HIDE DEF p, d, e
    <3>4. d = e
      BY <3>3, <3>5
    <3> QED BY <3>4 DEF d, e
  <2>6. (c.next + 1) - c.sMark = (b.next - b.sMark) + 1
    BY <1>1, <2>2, <2>5, EdgeFacts, SMTT(30)
  <2> QED BY <1>9, <2>1, <2>3, <2>4, <2>6 DEF r
<1> QED BY <1>7, <1>8, <1>9

\* A pushback from the end of the lexeme shortens it, by what it was asked for if it
\* reports success and to nothing if it does not.
LEMMA PushbackShortens ==
    ASSUME NEW b, Sound(b), b.err = "none", b.next = b.eMark, NEW n \in Nat \ {0}
    PROVE  LET m == ii_pushback(b, n)
           IN  /\ m.b.next = m.b.eMark /\ m.b.sMark = b.sMark
               /\ m.ret \in BOOLEAN
               /\ m.b.eMark - m.b.sMark
                    = (b.eMark - b.sMark) - (IF m.ret THEN n ELSE b.eMark - b.sMark)
               /\ b.eMark - b.sMark >= n =>
                    m.b.eMark - m.b.sMark = (b.eMark - b.sMark) - n
<1> DEFINE to == b.next - Pushed(b, n)
           ln == b.line - Cardinality({i \in to..b.next - 1 : b.buf[i] = NL})
           back == [b EXCEPT !.next = to, !.line = ln]
           m == ii_pushback(b, n)
<1>1. Typed(b) /\ Base(b)
  BY DEF Sound
<1>2. b.sMark \in Nat /\ b.next \in Nat /\ b.eMark \in Nat /\ b.sMark <= b.next
  BY <1>1, EdgeFacts
<1>3. /\ to \in b.sMark..b.next
      /\ to > b.sMark => to = b.next - n
      /\ b.next - b.sMark >= n => to = b.next - n
      /\ to < b.next \/ (to = b.next /\ to = b.sMark)
  BY <1>2 DEF Pushed
<1> HIDE DEF to, ln
<1>4. m.b = (IF to < b.eMark THEN [back EXCEPT !.eMark = to, !.mline = ln] ELSE back)
      /\ m.ret = (to > b.sMark)
  BY DEF ii_pushback, to, ln
<1> HIDE DEF m
<1>5. m.b.next = to /\ m.b.sMark = b.sMark /\ m.b.eMark = to
  BY <1>1, <1>2, <1>3, <1>4 DEF Typed, InputState
<1>6. m.ret \in BOOLEAN
      /\ to - b.sMark = (b.eMark - b.sMark) - (IF m.ret THEN n ELSE b.eMark - b.sMark)
  <2>1. CASE to > b.sMark
    <3>1. m.ret = TRUE
      BY <1>4, <2>1
    <3>2. to - b.sMark = (b.eMark - b.sMark) - n
      BY <1>2, <1>3, <2>1
    <3> QED BY <3>1, <3>2
  <2>2. CASE ~(to > b.sMark)
    <3>3. (to > b.sMark) = FALSE
      BY <2>2
    <3>1. m.ret = FALSE
      BY <1>4, <3>3
    <3>2. to = b.sMark /\ to - b.sMark = (b.eMark - b.sMark) - (b.eMark - b.sMark)
      BY <1>2, <1>3, <2>2
    <3> QED BY <3>1, <3>2
  <2> QED BY <2>1, <2>2
<1>7. b.eMark - b.sMark >= n => to - b.sMark = (b.eMark - b.sMark) - n
  BY <1>2, <1>3
<1> QED BY <1>5, <1>6, <1>7 DEF m

LEMMA RewrapPlaces ==
    ASSUME NEW b, NEW c, Typed(c)
    PROVE  LET t == Rewrap(b, c)
           IN  t.next = c.next /\ t.sMark = c.sMark /\ t.eMark = c.eMark /\ t.err = c.err
BY TermPlaces DEF Rewrap

\* input() adds the character it delivers to the lexeme.
LEMMA InputExtends ==
    ASSUME NEW b, Sound(b), b.err = "none", Faithful(b), b.text # <<>>, b.next = b.eMark,
           NEW got \in AdvanceReads(ii_unterm(b)), ii_input(b, got).b.err = "none"
    PROVE  LET r == ii_input(b, got)
           IN  /\ r.b.next = r.b.eMark
               /\ r.ret \in {0, -1} => r.b.sMark = b.sMark /\ r.b.eMark = b.eMark
               /\ r.ret \notin {0, -1} =>
                    r.b.eMark - r.b.sMark = (b.eMark - b.sMark) + 1
               /\ StringEnds(b) => StringEnds(r.b)
<1> DEFINE u == ii_unterm(b)
           a == ii_advance(u, got)
           e == ii_mark_end(a.b)
           r == ii_input(b, got)
<1>1. /\ Sound(u) /\ u.text # <<>> /\ u.err = "none"
      /\ Faithful(u) /\ u.term = NUL
      /\ u.next = b.next /\ u.sMark = b.sMark /\ u.eMark = b.eMark
      /\ b.term = NUL => u = b
  BY UntermSound, UntermFaithful, UntermPlaces DEF Sound
<1> HIDE DEF u
<1>2. r = [b |-> IF a.b.err # "none" THEN a.b ELSE Rewrap(b, e), ret |-> a.ret]
  BY DEF ii_input, u
<1> HIDE DEF r
<1>3. r.ret = a.ret /\ a.b.err = "none" /\ r.b = Rewrap(b, e)
  <2>1. r.b.err = "none"
    BY DEF r
  <2> QED BY <1>2, <2>1
<1>4. /\ \/ a.ret \in {0, -1} /\ a.b = u
         \/ a.ret \in Chars /\ a.b.next - a.b.sMark = (u.next - u.sMark) + 1
      /\ NO_MORE_CHARS(u) => a.b = u
  BY <1>1, <1>3, AdvanceDelivers DEF u
<1>5. Sound(a.b) /\ a.b.text # <<>> /\ Faithful(a.b) /\ a.b.term = NUL
  BY <1>1, <1>3, AdvanceSound, AdvanceFaithful DEF u
<1> HIDE DEF a
<1>6. /\ e.next = a.b.next /\ e.eMark = a.b.next /\ e.sMark = a.b.sMark
      /\ e.buf = a.b.buf /\ e.end = a.b.end /\ e.eof = a.b.eof /\ e.term = a.b.term
  BY <1>5 DEF ii_mark_end, Sound, Typed, InputState
<1>7. Sound(e) /\ e.err = "none" /\ e.text # <<>> /\ Faithful(e) /\ e.term = NUL
  BY <1>3, <1>5, MarkEndSound, MarksFaithful
<1> HIDE DEF e
<1>8. r.b.next = a.b.next /\ r.b.eMark = a.b.next /\ r.b.sMark = a.b.sMark
  BY <1>3, <1>6, <1>7, RewrapPlaces DEF Sound
<1>9. StringEnds(b) => StringEnds(r.b)
  <2>1. CASE b.term # NUL
    BY <1>3, <1>7, <2>1, TermEnds DEF Rewrap
  <2>2. CASE b.term = NUL
    <3> SUFFICES ASSUME StringEnds(b) PROVE StringEnds(r.b)
      OBVIOUS
    <3>1. a.b = b /\ r.b = e
      BY <1>1, <1>3, <1>4, <2>2 DEF StringEnds, Rewrap
    <3> QED BY <1>6, <3>1 DEF StringEnds, NO_MORE_CHARS
  <2> QED BY <2>1, <2>2
<1>10. a.ret \in Chars => a.ret \notin {0, -1}
  BY CharAssumption DEF NUL
<1> QED BY <1>1, <1>3, <1>4, <1>8, <1>9, <1>10 DEF r

LEMMA LessShortens ==
    ASSUME NEW b, Sound(b), b.err = "none", Faithful(b), b.text # <<>>, b.next = b.eMark,
           NEW n \in Nat \ {0}
    PROVE  LET back == ii_pushback(ii_unterm(b), n)
               m == ii_term(back.b)
           IN  /\ m.next = m.eMark /\ m.sMark = b.sMark
               /\ m.eMark - m.sMark
                    = (b.eMark - b.sMark) - (IF back.ret THEN n ELSE b.eMark - b.sMark)
               /\ StringEnds(m)
<1> DEFINE u == ii_unterm(b)
           back == ii_pushback(u, n)
           m == ii_term(back.b)
<1>1. /\ Sound(u) /\ u.text # <<>> /\ u.err = "none"
      /\ Faithful(u) /\ u.term = NUL
      /\ u.next = b.next /\ u.sMark = b.sMark /\ u.eMark = b.eMark
  BY UntermSound, UntermFaithful, UntermPlaces DEF Sound
<1> HIDE DEF u
<1>2. /\ Sound(back.b) /\ back.b.text # <<>> /\ back.b.err = "none"
      /\ Faithful(back.b) /\ back.b.term = NUL
  BY <1>1, PushbackSound, PushbackFaithful
<1>3. /\ back.b.next = back.b.eMark /\ back.b.sMark = u.sMark
      /\ back.b.eMark - back.b.sMark
           = (u.eMark - u.sMark) - (IF back.ret THEN n ELSE u.eMark - u.sMark)
  BY <1>1, PushbackShortens
<1> HIDE DEF back
<1>4. m.next = back.b.next /\ m.sMark = back.b.sMark /\ m.eMark = back.b.eMark
  BY <1>2, TermPlaces DEF Sound
<1>5. StringEnds(m)
  BY <1>2, TermEnds
<1> HIDE DEF m
<1> QED BY <1>1, <1>3, <1>4, <1>5 DEF m, back, u

\* unput() shortens the lexeme by one character; an empty one stays empty.
LEMMA UnputShortens ==
    ASSUME NEW b, Sound(b), b.err = "none", Faithful(b), b.text # <<>>, b.next = b.eMark,
           NEW c \in Chars
    PROVE  LET m == ii_unput(b, c)
           IN  /\ m.next = m.eMark /\ m.sMark = b.sMark
               /\ b.eMark - b.sMark = 0 => m.eMark - m.sMark = 0
               /\ b.eMark - b.sMark # 0 => m.eMark - m.sMark = (b.eMark - b.sMark) - 1
<1> DEFINE u == ii_unterm(b)
           back == ii_pushback(u, 1)
           d == IF back.ret THEN Overwrite(back.b, c) ELSE back.b
           m == ii_unput(b, c)
<1>1. /\ Sound(u) /\ u.text # <<>> /\ u.err = "none"
      /\ Faithful(u) /\ u.term = NUL
      /\ u.next = b.next /\ u.sMark = b.sMark /\ u.eMark = b.eMark
  BY UntermSound, UntermFaithful, UntermPlaces DEF Sound
<1> HIDE DEF u
<1>2. Sound(back.b) /\ back.b.text # <<>> /\ back.b.err = "none"
  BY <1>1, PushbackSound
<1>3. /\ back.b.next = back.b.eMark /\ back.b.sMark = u.sMark
      /\ u.eMark - u.sMark = 0 => back.b.eMark - back.b.sMark = 0
      /\ u.eMark - u.sMark # 0 => back.b.eMark - back.b.sMark = (u.eMark - u.sMark) - 1
  <2> HIDE DEF back
  <2>1. /\ back.b.next = back.b.eMark /\ back.b.sMark = u.sMark
        /\ back.b.eMark - back.b.sMark
             = (u.eMark - u.sMark) - (IF back.ret THEN 1 ELSE u.eMark - u.sMark)
        /\ u.eMark - u.sMark >= 1 => back.b.eMark - back.b.sMark = (u.eMark - u.sMark) - 1
    BY <1>1, PushbackShortens DEF back
  <2>2. u.eMark - u.sMark \in Nat /\ back.b.eMark - back.b.sMark \in Nat
    BY <1>1, <1>2, EdgeFacts DEF Sound
  <2> QED BY <2>1, <2>2
<1> HIDE DEF back
<1>4. d.next = back.b.next /\ d.sMark = back.b.sMark /\ d.eMark = back.b.eMark
  BY <1>2 DEF Overwrite, Sound, Typed, InputState
<1>5. Typed(d)
  BY <1>2, OverwriteSound DEF Sound
<1> HIDE DEF d
<1>6. m = Rewrap(b, d)
  BY DEF ii_unput, d, back, u
<1> HIDE DEF m
<1>7. m.next = d.next /\ m.sMark = d.sMark /\ m.eMark = d.eMark
  BY <1>5, <1>6, RewrapPlaces
<1> QED BY <1>1, <1>3, <1>4, <1>7 DEF m

\* Nothing is delivered when the program ends in the call.
LEMMA FailedInput ==
    ASSUME NEW b, Sound(b), b.err = "none", Faithful(b), b.text # <<>>,
           NEW got \in AdvanceReads(ii_unterm(b)), ii_input(b, got).b.err # "none"
    PROVE  ii_input(b, got).ret \in {0, -1}
<1> DEFINE u == ii_unterm(b)
           a == ii_advance(u, got)
           e == ii_mark_end(a.b)
           r == ii_input(b, got)
<1>1. Sound(u) /\ u.err = "none"
  BY UntermSound
<1> HIDE DEF u
<1>2. r = [b |-> IF a.b.err # "none" THEN a.b ELSE Rewrap(b, e), ret |-> a.ret]
  BY DEF ii_input, u
<1> HIDE DEF r
<1>3. a.b.err # "none"
  <2> SUFFICES ASSUME a.b.err = "none" PROVE FALSE
    OBVIOUS
  <2>1. Sound(a.b)
    BY <1>1, AdvanceSound DEF u
  <2> HIDE DEF a
  <2>2. Typed(e) /\ e.err = "none"
    BY <2>1, MarkEndSound DEF Sound
  <2> HIDE DEF e
  <2>3. r.b = Rewrap(b, e)
    BY <1>2
  <2>4. Rewrap(b, e).err = e.err
    BY <2>2, RewrapPlaces
  <2> QED BY <2>2, <2>3, <2>4 DEF r
<1>4. a.ret \in {0, -1}
  <2> DEFINE f == FirstAdvance(u)
             fl == ii_flush(f, FALSE, got)
  <2>1. a = IF NO_MORE_CHARS(f) THEN [b |-> f, ret |-> 0]
            ELSE IF fl.ret < 0 \/ fl.b.err # "none" THEN [b |-> fl.b, ret |-> -1]
            ELSE [b |-> Consume(fl.b), ret |-> fl.b.buf[fl.b.next]]
    BY DEF ii_advance
  <2>2. /\ Typed(f) /\ f.err = "none" /\ Base(f) /\ f.called
        /\ got \in FlushReads(f, FALSE)
    BY <1>1, FirstAdvanceSound DEF AdvanceReads, u
  <2> HIDE DEF f
  <2>3. Typed(fl.b)
    BY <2>2, FlushSound
  <2> HIDE DEF fl, a
  <2>4. CASE NO_MORE_CHARS(f) \/ fl.ret < 0 \/ fl.b.err # "none"
    BY <2>1, <2>4
  <2>5. CASE ~(NO_MORE_CHARS(f) \/ fl.ret < 0 \/ fl.b.err # "none")
    <3>1. a.b = Consume(fl.b)
      BY <2>1, <2>5
    <3>2. Consume(fl.b).err = "none"
      BY <2>3, <2>5 DEF Consume, Typed, InputState
    <3> QED BY <1>3, <3>1, <3>2
  <2> QED BY <2>4, <2>5
<1> QED BY <1>2, <1>4 DEF r

\* The transition that is looked up is in the tables.
LEMMA LookIsChar ==
    ASSUME NEW b, Typed(b), Base(b), ii_look(b, 1) # EOF
    PROVE  ii_look(b, 1) \in Chars \union {NUL}
<1>1. b.next \in Nat /\ b.end \in Nat /\ b.next <= b.end /\ b.end <= BUFSIZE /\ BUFSIZE \in Nat
  BY EdgeFacts
<1>2. b.buf \in [0..BUFSIZE-1 -> Chars \union {NUL}]
  BY FieldTypes
<1>3. CASE 1 > b.end - b.next
  BY <1>3 DEF ii_look, NUL
<1>4. CASE ~(1 > b.end - b.next)
  <2>1. b.next + 1 - 1 \in 0..BUFSIZE-1
    BY <1>1, <1>4
  <2>2. ii_look(b, 1) = 0 \/ ii_look(b, 1) = b.buf[b.next + 1 - 1]
    BY <1>4 DEF ii_look
  <2> QED BY <1>2, <2>1, <2>2 DEF NUL
<1> QED BY <1>3, <1>4

\* The lexeme is a sequence of characters, without the terminator of the last one.
LEMMA LexemeIsText ==
    ASSUME Sound(ib), ib.err = "none", Faithful(ib), ib.term = NUL
    PROVE  Lexeme \in Seq(Chars)
<1> DEFINE n == ib.eMark - ib.sMark
<1>1. Typed(ib) /\ Base(ib)
  BY DEF Sound
<1>2. n \in Nat
  BY <1>1, EdgeFacts
<1>3. ASSUME NEW i \in 1..n PROVE ib.buf[ib.sMark + i - 1] \in Chars
  <2>1. ib.sMark + i - 1 \in LeftEdge(ib)..ib.end-1
    BY <1>1, EdgeFacts, SMTT(30)
  <2> QED BY <1>1, <2>1, TextIsChars DEF At
<1>4. Lexeme \in [1..n -> Chars]
  BY <1>3 DEF Lexeme, Length
<1> HIDE DEF n
<1> QED BY <1>2, <1>4, SeqDef

-----------------------------------------------------------------------------
(* The invariant *)

\* The initial state and every state reached by a step of yylex().
Good == IInv /\ TextInv /\ LexInv

LEMMA Tables ==
    /\ States \subseteq Nat /\ 0 \in States /\ YYF \in Nat /\ -1 \notin States /\ YYF \notin States
    /\ Yyaccept \in [States -> 0..4]
    /\ \A s \in States : \A c \in Chars \union {NUL} : Yy_nxt[s][c] \in States \union {YYF}
<1>1. YYF = 255
  BY DEF YYF
<1>2. /\ States \subseteq 0..YYF-1 /\ 0 \in States
      /\ Yy_nxt \in [States -> [Chars \union {NUL} -> States \union {YYF}]]
      /\ Yyaccept \in [States -> 0..4]
  BY TableAssumption DEF States
<1>3. \A s \in States : s \in Nat /\ s < 255
  BY <1>1, <1>2
<1>4. -1 \notin States /\ YYF \notin States /\ States \subseteq Nat /\ YYF \in Nat
  BY <1>1, <1>3
<1> QED BY <1>2, <1>4

LEMMA LexInitGood == LexInit => LexInv
<1> SUFFICES ASSUME LexInit PROVE LexInv
  OBVIOUS
<1>1. /\ pc = "idle" /\ yystate = -1
      /\ yynstate = 0 /\ yyprev = 0 /\ yylastaccept = 0 /\ yyanchor = 0 /\ yymoreflg = 0
      /\ yyleng = 0 /\ yytext = 0 /\ start = 0 /\ out = <<>> /\ calls = 0
      /\ missed = 0
  BY DEF LexInit
<1>2. out \in Seq([state : States, text : Seq(Chars)])
  BY <1>1
<1>3. LexTypes
  BY <1>1, <1>2, Tables, BufferSize, LexerAssumption DEF LexTypes, labels
<1> QED BY <1>1, <1>3 DEF LexInv, Driven, AtLexemeEnd, Described, Terminated, Holding

\* Where no lexeme is held nothing is said of one.
LEMMA NothingHeld ==
    ASSUME pc' \notin {"unread", "skip", "term", "action", "idle"}
    PROVE  AtLexemeEnd' /\ Described' /\ Terminated'
BY DEF AtLexemeEnd, Described, Terminated, Holding

\* A step of the driver outside the code of the rules, that leaves what it holds.
LEMMA DriverStep ==
    ASSUME LexInv, pc \notin {"unread", "skip", "term", "action", "idle"},
           pc' \in labels \ {"unread", "skip", "term", "action", "idle"},
           UNCHANGED <<locals, yyleng, yytext, out, calls, missed>>, start' \in Nat,
           pc \notin {"idle", "init", "unload", "top"}
             \/ pc' \in {"idle", "init", "unload", "top"},
           pc' \notin {"shift", "discard", "note"} \/ pc \in {"shift", "discard", "note"}
    PROVE  LexInv'
<1>1. LexTypes'
  BY DEF LexInv, LexTypes, locals
<1>2. Driven'
  BY DEF LexInv, Driven, locals
<1> QED BY <1>1, <1>2, NothingHeld DEF LexInv

LEMMA PositionIsNat ==
    ASSUME IInv, TextInv, ib.err = "none"
    PROVE  Position(ib.next) \in Nat
<1>1. Typed(ib) /\ Base(ib) /\ Faithful(ib)
  BY DEF IInv, Sound, TextInv
<1>2. ib.next \in LeftEdge(ib)..ib.end
  BY <1>1, EdgeFacts
<1>3. Pos(ib, ib.next) \in 0..Len(ib.text)
  BY <1>1, <1>2, PositionFacts
<1>4. Len(ib.text) \in Nat
  BY <1>1, EdgeFacts
<1> QED BY <1>3, <1>4 DEF Position, Pos

LEMMA CountedLength ==
    ASSUME NEW y \in Int, NEW m \in Nat, NEW l \in Nat, NEW size \in Nat,
           l <= size, y <= l, l - m <= y
    PROVE  y \in -m..size
OBVIOUS

\* A step of the code of the rules: what is left to show of it.
LEMMA ActionStep ==
    ASSUME LexInv, IInv', pc = "action", pc' = pc,
           UNCHANGED <<locals, start, out>>, calls' \in 0..MaxUserCalls, missed' \in Nat,
           yyleng' \in -missed'..BUFSIZE, yytext' \in 0..END,
           ib'.err = "none" =>
               /\ ib'.next = ib'.eMark
               /\ yytext' = ib'.sMark /\ yyleng' <= Length' /\ Length' - missed' <= yyleng'
               /\ unputs' = 0 => StringEnds(ib')
    PROVE  LexInv'
<1>1. LexTypes' /\ Driven'
  BY DEF LexInv, LexTypes, Driven, locals
<1> QED BY <1>1 DEF LexInv, AtLexemeEnd, Described, Terminated

\* The length and the place of a lexeme in a buffer.
LEMMA LexemeBounds ==
    ASSUME NEW b, Sound(b), b.err = "none"
    PROVE  b.eMark - b.sMark \in 0..BUFSIZE /\ b.sMark \in 0..END
<1>1. Typed(b) /\ Base(b)
  BY DEF Sound
<1> QED BY <1>1, EdgeFacts, BufferSize

LEMMA StepLexInv == Good /\ IInv' /\ LexNext => LexInv'
<1> SUFFICES ASSUME Good, IInv', LexNext PROVE LexInv'
  OBVIOUS
<1>0. /\ IInv /\ TextInv /\ LexInv /\ Sound(ib) /\ Sound(ib')
      /\ (ib.err = "none" => Faithful(ib) /\ (ib.term # NUL => inAction))
      /\ (ib.err = "none" /\ inAction => ib.text # <<>>)
  BY DEF Good, IInv, TextInv, Loaded
<1>1. CASE Call
  <2>1. pc = "idle" /\ pc' = (IF yystate = -1 THEN "init" ELSE "top")
        /\ UNCHANGED <<locals, yyleng, yytext, start, out, calls, missed>>
    BY <1>1 DEF Call, Goto, Keep
  <2>2. LexTypes' /\ Driven'
    BY <1>0, <2>1 DEF LexInv, LexTypes, Driven, locals, labels
  <2> QED BY <2>1, <2>2, NothingHeld DEF LexInv
<1>2. CASE LoadFirst \/ Unload \/ Reload \/ ShiftState \/ BadInput
  <2>1. /\ UNCHANGED <<locals, yyleng, yytext, start, out, calls, missed>>
        /\ \/ pc = "init" /\ pc' = "unload"
           \/ pc = "unload" /\ pc' = "top"
           \/ pc = "rewound" /\ pc' = "look"
           \/ pc = "reload" /\ pc' = "rewound"
           \/ pc = "shift" /\ pc' \in {"discard", "note"}
           \/ pc = "bad" /\ pc' = "look"
    BY <1>2 DEF LoadFirst, Unload, Reload, ShiftState, BadInput, Goto, Keep
  <2>2. start' \in Nat
    BY <1>0, <2>1 DEF LexInv, LexTypes
  <2> QED BY <1>0, <2>1, <2>2, DriverStep DEF labels
<1>3. CASE Mark \/ Restart \/ Discard
  <2>1. /\ UNCHANGED <<locals, yyleng, yytext, out, calls, missed>> /\ start' = Position(ib.next)
        /\ \/ pc \in {"mark", "restart"} /\ pc' = "look"
           \/ pc = "discard" /\ pc' = "note"
        /\ ib.err = "none"
    BY <1>3 DEF Mark, Restart, Discard, Goto, MarkStart, ForceFlush, Scanning
  <2>2. start' \in Nat
    BY <1>0, <2>1, PositionIsNat
  <2> QED BY <1>0, <2>1, <2>2, DriverStep DEF labels
<1>4. CASE WrapOpen \/ WrapUp
  <2>1. /\ UNCHANGED <<locals, yytext, out, calls, missed>> /\ start' \in {0, start}
        /\ yyleng' \in {0, yyleng} /\ pc = "wrap" /\ pc' \in {"reload", "done"}
    BY <1>4 DEF WrapOpen, WrapUp, Goto
  <2>2. LexTypes' /\ Driven'
    BY <1>0, <2>1, BufferSize DEF LexInv, LexTypes, Driven, locals, labels
  <2> QED BY <2>1, <2>2, NothingHeld DEF LexInv
<1>5. CASE Top
  <2>1. /\ pc' = "mark" /\ yystate' = 0 /\ yylastaccept' = 0 /\ yymoreflg' = 0
        /\ UNCHANGED <<yynstate, yyprev, yyanchor, yyleng, yytext, start, out, calls, missed>>
    BY <1>5 DEF Top, Goto
  <2>2. LexTypes' /\ Driven'
    BY <1>0, <2>1, Tables DEF LexInv, LexTypes, Driven, labels
  <2> QED BY <2>1, <2>2, NothingHeld DEF LexInv
<1>6. CASE Look
  <2> DEFINE yylook == ii_look(ib, 1)
             next == IF yylook # EOF THEN Yy_nxt[yystate][yylook] ELSE YYF
  <2>1. /\ pc = "look" /\ ib.err = "none" /\ yynstate' = next
        /\ pc' \in {"wrap", "shift", "bad", "found"} /\ (pc' = "shift" => next # YYF)
        /\ UNCHANGED <<yystate, yyprev, yylastaccept, yyanchor, yymoreflg,
                       yyleng, yytext, start, out, calls, missed>>
    BY <1>6 DEF Look, Goto
  <2>2. yystate \in States
    BY <1>0, <2>1 DEF LexInv, LexTypes, Driven
  <2>3. yylook # EOF => yylook \in Chars \union {NUL}
    BY <1>0, <2>1, LookIsChar DEF Sound
  <2> HIDE DEF yylook
  <2>4. next \in States \union {YYF}
    BY <2>2, <2>3, Tables
  <2> HIDE DEF next
  <2>5. LexTypes' /\ Driven'
    BY <1>0, <2>1, <2>4 DEF LexInv, LexTypes, Driven, labels
  <2> QED BY <2>1, <2>5, NothingHeld DEF LexInv
<1>7. CASE Note
  <2>1. /\ pc = "note" /\ pc' = "look" /\ yystate' = yynstate /\ yyanchor' = Yyaccept[yynstate]
        /\ yyprev' \in {yystate, yyprev} /\ yylastaccept' \in {yynstate, yylastaccept}
        /\ UNCHANGED <<yynstate, yymoreflg, yyleng, yytext, start, out, calls, missed>>
    BY <1>7 DEF Note, Goto
  <2>2. yynstate \in States /\ yystate \in States
    BY <1>0, <2>1 DEF LexInv, LexTypes, Driven
  <2>3. LexTypes' /\ Driven'
    BY <1>0, <2>1, <2>2, Tables DEF LexInv, LexTypes, Driven, labels
  <2> QED BY <2>1, <2>3, NothingHeld DEF LexInv
<1>8. CASE BackUp \/ UnreadNewline \/ SkipNewline
  <2>1. /\ UNCHANGED <<locals, yyleng, yytext, start, out, calls, missed>>
        /\ pc \in {"found", "unread", "skip"} /\ pc' \in {"unread", "skip", "term"}
        /\ ib.err = "none"
    BY <1>8 DEF BackUp, UnreadNewline, SkipNewline, AfterPushback, Goto, Keep,
                ToMark, Pushback, MoveStart, Scanning
  <2>2. LexTypes' /\ Driven' /\ Described' /\ Terminated'
    BY <1>0, <2>1 DEF LexInv, LexTypes, Driven, Described, Terminated, Holding, locals, labels
  <2>3. ib'.next = ib'.eMark
    <3>1. CASE BackUp
      <4>1. ib' = ii_to_mark(ib)
        BY <3>1 DEF BackUp, ToMark, Becomes
      <4> QED BY <1>0, <4>1 DEF ii_to_mark, Sound, Typed, InputState
    <3>2. CASE UnreadNewline
      <4>1. pc = "unread" /\ ib' = ii_pushback(ib, 1).b
        BY <3>2 DEF UnreadNewline, Pushback, Becomes
      <4>2. ib.next = ib.eMark
        BY <1>0, <2>1, <4>1 DEF LexInv, AtLexemeEnd
      <4> QED BY <1>0, <2>1, <4>1, <4>2, PushbackShortens
    <3>3. CASE SkipNewline
      <4>1. pc = "skip" /\ ib' = ii_move_start(ib)
        BY <3>3 DEF SkipNewline, MoveStart, Becomes
      <4>2. ib.next = ib.eMark
        BY <1>0, <2>1, <4>1 DEF LexInv, AtLexemeEnd
      <4> QED BY <1>0, <4>1, <4>2 DEF ii_move_start, Sound, Typed, InputState
    <3> QED BY <1>8, <3>1, <3>2, <3>3
  <2> QED BY <2>2, <2>3 DEF LexInv, AtLexemeEnd
<1>9. CASE Accept
  <2>1. /\ pc = "term" /\ pc' = "action" /\ ib' = ii_term(ib) /\ ib.err = "none" /\ ib.text # <<>>
        /\ ~inAction
        /\ yytext' = ib.sMark /\ yyleng' = Length /\ missed' = 0
        /\ out' = Append(out, [state |-> yylastaccept, text |-> Lexeme])
        /\ UNCHANGED <<locals, start, calls>>
    BY <1>9 DEF Accept, Term, Scanning, Loaded, Goto
  <2>2. ib.term = NUL /\ Faithful(ib)
    BY <1>0, <2>1
  <2>3. ib.next = ib.eMark
    BY <1>0, <2>1 DEF LexInv, AtLexemeEnd
  <2>4. ib'.next = ib.next /\ ib'.eMark = ib.eMark /\ ib'.sMark = ib.sMark /\ StringEnds(ib')
    BY <1>0, <2>1, <2>2, TermPlaces, TermEnds DEF Sound
  <2>5. Length \in 0..BUFSIZE /\ yyleng' \in -missed'..BUFSIZE /\ yytext' \in 0..END
    BY <1>0, <2>1, LexemeBounds DEF Length
  <2>6. out' \in Seq([state : States, text : Seq(Chars)])
    <3>1. [state |-> yylastaccept, text |-> Lexeme] \in [state : States, text : Seq(Chars)]
      BY <1>0, <2>1, <2>2, LexemeIsText DEF LexInv, LexTypes
    <3>2. out \in Seq([state : States, text : Seq(Chars)])
      BY <1>0 DEF LexInv, LexTypes
    <3> QED BY <2>1, <3>1, <3>2, AppendProperties
  <2>7. LexTypes'
    BY <1>0, <2>1, <2>5, <2>6 DEF LexInv, LexTypes, locals, labels
  <2>8. Driven'
    BY <1>0, <2>1 DEF LexInv, Driven, locals
  <2>9. Length' = Length
    BY <2>4 DEF Length
  <2>10. yytext' = ib'.sMark /\ yyleng' <= Length' /\ Length' - missed' <= yyleng'
    BY <2>1, <2>4, <2>5, <2>9, BufferSize
  <2> QED BY <2>1, <2>3, <2>4, <2>7, <2>8, <2>10 DEF LexInv, AtLexemeEnd, Described, Terminated
<1>10. CASE Resume
  <2>1. /\ pc = "action" /\ pc' \in {"restart", "look"} /\ yylastaccept' = 0 /\ yymoreflg' = 0
        /\ yystate' \in {0, yyprev}
        /\ UNCHANGED <<yynstate, yyprev, yyanchor, yyleng, yytext, start, out, calls, missed>>
    BY <1>10 DEF Resume, Goto
  <2>2. LexTypes' /\ Driven'
    BY <1>0, <2>1, Tables DEF LexInv, LexTypes, Driven, labels
  <2> QED BY <2>1, <2>2, NothingHeld DEF LexInv
<1>11. CASE UserInput
  <2>1. PICK got \in AdvanceReads(ii_unterm(ib)) :
          LET r == ii_input(ib, got)
          IN  /\ Becomes(r.b)
              /\ yytext' = IF r.ret \notin {0, -1} THEN r.b.sMark ELSE yytext
              /\ yyleng' = IF r.ret \notin {0, -1} THEN yyleng + 1 ELSE yyleng
    BY <1>11 DEF UserInput
  <2> DEFINE r == ii_input(ib, got)
  <2>2. /\ pc = "action" /\ pc' = pc /\ calls < MaxUserCalls /\ calls' = calls + 1
        /\ ib.err = "none" /\ inAction /\ ib' = r.b /\ unputs' = unputs
        /\ UNCHANGED <<locals, start, out, missed>>
        /\ yytext' = (IF r.ret \notin {0, -1} THEN ib'.sMark ELSE yytext)
        /\ yyleng' = (IF r.ret \notin {0, -1} THEN yyleng + 1 ELSE yyleng)
    BY <1>11, <2>1 DEF UserInput, Allowed, Acting, Becomes
  <2>3. ib.text # <<>> /\ Faithful(ib) /\ ib.next = ib.eMark
        /\ yytext = ib.sMark /\ yyleng <= Length /\ Length - missed <= yyleng
        /\ (unputs = 0 => StringEnds(ib))
    BY <1>0, <2>2 DEF LexInv, AtLexemeEnd, Described, Terminated, Holding
  <2>4. /\ r.b.err # "none" => r.ret \in {0, -1}
        /\ r.b.err = "none" =>
             /\ r.b.next = r.b.eMark
             /\ r.ret \in {0, -1} => r.b.sMark = ib.sMark /\ r.b.eMark = ib.eMark
             /\ r.ret \notin {0, -1} => r.b.eMark - r.b.sMark = (ib.eMark - ib.sMark) + 1
             /\ StringEnds(ib) => StringEnds(r.b)
    BY <1>0, <2>2, <2>3, InputExtends, FailedInput
  <2> HIDE DEF r
  <2>8. yyleng \in -missed..BUFSIZE /\ yytext \in 0..END /\ missed \in Nat /\ BUFSIZE \in Nat
    BY <1>0, BufferSize DEF LexInv, LexTypes
  <2>9. Length \in Nat
    BY <1>0, <2>2, LexemeBounds, BufferSize DEF Length
  <2>10. ib'.err = "none" =>
             /\ r.ret \in {0, -1} => Length' = Length /\ ib'.sMark = ib.sMark
             /\ r.ret \notin {0, -1} => Length' = Length + 1
    BY <2>2, <2>4 DEF Length
  <2>5. ib'.err = "none" =>
             /\ ib'.next = ib'.eMark
             /\ yytext' = ib'.sMark /\ yyleng' <= Length' /\ Length' - missed' <= yyleng'
             /\ unputs' = 0 => StringEnds(ib')
    <3> SUFFICES ASSUME ib'.err = "none"
                 PROVE  /\ ib'.next = ib'.eMark
                        /\ yytext' = ib'.sMark /\ yyleng' <= Length' /\ Length' - missed' <= yyleng'
                        /\ unputs' = 0 => StringEnds(ib')
      OBVIOUS
    <3>1. ib'.next = ib'.eMark /\ (unputs' = 0 => StringEnds(ib')) /\ yytext' = ib'.sMark
      BY <2>2, <2>3, <2>4
    <3>2. CASE r.ret \in {0, -1}
      BY <2>2, <2>3, <2>8, <2>9, <2>10, <3>1, <3>2
    <3>3. CASE r.ret \notin {0, -1}
      BY <2>2, <2>3, <2>8, <2>9, <2>10, <3>1, <3>3
    <3> QED BY <3>2, <3>3
  <2>6. yyleng' \in -missed'..BUFSIZE /\ yytext' \in 0..END /\ missed' \in Nat
    <3>1. CASE ib'.err = "none"
      <4>1. Length' \in 0..BUFSIZE /\ yytext' \in 0..END
        BY <1>0, <2>5, <3>1, LexemeBounds DEF Length
      <4>2. yyleng' \in Int /\ missed' \in Nat
        BY <2>2, <2>8
      <4>3. Length' \in Nat /\ Length' <= BUFSIZE /\ BUFSIZE \in Nat
        BY <2>8, <4>1
      <4> QED BY <2>5, <3>1, <4>1, <4>2, <4>3, CountedLength
    <3>2. CASE ib'.err # "none"
      BY <2>2, <2>4, <2>8, <3>2
    <3> QED BY <3>1, <3>2
  <2>7. calls' \in 0..MaxUserCalls
    BY <1>0, <2>2, LexerAssumption DEF LexInv, LexTypes
  <2> QED BY <1>0, <2>2, <2>5, <2>6, <2>7, ActionStep
<1>12. ASSUME NEW n \in 1..MaxBack, UserLess(n) PROVE LexInv'
  <2> DEFINE back == ii_pushback(ii_unterm(ib), n)
  <2>1. /\ pc = "action" /\ pc' = pc /\ calls < MaxUserCalls /\ calls' = calls + 1
        /\ ib.err = "none" /\ inAction /\ ib' = ii_term(back.b) /\ unputs' = unputs
        /\ UNCHANGED <<locals, yytext, start, out, missed>>
        /\ yyleng' = yyleng - (IF back.ret THEN n ELSE yyleng)
    BY <1>12 DEF UserLess, Less, Allowed, Acting, Becomes
  <2>2. ib.text # <<>> /\ Faithful(ib) /\ ib.next = ib.eMark
        /\ yytext = ib.sMark /\ yyleng <= Length /\ Length - missed <= yyleng
    BY <1>0, <2>1 DEF LexInv, AtLexemeEnd, Described, Holding
  <2>3. n \in Nat \ {0}
    BY ClientAssumption
  <2>4. /\ ib'.next = ib'.eMark /\ ib'.sMark = ib.sMark
        /\ ib'.eMark - ib'.sMark
             = (ib.eMark - ib.sMark) - (IF back.ret THEN n ELSE ib.eMark - ib.sMark)
        /\ StringEnds(ib')
    BY <1>0, <2>1, <2>2, <2>3, LessShortens
  <2>5. ib'.err = "none"
    <3>1. Sound(ii_unterm(ib)) /\ ii_unterm(ib).err = "none" /\ ii_unterm(ib).text # <<>>
      BY <1>0, <2>1, <2>2, UntermSound
    <3>2. Sound(back.b) /\ back.b.err = "none" /\ back.b.text # <<>>
      BY <2>3, <3>1, PushbackSound
    <3> HIDE DEF back
    <3> QED BY <2>1, <3>2, TermSound
  <2> HIDE DEF back
  <2>9. /\ yyleng \in -missed..BUFSIZE /\ missed \in Nat /\ BUFSIZE \in Nat
        /\ Length \in Nat /\ Length' \in 0..BUFSIZE /\ yytext' \in 0..END
    BY <1>0, <2>1, <2>2, <2>4, <2>5, LexemeBounds, BufferSize DEF LexInv, LexTypes, Length
  <2>10. Length' = Length - (IF back.ret THEN n ELSE Length)
    BY <2>4 DEF Length
  <2>6. yytext' = ib'.sMark /\ yyleng' <= Length' /\ Length' - missed' <= yyleng'
    <3>1. CASE back.ret
      BY <2>1, <2>2, <2>3, <2>4, <2>9, <2>10, <3>1
    <3>2. CASE ~back.ret
      BY <2>1, <2>2, <2>3, <2>4, <2>9, <2>10, <3>2
    <3> QED BY <3>1, <3>2
  <2>7. yyleng' \in -missed'..BUFSIZE /\ yytext' \in 0..END /\ missed' \in Nat
    <3>1. yyleng' \in Int /\ missed' \in Nat
      BY <2>1, <2>3, <2>9
    <3>2. Length' \in Nat /\ Length' <= BUFSIZE /\ BUFSIZE \in Nat
      BY <2>9
    <3> QED BY <2>6, <2>9, <3>1, <3>2, CountedLength
  <2>8. calls' \in 0..MaxUserCalls
    BY <1>0, <2>1, LexerAssumption DEF LexInv, LexTypes
  <2> QED BY <1>0, <2>1, <2>4, <2>6, <2>7, <2>8, ActionStep
<1>13. ASSUME NEW c \in UnputChars, UserUnput(c) PROVE LexInv'
  <2>1. /\ pc = "action" /\ pc' = pc /\ calls < MaxUserCalls /\ calls' = calls + 1
        /\ ib.err = "none" /\ inAction /\ ib' = ii_unput(ib, c) /\ unputs' = unputs + 1
        /\ UNCHANGED <<locals, yytext, start, out>>
        /\ yyleng' = yyleng - 1 /\ missed' = (IF Length = 0 THEN missed + 1 ELSE missed)
    BY <1>13 DEF UserUnput, Unput, Allowed, Acting
  <2>2. ib.text # <<>> /\ Faithful(ib) /\ ib.next = ib.eMark
        /\ yytext = ib.sMark /\ yyleng <= Length /\ Length - missed <= yyleng
    BY <1>0, <2>1 DEF LexInv, AtLexemeEnd, Described, Holding
  <2>3. c \in Chars
    BY ClientAssumption
  <2>4. /\ ib'.next = ib'.eMark /\ ib'.sMark = ib.sMark /\ ib'.err = "none"
        /\ Length = 0 => Length' = 0
        /\ Length # 0 => Length' = Length - 1
    BY <1>0, <2>1, <2>2, <2>3, UnputShortens, UnputSound DEF Length
  <2>8. /\ yyleng \in -missed..BUFSIZE /\ missed \in Nat /\ BUFSIZE \in Nat
        /\ Length \in Nat /\ Length' \in 0..BUFSIZE /\ yytext' \in 0..END
    BY <1>0, <2>1, <2>2, <2>4, LexemeBounds, BufferSize DEF LexInv, LexTypes, Length
  <2>5. yytext' = ib'.sMark /\ yyleng' <= Length' /\ Length' - missed' <= yyleng'
    <3>1. CASE Length = 0
      BY <2>1, <2>2, <2>4, <2>8, <3>1
    <3>2. CASE Length # 0
      BY <2>1, <2>2, <2>4, <2>8, <3>2
    <3> QED BY <3>1, <3>2
  <2>6. yyleng' \in -missed'..BUFSIZE /\ yytext' \in 0..END /\ missed' \in Nat
    <3>1. yyleng' \in Int /\ missed' \in Nat
      BY <2>1, <2>8
    <3>2. Length' \in Nat /\ Length' <= BUFSIZE /\ BUFSIZE \in Nat
      BY <2>8
    <3> QED BY <2>5, <2>8, <3>1, <3>2, CountedLength
  <2>7. calls' \in 0..MaxUserCalls /\ unputs' # 0
    BY <1>0, <2>1, LexerAssumption, ClientAssumption DEF LexInv, LexTypes, IInv
  <2> QED BY <1>0, <2>1, <2>4, <2>5, <2>6, <2>7, ActionStep
<1>14. CASE UserMore
  <2>1. /\ pc = "action" /\ pc' = pc /\ calls < MaxUserCalls /\ calls' = calls + 1
        /\ yymoreflg' = 1
        /\ UNCHANGED <<ib, unputs, yystate, yynstate, yyprev, yylastaccept, yyanchor,
                       yyleng, yytext, start, out, missed>>
    BY <1>14 DEF UserMore, Allowed, vars
  <2>2. LexTypes' /\ Driven'
    BY <1>0, <2>1, LexerAssumption DEF LexInv, LexTypes, Driven
  <2> QED BY <1>0, <2>1, <2>2 DEF LexInv, AtLexemeEnd, Described, Terminated, Holding, StringEnds,
                               NO_MORE_CHARS, Length
<1>15. CASE UserReturn
  <2>1. /\ pc = "action" /\ pc' = "idle"
        /\ UNCHANGED <<ib, unputs, locals, yyleng, yytext, start, out, calls, missed>>
    BY <1>15 DEF UserReturn, Goto, Keep, vars
  <2>2. LexTypes' /\ Driven'
    BY <1>0, <2>1 DEF LexInv, LexTypes, Driven, locals, labels
  <2> QED BY <1>0, <2>1, <2>2 DEF LexInv, AtLexemeEnd, Described, Terminated, Holding, StringEnds,
                               NO_MORE_CHARS, Length
<1> QED BY <1>1, <1>2, <1>3, <1>4, <1>5, <1>6, <1>7, <1>8, <1>9, <1>10, <1>11, <1>12, <1>13,
           <1>14, <1>15 DEF LexNext

\* An unput() that takes nothing off is counted with the others.
MissedIsCounted == missed \in 0..unputs

LEMMA MissedAreUnputs == LexSpec => []MissedIsCounted
<1>1. LexInit => MissedIsCounted
  BY DEF LexInit, Init, MissedIsCounted
<1>2. IInv /\ MissedIsCounted /\ [LexNext]_lexVars => MissedIsCounted'
  <2> SUFFICES ASSUME IInv, MissedIsCounted, [LexNext]_lexVars PROVE MissedIsCounted'
    OBVIOUS
  <2>1. unputs \in Nat /\ missed \in 0..unputs
    BY ClientAssumption DEF IInv, MissedIsCounted
  <2>2. CASE \E c \in UnputChars : UserUnput(c)
    <3>1. unputs' = unputs + 1 /\ missed' \in {missed, missed + 1}
      BY <2>2 DEF UserUnput, Unput
    <3> QED BY <2>1, <3>1 DEF MissedIsCounted
  <2>3. CASE ~\E c \in UnputChars : UserUnput(c)
    <3>1. missed' \in {missed, 0}
      BY <2>3 DEF LexNext, Keep, Call, LoadFirst, Unload, Top, Mark, Look, WrapUp, WrapOpen, Reload,
             ShiftState, Discard, Note, BadInput, BackUp, UnreadNewline, SkipNewline, Accept, Resume,
             Restart, UserInput, UserMore, UserReturn, UserLess, lexVars
    <3>2. unputs' = unputs
      BY <2>3 DEF LexNext, Call, LoadFirst, Unload, Top, Mark, Look, WrapUp, WrapOpen, Reload,
             ShiftState, Discard, Note, BadInput, BackUp, UnreadNewline, SkipNewline, Accept, Resume,
             Restart, UserInput, UserMore, UserReturn, UserLess, lexVars, vars, Becomes,
             Advance, Pushback, Unterm, MarkStart, MarkEnd, NewFile, ForceFlush, ToMark, MoveStart,
             Term, Less
    <3> QED BY <2>1, <3>1, <3>2 DEF MissedIsCounted
  <2> QED BY <2>2, <2>3
<1>3. LexSpec => []IInv
  BY LexerIsClient, InputInvariant, PTL
<1> QED BY <1>1, <1>2, <1>3, PTL DEF LexSpec

LEMMA LexUnchanged == Good /\ UNCHANGED lexVars => LexInv'
BY DEF Good, LexInv, LexTypes, Driven, AtLexemeEnd, Described, Terminated, Holding, StringEnds,
       NO_MORE_CHARS, Length, lexVars, vars, locals

\* In every behaviour of yylex() the program counter, the lexeme's ends, yytext and yyleng
\* fit together, whatever the tables are and whatever the code of the rules calls, in any
\* order; yyleng is too small where unput() found nothing to push back (lex.par:45).
THEOREM LexerInvariant == LexSpec => []LexInv
<1>1. LexSpec => []IInv /\ []TextInv
  BY LexerIsClient, InputInvariant, TextInvariant, PTL
<1>2. IInv /\ IInv' /\ TextInv /\ LexInv /\ [LexNext]_lexVars => LexInv'
  BY StepLexInv, LexUnchanged DEF Good
<1> QED BY <1>1, <1>2, LexInitGood, PTL DEF LexSpec

\* Every variable of yylex() keeps its type: no state outside the tables is indexed, every
\* lexeme given to a rule is a sequence of characters of the file, and yyleng is at most the
\* size of the buffer and below zero by no more than the calls of unput() that found an
\* empty lexeme.
THEOREM LexerTypes == LexSpec => []LexTypeOK
<1>1. LexInv => /\ pc \in labels
                /\ yystate \in DOMAIN Yy_nxt \union {-1}
                /\ yynstate \in DOMAIN Yy_nxt \union {YYF}
                /\ yyprev \in DOMAIN Yy_nxt /\ yylastaccept \in DOMAIN Yy_nxt
                /\ yyanchor \in 0..4 /\ yymoreflg \in 0..1
                /\ calls \in 0..MaxUserCalls
                /\ yyleng \in -missed..BUFSIZE /\ yytext \in 0..END /\ start \in Nat
  BY DEF LexInv, LexTypes, States
<1>2. LexInv => \A k \in 1..Len(out) : out[k].state \in DOMAIN Yy_nxt /\ out[k].text \in Seq(Chars)
  <2> SUFFICES ASSUME LexInv, NEW k \in 1..Len(out)
               PROVE  out[k].state \in DOMAIN Yy_nxt /\ out[k].text \in Seq(Chars)
    OBVIOUS
  <2>1. out \in Seq([state : States, text : Seq(Chars)])
    BY DEF LexInv, LexTypes
  <2>2. out[k] \in [state : States, text : Seq(Chars)]
    BY <2>1, ElementOfSeq
  <2> QED BY <2>2 DEF States
<1>3. TypeOK /\ LexInv /\ MissedIsCounted => LexTypeOK
  BY <1>1, <1>2 DEF LexTypeOK, MissedIsCounted
<1> QED BY <1>3, LexerInvariant, LexerIsClient, InputTypes, MissedAreUnputs, PTL

\* While a rule's code runs yytext is the lexeme of the input system, after any mixture of
\* input(), unput() and yyless(); yyleng is its length, or less by one at most for each
\* unput() of an empty lexeme in this action, and never more.
THEOREM YytextStaysCurrent == LexSpec => []YytextIsCurrent
<1>1. LexInv => YytextIsCurrent
  <2> SUFFICES ASSUME LexInv, pc = "action", ib.err = "none"
               PROVE  yytext = ib.sMark /\ yyleng \in Length - missed..Length
    BY DEF YytextIsCurrent
  <2>1. yytext = ib.sMark /\ yyleng <= Length /\ Length - missed <= yyleng
    BY DEF LexInv, Described, Holding
  <2>2. yyleng \in Int
    BY DEF LexInv, LexTypes
  <2> QED BY <2>1, <2>2
<1> QED BY <1>1, LexerInvariant, PTL

\* What a rule finds at yytext is a string of yyleng characters, and stays one until the
\* next call of yylex().
THEOREM YytextStaysString == LexSpec => []YytextIsString
<1>1. IInv /\ TextInv /\ LexInv /\ MissedIsCounted => YytextIsString
  <2> SUFFICES ASSUME IInv, TextInv, LexInv, MissedIsCounted,
                      ib.err = "none", unputs = 0, Holding
               PROVE  /\ ib.buf[yytext + yyleng] = NUL
                      /\ \A i \in yytext..yytext + yyleng - 1 : ib.buf[i] # NUL
    BY DEF YytextIsString, Holding
  <2>5. /\ yytext = ib.sMark /\ yyleng <= Length /\ Length - missed <= yyleng
        /\ ib.next = ib.eMark /\ ib.buf[ib.next] = NUL /\ yyleng \in Int
    BY DEF LexInv, LexTypes, AtLexemeEnd, Described, Terminated, StringEnds
  <2>2. Typed(ib) /\ Base(ib) /\ Faithful(ib)
    BY DEF IInv, Sound, TextInv
  <2>6. missed = 0 /\ Length \in Int
    BY <2>2, EdgeFacts DEF MissedIsCounted, Length
  <2>1. /\ yytext = ib.sMark /\ yyleng = ib.eMark - ib.sMark /\ ib.next = ib.eMark
        /\ ib.buf[ib.next] = NUL
    BY <2>5, <2>6 DEF Length
  <2>3. yytext + yyleng = ib.next
    BY <2>1, <2>2, EdgeFacts
  <2>4. ASSUME NEW i \in yytext..yytext + yyleng - 1 PROVE ib.buf[i] # NUL
    <3>1. i \in LeftEdge(ib)..ib.end-1 /\ i # ib.next
      BY <2>1, <2>2, <2>3, EdgeFacts, SMTT(30)
    <3>2. ib.buf[i] \in Chars
      BY <2>2, <3>1, TextIsChars DEF At
    <3> QED BY <3>2, CharAssumption
  <2> QED BY <2>1, <2>3, <2>4
<1>2. LexSpec => []IInv /\ []TextInv
  BY LexerIsClient, InputInvariant, TextInvariant, PTL
<1> QED BY <1>1, <1>2, LexerInvariant, MissedAreUnputs, PTL

-----------------------------------------------------------------------------
(* The text in the buffer is the beginning of the input *)

\* The input: the open file behind the newline that the first ii_advance() invents.
Whole(b) == <<NL>> \o b.file

\* What has been read is the beginning of the input, if no other file was opened.
Reads(b) ==
    IF b.called THEN /\ Len(b.text) = b.rd + 1
                     /\ \A i \in 1..b.rd+1 : b.text[i] = Whole(b)[i]
    ELSE b.text = <<>> /\ b.rd = 0

LEMMA WholeFacts ==
    ASSUME NEW f \in Seq(Chars)
    PROVE  LET w == <<NL>> \o f
           IN  /\ w \in Seq(Chars) /\ Len(w) = Len(f) + 1 /\ w[1] = NL
               /\ \A i \in 1..Len(f) : w[i+1] = f[i]
<1>1. <<NL>> \in Seq(Chars) /\ Len(<<NL>>) = 1 /\ <<NL>>[1] = NL
  BY CharAssumption
<1>2. LET w == <<NL>> \o f
      IN  /\ w \in Seq(Chars) /\ Len(w) = 1 + Len(f)
          /\ \A i \in 1..1+Len(f) : w[i] = IF i <= 1 THEN <<NL>>[i] ELSE f[i-1]
  BY <1>1, ConcatProperties, Zenon
<1> DEFINE w == <<NL>> \o f
<1> HIDE DEF w
<1>3. /\ w \in Seq(Chars) /\ Len(w) = 1 + Len(f)
      /\ \A i \in 1..1+Len(f) : w[i] = IF i <= 1 THEN <<NL>>[i] ELSE f[i-1]
  BY <1>2 DEF w
<1>4. Len(f) \in Nat
  BY LenProperties
<1>5. w[1] = NL /\ Len(w) = Len(f) + 1
  BY <1>1, <1>3, <1>4
<1>6. ASSUME NEW i \in 1..Len(f) PROVE w[i+1] = f[i]
  <2>1. i + 1 \in 1..1+Len(f) /\ ~(i + 1 <= 1) /\ (i + 1) - 1 = i
    BY <1>4
  <2> QED BY <1>3, <2>1
<1> QED BY <1>3, <1>5, <1>6 DEF w

\* Calls that read nothing.
LEMMA KeptReads ==
    ASSUME NEW b, NEW c, Reads(b), c.called = b.called, c.text = b.text, c.rd = b.rd, c.file = b.file
    PROVE  Reads(c)
BY DEF Reads, Whole

LEMMA RefillReads ==
    ASSUME NEW b, Typed(b), b.err = "none", ~b.eof, b.called, Base(b), Reads(b),
           NEW left \in 0..END, left <= b.sMark, b.pMark # NULL => left <= b.pMark,
           NEW got \in ReadResults(b, Need(b.end - left)),
           Refill(b, left, got).err = "none"
    PROVE  Reads(Refill(b, left, got))
<1> DEFINE r == Refill(b, left, got)
           f == b.file
           n == b.rd
           w == Whole(b)
<1>1. /\ r.file = f /\ got > 0 /\ n + got <= Len(f)
      /\ r.rd = n + got /\ r.text = Appended(b, got)
  BY RefillFields
<1>2. r.called
  BY RefillSound
<1>3. f \in Seq(Chars) /\ b.text \in Seq(Chars) /\ n \in Nat /\ Len(f) \in Nat
  BY FieldTypes, LenProperties
<1>g. got \in Int
  <2>1. b.end - left \in 0..END
    BY EdgeFacts, BufferSize
  <2>2. Need(b.end - left) \in Nat
    BY <2>1, NeedBounds
  <2> QED BY <2>2, ReadResultBounds
<1>4. /\ Len(b.text) = n + 1 /\ \A i \in 1..n+1 : b.text[i] = w[i]
  BY DEF Reads
<1>5. \A i \in 1..Len(f) : w[i+1] = f[i]
  BY <1>3, WholeFacts DEF Whole
<1> DEFINE s == SubSeq(f, n + 1, n + got)
<1>6. s \in Seq(Chars) /\ Len(s) = got /\ \A j \in 1..got : s[j] = f[n+j]
  <2>1. n + 1 \in 1..Len(f)+1 /\ n + got \in n..Len(f) /\ (n + got) - (n + 1) + 1 = got
    BY <1>1, <1>3, <1>g
  <2>2. \A j \in 1..got : (n + 1) + j - 1 = n + j
    BY <1>3, <1>g
  <2> HIDE DEF f, n
  <2> QED BY <1>3, <2>1, <2>2, SubSeqProperties
<1>7. /\ Len(r.text) = (n + 1) + got
      /\ \A i \in 1..(n+1)+got : r.text[i] = IF i <= n + 1 THEN b.text[i] ELSE s[i - (n+1)]
  <2>1. r.text = b.text \o s
    BY <1>1 DEF Appended
  <2> HIDE DEF s, r, n, f
  <2>2. /\ Len(b.text \o s) = Len(b.text) + Len(s)
        /\ \A i \in 1..Len(b.text)+Len(s) :
             (b.text \o s)[i] = IF i <= Len(b.text) THEN b.text[i] ELSE s[i - Len(b.text)]
    <3>1. b.text \in Seq(Chars) /\ s \in Seq(Chars)
      BY <1>3, <1>6
    <3> QED BY <3>1, ConcatProperties, Zenon
  <2>3. Len(b.text) = n + 1 /\ Len(s) = got
    BY <1>4, <1>6
  <2> QED BY <2>1, <2>2, <2>3, Zenon
<1> HIDE DEF s
<1>8. ASSUME NEW i \in 1..r.rd+1 PROVE r.text[i] = w[i]
  <2> HIDE DEF w, r, n, f
  <2>1. i \in 1..(n+1)+got
    BY <1>1, <1>3, <1>g
  <2>2. CASE i <= n + 1
    <3>1. i \in 1..n+1
      BY <1>3, <2>2
    <3> QED BY <1>4, <1>7, <2>1, <2>2, <3>1
  <2>3. CASE ~(i <= n + 1)
    <3>1. i - (n+1) \in 1..got /\ n + (i - (n+1)) = i - 1 /\ i - 1 \in 1..Len(f) /\ (i - 1) + 1 = i
      BY <1>1, <1>3, <1>g, <2>1, <2>3
    <3>2. r.text[i] = f[i-1] /\ w[i] = f[i-1]
      BY <1>5, <1>6, <1>7, <2>1, <2>3, <3>1
    <3> QED BY <3>2
  <2> QED BY <2>2, <2>3
<1>9. Whole(r) = w /\ Len(r.text) = r.rd + 1
  BY <1>1, <1>3, <1>g, <1>7 DEF Whole
<1> HIDE DEF r, w
<1> QED BY <1>2, <1>8, <1>9 DEF Reads, r

LEMMA FirstReads ==
    ASSUME NEW b, Sound(b), b.err = "none", Reads(b)
    PROVE  LET f == FirstAdvance(b)
           IN  /\ Reads(f) /\ f.called /\ f.file = b.file /\ f.text # <<>>
               /\ b.text = <<>> => /\ f.next = END - 1 /\ f.sMark = END - 1 /\ f.eMark = END - 1
                                   /\ f.end = END /\ f.pMark = NULL
                                   /\ f.text = <<NL>> /\ ~f.eof
<1> DEFINE f == FirstAdvance(b)
<1>1. Typed(b) /\ Base(b)
  BY DEF Sound
<1>2. CASE b.called
  <2>1. f = b
    BY <1>2 DEF FirstAdvance
  <2>2. b.text # <<>>
    BY <1>1, <1>2, FieldTypes DEF Reads
  <2> QED BY <1>2, <2>1, <2>2 DEF f
<1>3. CASE ~b.called
  <2>1. b.end = END /\ ~b.eof /\ b.text = <<>> /\ b.rd = 0
    BY <1>1, <1>3 DEF Base, Reads
  <2>2. /\ f.next = END - 1 /\ f.sMark = END - 1 /\ f.eMark = END - 1 /\ f.pMark = NULL
        /\ f.end = b.end /\ f.called /\ f.eof = b.eof /\ f.text = <<NL>>
        /\ f.rd = b.rd /\ f.file = b.file
    BY <1>1, <1>3 DEF FirstAdvance, Typed, InputState
  <2>3. Whole(f)[1] = NL
    BY <1>1, <2>2, FieldTypes, WholeFacts DEF Whole
  <2>4. Len(f.text) = f.rd + 1 /\ \A i \in 1..f.rd+1 : f.text[i] = Whole(f)[i]
    <3> HIDE DEF f
    <3>1. f.rd = 0
      BY <2>1, <2>2
    <3>2. f.rd + 1 = 1 /\ \A i \in 1..1 : i = 1
      BY <3>1
    <3>3. Len(f.text) = 1 /\ f.text[1] = NL
      BY <2>2
    <3> QED BY <2>3, <3>2, <3>3
  <2> HIDE DEF f
  <2>5. Reads(f)
    BY <2>2, <2>4 DEF Reads
  <2> QED BY <2>1, <2>2, <2>5 DEF f
<1> QED BY <1>2, <1>3

LEMMA FlushMoves ==
    ASSUME NEW b, Typed(b), b.err = "none", Base(b), b.called, Faithful(b), b.term = NUL, Reads(b),
           NEW got \in FlushReads(b, FALSE)
    PROVE  LET c == ii_flush(b, FALSE, got).b
           IN  /\ c.file = b.file
               /\ c.err = "none" => Reads(c) /\ Pos(c, c.eMark) = Pos(b, b.eMark)
<1> DEFINE c == ii_flush(b, FALSE, got).b
<1>1. CASE c = b
  <2> HIDE DEF c
  <2> QED BY <1>1 DEF c
<1>2. CASE ~NO_MORE_CHARS(b) /\ MustFlush(b, FALSE) /\ ~TooFull(b)
  <2> DEFINE left == LeftEdge(b)
             r == Refill(b, left, got)
  <2>1. c = r
    BY <1>2 DEF ii_flush
  <2>2. got \in ReadResults(b, Need(b.end - left)) /\ ~b.eof
    BY <1>2 DEF FlushReads, MustFlush
  <2>3. left \in 0..END /\ left <= b.sMark /\ (b.pMark # NULL => left <= b.pMark) /\ left \in Int
    BY EdgeFacts, BufferSize DEF END
  <2> HIDE DEF left
  <2>4. r.file = b.file
    BY <2>2, <2>3, RefillFields
  <2>5. ASSUME r.err = "none" PROVE Reads(r) /\ Pos(r, r.eMark) = Pos(b, b.eMark)
    <3>1. r.next = b.next - left /\ r.eMark = b.eMark - left
      BY <2>2, <2>3, <2>5, RefillFields
    <3>2. Typed(r)
      BY <2>2, <2>3, RefillSound
    <3>3. Pos(r, r.next) = Pos(b, b.next)
      BY <2>2, <2>3, <2>5, RefillFaithful
    <3>4. Reads(r)
      BY <2>2, <2>3, <2>5, RefillReads
    <3> HIDE DEF r
    <3>5. b.next \in Int /\ b.eMark \in Int /\ r.next \in Int /\ r.eMark \in Int
      BY <3>2, FieldTypes
    <3>6. r.eMark - r.next = b.eMark - b.next
      BY <2>3, <3>1, <3>5
    <3>7. Pos(r, r.eMark) = Pos(r, r.next) + (r.eMark - r.next)
          /\ Pos(b, b.eMark) = Pos(b, b.next) + (b.eMark - b.next)
      BY <3>2, <3>5, PositionSteps
    <3> QED BY <3>3, <3>4, <3>6, <3>7, Zenon
  <2> HIDE DEF c, r
  <2> QED BY <2>1, <2>4, <2>5 DEF c
<1>3. c = b \/ (~NO_MORE_CHARS(b) /\ MustFlush(b, FALSE) /\ ~TooFull(b))
  BY DEF ii_flush
<1> QED BY <1>1, <1>2, <1>3

\* ii_advance() delivers one character, or leaves everything as it is; a refill moves
\* both ends of the lexeme with their text.
LEMMA AdvanceMoves ==
    ASSUME NEW b, Sound(b), b.err = "none", Faithful(b), b.term = NUL, Reads(b),
           NEW got \in AdvanceReads(b)
    PROVE  LET f == FirstAdvance(b)
               r == ii_advance(b, got)
           IN  /\ r.b.file = b.file
               /\ r.b.err = "none" =>
                    /\ Reads(r.b) /\ r.b.text # <<>>
                    /\ Pos(r.b, r.b.sMark) = Pos(f, f.sMark)
                    /\ Pos(r.b, r.b.eMark) = Pos(f, f.eMark)
                    /\ \/ r.ret = 0 /\ NO_MORE_CHARS(f) /\ r.b = f
                       \/ r.ret = -1 /\ r.b = f
                       \/ r.ret # -1 /\ Pos(r.b, r.b.next) = Pos(f, f.next) + 1
<1> DEFINE f == FirstAdvance(b)
           fl == ii_flush(f, FALSE, got)
           c == fl.b
           r == ii_advance(b, got)
<1>1. Typed(f) /\ f.err = "none" /\ Base(f) /\ f.called
  BY FirstAdvanceSound
<1>2. Faithful(f) /\ f.term = NUL
  BY FirstAdvanceFaithful
<1>3. Reads(f) /\ f.file = b.file /\ f.text # <<>>
  BY FirstReads
<1>4. got \in FlushReads(f, FALSE)
  BY DEF AdvanceReads
<1>5. r = IF NO_MORE_CHARS(f) THEN [b |-> f, ret |-> 0]
          ELSE IF fl.ret < 0 \/ c.err # "none" THEN [b |-> c, ret |-> -1]
          ELSE [b |-> Consume(c), ret |-> c.buf[c.next]]
  BY DEF ii_advance
<1> HIDE DEF f, r
<1>6. fl.ret \in {-1, 0, 1} /\ (fl.ret = -1 => c = f)
  BY DEF ii_flush
<1>7. /\ Typed(c)
      /\ c.err = "none" => /\ Base(c) /\ c.text # <<>>
                           /\ fl.ret # -1 /\ ~NO_MORE_CHARS(f) => c.end > c.next
  BY <1>1, <1>3, <1>4, FlushSound
<1>8. c.err = "none" =>
         /\ Faithful(c) /\ c.term = NUL
         /\ Pos(c, c.next) = Pos(f, f.next) /\ Pos(c, c.sMark) = Pos(f, f.sMark)
  BY <1>1, <1>2, <1>4, FlushFaithful
<1>9. c.file = f.file /\ (c.err = "none" => Reads(c) /\ Pos(c, c.eMark) = Pos(f, f.eMark))
  BY <1>1, <1>2, <1>3, <1>4, FlushMoves
<1> HIDE DEF fl
<1>10. CASE NO_MORE_CHARS(f)
  <2>1. r.b = f /\ r.ret = 0
    BY <1>5, <1>10
  <2> QED BY <1>3, <1>10, <2>1 DEF f, r
<1>11. CASE ~NO_MORE_CHARS(f) /\ (fl.ret < 0 \/ c.err # "none")
  <2>1. r.b = c /\ r.ret = -1
    BY <1>5, <1>11
  <2>2. c.err = "none" => c = f
    BY <1>6, <1>11
  <2> QED BY <1>3, <1>9, <2>1, <2>2 DEF f, r
<1>12. CASE ~NO_MORE_CHARS(f) /\ ~(fl.ret < 0 \/ c.err # "none")
  <2>1. r.b = Consume(c) /\ r.ret = c.buf[c.next]
    BY <1>5, <1>12
  <2>2. /\ Typed(c) /\ Base(c) /\ c.end > c.next /\ Faithful(c) /\ c.term = NUL /\ Reads(c)
        /\ c.text # <<>> /\ Pos(c, c.next) = Pos(f, f.next) /\ Pos(c, c.sMark) = Pos(f, f.sMark)
        /\ Pos(c, c.eMark) = Pos(f, f.eMark) /\ c.file = b.file
    BY <1>3, <1>6, <1>7, <1>8, <1>9, <1>12
  <2> HIDE DEF c
  <2>3. /\ Consume(c).next = c.next + 1 /\ Consume(c).sMark = c.sMark /\ Consume(c).eMark = c.eMark
        /\ Consume(c).end = c.end /\ Consume(c).text = c.text /\ Consume(c).rd = c.rd
        /\ Consume(c).file = c.file /\ Consume(c).called = c.called
    BY <2>2 DEF Consume, Typed, InputState
  <2>4. Reads(Consume(c))
    BY <2>2, <2>3, KeptReads
  <2>5. \A p : Pos(Consume(c), p) = Pos(c, p)
    BY <2>3 DEF Pos
  <2>6. Pos(c, c.next + 1) = Pos(c, c.next) + 1
    <3>1. c.next \in Int /\ c.next + 1 \in Int /\ (c.next + 1) - c.next = 1
      BY <2>2, EdgeFacts
    <3>2. Pos(c, c.next + 1) = Pos(c, c.next) + ((c.next + 1) - c.next)
      BY <2>2, <3>1, PositionSteps
    <3> QED BY <3>1, <3>2
  <2>7. r.ret # -1
    <3>1. c.next \in LeftEdge(c)..c.end-1
      BY <2>2, EdgeFacts
    <3>2. c.buf[c.next] \in Chars
      BY <2>2, <3>1, TextIsChars DEF At
    <3> QED BY <2>1, <3>2, CharAssumption
  <2> QED BY <2>1, <2>2, <2>3, <2>4, <2>5, <2>6, <2>7 DEF f, r
<1> QED BY <1>10, <1>11, <1>12

\* Where the next character is in the input, and that the lookahead is that character.
LEMMA LookSees ==
    ASSUME NEW b, Sound(b), b.err = "none", Faithful(b), b.term = NUL, Reads(b), b.text # <<>>,
           ReadsAll(b)
    PROVE  LET h == Pos(b, b.next)
               n == Len(Whole(b))
           IN  /\ h \in 0..n
               /\ NO_MORE_CHARS(b) => h = n
               /\ ii_look(b, 1) = IF h = n THEN EOF ELSE Whole(b)[h + 1]
<1> DEFINE h == Pos(b, b.next)
           n == Len(Whole(b))
           l == Len(b.text)
<1>1. Typed(b) /\ Base(b) /\ Ready(b)
  BY DEF Sound
<1>2. /\ b.next \in LeftEdge(b)..b.end /\ b.next \in Nat /\ b.end \in Nat /\ b.next <= b.end
      /\ l \in Nat
  BY <1>1, EdgeFacts
<1>3. /\ l = b.rd + 1 /\ \A i \in 1..b.rd+1 : b.text[i] = Whole(b)[i]
  BY DEF Reads
<1>4. /\ n = Len(b.file) + 1 /\ b.rd \in Nat /\ Len(b.file) \in Nat /\ b.rd <= Len(b.file)
  <2>1. b.file \in Seq(Chars) /\ b.rd \in Nat /\ b.rd <= Len(b.file)
    BY <1>1, FieldTypes
  <2> QED BY <2>1, WholeFacts, LenProperties DEF Whole
<1>5. h \in 0..l /\ (b.next < b.end => h + 1 \in 1..l)
  BY <1>1, <1>2, PositionFacts
<1>6. b.next = b.end => h = l
  BY <1>2 DEF Pos
<1>7. ~(1 - 1 < -b.next) /\ b.next + 1 - 1 = b.next
  BY <1>2
<1> HIDE DEF h, n, l
<1>8. CASE b.next < b.end
  <2>1. ii_look(b, 1) = b.buf[b.next]
    BY <1>2, <1>7, <1>8 DEF ii_look
  <2>2. b.buf[b.next] = b.text[h + 1]
    <3>1. b.next \in LeftEdge(b)..b.end-1
      BY <1>2, <1>8
    <3> QED BY <3>1 DEF Faithful, Shows, At, h
  <2>3. b.text[h + 1] = Whole(b)[h + 1]
    BY <1>3, <1>5, <1>8
  <2>4. h # n /\ h \in 0..n
    BY <1>3, <1>4, <1>5, <1>8
  <2>5. ~NO_MORE_CHARS(b)
    BY <1>2, <1>8 DEF NO_MORE_CHARS
  <2> QED BY <2>1, <2>2, <2>3, <2>4, <2>5 DEF h, n
<1>9. CASE ~(b.next < b.end)
  <2>1. b.next = b.end /\ b.end - b.next = 0
    BY <1>2, <1>9
  <2>2. b.eof
    BY <2>1, BufferSize DEF Ready, Sound
  <2>3. h = n
    BY <1>3, <1>4, <1>6, <2>1, <2>2 DEF ReadsAll
  <2>4. ii_look(b, 1) = EOF
    BY <2>1, <2>2 DEF ii_look
  <2>5. h \in 0..n
    BY <1>4, <2>3
  <2> QED BY <2>3, <2>4, <2>5 DEF h, n
<1> QED BY <1>8, <1>9

-----------------------------------------------------------------------------
(* Runs of the machine *)

\* The states the machine goes through on the characters of w behind the first p.
Path(w, p) ==
    LET run[i \in p..Len(w)] ==
            IF i = p THEN 0
            ELSE IF run[i-1] = YYF THEN YYF ELSE Yy_nxt[run[i-1]][w[i]]
    IN  run

\* Where it accepts.
Ends(w, p) == {i \in p+1..Len(w) : Path(w, p)[i] # YYF /\ Yyaccept[Path(w, p)[i]] # 0}

LEMMA MunchTerms ==
    \A p : MM!StateAfter(p) = Path(Whole(ib), p) /\ MM!Matches(p) = Ends(Whole(ib), p)
BY Zenon DEF MM!StateAfter, MM!Matches, Path, Ends, Whole

LEMMA PathFacts ==
    ASSUME NEW w \in Seq(Chars), NEW p \in 0..Len(w)
    PROVE  /\ Path(w, p) \in [p..Len(w) -> States \union {YYF}]
           /\ Path(w, p)[p] = 0
           /\ \A i \in p+1..Len(w) :
                Path(w, p)[i] = IF Path(w, p)[i-1] = YYF THEN YYF
                                ELSE Yy_nxt[Path(w, p)[i-1]][w[i]]
<1> DEFINE N == Len(w)
           V == States \union {YYF}
           G(i, v) == IF v = YYF THEN YYF ELSE Yy_nxt[v][w[i]]
           T == [k \in 1..N-p |-> [v \in V |-> G(p + k, v)]]
           Fits(f) == f = [i \in p..N |-> IF i = p THEN 0 ELSE G(i, f[i-1])]
           run == CHOOSE f : Fits(f)
<1>1. N \in Nat /\ N - p \in Nat /\ p \in Nat /\ 0 \in V
  BY LenProperties, Tables
<1>2. ASSUME NEW i \in p+1..N, NEW v \in V PROVE G(i, v) \in V
  <2>1. w[i] \in Chars
    BY <1>1, ElementOfSeq
  <2> QED BY <2>1, Tables
<1>3. Path(w, p) = run
  BY DEF Path
<1> HIDE DEF G, V, N
<1>4. T \in [1..N-p -> [V -> V]]
  <2>1. ASSUME NEW k \in 1..N-p PROVE p + k \in p+1..N
    BY <1>1
  <2> QED BY <1>2, <2>1
<1>5. PICK g : Defined(N - p, V, 0, T, g)
  <2> HIDE DEF T
  <2> QED BY <1>1, <1>4, Recursion
<1>6. \A k \in 1..N-p : g[k] = G(p + k, g[k-1])
  <2> SUFFICES ASSUME NEW k \in 1..N-p PROVE g[k] = G(p + k, g[k-1])
    OBVIOUS
  <2>1. g[k] = T[k][g[k-1]] /\ g[k-1] \in V
    BY <1>1, <1>5 DEF Defined
  <2>2. T[k] = [v \in V |-> G(p + k, v)]
    OBVIOUS
  <2> HIDE DEF T
  <2> QED BY <2>1, <2>2
<1> DEFINE f == [i \in p..N |-> g[i - p]]
<1>7. f \in [p..N -> V] /\ f[p] = 0
  <2>1. ASSUME NEW i \in p..N PROVE i - p \in 0..N-p
    BY <1>1
  <2>2. g \in [0..N-p -> V] /\ g[0] = 0 /\ p - p = 0 /\ p \in p..N
    BY <1>1, <1>5 DEF Defined
  <2> QED BY <2>1, <2>2
<1>8. \A i \in p+1..N : f[i] = G(i, f[i-1])
  <2> SUFFICES ASSUME NEW i \in p+1..N PROVE f[i] = G(i, f[i-1])
    OBVIOUS
  <2>1. /\ i - p \in 1..N-p /\ p + (i - p) = i /\ i \in p..N /\ i - 1 \in p..N
        /\ (i - p) - 1 = (i - 1) - p
    BY <1>1
  <2>2. f[i] = g[i - p] /\ f[i-1] = g[(i - 1) - p]
    BY <2>1
  <2>3. g[i - p] = G(p + (i - p), g[(i - p) - 1])
    BY <1>6, <2>1
  <2> HIDE DEF f
  <2> QED BY <2>1, <2>2, <2>3
<1> HIDE DEF f
<1>9. Fits(f)
  <2>1. \A i \in p..N : f[i] = IF i = p THEN 0 ELSE G(i, f[i-1])
    BY <1>1, <1>7, <1>8
  <2>2. f = [i \in p..N |-> f[i]]
    BY <1>7
  <2> QED BY <2>1, <2>2
<1>10. Fits(run)
  <2> HIDE DEF Fits
  <2> QED BY <1>9
<1>11. /\ run \in [p..N -> V] /\ run[p] = 0
       /\ \A i \in p+1..N : run[i] = G(i, run[i-1])
  <2> HIDE DEF run
  <2>1. \A i \in p..N : run[i] = IF i = p THEN 0 ELSE G(i, run[i-1])
    BY <1>10
  <2>2. DOMAIN run = p..N /\ run = [i \in p..N |-> run[i]]
    BY <1>10
  <2>3. run[p] = 0
    BY <1>1, <2>1
  <2>4. \A i \in p+1..N : run[i] = G(i, run[i-1])
    BY <1>1, <2>1
  <2> DEFINE P == {k \in Nat : k <= N - p => run[p + k] \in V}
  <2>5. 0 \in P
    BY <1>1, <2>3
  <2>6. ASSUME NEW k \in Nat, k \in P PROVE k + 1 \in P
    <3> SUFFICES ASSUME k + 1 <= N - p PROVE run[p + (k + 1)] \in V
      OBVIOUS
    <3>1. /\ run[p + k] \in V /\ p + (k + 1) \in p+1..N /\ (p + (k + 1)) - 1 = p + k
      BY <1>1, <2>6
    <3> QED BY <1>2, <2>4, <3>1
  <2>7. \A k \in Nat : k \in P
    <3> HIDE DEF P
    <3> QED BY <2>5, <2>6, SetInduction
  <2>8. ASSUME NEW i \in p..N PROVE run[i] \in V
    <3>1. i - p \in Nat /\ i - p <= N - p /\ p + (i - p) = i
      BY <1>1
    <3> QED BY <2>7, <3>1
  <2> QED BY <2>2, <2>3, <2>4, <2>8
<1> HIDE DEF run
<1> QED BY <1>3, <1>11 DEF G, V, N

\* Once the machine has failed it accepts nothing more.
LEMMA FailedForGood ==
    ASSUME NEW w \in Seq(Chars), NEW p \in 0..Len(w), NEW q \in p..Len(w), Path(w, p)[q] = YYF
    PROVE  \A i \in Ends(w, p) : i < q
<1> DEFINE run == Path(w, p)
           N == Len(w)
           P == {k \in Nat : k <= N - q => run[q + k] = YYF}
<1>1. N \in Nat /\ p \in Nat /\ q \in Nat /\ q <= N /\ p <= q
  BY LenProperties
<1>2. \A i \in p+1..N : run[i-1] = YYF => run[i] = YYF
  BY PathFacts
<1> HIDE DEF run, N
<1>3. 0 \in P
  BY <1>1 DEF run
<1>4. ASSUME NEW k \in Nat, k \in P PROVE k + 1 \in P
  <2> SUFFICES ASSUME k + 1 <= N - q PROVE run[q + (k + 1)] = YYF
    OBVIOUS
  <2>1. run[q + k] = YYF /\ q + (k + 1) \in p+1..N /\ (q + (k + 1)) - 1 = q + k
    BY <1>1, <1>4
  <2> QED BY <1>2, <2>1
<1>5. \A k \in Nat : k \in P
  <2> HIDE DEF P
  <2> QED BY <1>3, <1>4, SetInduction
<1>6. ASSUME NEW i \in Ends(w, p), ~(i < q) PROVE FALSE
  <2>1. i \in p+1..N /\ run[i] # YYF
    BY DEF Ends, run, N
  <2>2. i - q \in Nat /\ i - q <= N - q /\ q + (i - q) = i
    BY <1>1, <1>6, <2>1
  <2> QED BY <1>5, <2>1, <2>2
<1> QED BY <1>6

\* The longest of the accepted prefixes that are not longer than the first q characters
\* ends at e, and the machine is in state st there; st is 0 if there is none.
LastMatch(w, p, st, e, q) ==
    IF st = 0 THEN \A i \in Ends(w, p) : i > q
    ELSE /\ e \in Ends(w, p) /\ e <= q /\ Path(w, p)[e] = st
         /\ \A i \in Ends(w, p) : i > q \/ i <= e

\* The machine has read the first q characters and is in state y.
Scanned(w, p, y, st, e, q) ==
    q \in p..Len(w) /\ Path(w, p)[q] = y /\ LastMatch(w, p, st, e, q)

\* The longest accepted prefix ends at e.
Longest(w, p, st, e) ==
    e \in Ends(w, p) /\ Path(w, p)[e] = st /\ \A i \in Ends(w, p) : i <= e

LEMMA ScanStarts ==
    ASSUME NEW w \in Seq(Chars), NEW p \in 0..Len(w), NEW e
    PROVE  Scanned(w, p, 0, 0, e, p)
<1>1. Len(w) \in Nat /\ p \in p..Len(w)
  BY LenProperties
<1>2. \A i \in Ends(w, p) : i > p
  BY <1>1 DEF Ends
<1> QED BY <1>1, <1>2, PathFacts DEF Scanned, LastMatch

LEMMA ScanShifts ==
    ASSUME NEW w \in Seq(Chars), NEW p \in 0..Len(w), NEW y \in States, NEW st, NEW e, NEW q,
           Scanned(w, p, y, st, e, q), q < Len(w)
    PROVE  q \in p..Len(w) /\ q + 1 \in p+1..Len(w) /\ Path(w, p)[q + 1] = Yy_nxt[y][w[q + 1]]
<1>1. q \in p..Len(w) /\ Path(w, p)[q] = y /\ Len(w) \in Nat
  BY LenProperties DEF Scanned
<1>2. q + 1 \in p+1..Len(w) /\ (q + 1) - 1 = q
  BY <1>1
<1>3. y # YYF
  BY Tables
<1> QED BY <1>1, <1>2, <1>3, PathFacts

\* The machine takes a transition to n.
LEMMA ScanAccepts ==
    ASSUME NEW w \in Seq(Chars), NEW p \in 0..Len(w), NEW y, NEW st, NEW e, NEW q,
           Scanned(w, p, y, st, e, q), q < Len(w),
           NEW n \in States, n # YYF, Path(w, p)[q + 1] = n, Yyaccept[n] # 0, n # 0
    PROVE  Scanned(w, p, n, n, q + 1, q + 1)
<1>1. q \in p..Len(w) /\ Len(w) \in Nat /\ p \in Nat
  BY LenProperties DEF Scanned
<1>2. q + 1 \in p+1..Len(w) /\ q + 1 \in p..Len(w) /\ q + 1 <= q + 1
  BY <1>1
<1>3. q + 1 \in Ends(w, p)
  BY <1>2 DEF Ends
<1>4. ASSUME NEW i \in Ends(w, p) PROVE i > q + 1 \/ i <= q + 1
  BY <1>1 DEF Ends
<1> QED BY <1>2, <1>3, <1>4 DEF Scanned, LastMatch

LEMMA ScanPasses ==
    ASSUME NEW w \in Seq(Chars), NEW p \in 0..Len(w), NEW y, NEW st, NEW e, NEW q,
           Scanned(w, p, y, st, e, q), q < Len(w),
           NEW n, Path(w, p)[q + 1] = n, Yyaccept[n] = 0
    PROVE  Scanned(w, p, n, st, e, q + 1)
<1>1. q \in p..Len(w) /\ Len(w) \in Nat /\ p \in Nat
  BY LenProperties DEF Scanned
<1>2. q + 1 \in p..Len(w)
  BY <1>1
<1>3. q + 1 \notin Ends(w, p) /\ \A i \in Ends(w, p) : i \in Int
  BY <1>1 DEF Ends
<1>4. \A i \in Ends(w, p) : i > q => i > q + 1
  BY <1>1, <1>3
<1>5. e \in Ends(w, p) /\ e <= q => e <= q + 1
  BY <1>1, <1>3
<1>6. LastMatch(w, p, st, e, q + 1)
  BY <1>4, <1>5 DEF Scanned, LastMatch
<1> QED BY <1>2, <1>6 DEF Scanned

\* There is no transition, or no character.
LEMMA ScanEnds ==
    ASSUME NEW w \in Seq(Chars), NEW p \in 0..Len(w), NEW y \in States, NEW st, NEW e, NEW q,
           Scanned(w, p, y, st, e, q), st # 0,
           q = Len(w) \/ Yy_nxt[y][w[q + 1]] = YYF
    PROVE  Longest(w, p, st, e)
<1>1. q \in p..Len(w) /\ Len(w) \in Nat /\ p \in Nat
  BY LenProperties DEF Scanned
<1>2. \A i \in Ends(w, p) : i <= q
  <2>1. CASE q = Len(w)
    BY <1>1, <2>1 DEF Ends
  <2>2. CASE q # Len(w)
    <3>1. q + 1 \in p..Len(w) /\ Path(w, p)[q + 1] = YYF
      BY <1>1, <2>2, ScanShifts
    <3>2. \A i \in Ends(w, p) : i < q + 1
      BY <3>1, FailedForGood
    <3> QED BY <1>1, <3>2 DEF Ends
  <2> QED BY <2>1, <2>2
<1>3. /\ e \in Ends(w, p) /\ Path(w, p)[e] = st
      /\ \A i \in Ends(w, p) : i > q \/ i <= e
  BY DEF Scanned, LastMatch
<1>4. \A i \in Ends(w, p) : i <= e
  BY <1>1, <1>2, <1>3 DEF Ends
<1> QED BY <1>3, <1>4 DEF Longest

\* yylex() takes 0 in yylastaccept for "none" (lex.par:78): it is right to if the start
\* state does not accept, or is not entered again.
StartIsSilent ==
    Yyaccept[0] = 0 \/ \A s \in States : \A c \in Chars : Yy_nxt[s][c] # 0

LEMMA NeverZero ==
    ASSUME StartIsSilent, NEW y \in States, NEW c \in Chars,
           NEW n, n = Yy_nxt[y][c], Yyaccept[n] # 0
    PROVE  n # 0
BY DEF StartIsSilent

-----------------------------------------------------------------------------
(* The inductive invariant *)

\* A transition out of which the machine comes with an anchor is not forgotten.
Agrees ==
    /\ yyanchor \in StartAnchored <=> Yyaccept[yylastaccept] \in StartAnchored
    /\ yyanchor \in EndAnchored <=> Yyaccept[yylastaccept] \in EndAnchored

\* yylex() has not been called, or has not read anything.
Fresh == pc = "init" \/ (pc = "idle" /\ yystate = -1)

\* Where the longest match ended, when the newline of an end anchor has been pushed back,
\* and where the lexeme starts, when the one of a start anchor has been skipped.
MatchEnd(e) == IF yyanchor \in EndAnchored THEN e + 1 ELSE e
LexemeStart(e) == IF yyanchor \in StartAnchored /\ e > start THEN start + 1 ELSE start

MunchInv ==
    LET w == Whole(ib)
        h == Pos(ib, ib.next)
        s == Pos(ib, ib.sMark)
        e == Pos(ib, ib.eMark)
    IN  IF ib.err = "none"
        THEN /\ Reads(ib) /\ yymoreflg = 0 /\ (inAction => Holding \/ pc = "top")
             /\ pc \notin {"bad", "discard", "reload", "rewound"}
             /\ Fresh => ib.text = <<>> /\ start = 0
             /\ ~Fresh => ib.text # <<>>
             /\ pc = "unload" => start = 0 /\ s = 0 /\ h <= 1
             /\ pc \in {"mark", "restart"} => yystate = 0 /\ yylastaccept = 0
             /\ pc \in {"look", "shift", "note", "found", "unread", "skip"} => s = start
             /\ pc \in {"look", "shift"} =>
                    Scanned(w, start, yystate, yylastaccept, e, h)
             /\ pc = "shift" => h < Len(w) /\ yynstate = Yy_nxt[yystate][w[h + 1]]
             /\ pc = "note" => /\ Scanned(w, start, yystate, yylastaccept, e, h - 1)
                               /\ h - 1 < Len(w) /\ yynstate = Yy_nxt[yystate][w[h]]
             /\ pc \in {"found", "unread"} => Longest(w, start, yylastaccept, e)
             /\ pc \in {"unread", "skip", "term"} => Agrees
             /\ pc = "unread" => yyanchor \in EndAnchored
             /\ pc \in {"skip", "term"} => Longest(w, start, yylastaccept, MatchEnd(e))
             /\ pc = "skip" => yyanchor \in StartAnchored
             /\ pc = "term" => s = LexemeStart(e)
        ELSE pc \in {"unload", "note"}

\* Calls that read nothing move no place of the text.
Fixed(b, c) ==
    /\ c.text = b.text /\ c.end = b.end /\ c.rd = b.rd /\ c.file = b.file
    /\ c.called = b.called /\ c.err = b.err

LEMMA FixedPlaces ==
    ASSUME NEW b, NEW c, Fixed(b, c)
    PROVE  /\ \A p : Pos(c, p) = Pos(b, p)
           /\ Whole(c) = Whole(b) /\ (Reads(b) => Reads(c)) /\ c.text = b.text /\ c.err = b.err
BY KeptReads DEF Fixed, Pos, Whole

LEMMA MarksFixed ==
    ASSUME NEW b, Typed(b)
    PROVE  /\ LET m == ii_mark_start(b)
              IN  Fixed(b, m) /\ m.next = b.next /\ m.sMark = b.next /\ m.eMark = b.next
           /\ LET m == ii_mark_end(b)
              IN  Fixed(b, m) /\ m.next = b.next /\ m.sMark = b.sMark /\ m.eMark = b.next
           /\ LET m == ii_to_mark(b)
              IN  Fixed(b, m) /\ m.next = b.eMark /\ m.sMark = b.sMark /\ m.eMark = b.eMark
           /\ LET m == ii_move_start(b)
              IN  /\ Fixed(b, m) /\ m.next = b.next /\ m.eMark = b.eMark
                  /\ m.sMark = IF b.sMark >= b.eMark THEN b.sMark ELSE b.sMark + 1
BY DEF Typed, InputState, Fixed, ii_mark_start, ii_mark_end, ii_to_mark, ii_move_start

LEMMA TermFixed ==
    ASSUME NEW b, Typed(b)
    PROVE  Fixed(b, ii_term(b)) /\ Fixed(b, ii_unterm(b))
BY DEF Typed, InputState, Fixed, ii_term, ii_unterm

LEMMA PushbackFixed ==
    ASSUME NEW b, Typed(b), NEW n
    PROVE  Fixed(b, ii_pushback(b, n).b)
BY DEF Typed, InputState, Fixed, ii_pushback

\* The input system between two calls, outside the code of a rule.
LEMMA Scans ==
    ASSUME IInv, TextInv, EofMeansAllRead, ib.err = "none", ~inAction
    PROVE  /\ Sound(ib) /\ Typed(ib) /\ Base(ib) /\ Faithful(ib) /\ ib.term = NUL /\ ReadsAll(ib)
BY DEF IInv, TextInv, Sound, EofMeansAllRead, ReadsAll

\* The places of the marks are places of the input.
LEMMA Inside ==
    ASSUME NEW b, Typed(b), Base(b), Faithful(b), Reads(b), b.text # <<>>
    PROVE  /\ Whole(b) \in Seq(Chars) /\ Len(Whole(b)) \in Nat
           /\ Pos(b, b.next) \in 0..Len(Whole(b))
           /\ Pos(b, b.sMark) \in 0..Len(Whole(b)) /\ Pos(b, b.eMark) \in 0..Len(Whole(b))
           /\ Pos(b, b.sMark) <= Pos(b, b.eMark) /\ Pos(b, b.eMark) <= Pos(b, b.next)
<1>1. b.file \in Seq(Chars) /\ b.rd \in Nat /\ b.rd <= Len(b.file) /\ Len(b.file) \in Nat
  BY FieldTypes, LenProperties
<1>2. Whole(b) \in Seq(Chars) /\ Len(Whole(b)) = Len(b.file) + 1
  BY <1>1, WholeFacts DEF Whole
<1>3. Len(b.text) = b.rd + 1
  BY DEF Reads
<1>4. /\ b.next \in LeftEdge(b)..b.end /\ b.sMark \in LeftEdge(b)..b.end
      /\ b.eMark \in LeftEdge(b)..b.end
      /\ b.next \in Int /\ b.eMark \in Int /\ b.sMark \in Int
      /\ b.eMark - b.sMark >= 0 /\ b.next - b.eMark >= 0
  BY EdgeFacts
<1>5. \A p \in LeftEdge(b)..b.end : Pos(b, p) \in 0..Len(b.text)
  BY PositionFacts
<1>6. Len(b.text) <= Len(Whole(b))
  BY <1>1, <1>2, <1>3
<1>7. /\ Pos(b, b.eMark) = Pos(b, b.sMark) + (b.eMark - b.sMark)
      /\ Pos(b, b.next) = Pos(b, b.eMark) + (b.next - b.eMark)
  BY <1>4, PositionSteps
<1>8. /\ Pos(b, b.next) \in 0..Len(b.text) /\ Pos(b, b.sMark) \in 0..Len(b.text)
      /\ Pos(b, b.eMark) \in 0..Len(b.text)
  BY <1>4, <1>5
<1> DEFINE h == Pos(b, b.next)
           s == Pos(b, b.sMark)
           e == Pos(b, b.eMark)
<1> HIDE DEF h, s, e
<1>9. s <= e /\ e <= h
  <2>1. e = s + (b.eMark - b.sMark) /\ h = e + (b.next - b.eMark) /\ s \in Int /\ e \in Int
    BY <1>7, <1>8 DEF h, s, e
  <2> QED BY <1>4, <2>1
<1>10. /\ h \in 0..Len(Whole(b)) /\ s \in 0..Len(Whole(b)) /\ e \in 0..Len(Whole(b))
  BY <1>1, <1>2, <1>3, <1>6, <1>8 DEF h, s, e
<1> QED BY <1>1, <1>2, <1>9, <1>10 DEF h, s, e

\* What the theorem is about: reads that return what they are asked for, one file, and
\* rules whose code does not touch the input.
Plain ==
    /\ ShortReads = FALSE /\ "newfile" \notin Calls /\ UserCalls \subseteq {"return"}
    /\ StartIsSilent

\* What holds before a step.
Before == IInv /\ TextInv /\ LexInv /\ EofMeansAllRead /\ MunchInv

\* Bad input and lexemes that are too long are not part of the promise.
Clean == pc \notin {"bad", "discard"}

LEMMA CallMunch == Before /\ Call => MunchInv'
<1> SUFFICES ASSUME Before, Call PROVE MunchInv'
  OBVIOUS
<1>1. /\ pc = "idle" /\ ib.err = "none" /\ pc' \in {"init", "top"}
      /\ (pc' = "init") <=> (yystate = -1)
      /\ ib' = ib /\ inAction' = inAction /\ start' = start /\ yymoreflg' = yymoreflg
      /\ yystate' = yystate
  BY DEF Call, Goto, Keep, vars, locals
<1>2. /\ Reads(ib) /\ yymoreflg = 0 /\ (inAction => Holding)
      /\ Fresh => ib.text = <<>> /\ start = 0
      /\ ~Fresh => ib.text # <<>>
  BY <1>1 DEF Before, MunchInv
<1>3. Reads(ib') /\ ib'.err = "none" /\ (Fresh' <=> Fresh) /\ (inAction' => pc' = "top")
  BY <1>1, <1>2 DEF Fresh, Holding
<1> QED BY <1>1, <1>2, <1>3 DEF MunchInv

LEMMA LoadMunch == Plain /\ Before /\ LoadFirst => MunchInv' /\ ib'.file = ib.file
<1> SUFFICES ASSUME Plain, Before, LoadFirst PROVE MunchInv' /\ ib'.file = ib.file
  OBVIOUS
<1>1. /\ pc = "init" /\ pc' = "unload" /\ ib.err = "none" /\ ~inAction /\ ~inAction'
      /\ start' = start /\ yymoreflg' = yymoreflg
  BY DEF LoadFirst, Goto, Keep, Advance, Scanning, locals
<1>2. PICK got \in AdvanceReads(ib) : ib' = ii_advance(ib, got).b
  BY DEF LoadFirst, Advance
<1>3. Reads(ib) /\ yymoreflg = 0 /\ ib.text = <<>> /\ start = 0
  BY <1>1 DEF Before, MunchInv, Fresh
<1>4. Sound(ib) /\ Faithful(ib) /\ ib.term = NUL
  BY <1>1, Scans DEF Before
<1> DEFINE f == FirstAdvance(ib)
<1>5. /\ f.next = END - 1 /\ f.sMark = END - 1 /\ f.end = END /\ f.text = <<NL>>
  BY <1>1, <1>3, <1>4, FirstReads
<1> HIDE DEF f
<1>6. /\ ib'.file = ib.file
      /\ ib'.err = "none" =>
           /\ Reads(ib') /\ ib'.text # <<>>
           /\ Pos(ib', ib'.sMark) = Pos(f, f.sMark)
           /\ ib' = f \/ Pos(ib', ib'.next) = Pos(f, f.next) + 1
  BY <1>1, <1>2, <1>3, <1>4, AdvanceMoves DEF f
<1>7. Pos(f, f.next) = 0 /\ Pos(f, f.sMark) = 0
  <2>1. Len(f.text) = 1 /\ END \in Nat
    BY <1>5, BufferSize
  <2>2. 1 - (END - (END - 1)) = 0
    BY <2>1
  <2> QED BY <1>5, <2>1, <2>2 DEF Pos
<1>8. ib'.err = "none" => Pos(ib', ib'.sMark) = 0 /\ Pos(ib', ib'.next) <= 1
  BY <1>6, <1>7
<1> QED BY <1>1, <1>3, <1>6, <1>8 DEF MunchInv, Fresh

LEMMA UnloadMunch == Before /\ Unload => MunchInv'
<1> SUFFICES ASSUME Before, Unload PROVE MunchInv'
  OBVIOUS
<1>1. /\ pc \in {"unload", "rewound"} /\ ib.err = "none" /\ ~inAction /\ ~inAction'
      /\ ib' = ii_pushback(ib, 1).b
      /\ pc' = (IF pc = "unload" THEN "top" ELSE "look")
      /\ yymoreflg' = yymoreflg
  BY DEF Unload, Goto, Keep, Pushback, Scanning, Becomes, locals
<1>2. pc' = "top" /\ Reads(ib) /\ yymoreflg = 0 /\ ib.text # <<>>
  BY <1>1 DEF Before, MunchInv, Fresh
<1>3. Typed(ib)
  BY <1>1, Scans DEF Before
<1>4. Reads(ib') /\ ib'.text # <<>> /\ ib'.err = "none"
  BY <1>1, <1>2, <1>3, PushbackFixed, FixedPlaces
<1> QED BY <1>1, <1>2, <1>4 DEF MunchInv, Fresh

LEMMA TopMunch == Before /\ (Top \/ Resume) => MunchInv'
<1> SUFFICES ASSUME Before, Top \/ Resume PROVE MunchInv'
  OBVIOUS
<1>1. /\ ib.err = "none" /\ ~inAction' /\ ib' = ii_unterm(ib)
      /\ yylastaccept' = 0 /\ yymoreflg' = 0
      /\ \/ pc = "top" /\ pc' = "mark" /\ yystate' = 0
         \/ /\ pc = "action" /\ pc' = (IF yymoreflg = 0 THEN "restart" ELSE "look")
            /\ yystate' = (IF yymoreflg = 0 THEN 0 ELSE yyprev)
  BY DEF Top, Resume, Goto, Unterm
<1>2. Reads(ib) /\ yymoreflg = 0 /\ ib.text # <<>>
  BY <1>1 DEF Before, MunchInv, Fresh
<1>3. Typed(ib)
  BY DEF Before, IInv, Sound
<1>4. Reads(ib') /\ ib'.text # <<>> /\ ib'.err = "none"
  BY <1>1, <1>2, <1>3, TermFixed, FixedPlaces
<1> QED BY <1>1, <1>2, <1>4 DEF MunchInv, Fresh

LEMMA MarkMunch == Before /\ (Mark \/ Restart) => MunchInv'
<1> SUFFICES ASSUME Before, Mark \/ Restart PROVE MunchInv'
  OBVIOUS
<1> DEFINE w == Whole(ib)
           h == Pos(ib, ib.next)
<1>1. /\ pc \in {"mark", "restart"} /\ pc' = "look"
      /\ ib.err = "none" /\ ~inAction /\ ~inAction' /\ ib' = ii_mark_start(ib)
      /\ start' = h /\ yystate' = yystate /\ yylastaccept' = yylastaccept
      /\ yymoreflg' = yymoreflg
  BY DEF Mark, Restart, Goto, MarkStart, Scanning, Becomes, locals, Position, Pos
<1>2. Reads(ib) /\ yymoreflg = 0 /\ ib.text # <<>> /\ yystate = 0 /\ yylastaccept = 0
  BY <1>1 DEF Before, MunchInv, Fresh
<1>3. Typed(ib) /\ Base(ib) /\ Faithful(ib)
  BY <1>1, Scans DEF Before
<1>4. /\ Fixed(ib, ib') /\ ib'.next = ib.next /\ ib'.sMark = ib.next /\ ib'.eMark = ib.next
  BY <1>1, <1>3, MarksFixed
<1>5. /\ Reads(ib') /\ ib'.text # <<>> /\ ib'.err = "none" /\ Whole(ib') = w
      /\ Pos(ib', ib'.next) = h /\ Pos(ib', ib'.sMark) = h /\ Pos(ib', ib'.eMark) = h
  BY <1>1, <1>2, <1>4, FixedPlaces
<1>6. w \in Seq(Chars) /\ h \in 0..Len(w)
  BY <1>2, <1>3, Inside
<1> HIDE DEF w, h
<1>7. Scanned(w, h, 0, 0, h, h)
  BY <1>6, ScanStarts
<1> QED BY <1>1, <1>2, <1>5, <1>7 DEF MunchInv, Fresh

\* What yylex() does with the next character, or at the end of the input.
LEMMA Looked ==
    ASSUME Before, Look
    PROVE  LET w == Whole(ib)
               h == Pos(ib, ib.next)
           IN  /\ ib.err = "none" /\ ~inAction /\ Reads(ib) /\ ib.text # <<>> /\ yymoreflg = 0
               /\ Pos(ib, ib.sMark) = start
               /\ Scanned(w, start, yystate, yylastaccept, Pos(ib, ib.eMark), h)
               /\ w \in Seq(Chars) /\ start \in 0..Len(w) /\ h \in 0..Len(w) /\ yystate \in States
               /\ pc' \in {"wrap", "shift", "found", "bad"}
               /\ pc' = "shift" => h < Len(w) /\ yynstate' = Yy_nxt[yystate][w[h+1]]
               /\ pc' = "found" => /\ yylastaccept # 0
                                   /\ h = Len(w) \/ Yy_nxt[yystate][w[h+1]] = YYF
               /\ pc' = "bad" => /\ yylastaccept = 0
                                 /\ h < Len(w) /\ Yy_nxt[yystate][w[h+1]] = YYF
<1> DEFINE w == Whole(ib)
           h == Pos(ib, ib.next)
           e == Pos(ib, ib.eMark)
           yylook == ii_look(ib, 1)
           next == IF yylook # EOF THEN Yy_nxt[yystate][yylook] ELSE YYF
<1>1. /\ pc = "look" /\ ib.err = "none" /\ yynstate' = next
      /\ pc' = (IF yylook = EOF /\ yylastaccept = 0 THEN "wrap"
                ELSE IF next # YYF THEN "shift" ELSE IF yylastaccept = 0 THEN "bad" ELSE "found")
  BY DEF Look, Goto
<1>2. /\ Reads(ib) /\ yymoreflg = 0 /\ ib.text # <<>> /\ ~inAction
      /\ Pos(ib, ib.sMark) = start /\ Scanned(w, start, yystate, yylastaccept, e, h)
  BY <1>1 DEF Before, MunchInv, Fresh, Holding
<1>3. /\ Sound(ib) /\ Typed(ib) /\ Base(ib) /\ Faithful(ib) /\ ib.term = NUL /\ ReadsAll(ib)
  BY <1>1, <1>2, Scans DEF Before
<1>4. /\ h \in 0..Len(w) /\ yylook = (IF h = Len(w) THEN EOF ELSE w[h+1])
  BY <1>1, <1>2, <1>3, LookSees
<1>5. w \in Seq(Chars) /\ Len(w) \in Nat /\ start \in 0..Len(w)
  BY <1>2, <1>3, Inside
<1>6. yystate \in States
  BY <1>1 DEF Before, LexInv, LexTypes, Driven
<1> HIDE DEF w, h, e, yylook
<1>7. h # Len(w) => h < Len(w) /\ yylook # EOF /\ next = Yy_nxt[yystate][w[h+1]]
  <2> SUFFICES ASSUME h # Len(w) PROVE h < Len(w) /\ yylook # EOF /\ next = Yy_nxt[yystate][w[h+1]]
    OBVIOUS
  <2>1. h < Len(w) /\ h + 1 \in 1..Len(w) /\ yylook = w[h+1]
    BY <1>4, <1>5
  <2>2. w[h+1] \in Chars
    BY <1>5, <2>1, ElementOfSeq
  <2>3. yylook # EOF
    BY <2>1, <2>2, CharAssumption DEF EOF
  <2> QED BY <2>1, <2>3
<1>8. h = Len(w) => yylook = EOF /\ next = YYF
  BY <1>4
<1> HIDE DEF next
<1>9. /\ pc' \in {"wrap", "shift", "found", "bad"}
      /\ pc' = "shift" => h < Len(w) /\ yynstate' = Yy_nxt[yystate][w[h+1]]
      /\ pc' = "found" => yylastaccept # 0 /\ (h = Len(w) \/ Yy_nxt[yystate][w[h+1]] = YYF)
      /\ pc' = "bad" => yylastaccept = 0 /\ h < Len(w) /\ Yy_nxt[yystate][w[h+1]] = YYF
  BY <1>1, <1>7, <1>8
<1> QED BY <1>1, <1>2, <1>4, <1>5, <1>6, <1>9 DEF w, h, e

LEMMA LookMunch == Before /\ Look /\ Clean' => MunchInv'
<1> SUFFICES ASSUME Before, Look, Clean' PROVE MunchInv'
  OBVIOUS
<1> DEFINE w == Whole(ib)
           h == Pos(ib, ib.next)
           e == Pos(ib, ib.eMark)
<1>1. /\ ib' = ib /\ inAction' = inAction /\ yystate' = yystate
      /\ yylastaccept' = yylastaccept /\ start' = start /\ yymoreflg' = yymoreflg
  BY DEF Look, vars
<1>2. /\ ib.err = "none" /\ ~inAction /\ Reads(ib) /\ ib.text # <<>> /\ yymoreflg = 0
      /\ Pos(ib, ib.sMark) = start
      /\ Scanned(w, start, yystate, yylastaccept, e, h)
      /\ w \in Seq(Chars) /\ start \in 0..Len(w) /\ yystate \in States
      /\ pc' \in {"wrap", "shift", "found", "bad"}
      /\ pc' = "shift" => h < Len(w) /\ yynstate' = Yy_nxt[yystate][w[h+1]]
      /\ pc' = "found" => yylastaccept # 0 /\ (h = Len(w) \/ Yy_nxt[yystate][w[h+1]] = YYF)
  BY Looked
<1> HIDE DEF w, h, e
<1>3. pc' = "found" => Longest(w, start, yylastaccept, e)
  BY <1>2, ScanEnds
<1>4. pc' \in {"wrap", "shift", "found"}
  BY <1>2 DEF Clean
<1> QED BY <1>1, <1>2, <1>3, <1>4 DEF MunchInv, Fresh, w, h, e

LEMMA ShiftMunch == Before /\ ShiftState /\ Clean' => MunchInv' /\ ib'.file = ib.file
<1> SUFFICES ASSUME Before, ShiftState, Clean' PROVE MunchInv' /\ ib'.file = ib.file
  OBVIOUS
<1> DEFINE w == Whole(ib)
           h == Pos(ib, ib.next)
           e == Pos(ib, ib.eMark)
<1>1. /\ pc = "shift" /\ ib.err = "none" /\ ~inAction /\ ~inAction'
      /\ yystate' = yystate /\ yynstate' = yynstate /\ yylastaccept' = yylastaccept
      /\ start' = start /\ yymoreflg' = yymoreflg
      /\ pc' = (IF failed' THEN "discard" ELSE "note")
  BY DEF ShiftState, Goto, Keep, Advance, Scanning, locals
<1>2. PICK got \in AdvanceReads(ib) :
         LET r == ii_advance(ib, got)
         IN  ib' = r.b /\ failed' = (r.ret = -1 /\ r.b.err = "none")
  BY DEF ShiftState, Advance
<1>3. pc' = "note" /\ ~failed'
  BY <1>1 DEF Clean
<1>4. /\ Reads(ib) /\ yymoreflg = 0 /\ ib.text # <<>> /\ Pos(ib, ib.sMark) = start
      /\ Scanned(w, start, yystate, yylastaccept, e, h)
      /\ h < Len(w) /\ yynstate = Yy_nxt[yystate][w[h+1]]
  BY <1>1 DEF Before, MunchInv, Fresh
<1>5. /\ Sound(ib) /\ Typed(ib) /\ Base(ib) /\ Faithful(ib) /\ ib.term = NUL /\ ReadsAll(ib)
  BY <1>1, Scans DEF Before
<1>6. FirstAdvance(ib) = ib
  BY <1>1, <1>4, <1>5, FirstAdvanceSound
<1>7. h \in 0..Len(w) /\ ~NO_MORE_CHARS(ib)
  <2>1. h \in 0..Len(w) /\ (NO_MORE_CHARS(ib) => h = Len(w))
    BY <1>1, <1>4, <1>5, LookSees
  <2>2. Len(w) \in Nat
    BY <1>4, <1>5, Inside
  <2> HIDE DEF h, w
  <2> QED BY <1>4, <2>1, <2>2
<1>8. /\ ib'.file = ib.file
      /\ ib'.err = "none" =>
           /\ Reads(ib') /\ ib'.text # <<>>
           /\ Pos(ib', ib'.sMark) = start /\ Pos(ib', ib'.eMark) = e
           /\ Pos(ib', ib'.next) = h + 1
  <2> DEFINE r == ii_advance(ib, got)
  <2>1. /\ r.b.file = ib.file
        /\ r.b.err = "none" =>
             /\ Reads(r.b) /\ r.b.text # <<>>
             /\ Pos(r.b, r.b.sMark) = Pos(ib, ib.sMark) /\ Pos(r.b, r.b.eMark) = e
             /\ \/ r.ret = 0 /\ NO_MORE_CHARS(ib) /\ r.b = ib
                \/ r.ret = -1 /\ r.b = ib
                \/ r.ret # -1 /\ Pos(r.b, r.b.next) = h + 1
    BY <1>1, <1>4, <1>5, <1>6, AdvanceMoves
  <2> HIDE DEF r
  <2>2. ib' = r.b /\ failed' = (r.ret = -1 /\ r.b.err = "none")
    BY <1>2 DEF r
  <2> QED BY <1>3, <1>4, <1>7, <2>1, <2>2
<1>9. Whole(ib') = w
  BY <1>8 DEF Whole
<1> HIDE DEF w, h, e
<1>10. (h + 1) - 1 = h
  BY <1>7
<1>11. ib'.err = "none" =>
         LET h1 == Pos(ib', ib'.next)
         IN  /\ h1 - 1 = h /\ w[h1] = w[h+1]
  BY <1>8, <1>10
<1> QED BY <1>1, <1>3, <1>4, <1>8, <1>9, <1>11 DEF MunchInv, Fresh, w, h, e

LEMMA NoteMunch == Plain /\ Before /\ Note => MunchInv'
<1> SUFFICES ASSUME Plain, Before, Note PROVE MunchInv'
  OBVIOUS
<1> DEFINE w == Whole(ib)
           h == Pos(ib, ib.next)
           e == Pos(ib, ib.eMark)
           q == h - 1
           n == yynstate
<1>1. /\ pc = "note" /\ pc' = "look" /\ ib.err = "none" /\ inAction' = inAction
      /\ yystate' = n /\ start' = start /\ yymoreflg' = yymoreflg
      /\ Yyaccept[n] # 0 => ib' = ii_mark_end(ib) /\ yylastaccept' = n
      /\ Yyaccept[n] = 0 => ib' = ib /\ yylastaccept' = yylastaccept
  BY DEF Note, Goto, MarkEnd, Becomes, vars
<1>2. /\ Reads(ib) /\ yymoreflg = 0 /\ ib.text # <<>> /\ ~inAction /\ Pos(ib, ib.sMark) = start
      /\ Scanned(w, start, yystate, yylastaccept, e, q)
      /\ q < Len(w) /\ n = Yy_nxt[yystate][w[h]]
  BY <1>1 DEF Before, MunchInv, Fresh, Holding
<1>3. Typed(ib) /\ Base(ib) /\ Faithful(ib)
  BY <1>1, <1>2, Scans DEF Before
<1>4. /\ w \in Seq(Chars) /\ Len(w) \in Nat /\ start \in 0..Len(w) /\ h \in 0..Len(w)
  BY <1>2, <1>3, Inside
<1>5. yystate \in States /\ n \in States /\ n # YYF
  BY <1>1, Tables DEF Before, LexInv, LexTypes, Driven
<1>6. /\ Fixed(ib, ii_mark_end(ib)) /\ ii_mark_end(ib).next = ib.next
      /\ ii_mark_end(ib).sMark = ib.sMark /\ ii_mark_end(ib).eMark = ib.next
  BY <1>3, MarksFixed
<1> HIDE DEF w, h, e
<1>7. q + 1 = h
  BY <1>4
<1>8. Path(w, start)[q+1] = n /\ w[h] \in Chars
  <2>1. q \in start..Len(w) /\ Path(w, start)[q + 1] = Yy_nxt[yystate][w[q + 1]]
    BY <1>2, <1>4, <1>5, ScanShifts
  <2>2. h \in 1..Len(w)
    BY <1>4, <2>1
  <2>3. w[h] \in Chars
    BY <1>4, <2>2, ElementOfSeq
  <2> QED BY <1>2, <1>7, <2>1, <2>3
<1>9. CASE Yyaccept[n] # 0
  <2>1. n # 0
    BY <1>2, <1>5, <1>8, <1>9, NeverZero DEF Plain
  <2>2. Scanned(w, start, n, n, q + 1, q + 1)
    BY <1>2, <1>4, <1>5, <1>8, <1>9, <2>1, ScanAccepts
  <2>3. /\ Reads(ib') /\ ib'.text # <<>> /\ ib'.err = "none" /\ Whole(ib') = w
        /\ Pos(ib', ib'.next) = h /\ Pos(ib', ib'.sMark) = start /\ Pos(ib', ib'.eMark) = h
    <3>1. /\ Fixed(ib, ib') /\ ib'.next = ib.next
          /\ ib'.sMark = ib.sMark /\ ib'.eMark = ib.next
      BY <1>1, <1>6, <1>9
    <3> QED BY <1>1, <1>2, <3>1, FixedPlaces DEF w, h
  <2>4. Scanned(w, start, n, n, h, h)
    BY <1>7, <2>2
  <2>5. yylastaccept' = n
    BY <1>1, <1>9
  <2> QED BY <1>1, <1>2, <2>3, <2>4, <2>5 DEF MunchInv, Fresh
<1>10. CASE Yyaccept[n] = 0
  <2>1. Scanned(w, start, n, yylastaccept, e, h)
    BY <1>2, <1>4, <1>7, <1>8, <1>10, ScanPasses
  <2>2. ib' = ib /\ yylastaccept' = yylastaccept
    BY <1>1, <1>10
  <2> QED BY <1>1, <1>2, <2>1, <2>2 DEF MunchInv, Fresh, w, h, e
<1> QED BY <1>9, <1>10

LEMMA BackUpMunch == Before /\ AnchorIsOfLastAccept /\ BackUp => MunchInv'
<1> SUFFICES ASSUME Before, AnchorIsOfLastAccept, BackUp PROVE MunchInv'
  OBVIOUS
<1> DEFINE w == Whole(ib)
           e == Pos(ib, ib.eMark)
<1>1. /\ pc = "found" /\ ib.err = "none" /\ ~inAction /\ ~inAction' /\ ib' = ii_to_mark(ib)
      /\ yylastaccept' = yylastaccept /\ yyanchor' = yyanchor /\ start' = start
      /\ yymoreflg' = yymoreflg
      /\ pc' = (IF yyanchor \in EndAnchored THEN "unread"
                ELSE IF yyanchor \in StartAnchored THEN "skip" ELSE "term")
  BY DEF BackUp, Goto, Keep, ToMark, Scanning, Becomes, locals, AfterPushback
<1>2. /\ Reads(ib) /\ yymoreflg = 0 /\ ib.text # <<>> /\ Pos(ib, ib.sMark) = start
      /\ Longest(w, start, yylastaccept, e)
  BY <1>1 DEF Before, MunchInv, Fresh
<1>3. Typed(ib)
  BY <1>1, Scans DEF Before
<1>4. Fixed(ib, ib') /\ ib'.sMark = ib.sMark /\ ib'.eMark = ib.eMark
  BY <1>1, <1>3, MarksFixed
<1>5. /\ Reads(ib') /\ ib'.text # <<>> /\ ib'.err = "none" /\ Whole(ib') = w
      /\ Pos(ib', ib'.sMark) = start /\ Pos(ib', ib'.eMark) = e
  BY <1>1, <1>2, <1>4, FixedPlaces
<1>6. Agrees'
  BY <1>1 DEF AnchorIsOfLastAccept, Agrees
<1>7. /\ pc' = "unread" => yyanchor' \in EndAnchored
      /\ pc' \in {"skip", "term"} => MatchEnd(e)' = e'
      /\ pc' = "skip" => yyanchor' \in StartAnchored
      /\ pc' = "term" => LexemeStart(Pos(ib, ib.eMark))' = start
      /\ pc' \in {"unread", "skip", "term"}
  BY <1>1 DEF MatchEnd, LexemeStart
<1> HIDE DEF w, e
<1> QED BY <1>1, <1>2, <1>5, <1>6, <1>7 DEF MunchInv, Fresh, w, e

LEMMA UnreadMunch == Before /\ UnreadNewline => MunchInv'
<1> SUFFICES ASSUME Before, UnreadNewline PROVE MunchInv'
  OBVIOUS
<1> DEFINE w == Whole(ib)
           s == Pos(ib, ib.sMark)
           e == Pos(ib, ib.eMark)
           m == ii_pushback(ib, 1)
<1>1. /\ pc = "unread" /\ ib.err = "none" /\ ~inAction /\ ~inAction' /\ ib' = m.b
      /\ yylastaccept' = yylastaccept /\ yyanchor' = yyanchor /\ start' = start
      /\ yymoreflg' = yymoreflg
      /\ pc' = (IF yyanchor \in StartAnchored THEN "skip" ELSE "term")
  BY DEF UnreadNewline, Goto, Keep, Pushback, Scanning, Becomes, locals, AfterPushback
<1>2. /\ Reads(ib) /\ yymoreflg = 0 /\ ib.text # <<>> /\ s = start
      /\ Longest(w, start, yylastaccept, e) /\ Agrees /\ yyanchor \in EndAnchored
  BY <1>1 DEF Before, MunchInv, Fresh
<1>3. Sound(ib) /\ Typed(ib) /\ Base(ib) /\ ib.next = ib.eMark
  BY <1>1, <1>2, Scans DEF Before, LexInv, AtLexemeEnd
<1>4. /\ m.b.sMark = ib.sMark
      /\ ib.eMark - ib.sMark >= 1 => m.b.eMark - m.b.sMark = (ib.eMark - ib.sMark) - 1
  BY <1>1, <1>3, PushbackShortens
<1>5. Fixed(ib, ib')
  BY <1>1, <1>3, PushbackFixed
<1>6. /\ Reads(ib') /\ ib'.text # <<>> /\ ib'.err = "none" /\ Whole(ib') = w
      /\ Pos(ib', ib'.sMark) = start /\ Pos(ib', ib'.eMark) = Pos(ib, ib'.eMark)
  BY <1>1, <1>2, <1>4, <1>5, FixedPlaces
<1>7. Pos(ib, ib'.eMark) = e - 1 /\ e \in Int
  <2> DEFINE l == ib.eMark - ib.sMark
             d == ib'.eMark - ib.sMark
  <2>1. ib.sMark \in Int /\ ib.eMark \in Int
    BY <1>3, EdgeFacts
  <2>2. s \in Int /\ e = s + l
    BY <1>3, <2>1, PositionSteps
  <2>3. e > s
    <3>1. e \in start+1..Len(w)
      BY <1>2 DEF Longest, Ends
    <3>2. start \in Int
      BY <1>2, <2>2
    <3> HIDE DEF w, e, s
    <3> QED BY <1>2, <3>1, <3>2
  <2>4. l \in Int /\ l >= 1
    <3>1. l \in Int
      BY <2>1
    <3> HIDE DEF l, e, s
    <3> QED BY <2>2, <2>3, <3>1
  <2>5. d = l - 1
    BY <1>1, <1>4, <2>4
  <2>6. ib'.eMark \in Int
    <3>1. Typed(m.b)
      BY <1>1, <1>3, PushbackSound DEF Sound
    <3>2. m.b.eMark \in 0..BUFSIZE /\ BUFSIZE \in Nat
      BY <3>1, FieldTypes, BufferSize
    <3> HIDE DEF m
    <3> QED BY <1>1, <3>2
  <2>7. Pos(ib, ib'.eMark) = s + d
    BY <1>3, <2>1, <2>6, PositionSteps
  <2> HIDE DEF l, d, e, s
  <2> QED BY <2>2, <2>4, <2>5, <2>7
<1> HIDE DEF w, e, s, m
<1>8. Agrees'
  BY <1>1, <1>2 DEF Agrees
<1>9. /\ MatchEnd(Pos(ib, ib.eMark))' = Pos(ib', ib'.eMark) + 1
      /\ Pos(ib', ib'.eMark) + 1 = e
  BY <1>1, <1>2, <1>6, <1>7 DEF MatchEnd
<1>10. /\ pc' = "skip" => yyanchor' \in StartAnchored
       /\ pc' = "term" => LexemeStart(Pos(ib, ib.eMark))' = start
       /\ pc' \in {"skip", "term"}
  BY <1>1 DEF LexemeStart
<1> QED BY <1>1, <1>2, <1>6, <1>8, <1>9, <1>10 DEF MunchInv, Fresh

LEMMA SkipMunch == Before /\ SkipNewline => MunchInv'
<1> SUFFICES ASSUME Before, SkipNewline PROVE MunchInv'
  OBVIOUS
<1> DEFINE w == Whole(ib)
           s == Pos(ib, ib.sMark)
           e == Pos(ib, ib.eMark)
<1>1. /\ pc = "skip" /\ pc' = "term" /\ ib.err = "none" /\ ~inAction /\ ~inAction'
      /\ ib' = ii_move_start(ib)
      /\ yylastaccept' = yylastaccept /\ yyanchor' = yyanchor /\ start' = start
      /\ yymoreflg' = yymoreflg
  BY DEF SkipNewline, Goto, Keep, MoveStart, Scanning, Becomes, locals
<1>2. /\ Reads(ib) /\ yymoreflg = 0 /\ ib.text # <<>> /\ s = start /\ Agrees
      /\ Longest(w, start, yylastaccept, MatchEnd(e)) /\ yyanchor \in StartAnchored
  BY <1>1 DEF Before, MunchInv, Fresh
<1>3. Typed(ib) /\ Base(ib)
  BY <1>1, Scans DEF Before
<1>4. /\ Fixed(ib, ib') /\ ib'.eMark = ib.eMark
      /\ ib'.sMark = IF ib.sMark >= ib.eMark THEN ib.sMark ELSE ib.sMark + 1
  BY <1>1, <1>3, MarksFixed
<1>5. /\ Reads(ib') /\ ib'.text # <<>> /\ ib'.err = "none" /\ Whole(ib') = w
      /\ Pos(ib', ib'.sMark) = Pos(ib, ib'.sMark) /\ Pos(ib', ib'.eMark) = e
  BY <1>1, <1>2, <1>4, FixedPlaces
<1>6. Pos(ib, ib'.sMark) = IF e > start THEN start + 1 ELSE start
  <2> DEFINE l == ib.eMark - ib.sMark
  <2>1. ib.sMark \in Int /\ ib.eMark \in Int /\ l \in Int /\ ib.sMark <= ib.eMark
    BY <1>3, EdgeFacts
  <2>2. s \in Int /\ e = s + l
    BY <1>3, <2>1, PositionSteps
  <2>3. ib.sMark + 1 \in Int /\ (ib.sMark + 1) - ib.sMark = 1
    BY <2>1
  <2>4. Pos(ib, ib.sMark + 1) = s + 1
    <3>1. Pos(ib, ib.sMark + 1) = s + ((ib.sMark + 1) - ib.sMark)
      BY <1>3, <2>1, <2>3, PositionSteps
    <3> HIDE DEF s
    <3> QED BY <2>3, <3>1
  <2>5. (ib.sMark >= ib.eMark) <=> ~(l >= 1)
    BY <2>1
  <2> HIDE DEF l, e, s
  <2>6. (e > s) <=> l >= 1
    BY <2>1, <2>2
  <2>7. ib'.sMark = IF e > s THEN ib.sMark + 1 ELSE ib.sMark
    BY <1>4, <2>5, <2>6
  <2> QED BY <1>2, <2>4, <2>7 DEF s
<1> HIDE DEF w, e, s
<1>7. /\ Agrees' /\ MatchEnd(Pos(ib, ib.eMark))' = MatchEnd(e)
      /\ LexemeStart(Pos(ib, ib.eMark))' = Pos(ib', ib'.sMark)
  BY <1>1, <1>2, <1>5, <1>6 DEF Agrees, MatchEnd, LexemeStart
<1> QED BY <1>1, <1>2, <1>5, <1>7 DEF MunchInv, Fresh

\* The lexeme is delivered, the rule returns, or there is no more input.
LEMMA RestMunch == Before /\ (Accept \/ UserReturn \/ WrapUp) => MunchInv'
<1> SUFFICES ASSUME Before, Accept \/ UserReturn \/ WrapUp PROVE MunchInv'
  OBVIOUS
<1>1. Typed(ib) /\ LexInv
  BY DEF Before, IInv, Sound
<1>2. CASE Accept
  <2>1. /\ pc = "term" /\ pc' = "action" /\ ib.err = "none" /\ ib' = ii_term(ib)
        /\ yymoreflg' = yymoreflg
    BY <1>2 DEF Accept, Goto, Term, Scanning, locals
  <2>2. Reads(ib) /\ yymoreflg = 0 /\ ib.text # <<>>
    BY <2>1 DEF Before, MunchInv, Fresh
  <2>3. Reads(ib') /\ ib'.text # <<>> /\ ib'.err = "none"
    BY <1>1, <2>1, <2>2, TermFixed, FixedPlaces
  <2> QED BY <2>1, <2>2, <2>3 DEF MunchInv, Fresh, Holding
<1>3. CASE UserReturn
  <2>1. /\ pc = "action" /\ pc' = "idle" /\ ib' = ib
        /\ yymoreflg' = yymoreflg /\ yystate' = yystate
    BY <1>3 DEF UserReturn, Goto, Keep, vars, locals
  <2>2. ib.err = "none" /\ Reads(ib) /\ yymoreflg = 0 /\ ib.text # <<>>
    BY <2>1 DEF Before, MunchInv, Fresh
  <2>3. yystate # -1
    BY <1>1, <2>1 DEF LexInv, Driven
  <2> QED BY <2>1, <2>2, <2>3 DEF MunchInv, Fresh, Holding
<1>4. CASE WrapUp
  <2>1. /\ pc = "wrap" /\ pc' = "done" /\ ib' = ib /\ ib.err = "none" /\ inAction' = inAction
        /\ yymoreflg' = yymoreflg
    BY <1>4 DEF WrapUp, Goto, vars, locals
  <2>2. Reads(ib) /\ yymoreflg = 0 /\ ib.text # <<>> /\ ~inAction
    BY <2>1 DEF Before, MunchInv, Fresh, Holding
  <2> QED BY <2>1, <2>2 DEF MunchInv, Fresh, Holding
<1> QED BY <1>2, <1>3, <1>4

\* What the promise leaves out does not happen.
LEMMA NotPlain ==
    Plain /\ Before =>
        ~(\/ WrapOpen \/ Reload \/ UserInput \/ UserMore
          \/ (\E n \in 1..MaxBack : UserLess(n)) \/ (\E c \in UnputChars : UserUnput(c)))
<1> SUFFICES ASSUME Plain, Before
             PROVE  ~(\/ WrapOpen \/ Reload \/ UserInput \/ UserMore
                      \/ (\E n \in 1..MaxBack : UserLess(n))
                      \/ (\E c \in UnputChars : UserUnput(c)))
  OBVIOUS
<1>1. ~WrapOpen
  BY DEF WrapOpen, NewFile, Plain
<1>2. ~Reload
  BY DEF Reload, Advance, Scanning, Before, MunchInv
<1>3. ~UserInput /\ ~UserMore
  BY DEF UserInput, UserMore, Allowed, Plain
<1>4. ~\E n \in 1..MaxBack : UserLess(n)
  BY DEF UserLess, Allowed, Plain
<1>5. ~\E c \in UnputChars : UserUnput(c)
  BY DEF UserUnput, Allowed, Plain
<1> QED BY <1>1, <1>2, <1>3, <1>4, <1>5

LEMMA StepMunch ==
    Plain /\ Before /\ AnchorIsOfLastAccept /\ Clean /\ Clean' /\ [LexNext]_lexVars => MunchInv'
<1> SUFFICES ASSUME Plain, Before, AnchorIsOfLastAccept, Clean, Clean', [LexNext]_lexVars
             PROVE  MunchInv'
  OBVIOUS
<1>1. CASE UNCHANGED lexVars
  <2>1. MunchInv
    BY DEF Before
  <2> QED BY <1>1, <2>1 DEF lexVars, vars, locals, MunchInv, Fresh, Holding, Agrees, MatchEnd,
                            LexemeStart
<1>2. CASE LexNext
  <2>1. ~Discard /\ ~BadInput
    BY DEF Discard, BadInput, Clean
  <2> QED BY <1>2, <2>1, NotPlain, CallMunch, LoadMunch, UnloadMunch, TopMunch, MarkMunch,
             LookMunch, ShiftMunch, NoteMunch, BackUpMunch, UnreadMunch, SkipMunch, RestMunch
             DEF LexNext
<1> QED BY <1>1, <1>2

-----------------------------------------------------------------------------
(* The refinement *)

\* How far MaximalMunch has cut the input.
Place == IF pc \in {"idle", "top", "mark", "action", "restart"}
         THEN Position(ib.next) ELSE start

Stutters == ib'.file = ib.file /\ Place' = Place /\ out' = out

LEMMA StutterIsStutter == Stutters => UNCHANGED MM!vars
BY DEF Stutters, Place, MM!vars

LEMMA FreshPlace ==
    ASSUME Before, ib.err = "none", Fresh
    PROVE  Pos(ib, ib.next) = 0
<1>1. ib.text = <<>>
  BY DEF Before, MunchInv
<1>2. Typed(ib) /\ Base(ib) /\ Faithful(ib)
  BY DEF Before, IInv, Sound, TextInv
<1>3. ib.next \in LeftEdge(ib)..ib.end
  BY <1>2, EdgeFacts
<1>4. Pos(ib, ib.next) \in 0..Len(ib.text) /\ Len(ib.text) = 0
  BY <1>1, <1>2, <1>3, PositionFacts
<1> HIDE DEF Pos
<1> QED BY <1>4

\* Every step but Accept.
LEMMA DriverStutters ==
    Plain /\ Before /\ Clean /\ Clean' /\ LexNext => Accept \/ Stutters
<1> SUFFICES ASSUME Plain, Before, Clean, Clean', LexNext, ~Accept PROVE Stutters
  OBVIOUS
<1>0. Typed(ib) /\ LexInv /\ MunchInv /\ IInv /\ TextInv
  BY DEF Before, IInv, Sound
<1>1. CASE Call
  <2>1. /\ pc = "idle" /\ ib.err = "none" /\ ib' = ib /\ start' = start /\ out' = out
        /\ pc' = (IF yystate = -1 THEN "init" ELSE "top")
    BY <1>1 DEF Call, Goto, Keep, vars
  <2>2. pc' = "init" => Pos(ib, ib.next) = 0 /\ start = 0
    BY <1>0, <2>1, FreshPlace DEF MunchInv, Fresh
  <2> QED BY <2>1, <2>2 DEF Stutters, Place, Position, Pos
<1>2. CASE LoadFirst
  <2>1. ib'.file = ib.file
    BY <1>2, LoadMunch
  <2>2. pc = "init" /\ pc' = "unload" /\ start' = start /\ out' = out
    BY <1>2 DEF LoadFirst, Goto, Keep
  <2> QED BY <2>1, <2>2 DEF Stutters, Place
<1>3. CASE Unload
  <2> DEFINE m == ii_pushback(ib, 1).b
  <2>1. /\ pc \in {"unload", "rewound"} /\ pc' = (IF pc = "unload" THEN "top" ELSE "look")
        /\ ib.err = "none" /\ ~inAction /\ ib' = m /\ start' = start /\ out' = out
    BY <1>3 DEF Unload, Goto, Keep, Pushback, Scanning, Becomes
  <2>2. /\ pc = "unload" /\ pc' = "top" /\ start = 0 /\ Pos(ib, ib.sMark) = 0
        /\ Pos(ib, ib.next) <= 1
    BY <1>0, <2>1 DEF MunchInv
  <2>3. Fixed(ib, m) /\ m.next = ib.next - Pushed(ib, 1)
    <3>1. m.next = ib.next - Pushed(ib, 1)
      BY <1>0 DEF ii_pushback, Typed, InputState
    <3> QED BY <1>0, <3>1, PushbackFixed
  <2>4. m.next = ib.sMark
    <3> DEFINE d == ib.next - ib.sMark
    <3>1. Base(ib)
      BY <2>1, Scans DEF Before
    <3>2. ib.sMark \in Int /\ ib.next \in Int /\ ib.sMark <= ib.next /\ d \in Int
      BY <1>0, <3>1, EdgeFacts
    <3>3. Pos(ib, ib.next) = Pos(ib, ib.sMark) + d
      BY <1>0, <3>2, PositionSteps
    <3>4. d <= 1
      <4> HIDE DEF d
      <4> QED BY <2>2, <3>2, <3>3
    <3>5. Pushed(ib, 1) = d
      BY <3>2, <3>4 DEF Pushed
    <3> QED BY <2>3, <3>2, <3>5
  <2>5. Pos(ib', ib'.next) = 0 /\ ib'.file = ib.file
    BY <2>1, <2>2, <2>3, <2>4, FixedPlaces DEF Fixed
  <2> QED BY <2>1, <2>2, <2>5 DEF Stutters, Place, Position, Pos
<1>4. CASE Top \/ Resume
  <2>1. /\ ib.err = "none" /\ ib' = ii_unterm(ib) /\ out' = out
        /\ \/ pc = "top" /\ pc' = "mark"
           \/ pc = "action" /\ pc' = (IF yymoreflg = 0 THEN "restart" ELSE "look")
    BY <1>4 DEF Top, Resume, Goto, Unterm
  <2>2. pc' \in {"mark", "restart"}
    BY <1>0, <2>1 DEF MunchInv
  <2>3. Fixed(ib, ib') /\ ib'.next = ib.next
    BY <1>0, <2>1, TermFixed, UntermPlaces
  <2>4. Pos(ib', ib'.next) = Pos(ib, ib.next) /\ ib'.file = ib.file
    BY <2>3, FixedPlaces DEF Fixed
  <2> QED BY <2>1, <2>2, <2>4 DEF Stutters, Place, Position, Pos
<1>5. CASE Mark \/ Restart
  <2>1. /\ pc \in {"mark", "restart"} /\ pc' = "look" /\ ib' = ii_mark_start(ib) /\ out' = out
        /\ start' = Position(ib.next)
    BY <1>5 DEF Mark, Restart, Goto, MarkStart, Becomes
  <2>2. Fixed(ib, ib')
    BY <1>0, <2>1, MarksFixed
  <2> QED BY <2>1, <2>2 DEF Stutters, Place, Fixed
<1>6. CASE Look \/ WrapUp
  <2>1. /\ pc \in {"look", "wrap"} /\ ib' = ib /\ start' = start /\ out' = out
        /\ pc' \notin {"idle", "top", "mark", "action", "restart"}
    BY <1>6 DEF Look, WrapUp, Goto, vars
  <2> QED BY <2>1 DEF Stutters, Place
<1>7. CASE ShiftState
  <2>1. ib'.file = ib.file
    BY <1>7, ShiftMunch
  <2>2. /\ pc = "shift" /\ pc' \in {"discard", "note"} /\ start' = start /\ out' = out
    BY <1>7 DEF ShiftState, Goto, Keep
  <2> QED BY <2>1, <2>2 DEF Stutters, Place
<1>8. CASE Note
  <2>1. /\ pc = "note" /\ pc' = "look" /\ start' = start /\ out' = out
        /\ ib' = ib \/ ib' = ii_mark_end(ib)
    BY <1>8 DEF Note, Goto, MarkEnd, Becomes, vars
  <2>2. ib'.file = ib.file
    BY <1>0, <2>1, MarksFixed DEF Fixed
  <2> QED BY <2>1, <2>2 DEF Stutters, Place
<1>9. CASE BackUp \/ UnreadNewline \/ SkipNewline
  <2>1. /\ pc \in {"found", "unread", "skip"} /\ pc' \in {"unread", "skip", "term"}
        /\ start' = start /\ out' = out
        /\ \/ ib' = ii_to_mark(ib) \/ ib' = ii_pushback(ib, 1).b \/ ib' = ii_move_start(ib)
    BY <1>9 DEF BackUp, UnreadNewline, SkipNewline, AfterPushback, Goto, Keep, ToMark, Pushback,
                MoveStart, Becomes
  <2>2. ib'.file = ib.file
    BY <1>0, <2>1, MarksFixed, PushbackFixed DEF Fixed
  <2> QED BY <2>1, <2>2 DEF Stutters, Place
<1>10. CASE UserReturn
  <2>1. pc = "action" /\ pc' = "idle" /\ ib' = ib /\ start' = start /\ out' = out
    BY <1>10 DEF UserReturn, Goto, Keep, vars
  <2> QED BY <2>1 DEF Stutters, Place, Position
<1>11. ~Discard /\ ~BadInput
  BY DEF Discard, BadInput, Clean
<1> QED BY <1>1, <1>2, <1>3, <1>4, <1>5, <1>6, <1>7, <1>8, <1>9, <1>10, <1>11, NotPlain DEF LexNext

\* The lexeme is the part of the input between its marks.
LEMMA LexemeIsPart ==
    ASSUME Sound(ib), ib.err = "none", Faithful(ib), ib.term = NUL, Reads(ib), ib.text # <<>>
    PROVE  Lexeme = SubSeq(Whole(ib), Pos(ib, ib.sMark) + 1, Pos(ib, ib.eMark))
<1> DEFINE w == Whole(ib)
           s == Pos(ib, ib.sMark)
           e == Pos(ib, ib.eMark)
           l == ib.eMark - ib.sMark
           part == SubSeq(w, s + 1, e)
<1>1. Typed(ib) /\ Base(ib)
  BY DEF Sound
<1>2. /\ w \in Seq(Chars) /\ Len(w) \in Nat /\ s \in 0..Len(w) /\ e \in 0..Len(w) /\ s <= e
  BY <1>1, Inside
<1>3. ib.sMark \in Int /\ ib.eMark \in Int /\ l \in Int
  BY <1>1, EdgeFacts
<1>4. e = s + l
  BY <1>1, <1>3, PositionSteps
<1>5. Lexeme \in Seq(Chars)
  BY LexemeIsText
<1>6. l \in Nat /\ Lexeme = [i \in 1..l |-> ib.buf[ib.sMark + i - 1]]
  BY <1>1, EdgeFacts DEF Lexeme, Length
<1>7. Len(Lexeme) = l
  <2> HIDE DEF l
  <2> QED BY <1>5, <1>6
<1>8. ASSUME NEW i \in 1..l PROVE Lexeme[i] = w[s + i]
  <2> DEFINE p == ib.sMark + i - 1
  <2>1. /\ p \in LeftEdge(ib)..ib.end-1 /\ p \in Int /\ p - ib.sMark = i - 1 /\ i \in Int
    BY <1>1, EdgeFacts, SMTT(30)
  <2>2. ib.buf[p] = ib.text[Pos(ib, p) + 1]
    BY <2>1 DEF Faithful, Shows, At
  <2>3. Pos(ib, p) + 1 \in 1..Len(ib.text)
    <3>1. p \in LeftEdge(ib)..ib.end /\ p < ib.end
      BY <1>1, <2>1, EdgeFacts
    <3> HIDE DEF p
    <3> QED BY <1>1, <3>1, PositionFacts
  <2>4. Pos(ib, p) = s + (i - 1)
    <3>1. Pos(ib, p) = s + (p - ib.sMark)
      BY <1>1, <1>3, <2>1, PositionSteps
    <3> HIDE DEF p, s
    <3> QED BY <2>1, <3>1
  <2>5. Pos(ib, p) + 1 = s + i
    <3> HIDE DEF p, s
    <3> QED BY <1>2, <2>1, <2>4
  <2>6. ib.called
    BY <1>1 DEF Base
  <2>7. Len(ib.text) = ib.rd + 1 /\ \A j \in 1..ib.rd+1 : ib.text[j] = w[j]
    BY <2>6 DEF Reads
  <2>8. Lexeme[i] = ib.buf[p]
    <3> HIDE DEF l
    <3> QED BY <1>6
  <2> HIDE DEF p, w, s
  <2> QED BY <2>2, <2>3, <2>5, <2>7, <2>8
<1> HIDE DEF w, s, e, l
<1>9. /\ part \in Seq(Chars) /\ Len(part) = l
      /\ \A i \in 1..l : part[i] = w[s + i]
  <2>1. s + 1 \in Int /\ e \in Int /\ e - (s + 1) + 1 = l
        /\ (IF s + 1 <= e THEN e - (s + 1) + 1 ELSE 0) = l
    BY <1>2, <1>4, <1>6
  <2>2. \A i \in s+1..e : w[i] \in Chars
    <3>1. \A i \in s+1..e : i \in 1..Len(w)
      BY <1>2
    <3> QED BY <1>2, <3>1, ElementOfSeq
  <2>3. /\ part \in Seq(Chars) /\ Len(part) = IF s + 1 <= e THEN e - (s + 1) + 1 ELSE 0
        /\ \A i \in 1..e - (s + 1) + 1 : part[i] = w[(s + 1) + i - 1]
    BY <2>1, <2>2, SubSeqProperties
  <2>4. \A i \in 1..l : (s + 1) + i - 1 = s + i
    BY <1>2, <1>6
  <2> HIDE DEF part
  <2> QED BY <2>1, <2>3, <2>4
<1> HIDE DEF part
<1>10. Lexeme = part
  BY <1>5, <1>7, <1>8, <1>9, SeqEqual
<1> QED BY <1>10 DEF part, w, s, e

\* ii_term() and the switch: the longest match is cut off.
LEMMA AcceptEmits == Before /\ Accept => MM!Emit
<1> SUFFICES ASSUME Before, Accept PROVE MM!Emit
  OBVIOUS
<1> DEFINE w == Whole(ib)
           s == Pos(ib, ib.sMark)
           e == Pos(ib, ib.eMark)
           last == MatchEnd(e)
           from == IF Yyaccept[yylastaccept] \in StartAnchored THEN start + 2 ELSE start + 1
           to == IF Yyaccept[yylastaccept] \in EndAnchored THEN last - 1 ELSE last
<1>1. /\ pc = "term" /\ pc' = "action" /\ ib.err = "none" /\ ~inAction /\ ib' = ii_term(ib)
      /\ out' = Append(out, [state |-> yylastaccept, text |-> Lexeme])
  BY DEF Accept, Goto, Term, Scanning
<1>2. /\ Reads(ib) /\ ib.text # <<>> /\ Agrees
      /\ Longest(w, start, yylastaccept, last) /\ s = LexemeStart(e)
  BY <1>1 DEF Before, MunchInv, Fresh
<1>3. /\ Sound(ib) /\ Typed(ib) /\ Base(ib) /\ Faithful(ib) /\ ib.term = NUL
      /\ ib.next = ib.eMark /\ start \in Nat
  BY <1>1, Scans DEF Before, LexInv, AtLexemeEnd, LexTypes
<1>4. /\ w \in Seq(Chars) /\ Len(w) \in Nat /\ s \in 0..Len(w) /\ e \in 0..Len(w) /\ s <= e
  BY <1>2, <1>3, Inside
<1>5. Lexeme = SubSeq(w, s + 1, e)
  BY <1>1, <1>2, <1>3, LexemeIsPart
<1>6. Fixed(ib, ib') /\ Pos(ib', ib'.next) = e
  <2>1. Fixed(ib, ib') /\ ib'.next = ib.next
    BY <1>1, <1>3, TermFixed, TermPlaces
  <2>2. Pos(ib', ib'.next) = Pos(ib, ib'.next)
    BY <2>1, FixedPlaces
  <2> QED BY <1>3, <2>1, <2>2
<1> HIDE DEF w, s, e
<1>7. to = e
  BY <1>2, <1>4 DEF MatchEnd, Agrees
<1>8. Lexeme = SubSeq(w, from, to)
  <2>1. CASE yyanchor \in StartAnchored /\ ~(e > start)
    <3>1. s = start /\ from = start + 2
      BY <1>2, <2>1 DEF LexemeStart, Agrees
    <3>2. e < s + 1 /\ e < from /\ s + 1 \in Int /\ from \in Int /\ e \in Int
      BY <1>3, <1>4, <2>1, <3>1
    <3> HIDE DEF from, to
    <3>3. SubSeq(w, s + 1, e) = <<>> /\ SubSeq(w, from, e) = <<>>
      BY <3>2, SubSeqEmpty
    <3> QED BY <1>5, <1>7, <3>3
  <2>2. CASE ~(yyanchor \in StartAnchored /\ ~(e > start))
    <3>1. from = s + 1
      BY <1>2, <1>3, <2>2 DEF LexemeStart, Agrees
    <3> HIDE DEF from, to
    <3> QED BY <1>5, <1>7, <3>1
  <2> QED BY <2>1, <2>2
<1>9. /\ last \in Ends(w, start) /\ Path(w, start)[last] = yylastaccept
      /\ \A i \in Ends(w, start) : i <= last
  BY <1>2 DEF Longest
<1>10. MM!StateAfter(start) = Path(w, start) /\ MM!Matches(start) = Ends(w, start)
  BY MunchTerms DEF w
<1>11. Whole(ib') = Whole(ib) /\ Position(ib.next)' = e
  BY <1>6, FixedPlaces DEF Position, Pos
<1> HIDE DEF last, from, to
<1>12. Place = start /\ Place' = to
  BY <1>1, <1>7, <1>11 DEF Place
<1>13. out' = Append(out, [state |-> yylastaccept, text |-> SubSeq(w, from, to)])
  BY <1>1, <1>8
<1> QED BY <1>1, <1>9, <1>10, <1>11, <1>12, <1>13 DEF MM!Emit, Place, Whole, w, from, to

-----------------------------------------------------------------------------
(* The theorem *)

LEMMA InitMunch == LexInit => MunchInv /\ MM!Init
<1> SUFFICES ASSUME LexInit PROVE MunchInv /\ MM!Init
  OBVIOUS
<1>1. /\ pc = "idle" /\ yystate = -1 /\ start = 0 /\ out = <<>> /\ yymoreflg = 0 /\ ~inAction
      /\ ib \in {Statics(f) : f \in Files}
  BY DEF LexInit, Init
<1>2. /\ ib.err = "none" /\ ~ib.called /\ ib.text = <<>> /\ ib.rd = 0
      /\ ib.end = END /\ ib.next = END
  BY <1>1 DEF Statics
<1>3. MunchInv
  BY <1>1, <1>2 DEF MunchInv, Reads, Fresh
<1>4. Position(ib.next) = 0
  <2>1. END - END = 0 /\ Len(ib.text) = 0
    BY <1>2, BufferSize
  <2> QED BY <1>2, <2>1 DEF Position
<1> QED BY <1>1, <1>3, <1>4 DEF MM!Init

\* yylex() gives a rule nothing but the longest match at that place of the input, skips
\* nothing between two matches, and says 0 only of the rest (CutsAtLongestMatch): for
\* every machine, every file, and every size of the buffer, so that no refill, no pushback
\* and no return to the mark changes where a lexeme starts or ends.  The promise is for
\* runs without bad input and without a lexeme that is too long (Clean), in which the
\* anchor in force is that of the state that accepted (AnchorIsOfLastAccept: AnchorsStay
\* says for which machines it always is), and for rules that leave the input alone (Plain).
THEOREM LongestMatch ==
    ASSUME Plain
    PROVE  LexSpec /\ []AnchorIsOfLastAccept /\ []Clean => CutsAtLongestMatch
<1> DEFINE Known == IInv /\ TextInv /\ LexInv /\ EofMeansAllRead
<1>1. LexSpec => []Known
  <2>1. ShortReads = FALSE
    BY DEF Plain
  <2>2. Spec => []EofMeansAllRead
    BY <2>1, EofMeansRead
  <2> QED BY <2>2, LexerIsClient, InputInvariant, TextInvariant, LexerInvariant, PTL
<1>2. LexInit => MunchInv /\ MM!Init
  BY InitMunch
<1>3. Known /\ MunchInv /\ AnchorIsOfLastAccept /\ Clean /\ Clean' /\ [LexNext]_lexVars
        => MunchInv' /\ [MM!Emit]_(MM!vars)
  <2> SUFFICES ASSUME Known, MunchInv, AnchorIsOfLastAccept, Clean, Clean', [LexNext]_lexVars
               PROVE  MunchInv' /\ [MM!Emit]_(MM!vars)
    OBVIOUS
  <2>1. Before
    BY DEF Before
  <2>2. MunchInv'
    BY <2>1, StepMunch
  <2>3. CASE LexNext
    <3>1. Accept \/ Stutters
      BY <2>1, <2>3, DriverStutters
    <3> QED BY <2>1, <2>2, <3>1, AcceptEmits, StutterIsStutter
  <2>4. CASE UNCHANGED lexVars
    <3>1. Stutters
      BY <2>4 DEF lexVars, vars, Stutters, Place, Position
    <3> QED BY <2>2, <3>1, StutterIsStutter
  <2> QED BY <2>3, <2>4
<1> HIDE DEF Known
<1> QED BY <1>1, <1>2, <1>3, PTL DEF LexSpec, CutsAtLongestMatch, MM!Safe

-----------------------------------------------------------------------------
(* The anchor in force *)

Anchored == StartAnchored \union EndAnchored

\* An accepting state of an anchored rule goes to accepting states only: no longer lexeme
\* can be begun there and given up.
AnchorsLast ==
    \A s \in States : \A c \in Chars \union {NUL} :
        Yyaccept[s] \in Anchored /\ Yy_nxt[s][c] # YYF => Yyaccept[Yy_nxt[s][c]] # 0

InLexeme == {"mark", "look", "wrap", "reload", "rewound", "shift", "discard", "note", "bad",
             "found", "restart"}

\* The anchor is that of the state the machine is in.  If that is not the state that
\* accepted, neither has one.
AnchorInv ==
    /\ pc \in {"shift", "discard", "note"} =>
         \E c \in Chars \union {NUL} : yynstate = Yy_nxt[yystate][c]
    /\ pc = "found" => yylastaccept # 0
    /\ pc \in InLexeme /\ yylastaccept # 0 =>
         /\ yyanchor = Yyaccept[yystate]
         /\ \/ yystate = yylastaccept
            \/ Yyaccept[yylastaccept] \notin Anchored /\ Yyaccept[yystate] = 0

LEMMA StepAnchor ==
    ASSUME AnchorsLast, Good, AnchorInv, LexNext
    PROVE  AnchorInv'
<1>1. CASE Look
  <2> DEFINE yylook == ii_look(ib, 1)
  <2>1. /\ pc = "look" /\ ib.err = "none"
        /\ yynstate' = (IF yylook # EOF THEN Yy_nxt[yystate][yylook] ELSE YYF)
        /\ pc' = (IF yylook = EOF /\ yylastaccept = 0 THEN "wrap"
                  ELSE IF yynstate' # YYF THEN "shift"
                  ELSE IF yylastaccept = 0 THEN "bad" ELSE "found")
        /\ yystate' = yystate /\ yylastaccept' = yylastaccept /\ yyanchor' = yyanchor
    BY <1>1 DEF Look, Goto
  <2>2. Typed(ib) /\ Base(ib)
    BY <2>1 DEF Good, IInv, Sound
  <2>3. yylook # EOF => yylook \in Chars \union {NUL}
    BY <2>2, LookIsChar
  <2> HIDE DEF yylook
  <2>4. pc' \notin {"discard", "note"} /\ pc' \in InLexeme
    BY <2>1 DEF InLexeme
  <2>5. pc' = "shift" => \E c \in Chars \union {NUL} : yynstate' = Yy_nxt[yystate'][c]
    BY <2>1, <2>3
  <2>6. pc' = "found" => yylastaccept' # 0
    BY <2>1
  <2>7. /\ yylastaccept # 0 =>
             /\ yyanchor = Yyaccept[yystate]
             /\ \/ yystate = yylastaccept
                \/ Yyaccept[yylastaccept] \notin Anchored /\ Yyaccept[yystate] = 0
    BY <2>1 DEF AnchorInv, InLexeme
  <2> QED BY <2>1, <2>4, <2>5, <2>6, <2>7 DEF AnchorInv
<1>2. CASE Note
  <2>1. /\ pc = "note" /\ pc' = "look" /\ yystate' = yynstate /\ yyanchor' = Yyaccept[yynstate]
        /\ Yyaccept[yynstate] # 0 => yylastaccept' = yynstate
        /\ Yyaccept[yynstate] = 0 => yylastaccept' = yylastaccept
    BY <1>2 DEF Note, Goto
  <2>2. yystate \in States /\ yynstate # YYF
    BY <2>1 DEF Good, LexInv, LexTypes, Driven
  <2>3. PICK c \in Chars \union {NUL} : yynstate = Yy_nxt[yystate][c]
    BY <2>1 DEF AnchorInv
  <2>4. Yyaccept[yynstate] = 0 => Yyaccept[yystate] \notin Anchored
    BY <2>2, <2>3 DEF AnchorsLast
  <2>5. yylastaccept # 0 => \/ yystate = yylastaccept
                            \/ Yyaccept[yylastaccept] \notin Anchored
    BY <2>1 DEF AnchorInv, InLexeme
  <2> QED BY <2>1, <2>4, <2>5 DEF AnchorInv
<1>3. CASE Top \/ Resume
  <2>1. yylastaccept' = 0 /\ pc' \in {"mark", "restart", "look"}
    BY <1>3 DEF Top, Resume, Goto
  <2> QED BY <2>1 DEF AnchorInv
<1>4. CASE \/ Call \/ LoadFirst \/ BackUp \/ UnreadNewline \/ SkipNewline \/ Accept \/ WrapUp
           \/ UserReturn
  <2>1. pc' \in {"init", "top", "unload", "unread", "skip", "term", "action", "done", "idle"}
    BY <1>4 DEF Call, LoadFirst, BackUp, UnreadNewline, SkipNewline, Accept, WrapUp, UserReturn,
                Goto, AfterPushback
  <2> QED BY <2>1 DEF AnchorInv, InLexeme
<1>5. CASE UserInput \/ UserMore \/ (\E n \in 1..MaxBack : UserLess(n))
           \/ (\E c \in UnputChars : UserUnput(c))
  <2>1. pc' = "action"
    BY <1>5 DEF UserInput, UserMore, UserLess, UserUnput, Allowed
  <2> QED BY <2>1 DEF AnchorInv, InLexeme
<1>6. CASE Unload \/ Mark \/ WrapOpen \/ Reload \/ ShiftState \/ Discard \/ BadInput \/ Restart
  <2>1. /\ yystate' = yystate /\ yynstate' = yynstate /\ yylastaccept' = yylastaccept
        /\ yyanchor' = yyanchor
    BY <1>6 DEF Unload, Mark, WrapOpen, Reload, ShiftState, Discard, BadInput, Restart, Keep, locals
  <2>2. /\ pc' # "found" /\ (pc' \in {"shift", "discard", "note"} => pc \in {"shift", "discard"})
        /\ pc' \in InLexeme => pc \in InLexeme
    BY <1>6 DEF Unload, Mark, WrapOpen, Reload, ShiftState, Discard, BadInput, Restart, Goto,
                InLexeme
  <2> QED BY <2>1, <2>2 DEF AnchorInv
<1> QED BY <1>1, <1>2, <1>3, <1>4, <1>5, <1>6 DEF LexNext

\* When yylex() has found a lexeme, yyanchor tells whether the rule that accepted it is
\* anchored, after any input and whatever the code of the rules does, if no anchored
\* lexeme is the beginning of a longer one that can still be given up (lex.par:117-125).
THEOREM AnchorsStay ==
    ASSUME AnchorsLast
    PROVE  LexSpec => []AnchorIsOfLastAccept
<1>1. LexSpec => []Good
  BY LexerIsClient, InputInvariant, TextInvariant, LexerInvariant, PTL DEF Good
<1>2. LexInit => AnchorInv
  BY DEF LexInit, AnchorInv, InLexeme
<1>3. Good /\ AnchorInv /\ [LexNext]_lexVars => AnchorInv'
  <2> SUFFICES ASSUME Good, AnchorInv, [LexNext]_lexVars PROVE AnchorInv'
    OBVIOUS
  <2>1. CASE UNCHANGED lexVars
    BY <2>1 DEF lexVars, locals, AnchorInv
  <2> QED BY <2>1, StepAnchor
<1>4. AnchorInv => AnchorIsOfLastAccept
  <2> SUFFICES ASSUME AnchorInv, pc = "found" PROVE Agrees
    BY DEF Agrees, AnchorIsOfLastAccept
  <2>1. /\ yyanchor = Yyaccept[yystate]
        /\ \/ yystate = yylastaccept
           \/ Yyaccept[yylastaccept] \notin Anchored /\ Yyaccept[yystate] = 0
    BY DEF AnchorInv, InLexeme
  <2> QED BY <2>1 DEF Agrees, Anchored, StartAnchored, EndAnchored
<1> QED BY <1>1, <1>2, <1>3, <1>4, PTL DEF LexSpec

-----------------------------------------------------------------------------
(* Machines and files for which the promise holds without conditions *)

\* Every place of the input begins a lexeme: the rules match whatever they are given.
EverythingMatches ==
    \A f \in Files : LET w == <<NL>> \o f IN \A p \in 0..Len(w)-1 : Ends(w, p) # {}

\* The machine fails on more than MAXLEX characters, also where it looks for the end of a
\* lexeme that is shorter.
NoneTooLong ==
    \A f \in Files : LET w == <<NL>> \o f
                     IN  \A p \in 0..Len(w) : \A i \in p..Len(w) :
                            i > p + MAXLEX => Path(w, p)[i] = YYF

\* The file is one of the files, and no lexeme before the current one is kept.
Sole == ib.file \in Files /\ (ib.err = "none" => ib.pMark = NULL)

LEMMA CallsKeepPrev ==
    ASSUME NEW b, Typed(b)
    PROVE  /\ ii_mark_start(b).pMark = b.pMark /\ ii_mark_end(b).pMark = b.pMark
           /\ ii_to_mark(b).pMark = b.pMark /\ ii_move_start(b).pMark = b.pMark
           /\ ii_pushback(b, 1).b.pMark = b.pMark
           /\ ii_term(b).pMark = b.pMark /\ ii_unterm(b).pMark = b.pMark
BY DEF Typed, InputState, ii_mark_start, ii_mark_end, ii_to_mark, ii_move_start, ii_pushback,
       ii_term, ii_unterm

LEMMA AdvanceKeepsPrev ==
    ASSUME NEW b, Sound(b), b.err = "none", b.pMark = NULL, NEW got \in AdvanceReads(b),
           ii_advance(b, got).b.err = "none"
    PROVE  ii_advance(b, got).b.pMark = NULL
<1> DEFINE f == FirstAdvance(b)
           c == ii_flush(f, FALSE, got).b
           r == ii_advance(b, got)
<1>1. Typed(f) /\ f.err = "none" /\ Base(f) /\ f.called
  BY FirstAdvanceSound
<1>2. f.pMark = NULL
  BY DEF FirstAdvance, Sound, Typed, InputState
<1>3. got \in FlushReads(f, FALSE)
  BY DEF AdvanceReads
<1>4. r.b = f \/ r.b = c \/ r.b = Consume(c)
  BY DEF ii_advance
<1> HIDE DEF f, r
<1>5. /\ c.err = "none" => c.pMark = NULL
      /\ Typed(c)
  <2>1. CASE c = f
    <3> HIDE DEF c
    <3> QED BY <1>1, <1>2, <2>1
  <2>2. CASE ~NO_MORE_CHARS(f) /\ MustFlush(f, FALSE) /\ ~TooFull(f)
    <3> DEFINE left == LeftEdge(f)
    <3>1. c = Refill(f, left, got)
      BY <2>2 DEF ii_flush
    <3>2. got \in ReadResults(f, Need(f.end - left)) /\ ~f.eof
      BY <1>3, <2>2 DEF FlushReads, MustFlush
    <3>3. left \in 0..END /\ left <= f.sMark /\ (f.pMark # NULL => left <= f.pMark)
      BY <1>1, EdgeFacts, BufferSize DEF END
    <3> HIDE DEF left, c
    <3>4. Refill(f, left, got).err = "none" => Refill(f, left, got).pMark = NULL
      BY <1>1, <1>2, <3>2, <3>3, RefillFields
    <3>5. Typed(Refill(f, left, got))
      BY <1>1, <3>2, <3>3, RefillSound
    <3> QED BY <3>1, <3>4, <3>5
  <2>3. c = f \/ (~NO_MORE_CHARS(f) /\ MustFlush(f, FALSE) /\ ~TooFull(f))
    BY DEF ii_flush
  <2> QED BY <2>1, <2>2, <2>3
<1> HIDE DEF c
<1>6. Consume(c).pMark = c.pMark /\ Consume(c).err = c.err
  BY <1>5 DEF Consume, Typed, InputState
<1>7. r.b.err = "none"
  BY DEF r
<1> QED BY <1>2, <1>4, <1>5, <1>6, <1>7 DEF r

LEMMA SoleStays ==
    ASSUME Plain, Before, Clean, Clean', Sole, LexNext
    PROVE  Sole'
<1>1. Typed(ib) /\ Sound(ib)
  BY DEF Before, IInv, Sound
<1>2. ib'.file = ib.file
  <2>1. CASE Accept
    BY <1>1, <2>1, TermFixed DEF Accept, Term, Fixed
  <2> QED BY <2>1, DriverStutters DEF Stutters
<1>3. ASSUME ib'.err = "none" PROVE ib'.pMark = NULL
  <2>1. CASE Call \/ Look \/ WrapUp \/ UserReturn
    <3>1. ib' = ib
      BY <2>1 DEF Call, Look, WrapUp, UserReturn, vars
    <3> QED BY <1>3, <3>1 DEF Sole
  <2>2. CASE LoadFirst \/ ShiftState
    <3>1. ib.err = "none" /\ ib.pMark = NULL
      BY <2>2 DEF LoadFirst, ShiftState, Advance, Scanning, Sole
    <3>2. PICK got \in AdvanceReads(ib) : ib' = ii_advance(ib, got).b
      BY <2>2 DEF LoadFirst, ShiftState, Advance
    <3> QED BY <1>1, <1>3, <3>1, <3>2, AdvanceKeepsPrev
  <2>3. CASE \/ Unload \/ UnreadNewline \/ Top \/ Resume \/ Mark \/ Restart \/ Note \/ BackUp
             \/ SkipNewline \/ Accept
    <3>1. ib.err = "none" /\ ib.pMark = NULL
      BY <2>3 DEF Sole, Unload, UnreadNewline, Top, Resume, Mark, Restart, Note, BackUp,
                  SkipNewline, Accept, Pushback, Unterm, MarkStart, ToMark, MoveStart, Term, Scanning
    <3>2. ib' \in {ib, ii_pushback(ib, 1).b, ii_unterm(ib), ii_mark_start(ib), ii_mark_end(ib),
                   ii_to_mark(ib), ii_move_start(ib), ii_term(ib)}
      BY <2>3 DEF Unload, UnreadNewline, Top, Resume, Mark, Restart, Note, BackUp, SkipNewline,
                  Accept, Pushback, Unterm, MarkStart, MarkEnd, ToMark, MoveStart, Term, Becomes,
                  vars
    <3> QED BY <1>1, <3>1, <3>2, CallsKeepPrev
  <2>4. ~Discard /\ ~BadInput
    BY DEF Discard, BadInput, Clean
  <2> QED BY <2>1, <2>2, <2>3, <2>4, NotPlain DEF LexNext
<1> QED BY <1>2, <1>3 DEF Sole

\* There is always a longer match to look for, or one that has been found.
LEMMA LookClean ==
    ASSUME EverythingMatches, Before, Sole, Look
    PROVE  pc' # "bad"
<1> SUFFICES ASSUME pc' = "bad" PROVE FALSE
  OBVIOUS
<1> DEFINE w == Whole(ib)
           h == Pos(ib, ib.next)
           e == Pos(ib, ib.eMark)
<1>1. /\ Scanned(w, start, yystate, 0, e, h)
      /\ w \in Seq(Chars) /\ start \in 0..Len(w) /\ h \in 0..Len(w) /\ yystate \in States
      /\ h < Len(w) /\ Yy_nxt[yystate][w[h+1]] = YYF
  BY Looked
<1>2. ib.file \in Files
  BY DEF Sole
<1>3. start \in 0..Len(w)-1 => Ends(w, start) # {}
  BY <1>2 DEF EverythingMatches, Whole
<1> HIDE DEF w, h, e
<1>4. Len(w) \in Nat /\ h \in start..Len(w)
  BY <1>1, LenProperties DEF Scanned
<1>5. PICK i \in Ends(w, start) : TRUE
  BY <1>1, <1>3, <1>4
<1>6. i > h
  BY <1>1, <1>5 DEF Scanned, LastMatch
<1>7. h + 1 \in start..Len(w) /\ Path(w, start)[h+1] = YYF
  BY <1>1, <1>4, ScanShifts
<1>8. i < h + 1
  BY <1>1, <1>5, <1>7, FailedForGood
<1>9. i \in Int
  BY <1>1, <1>4 DEF Ends
<1> QED BY <1>1, <1>4, <1>6, <1>8, <1>9

\* A lexeme is refused that has MAXLEX characters already, and can go on.
LEMMA ShiftClean ==
    ASSUME NoneTooLong, Before, Sole, IInv', ShiftState
    PROVE  pc' # "discard"
<1> SUFFICES ASSUME pc' = "discard" PROVE FALSE
  OBVIOUS
<1> DEFINE w == Whole(ib)
           h == Pos(ib, ib.next)
           e == Pos(ib, ib.eMark)
<1>1. /\ pc = "shift" /\ ib.err = "none" /\ ~inAction /\ failed'
      /\ yystate \in States /\ yynstate # YYF
  BY DEF ShiftState, Goto, Advance, Scanning, Before, LexInv, LexTypes, Driven
<1>2. PICK got \in AdvanceReads(ib) :
         LET r == ii_advance(ib, got)
         IN  ib' = r.b /\ failed' = (r.ret = -1 /\ r.b.err = "none")
  BY DEF ShiftState, Advance
<1>3. /\ Reads(ib) /\ ib.text # <<>> /\ Pos(ib, ib.sMark) = start
      /\ Scanned(w, start, yystate, yylastaccept, e, h)
      /\ h < Len(w) /\ yynstate = Yy_nxt[yystate][w[h+1]]
  BY <1>1 DEF Before, MunchInv, Fresh
<1>4. /\ Sound(ib) /\ Typed(ib) /\ Base(ib) /\ Faithful(ib) /\ ib.term = NUL /\ ReadsAll(ib)
  BY <1>1, Scans DEF Before
<1>5. ib' = ib
  <2> DEFINE r == ii_advance(ib, got)
  <2>1. FirstAdvance(ib) = ib
    BY <1>1, <1>3, <1>4, FirstAdvanceSound
  <2>2. r.ret = -1 /\ r.b.err = "none" /\ ib' = r.b
    BY <1>1, <1>2
  <2>3. \/ r.ret = 0 \/ r.b = ib \/ r.ret # -1
    <3> HIDE DEF r
    <3> QED BY <1>1, <1>3, <1>4, <2>1, <2>2, AdvanceMoves DEF r
  <2> HIDE DEF r
  <2> QED BY <2>2, <2>3
<1>6. h >= start + MAXLEX /\ start \in Nat
  <2> DEFINE d == ib.next - ib.sMark
  <2>1. LeftEdge(ib) = ib.sMark
    BY <1>1 DEF Sole, LeftEdge
  <2>2. d >= MAXLEX
    BY <1>1, <1>5, <2>1 DEF IInv, RefusedOnlyWhenFull
  <2>3. ib.next \in Int /\ ib.sMark \in Int /\ d \in Int
    BY <1>4, EdgeFacts
  <2>4. h = start + d
    BY <1>3, <1>4, <2>3, PositionSteps
  <2>5. start \in Nat /\ MAXLEX \in Nat
    BY SizeAssumption DEF Before, LexInv, LexTypes
  <2> HIDE DEF d, h
  <2> QED BY <2>2, <2>3, <2>4, <2>5
<1>7. w \in Seq(Chars) /\ Len(w) \in Nat /\ start \in 0..Len(w)
  BY <1>3, <1>4, Inside
<1>8. ib.file \in Files
  BY DEF Sole
<1>9. \A p \in 0..Len(w) : \A i \in p..Len(w) : i > p + MAXLEX => Path(w, p)[i] = YYF
  BY <1>8 DEF NoneTooLong, Whole
<1> HIDE DEF w, h, e
<1>10. h + 1 \in start..Len(w) /\ Path(w, start)[h+1] = yynstate /\ h \in Int
  <2>1. /\ h \in start..Len(w) /\ h + 1 \in start+1..Len(w)
        /\ Path(w, start)[h+1] = Yy_nxt[yystate][w[h+1]]
    BY <1>1, <1>3, <1>7, ScanShifts
  <2> QED BY <1>3, <1>6, <1>7, <2>1
<1>11. h + 1 > start + MAXLEX
  BY <1>6, <1>10, SizeAssumption
<1> QED BY <1>1, <1>7, <1>9, <1>10, <1>11

LEMMA InitSole == LexInit => Sole
BY DEF LexInit, Init, Statics, Sole

\* A file is cut from end to end: yylex() never calls what it reads bad input, and never
\* gives up a lexeme as too long (lex.par:113-130), if the rules match whatever they are
\* given and need no more than MAXLEX characters to see it.
THEOREM NothingDiscarded ==
    ASSUME Plain, EverythingMatches, NoneTooLong
    PROVE  LexSpec /\ []AnchorIsOfLastAccept => []Clean
<1> DEFINE Known == IInv /\ TextInv /\ LexInv /\ EofMeansAllRead
<1>1. LexSpec => []Known /\ []IInv
  <2>1. ShortReads = FALSE
    BY DEF Plain
  <2>2. Spec => []EofMeansAllRead
    BY <2>1, EofMeansRead
  <2> QED BY <2>2, LexerIsClient, InputInvariant, TextInvariant, LexerInvariant, PTL
<1>2. LexInit => MunchInv /\ Sole /\ Clean
  <2>1. LexInit => pc = "idle"
    BY DEF LexInit
  <2> QED BY <2>1, InitMunch, InitSole DEF Clean
<1> HIDE DEF Known
<1>3. Known /\ MunchInv /\ Sole /\ Clean /\ AnchorIsOfLastAccept /\ IInv' /\ [LexNext]_lexVars
        => MunchInv' /\ Sole' /\ Clean'
  <2> SUFFICES ASSUME Known, MunchInv, Sole, Clean, AnchorIsOfLastAccept, IInv', [LexNext]_lexVars
               PROVE  MunchInv' /\ Sole' /\ Clean'
    OBVIOUS
  <2>1. Before
    BY DEF Before, Known
  <2>2. Clean'
    <3>1. pc' = "bad" => Look \/ pc = "bad"
      BY DEF LexNext, Call, LoadFirst, Unload, Top, Mark, WrapUp, WrapOpen, Reload, ShiftState,
             Discard, Note, BadInput, BackUp, UnreadNewline, SkipNewline, Accept, Resume, Restart,
             UserInput, UserMore, UserReturn, UserLess, UserUnput, Allowed, Goto, AfterPushback,
             lexVars
    <3>2. pc' = "discard" => ShiftState \/ pc = "discard"
      BY DEF LexNext, Call, LoadFirst, Unload, Top, Mark, Look, WrapUp, WrapOpen, Reload,
             Discard, Note, BadInput, BackUp, UnreadNewline, SkipNewline, Accept, Resume, Restart,
             UserInput, UserMore, UserReturn, UserLess, UserUnput, Allowed, Goto, AfterPushback,
             lexVars
    <3> QED BY <2>1, <3>1, <3>2, LookClean, ShiftClean DEF Clean
  <2>3. MunchInv'
    BY <2>1, <2>2, StepMunch
  <2>4. Sole'
    <3>1. CASE UNCHANGED lexVars
      BY <3>1 DEF lexVars, vars, Sole
    <3> QED BY <2>1, <2>2, <3>1, SoleStays
  <2> QED BY <2>2, <2>3, <2>4
<1> QED BY <1>1, <1>2, <1>3, PTL DEF LexSpec

\* The promise in terms of the machine and the files alone.
THEOREM LongestMatchAlways ==
    ASSUME Plain, AnchorsLast, EverythingMatches, NoneTooLong
    PROVE  LexSpec => CutsAtLongestMatch
BY AnchorsStay, NothingDiscarded, LongestMatch, PTL

=============================================================================
