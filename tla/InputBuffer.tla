----------------------------- MODULE InputBuffer -----------------------------
(***************************************************************************)
(* The input system of a generated lexer (lib/input.c): one fixed buffer   *)
(* that slides over the input file, the marks that delimit the lexeme      *)
(* being collected, and the character that ii_term() borrows to make the   *)
(* lexeme a C string.                                                      *)
(*                                                                         *)
(* The file-scope variables of input.c are the fields of one record b, and *)
(* every ii_ function is an operator from records to records, so that      *)
(* functions that call each other compose as they do in C.  A pointer into *)
(* Start_buf is its index, a character is its (positive) code.             *)
(*                                                                         *)
(*   buf   Start_buf     next  Next     line   Lineno     eof   Eof_read   *)
(*   end   End_buf       sMark sMark    mline  Mline      called           *)
(*   pMark pMark         eMark eMark    term   Termchar     been_called    *)
(*   pLength, pLineno    of the previous lexeme                            *)
(*                                                                         *)
(* Environment: file is the open file, rd the number of its characters     *)
(* that read() has returned, opened the number of files opened so far and  *)
(* err the internal error that ended the program, if any.  text is a       *)
(* history field: every character loaded since the file was opened, with   *)
(* the changes made through ii_unput().                                    *)
(***************************************************************************)
EXTENDS Integers, Sequences, FiniteSets

CONSTANTS
    MAXLEX,      \* unit of buffered reads, limit on a lexeme (1024 in the code)
    MAXLOOK,     \* characters of lookahead (16 in the code)
    Chars,       \* the characters a file may hold
    NL,          \* the newline
    Files,       \* the files that may be opened
    ShortReads   \* whether read() may return less than is asked and available

NUL  == 0      \* '\0'
EOF  == -1     \* stdio's EOF, also the failure code of ii_advance()
NULL == -1     \* the null value of pMark

ASSUME SizeAssumption == /\ MAXLOOK \in Nat \ {0}
                         /\ MAXLEX \in Nat
                         /\ MAXLOOK < MAXLEX

ASSUME CharAssumption == /\ Chars \subseteq Nat \ {NUL}
                         /\ NL \in Chars
                         /\ Files \subseteq Seq(Chars)
                         /\ ShortReads \in BOOLEAN

BUFSIZE == (MAXLEX * 3) + (2 * MAXLOOK)

END == BUFSIZE

DANGER(b) == b.end - MAXLOOK

NO_MORE_CHARS(b) == b.eof /\ b.next >= b.end

\* The state a program starts in: nothing buffered, f on standard input.
Statics(f) ==
    [ buf   |-> [i \in 0..BUFSIZE-1 |-> NUL], end |-> END, next |-> END,
      sMark |-> END, eMark |-> END, pMark |-> NULL, pLength |-> 0, pLineno |-> 0,
      line  |-> 1, mline |-> 1, term |-> NUL, eof |-> FALSE, called |-> FALSE,
      file  |-> f, rd |-> 0, opened |-> 1, err |-> "none", text |-> <<>> ]

ii_newfile(b, f) ==
    [b EXCEPT !.file = f, !.rd = 0, !.text = <<>>, !.opened = @ + 1, !.eof = FALSE,
              !.next = END, !.sMark = END, !.pMark = END, !.eMark = END, !.end = END,
              !.line = 1, !.mline = 1]

-----------------------------------------------------------------------------
(* Marks *)

ii_mark_start(b) ==
    [b EXCEPT !.mline = b.line, !.eMark = b.next, !.sMark = b.next]

ii_mark_end(b) == [b EXCEPT !.mline = b.line, !.eMark = b.next]

ii_move_start(b) ==
    IF b.sMark >= b.eMark THEN b ELSE [b EXCEPT !.sMark = @ + 1]

\* Mutant: the line number is left where the lookahead had brought it.
ii_to_mark_KeepsLine(b) == [b EXCEPT !.next = b.eMark]

ii_to_mark(b) == [b EXCEPT !.line = b.mline, !.next = b.eMark]

ii_mark_prev(b) ==
    [b EXCEPT !.pLineno = b.line, !.pLength = b.eMark - b.sMark, !.pMark = b.sMark]

-----------------------------------------------------------------------------
(* Filling the buffer.  got is what read() returns for this call. *)

\* Mutant: the room is rounded up to a whole read.
Need_RoundsUp(start) == ((END - start + MAXLEX - 1) \div MAXLEX) * MAXLEX

Need(start) == ((END - start) \div MAXLEX) * MAXLEX

\* What read(fd, p, need) may return.
ReadResults(b, need) ==
    LET left == Len(b.file) - b.rd
        most == IF need < left THEN need ELSE left
    IN  IF ShortReads /\ most > 0 THEN {-1} \union 1..most ELSE {most}

\* Mutant: a read that returns all that was asked for is taken for the last.
ReadInto_AlwaysLast(b, start, got) ==
    [b EXCEPT !.buf = [i \in 0..BUFSIZE-1 |->
                          IF start <= i /\ i < start + got
                          THEN b.file[b.rd + (i - start) + 1] ELSE b.buf[i]],
              !.end = start + got,
              !.eof = @ \/ got <= Need(start),
              !.rd = @ + got,
              !.text = @ \o SubSeq(b.file, b.rd + 1, b.rd + got)]

\* got characters are stored at start.
ReadInto(b, start, got) ==
    [b EXCEPT !.buf = [i \in 0..BUFSIZE-1 |->
                          IF start <= i /\ i < start + got
                          THEN b.file[b.rd + (i - start) + 1] ELSE b.buf[i]],
              !.end = start + got,
              !.eof = @ \/ got < Need(start),
              !.rd = @ + got,
              !.text = @ \o SubSeq(b.file, b.rd + 1, b.rd + got)]

ii_fillbuf(b, start, got) ==
    IF Need(start) = 0 THEN [b |-> b, ret |-> 0]
    ELSE IF got < 0 THEN [b |-> [b EXCEPT !.err = "read"], ret |-> got]
    ELSE [b |-> ReadInto(b, start, got), ret |-> got]

LeftEdge(b) == IF b.pMark # NULL THEN b.pMark ELSE b.sMark

\* Mutant: the buffer is refilled only when it is empty.
MustFlush_Late(b, force) == ~b.eof /\ (b.next >= b.end \/ force)

MustFlush(b, force) == ~b.eof /\ (b.next >= DANGER(b) \/ force)

\* Mutants: the test is inverted; or forgotten.
TooFull_Inverted(b) == LeftEdge(b) >= MAXLEX
TooFull_Never(b) == FALSE

TooFull(b) == LeftEdge(b) < MAXLEX

\* Mutant: the copy starts one character late.
MoveText_Late(b, left) ==
    [b EXCEPT !.buf = [i \in 0..BUFSIZE-1 |->
                          IF i + left + 1 < b.end THEN b.buf[i + left + 1] ELSE b.buf[i]]]

\* The text from left on is moved to the front of the buffer.
MoveText(b, left) ==
    [b EXCEPT !.buf = [i \in 0..BUFSIZE-1 |->
                          IF i < b.end - left THEN b.buf[i + left] ELSE b.buf[i]]]

\* Mutants: the start of the previous lexeme stays; or the end of the lexeme.
Shift_ForgetsPrev(b, left) ==
    [b EXCEPT !.sMark = @ - left, !.eMark = @ - left, !.next = @ - left]
Shift_ForgetsEnd(b, left) ==
    [b EXCEPT !.pMark = IF @ # NULL THEN @ - left ELSE @,
              !.sMark = @ - left, !.next = @ - left]

Shift(b, left) ==
    [b EXCEPT !.pMark = IF @ # NULL THEN @ - left ELSE @,
              !.sMark = @ - left, !.eMark = @ - left, !.next = @ - left]

\* The part of ii_flush() that moves the text and refills the buffer.
Refill(b, left, got) ==
    LET filled == ii_fillbuf(MoveText(b, left), b.end - left, got)
    IN  IF filled.ret = 0 THEN [filled.b EXCEPT !.err = "full"]
        ELSE IF filled.ret < 0 THEN filled.b
        ELSE Shift(filled.b, left)

ii_flush(b, force, got) ==
    IF NO_MORE_CHARS(b) THEN [b |-> b, ret |-> 0]
    ELSE IF ~MustFlush(b, force) THEN [b |-> b, ret |-> 1]
    ELSE IF ~TooFull(b) THEN [b |-> Refill(b, LeftEdge(b), got), ret |-> 1]
    ELSE IF ~force THEN [b |-> b, ret |-> -1]
    ELSE [b |-> Refill(ii_mark_prev(ii_mark_start(b)), b.next, got), ret |-> 1]

\* The values of got that a call of ii_flush(force) may meet.
FlushReads(b, force) ==
    IF ~MustFlush(b, force) \/ (TooFull(b) /\ ~force) THEN {0}
    ELSE ReadResults(b, Need(b.end - (IF TooFull(b) THEN b.next ELSE LeftEdge(b))))

\* The first call of ii_advance() puts a newline in front of the input.
FirstAdvance(b) ==
    IF b.called THEN b
    ELSE [b EXCEPT !.next = END - 1, !.sMark = END - 1, !.eMark = END - 1,
                   !.pMark = NULL, !.pLength = 0, !.buf[END - 1] = NL,
                   !.line = @ - 1, !.mline = @ - 1, !.called = TRUE,
                   !.text = <<NL>>]

Consume(b) ==
    [b EXCEPT !.next = @ + 1, !.line = IF b.buf[b.next] = NL THEN @ + 1 ELSE @]

ii_advance(b, got) ==
    LET first == FirstAdvance(b)
        flushed == ii_flush(first, FALSE, got)
    IN  IF NO_MORE_CHARS(first) THEN [b |-> first, ret |-> 0]
        ELSE IF flushed.ret < 0 \/ flushed.b.err # "none"
             THEN [b |-> flushed.b, ret |-> -1]
        ELSE [b |-> Consume(flushed.b), ret |-> flushed.b.buf[flushed.b.next]]

AdvanceReads(b) == FlushReads(FirstAdvance(b), FALSE)

-----------------------------------------------------------------------------
(* Looking ahead and pushing back *)

ii_look(b, n) ==
    IF n > b.end - b.next THEN IF b.eof THEN EOF ELSE 0
    ELSE IF n - 1 < -b.next THEN 0
    ELSE b.buf[b.next + n - 1]

\* The number of characters the loop of ii_pushback(n) really pushes.
Pushed(b, n) ==
    IF b.next <= b.sMark THEN 0
    ELSE IF n < b.next - b.sMark THEN n ELSE b.next - b.sMark

ii_pushback(b, n) ==
    LET to == b.next - Pushed(b, n)
        ln == b.line - Cardinality({i \in to..b.next - 1 : b.buf[i] = NL})
        back == [b EXCEPT !.next = to, !.line = ln]
    IN  [ b |-> IF to < b.eMark THEN [back EXCEPT !.eMark = to, !.mline = ln] ELSE back,
          ret |-> to > b.sMark ]

-----------------------------------------------------------------------------
(* Calls made while the lexeme may be a C string *)

ii_term(b) == [b EXCEPT !.term = b.buf[b.next], !.buf[b.next] = NUL]

ii_unterm(b) ==
    IF b.term = NUL THEN b ELSE [b EXCEPT !.buf[b.next] = b.term, !.term = NUL]

Rewrap(b, c) == IF b.term # NUL THEN ii_term(c) ELSE c

ii_input(b, got) ==
    LET adv == ii_advance(ii_unterm(b), got)
    IN  [b |-> IF adv.b.err # "none" THEN adv.b
               ELSE Rewrap(b, ii_mark_end(adv.b)),
         ret |-> adv.ret]

\* *Next = c, with the history of the text kept in step.
Overwrite(b, c) ==
    [b EXCEPT !.buf[b.next] = c, !.text[Len(b.text) - (b.end - b.next) + 1] = c]

ii_unput(b, c) ==
    LET back == ii_pushback(ii_unterm(b), 1)
    IN  Rewrap(b, IF back.ret THEN Overwrite(back.b, c) ELSE back.b)

ii_lookahead(b, n) == IF n = 1 /\ b.term # NUL THEN b.term ELSE ii_look(b, n)

ii_flushbuf(b, got) == ii_flush(ii_unterm(b), TRUE, got)

=============================================================================
