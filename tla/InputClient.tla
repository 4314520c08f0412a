----------------------------- MODULE InputClient -----------------------------
(***************************************************************************)
(* The most general legal client of the input system: it makes any call of *)
(* lib/input.c, in any order that the comments there and the protocol of   *)
(* yylex() allow.  Between ii_term() and the matching ii_unterm() the      *)
(* lexeme is a C string and only the calls open to a lexer's action may be *)
(* made: ii_input(), ii_unput(), yyless() and ii_flushbuf().  ii_flush(1)  *)
(* is called when ii_advance() has just failed, which is what its comment  *)
(* offers it for.                                                          *)
(***************************************************************************)
EXTENDS InputBuffer

CONSTANTS
    Calls,       \* the optional calls this client makes
    MaxOpens,    \* bound on the files opened
    MaxBack,     \* bound on the argument of a pushback
    UnputChars,  \* the characters pushed back by ii_unput()
    MaxUnputs    \* bound on the number of ii_unput() calls

CallNames == {"newfile", "mark_prev", "unput", "flushbuf"}

ASSUME ClientAssumption == /\ Calls \subseteq CallNames
                           /\ MaxOpens \in Nat \ {0}
                           /\ MaxBack \in Nat
                           /\ UnputChars \subseteq Chars
                           /\ MaxUnputs \in Nat

VARIABLES
    ib,          \* the input system
    inAction,    \* the driver is between ii_term() and ii_unterm()
    failed,      \* the last call was an ii_advance() that returned -1
    unputs       \* number of ii_unput() calls made

vars == <<ib, inAction, failed, unputs>>

\* Something has been read from the open file.
Loaded == ib.text # <<>>

Scanning == ib.err = "none" /\ ~inAction

Acting == ib.err = "none" /\ inAction

Init == /\ ib \in {Statics(f) : f \in Files}
        /\ inAction = FALSE
        /\ failed = FALSE
        /\ unputs = 0

Becomes(b) == ib' = b /\ failed' = FALSE /\ UNCHANGED <<inAction, unputs>>

NewFile(f) == /\ Scanning /\ "newfile" \in Calls /\ ib.opened < MaxOpens
              /\ Becomes(ii_newfile(ib, f))

Advance == /\ Scanning
           /\ \E got \in AdvanceReads(ib) :
                LET r == ii_advance(ib, got)
                IN  ib' = r.b /\ failed' = (r.ret = -1 /\ r.b.err = "none")
           /\ UNCHANGED <<inAction, unputs>>

ForceFlush == /\ Scanning /\ failed
              /\ \E got \in FlushReads(ib, TRUE) : Becomes(ii_flush(ib, TRUE, got).b)

Pushback(n) == Scanning /\ Loaded /\ Becomes(ii_pushback(ib, n).b)

MarkStart == Scanning /\ Loaded /\ Becomes(ii_mark_start(ib))

MarkEnd == Scanning /\ Loaded /\ Becomes(ii_mark_end(ib))

MoveStart == Scanning /\ Loaded /\ Becomes(ii_move_start(ib))

ToMark == Scanning /\ Loaded /\ Becomes(ii_to_mark(ib))

MarkPrev == /\ Scanning /\ Loaded /\ "mark_prev" \in Calls
            /\ Becomes(ii_mark_prev(ib))

Term == /\ Scanning /\ Loaded
        /\ ib' = ii_term(ib) /\ inAction' = TRUE /\ failed' = FALSE
        /\ UNCHANGED unputs

Unterm == /\ ib.err = "none"
          /\ ib' = ii_unterm(ib) /\ inAction' = FALSE /\ failed' = FALSE
          /\ UNCHANGED unputs

Input == /\ Acting
         /\ \E got \in AdvanceReads(ii_unterm(ib)) : Becomes(ii_input(ib, got).b)

\* Mutant: the string is not terminated again.
Less_Unterminated(n) == Acting /\ Becomes(ii_pushback(ii_unterm(ib), n).b)

\* yyless(n): ii_unterm(), ii_pushback(n), ii_term().
Less(n) == Acting /\ Becomes(ii_term(ii_pushback(ii_unterm(ib), n).b))

Unput(c) == /\ Acting /\ "unput" \in Calls /\ unputs < MaxUnputs
            /\ ib' = ii_unput(ib, c)
            /\ failed' = FALSE /\ unputs' = unputs + 1 /\ UNCHANGED inAction

FlushBuf == /\ Acting /\ "flushbuf" \in Calls
            /\ \E got \in FlushReads(ii_unterm(ib), TRUE) : Becomes(ii_flushbuf(ib, got).b)

Next == \/ \E f \in Files : NewFile(f)
        \/ Advance \/ ForceFlush
        \/ \E n \in 1..MaxBack : Pushback(n) \/ Less(n)
        \/ MarkStart \/ MarkEnd \/ MoveStart \/ ToMark \/ MarkPrev
        \/ Term \/ Unterm \/ Input \/ FlushBuf
        \/ \E c \in UnputChars : Unput(c)

Spec == Init /\ [][Next]_vars

-----------------------------------------------------------------------------
(* Every field of the input system has its C type. *)
TypeOK ==
    /\ ib.buf \in [0..BUFSIZE-1 -> Chars \union {NUL}]
    /\ {ib.end, ib.next, ib.sMark, ib.eMark} \subseteq 0..END
    /\ ib.pMark \in {NULL} \union 0..END
    /\ {ib.line, ib.mline, ib.pLineno, ib.pLength} \subseteq Int
    /\ ib.term \in Chars \union {NUL}
    /\ {ib.eof, ib.called, inAction, failed} \subseteq BOOLEAN
    /\ ib.file \in Seq(Chars) /\ ib.text \in Seq(Chars)
    /\ ib.rd \in 0..Len(ib.file)
    /\ ib.opened \in 1..MaxOpens /\ unputs \in 0..MaxUnputs
    /\ ib.err \in {"none", "full", "read"}

\* The pointers of input.c:25-31 keep their order whatever calls are made: the
\* previous lexeme starts before the lexeme, the lexeme ends before the next
\* character, and that is inside the text read (ii_flush() shifts them together).
PointersOrdered ==
    ib.err = "none" =>
        /\ ib.sMark <= ib.eMark /\ ib.eMark <= ib.next /\ ib.next <= ib.end
        /\ ib.pMark # NULL => ib.pMark <= ib.sMark

\* The number of characters of the open file before the address p.
Position(p) == Len(ib.text) - (ib.end - p)

\* The character at address i, seen through the terminator that ii_term() wrote.
CharAt(i) == IF ib.term # NUL /\ i = ib.next THEN ib.term ELSE ib.buf[i]

\* From its left edge to its end the buffer is a contiguous piece of the file
\* (input.c:192-194, "none of the text to the right of the mark will be lost"):
\* no flush, short read, pushback or terminator loses, repeats or reorders a
\* character that has still to be delivered.
Window ==
    ib.err = "none" =>
        \A i \in LeftEdge(ib)..ib.end-1 : CharAt(i) = ib.text[Position(i) + 1]

\* Lineno is the number of newlines in the text delivered so far, and Mline the
\* number at the end of the lexeme, after any mixture of advances, pushbacks and
\* returns to the mark (the newline pushed by the first ii_advance() is line 0's).
Newlines(n) == Cardinality({i \in 1..n : ib.text[i] = NL})

LinesAgree ==
    ib.err = "none" /\ Loaded =>
        LET base == IF Len(ib.text) > ib.rd THEN 0 ELSE 1
        IN  /\ ib.line = base + Newlines(Position(ib.next))
            /\ ib.mline = base + Newlines(Position(ib.eMark))

\* Before the end of the file MAXLOOK characters are always readable, so that
\* ii_look() never answers 0, "past the end of the buffer", in mid-file
\* (input.c:282-288); and a terminator is never stored outside Start_buf.
LookaheadReady ==
    ib.err = "none" /\ Loaded =>
        /\ ~ib.eof => ib.end - ib.next >= MAXLOOK
        /\ ib.next < BUFSIZE

\* ii_advance() refuses to flush only when MAXLEX characters or more are held back for
\* the lexemes that are being kept (input.c:155-157, "because it's too full").
RefusedOnlyWhenFull == failed => ib.next - LeftEdge(ib) >= MAXLEX

\* "It's possible for [Eof_read] to be true and for characters to still be in the
\* input buffer" (input.c:39), but not in the file.
EofMeansAllRead == ib.eof => ib.rd = Len(ib.file)

\* A refill never fails for want of room: the program ends with "buffer full,
\* can't read" only where read() has nothing left to return (input.c:193-196,
\* ii_flush() reports a full buffer, and discards characters if it is forced).
FullOnlyAtEof == ib.err = "full" => ib.rd = Len(ib.file)

\* A step that reads more of the file moves the text but not the lexemes in it: when
\* a character is delivered the previous lexeme and the current one start where they
\* started in the file (ii_flush() shifts pMark, sMark, eMark and Next by the same
\* amount as the text, input.c:212-237), and no more than one is delivered.
RefillKeepsLexemes ==
    [][ Loaded /\ ~failed /\ ib.opened' = ib.opened /\ ib.rd' > ib.rd =>
          LET delivered == Position(ib.next)' - Position(ib.next)
          IN  /\ delivered \in 0..1
              /\ delivered = 1 =>
                   /\ Position(ib.sMark)' = Position(ib.sMark)
                   /\ ib.pMark # NULL => Position(ib.pMark)' = Position(ib.pMark) ]_vars

-----------------------------------------------------------------------------
(* What the comments of the code say and the code does not do: each of the   *)
(* following is refuted by a run.                                            *)

\* input.c:303-306, ii_pushback(): "1 is returned on a successful push".
PushbackReportsSuccess ==
    \A n \in 1..MaxBack :
        ib.next - ib.sMark >= n => ii_pushback(ib, n).ret

\* input.c:154-155, ii_advance(): "0 is returned at end of file"; the end of the
\* file is not an internal error.
EofIsNoError == ib.err # "full"

\* input.c:15, MAXLEX is the "maximum lexme size", and lex.par:115 says of a refusal
\* "lexme too long": only a lexeme that has reached MAXLEX is refused.
RefusedOnlyWhenTooLong == failed => ib.next - ib.sMark >= MAXLEX

\* lex.par:144, "null-terminate the string": the lexeme an action sees in yytext
\* ends with a '\0' whatever the action did to the input.
LexemeTerminated == inAction => ib.buf[ib.next] = NUL

=============================================================================
