-------------------------------- MODULE Lexer --------------------------------
(***************************************************************************)
(* The lexer that rlex generates: yylex(), from the template src/lex.par,  *)
(* driving the input system of lib/input.c with the tables of one DFA.     *)
(* Every step of yylex() makes at most one call of the input system, so a  *)
(* behaviour of this module is one of InputClient with a program counter.  *)
(* The code attached to the rules is the environment: while an action runs *)
(* it may read, push back, keep or return, as the macros of lex.par let it.*)
(***************************************************************************)
EXTENDS InputClient, SequencesExt

CONSTANTS
    Yy_nxt,      \* the transitions of the generated state machine
    Yyaccept,    \* the anchors of its accepting states, 0 for the others
    UserCalls,   \* what the code of the rules may do
    MaxUserCalls \* bound on the calls it makes

UserCallNames == {"input", "yyless", "unput", "yymore", "return"}

\* yylex() itself pushes one character back.
ASSUME LexerAssumption ==
    UserCalls \subseteq UserCallNames /\ MaxUserCalls \in Nat /\ MaxBack >= 1

YYF == 255                 \* (YY_TTYPE)(-1)

\* The tables have a row for every state, and a column for NUL too.  There are at most
\* DFA_MAX = 254 states (dfa.h:4), so that none has the number YYF.
ASSUME TableAssumption ==
    LET states == DOMAIN Yy_nxt
    IN  /\ states \subseteq 0..YYF-1 /\ 0 \in states
        /\ Yy_nxt \in [states -> [Chars \union {NUL} -> states \union {YYF}]]
        /\ Yyaccept \in [states -> 0..4]

StartAnchored == {1, 3}    \* accepting codes with bit 1
EndAnchored == {2, 3}      \* accepting codes with bit 2

VARIABLES
    pc,            \* where yylex() is
    yystate, yynstate, yyprev, yylastaccept, yyanchor, yymoreflg,
    yyleng,        \* yyleng; the text starts at yytext
    yytext,
    start,         \* history: number of characters before the lexeme in progress
    out,           \* history: the lexemes given to the rules
    calls,         \* number of calls the code of the rules has made
    missed         \* history: the unput() calls of this action that found an empty lexeme

locals == <<yystate, yynstate, yyprev, yylastaccept, yyanchor, yymoreflg>>
lexVars == <<vars, pc, locals, yyleng, yytext, start, out, calls, missed>>

LexInit ==
    /\ Init
    /\ pc = "idle" /\ yystate = -1
    /\ yynstate = 0 /\ yyprev = 0 /\ yylastaccept = 0 /\ yyanchor = 0 /\ yymoreflg = 0
    /\ yyleng = 0 /\ yytext = 0 /\ start = 0 /\ out = <<>> /\ calls = 0
    /\ missed = 0

Goto(label) == pc' = label

\* The part of the state only the program counter's step may change.
Keep == UNCHANGED <<locals, yyleng, yytext, start, out, calls, missed>>

-----------------------------------------------------------------------------
(* Entry: lex.par:75-85 *)

Call == /\ pc = "idle" /\ ib.err = "none"
        /\ Goto(IF yystate = -1 THEN "init" ELSE "top")
        /\ Keep /\ UNCHANGED vars

LoadFirst == pc = "init" /\ Advance /\ Goto("unload") /\ Keep

\* Also the end of lex.par:106-109, after yywrap() has opened another file.
Unload == /\ pc \in {"unload", "rewound"} /\ Pushback(1)
          /\ Goto(IF pc = "unload" THEN "top" ELSE "look") /\ Keep

Top == /\ pc = "top" /\ Unterm /\ Goto("mark")
       /\ yystate' = 0 /\ yylastaccept' = 0 /\ yymoreflg' = 0
       /\ UNCHANGED <<yynstate, yyprev, yyanchor, yyleng, yytext, start, out, calls, missed>>

Mark == /\ pc = "mark" /\ MarkStart /\ Goto("look")
        /\ start' = Position(ib.next)
        /\ UNCHANGED <<locals, yyleng, yytext, out, calls, missed>>

-----------------------------------------------------------------------------
(* Scanning: lex.par:94-132 *)

\* Mutant: the end of the input is taken for bad input.
Look_NoEof ==
    LET yylook == ii_look(ib, 1)
        next == IF yylook # EOF THEN Yy_nxt[yystate][yylook] ELSE YYF
    IN  /\ pc = "look" /\ ib.err = "none"
        /\ Goto(IF next # YYF THEN "shift"
                ELSE IF yylastaccept = 0 THEN "bad" ELSE "found")
        /\ yynstate' = next
        /\ UNCHANGED <<vars, yystate, yyprev, yylastaccept, yyanchor, yymoreflg,
                       yyleng, yytext, start, out, calls, missed>>

Look ==
    LET yylook == ii_look(ib, 1)
        next == IF yylook # EOF THEN Yy_nxt[yystate][yylook] ELSE YYF
    IN  /\ pc = "look" /\ ib.err = "none"
        /\ Goto(IF yylook = EOF /\ yylastaccept = 0 THEN "wrap"
                ELSE IF next # YYF THEN "shift"
                ELSE IF yylastaccept = 0 THEN "bad" ELSE "found")
        /\ yynstate' = next
        /\ UNCHANGED <<vars, yystate, yyprev, yylastaccept, yyanchor, yymoreflg,
                       yyleng, yytext, start, out, calls, missed>>

\* yywrap() has no other file: yylex() returns 0.
WrapUp == /\ pc = "wrap" /\ ib.err = "none" /\ Goto("done")
          /\ yyleng' = 0
          /\ UNCHANGED <<vars, locals, yytext, start, out, calls, missed>>

\* yywrap() opens one.
WrapOpen == /\ pc = "wrap" /\ \E f \in Files : NewFile(f)
            /\ Goto("reload")
            /\ start' = 0
            /\ UNCHANGED <<locals, yyleng, yytext, out, calls, missed>>

Reload == pc = "reload" /\ Advance /\ Goto("rewound") /\ Keep

ShiftState == /\ pc = "shift" /\ Advance
              /\ Goto(IF failed' THEN "discard" ELSE "note") /\ Keep

\* "lexme too long. discarding extra characters"
Discard == /\ pc = "discard" /\ ForceFlush /\ Goto("note")
           /\ start' = Position(ib.next)
           /\ UNCHANGED <<locals, yyleng, yytext, out, calls, missed>>

\* Mutant: the end of the lexeme is not marked when a longer one is accepted.
Note_MarksOnce ==
        /\ pc = "note" /\ ib.err = "none" /\ Goto("look")
        /\ yystate' = yynstate
        /\ yyanchor' = Yyaccept[yynstate]
        /\ IF Yyaccept[yynstate] # 0
           THEN /\ IF yylastaccept = 0 THEN MarkEnd ELSE UNCHANGED vars
                /\ yyprev' = yystate /\ yylastaccept' = yynstate
           ELSE UNCHANGED <<vars, yyprev, yylastaccept>>
        /\ UNCHANGED <<yynstate, yymoreflg, yyleng, yytext, start, out, calls, missed>>

\* Remember an accepting state, and make the transition.
Note == /\ pc = "note" /\ ib.err = "none" /\ Goto("look")
        /\ yystate' = yynstate
        /\ yyanchor' = Yyaccept[yynstate]
        /\ IF Yyaccept[yynstate] # 0
           THEN MarkEnd /\ yyprev' = yystate /\ yylastaccept' = yynstate
           ELSE UNCHANGED <<vars, yyprev, yylastaccept>>
        /\ UNCHANGED <<yynstate, yymoreflg, yyleng, yytext, start, out, calls, missed>>

\* "ignoring bad input": skip the character that caused the failure.
BadInput == pc = "bad" /\ Advance /\ Goto("look") /\ Keep

-----------------------------------------------------------------------------
(* Accepting: lex.par:133-172 *)

AfterPushback == IF yyanchor \in StartAnchored THEN "skip" ELSE "term"

BackUp == /\ pc = "found" /\ ToMark
          /\ Goto(IF yyanchor \in EndAnchored THEN "unread" ELSE AfterPushback) /\ Keep

UnreadNewline == pc = "unread" /\ Pushback(1) /\ Goto(AfterPushback) /\ Keep

SkipNewline == pc = "skip" /\ MoveStart /\ Goto("term") /\ Keep

\* ii_length(), and the characters from sMark to eMark.
Length == ib.eMark - ib.sMark
Lexeme == [i \in 1..Length |-> ib.buf[ib.sMark + i - 1]]

\* ii_term(), yytext, yyleng, and the switch: the action of the rule starts.
Accept == /\ pc = "term" /\ Term /\ Goto("action")
          /\ yytext' = ib.sMark
          /\ yyleng' = Length
          /\ out' = Append(out, [ state |-> yylastaccept,
                                  text |-> Lexeme ])
          /\ missed' = 0
          /\ UNCHANGED <<locals, start, calls>>

\* The rule's code ends with a break.
Resume == /\ pc = "action" /\ Unterm /\ Goto(IF yymoreflg = 0 THEN "restart" ELSE "look")
          /\ yylastaccept' = 0 /\ yymoreflg' = 0
          /\ yystate' = IF yymoreflg = 0 THEN 0 ELSE yyprev
          /\ UNCHANGED <<yynstate, yyprev, yyanchor, yyleng, yytext, start, out, calls, missed>>

Restart == /\ pc = "restart" /\ MarkStart /\ Goto("look")
           /\ start' = Position(ib.next)
           /\ UNCHANGED <<locals, yyleng, yytext, out, calls, missed>>

-----------------------------------------------------------------------------
(* What the code of a rule may do: lex.par:44-63 *)

Allowed(call) ==
    /\ pc = "action" /\ call \in UserCalls /\ UNCHANGED pc
    /\ calls < MaxUserCalls /\ calls' = calls + 1

\* Mutant: yytext is not set again when the text has moved.
UserInput_KeepsText ==
    /\ Allowed("input") /\ Acting
    /\ \E got \in AdvanceReads(ii_unterm(ib)) :
         LET r == ii_input(ib, got)
         IN  /\ Becomes(r.b)
             /\ yyleng' = IF r.ret \notin {0, -1} THEN yyleng + 1 ELSE yyleng
    /\ UNCHANGED <<locals, yytext, start, out, missed>>

UserInput ==
    /\ Allowed("input") /\ Acting
    /\ \E got \in AdvanceReads(ii_unterm(ib)) :
         LET r == ii_input(ib, got)
             read == r.ret \notin {0, -1}
         IN  /\ Becomes(r.b)
             /\ yytext' = IF read THEN r.b.sMark ELSE yytext
             /\ yyleng' = IF read THEN yyleng + 1 ELSE yyleng
    /\ UNCHANGED <<locals, start, out, missed>>

\* Mutant: n is subtracted although fewer characters were pushed back.
UserLess_Unchecked(n) ==
    /\ Allowed("yyless") /\ Less(n)
    /\ yyleng' = yyleng - n
    /\ UNCHANGED <<locals, yytext, start, out, missed>>

UserLess(n) ==
    /\ Allowed("yyless") /\ Less(n)
    /\ yyleng' = yyleng - (IF ii_pushback(ii_unterm(ib), n).ret THEN n ELSE yyleng)
    /\ UNCHANGED <<locals, yytext, start, out, missed>>

\* --yyleng is not conditional: with an empty lexeme, where ii_unput() has nothing to push
\* back, yyleng becomes less than the length.
UserUnput(c) ==
    /\ Allowed("unput") /\ Unput(c)
    /\ yyleng' = yyleng - 1
    /\ missed' = IF Length = 0 THEN missed + 1 ELSE missed
    /\ UNCHANGED <<locals, yytext, start, out>>

UserMore ==
    /\ Allowed("yymore") /\ yymoreflg' = 1
    /\ UNCHANGED <<vars, yystate, yynstate, yyprev, yylastaccept, yyanchor,
                   yyleng, yytext, start, out, missed>>

\* The rule's code returns a token; the terminator stays until the next call.
UserReturn == /\ pc = "action" /\ "return" \in UserCalls /\ Goto("idle")
              /\ Keep /\ UNCHANGED vars

LexNext == \/ Call \/ LoadFirst \/ Unload \/ Top \/ Mark
           \/ Look \/ WrapUp \/ WrapOpen \/ Reload \/ ShiftState \/ Discard \/ Note \/ BadInput
           \/ BackUp \/ UnreadNewline \/ SkipNewline \/ Accept \/ Resume \/ Restart
           \/ UserInput \/ UserMore \/ UserReturn
           \/ \E n \in 1..MaxBack : UserLess(n)
           \/ \E c \in UnputChars : UserUnput(c)

LexSpec == LexInit /\ [][LexNext]_lexVars

\* One thread of control runs yylex() and its caller calls it until it returns 0:
\* there is always a next step, and it is taken.
FairLexSpec == LexSpec /\ WF_lexVars(LexNext)

-----------------------------------------------------------------------------
labels == {"idle", "init", "unload", "rewound", "top", "mark", "look", "wrap", "reload",
           "shift", "discard", "note", "bad", "found", "unread", "skip", "term",
           "action", "restart", "done"}

(* Every variable of yylex() has its C type. *)
LexTypeOK ==
    /\ TypeOK
    /\ pc \in labels
    /\ yystate \in DOMAIN Yy_nxt \union {-1}
    /\ yynstate \in DOMAIN Yy_nxt \union {YYF}
    /\ yyprev \in DOMAIN Yy_nxt /\ yylastaccept \in DOMAIN Yy_nxt
    /\ yyanchor \in 0..4 /\ yymoreflg \in 0..1
    /\ calls \in 0..MaxUserCalls
    /\ missed \in 0..unputs
    /\ yyleng \in -missed..BUFSIZE /\ yytext \in 0..END /\ start \in Nat
    /\ \A k \in 1..Len(out) : out[k].state \in DOMAIN Yy_nxt /\ out[k].text \in Seq(Chars)

\* While a rule's code runs, yytext is the lexeme the input system has, and yyleng its
\* length, after any mixture of input(), unput() and yyless() and although input() may
\* move the text; but yyleng is too small, by one at most for each, after an unput() that
\* found the lexeme empty, and never too large (lex.par:44-63).
YytextIsCurrent ==
    pc = "action" /\ ib.err = "none" =>
        yytext = ib.sMark /\ yyleng \in Length - missed..Length

\* "yyleng = ii_length()" (lex.par:146), for unput() too, one of the "macros that
\* duplicate functions in Linux/Unix utility lex" (lex.par:35): it does not hold.
YylengIsLength ==
    pc = "action" /\ ib.err = "none" => yyleng = Length

\* And they describe a C string, until the next call of yylex() if the rule returned
\* (lex.par:144, "null-terminate the string"); unput() is left out, because it may
\* leave the string without its terminator.
YytextIsString ==
    ib.err = "none" /\ unputs = 0 /\ (pc = "action" \/ (pc = "idle" /\ yystate # -1)) =>
        /\ ib.buf[yytext + yyleng] = NUL
        /\ \A i \in yytext..yytext + yyleng - 1 : ib.buf[i] # NUL

\* yylex() cuts its input as MaximalMunch says; the input starts with the newline
\* that the first ii_advance() invents.
MM == INSTANCE MaximalMunch WITH
        START_ANCHORED <- StartAnchored, END_ANCHORED <- EndAnchored, FAIL <- YYF,
        Next <- Yy_nxt, Accept <- Yyaccept,
        input <- <<NL>> \o ib.file,
        pos <- IF pc \in {"idle", "top", "mark", "action", "restart"}
               THEN Position(ib.next) ELSE start

CutsLikeMaximalMunch == MM!Spec

\* The part of the promise that needs no fairness, which is what is proved of it: whatever
\* is given to a rule is the longest match at that place of the input, and nothing of the
\* input is skipped (lex.par:94-146).
CutsAtLongestMatch == MM!Safe

\* The lexer gets to the end of every input (lex.par:66-175: each turn of the loop
\* either advances or delivers a lexeme).
ReachesEndOfInput == <>(pc = "done")

\* The state the machine reaches on a text from its initial state.
Run(text) == FoldLeft(LAMBDA s, c : IF s = YYF THEN YYF ELSE Yy_nxt[s][c], 0, text)

\* A lexeme given to a rule is a text of that rule's language: what is discarded as
\* bad input or as too long is not in it (lex.par:115, 130).
LexemesAreAccepted ==
    \A k \in 1..Len(out) : Run(out[k].text) = out[k].state

\* yyanchor is the "anchor point for most recently seen accepting state" (lex.par:73).
AnchorIsOfLastAccept ==
    pc = "found" => (yyanchor \in StartAnchored <=> Yyaccept[yylastaccept] \in StartAnchored)
                    /\ (yyanchor \in EndAnchored <=> Yyaccept[yylastaccept] \in EndAnchored)

=============================================================================
