------------------------------ MODULE RuleReader ------------------------------
(***************************************************************************)
(* How rlex reads its input file (lex.c): head() copies code and collects  *)
(* macros up to the first %%, get_expr() hands the parser one rule at a    *)
(* time, joining the lines that go on with white space, and tail() copies  *)
(* what follows the second %%.                                             *)
(*                                                                         *)
(* A character is its ASCII code; a file is a record whose field lines is  *)
(* the sequence of its lines, without their newlines, none of which holds  *)
(* a NUL.  The stream is the number of lines read: getrule() is one        *)
(* character ahead of it, the first of the next line.  An offset into a    *)
(* string is the index of the character there; what follows the end of a   *)
(* string in Input_buf is what was there before.                           *)
(***************************************************************************)
EXTENDS Integers, Sequences, SequencesExt, FiniteSetsExt

CONSTANTS
    Files,      \* the files rlex may be run on
    MAXINP      \* size of Input_buf (2048 in the code); head() sees shorter lines only

ASSUME SizeAssumption == MAXINP \in Nat \ {0}

EOF == -1
NUL == 0
NL == 10
SPACE == 32
PERCENT == 37
STAR == 42
SLASH == 47
LBRACE == 123
RBRACE == 125

\* No line has a NUL.
ASSUME FilesAssumption == \A f \in Files : f.lines \in Seq(Seq(Nat \ {NUL}))

VARIABLES
    file,           \* the input file
    at,             \* lines of it read from Ifile
    lookahead,      \* of get_expr(): the character after the rule returned last
    Input_buf,
    p,              \* of get_expr(): characters of the rule in Input_buf so far
    Lineno,         \* line number of the rule
    Actual_lineno,  \* line number of the input
    incomment,      \* of strip_comments()
    in_codeblock,   \* of head()
    macros,         \* the macro definitions [name, text], the newest last
    out,            \* history: the lines head() and tail() wrote to Ofile
    err,            \* why the program ended early
    pc

lineVars == <<file, at, lookahead, Input_buf, p, Lineno, Actual_lineno>>
headVars == <<incomment, in_codeblock, macros, out>>
readerVars == <<lineVars, headVars, err, pc>>

-----------------------------------------------------------------------------
(* Characters and strings *)

isspace(ch) == ch \in {9, 10, 11, 12, 13, 32}

\* The character at index i, NUL behind the end.
Char(s, i) == IF i \in 1..Len(s) THEN s[i] ELSE NUL

\* The first index from i on where a character stops the scan, or the string ends.
Scan(s, i, Stops(_)) ==
    IF i > Len(s) THEN i ELSE Min({k \in i..Len(s) : Stops(s[k])} \union {Len(s) + 1})

SkipSpace(s, i) == Scan(s, i, LAMBDA ch : ~isspace(ch))

\* The NUL behind the string at index i of s, and the string.
EndOf(s, i) == Scan(s, i, LAMBDA ch : ch = NUL)
StringAt(s, i) == SubSeq(s, i, EndOf(s, i) - 1)

\* Write the characters of t, and a NUL, over those of s behind the first i.
Put(s, i, t) == SubSeq(s, 1, i) \o t \o <<NUL>> \o SubSeq(s, i + Len(t) + 2, Len(s))

\* The line after the first k of the file, and its first character.
Line(k) == file.lines[k+1]
Peek(k) == IF k >= Len(file.lines) THEN EOF ELSE IF Line(k) = <<>> THEN NL ELSE Line(k)[1]

Fail(why) == pc' = "failed" /\ err' = why

-----------------------------------------------------------------------------
(* head(): the definitions *)

\* fgets() reads a line with its newline; the lines of the head fit into Input_buf.
Fgets ==
    /\ pc = "head" /\ at < Len(file.lines)
    /\ Input_buf' = Put(Input_buf, 0, Append(Line(at), NL))
    /\ at' = at + 1 /\ Actual_lineno' = Actual_lineno + 1
    /\ pc' = IF in_codeblock THEN "head line" ELSE "strip"
    /\ UNCHANGED <<file, lookahead, p, Lineno, headVars, err>>

\* What the i-th character of the line is, by what the one before is; a delimiter is two
\* characters.
Kinds == {"code", "/", "/*", "comment", "*", "*/"}

KindAfter(i) ==
    LET here(x, y) == Input_buf[i] = x /\ Input_buf[i+1] = y
    IN  [before \in Kinds |->
            CASE before \in {"code", "*/"} -> IF here(SLASH, STAR) THEN "/" ELSE "code"
              [] before \in {"comment", "/*"} -> IF here(STAR, SLASH) THEN "*" ELSE "comment"
              [] before = "/" -> "/*"
              [] before = "*" -> "*/"]

Kind(start) ==
    LET kind[i \in 0..Len(Input_buf)] == IF i = 0 THEN start ELSE KindAfter(i)[kind[i-1]]
    IN  kind

\* Mutant: a comment ends with its line.
LineStart_InCode == "code"

LineStart == IF incomment THEN "comment" ELSE "code"

\* strip_comments(): delimiters, and all of a comment but its white space, become blanks.
Strip ==
    /\ pc = "strip"
    /\ LET kind == Kind(LineStart)
           end == EndOf(Input_buf, 1)
           keep(i) == i >= end \/ kind[i] = "code" \/ (kind[i] = "comment" /\ isspace(Input_buf[i]))
       IN  /\ Input_buf' = [i \in 1..Len(Input_buf) |-> IF keep(i) THEN Input_buf[i] ELSE SPACE]
           /\ incomment' = (kind[end-1] \in {"comment", "/*"})
    /\ pc' = "head line"
    /\ UNCHANGED <<file, at, lookahead, p, Lineno, Actual_lineno, in_codeblock, macros, out, err>>

Copied(s) == out' = Append(out, s)

\* The line starts with a %, and then ch.
Percent(ch) == Input_buf[1] = PERCENT /\ Input_buf[2] = ch

\* "%%"
EndOfHead ==
    /\ pc = "head line" /\ Percent(PERCENT)
    /\ Copied(<<NL>>)
    /\ pc' = "token"
    /\ UNCHANGED <<lineVars, incomment, in_codeblock, macros, err>>

\* "%{" and "%}"; anything else after a % is ignored with a message.
Directive ==
    /\ pc = "head line" /\ Input_buf[1] = PERCENT /\ ~Percent(PERCENT)
    /\ in_codeblock' = (Percent(LBRACE) \/ (in_codeblock /\ ~Percent(RBRACE)))
    /\ pc' = "head"
    /\ UNCHANGED <<lineVars, incomment, macros, out, err>>

CopyLine ==
    /\ pc = "head line"
    /\ Input_buf[1] # PERCENT /\ (in_codeblock \/ isspace(Input_buf[1]))
    /\ Copied(StringAt(Input_buf, 1))
    /\ pc' = "head"
    /\ UNCHANGED <<lineVars, incomment, in_codeblock, macros, err>>

\* new_macro(): where the name ends, where the text starts, and where it ends, at the last
\* white space of the line.  Both are cut off there by a NUL; they are shorter than the
\* arrays they are copied to.
NameEnd == Scan(Input_buf, 1, isspace)
TextStart == SkipSpace(Input_buf, NameEnd)
TextEnd ==
    LET end == EndOf(Input_buf, 1)
    IN  Max({k \in NameEnd..end-1 : ~isspace(Input_buf[k-1])})

Macro ==
    /\ pc = "head line"
    /\ Input_buf[1] # PERCENT /\ ~in_codeblock /\ ~isspace(Input_buf[1])
    /\ IF Input_buf[TextStart] = NUL
       THEN Fail("badmac") /\ UNCHANGED <<macros, Input_buf, out>>
       ELSE /\ macros' = Append(macros, [ name |-> SubSeq(Input_buf, 1, NameEnd - 1),
                                          text |-> SubSeq(Input_buf, TextStart, TextEnd - 1) ])
            /\ Input_buf' = [Input_buf EXCEPT ![NameEnd] = NUL, ![TextEnd] = NUL]
            /\ Copied(<<NL>>)
            /\ pc' = "head" /\ UNCHANGED err
    /\ UNCHANGED <<file, at, lookahead, p, Lineno, Actual_lineno, incomment, in_codeblock>>

\* There is no %%: the rules are read all the same.
HeadAtEof ==
    /\ pc = "head" /\ at = Len(file.lines)
    /\ pc' = "token"
    /\ UNCHANGED <<lineVars, headVars, err>>

-----------------------------------------------------------------------------
(* get_expr(): the rules *)

\* The last line read was followed by one that starts with %: NULL.
EndOfRules ==
    /\ pc = "call" /\ lookahead = PERCENT
    /\ pc' = "null"
    /\ UNCHANGED <<lineVars, headVars, err>>

FirstLine ==
    /\ pc = "call" /\ lookahead # PERCENT
    /\ Lineno' = Actual_lineno /\ p' = 0 /\ pc' = "line"
    /\ UNCHANGED <<file, at, lookahead, Input_buf, Actual_lineno, headVars, err>>

\* Mutant: an empty string is read then.
NothingToRead_Clears ==
    /\ pc = "line" /\ at = Len(file.lines)
    /\ lookahead' = EOF /\ pc' = "got" /\ Input_buf' = Put(Input_buf, 0, <<>>)
    /\ UNCHANGED <<file, at, p, Lineno, Actual_lineno, headVars, err>>

\* getrule() finds nothing more to read; get_expr() returns what Input_buf has.
NothingToRead ==
    /\ pc = "line" /\ at = Len(file.lines)
    /\ lookahead' = EOF /\ pc' = "got"
    /\ UNCHANGED <<file, at, Input_buf, p, Lineno, Actual_lineno, headVars, err>>

TooLong(n) == Len(Line(at)) + 1 > n - 1

RuleTooLong ==
    /\ pc = "line" /\ at < Len(file.lines)
    /\ TooLong(MAXINP - p)
    /\ Fail("too long")
    /\ UNCHANGED <<file, at, lookahead, Input_buf, p, Lineno, Actual_lineno, headVars>>

\* A line of a rule, and the character behind it: blank lines before the rule are read
\* over, and a line that starts with white space, or is empty, joins this one.
RuleLine ==
    /\ pc = "line" /\ at < Len(file.lines)
    /\ ~TooLong(MAXINP - p)
    /\ LET end == p + Len(Line(at))
           next == Peek(at + 1)
           blank == end = 0
           joins == next # EOF /\ ~blank /\ isspace(next)
       IN  /\ at' = at + 1 /\ lookahead' = next
           /\ Actual_lineno' = IF next = EOF THEN Actual_lineno ELSE Actual_lineno + 1
           /\ Input_buf' = LET read == Put(Input_buf, p, Line(at))
                           IN  IF joins THEN [read EXCEPT ![end + 1] = NL] ELSE read
           /\ p' = IF joins THEN end + 1 ELSE end
           /\ pc' = IF joins \/ (blank /\ next # EOF) THEN "line" ELSE "got"
    /\ UNCHANGED <<file, Lineno, headVars, err>>

-----------------------------------------------------------------------------
(* tail(): what follows the rules *)

SkipMark ==
    /\ pc = "tail"
    /\ at' = Min({at + 1, Len(file.lines)})
    /\ pc' = "copy"
    /\ UNCHANGED <<file, lookahead, Input_buf, p, Lineno, Actual_lineno, headVars, err>>

CopyTail ==
    /\ pc = "copy"
    /\ IF at < Len(file.lines)
       THEN at' = at + 1 /\ Copied(Append(Line(at), NL)) /\ UNCHANGED pc
       ELSE pc' = "done" /\ UNCHANGED <<at, out>>
    /\ UNCHANGED <<file, lookahead, Input_buf, p, Lineno, Actual_lineno,
                   incomment, in_codeblock, macros, err>>

-----------------------------------------------------------------------------
ReaderInit ==
    /\ file \in Files
    /\ at = 0 /\ lookahead = NUL /\ Input_buf = <<>> /\ p = 0
    /\ Lineno = 1 /\ Actual_lineno = 1
    /\ incomment = FALSE /\ in_codeblock = FALSE
    /\ macros = <<>> /\ out = <<>> /\ err = "none" /\ pc = "head"

head == Fgets \/ Strip \/ EndOfHead \/ Directive \/ CopyLine \/ Macro \/ HeadAtEof
get_expr == EndOfRules \/ FirstLine \/ NothingToRead \/ RuleTooLong \/ RuleLine
tail == SkipMark \/ CopyTail

-----------------------------------------------------------------------------
(* What a comment says and the code does not do: refuted by a run. *)

\* lex.c:120-121, get_expr() "returns NULL on end of file".
EofIsNull == [][pc = "line" /\ at = Len(file.lines) => pc' = "null"]_readerVars

=============================================================================
