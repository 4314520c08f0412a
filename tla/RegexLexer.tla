------------------------------ MODULE RegexLexer ------------------------------
(***************************************************************************)
(* From the characters of the rules to the tokens of the parser (nfa.c,    *)
(* escape.c): advance() reads a rule with get_expr(), expands macros with  *)
(* a stack of pointers, undoes quotes and escapes; the parser, here as the *)
(* sequence of tokens it takes, says where an expression ends, reads the   *)
(* classes, and saves the code behind it.                                  *)
(*                                                                         *)
(* A pointer is [src, at]: a text, 0 for Input_buf or the index of a macro,*)
(* and the index of a character in it.  Reading through the NULL pointer   *)
(* ends the program, as does a rule without any expression (its end is     *)
(* NULL, nfa.c:522).  An empty operand elsewhere is not followed up.       *)
(***************************************************************************)
EXTENDS RuleReader

CONSTANTS
    SSIZE,      \* places on the stack of advance() (32 in the code)
    STR_MAX,    \* bytes for the code of the rules (102400 in the code)
    MaxRules    \* rules after which the nodes of the NFA have run out

VARIABLES
    Input,          \* the next character of the expression
    inquote,
    stack,          \* pointers to go back to behind each macro
    Current_tok, Lexeme,
    mode,           \* where the parser is when advance() returns
    depth,          \* open parentheses
    toks,           \* the tokens of the rule so far
    set, neg, first, \* of the class being read; first is dodash()'s
    savep,          \* of save(): words in use
    strings,        \* the code saved, [at, line, text], at being its first word
    rules           \* history: the rules read, [toks, accept]

lexerVars == <<Input, inquote, stack, Current_tok, Lexeme>>
parserVars == <<mode, depth, toks, set, neg, first, savep, strings, rules>>
vars == <<readerVars, lexerVars, parserVars>>

QUOTE == 34
CARET == 94
BACKSLASH == 92
BAR == 124

NULL == [src |-> -1, at |-> 0]

WORD == 4       \* bytes of an int

\* The block for the code is one of whole words (100 * 1024 bytes, nfa.h:25).
ASSUME LimitsAssumption == SSIZE \in Nat /\ STR_MAX \in Nat /\ STR_MAX % WORD = 0

-----------------------------------------------------------------------------
(* Escape sequences (escape.c) *)

toupper(ch) == IF ch \in 97..122 THEN ch - 32 ELSE ch

IsDigit(ch) == ch \in 48..57
IsOctDigit(ch) == ch \in 48..55
IsHexDigit(ch) == IsDigit(ch) \/ ch \in 97..102 \/ ch \in 65..70

hex2bin(ch) == (IF IsDigit(ch) THEN ch - 48 ELSE toupper(ch) - 65 + 10) % 16
oct2bin(ch) == (ch - 48) % 8

\* \b \f \n \r \s \t \e, and a \ at the end of the string.
Named == [ch \in {66, 70, 78, 82, 83, 84, 69, NUL} |->
            CASE ch = 66 -> 8 [] ch = 70 -> 12 [] ch = 78 -> 10 [] ch = 82 -> 13
              [] ch = 83 -> 32 [] ch = 84 -> 9 [] ch = 69 -> 27 [] ch = NUL -> BACKSLASH]

\* Of the characters from i on, at most three hexadecimal digits.
HexDigits(s, i) ==
    LET n == Max({k \in 0..3 : \A j \in 0..k-1 : IsHexDigit(Char(s, i + j))}) IN SubSeq(s, i, i + n - 1)

Value(digits, base, Bin(_)) == FoldLeft(LAMBDA v, ch : v * base + Bin(ch), 0, digits)

\* An octal digit, then one that is at least hexadecimal, then an octal one.
OctDigits(s, i) ==
    LET n == IF ~IsHexDigit(Char(s, i + 1)) THEN 1 ELSE IF ~IsOctDigit(Char(s, i + 2)) THEN 2 ELSE 3
    IN  SubSeq(s, i, i + n - 1)

\* The character that the sequence at index i of s stands for, and where it ends.
esc(s, i) ==
    LET ch == Char(s, i + 1)
        kind == toupper(ch)
        hex == HexDigits(s, i + 2)
        oct == OctDigits(s, i + 1)
    IN  IF Char(s, i) # BACKSLASH THEN [ch |-> Char(s, i), at |-> i + 1]
        ELSE CASE kind \in DOMAIN Named -> [ch |-> Named[kind], at |-> i + 2]
               [] kind = CARET -> [ch |-> toupper(Char(s, i + 2)) - 64, at |-> i + 3]
               [] kind = 88 -> [ch |-> Value(hex, 16, hex2bin), at |-> i + 2 + Len(hex)]
               [] IsOctDigit(kind) -> [ch |-> Value(oct, 8, oct2bin), at |-> i + 1 + Len(oct)]
               [] OTHER -> [ch |-> ch, at |-> i + 2]

-----------------------------------------------------------------------------
(* advance() *)

Tokens == [ch \in {36, 40, 41, 42, 43, 45, 46, 63, 91, 93, 94, LBRACE, BAR, RBRACE} |->
    CASE ch = 36 -> "AT_EOL" [] ch = 40 -> "OPEN_PAREN" [] ch = 41 -> "CLOSE_PAREN"
      [] ch = 42 -> "CLOSURE" [] ch = 43 -> "PLUS_CLOSE" [] ch = 45 -> "DASH" [] ch = 46 -> "ANY"
      [] ch = 63 -> "OPTIONAL" [] ch = 91 -> "CCL_START" [] ch = 93 -> "CCL_END"
      [] ch = 94 -> "AT_BOL" [] ch = LBRACE -> "OPEN_CURLY" [] ch = BAR -> "OR"
      [] ch = RBRACE -> "CLOSE_CURLY"]

Tokmap(ch) == IF ch \in DOMAIN Tokens THEN Tokens[ch] ELSE "L"

Text(ptr) == IF ptr.src = 0 THEN Input_buf ELSE macros[ptr.src].text
Here(ptr) == Char(Text(ptr), ptr.at)
Skip(ptr, n) == [ptr EXCEPT !.at = @ + n]

\* At the end of a line, which must not be within quotes, the next one is read.
NextLine ==
    /\ pc = "token" /\ Current_tok = "EOS"
    /\ IF inquote THEN Fail("newline") ELSE pc' = "call" /\ UNCHANGED err
    /\ UNCHANGED <<lineVars, headVars, lexerVars, parserVars>>

\* get_expr() has returned Input_buf; a line of white space is not a rule.
GotLine ==
    /\ pc = "got"
    /\ Input' = [src |-> 0, at |-> SkipSpace(Input_buf, 1)]
    /\ pc' = IF Char(Input_buf, Input'.at) = NUL THEN "call" ELSE "scan"
    /\ UNCHANGED <<lineVars, headVars, err, inquote, stack, Current_tok, Lexeme, parserVars>>

\* get_expr() has returned NULL.
GotNull ==
    /\ pc = "null"
    /\ Input' = NULL /\ Current_tok' = "END_OF_INPUT" /\ pc' = "parse"
    /\ UNCHANGED <<lineVars, headVars, err, inquote, stack, Lexeme, parserVars>>

Scanning == pc = "scan" \/ (pc = "token" /\ Current_tok # "EOS")

ReadsNull ==
    /\ Scanning /\ Input = NULL
    /\ Fail("crash")
    /\ UNCHANGED <<lineVars, headVars, lexerVars, parserVars>>

InText == Scanning /\ Input # NULL

\* What every turn of the scan leaves alone.
ScanUnchanged ==
    UNCHANGED <<lineVars, headVars, parserVars>>

\* Behind a macro, its text read, go back to where it was named.
Restore ==
    /\ InText /\ Here(Input) = NUL /\ stack # <<>>
    /\ Input' = Last(stack) /\ stack' = Front(stack) /\ pc' = "scan"
    /\ UNCHANGED <<inquote, Current_tok, Lexeme, err>> /\ ScanUnchanged

Returns(tok, lexeme) == Current_tok' = tok /\ Lexeme' = lexeme /\ pc' = "parse"

EndOfString ==
    /\ InText /\ Here(Input) = NUL /\ stack = <<>>
    /\ Returns("EOS", NUL)
    /\ UNCHANGED <<Input, inquote, stack, err>> /\ ScanUnchanged

\* get_macro(): the newest macro of the name, 0 if there is none.
FindMacro(name) == Max({k \in 1..Len(macros) : macros[k].name = name} \union {0})

\* The brace that closes a name, or the NUL there instead.
NameClose(s, i) == Scan(s, i, LAMBDA ch : ch \in {RBRACE, NUL})

Name(ptr) ==
    LET s == Text(ptr)
        close == NameClose(s, ptr.at + 1)
    IN  [text |-> SubSeq(s, ptr.at + 1, close - 1), closed |-> Char(s, close) = RBRACE,
         behind |-> [ptr EXCEPT !.at = close + 1]]

\* Mutant: one place more than there is.
TooDeep_OffByOne(st) == Len(st) > SSIZE + 1

TooDeep(st) == Len(st) > SSIZE

\* {name}: the place behind it is stacked, and the text of the macro comes next.
Expand ==
    /\ InText /\ ~inquote /\ Here(Input) = LBRACE
    /\ LET name == Name(Input)
           found == FindMacro(name.text)
       IN  IF ~name.closed THEN Fail("badmac") /\ UNCHANGED <<Input, stack>>
           ELSE IF found = 0 THEN Fail("nomac") /\ UNCHANGED <<Input, stack>>
           ELSE /\ stack' = Append(stack, name.behind)
                /\ Input' = [src |-> found, at |-> 1]
                /\ IF TooDeep(stack') THEN Fail("macdepth") ELSE pc' = "scan" /\ UNCHANGED err
    /\ UNCHANGED <<inquote, Current_tok, Lexeme>> /\ ScanUnchanged

\* What advance() reads next, behind a quote if there is one, and whether it is quoted.
AtQuote == Here(Input) = QUOTE
Quoted == IF AtQuote THEN ~inquote ELSE inquote
Behind == IF AtQuote THEN Skip(Input, 1) ELSE Input

InChar == InText /\ Here(Input) # NUL /\ (inquote \/ Here(Input) # LBRACE)

\* The expression ends at white space, or at a quote that nothing follows, in a macro too.
Ends == Here(Behind) = NUL \/ (~Quoted /\ isspace(Here(Behind)))

EndOfExpr ==
    /\ InChar /\ Ends
    /\ Input' = Behind /\ inquote' = Quoted
    /\ Returns("EOS", NUL)
    /\ UNCHANGED <<stack, err>> /\ ScanUnchanged

PlainChar ==
    /\ InChar /\ ~Ends /\ ~Quoted
    /\ LET ch == esc(Text(Input), Behind.at)
       IN  /\ Input' = [Input EXCEPT !.at = ch.at]
           /\ Returns(IF Here(Behind) = BACKSLASH THEN "L" ELSE Tokmap(ch.ch), ch.ch)
    /\ inquote' = Quoted
    /\ UNCHANGED <<stack, err>> /\ ScanUnchanged

\* Only a quote can be escaped within quotes.
QuotedChar ==
    /\ InChar /\ ~Ends /\ Quoted
    /\ LET escaped == Here(Behind) = BACKSLASH /\ Here(Skip(Behind, 1)) = QUOTE
       IN  /\ Input' = Skip(Behind, IF escaped THEN 2 ELSE 1)
           /\ Returns("L", IF escaped THEN QUOTE ELSE Here(Behind))
    /\ inquote' = Quoted
    /\ UNCHANGED <<stack, err>> /\ ScanUnchanged

advance ==
    \/ NextLine \/ GotLine \/ GotNull \/ ReadsNull
    \/ Restore \/ EndOfString \/ Expand \/ EndOfExpr \/ PlainChar \/ QuotedChar

-----------------------------------------------------------------------------
(* The parser: what it does with the token advance() returned *)

Match(names) == pc = "parse" /\ Current_tok \in names

\* A token of the expression; only a class has a set.
Single == [tok |-> Current_tok, lexeme |-> Lexeme, set |-> {}, neg |-> FALSE]
Class(chars) == [tok |-> "CCL", lexeme |-> NUL, set |-> chars, neg |-> neg]

ReaderStays == UNCHANGED <<lineVars, headVars, err>>

InExpr == mode \in {"rule", "expr"}

\* machine(): no more rules, which is asked behind the first one only.
NoMoreRules == Current_tok = "END_OF_INPUT" /\ mode = "rule" /\ rules # <<>>

EndOfInput ==
    /\ pc = "parse" /\ NoMoreRules
    /\ pc' = "tail"
    /\ ReaderStays /\ UNCHANGED <<lexerVars, parserVars>>

\* The tokens that stand for themselves here: ^ starts a rule or is a character, a
\* closure is an operator or a character, and so on.
Take(n) ==
    /\ toks' = Append(toks, Single) /\ depth' = depth + n
    /\ mode' = "expr" /\ pc' = "token"
    /\ ReaderStays /\ UNCHANGED <<lexerVars, set, neg, first, savep, strings, rules>>

Item ==
    /\ InExpr /\ pc = "parse"
    /\ Current_tok \notin {"EOS", "AT_EOL", "OPEN_PAREN", "CLOSE_PAREN", "CCL_START"}
    /\ ~NoMoreRules
    /\ Take(0)

OpenParen == InExpr /\ Match({"OPEN_PAREN"}) /\ Take(1)
CloseParen == InExpr /\ Match({"CLOSE_PAREN"}) /\ depth > 0 /\ Take(-1)

MissingParen ==
    /\ InExpr /\ Match({"EOS", "AT_EOL"}) /\ depth > 0
    /\ Fail("paren")
    /\ UNCHANGED <<lineVars, headVars, lexerVars, parserVars>>

\* "$" behind the expression.
AtEol ==
    /\ InExpr /\ Match({"AT_EOL"}) /\ depth = 0
    /\ toks' = Append(toks, Single) /\ mode' = "end" /\ pc' = "token"
    /\ ReaderStays /\ UNCHANGED <<lexerVars, depth, set, neg, first, savep, strings, rules>>

\* The rest of the input is the code.  It goes into whole words behind a word with its
\* line number; "|" is the string that will be saved next.
Code == StringAt(Text(Input), SkipSpace(Text(Input), Input.at))
Shared == Code # <<>> /\ Code[1] = BAR
Words(n) == (n + WORD - 1) \div WORD
NoRoom == Code # <<>> /\ WORD * (savep + 1) + Len(Code) - 1 >= STR_MAX - 1

\* Mutant: the shared string is that of the rule before.
SharedString_Last == IF strings = {} THEN 1 ELSE Max({str.at : str \in strings})

SharedString == savep + 1

EndOfRule ==
    /\ pc = "parse" /\ depth = 0
    /\ mode = "end" \/ (InExpr /\ Current_tok \in {"EOS", "CLOSE_PAREN"})

\* rule(): the first ^ and the last $ are the anchors; if there is nothing else, expr() has
\* made no machine.
HasExpr == \E i \in 1..Len(toks) : toks[i].tok # "AT_EOL" /\ (i = 1 => toks[i].tok # "AT_BOL")

SaveRule ==
    /\ EndOfRule /\ HasExpr
    /\ Len(rules) < MaxRules /\ (Shared \/ ~NoRoom)
    /\ IF Shared THEN UNCHANGED <<savep, strings>>
       ELSE /\ strings' = strings \union {[at |-> savep + 1, line |-> Lineno, text |-> Code]}
            /\ savep' = savep + 1 + Words(Len(Code) + 1)
    /\ rules' = Append(rules, [toks |-> toks, accept |-> IF Shared THEN SharedString ELSE savep + 1])
    /\ toks' = <<>> /\ mode' = "rule" /\ pc' = "token"
    /\ Input' = [Input EXCEPT !.at = SkipSpace(Text(Input), @)]
    /\ ReaderStays
    /\ UNCHANGED <<inquote, stack, Current_tok, Lexeme, depth, set, neg, first>>

RuleFails ==
    /\ EndOfRule
    /\ \/ ~HasExpr /\ Fail("crash")
       \/ Len(rules) >= MaxRules /\ Fail("length")
       \/ Len(rules) < MaxRules /\ ~Shared /\ NoRoom /\ Fail("strings")
    /\ UNCHANGED <<lineVars, headVars, lexerVars, parserVars>>

-----------------------------------------------------------------------------
(* Character classes: term() from "[" on, and dodash() *)

\* advance(), with the class so far.
ClassGoesOn(m, chars) ==
    /\ set' = chars /\ mode' = m /\ pc' = "token"
    /\ ReaderStays /\ UNCHANGED <<lexerVars, depth, toks, savep, strings, rules>>

ClassEnds(chars) ==
    /\ toks' = Append(toks, Class(chars)) /\ set' = {} /\ neg' = FALSE
    /\ mode' = "expr" /\ pc' = "token"
    /\ ReaderStays /\ UNCHANGED <<lexerVars, depth, first, savep, strings, rules>>

OpenClass ==
    /\ InExpr /\ Match({"CCL_START"})
    /\ ClassGoesOn("class", {}) /\ neg' = FALSE /\ UNCHANGED first

Negate ==
    /\ mode = "class" /\ Match({"AT_BOL"})
    /\ ClassGoesOn("negated", {NL}) /\ neg' = TRUE /\ UNCHANGED first

AtClass == pc = "parse" /\ (mode = "negated" \/ (mode = "class" /\ Current_tok # "AT_BOL"))

\* [] and [^] have the characters up to the blank.
EmptyClass == AtClass /\ Match({"CCL_END"}) /\ ClassEnds(set \union 0..SPACE)

\* The warnings end the program, as the errors do: a dash at the start or at the end.
DashWarning ==
    /\ \/ AtClass /\ Match({"DASH"})
       \/ mode = "range" /\ Match({"CCL_END"})
    /\ Fail("warning")
    /\ UNCHANGED <<lineVars, headVars, lexerVars, parserVars>>

InClass == (AtClass /\ Current_tok # "CCL_END") \/ (pc = "parse" /\ mode = "dodash")

ClassChar ==
    /\ InClass /\ Current_tok \notin {"EOS", "CCL_END", "DASH"}
    /\ ClassGoesOn("dodash", set \union {Lexeme})
    /\ first' = Lexeme /\ UNCHANGED neg

Dash ==
    /\ InClass /\ mode = "dodash" /\ Match({"DASH"})
    /\ ClassGoesOn("range", set) /\ UNCHANGED <<neg, first>>

\* A line that ends within the class ends it later, in a line after it.
EndOfRange ==
    /\ mode = "range" /\ pc = "parse" /\ Current_tok # "CCL_END"
    /\ ClassGoesOn("dodash", set \union first..Lexeme)
    /\ first' = Max({first, Lexeme + 1}) /\ UNCHANGED neg

\* A class that the end of the line leaves open is closed; term() goes on with the next line.
EndOfClass ==
    /\ InClass /\ Current_tok \in {"EOS", "CCL_END"}
    /\ ClassEnds(set)

parse ==
    \/ EndOfInput \/ Item \/ OpenParen \/ CloseParen \/ MissingParen
    \/ AtEol \/ SaveRule \/ RuleFails
    \/ OpenClass \/ Negate \/ EmptyClass \/ DashWarning
    \/ ClassChar \/ Dash \/ EndOfRange \/ EndOfClass

-----------------------------------------------------------------------------
Init ==
    /\ ReaderInit
    /\ Input = [src |-> 0, at |-> 1] /\ inquote = FALSE /\ stack = <<>>
    /\ Current_tok = "EOS" /\ Lexeme = NUL
    /\ mode = "rule" /\ depth = 0 /\ toks = <<>>
    /\ set = {} /\ neg = FALSE /\ first = 0
    /\ savep = 0 /\ strings = {} /\ rules = <<>>

Next ==
    \/ (head \/ get_expr \/ tail) /\ UNCHANGED <<lexerVars, parserVars>>
    \/ advance
    \/ parse

\* One thread: the program goes on as long as it can.
Spec == Init /\ [][Next]_vars /\ WF_vars(Next)

-----------------------------------------------------------------------------
(* What the parser gets *)

\* Every pointer is to a character of its text or to the NUL behind it, and the stack has
\* no more of them than places (escape.c:99, nfa.c:414-417).
ValidPointer(ptr) ==
    /\ ptr.src \in 0..Len(macros) /\ ptr.at >= 1
    /\ \A i \in 1..ptr.at-1 : Char(Text(ptr), i) # NUL

TypeOK ==
    /\ at \in 0..Len(file.lines) /\ p \in 0..MAXINP-1
    /\ Lineno \in 1..Actual_lineno /\ Actual_lineno <= at + 1
    /\ pc \in {"scan", "parse"} => Input = NULL \/ ValidPointer(Input)
    /\ pc # "failed" => Len(stack) <= SSIZE /\ \A i \in 1..Len(stack) : ValidPointer(stack[i])
    /\ (Input = NULL) = (Current_tok = "END_OF_INPUT")
    /\ depth \in Nat /\ mode \in {"rule", "expr", "end", "class", "negated", "dodash", "range"}
    /\ WORD * savep <= STR_MAX
    /\ \A str \in strings : str.at \in 1..savep

Trimmed(s) == SubSeq(s, 1, Max({0} \union {k \in 1..Len(s) : ~isspace(s[k])}))

\* What the code of the k-th rule of the file is: that of the next one with code of its own.
Own(k) == Min({j \in k..Len(file.rules) : ~file.rules[j].shared})

\* The rules of the file reach the parser in order, each as the tokens its characters,
\* quotes, escapes, classes and macros stand for, with its own code or that of the rule
\* it shares it with, and with its line, whatever lines the file is split into; the program
\* fails only for a file with an error, and for that error (nfa.c:115-152, 310-454, 706-722,
\* lex.c:117-167).  file.rules is what the file was written from.
RulesAsWritten ==
    /\ pc = "failed" => err = file.fails
    /\ pc = "done" => file.fails = "none" /\ Len(rules) = Len(file.rules)
    /\ \A k \in 1..Len(rules) :
          k <= Len(file.rules) /\ rules[k].toks = file.rules[k].toks
    /\ pc = "done" =>
          \A k \in 1..Len(rules) :
             \E str \in strings : /\ str.at = rules[k].accept
                                 /\ Trimmed(str.text) = file.rules[Own(k)].code
                                 /\ str.line = file.rules[Own(k)].line

\* Of the text around the rules the code goes to the output and nothing else, with blank
\* lines in place of the macros, whatever comments and % lines are among it
\* (lex.c:227-298).
CopiedAsWritten ==
    pc = "done" => [k \in 1..Len(out) |-> Trimmed(out[k])] = file.copied

\* rlex comes to the end of its input, or fails.
Terminates == <>(pc \in {"done", "failed"})

=============================================================================
