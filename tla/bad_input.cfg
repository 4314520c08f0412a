\* Bad input in the middle of a rule.
CONSTANTS
    MAXLEX = 2
    MAXLOOK = 1
    NL = 10
    Chars <- MCChars
    Files <- BadInsideFiles
    ShortReads = FALSE
    Calls = {}
    MaxOpens = 1
    MaxBack = 1
    UnputChars = {}
    MaxUnputs = 0
    Yy_nxt <- KeywordNext
    Yyaccept <- KeywordAccept
    UserCalls = {"return"}
    MaxUserCalls = 0
SPECIFICATION LexSpec
INVARIANTS LexemesAreAccepted
\* yylex() stops when it has returned 0 or when ferr() ends the program.
CHECK_DEADLOCK FALSE
