\* A rule that matches the empty text too, alone in its lexer.
CONSTANTS
    MAXLEX = 2
    MAXLOOK = 1
    NL = 10
    Chars <- MCChars
    Files <- OneCharFiles
    ShortReads = FALSE
    Calls = {}
    MaxOpens = 1
    MaxBack = 1
    UnputChars = {}
    MaxUnputs = 0
    Yy_nxt <- NullableNext
    Yyaccept <- NullableAccept
    UserCalls = {"return"}
    MaxUserCalls = 0
SPECIFICATION FairLexSpec
PROPERTIES CutsLikeMaximalMunch
\* yylex() stops when it has returned 0 or when ferr() ends the program.
CHECK_DEADLOCK FALSE
