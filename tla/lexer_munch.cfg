\* yylex() against the promise of maximal munch.
CONSTANTS
    MAXLEX = 2
    MAXLOOK = 1
    NL = 10
    Chars <- MCChars
    Files <- AnchoredFiles
    ShortReads = FALSE
    Calls = {}
    MaxOpens = 1
    MaxBack = 1
    UnputChars = {}
    MaxUnputs = 0
    Yy_nxt <- AnchorsNext
    Yyaccept <- AnchorsAccept
    UserCalls = {"return"}
    MaxUserCalls = 0
SPECIFICATION FairLexSpec
PROPERTIES CutsLikeMaximalMunch ReachesEndOfInput
\* yylex() stops when it has returned 0 or when ferr() ends the program.
CHECK_DEADLOCK FALSE
