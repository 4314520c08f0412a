\* A longer rule tried after an anchored one has matched.
CONSTANTS
    MAXLEX = 2
    MAXLOOK = 1
    NL = 10
    Chars <- MCChars
    Files <- AnchoredFiles
    ShortReads = FALSE
    Calls = {}
    MaxOpens = 1
    MaxBack = 1
    UnputChars = {}
    MaxUnputs = 0
    Yy_nxt <- LongerNext
    Yyaccept <- LongerAccept
    UserCalls = {"return"}
    MaxUserCalls = 0
SPECIFICATION LexSpec
INVARIANTS AnchorIsOfLastAccept
\* yylex() stops when it has returned 0 or when ferr() ends the program.
CHECK_DEADLOCK FALSE
