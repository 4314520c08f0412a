\* Everything the code of a rule may do, long lexemes, bad input and a second file.
CONSTANTS
    MAXLEX = 2
    MAXLOOK = 1
    NL = 10
    Chars <- MCChars
    Files <- RoughFiles
    ShortReads = FALSE
    Calls = {"newfile", "unput"}
    MaxOpens = 2
    MaxBack = 2
    UnputChars = {11}
    MaxUnputs = 2
    Yy_nxt <- WordsNext
    Yyaccept <- WordsAccept
    UserCalls = {"input", "yyless", "unput", "yymore", "return"}
    MaxUserCalls = 2
SPECIFICATION LexSpec
INVARIANTS LexTypeOK YytextIsCurrent YytextIsString
\* yylex() stops when it has returned 0 or when ferr() ends the program.
CHECK_DEADLOCK FALSE
