\* ii_unput() in an action whose lexeme is followed by a zero byte.
CONSTANTS
    MAXLEX = 2
    MAXLOOK = 1
    NL = 10
    Chars <- MCChars
    Files <- MCFewFiles
    ShortReads = FALSE
    Calls = {"unput"}
    MaxOpens = 1
    MaxBack = 2
    UnputChars = {11}
    MaxUnputs = 1
SPECIFICATION Spec
INVARIANTS LexemeTerminated
\* The program really may stop: ferr() ends it.
CHECK_DEADLOCK FALSE
