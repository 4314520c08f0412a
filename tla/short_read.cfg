\* A read that returns less than was asked for, as from a terminal or a pipe.
CONSTANTS
    MAXLEX = 2
    MAXLOOK = 1
    NL = 10
    Chars <- MCChars
    Files <- MCFewFiles
    ShortReads = TRUE
    Calls = {}
    MaxOpens = 1
    MaxBack = 2
    UnputChars = {}
    MaxUnputs = 0
SPECIFICATION Spec
INVARIANTS EofMeansAllRead
\* The program really may stop: ferr() ends it.
CHECK_DEADLOCK FALSE
