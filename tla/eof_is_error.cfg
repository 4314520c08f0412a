\* A file that ends where a read ends.
CONSTANTS
    MAXLEX = 2
    MAXLOOK = 1
    NL = 10
    Chars <- MCChars
    Files <- MCFiles
    ShortReads = FALSE
    Calls = {}
    MaxOpens = 1
    MaxBack = 2
    UnputChars = {}
    MaxUnputs = 0
SPECIFICATION Spec
INVARIANTS EofIsNoError
\* The program really may stop: ferr() ends it.
CHECK_DEADLOCK FALSE
