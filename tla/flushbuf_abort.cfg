\* ii_flushbuf() called near the start of a full buffer.
CONSTANTS
    MAXLEX = 2
    MAXLOOK = 1
    NL = 10
    Chars <- MCChars
    Files <- MCFiles
    ShortReads = FALSE
    Calls = {"flushbuf"}
    MaxOpens = 1
    MaxBack = 2
    UnputChars = {}
    MaxUnputs = 0
SPECIFICATION Spec
INVARIANTS FullOnlyAtEof
\* The program really may stop: ferr() ends it.
CHECK_DEADLOCK FALSE
