\* After a lexeme that was too long.
CONSTANTS
    MAXLEX = 2
    MAXLOOK = 1
    NL = 10
    Chars <- MCChars
    Files <- MCLongFile
    ShortReads = FALSE
    Calls = {}
    MaxOpens = 1
    MaxBack = 1
    UnputChars = {}
    MaxUnputs = 0
SPECIFICATION Spec
INVARIANTS RefusedOnlyWhenTooLong
\* The program really may stop: ferr() ends it.
CHECK_DEADLOCK FALSE
