\* A second file opened with ii_newfile(), as yywrap() does.
CONSTANTS
    MAXLEX = 2
    MAXLOOK = 1
    NL = 10
    Chars <- MCChars
    Files <- MCFiles
    ShortReads = FALSE
    Calls = {"newfile"}
    MaxOpens = 2
    MaxBack = 1
    UnputChars = {}
    MaxUnputs = 0
SPECIFICATION Spec
INVARIANTS RefusedOnlyWhenTooLong
\* The program really may stop: ferr() ends it.
CHECK_DEADLOCK FALSE
