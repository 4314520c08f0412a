\* Regular files: read() returns what is asked for until the end of the file.
CONSTANTS
    MAXLEX = 2
    MAXLOOK = 1
    NL = 10
    Chars <- MCChars
    Files <- MCFiles
    ShortReads = FALSE
    Calls = {"unput"}
    MaxOpens = 1
    MaxBack = 2
    UnputChars = {10, 11}
    MaxUnputs = 1
SPECIFICATION Spec
INVARIANTS TypeOK LinesAgree RefusedOnlyWhenFull EofMeansAllRead FullOnlyAtEof
\* The program really may stop: ferr() ends it.
CHECK_DEADLOCK FALSE
