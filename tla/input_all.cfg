\* Every call: reads may be short, the previous lexeme is kept, a character is replaced,
\* a second file is opened.
CONSTANTS
    MAXLEX = 2
    MAXLOOK = 1
    NL = 10
    Chars <- MCChars
    Files <- MCFewFiles
    ShortReads = TRUE
    Calls = {"newfile", "mark_prev", "flushbuf", "unput"}
    MaxOpens = 2
    MaxBack = 2
    UnputChars = {11}
    MaxUnputs = 1
SPECIFICATION Spec
INVARIANTS PointersOrdered LookaheadReady Window
PROPERTIES RefillKeepsLexemes
\* The program really may stop: ferr() ends it.
CHECK_DEADLOCK FALSE
