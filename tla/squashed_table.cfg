\* The table that -f prints, for files of one short expression.
CONSTANTS
    NFA_MAX = 36
    SSIZE = 2
    Chars <- MCChars
    NL = 2
    RuleLists <- OneRule
    WordLength = 3
    MAX_CHARS = 3
    DFA_MAX = 8
    YYF = 15
SPECIFICATION GeneratorSpec
INVARIANTS FastTableIsWhole
\* The program ends.
CHECK_DEADLOCK FALSE
