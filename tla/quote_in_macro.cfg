\* A quoted macro, and a character behind it.
CONSTANTS
    Files <- QuoteInMacro
    MAXINP = 64
    SSIZE = 3
    STR_MAX = 56
    MaxRules = 4
SPECIFICATION Spec
INVARIANTS RulesAsWritten
\* rlex comes to an end.
CHECK_DEADLOCK FALSE
