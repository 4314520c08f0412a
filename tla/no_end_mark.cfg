\* Files without a first or a second %%.
CONSTANTS
    Files <- Unmarked
    MAXINP = 64
    SSIZE = 3
    STR_MAX = 56
    MaxRules = 4
SPECIFICATION Spec
PROPERTY EofIsNull
\* rlex comes to an end.
CHECK_DEADLOCK FALSE
