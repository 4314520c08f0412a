\* Files of one expression of one or two parts, of three rules with heads and tails,
\* and files with an error.
CONSTANTS
    Files <- MCFiles
    MAXINP = 64
    SSIZE = 3
    STR_MAX = 56
    MaxRules = 4
SPECIFICATION Spec
INVARIANTS TypeOK RulesAsWritten CopiedAsWritten
PROPERTY Terminates
\* rlex comes to an end.
CHECK_DEADLOCK FALSE
