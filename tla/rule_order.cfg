\* A general rule after one with nested parentheses.
CONSTANTS
    NFA_MAX = 60
    SSIZE = 32
    Chars <- MCChars
    NL = 2
    RuleLists <- OrderRules
    WordLength = 2
SPECIFICATION Spec
INVARIANTS FirstRuleWins
\* The rules come to an end.
CHECK_DEADLOCK FALSE
