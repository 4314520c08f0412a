\* A closure that follows nothing.
CONSTANTS
    NFA_MAX = 60
    SSIZE = 32
    Chars <- MCChars
    NL = 2
    RuleLists <- DanglingRules
    WordLength = 2
SPECIFICATION Spec
INVARIANTS ClosureFollowsExpression
\* The rules come to an end.
CHECK_DEADLOCK FALSE
