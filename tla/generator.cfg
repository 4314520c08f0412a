\* From rules to tables: short expressions and then rules with anchors and shared code;
\* longer expressions; nested parentheses, with few nodes, a discard stack of three places
\* and few states.
CONSTANTS
    NFA_MAX = 36
    SSIZE = 3
    Chars <- MCChars
    NL = 2
    RuleLists <- MCRuleLists
    WordLength = 3
    MAX_CHARS = 3
    DFA_MAX = 8
    YYF = 15
SPECIFICATION GeneratorSpec
INVARIANTS AcceptsRules NodesAccounted StackNeedsNesting TableAccepts
\* The program ends.
CHECK_DEADLOCK FALSE
