\* Every machine of three states over two characters, with two rules.
CONSTANTS
    MAX_CHARS = 2
    Strings = {1, 2}
    Dtrans <- SmallDtrans
    Accepts <- SmallAccepts
SPECIFICATION Spec
INVARIANTS TypeOK OnePartition SameLanguage
PROPERTIES Terminates
\* minimize() returns.
CHECK_DEADLOCK FALSE
