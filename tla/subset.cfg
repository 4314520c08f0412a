\* The subset construction on many small NFAs.
CONSTANTS
    MAX_CHARS = 2
    DFA_MAX = 3
    Strings = {1, 2}
    Nfas <- MCNfas
SPECIFICATION Spec
INVARIANTS TypeOK StackFits RowsAreClosedMoves StatesDistinct AcceptsFirst
PROPERTIES Terminates
\* The program ends, with its table or with an error.
CHECK_DEADLOCK FALSE
