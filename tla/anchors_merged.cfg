\* Two rules with one code and different anchors.
CONSTANTS
    MAX_CHARS = 2
    Strings = {1}
    Dtrans <- SharedDtrans
    Accepts <- SharedAccepts
SPECIFICATION Spec
INVARIANTS AnchorsKept
\* minimize() returns.
CHECK_DEADLOCK FALSE
