\* Sets that differ in one word and meet in another.
CONSTANTS
    W = 2
    DEFSIZE = 1
    Bits <- MCBits
    Handles = {h1, h2}
    NULL = NULL
SPECIFICATION Spec
INVARIANTS DisjointMeansDisjoint
