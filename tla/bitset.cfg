\* Two sets over maps of one and two words of two bits.
CONSTANTS
    W = 2
    DEFSIZE = 1
    Bits <- MCBits
    Handles = {h1, h2}
    NULL = NULL
SPECIFICATION Spec
INVARIANTS TypeOK ComparisonsAgree LoopMissesNothing
PROPERTIES ImplementsSets
SYMMETRY Symmetric
