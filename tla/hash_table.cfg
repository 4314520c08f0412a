\* Three symbols of three names in two chains.
CONSTANTS
    x = x
    y = y
    z = z
    Names <- MCNames
    Hash <- MCHash
    SIZE = 2
    Syms = {s1, s2, s3}
    NULL = NULL
SPECIFICATION Spec
INVARIANTS TypeOK ChainsLinked
PROPERTIES ImplementsDefinitions
SYMMETRY Symmetric
