SPECIFICATION Spec
CONSTANTS
    b1 = b1  b2 = b2  b3 = b3  b4 = b4  b5 = b5  b6 = b6  h1 = h1  h2 = h2
    Bodies = {b1, b2, b3, b4, b5, b6}
    Hashes = {h1, h2}
    Hash <- MCHash
    Units <- MCUnits
    Oversized = {b6}
INVARIANTS OffsetIsIdentity OrdinalsDense
PROPERTY ImplementsStore
CHECK_DEADLOCK FALSE
