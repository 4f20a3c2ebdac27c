SPECIFICATION Spec
CONSTANTS
    v1 = v1  v2 = v2  b1 = b1
    Variants = {v1, v2}
    Binaries = {b1}
    BinaryOf <- MCBinaryOf
    Kinds = {"full", "unify_vocab", "memmap", "index"}
    MaxRuns <- MCMaxRuns
INVARIANTS CleanRunIsFresh ChainInOrder
PROPERTIES MixedOnlyAfterLostUnify SkippedIsComplete RunEnds
CHECK_DEADLOCK FALSE
