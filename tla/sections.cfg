SPECIFICATION Spec
CONSTANTS
    Fids = {1, 2}
    Vrefs = {0, 1}
    MaxU16 = 3
    Provider <- MCProvider
    MaxSections = 3
    MaxVariants = 2
    MaxBlocks = 4
    MaxTargets = 2
INVARIANTS PairsResolve SealedResolves ProviderLostToNamesake
PROPERTY StampedOnce
