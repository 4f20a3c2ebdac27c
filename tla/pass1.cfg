SPECIFICATION Spec
CONSTANTS
    NStreams = 2
    Names = {1, 2, 3}
    MaxRows = 2
    b1 = b1  b2 = b2  big = big
    Bodies = {b1, b2, big}
    Oversized = {big}
    LocalLabels = {3}
INVARIANTS MergeCorrect EveryRowOnce SectionsAddressable
