SPECIFICATION Spec
CONSTANTS
    Workers = {w1, w2}
    DecodeAhead = 2
    GpuAhead = 1
    MaxSubmit = 3
    MaxStarts = 1
    Failing = {1}
    Faults = {"crash", "drop", "upload"}
SYMMETRY WorkerSymmetry
INVARIANTS BackPressure DiedOnlyAfterCrash
PROPERTY ImplementsService
CHECK_DEADLOCK FALSE
