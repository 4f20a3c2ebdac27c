SPECIFICATION FairSpec
CONSTANTS
    Workers = {w1, w2}
    DecodeAhead = 2
    GpuAhead = 1
    MaxSubmit = 2
    MaxStarts = 1
    Failing = {1}
    Faults = {"crash"}
INVARIANT Conservation
PROPERTIES NoRequestParks CloseReturns
CHECK_DEADLOCK FALSE
