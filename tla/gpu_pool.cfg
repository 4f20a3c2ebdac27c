SPECIFICATION GpuSpec
CONSTANTS
    a = a  b = b  a1 = a1  b1 = b1
    Keys = {a, b}
    Threads = {a1, b1}
    KeyOf <- MCKeyOf
    Depth <- MCDepth
    MaxGets = 3
    MaxStarts = 1
    ProduceMayRaise = {b1}
    ConcurrentClose = FALSE
INVARIANTS FifoPerConfig OnlyFailedUploadsLost CollectsThePrevious
CHECK_DEADLOCK FALSE
