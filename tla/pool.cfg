SPECIFICATION FairPoolSpec
CONSTANTS
    a = a  a1 = a1  a2 = a2
    Keys = {a}
    Threads = {a1, a2}
    KeyOf <- MCKeyOf
    Depth <- MCDepth
    MaxGets = 3
    MaxStarts = 2
    ProduceMayRaise = {a1, a2}
    ConcurrentClose = TRUE
INVARIANT DecodeBound
PROPERTIES GetReturns ThreadsStop
CHECK_DEADLOCK FALSE
