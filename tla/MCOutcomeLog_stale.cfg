SPECIFICATION OutSpec
CONSTANTS
    c1 = c1
    c2 = c2
    c3 = c3
    p1 = p1
    p2 = p2
    a1 = a1
    a2 = a2
    OutCalls = {c1, c3}
    Processes = {p1, p2}
    ProcessOf <- MCProcessOf
    AdviceOf <- MCAdviceOf
    Tries = 2
    LogMax = 2
    MaxFaults = 0
    NoFile = NoFile
INVARIANT OneSalt
CHECK_DEADLOCK FALSE
