CONSTANTS
    Faults = {}
    MaxFd = 2
    FdSetSize = 3
    Timeout <- MCTimeout
    MaxCount = 3
    GcInterval = 1
    UseClient = TRUE
SPECIFICATION Spec
INVARIANTS
    FlushIsComplete
