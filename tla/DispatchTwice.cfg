CONSTANTS
    Faults = {"encode"}
    MaxFd = 1
    FdSetSize = 2
    Timeout <- MCTimeout
    MaxCount = 3
    GcInterval = 1
    UseClient = FALSE
SPECIFICATION Spec
PROPERTIES
    DispatchedOnce
