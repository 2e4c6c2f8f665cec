CONSTANTS
    Faults = {"decode"}
    MaxFd = 2
    FdSetSize = 3
    Timeout <- MCTimeout
    MaxCount = 3
    GcInterval = 1
    UseClient = FALSE
SPECIFICATION Spec
INVARIANTS
    NoDeadConnectionWaits
