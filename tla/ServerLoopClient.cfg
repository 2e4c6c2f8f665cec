CONSTANTS
    Faults = {"decode", "encode", "setup", "rpcerror"}
    MaxFd = 2
    FdSetSize = 3
    Timeout <- MCTimeout
    MaxCount = 2
    GcInterval = 1
    UseClient = TRUE
SPECIFICATION Spec
INVARIANTS
    TypeOK
    FdSetsFollowModes
    ModesFollowStates
    ReportedStayRegistered
    AttentionNotLost
