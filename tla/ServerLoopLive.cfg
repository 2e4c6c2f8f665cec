CONSTANTS
    Faults = {"rpcerror"}
    MaxFd = 1
    FdSetSize = 2
    Timeout <- MCTimeout
    MaxCount = 3
    GcInterval = 1
    UseClient = TRUE
SPECIFICATION FairSpec
PROPERTIES
    
    HungUpConnectionsAreClosed
    SilentConnectionsTimeOut
    RunningServerStops
