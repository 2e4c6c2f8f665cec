CONSTANTS
    c1 = c1
    c2 = c2
    Clients = {c1, c2}
    MaxRequests <- MCMaxRequests
    _total_timeout = 2
    Garbling = {}
    TxFails = TRUE
    Nothing = Nothing
    KS_PROTOCOL_VERSION = 2
    KS_MINPROTOCOL_VERSION = 1
    AddFails = FALSE
    DatagramsFail = FALSE
    RpcErrors = TRUE
    NoConnection = NoConnection
    HostAndNames = {n1}
    ClientObjects = {o1}
    AvModules = {m1}
    ProtocolVersions = {1, 2}
    Tries = 2
    Scopes = {"CHILDREN"}
    Crashing = {n1}
    MaxRestarts = 1
    Null = Null
    Names = {"S", "MANAGER"}
    Versions = {1}
    p1 = p1
    p2 = p2
    Ports = {p1, p2}
    Ttls = {2}
    Self = "MANAGER"
    SelfVersion = 1
    NoServer = NoServer
    Faults = {"loss"}
    DescOf <- MCDescOf
    TtlOf <- MCShortTtlOf
    MinTtl = 1
    MaxSock = 1
    MaxEvents = 2
    m1 = m1
    m2 = m2
    m3 = m3
    Managers = {m1, m2, m3}
    None = None
    Gone = Gone
    MaxRunning = 2
    EarlyControls = FALSE
    StopsByItself = FALSE
SPECIFICATION ProtocolsSpec
CHECK_DEADLOCK FALSE
INVARIANTS
    TheOneConnectionIsRight
PROPERTIES
    IsAsyncConnection
    CallsEnd
    BusyEnds
    IsRemoteCall
    TableFollowsServers
    OneManagerStaysRegistered
    ManagerIsReachable
    RequestsAreCarriedOut
