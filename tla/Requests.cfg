CONSTANTS
    PathNames = {"a", "b"}
    Separators = {"/"}
    KSC_MAX_REL_DEPTH = 1
    MaxComponents = 4
    RelativeFirst = FALSE
    OwnNames = {"a"}
    FurtherNames = {"b", "c"}
    MaxOwn = 2
    MaxFurther = 4
    Chars = {"a", "backslash"}
    Backslash = "backslash"
    MaxName = 3
    MaxMask = 4
    Wild <- MCWild
    v1 = v1
    v2 = v2
    v3 = v3
    Variables = {v1, v2, v3}
    VarValues = {0, 1}
    Packages = {{v1}, {v2, v3}, {v1, v2, v3}}
    bucketOf <- MCBucketOf
    OutOfMemory = TRUE
    Overlap = FALSE
    MaxCalls = 2
    MaxFragments = 3
    ServerTimesOut = FALSE
    NoMemory = FALSE
    Undecodable = TRUE
    Root = Root
    d1 = d1
    d2 = d2
    SubDomains = {d1, d2}
    SimpleVariables = {v1, v2}
    idOf <- MCIdOf
    ObjectValues = {0, 1}
    NoObject = NoObject
    c1 = c1
    c2 = c2
    Clients = {c1, c2}
    MaxRequests <- MCMaxRequests
    _total_timeout = 2
    Garbling = {c2}
    TxFails = TRUE
    Nothing = Nothing
    HostAndNames = {n1, n2}
    ClientObjects = {o1, o2}
    AvModules = {m1}
    ProtocolVersions = {1, 2}
    Tries = 2
    Scopes = {"CHILDREN"}
    Crashing = {n1}
    MaxRestarts = 1
    Null = Null
    ServerKinds = {"manager", "extended"}
    Negotiators = {"none", "simple", "other"}
    ParamSamples <- MCParamSamples
    ResultSamples <- MCResultSamples
    AddressLost = TRUE
    V1PlusCompatible = TRUE
SPECIFICATION RequestsSpec
CHECK_DEADLOCK FALSE
INVARIANTS
    RelativePathsResolve
    LocatorsResolve
    MatchIsGlob
    OutcomesAreKnown
    RecordsArriveWhole
    GetEPIsTrue
    AnswersGoToTheirCaller
    ServerObjectsAreCurrent
    MessagesAreUnderstood
    OldClientsAreServed
