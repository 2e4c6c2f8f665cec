CONSTANTS
    Names = {"S", "T", "MANAGER"}
    Versions = {0, 1, 2}
    Ports = {1}
    Ttls = {0, 1}
    Self = "MANAGER"
    SelfVersion = 2
    NoServer = NoServer
    Faults = {"event"}
    MaxEvents = 3
    Events = {1, 2, 3, 4, 5}
    triggersAt <- MCTriggerTimes
    NullEvent = NullEvent
    MaxTimers = 7
    RemovalLimit = 5
    BlindRemovals = FALSE
    Keys = {1, 2, 3, 4}
    Values = {"a"}
    NoValue = NoValue
    keyHash <- MCKeyHash
    minCapacity = 1
    lowwater = 2
    highwater = 8
    FreeSlot = FreeSlot
    Deleted = Deleted
    Handle = {h1, h2, h3}
    Objects = {x1, x2}
    Null = Null
    Streams = {s1, s2}
    Words = {0, 1}
    NoStream = NoStream
    MaxWords = 2
    MemStreamBufferSize = 2
    FragmentQuota = 2
    FragmentWatermark = 0
    FreePercentage = 50
SPECIFICATION StructuresSpec
CHECK_DEADLOCK FALSE
INVARIANTS
    TreeMatchesTable
    EventsAreLinked
    LivesWhileReferenced
    FragmentsAreConserved
PROPERTIES
    IsTimerQueue
    IsDictionary
    AreWordStreams
