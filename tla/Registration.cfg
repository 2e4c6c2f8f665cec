CONSTANTS
    Names = {"S", "MANAGER"}
    Versions = {1}
    p1 = p1
    p2 = p2
    Ports = {p1, p2}
    Ttls = {4}
    Self = "MANAGER"
    SelfVersion = 1
    NoServer = NoServer
    Faults = {"loss"}
    DescOf <- MCDescOf
    TtlOf <- MCTtlOf
    MinTtl = 1
    MaxSock = 2
    MaxEvents = 2
SYMMETRY Symmetry
SPECIFICATION RegSpec
INVARIANTS
    ConfirmedIsListed
    LossesAreTolerated
