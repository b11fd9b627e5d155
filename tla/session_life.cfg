SPECIFICATION FairSpec
CONSTANTS
    ProtocolVersion = 2
    HelloRanges <- SomeRanges
    MaxConns = 2
    MaxInFlight = 1
INVARIANTS
    SessionTypeOK
    NoSurprise
    SameVersion
    KeepaliveOutlives
PROPERTIES
    SessionSettles
