SPECIFICATION FairSpec
CONSTANTS
    ProtocolVersion = 2
    HelloRanges <- SomeRanges
    MaxConns = 1
    MaxInFlight = 1
PROPERTIES
    FailureEndsLoop
