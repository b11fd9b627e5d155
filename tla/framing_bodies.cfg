SPECIFICATION Spec
CONSTANTS
    Streams = {16909060, 67305985}
    MaxChunk = 2
    HeaderRoom = 5
    HeadersSizes = {2, 5}
    MaxBody = 3
INVARIANTS
    FramingTypeOK
    AllDecodable
    BodyConserved
    FinishedWhole
    BodyFramesFit
CHECK_DEADLOCK FALSE
