SPECIFICATION Spec
CONSTANTS
    r1 = r1
    r2 = r2
    NoReq = NoReq
    Requests = {r1, r2}
    MaxId = 2
    MaxReqChunks = 1
    MaxResChunks = 2
    MaxPings = 0
    LinkMayFail = FALSE
SYMMETRY RequestSymmetry
INVARIANTS
    TypeOK
    Isolation
    ResponsePrefix
    HeadersFirst
    RequestWhole
    NoEarlyEnd
    LeakOnlyByHangUp
CHECK_DEADLOCK FALSE
