SPECIFICATION Spec
CONSTANTS
    r1 = r1
    NoReq = NoReq
    Requests = {r1}
    MaxId = 1
    MaxReqChunks = 0
    MaxResChunks = 1
    MaxPings = 0
    LinkMayFail = FALSE
INVARIANTS
    CleanEndIsComplete
CHECK_DEADLOCK FALSE
