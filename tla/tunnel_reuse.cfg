SPECIFICATION FairSpec
CONSTANTS
    r1 = r1
    r2 = r2
    NoReq = NoReq
    Requests = {r1, r2}
    MaxId = 0
    MaxReqChunks = 0
    MaxResChunks = 0
    MaxPings = 0
    LinkMayFail = FALSE
PROPERTIES
    StreamEnds
    EntryReleased
CHECK_DEADLOCK FALSE
