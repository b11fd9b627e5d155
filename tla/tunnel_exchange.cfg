SPECIFICATION FairSpec
CONSTANTS
    r1 = r1
    NoReq = NoReq
    Requests = {r1}
    MaxId = 1
    MaxReqChunks = 2
    MaxResChunks = 2
    MaxPings = 2
    LinkMayFail = TRUE
PROPERTIES
    ExchangeSpec
    Answered
    StreamEnds
    EntryReleased
CHECK_DEADLOCK FALSE
