SPECIFICATION FairMeetSpec
CONSTANTS
    c1 = c1
    c2 = c2
    p = p
    q = q
    room = room
    Absent = Absent
    Clients = {c1, c2}
    Processes = {p, q}
    Rooms = {room}
    RelayTypes = {"offer", "answer", "candidate"}
    MaxPeers = 2
    MaxInbox = 9
    MaxCandidates = 1
    MaxFaults = 0
PROPERTIES
    ConnectedDetected
CHECK_DEADLOCK FALSE
