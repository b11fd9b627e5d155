SPECIFICATION FairMeetSpec
CONSTANTS
    c1 = c1
    c2 = c2
    c3 = c3
    p = p
    q = q
    room = room
    Absent = Absent
    Clients = {c1, c2, c3}
    Processes = {p, q}
    Rooms = {room}
    RelayTypes = {"offer", "answer", "candidate"}
    MaxPeers = 3
    MaxInbox = 9
    MaxCandidates = 0
    MaxFaults = 1
PROPERTIES
    EstablishingEnds
    PlaceReleased
CHECK_DEADLOCK FALSE
