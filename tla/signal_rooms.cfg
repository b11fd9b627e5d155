SPECIFICATION SignalSpec
CONSTANTS
    c1 = c1
    c2 = c2
    c3 = c3
    a = a
    b = b
    Absent = Absent
    Clients = {c1, c2, c3}
    Rooms = {a, b}
    RelayTypes = {"offer"}
    MaxPeers = 3
    MaxInbox = 2
SYMMETRY SignalSymmetry
INVARIANTS
    SignalTypeOK
    Registered
    RoomSizes
    NoGhosts
    NoDanglingPeer
    ViewIsRoom
    RelayFromKnownPeer
CHECK_DEADLOCK FALSE
