------------------------- MODULE SignalServerProofs -------------------------
(***************************************************************************)
(* Theorems about SignalServer, for any connections, rooms and bounds: the *)
(* server's records first, then what its clients make of its messages.     *)
(***************************************************************************)
EXTENDS SignalServer, FiniteSetTheorems, SequenceTheorems, TLAPS

(* Registered, RoomSizes, NoGhosts and NoDanglingPeer hold together or not *)
(* at all: removePeer finds the place of a peer through its record, and    *)
(* "close" finds the record through peerId.  Fresh is what randomUUID      *)
(* gives: no trace of an id before it is handed out, and one owner after.  *)
Fresh ==
    /\ \A i \in PeerIds : i >= nextPeer =>
          peers[i] = NoPeer /\ \A c \in Clients : peerId[c] # i
    /\ \A c \in Clients : ws[c] = "new" => peerId[c] = 0
    /\ \A c, d \in Clients : peerId[c] = peerId[d] /\ peerId[c] # 0 => c = d

RoomInv ==
    /\ SignalTypeOK
    /\ Registered
    /\ RoomSizes
    /\ NoGhosts
    /\ NoDanglingPeer
    /\ Fresh

-----------------------------------------------------------------------------
LEMMA ToldType ==
    ASSUME SignalTypeOK, NEW c \in Clients, NEW m \in Message
    PROVE  Told(c, m) \in Seq(Message)
<1>1. inbox[c] \in Seq(Message)
  BY DEF SignalTypeOK
<1> QED  BY <1>1, AppendProperties DEF Told

LEMMA NotifyType ==
    ASSUME SignalTypeOK, NEW S, NEW m \in Message
    PROVE  Notify(S, m) \in [Clients -> Seq(Message)]
BY ToldType DEF Notify, SignalTypeOK

LEMMA NoteType ==
    ASSUME NEW i \in PeerIds, NEW type \in RelayTypes \cup NoticeTypes
    PROVE  Note(type, i) \in Message
BY DEF Note, Message

LEMMA LearnType ==
    ASSUME NEW m \in Message, NEW v \in [me : PeerIds \cup {0}, others : SUBSET PeerIds]
    PROVE  Learn(v, m) \in [me : PeerIds \cup {0}, others : SUBSET PeerIds]
<1>1. CASE m = ErrorMessage
  <2>1. Learn(v, m) = v
    BY <1>1 DEF ErrorMessage, Learn
  <2> QED  BY <2>1
<1>2. CASE m # ErrorMessage
  <2>1. m.peer \in PeerIds /\ m.others \in SUBSET PeerIds
    BY <1>2 DEF Message
  <2>2. CASE m.type = "joined"
    BY <2>1, <2>2 DEF Learn
  <2>3. CASE m.type = "peer-joined"
    BY <2>1, <2>3 DEF Learn
  <2>4. CASE m.type = "peer-left"
    BY <2>4 DEF Learn
  <2>5. CASE m.type \notin {"joined", "peer-joined", "peer-left"}
    BY <2>5 DEF Learn
  <2> QED  BY <2>2, <2>3, <2>4, <2>5
<1> QED  BY <1>1, <1>2

LEMMA ErrorMessageType == ErrorMessage \in Message
BY DEF Message

LEMMA NoPeerIsNone == NoPeer \notin [ws : Clients, room : Rooms]
BY AbsentAssumption DEF NoPeer

(* A set of ids that meets the capacity test has room for one more.        *)
LEMMA OneMore ==
    ASSUME NEW S \in SUBSET PeerIds, Cardinality(S) < MaxRoomSize, NEW i
    PROVE  Cardinality(S \cup {i}) <= MaxRoomSize
<1>1. IsFiniteSet(S) /\ Cardinality(S) \in Nat
  <2>1. IsFiniteSet(PeerIds)
    BY FS_Interval, SignalBounds DEF PeerIds
  <2> QED  BY <2>1, FS_Subset, FS_CardinalityType
<1>2. Cardinality(S \cup {i}) <= Cardinality(S) + 1
  <2>1. CASE i \in S
    <3>1. Cardinality(S \cup {i}) = Cardinality(S)
      <4>1. S \cup {i} = S
        BY Zenon, <2>1
      <4> QED  BY Zenon, <4>1
    <3> QED  BY <1>1, <3>1
  <2>2. CASE i \notin S
    BY <1>1, <2>2, FS_AddElement
  <2> QED  BY <2>1, <2>2
<1>3. Cardinality(S \cup {i}) \in Nat
  BY <1>1, FS_AddElement, FS_CardinalityType
<1> QED  BY <1>1, <1>2, <1>3 DEF MaxRoomSize

(* A part of a room is no larger than the room.                            *)
LEMMA OneLess ==
    ASSUME NEW S \in SUBSET PeerIds, Cardinality(S) <= MaxRoomSize, NEW i
    PROVE  Cardinality(S \ {i}) <= MaxRoomSize
<1>1. IsFiniteSet(S) /\ Cardinality(S) \in Nat
  <2>1. IsFiniteSet(PeerIds)
    BY FS_Interval, SignalBounds DEF PeerIds
  <2> QED  BY <2>1, FS_Subset, FS_CardinalityType
<1>2. IsFiniteSet(S \ {i}) /\ Cardinality(S \ {i}) <= Cardinality(S)
  BY <1>1, FS_Subset
<1>3. Cardinality(S \ {i}) \in Nat
  BY <1>2, FS_CardinalityType
<1> QED  BY <1>1, <1>2, <1>3 DEF MaxRoomSize

(* Where there is room for one more, nobody has company.                   *)
LEMMA OnlyOne ==
    ASSUME NEW S \in SUBSET PeerIds, Cardinality(S) < MaxRoomSize, NEW i \in S
    PROVE  S \ {i} = {}
<1>1. IsFiniteSet(S) /\ Cardinality(S) \in Nat
  <2>1. IsFiniteSet(PeerIds)
    BY FS_Interval, SignalBounds DEF PeerIds
  <2> QED  BY <2>1, FS_Subset, FS_CardinalityType
<1>2. IsFiniteSet(S \ {i}) /\ Cardinality(S \ {i}) = Cardinality(S) - 1
  BY <1>1, FS_RemoveElement
<1>3. Cardinality(S \ {i}) \in Nat
  BY <1>2, FS_CardinalityType
<1>4. Cardinality(S \ {i}) = 0
  BY <1>1, <1>2, <1>3 DEF MaxRoomSize
<1> QED  BY <1>2, <1>4, FS_EmptySet

LEMMA RoomInit == SignalInit => RoomInv
<1> SUFFICES ASSUME SignalInit PROVE RoomInv
  OBVIOUS
<1>1. SignalTypeOK
  BY SignalBounds DEF SignalInit, SignalTypeOK, PeerIds
<1>2. RoomSizes
  BY FS_EmptySet DEF SignalInit, RoomSizes, MaxRoomSize
<1>3. Registered /\ NoGhosts /\ NoDanglingPeer /\ Fresh
  BY DEF SignalInit, Registered, NoGhosts, NoDanglingPeer, Fresh
<1> QED  BY <1>1, <1>2, <1>3 DEF RoomInv

-----------------------------------------------------------------------------
(* What removePeer does, whether or not the peer still has a record.       *)
LEMMA RemovePeerEffect ==
    ASSUME RoomInv, NEW i \in PeerIds, RemovePeer(i)
    PROVE  /\ peers' = [peers EXCEPT ![i] = NoPeer]
           /\ rooms' \in [Rooms -> SUBSET PeerIds]
           /\ \A r \in Rooms : rooms'[r] = rooms[r] \ {i}
           /\ roomKeys' \subseteq Rooms
           /\ \A r \in Rooms : r \in roomKeys' <=> rooms'[r] # {}
           /\ inbox' \in [Clients -> Seq(Message)]
<1>1. CASE peers[i] = NoPeer
  <2>1. UNCHANGED <<peers, rooms, roomKeys, inbox>>
    BY <1>1 DEF RemovePeer
  <2>2. \A r \in Rooms : i \notin rooms[r]
    BY <1>1 DEF RoomInv, Registered
  <2>3. peers' = [peers EXCEPT ![i] = NoPeer]
    BY <1>1, <2>1 DEF RoomInv, SignalTypeOK
  <2>4. \A r \in Rooms : rooms'[r] = rooms[r] \ {i}
    BY <2>1, <2>2
  <2> QED  BY <2>1, <2>3, <2>4 DEF RoomInv, SignalTypeOK, RoomSizes
<1>2. CASE peers[i] # NoPeer
  <2> DEFINE q == peers[i].room
  <2>1. q \in Rooms
    BY <1>2 DEF RoomInv, SignalTypeOK
  <2>2. /\ peers' = [peers EXCEPT ![i] = NoPeer]
        /\ rooms' = [rooms EXCEPT ![q] = rooms[q] \ {i}]
        /\ roomKeys' = IF rooms[q] \ {i} = {} THEN roomKeys \ {q} ELSE roomKeys
        /\ inbox' = Notify(rooms[q] \ {i}, Note("peer-left", i))
    BY <1>2 DEF RemovePeer
  <2>3. \A r \in Rooms : r # q => i \notin rooms[r]
    BY DEF RoomInv, Registered
  <2>4. rooms' \in [Rooms -> SUBSET PeerIds] /\ roomKeys' \subseteq Rooms
    BY <2>1, <2>2 DEF RoomInv, SignalTypeOK
  <2>5. \A r \in Rooms : rooms'[r] = rooms[r] \ {i}
    BY <2>1, <2>2, <2>3 DEF RoomInv, SignalTypeOK
  <2>6. \A r \in Rooms : r \in roomKeys' <=> rooms'[r] # {}
    <3> TAKE r \in Rooms
    <3>1. CASE r = q
      <4>1. rooms[q] # {} => q \in roomKeys
        BY <2>1 DEF RoomInv, RoomSizes
      <4>2. i \in rooms[q]
        BY <1>2 DEF RoomInv, Registered
      <4> QED  BY <2>1, <2>2, <2>5, <3>1, <4>1, <4>2
    <3>2. CASE r # q
      <4>1. r \in roomKeys <=> rooms[r] # {}
        BY DEF RoomInv, RoomSizes
      <4>2. rooms'[r] = rooms[r] /\ (r \in roomKeys' <=> r \in roomKeys)
        BY <2>2, <2>3, <2>5, <3>2
      <4> QED  BY <4>1, <4>2
    <3> QED  BY <3>1, <3>2
  <2>7. inbox' \in [Clients -> Seq(Message)]
    BY <2>2, NoteType, NotifyType DEF NoticeTypes, RoomInv
  <2> QED  BY <2>2, <2>4, <2>5, <2>6, <2>7
<1> QED  BY <1>1, <1>2

(* Removing the peer of a connection that then counts as over, or forgets  *)
(* its id: the common end of bye, error and close.                         *)
LEMMA LeaveKeepsInv ==
    ASSUME RoomInv, NEW c \in Clients, peerId[c] # 0, RemovePeer(peerId[c]),
           \/ ws' = ws /\ peerId' = [peerId EXCEPT ![c] = 0]
           \/ /\ \E w \in {"failed", "closed"} : ws' = [ws EXCEPT ![c] = w]
              /\ peerId' = peerId,
           UNCHANGED <<nextPeer, view>>
    PROVE  RoomInv'
<1> DEFINE i == peerId[c]
<1>1. i \in PeerIds
  BY DEF RoomInv, SignalTypeOK
<1>2. /\ peers' = [peers EXCEPT ![i] = NoPeer]
      /\ rooms' \in [Rooms -> SUBSET PeerIds]
      /\ \A r \in Rooms : rooms'[r] = rooms[r] \ {i}
      /\ roomKeys' \subseteq Rooms
      /\ \A r \in Rooms : r \in roomKeys' <=> rooms'[r] # {}
      /\ inbox' \in [Clients -> Seq(Message)]
  BY <1>1, RemovePeerEffect
<1>3. \A d \in Clients : d # c => ws'[d] = ws[d] /\ peerId'[d] = peerId[d] /\ peerId[d] # i
  BY DEF RoomInv, SignalTypeOK, Fresh
<1>4. /\ ws' \in [Clients -> {"new", "open", "closing", "failed", "closed"}]
      /\ peerId' \in [Clients -> PeerIds \cup {0}]
      /\ ws'[c] \in {"failed", "closed"} \/ peerId'[c] = 0
      /\ peerId'[c] \in {0, i}
  BY DEF RoomInv, SignalTypeOK
<1>5. \A j \in PeerIds : j # i => peers'[j] = peers[j]
  BY <1>2 DEF RoomInv, SignalTypeOK
<1>6. peers'[i] = NoPeer
  BY <1>1, <1>2 DEF RoomInv, SignalTypeOK
<1>7. SignalTypeOK'
  BY <1>1, <1>2, <1>4 DEF RoomInv, SignalTypeOK
<1>8. Registered'
  <2>1. ASSUME NEW j \in PeerIds, peers'[j] # NoPeer
        PROVE  j \in rooms'[peers'[j].room] /\ peerId'[peers'[j].ws] = j
    <3>1. j # i /\ peers'[j] = peers[j] /\ peers[j] # NoPeer
      BY <1>5, <1>6, <2>1
    <3>2. /\ peers[j].ws \in Clients /\ peers[j].room \in Rooms
          /\ j \in rooms[peers[j].room] /\ peerId[peers[j].ws] = j
      BY <3>1 DEF RoomInv, SignalTypeOK, Registered
    <3>3. peers[j].ws # c
      BY <3>1, <3>2
    <3> QED  BY <1>2, <1>3, <3>1, <3>2, <3>3
  <2>2. ASSUME NEW r \in Rooms, NEW j \in rooms'[r]
        PROVE  peers'[j] # NoPeer /\ peers'[j].room = r
    <3>1. j \in rooms[r] /\ j # i /\ j \in PeerIds
      BY <1>2, <2>2
    <3> QED  BY <1>5, <3>1 DEF RoomInv, Registered
  <2> QED  BY <2>1, <2>2 DEF Registered
<1>9. RoomSizes'
  <2>1. \A r \in Rooms : Cardinality(rooms'[r]) <= MaxRoomSize
    BY <1>2, OneLess DEF RoomInv, SignalTypeOK, RoomSizes
  <2> QED  BY <1>2, <2>1 DEF RoomSizes
<1>10. NoGhosts'
  <2> SUFFICES ASSUME NEW j \in PeerIds, peers'[j] # NoPeer
               PROVE  ws'[peers'[j].ws] \in {"open", "closing"}
    BY DEF NoGhosts
  <2>1. j # i /\ peers'[j] = peers[j] /\ peers[j] # NoPeer
    BY <1>5, <1>6
  <2>2. peers[j].ws \in Clients /\ peers[j].ws # c
    BY <2>1 DEF RoomInv, SignalTypeOK, Registered
  <2> QED  BY <1>3, <2>1, <2>2 DEF RoomInv, NoGhosts
<1>11. NoDanglingPeer'
  <2> SUFFICES ASSUME NEW d \in Clients, ws'[d] \in {"open", "closing"}, peerId'[d] # 0
               PROVE  peers'[peerId'[d]] # NoPeer
    BY DEF NoDanglingPeer
  <2>1. d # c
    BY <1>4
  <2>2. peerId[d] \in PeerIds /\ peerId[d] # i
    BY <1>3, <2>1 DEF RoomInv, SignalTypeOK
  <2> QED  BY <1>3, <1>5, <2>1, <2>2 DEF RoomInv, NoDanglingPeer
<1>12. Fresh'
  <2>1. \A j \in PeerIds : j >= nextPeer' =>
            peers'[j] = NoPeer /\ \A d \in Clients : peerId'[d] # j
    BY <1>1, <1>3, <1>4, <1>5, <1>6 DEF RoomInv, Fresh, PeerIds
  <2>2. \A d \in Clients : ws'[d] = "new" => peerId'[d] = 0
    BY <1>3, <1>4 DEF RoomInv, Fresh
  <2>3. \A d, e \in Clients : peerId'[d] = peerId'[e] /\ peerId'[d] # 0 => d = e
    BY <1>3, <1>4 DEF RoomInv, Fresh
  <2> QED  BY <2>1, <2>2, <2>3 DEF Fresh
<1> QED  BY <1>7, <1>8, <1>9, <1>10, <1>11, <1>12 DEF RoomInv

-----------------------------------------------------------------------------
(* A step that moves no peer and changes no id keeps the invariant, as     *)
(* long as no connection of a peer closes by it.                           *)
LEMMA QuietStepKeepsInv ==
    ASSUME RoomInv, UNCHANGED <<peerId, peers, rooms, roomKeys, nextPeer>>,
           ws' \in [Clients -> {"new", "open", "closing", "failed", "closed"}],
           \A c \in Clients : \/ ws'[c] = ws[c]
                              \/ ws'[c] \in {"open", "closing"} /\ ws[c] \in {"new", "open"}
                              \/ ws'[c] \in {"failed", "closed"} /\ peerId[c] = 0,
           inbox' \in [Clients -> Seq(Message)],
           view' \in [Clients -> [me : PeerIds \cup {0}, others : SUBSET PeerIds]]
    PROVE  RoomInv'
<1>1. SignalTypeOK'
  BY DEF RoomInv, SignalTypeOK
<1>2. Registered' /\ RoomSizes'
  BY DEF RoomInv, Registered, RoomSizes
<1>3. NoGhosts'
  <2> SUFFICES ASSUME NEW i \in PeerIds, peers[i] # NoPeer
               PROVE  ws'[peers[i].ws] \in {"open", "closing"}
    BY DEF NoGhosts
  <2>1. peers[i].ws \in Clients
    BY DEF RoomInv, SignalTypeOK
  <2>2. peerId[peers[i].ws] = i /\ i # 0
    BY DEF RoomInv, Registered, PeerIds
  <2>3. ws[peers[i].ws] \in {"open", "closing"}
    BY DEF RoomInv, NoGhosts
  <2> QED  BY <2>1, <2>2, <2>3
<1>4. NoDanglingPeer'
  <2> SUFFICES ASSUME NEW c \in Clients, ws'[c] \in {"open", "closing"}, peerId[c] # 0
               PROVE  peers[peerId[c]] # NoPeer
    BY DEF NoDanglingPeer
  <2>1. ws[c] # "new"
    BY DEF RoomInv, Fresh
  <2>2. ws[c] \in {"open", "closing"}
    BY <2>1
  <2> QED  BY <2>2 DEF RoomInv, NoDanglingPeer
<1>5. Fresh'
  <2>1. \A c \in Clients : ws'[c] = "new" => peerId[c] = 0
    BY DEF RoomInv, Fresh
  <2> QED  BY <2>1 DEF RoomInv, Fresh
<1> QED  BY <1>1, <1>2, <1>3, <1>4, <1>5 DEF RoomInv

(* Every refusal is a quiet step.                                          *)
LEMMA RefuseKeepsInv ==
    ASSUME RoomInv, NEW c \in Clients, Refuse(c)
    PROVE  RoomInv'
<1>1. inbox' \in [Clients -> Seq(Message)]
  BY ToldType, ErrorMessageType DEF Refuse, RoomInv, SignalTypeOK
<1> QED  BY <1>1, QuietStepKeepsInv DEF Refuse, RoomInv, SignalTypeOK

(* A join takes an id never given before, and a place that was free.       *)
LEMMA JoinKeepsInv ==
    ASSUME RoomInv, NEW c \in Clients, NEW r \in Rooms, OnJoin(c, r)
    PROVE  RoomInv'
<1> DEFINE i == nextPeer
<1>1. /\ ws[c] \in {"open", "closing"} /\ peerId[c] = 0
      /\ Cardinality(rooms[r]) < MaxRoomSize
      /\ ws' = ws /\ view' = view
      /\ peerId' = [peerId EXCEPT ![c] = i]
      /\ peers' = [peers EXCEPT ![i] = [ws |-> c, room |-> r]]
      /\ rooms' = [rooms EXCEPT ![r] = rooms[r] \cup {i}]
      /\ roomKeys' = roomKeys \cup {r}
      /\ nextPeer' = i + 1
  BY DEF OnJoin, Receives
<1>2. i \in PeerIds /\ i # 0 /\ i + 1 \in 1..(MaxPeers + 1)
  BY SignalBounds DEF OnJoin, RoomInv, SignalTypeOK, PeerIds
<1>3. peers[i] = NoPeer /\ \A d \in Clients : peerId[d] # i
  BY <1>2 DEF RoomInv, Fresh, PeerIds
<1>4. \A q \in Rooms : i \notin rooms[q]
  BY <1>3 DEF RoomInv, Registered
<1>5. /\ peers'[i] # NoPeer /\ peers'[i].ws = c /\ peers'[i].room = r
      /\ \A j \in PeerIds : j # i => peers'[j] = peers[j]
  <2>1. [ws |-> c, room |-> r] # NoPeer
    BY NoPeerIsNone
  <2> QED  BY <1>1, <1>2, <2>1 DEF RoomInv, SignalTypeOK
<1>6. /\ rooms'[r] = rooms[r] \cup {i}
      /\ \A q \in Rooms : q # r => rooms'[q] = rooms[q]
      /\ rooms' \in [Rooms -> SUBSET PeerIds]
  BY <1>1, <1>2 DEF RoomInv, SignalTypeOK
<1>7. /\ peerId'[c] = i
      /\ \A d \in Clients : d # c => peerId'[d] = peerId[d]
      /\ peerId' \in [Clients -> PeerIds \cup {0}]
  BY <1>1, <1>2 DEF RoomInv, SignalTypeOK
<1>8. inbox' \in [Clients -> Seq(Message)]
  <2> DEFINE m == [type |-> "joined", peer |-> i, others |-> rooms[r]]
  <2>1. m \in Message
    BY <1>2 DEF RoomInv, SignalTypeOK, Message, NoticeTypes
  <2>2. Told(c, m) \in Seq(Message)
    BY <2>1, ToldType DEF RoomInv
  <2>3. Note("peer-joined", i) \in Message
    BY <1>2, NoteType DEF NoticeTypes
  <2>4. Notify(rooms[r], Note("peer-joined", i)) \in [Clients -> Seq(Message)]
    BY <2>3, NotifyType DEF RoomInv
  <2>5. inbox' = [Notify(rooms[r], Note("peer-joined", i)) EXCEPT ![c] = Told(c, m)]
    BY DEF OnJoin
  <2> HIDE DEF m
  <2> QED  BY <2>2, <2>4, <2>5
<1>9. SignalTypeOK'
  <2>1. peers' \in [PeerIds -> [ws : Clients, room : Rooms] \cup {NoPeer}]
    BY <1>1, <1>2 DEF RoomInv, SignalTypeOK
  <2>2. roomKeys' \subseteq Rooms
    BY <1>1 DEF RoomInv, SignalTypeOK
  <2> QED  BY <1>1, <1>2, <1>6, <1>7, <1>8, <2>1, <2>2 DEF RoomInv, SignalTypeOK
<1>10. Registered'
  <2>1. ASSUME NEW j \in PeerIds, peers'[j] # NoPeer
        PROVE  j \in rooms'[peers'[j].room] /\ peerId'[peers'[j].ws] = j
    <3>1. CASE j = i
      BY <1>5, <1>6, <1>7, <3>1
    <3>2. CASE j # i
      <4>1. peers'[j] = peers[j] /\ peers[j] # NoPeer
        BY <1>5, <2>1, <3>2
      <4>2. /\ peers[j].ws \in Clients /\ peers[j].room \in Rooms
            /\ j \in rooms[peers[j].room] /\ peerId[peers[j].ws] = j
        BY <4>1 DEF RoomInv, SignalTypeOK, Registered
      <4>3. peers[j].ws # c
        BY <1>1, <4>2 DEF PeerIds
      <4> QED  BY <1>6, <1>7, <4>1, <4>2, <4>3
    <3> QED  BY <3>1, <3>2
  <2>2. ASSUME NEW q \in Rooms, NEW j \in rooms'[q]
        PROVE  peers'[j] # NoPeer /\ peers'[j].room = q
    <3>1. CASE j = i
      <4>1. q = r
        BY <1>4, <1>6, <3>1
      <4> QED  BY <1>5, <3>1, <4>1
    <3>2. CASE j # i
      <4>1. j \in rooms[q] /\ j \in PeerIds
        BY <1>6, <3>2
      <4> QED  BY <1>5, <3>2, <4>1 DEF RoomInv, Registered
    <3> QED  BY <3>1, <3>2
  <2> QED  BY <2>1, <2>2 DEF Registered
<1>11. RoomSizes'
  <2> SUFFICES ASSUME NEW q \in Rooms
               PROVE  /\ q \in roomKeys' <=> rooms'[q] # {}
                      /\ Cardinality(rooms'[q]) <= MaxRoomSize
    BY DEF RoomSizes
  <2>1. CASE q = r
    <3>1. Cardinality(rooms[r] \cup {i}) <= MaxRoomSize
      BY <1>1, OneMore DEF RoomInv, SignalTypeOK
    <3> QED  BY <1>1, <1>6, <2>1, <3>1
  <2>2. CASE q # r
    BY <1>1, <1>6, <2>2 DEF RoomInv, RoomSizes
  <2> QED  BY <2>1, <2>2
<1>12. NoGhosts'
  BY <1>1, <1>5 DEF RoomInv, NoGhosts
<1>13. NoDanglingPeer'
  <2> SUFFICES ASSUME NEW d \in Clients, ws'[d] \in {"open", "closing"}, peerId'[d] # 0
               PROVE  peers'[peerId'[d]] # NoPeer
    BY DEF NoDanglingPeer
  <2>1. CASE d = c
    BY <1>5, <1>7, <2>1
  <2>2. CASE d # c
    <3>1. peerId'[d] = peerId[d] /\ peerId[d] \in PeerIds /\ peerId[d] # i
      BY <1>3, <1>7, <2>2 DEF RoomInv, SignalTypeOK
    <3> QED  BY <1>1, <1>5, <3>1 DEF RoomInv, NoDanglingPeer
  <2> QED  BY <2>1, <2>2
<1>14. Fresh'
  <2>1. ASSUME NEW j \in PeerIds, j >= nextPeer'
        PROVE  peers'[j] = NoPeer /\ \A d \in Clients : peerId'[d] # j
    <3>1. j # i /\ j >= nextPeer
      BY <1>1, <1>2, <2>1 DEF PeerIds
    <3>2. peers[j] = NoPeer /\ \A d \in Clients : peerId[d] # j
      BY <3>1 DEF RoomInv, Fresh
    <3> QED  BY <1>5, <1>7, <3>1, <3>2
  <2>2. \A d \in Clients : ws'[d] = "new" => peerId'[d] = 0
    BY <1>1, <1>7 DEF RoomInv, Fresh
  <2>3. \A d, e \in Clients : peerId'[d] = peerId'[e] /\ peerId'[d] # 0 => d = e
    BY <1>3, <1>7 DEF RoomInv, Fresh
  <2> QED  BY <2>1, <2>2, <2>3 DEF Fresh
<1> QED  BY <1>9, <1>10, <1>11, <1>12, <1>13, <1>14 DEF RoomInv

-----------------------------------------------------------------------------
LEMMA RoomNext == RoomInv /\ [SignalNext]_signalVars => RoomInv'
<1> SUFFICES ASSUME RoomInv, [SignalNext]_signalVars PROVE RoomInv'
  OBVIOUS
<1>1. CASE UNCHANGED signalVars
  BY <1>1, QuietStepKeepsInv DEF signalVars, RoomInv, SignalTypeOK
<1>2. ASSUME NEW c \in Clients, Connect(c) PROVE RoomInv'
  BY <1>2, QuietStepKeepsInv DEF Connect, RoomInv, SignalTypeOK
<1>3. ASSUME NEW c \in Clients, OnBadMessage(c) PROVE RoomInv'
  BY <1>3, RefuseKeepsInv DEF OnBadMessage
<1>4. ASSUME NEW c \in Clients, NEW r \in Rooms, OnJoin(c, r) PROVE RoomInv'
  BY <1>4, JoinKeepsInv
<1>5. ASSUME NEW c \in Clients, NEW r \in Rooms, OnJoinRefused(c, r) PROVE RoomInv'
  BY <1>5, RefuseKeepsInv DEF OnJoinRefused
<1>6. ASSUME NEW c \in Clients, NEW type \in RelayTypes, OnRelay(c, type) PROVE RoomInv'
  <2>1. CASE peerId[c] = 0
    BY <1>6, <2>1, RefuseKeepsInv DEF OnRelay
  <2>2. CASE peerId[c] # 0
    <3>1. peerId[c] \in PeerIds
      BY <2>2 DEF RoomInv, SignalTypeOK
    <3>2. Note(type, peerId[c]) \in Message
      BY <3>1, NoteType
    <3>3. inbox' \in [Clients -> Seq(Message)]
      <4>1. CASE UNCHANGED inbox
        BY <4>1 DEF RoomInv, SignalTypeOK
      <4>2. CASE \E other \in Others(peerId[c]) :
                    inbox' = Notify({other}, Note(type, peerId[c]))
        BY <3>2, <4>2, NotifyType DEF RoomInv
      <4> QED  BY <1>6, <2>2, <4>1, <4>2 DEF OnRelay
    <3> QED  BY <1>6, <2>2, <3>3, QuietStepKeepsInv DEF OnRelay, RoomInv, SignalTypeOK
  <2> QED  BY <2>1, <2>2
<1>7. ASSUME NEW c \in Clients, OnBye(c) PROVE RoomInv'
  BY <1>7, LeaveKeepsInv DEF OnBye
<1>8. ASSUME NEW c \in Clients, StartClose(c) PROVE RoomInv'
  BY <1>8, QuietStepKeepsInv DEF StartClose, RoomInv, SignalTypeOK
<1>9. ASSUME NEW c \in Clients, NEW w \in {"failed", "closed"},
             ws' = [ws EXCEPT ![c] = w], Leave(c)
      PROVE  RoomInv'
  <2>1. CASE peerId[c] = 0
    BY <1>9, <2>1, QuietStepKeepsInv DEF Leave, RoomInv, SignalTypeOK
  <2>2. CASE peerId[c] # 0
    BY <1>9, <2>2, LeaveKeepsInv DEF Leave
  <2> QED  BY <2>1, <2>2
<1>10. ASSUME NEW c \in Clients, OnError(c) \/ OnClose(c) PROVE RoomInv'
  BY <1>9, <1>10 DEF OnError, OnClose
<1>11. ASSUME NEW c \in Clients, Read(c) PROVE RoomInv'
  <2> DEFINE m == Head(inbox[c])
  <2>1. inbox[c] \in Seq(Message) /\ inbox[c] # <<>>
    BY <1>11 DEF Read, RoomInv, SignalTypeOK
  <2>2. m \in Message /\ Tail(inbox[c]) \in Seq(Message)
    BY <2>1, HeadTailProperties
  <2>3. inbox' \in [Clients -> Seq(Message)]
    BY <1>11, <2>2 DEF Read, RoomInv, SignalTypeOK
  <2>4. Learn(view[c], m) \in [me : PeerIds \cup {0}, others : SUBSET PeerIds]
    BY <2>2, LearnType DEF RoomInv, SignalTypeOK
  <2>5. view' \in [Clients -> [me : PeerIds \cup {0}, others : SUBSET PeerIds]]
    BY <1>11, <2>4 DEF Read, RoomInv, SignalTypeOK
  <2> QED  BY <1>11, <2>3, <2>5, QuietStepKeepsInv DEF Read, RoomInv, SignalTypeOK
<1> QED  BY <1>1, <1>2, <1>3, <1>4, <1>5, <1>6, <1>7, <1>8, <1>10, <1>11
         DEF SignalNext, OnMessage

-----------------------------------------------------------------------------
LEMMA RoomInvHolds == SignalSpec => []RoomInv
BY RoomInit, RoomNext, PTL DEF SignalSpec

(* The Map of peers, the Sets of the rooms and the closures' peerId agree  *)
(* (index.ts:31-78), whatever clients send and however connections break.  *)
THEOREM RoomsConsistent == SignalSpec => []Registered
<1>1. RoomInv => Registered
  BY DEF RoomInv
<1> QED  BY <1>1, RoomInvHolds, PTL

(* Every variable of the server and its clients keeps its type.            *)
THEOREM SignalTypeCorrect == SignalSpec => []SignalTypeOK
<1>1. RoomInv => SignalTypeOK
  BY DEF RoomInv
<1> QED  BY <1>1, RoomInvHolds, PTL

(* No room is over its size and none is kept empty (index.ts:63, 126).     *)
THEOREM RoomsBounded == SignalSpec => []RoomSizes
<1>1. RoomInv => RoomSizes
  BY DEF RoomInv
<1> QED  BY <1>1, RoomInvHolds, PTL

(* No room keeps the place of a connection that is gone (removePeer on     *)
(* bye, error and close).                                                  *)
THEOREM PlacesFreed == SignalSpec => []NoGhosts
<1>1. RoomInv => NoGhosts
  BY DEF RoomInv
<1> QED  BY <1>1, RoomInvHolds, PTL

(* peers.get(peerId)! (index.ts:161, 174, 187) never yields undefined.     *)
THEOREM PeerAlwaysKnown == SignalSpec => []NoDanglingPeer
<1>1. RoomInv => NoDanglingPeer
  BY DEF RoomInv
<1> QED  BY <1>1, RoomInvHolds, PTL

-----------------------------------------------------------------------------
(***************************************************************************)
(* What the clients know: the order of the messages each of them is sent.  *)
(***************************************************************************)
(* A message makes its reader take j for a member of its room, or not.     *)
Adds(m, j) ==
    \/ m.type = "joined" /\ j \in m.others
    \/ m.type = "peer-joined" /\ m.peer = j

Removes(m, j) ==
    \/ m.type = "joined" /\ j \notin m.others
    \/ m.type = "peer-left" /\ m.peer = j

(* A client that concluded v so far and has s to read will take j for a    *)
(* member of its room when it comes to message k of s.                     *)
KnownBefore(v, s, k, j) ==
    \/ j \in v.others /\ \A m \in 1..(k - 1) : ~Removes(s[m], j)
    \/ \E n \in 1..(k - 1) :
          Adds(s[n], j) /\ \A m \in (n + 1)..(k - 1) : ~Removes(s[m], j)

(* When it has read all, it will take i for its own id.                    *)
MeAtLast(v, s, i) ==
    \/ v.me = i /\ \A m \in 1..Len(s) : s[m].type # "joined"
    \/ \E n \in 1..Len(s) :
          /\ s[n].type = "joined" /\ s[n].peer = i
          /\ \A m \in (n + 1)..Len(s) : s[m].type # "joined"

(* Who is relayed, or said to have left, was introduced before; and a peer *)
(* is introduced only to one that is alone.                                *)
AboutKnown == RelayTypes \cup {"peer-left"}

Introduced(v, s) ==
    \A k \in 1..Len(s) :
        /\ s[k].type \in AboutKnown => KnownBefore(v, s, k, s[k].peer)
        /\ s[k].type = "peer-joined" => \A j \in PeerIds : ~KnownBefore(v, s, k, j)

KnowsAtLast(v, s, i, S) ==
    /\ MeAtLast(v, s, i)
    /\ \A j \in PeerIds : j \in S <=> KnownBefore(v, s, Len(s) + 1, j)

Company(c) == rooms[peers[peerId[c]].room] \ {peerId[c]}

(* The messages under way to a client that is connected and in a room      *)
(* bring its view to what the room is now; and each relayed message among  *)
(* them follows those that introduce its sender.                           *)
ViewInv ==
    \A c \in Clients :
        /\ Introduced(view[c], inbox[c])
        /\ ws[c] = "open" /\ peerId[c] # 0 =>
              KnowsAtLast(view[c], inbox[c], peerId[c], Company(c))

-----------------------------------------------------------------------------
(***************************************************************************)
(* One message more, and one message read.                                 *)
(***************************************************************************)
LEMMA AppendKnown ==
    ASSUME NEW s \in Seq(Message), NEW m \in Message, NEW v, NEW j
    PROVE  /\ \A k \in 1..(Len(s) + 1) :
                 KnownBefore(v, Append(s, m), k, j) <=> KnownBefore(v, s, k, j)
           /\ KnownBefore(v, Append(s, m), Len(s) + 2, j) <=>
                 Adds(m, j) \/ (KnownBefore(v, s, Len(s) + 1, j) /\ ~Removes(m, j))
<1> DEFINE t == Append(s, m)
<1>1. /\ t \in Seq(Message) /\ Len(t) = Len(s) + 1 /\ Len(s) \in Nat
      /\ \A i \in 1..Len(s) : t[i] = s[i]
      /\ t[Len(s) + 1] = m
  BY AppendProperties, LenProperties
<1> HIDE DEF t
<1>2. ASSUME NEW k \in 1..(Len(s) + 1)
      PROVE  KnownBefore(v, t, k, j) <=> KnownBefore(v, s, k, j)
  <2>1. \A i \in 1..(k - 1) : i \in 1..Len(s) /\ t[i] = s[i]
    BY <1>1
  <2>2. \A n \in 1..(k - 1) : \A i \in (n + 1)..(k - 1) : i \in 1..(k - 1)
    OBVIOUS
  <2> QED  BY <2>1, <2>2 DEF KnownBefore
<1>3. ASSUME Adds(m, j) PROVE KnownBefore(v, t, Len(s) + 2, j)
  <2>1. Len(s) + 1 \in 1..(Len(s) + 2 - 1) /\ Adds(t[Len(s) + 1], j)
    BY <1>1, <1>3
  <2>2. \A i \in (Len(s) + 1 + 1)..(Len(s) + 2 - 1) : ~Removes(t[i], j)
    BY <1>1
  <2> QED  BY <2>1, <2>2 DEF KnownBefore
<1>4. ASSUME KnownBefore(v, s, Len(s) + 1, j), ~Removes(m, j)
      PROVE  KnownBefore(v, t, Len(s) + 2, j)
  <2>1. CASE j \in v.others /\ \A i \in 1..Len(s) : ~Removes(s[i], j)
    <3>1. \A i \in 1..(Len(s) + 2 - 1) : ~Removes(t[i], j)
      BY <1>1, <1>4, <2>1
    <3> QED  BY <2>1, <3>1 DEF KnownBefore
  <2>2. CASE \E n \in 1..Len(s) : Adds(s[n], j) /\ \A i \in (n + 1)..Len(s) : ~Removes(s[i], j)
    <3>1. PICK n \in 1..Len(s) : Adds(s[n], j) /\ \A i \in (n + 1)..Len(s) : ~Removes(s[i], j)
      BY <2>2
    <3>2. n \in 1..(Len(s) + 2 - 1) /\ Adds(t[n], j)
      BY <1>1, <3>1
    <3>3. \A i \in (n + 1)..(Len(s) + 2 - 1) : ~Removes(t[i], j)
      BY <1>1, <1>4, <3>1
    <3> QED  BY <3>2, <3>3 DEF KnownBefore
  <2>3. Len(s) + 1 - 1 = Len(s)
    BY <1>1
  <2> QED  BY <1>4, <2>1, <2>2, <2>3 DEF KnownBefore
<1>5. ASSUME KnownBefore(v, t, Len(s) + 2, j), ~Adds(m, j)
      PROVE  KnownBefore(v, s, Len(s) + 1, j) /\ ~Removes(m, j)
  <2>1. Len(s) + 1 - 1 = Len(s) /\ Len(s) + 2 - 1 = Len(s) + 1
    BY <1>1
  <2>2. CASE j \in v.others /\ \A i \in 1..(Len(s) + 1) : ~Removes(t[i], j)
    <3>1. ~Removes(m, j) /\ \A i \in 1..Len(s) : ~Removes(s[i], j)
      BY <1>1, <2>2
    <3> QED  BY <2>1, <2>2, <3>1 DEF KnownBefore
  <2>3. CASE \E n \in 1..(Len(s) + 1) :
                Adds(t[n], j) /\ \A i \in (n + 1)..(Len(s) + 1) : ~Removes(t[i], j)
    <3>1. PICK n \in 1..(Len(s) + 1) :
              Adds(t[n], j) /\ \A i \in (n + 1)..(Len(s) + 1) : ~Removes(t[i], j)
      BY <2>3
    <3>2. n \in 1..Len(s) /\ Adds(s[n], j)
      BY <1>1, <1>5, <3>1
    <3>3. ~Removes(m, j) /\ \A i \in (n + 1)..Len(s) : ~Removes(s[i], j)
      BY <1>1, <3>1, <3>2
    <3> QED  BY <2>1, <3>2, <3>3 DEF KnownBefore
  <2> QED  BY <1>5, <2>1, <2>2, <2>3 DEF KnownBefore
<1> QED  BY <1>2, <1>3, <1>4, <1>5 DEF t

(* What is concluded from one message.                                     *)
LEMMA LearnOthers ==
    ASSUME NEW m \in Message, NEW v \in [me : PeerIds \cup {0}, others : SUBSET PeerIds], NEW j
    PROVE  /\ j \in Learn(v, m).others <=> Adds(m, j) \/ (j \in v.others /\ ~Removes(m, j))
           /\ Learn(v, m).me = IF m.type = "joined" THEN m.peer ELSE v.me
<1>1. CASE m.type = "joined"
  BY <1>1 DEF Learn, Adds, Removes
<1>2. CASE m.type = "peer-joined"
  BY <1>2 DEF Learn, Adds, Removes
<1>3. CASE m.type = "peer-left"
  BY <1>3 DEF Learn, Adds, Removes
<1>4. CASE m.type \notin {"joined", "peer-joined", "peer-left"}
  BY <1>4 DEF Learn, Adds, Removes
<1> QED  BY <1>1, <1>2, <1>3, <1>4

LEMMA ReadKnown ==
    ASSUME NEW s \in Seq(Message), s # <<>>, NEW j, NEW k \in 1..Len(s),
           NEW v \in [me : PeerIds \cup {0}, others : SUBSET PeerIds]
    PROVE  KnownBefore(Learn(v, Head(s)), Tail(s), k, j) <=> KnownBefore(v, s, k + 1, j)
<1> DEFINE t == Tail(s)
           w == Learn(v, Head(s))
<1>1. /\ Head(s) = s[1] /\ s[1] \in Message /\ Len(s) \in Nat /\ Len(t) = Len(s) - 1
      /\ \A i \in 1..(Len(s) - 1) : t[i] = s[i + 1]
  BY HeadTailProperties, LenProperties
<1>2. j \in w.others <=> Adds(s[1], j) \/ (j \in v.others /\ ~Removes(s[1], j))
  BY <1>1, LearnOthers
<1>3. k + 1 - 1 = k /\ \A i \in 1..(k - 1) : i + 1 \in 2..k /\ t[i] = s[i + 1]
  BY <1>1
<1> HIDE DEF t, w
<1>4. ASSUME KnownBefore(w, t, k, j) PROVE KnownBefore(v, s, k + 1, j)
  <2>1. CASE j \in w.others /\ \A i \in 1..(k - 1) : ~Removes(t[i], j)
    <3>1. \A i \in 2..k : ~Removes(s[i], j)
      <4>1. \A i \in 2..k : i - 1 \in 1..(k - 1) /\ (i - 1) + 1 = i
        OBVIOUS
      <4> QED  BY <1>3, <2>1, <4>1
    <3>2. CASE Adds(s[1], j)
      <4>1. \A i \in (1 + 1)..k : ~Removes(s[i], j)
        BY <3>1
      <4> QED  BY <1>3, <3>2, <4>1 DEF KnownBefore
    <3>3. CASE j \in v.others /\ ~Removes(s[1], j)
      <4>1. \A i \in 1..k : i = 1 \/ i \in 2..k
        OBVIOUS
      <4> QED  BY <1>3, <3>1, <3>3, <4>1 DEF KnownBefore
    <3> QED  BY <1>2, <2>1, <3>2, <3>3
  <2>2. CASE \E n \in 1..(k - 1) :
                Adds(t[n], j) /\ \A i \in (n + 1)..(k - 1) : ~Removes(t[i], j)
    <3>1. PICK n \in 1..(k - 1) :
              Adds(t[n], j) /\ \A i \in (n + 1)..(k - 1) : ~Removes(t[i], j)
      BY <2>2
    <3>2. n + 1 \in 1..k /\ Adds(s[n + 1], j)
      BY <1>3, <3>1
    <3>3. \A i \in (n + 1 + 1)..k : ~Removes(s[i], j)
      <4>1. \A i \in (n + 1 + 1)..k : i - 1 \in (n + 1)..(k - 1) /\ i - 1 \in 1..(k - 1) /\ (i - 1) + 1 = i
        OBVIOUS
      <4> QED  BY <1>3, <3>1, <4>1
    <3> QED  BY <1>3, <3>2, <3>3 DEF KnownBefore
  <2> QED  BY <1>4, <2>1, <2>2 DEF KnownBefore
<1>5. ASSUME KnownBefore(v, s, k + 1, j) PROVE KnownBefore(w, t, k, j)
  <2>1. CASE j \in v.others /\ \A i \in 1..k : ~Removes(s[i], j)
    <3>1. j \in w.others /\ \A i \in 1..(k - 1) : ~Removes(t[i], j)
      BY <1>2, <1>3, <2>1
    <3> QED  BY <3>1 DEF KnownBefore
  <2>2. CASE \E n \in 1..k : Adds(s[n], j) /\ \A i \in (n + 1)..k : ~Removes(s[i], j)
    <3>1. PICK n \in 1..k : Adds(s[n], j) /\ \A i \in (n + 1)..k : ~Removes(s[i], j)
      BY <2>2
    <3>2. CASE n = 1
      <4>1. j \in w.others /\ \A i \in 1..(k - 1) : ~Removes(t[i], j)
        BY <1>2, <1>3, <3>1, <3>2
      <4> QED  BY <4>1 DEF KnownBefore
    <3>3. CASE n # 1
      <4>1. n - 1 \in 1..(k - 1) /\ (n - 1) + 1 = n
        BY <3>3
      <4>2. Adds(t[n - 1], j)
        BY <1>3, <3>1, <4>1
      <4>3. \A i \in (n - 1 + 1)..(k - 1) : i \in 1..(k - 1) /\ i + 1 \in (n + 1)..k
        BY <3>3
      <4>4. \A i \in (n - 1 + 1)..(k - 1) : ~Removes(t[i], j)
        BY <1>3, <3>1, <4>3
      <4> QED  BY <4>1, <4>2, <4>4 DEF KnownBefore
    <3> QED  BY <3>2, <3>3
  <2> QED  BY <1>3, <1>5, <2>1, <2>2 DEF KnownBefore
<1> QED  BY <1>4, <1>5 DEF t, w

-----------------------------------------------------------------------------
LEMMA AppendRelays ==
    ASSUME NEW s \in Seq(Message), NEW m \in Message, NEW v, Introduced(v, s),
           m.type \in AboutKnown => KnownBefore(v, s, Len(s) + 1, m.peer),
           m.type = "peer-joined" => \A j \in PeerIds : ~KnownBefore(v, s, Len(s) + 1, j)
    PROVE  Introduced(v, Append(s, m))
<1> DEFINE t == Append(s, m)
<1>1. /\ Len(t) = Len(s) + 1 /\ Len(s) \in Nat
      /\ \A k \in 1..Len(s) : t[k] = s[k]
      /\ t[Len(s) + 1] = m
  BY AppendProperties, LenProperties
<1>2. ASSUME NEW k \in 1..Len(t)
      PROVE  /\ k \in 1..(Len(s) + 1)
             /\ t[k].type \in AboutKnown => KnownBefore(v, s, k, t[k].peer)
             /\ t[k].type = "peer-joined" => \A j \in PeerIds : ~KnownBefore(v, s, k, j)
  <2>1. CASE k \in 1..Len(s)
    BY <1>1, <2>1 DEF Introduced
  <2>2. CASE k = Len(s) + 1
    BY <1>1, <2>2
  <2> QED  BY <1>1, <2>1, <2>2
<1>3. \A k \in 1..(Len(s) + 1) : \A j : KnownBefore(v, t, k, j) <=> KnownBefore(v, s, k, j)
  BY AppendKnown
<1> HIDE DEF t
<1>4. Introduced(v, t)
  BY <1>2, <1>3 DEF Introduced
<1> QED  BY <1>4 DEF t

LEMMA AppendKnows ==
    ASSUME NEW s \in Seq(Message), NEW m \in Message, m.type # "joined", NEW v, NEW i,
           NEW S, NEW T, KnowsAtLast(v, s, i, S),
           \A j \in PeerIds : j \in T <=> Adds(m, j) \/ (j \in S /\ ~Removes(m, j))
    PROVE  KnowsAtLast(v, Append(s, m), i, T)
<1> DEFINE t == Append(s, m)
<1>1. /\ Len(t) = Len(s) + 1 /\ Len(s) \in Nat
      /\ \A k \in 1..Len(s) : t[k] = s[k]
      /\ t[Len(s) + 1] = m
  BY AppendProperties, LenProperties
<1>2. \A j \in PeerIds : j \in T <=> KnownBefore(v, t, Len(t) + 1, j)
  <2>1. Len(t) + 1 = Len(s) + 2
    BY <1>1
  <2> HIDE DEF t
  <2>2. \A j \in PeerIds : KnownBefore(v, t, Len(s) + 2, j) <=>
            Adds(m, j) \/ (KnownBefore(v, s, Len(s) + 1, j) /\ ~Removes(m, j))
    BY AppendKnown DEF t
  <2> QED  BY <2>1, <2>2 DEF KnowsAtLast
<1> HIDE DEF t
<1>3. MeAtLast(v, t, i)
  <2>1. CASE v.me = i /\ \A k \in 1..Len(s) : s[k].type # "joined"
    <3>1. \A k \in 1..Len(t) : t[k].type # "joined"
      BY <1>1, <2>1
    <3> QED  BY <2>1, <3>1 DEF MeAtLast
  <2>2. CASE \E n \in 1..Len(s) :
                /\ s[n].type = "joined" /\ s[n].peer = i
                /\ \A k \in (n + 1)..Len(s) : s[k].type # "joined"
    <3>1. PICK n \in 1..Len(s) :
                /\ s[n].type = "joined" /\ s[n].peer = i
                /\ \A k \in (n + 1)..Len(s) : s[k].type # "joined"
      BY <2>2
    <3>2. n \in 1..Len(t) /\ t[n].type = "joined" /\ t[n].peer = i
      BY <1>1, <3>1
    <3>3. \A k \in (n + 1)..Len(t) : t[k].type # "joined"
      BY <1>1, <3>1
    <3> QED  BY <3>2, <3>3 DEF MeAtLast
  <2> QED  BY <2>1, <2>2 DEF KnowsAtLast, MeAtLast
<1> QED  BY <1>2, <1>3 DEF KnowsAtLast, t

(* "joined" settles everything, whatever was known before it.              *)
LEMMA JoinedKnows ==
    ASSUME NEW s \in Seq(Message), NEW m \in Message, m.type = "joined", NEW v
    PROVE  KnowsAtLast(v, Append(s, m), m.peer, m.others)
<1> DEFINE t == Append(s, m)
<1>1. Len(t) = Len(s) + 1 /\ Len(s) \in Nat /\ t[Len(s) + 1] = m
  BY AppendProperties, LenProperties
<1>2. \A j \in PeerIds : j \in m.others <=> KnownBefore(v, t, Len(t) + 1, j)
  <2>1. Len(t) + 1 = Len(s) + 2
    BY <1>1
  <2> HIDE DEF t
  <2>2. \A j \in PeerIds : KnownBefore(v, t, Len(s) + 2, j) <=>
            Adds(m, j) \/ (KnownBefore(v, s, Len(s) + 1, j) /\ ~Removes(m, j))
    BY AppendKnown DEF t
  <2> QED  BY <2>1, <2>2 DEF Adds, Removes
<1> HIDE DEF t
<1>3. MeAtLast(v, t, m.peer)
  <2>1. Len(s) + 1 \in 1..Len(t) /\ \A k \in (Len(s) + 1 + 1)..Len(t) : t[k].type # "joined"
    BY <1>1
  <2> QED  BY <1>1, <2>1 DEF MeAtLast
<1> QED  BY <1>2, <1>3 DEF KnowsAtLast, t

LEMMA ReadRelays ==
    ASSUME NEW s \in Seq(Message), s # <<>>,
           NEW v \in [me : PeerIds \cup {0}, others : SUBSET PeerIds], Introduced(v, s)
    PROVE  Introduced(Learn(v, Head(s)), Tail(s))
<1> DEFINE t == Tail(s)
           w == Learn(v, Head(s))
<1>1. /\ Len(s) \in Nat /\ Len(t) = Len(s) - 1
      /\ \A k \in 1..(Len(s) - 1) : t[k] = s[k + 1]
  BY HeadTailProperties, LenProperties
<1>2. \A k \in 1..Len(s) : \A j : KnownBefore(w, t, k, j) <=> KnownBefore(v, s, k + 1, j)
  BY ReadKnown
<1> HIDE DEF t, w
<1>3. ASSUME NEW k \in 1..Len(t)
      PROVE  /\ t[k].type \in AboutKnown => KnownBefore(w, t, k, t[k].peer)
             /\ t[k].type = "peer-joined" => \A j \in PeerIds : ~KnownBefore(w, t, k, j)
  <2>1. k \in 1..Len(s) /\ k + 1 \in 1..Len(s) /\ t[k] = s[k + 1]
    BY <1>1
  <2>2. /\ t[k].type \in AboutKnown => KnownBefore(v, s, k + 1, t[k].peer)
        /\ t[k].type = "peer-joined" => \A j \in PeerIds : ~KnownBefore(v, s, k + 1, j)
    BY <2>1 DEF Introduced
  <2> QED  BY <1>2, <2>1, <2>2
<1>4. Introduced(w, t)
  BY <1>3 DEF Introduced
<1> QED  BY <1>4 DEF t, w

LEMMA ReadKnows ==
    ASSUME NEW s \in Seq(Message), s # <<>>,
           NEW v \in [me : PeerIds \cup {0}, others : SUBSET PeerIds],
           NEW i, NEW S, KnowsAtLast(v, s, i, S)
    PROVE  KnowsAtLast(Learn(v, Head(s)), Tail(s), i, S)
<1> DEFINE t == Tail(s)
           w == Learn(v, Head(s))
<1>1. /\ Len(s) \in Nat /\ Len(s) >= 1 /\ Len(t) = Len(s) - 1
      /\ Head(s) = s[1] /\ s[1] \in Message
      /\ \A k \in 1..(Len(s) - 1) : t[k] = s[k + 1]
  BY HeadTailProperties, LenProperties, EmptySeq
<1>2. \A k \in 1..Len(s) : \A j : KnownBefore(w, t, k, j) <=> KnownBefore(v, s, k + 1, j)
  BY ReadKnown
<1>3. w.me = IF s[1].type = "joined" THEN s[1].peer ELSE v.me
  BY <1>1, LearnOthers
<1> HIDE DEF t, w
<1>4. \A j \in PeerIds : j \in S <=> KnownBefore(w, t, Len(t) + 1, j)
  <2>1. Len(t) + 1 = Len(s) /\ Len(s) \in 1..Len(s)
    BY <1>1
  <2> QED  BY <1>2, <2>1 DEF KnowsAtLast
<1>5. MeAtLast(w, t, i)
  <2>1. CASE v.me = i /\ \A k \in 1..Len(s) : s[k].type # "joined"
    <3>1. w.me = i /\ \A k \in 1..Len(t) : t[k].type # "joined"
      BY <1>1, <1>3, <2>1
    <3> QED  BY <3>1 DEF MeAtLast
  <2>2. CASE \E n \in 1..Len(s) :
                /\ s[n].type = "joined" /\ s[n].peer = i
                /\ \A k \in (n + 1)..Len(s) : s[k].type # "joined"
    <3>1. PICK n \in 1..Len(s) :
                /\ s[n].type = "joined" /\ s[n].peer = i
                /\ \A k \in (n + 1)..Len(s) : s[k].type # "joined"
      BY <2>2
    <3>2. \A k \in n..Len(t) : k + 1 \in (n + 1)..Len(s) /\ t[k] = s[k + 1]
      BY <1>1, <3>1
    <3>3. CASE n = 1
      <4>1. w.me = i /\ \A k \in 1..Len(t) : t[k].type # "joined"
        BY <1>3, <3>1, <3>2, <3>3
      <4> QED  BY <4>1 DEF MeAtLast
    <3>4. CASE n # 1
      <4>1. /\ n - 1 \in 1..Len(t) /\ t[n - 1] = s[n]
            /\ \A k \in (n - 1 + 1)..Len(t) : k \in n..Len(t)
        BY <1>1, <3>4
      <4>2. \A k \in (n - 1 + 1)..Len(t) : t[k].type # "joined"
        BY <3>1, <3>2, <4>1
      <4> QED  BY <3>1, <4>1, <4>2 DEF MeAtLast
    <3> QED  BY <3>3, <3>4
  <2> QED  BY <2>1, <2>2 DEF KnowsAtLast, MeAtLast
<1>6. KnowsAtLast(w, t, i, S)
  BY <1>4, <1>5 DEF KnowsAtLast
<1> QED  BY <1>6 DEF t, w

-----------------------------------------------------------------------------
(***************************************************************************)
(* The steps of the server and of its clients.                             *)
(***************************************************************************)
LEMMA ViewInit == SignalInit => ViewInv
<1> SUFFICES ASSUME SignalInit, NEW c \in Clients
             PROVE  Introduced(view[c], inbox[c]) /\ peerId[c] = 0
  BY DEF ViewInv
<1>1. inbox[c] = <<>> /\ peerId[c] = 0
  BY DEF SignalInit
<1>2. Len(inbox[c]) = 0
  BY <1>1, EmptySeq
<1> QED  BY <1>1, <1>2 DEF Introduced

LEMMA ViewStep ==
    ASSUME \A d \in Clients : Introduced(view'[d], inbox'[d]),
           \A d \in Clients : ws'[d] = "open" /\ peerId'[d] # 0 =>
              KnowsAtLast(view'[d], inbox'[d], peerId'[d],
                          rooms'[peers'[peerId'[d]].room] \ {peerId'[d]})
    PROVE  ViewInv'
BY DEF ViewInv, Company

(* Who is notified: the connections whose closure holds one of the ids.    *)
LEMMA NotifyWho ==
    ASSUME RoomInv, NEW r \in Rooms, NEW S \in SUBSET rooms[r], NEW m, NEW d \in Clients
    PROVE  Notify(S, m)[d] = IF peerId[d] \in S THEN Told(d, m) ELSE inbox[d]
<1>1. \A i \in S : i \in PeerIds /\ i # 0 /\ peers[i] # NoPeer
  BY DEF RoomInv, SignalTypeOK, Registered, PeerIds
<1>2. \A i \in S : peers[i].ws \in Clients /\ peerId[peers[i].ws] = i
  BY <1>1 DEF RoomInv, SignalTypeOK, Registered
<1>3. (\E i \in S : peers[i] # NoPeer /\ peers[i].ws = d) <=> peerId[d] \in S
  <2>1. ASSUME NEW i \in S, peers[i].ws = d PROVE peerId[d] \in S
    BY <1>2, <2>1
  <2>2. ASSUME peerId[d] \in S PROVE peers[peerId[d]] # NoPeer /\ peers[peerId[d]].ws = d
    BY <1>1, <1>2, <2>2 DEF RoomInv, Fresh
  <2> QED  BY <2>1, <2>2
<1> QED  BY <1>3 DEF Notify

(* A connection that is open and in a room is one of that room's members.  *)
LEMMA MemberOf ==
    ASSUME RoomInv, NEW d \in Clients, ws[d] = "open", peerId[d] # 0
    PROVE  /\ peerId[d] \in PeerIds /\ peers[peerId[d]] # NoPeer
           /\ peers[peerId[d]].room \in Rooms /\ peerId[d] \in rooms[peers[peerId[d]].room]
<1>1. peerId[d] \in PeerIds /\ peers[peerId[d]] # NoPeer
  BY DEF RoomInv, SignalTypeOK, NoDanglingPeer
<1> QED  BY <1>1 DEF RoomInv, SignalTypeOK, Registered

LEMMA ErrorSaysNothing ==
    /\ ErrorMessage.type \notin AboutKnown \cup {"joined", "peer-joined"}
    /\ \A j : ~Adds(ErrorMessage, j) /\ ~Removes(ErrorMessage, j)
BY RelayAssumption DEF ErrorMessage, Adds, Removes, AboutKnown

LEMMA QuietStepKeepsView ==
    ASSUME ViewInv, UNCHANGED <<peerId, peers, rooms, inbox, view>>,
           \A d \in Clients : ws'[d] = "open" /\ peerId[d] # 0 => ws[d] = "open"
    PROVE  ViewInv'
BY ViewStep DEF ViewInv, Company

LEMMA RefuseKeepsView ==
    ASSUME RoomInv, ViewInv, NEW c \in Clients, Refuse(c)
    PROVE  ViewInv'
<1>1. /\ inbox' = [inbox EXCEPT ![c] = Told(c, ErrorMessage)]
      /\ UNCHANGED <<ws, peerId, peers, rooms, view>>
  BY DEF Refuse
<1>2. ASSUME NEW d \in Clients
      PROVE  /\ Introduced(view[d], inbox'[d])
             /\ ws[d] = "open" /\ peerId[d] # 0 =>
                   KnowsAtLast(view[d], inbox'[d], peerId[d], Company(d))
  <2>1. CASE d # c \/ ws[d] # "open"
    <3>1. inbox'[d] = inbox[d]
      BY <1>1, <2>1 DEF Told, RoomInv, SignalTypeOK
    <3> QED  BY <3>1 DEF ViewInv
  <2>2. CASE d = c /\ ws[d] = "open"
    <3>1. inbox'[d] = Append(inbox[d], ErrorMessage) /\ inbox[d] \in Seq(Message)
      BY <1>1, <2>2 DEF Told, RoomInv, SignalTypeOK
    <3>2. Introduced(view[d], inbox'[d])
      BY <3>1, ErrorMessageType, ErrorSaysNothing, AppendRelays DEF ViewInv
    <3>3. ASSUME peerId[d] # 0
          PROVE  KnowsAtLast(view[d], inbox'[d], peerId[d], Company(d))
      <4>1. KnowsAtLast(view[d], inbox[d], peerId[d], Company(d))
        BY <2>2, <3>3 DEF ViewInv
      <4> QED  BY <3>1, <4>1, ErrorMessageType, ErrorSaysNothing, AppendKnows
    <3> QED  BY <3>2, <3>3
  <2> QED  BY <2>1, <2>2
<1> QED  BY <1>1, <1>2, ViewStep DEF Company

(* The sender of a relayed message is in the room of the one who gets it,  *)
(* so all that was sent before makes it known.                             *)
LEMMA RelayKeepsView ==
    ASSUME RoomInv, ViewInv, NEW c \in Clients, NEW type \in RelayTypes, OnRelay(c, type)
    PROVE  ViewInv'
<1>1. CASE peerId[c] = 0
  BY <1>1, RefuseKeepsView DEF OnRelay
<1>2. CASE peerId[c] # 0 /\ UNCHANGED inbox
  BY <1>2, QuietStepKeepsView DEF OnRelay
<1>3. ASSUME peerId[c] # 0, NEW other \in Others(peerId[c]),
             inbox' = Notify({other}, Note(type, peerId[c]))
      PROVE  ViewInv'
  <2> DEFINE i == peerId[c]
             r == peers[i].room
             m == Note(type, i)
  <2>1. UNCHANGED <<ws, peerId, peers, rooms, view>>
    BY <1>3 DEF OnRelay
  <2>2. i \in PeerIds /\ peers[i] # NoPeer /\ r \in Rooms /\ i \in rooms[r]
    <3>1. i \in PeerIds /\ peers[i] # NoPeer
      BY <1>3 DEF OnRelay, Receives, RoomInv, SignalTypeOK, NoDanglingPeer
    <3> QED  BY <3>1 DEF RoomInv, SignalTypeOK, Registered
  <2>3. other \in rooms[r] /\ other # i /\ peers[other].room = r
    BY <1>3, <2>2 DEF Others, RoomInv, Registered
  <2>4. /\ m \in Message /\ m.type \notin {"joined", "peer-joined"} /\ m.peer = i
        /\ \A j : ~Adds(m, j) /\ ~Removes(m, j)
    BY <2>2, NoteType, RelayAssumption DEF Note, Adds, Removes
  <2> HIDE DEF m
  <2>5. ASSUME NEW d \in Clients
        PROVE  /\ Introduced(view[d], inbox'[d])
               /\ ws[d] = "open" /\ peerId[d] # 0 =>
                     KnowsAtLast(view[d], inbox'[d], peerId[d], Company(d))
    <3>1. inbox'[d] = IF peerId[d] \in {other} THEN Told(d, m) ELSE inbox[d]
      BY <1>3, <2>2, <2>3, NotifyWho DEF m
    <3>2. CASE peerId[d] # other \/ ws[d] # "open"
      BY <3>1, <3>2 DEF ViewInv, Told
    <3>3. CASE peerId[d] = other /\ ws[d] = "open"
      <4>1. inbox'[d] = Append(inbox[d], m) /\ inbox[d] \in Seq(Message)
        BY <3>1, <3>3 DEF Told, RoomInv, SignalTypeOK
      <4>2. other # 0
        BY <2>2, <2>3 DEF RoomInv, SignalTypeOK, PeerIds
      <4>3. KnowsAtLast(view[d], inbox[d], peerId[d], Company(d)) /\ Introduced(view[d], inbox[d])
        BY <3>3, <4>2 DEF ViewInv
      <4>4. i \in Company(d)
        BY <2>2, <2>3, <3>3 DEF Company
      <4>5. KnownBefore(view[d], inbox[d], Len(inbox[d]) + 1, i)
        BY <2>2, <4>3, <4>4 DEF KnowsAtLast
      <4>6. Introduced(view[d], inbox'[d])
        BY <2>4, <4>1, <4>3, <4>5, AppendRelays
      <4>7. KnowsAtLast(view[d], inbox'[d], peerId[d], Company(d))
        BY <2>4, <4>1, <4>3, AppendKnows
      <4> QED  BY <4>6, <4>7
    <3> QED  BY <3>2, <3>3
  <2> QED  BY <2>1, <2>5, ViewStep DEF Company
<1> QED  BY <1>1, <1>2, <1>3 DEF OnRelay

(* The members of the room learn of the new one, and the new one of them.  *)
LEMMA JoinKeepsView ==
    ASSUME RoomInv, ViewInv, NEW c \in Clients, NEW r \in Rooms, OnJoin(c, r)
    PROVE  ViewInv'
<1> DEFINE i == nextPeer
           joined == [type |-> "joined", peer |-> i, others |-> rooms[r]]
           m == Note("peer-joined", i)
<1>1. /\ ws[c] \in {"open", "closing"} /\ peerId[c] = 0
      /\ ws' = ws /\ view' = view
      /\ peerId' = [peerId EXCEPT ![c] = i]
      /\ peers' = [peers EXCEPT ![i] = [ws |-> c, room |-> r]]
      /\ rooms' = [rooms EXCEPT ![r] = rooms[r] \cup {i}]
      /\ inbox' = [Notify(rooms[r], m) EXCEPT ![c] = Told(c, joined)]
  BY DEF OnJoin, Receives
<1>2. i \in PeerIds /\ i # 0
  BY SignalBounds DEF OnJoin, RoomInv, SignalTypeOK, PeerIds
<1>3. /\ \A q \in Rooms : i \notin rooms[q]
      /\ \A d \in Clients : peerId[d] # i
  BY <1>2 DEF RoomInv, Fresh, Registered, PeerIds
<1>4. /\ peers'[i] = [ws |-> c, room |-> r]
      /\ \A j \in PeerIds : j # i => peers'[j] = peers[j]
      /\ rooms'[r] = rooms[r] \cup {i}
      /\ \A q \in Rooms : q # r => rooms'[q] = rooms[q]
      /\ peerId'[c] = i
      /\ \A d \in Clients : d # c => peerId'[d] = peerId[d]
  BY <1>1, <1>2 DEF RoomInv, SignalTypeOK
<1>5. joined \in Message /\ joined.type = "joined" /\ joined.type \notin AboutKnown
  BY <1>2, RelayAssumption DEF RoomInv, SignalTypeOK, Message, NoticeTypes, AboutKnown
<1>6. /\ m \in Message /\ m.type = "peer-joined" /\ m.type \notin AboutKnown
      /\ \A j : ~Removes(m, j) /\ (Adds(m, j) <=> j = i)
  BY <1>2, NoteType, RelayAssumption DEF Note, NoticeTypes, Adds, Removes, AboutKnown
<1>7. joined.peer = i /\ joined.others = rooms[r]
  OBVIOUS
<1> HIDE DEF joined, m
<1>8. /\ inbox'[c] = Told(c, joined)
      /\ \A d \in Clients : d # c =>
            inbox'[d] = IF peerId[d] \in rooms[r] THEN Told(d, m) ELSE inbox[d]
  <2>1. Notify(rooms[r], m) \in [Clients -> Seq(Message)]
    BY <1>6, NotifyType DEF RoomInv
  <2>2. \A d \in Clients :
            Notify(rooms[r], m)[d] = IF peerId[d] \in rooms[r] THEN Told(d, m) ELSE inbox[d]
    BY NotifyWho
  <2> QED  BY <1>1, <2>1, <2>2
<1>9. ASSUME NEW d \in Clients
      PROVE  /\ Introduced(view'[d], inbox'[d])
             /\ ws'[d] = "open" /\ peerId'[d] # 0 =>
                   KnowsAtLast(view'[d], inbox'[d], peerId'[d],
                               rooms'[peers'[peerId'[d]].room] \ {peerId'[d]})
  <2>1. inbox[d] \in Seq(Message) /\ Introduced(view[d], inbox[d])
    BY DEF RoomInv, SignalTypeOK, ViewInv
  <2>2. CASE d = c /\ ws[c] = "open"
    <3>1. inbox'[d] = Append(inbox[d], joined)
      BY <1>8, <2>2 DEF Told
    <3>2. Introduced(view[d], inbox'[d])
      BY <1>5, <2>1, <3>1, AppendRelays
    <3>3. KnowsAtLast(view[d], inbox'[d], i, rooms[r])
      BY <1>5, <1>7, <2>1, <3>1, JoinedKnows
    <3>4. peerId'[d] = i /\ rooms'[peers'[i].room] \ {i} = rooms[r]
      BY <1>3, <1>4, <2>2
    <3> QED  BY <1>1, <3>2, <3>3, <3>4
  <2>3. CASE d = c /\ ws[c] # "open"
    <3>1. inbox'[d] = inbox[d]
      BY <1>8, <2>3 DEF Told
    <3> QED  BY <1>1, <2>1, <2>3, <3>1
  <2>4. CASE d # c
    <3> DEFINE j == peerId[d]
    <3>1. peerId'[d] = j /\ j # i
      BY <1>3, <1>4, <2>4
    <3>2. CASE ws[d] # "open"
      <4>1. inbox'[d] = inbox[d]
        BY <1>8, <2>4, <3>2 DEF Told
      <4> QED  BY <1>1, <2>1, <3>2, <4>1
    <3>3. CASE ws[d] = "open" /\ j \in rooms[r]
      <4>1. inbox'[d] = Append(inbox[d], m)
        BY <1>8, <2>4, <3>3 DEF Told
      <4>2. /\ j \in PeerIds /\ j # 0 /\ peers[j].room = r
        BY <3>3 DEF RoomInv, SignalTypeOK, Registered, PeerIds
      <4>3. KnowsAtLast(view[d], inbox[d], j, rooms[r] \ {j})
        BY <3>3, <4>2 DEF ViewInv, Company
      <4>4. Introduced(view[d], inbox'[d])
        <5>1. rooms[r] \ {j} = {}
          <6>1. Cardinality(rooms[r]) < MaxRoomSize
            BY DEF OnJoin
          <6>2. rooms[r] \in SUBSET PeerIds
            BY DEF RoomInv, SignalTypeOK
          <6> QED BY <3>3, <6>1, <6>2, OnlyOne
        <5>2. \A n \in PeerIds : ~KnownBefore(view[d], inbox[d], Len(inbox[d]) + 1, n)
          BY <4>3, <5>1 DEF KnowsAtLast
        <5> QED  BY <1>6, <2>1, <4>1, <5>2, AppendRelays
      <4>5. KnowsAtLast(view[d], inbox'[d], j, (rooms[r] \cup {i}) \ {j})
        <5>1. \A n \in PeerIds : n \in (rooms[r] \cup {i}) \ {j} <=>
                  Adds(m, n) \/ (n \in rooms[r] \ {j} /\ ~Removes(m, n))
          BY <1>6, <3>1
        <5> QED  BY <1>6, <2>1, <4>1, <4>3, <5>1, AppendKnows
      <4>6. rooms'[peers'[j].room] = rooms[r] \cup {i}
        BY <1>4, <3>1, <4>2
      <4> QED  BY <1>1, <3>1, <4>4, <4>5, <4>6
    <3>4. CASE ws[d] = "open" /\ j \notin rooms[r]
      <4>1. inbox'[d] = inbox[d]
        BY <1>8, <2>4, <3>4
      <4>2. ASSUME j # 0
            PROVE  KnowsAtLast(view[d], inbox[d], j, rooms'[peers'[j].room] \ {j})
        <5>1. /\ j \in PeerIds /\ peers[j].room \in Rooms /\ peers[j].room # r
          BY <3>4, <4>2, MemberOf
        <5>2. rooms'[peers'[j].room] = rooms[peers[j].room]
          BY <1>4, <3>1, <5>1
        <5> QED  BY <3>4, <4>2, <5>2 DEF ViewInv, Company
      <4> QED  BY <1>1, <2>1, <3>1, <4>1, <4>2
    <3> QED  BY <3>2, <3>3, <3>4
  <2> QED  BY <2>2, <2>3, <2>4
<1> QED  BY <1>9, ViewStep

(* Those who stay in the room are told who left; the one who left is out   *)
(* of every room or its connection is over.                                *)
LEMMA LeaveKeepsView ==
    ASSUME RoomInv, ViewInv, NEW c \in Clients, peerId[c] # 0, RemovePeer(peerId[c]),
           \/ ws' = ws /\ peerId' = [peerId EXCEPT ![c] = 0]
           \/ /\ \E w \in {"failed", "closed"} : ws' = [ws EXCEPT ![c] = w]
              /\ peerId' = peerId,
           UNCHANGED <<nextPeer, view>>
    PROVE  ViewInv'
<1> DEFINE i == peerId[c]
           r == peers[i].room
           m == Note("peer-left", i)
<1>1. i \in PeerIds /\ i # 0
  BY DEF RoomInv, SignalTypeOK
<1>2. /\ peers' = [peers EXCEPT ![i] = NoPeer]
      /\ \A q \in Rooms : rooms'[q] = rooms[q] \ {i}
  BY <1>1, RemovePeerEffect
<1>3. \A d \in Clients : d # c => ws'[d] = ws[d] /\ peerId'[d] = peerId[d] /\ peerId[d] # i
  BY DEF RoomInv, SignalTypeOK, Fresh
<1>4. ws'[c] # "open" \/ peerId'[c] = 0
  BY DEF RoomInv, SignalTypeOK
<1>5. \A j \in PeerIds : j # i => peers'[j] = peers[j]
  BY <1>2 DEF RoomInv, SignalTypeOK
<1>6. view' = view
  OBVIOUS
<1>7. /\ m \in Message /\ m.type = "peer-left" /\ m.peer = i
      /\ \A j : ~Adds(m, j) /\ (Removes(m, j) <=> j = i)
  BY <1>1, NoteType DEF Note, NoticeTypes, Adds, Removes
<1> HIDE DEF m
<1>8. ASSUME NEW d \in Clients
      PROVE  \/ inbox'[d] = inbox[d] /\ (d = c \/ ws[d] # "open" \/ peerId[d] = 0
                                         \/ i \notin rooms[peers[peerId[d]].room])
             \/ /\ d # c /\ ws[d] = "open" /\ peerId[d] # 0 /\ i \in Company(d)
                /\ inbox'[d] = Append(inbox[d], m)
  <2>1. CASE peers[i] = NoPeer
    <3>1. inbox'[d] = inbox[d]
      BY <2>1 DEF RemovePeer
    <3>2. \A q \in Rooms : i \notin rooms[q]
      BY <1>1, <2>1 DEF RoomInv, Registered
    <3> QED  BY <3>1, <3>2, MemberOf
  <2>2. CASE peers[i] # NoPeer
    <3>1. r \in Rooms /\ i \in rooms[r]
      BY <1>1, <2>2 DEF RoomInv, SignalTypeOK, Registered
    <3>2. inbox' = Notify(rooms[r] \ {i}, m)
      BY <2>2 DEF RemovePeer, m
    <3>3. inbox'[d] = IF peerId[d] \in rooms[r] \ {i} THEN Told(d, m) ELSE inbox[d]
      BY <3>1, <3>2, NotifyWho
    <3>4. CASE peerId[d] \in rooms[r] \ {i}
      <4>1. d # c /\ peerId[d] # 0
        BY <3>1, <3>4 DEF RoomInv, SignalTypeOK, PeerIds
      <4>2. peers[peerId[d]].room = r /\ i \in Company(d)
        BY <3>1, <3>4 DEF RoomInv, Registered, Company
      <4> QED  BY <3>3, <3>4, <4>1, <4>2 DEF Told
    <3>5. CASE peerId[d] \notin rooms[r] \ {i}
      <4>1. inbox'[d] = inbox[d]
        BY <3>3, <3>5
      <4>2. ASSUME d # c, ws[d] = "open", peerId[d] # 0,
                   i \in rooms[peers[peerId[d]].room]
            PROVE  FALSE
        <5>1. /\ peers[peerId[d]].room \in Rooms
              /\ peerId[d] \in rooms[peers[peerId[d]].room]
          BY <4>2, MemberOf
        <5>2. peers[peerId[d]].room = r
          BY <4>2, <5>1 DEF RoomInv, Registered
        <5> QED  BY <1>3, <3>5, <4>2, <5>1, <5>2
      <4> QED  BY <4>1, <4>2
    <3> QED  BY <3>4, <3>5
  <2> QED  BY <2>1, <2>2
<1>9. ASSUME NEW d \in Clients
      PROVE  /\ Introduced(view'[d], inbox'[d])
             /\ ws'[d] = "open" /\ peerId'[d] # 0 =>
                   KnowsAtLast(view'[d], inbox'[d], peerId'[d],
                               rooms'[peers'[peerId'[d]].room] \ {peerId'[d]})
  <2> DEFINE j == peerId[d]
  <2>1. inbox[d] \in Seq(Message) /\ Introduced(view[d], inbox[d])
    BY DEF RoomInv, SignalTypeOK, ViewInv
  <2>2. Introduced(view[d], inbox'[d])
    <3>1. CASE inbox'[d] = inbox[d]
      BY <2>1, <3>1
    <3>2. CASE /\ ws[d] = "open" /\ peerId[d] # 0 /\ i \in Company(d)
               /\ inbox'[d] = Append(inbox[d], m)
      <4>1. KnownBefore(view[d], inbox[d], Len(inbox[d]) + 1, i)
        BY <1>1, <3>2 DEF ViewInv, KnowsAtLast
      <4> QED  BY <1>7, <2>1, <3>2, <4>1, AppendRelays
    <3> QED  BY <1>8, <3>1, <3>2
  <2>3. ASSUME ws'[d] = "open", peerId'[d] # 0
        PROVE  KnowsAtLast(view[d], inbox'[d], j, rooms'[peers'[j].room] \ {j})
    <3>1. d # c /\ ws[d] = "open" /\ j # 0 /\ j # i
      BY <1>3, <1>4, <2>3
    <3>2. j \in PeerIds /\ peers[j].room \in Rooms
      BY <3>1, MemberOf
    <3>3. rooms'[peers'[j].room] = rooms[peers[j].room] \ {i}
      BY <1>2, <1>5, <3>1, <3>2
    <3>4. KnowsAtLast(view[d], inbox[d], j, rooms[peers[j].room] \ {j})
      BY <3>1 DEF ViewInv, Company
    <3>5. CASE inbox'[d] = inbox[d] /\ i \notin rooms[peers[j].room]
      <4>1. rooms[peers[j].room] \ {i} = rooms[peers[j].room]
        BY <3>5
      <4> QED  BY <3>3, <3>4, <3>5, <4>1
    <3>6. CASE inbox'[d] = Append(inbox[d], m)
      <4> DEFINE S == rooms[peers[j].room] \ {j}
                 T == (rooms[peers[j].room] \ {i}) \ {j}
      <4>1. \A n \in PeerIds : n \in T <=> Adds(m, n) \/ (n \in S /\ ~Removes(m, n))
        BY <1>7
      <4> HIDE DEF S, T
      <4>2. KnowsAtLast(view[d], inbox[d], j, S)
        BY <3>4 DEF S
      <4>3. KnowsAtLast(view[d], Append(inbox[d], m), j, T)
        BY <1>7, <2>1, <4>1, <4>2, AppendKnows
      <4> QED  BY <3>3, <3>6, <4>3 DEF T
    <3> QED  BY <1>8, <3>1, <3>5, <3>6
  <2>4. ws'[d] = "open" /\ peerId'[d] # 0 => peerId'[d] = j
    BY <1>3, <1>4
  <2> QED  BY <1>6, <2>2, <2>3, <2>4
<1> QED  BY <1>9, ViewStep

LEMMA ReadKeepsView ==
    ASSUME RoomInv, ViewInv, NEW c \in Clients, Read(c)
    PROVE  ViewInv'
<1>1. /\ inbox[c] # <<>> /\ inbox' = [inbox EXCEPT ![c] = Tail(@)]
      /\ view' = [view EXCEPT ![c] = Learn(@, Head(inbox[c]))]
      /\ UNCHANGED <<ws, peerId, peers, rooms>>
  BY DEF Read
<1>2. ASSUME NEW d \in Clients
      PROVE  /\ Introduced(view'[d], inbox'[d])
             /\ ws[d] = "open" /\ peerId[d] # 0 =>
                   KnowsAtLast(view'[d], inbox'[d], peerId[d], Company(d))
  <2>1. CASE d # c
    <3>1. inbox'[d] = inbox[d] /\ view'[d] = view[d]
      BY <1>1, <2>1 DEF RoomInv, SignalTypeOK
    <3> QED  BY <3>1 DEF ViewInv
  <2>2. CASE d = c
    <3>1. inbox'[d] = Tail(inbox[d]) /\ view'[d] = Learn(view[d], Head(inbox[d]))
      BY <1>1, <2>2 DEF RoomInv, SignalTypeOK
    <3>2. /\ inbox[d] \in Seq(Message) /\ inbox[d] # <<>>
          /\ view[d] \in [me : PeerIds \cup {0}, others : SUBSET PeerIds]
      BY <1>1, <2>2 DEF RoomInv, SignalTypeOK
    <3>3. Introduced(view'[d], inbox'[d])
      BY <3>1, <3>2, ReadRelays DEF ViewInv
    <3>4. ASSUME ws[d] = "open", peerId[d] # 0
          PROVE  KnowsAtLast(view'[d], inbox'[d], peerId[d], Company(d))
      <4>1. KnowsAtLast(view[d], inbox[d], peerId[d], Company(d))
        BY <3>4 DEF ViewInv
      <4> QED  BY <3>1, <3>2, <4>1, ReadKnows
    <3> QED  BY <3>3, <3>4
  <2> QED  BY <2>1, <2>2
<1> QED  BY <1>1, <1>2, ViewStep DEF Company

-----------------------------------------------------------------------------
LEMMA ViewNext == RoomInv /\ ViewInv /\ [SignalNext]_signalVars => ViewInv'
<1> SUFFICES ASSUME RoomInv, ViewInv, [SignalNext]_signalVars PROVE ViewInv'
  OBVIOUS
<1>1. CASE UNCHANGED signalVars
  BY <1>1, QuietStepKeepsView DEF signalVars
<1>2. ASSUME NEW c \in Clients, Connect(c) PROVE ViewInv'
  <2>1. peerId[c] = 0 /\ \A d \in Clients : d # c => ws'[d] = ws[d]
    BY <1>2 DEF Connect, RoomInv, SignalTypeOK, Fresh
  <2> QED  BY <1>2, <2>1, QuietStepKeepsView DEF Connect
<1>3. ASSUME NEW c \in Clients, StartClose(c) PROVE ViewInv'
  <2>1. \A d \in Clients : ws'[d] = "open" => ws[d] = "open"
    BY <1>3 DEF StartClose, RoomInv, SignalTypeOK
  <2> QED  BY <1>3, <2>1, QuietStepKeepsView DEF StartClose
<1>4. ASSUME NEW c \in Clients,
             \/ OnBadMessage(c)
             \/ \E r \in Rooms : OnJoinRefused(c, r)
      PROVE  ViewInv'
  BY <1>4, RefuseKeepsView DEF OnBadMessage, OnJoinRefused
<1>5. ASSUME NEW c \in Clients, NEW w \in {"failed", "closed"},
             ws' = [ws EXCEPT ![c] = w], Leave(c)
      PROVE  ViewInv'
  <2>1. CASE peerId[c] = 0
    <3>1. \A d \in Clients : ws'[d] = "open" => ws[d] = "open"
      BY <1>5 DEF RoomInv, SignalTypeOK
    <3> QED  BY <1>5, <2>1, <3>1, QuietStepKeepsView DEF Leave
  <2>2. CASE peerId[c] # 0
    BY <1>5, <2>2, LeaveKeepsView DEF Leave
  <2> QED  BY <2>1, <2>2
<1>6. ASSUME NEW c \in Clients, OnError(c) \/ OnClose(c) PROVE ViewInv'
  BY <1>5, <1>6 DEF OnError, OnClose
<1>7. ASSUME NEW c \in Clients, OnBye(c) PROVE ViewInv'
  BY <1>7, LeaveKeepsView DEF OnBye
<1> QED  BY <1>1, <1>2, <1>3, <1>4, <1>6, <1>7, JoinKeepsView, RelayKeepsView, ReadKeepsView
         DEF SignalNext, OnMessage

LEMMA ViewInvHolds == SignalSpec => [](RoomInv /\ ViewInv)
<1>1. SignalSpec => []RoomInv
  BY RoomInvHolds
<1>2. SignalInit => ViewInv
  BY ViewInit
<1> QED  BY <1>1, <1>2, ViewNext, PTL DEF SignalSpec

(* A client with nothing left to read knows exactly who shares its room:   *)
(* the server sends joined, peer-joined and peer-left to the right members *)
(* and in the right order, over any number of joins, byes and failures     *)
(* (index.ts:33-51, 107-132).                                              *)
THEOREM ViewsMatchRooms == SignalSpec => []ViewIsRoom
<1>1. RoomInv /\ ViewInv => ViewIsRoom
  <2> SUFFICES ASSUME RoomInv, ViewInv, NEW c \in Clients,
                      ws[c] = "open", peerId[c] # 0, inbox[c] = <<>>
               PROVE  view[c].me = peerId[c] /\ view[c].others = Company(c)
    BY DEF ViewIsRoom, Company
  <2>1. Len(inbox[c]) = 0
    BY EmptySeq
  <2>2. KnowsAtLast(view[c], inbox[c], peerId[c], Company(c))
    BY DEF ViewInv
  <2>3. view[c].me = peerId[c]
    BY <2>1, <2>2 DEF KnowsAtLast, MeAtLast
  <2>4. \A j \in PeerIds : j \in Company(c) <=> j \in view[c].others
    BY <2>1, <2>2 DEF KnowsAtLast, KnownBefore
  <2>5. view[c].others \subseteq PeerIds /\ Company(c) \subseteq PeerIds
    <3>1. rooms[peers[peerId[c]].room] \subseteq PeerIds
      BY MemberOf DEF RoomInv, SignalTypeOK
    <3> QED  BY <3>1 DEF Company, RoomInv, SignalTypeOK
  <2> QED  BY <2>3, <2>4, <2>5
<1> QED  BY <1>1, ViewInvHolds, PTL

(* Whoever gets an offer, answer or candidate has read of its sender by    *)
(* then: what connect counts on when it waits for "peer-joined" after an   *)
(* empty "joined" (index.ts:160-197, rtc.rs:478-503).                      *)
THEOREM RelaysFollowIntroduction == SignalSpec => []RelayFromKnownPeer
<1>1. RoomInv /\ ViewInv => RelayFromKnownPeer
  <2> SUFFICES ASSUME RoomInv, ViewInv, NEW c \in Clients, inbox[c] # <<>>,
                      Head(inbox[c]).type \in RelayTypes
               PROVE  Head(inbox[c]).peer \in view[c].others
    BY DEF RelayFromKnownPeer
  <2>1. /\ inbox[c] \in Seq(Message) /\ Len(inbox[c]) \in Nat /\ Len(inbox[c]) # 0
        /\ Head(inbox[c]) = inbox[c][1]
    BY EmptySeq, LenProperties, HeadTailProperties DEF RoomInv, SignalTypeOK
  <2>2. KnownBefore(view[c], inbox[c], 1, inbox[c][1].peer)
    BY <2>1 DEF ViewInv, Introduced, AboutKnown
  <2> QED  BY <2>1, <2>2 DEF KnownBefore
<1> QED  BY <1>1, ViewInvHolds, PTL
=============================================================================
