---------------------------- MODULE SignalServer ----------------------------
(***************************************************************************)
(* The signaling server (index.ts): rooms of at most two peers, and the    *)
(* relay of offers, answers and candidates between them.                   *)
(*                                                                         *)
(* It is one JavaScript thread, so a handler is one step; what interleaves *)
(* is the events of the connections.  A client may send any message at any *)
(* time.  A connection is external code (the ws package): it delivers      *)
(* messages in order, may still deliver buffered ones while it is CLOSING, *)
(* and emits nothing but "close" once it has emitted "error".              *)
(***************************************************************************)
EXTENDS Naturals, Sequences, FiniteSets

CONSTANTS
    Clients,        \* WebSocket connections, each used once
    Rooms,          \* room names
    Absent,         \* no connection
    RelayTypes,     \* the types relayed alike: "offer", "answer", "candidate"
    MaxPeers,       \* bound: peer ids handed out
    MaxInbox        \* bound: messages under way to one client

ASSUME AbsentAssumption == Absent \notin Clients
ASSUME RelayAssumption == RelayTypes \subseteq {"offer", "answer", "candidate"}
ASSUME SignalBounds == MaxPeers \in Nat /\ MaxInbox \in Nat

VARIABLES
    ws,         \* readyState, and "failed" once "error" was emitted
    peerId,     \* the variable of each connection's closure; 0 is null
    peers,      \* peer id -> connection and room, or NoPeer
    rooms,      \* room -> set of peer ids
    roomKeys,   \* the rooms that have an entry in the Map
    nextPeer,   \* randomUUID gives ids never given before
    inbox,      \* messages the server sent and the client has not read
    view        \* what each client makes of the messages it read:
                \* its own id and the ids of the others in its room

signalVars == <<ws, peerId, peers, rooms, roomKeys, nextPeer, inbox, view>>

MaxRoomSize == 2
PeerIds == 1..MaxPeers
NoPeer == [ws |-> Absent, room |-> Absent]
ErrorMessage == [type |-> "error", peer |-> 0, others |-> {}]
NoticeTypes == {"joined", "peer-joined", "peer-left"}
Message == [type : RelayTypes \cup NoticeTypes, peer : PeerIds, others : SUBSET PeerIds]
              \cup {ErrorMessage}

(* Mutant: a notice goes out under a type the client does not know.        *)
NoteUnknownType(type, i) == [type |-> "peer", peer |-> i, others |-> {}]

Note(type, i) == [type |-> type, peer |-> i, others |-> {}]

SignalTypeOK ==
    /\ ws \in [Clients -> {"new", "open", "closing", "failed", "closed"}]
    /\ peerId \in [Clients -> PeerIds \cup {0}]
    /\ peers \in [PeerIds -> [ws : Clients, room : Rooms] \cup {NoPeer}]
    /\ rooms \in [Rooms -> SUBSET PeerIds]
    /\ roomKeys \subseteq Rooms
    /\ nextPeer \in 1..(MaxPeers + 1)
    /\ inbox \in [Clients -> Seq(Message)]
    /\ view \in [Clients -> [me : PeerIds \cup {0}, others : SUBSET PeerIds]]

SignalInit ==
    /\ ws = [c \in Clients |-> "new"]
    /\ peerId = [c \in Clients |-> 0]
    /\ peers = [i \in PeerIds |-> NoPeer]
    /\ rooms = [r \in Rooms |-> {}]
    /\ roomKeys = {}
    /\ nextPeer = 1
    /\ inbox = [c \in Clients |-> <<>>]
    /\ view = [c \in Clients |-> [me |-> 0, others |-> {}]]

-----------------------------------------------------------------------------
(* send: only an open connection gets the message.                         *)
Told(c, m) == IF ws[c] = "open" THEN Append(inbox[c], m) ELSE inbox[c]

(* The message to the connections of the peers in S that have a record.    *)
Notify(S, m) ==
    [c \in Clients |->
        IF \E i \in S : peers[i] # NoPeer /\ peers[i].ws = c THEN Told(c, m) ELSE inbox[c]]

(* Only to keep the instance finite: room for what one step may send.      *)
Roomy == \A c \in Clients : Len(inbox[c]) < MaxInbox

-----------------------------------------------------------------------------
Connect(c) ==
    /\ ws[c] = "new"
    /\ ws' = [ws EXCEPT ![c] = "open"]
    /\ UNCHANGED <<peerId, peers, rooms, roomKeys, nextPeer, inbox, view>>

(* A message reaches the handler of connection c.                          *)
Receives(c) == ws[c] \in {"open", "closing"} /\ Roomy

(* Every refusal answers with an error and changes nothing else.           *)
Refuse(c) ==
    /\ inbox' = [inbox EXCEPT ![c] = Told(c, ErrorMessage)]
    /\ UNCHANGED <<ws, peerId, peers, rooms, roomKeys, nextPeer, view>>

(* Invalid JSON, an unknown type, or a join without a proper room name.    *)
(* What does parse is taken to be an object: a bare null, which no client  *)
(* of this code sends, would throw at msg.type and has no action.          *)
OnBadMessage(c) == Receives(c) /\ Refuse(c)

OnJoinRefused(c, r) ==
    /\ Receives(c)
    /\ peerId[c] # 0 \/ Cardinality(rooms[r]) >= MaxRoomSize
    /\ Refuse(c)

(* Mutant: the capacity test is off by one.                                *)
OnJoinOneTooMany(c, r) ==
    /\ Receives(c)
    /\ peerId[c] = 0
    /\ Cardinality(rooms[r]) <= MaxRoomSize
    /\ nextPeer <= MaxPeers
    /\ peerId' = [peerId EXCEPT ![c] = nextPeer]
    /\ peers' = [peers EXCEPT ![nextPeer] = [ws |-> c, room |-> r]]
    /\ rooms' = [rooms EXCEPT ![r] = rooms[r] \cup {nextPeer}]
    /\ roomKeys' = roomKeys \cup {r}
    /\ nextPeer' = nextPeer + 1
    /\ inbox' = [Notify(rooms[r], Note("peer-joined", nextPeer)) EXCEPT
                    ![c] = Told(c, [type |-> "joined", peer |-> nextPeer,
                                    others |-> rooms[r]])]
    /\ UNCHANGED <<ws, view>>

OnJoin(c, r) ==
    /\ Receives(c)
    /\ peerId[c] = 0
    /\ Cardinality(rooms[r]) < MaxRoomSize
    /\ nextPeer <= MaxPeers
    /\ peerId' = [peerId EXCEPT ![c] = nextPeer]
    /\ peers' = [peers EXCEPT ![nextPeer] = [ws |-> c, room |-> r]]
    /\ rooms' = [rooms EXCEPT ![r] = rooms[r] \cup {nextPeer}]
    /\ roomKeys' = roomKeys \cup {r}
    /\ nextPeer' = nextPeer + 1
    /\ inbox' = [Notify(rooms[r], Note("peer-joined", nextPeer)) EXCEPT
                    ![c] = Told(c, [type |-> "joined", peer |-> nextPeer,
                                    others |-> rooms[r]])]
    /\ UNCHANGED <<ws, view>>

(* Mutant: any other peer will do, whatever its room.                      *)
OthersAnyRoom(i) == {j \in PeerIds \ {i} : peers[j] # NoPeer}

(* getOtherPeer: the other member of the room, if it has a record.         *)
Others(i) == rooms[peers[i].room] \ {i}

OnRelay(c, type) ==
    /\ Receives(c)
    /\ IF peerId[c] = 0
       THEN Refuse(c)
       ELSE /\ \/ Others(peerId[c]) = {} /\ UNCHANGED inbox
               \/ \E other \in Others(peerId[c]) :
                     inbox' = Notify({other}, Note(type, peerId[c]))
            /\ UNCHANGED <<ws, peerId, peers, rooms, roomKeys, nextPeer, view>>

(* Mutant: the record goes, its place in the room stays.                   *)
RemovePeerKeepsPlace(i) ==
    peers' = [peers EXCEPT ![i] = NoPeer] /\ UNCHANGED <<rooms, roomKeys, inbox>>

(* Mutant: the other member is not told.                                   *)
RemovePeerSilently(i) ==
    IF peers[i] = NoPeer
    THEN UNCHANGED <<peers, rooms, roomKeys, inbox>>
    ELSE LET r == peers[i].room
             left == rooms[r] \ {i}
         IN /\ peers' = [peers EXCEPT ![i] = NoPeer]
            /\ rooms' = [rooms EXCEPT ![r] = left]
            /\ roomKeys' = IF left = {} THEN roomKeys \ {r} ELSE roomKeys
            /\ UNCHANGED inbox

(* removePeer: out of the room, the room out of the map if it is empty,    *)
(* and the other member told.                                              *)
RemovePeer(i) ==
    IF peers[i] = NoPeer
    THEN UNCHANGED <<peers, rooms, roomKeys, inbox>>
    ELSE LET r == peers[i].room
             left == rooms[r] \ {i}
         IN /\ peers' = [peers EXCEPT ![i] = NoPeer]
            /\ rooms' = [rooms EXCEPT ![r] = left]
            /\ roomKeys' = IF left = {} THEN roomKeys \ {r} ELSE roomKeys
            /\ inbox' = Notify(left, Note("peer-left", i))

(* Mutant: bye removes the peer and forgets to clear peerId.               *)
OnByeKeepsId(c) ==
    /\ Receives(c)
    /\ peerId[c] # 0
    /\ RemovePeer(peerId[c])
    /\ UNCHANGED <<ws, peerId, nextPeer, view>>

OnBye(c) ==
    /\ Receives(c)
    /\ peerId[c] # 0
    /\ RemovePeer(peerId[c])
    /\ peerId' = [peerId EXCEPT ![c] = 0]
    /\ UNCHANGED <<ws, nextPeer, view>>

(* The closing handshake starts, on either end.                            *)
StartClose(c) ==
    /\ ws[c] = "open"
    /\ ws' = [ws EXCEPT ![c] = "closing"]
    /\ UNCHANGED <<peerId, peers, rooms, roomKeys, nextPeer, inbox, view>>

(* Both handlers leave peerId set; after "error", "close" runs removePeer  *)
(* again.                                                                  *)
Leave(c) ==
    /\ Roomy
    /\ IF peerId[c] # 0 THEN RemovePeer(peerId[c]) ELSE UNCHANGED <<peers, rooms, roomKeys, inbox>>
    /\ UNCHANGED <<peerId, nextPeer, view>>

OnError(c) ==
    /\ ws[c] \in {"open", "closing"}
    /\ ws' = [ws EXCEPT ![c] = "failed"]
    /\ Leave(c)

(* Mutant: only an error and a bye remove the peer.                        *)
OnCloseKeepsPeer(c) ==
    /\ ws[c] \in {"open", "closing", "failed"}
    /\ ws' = [ws EXCEPT ![c] = "closed"]
    /\ UNCHANGED <<peerId, peers, rooms, roomKeys, nextPeer, inbox, view>>

OnClose(c) ==
    /\ ws[c] \in {"open", "closing", "failed"}
    /\ ws' = [ws EXCEPT ![c] = "closed"]
    /\ Leave(c)

(* An observer: what a client that concluded v so far concludes from m.    *)
Learn(v, m) ==
    CASE m.type = "joined" -> [me |-> m.peer, others |-> m.others]
      [] m.type = "peer-joined" -> [v EXCEPT !.others = @ \cup {m.peer}]
      [] m.type = "peer-left" -> [v EXCEPT !.others = @ \ {m.peer}]
      [] OTHER -> v

(* The client reads its next message (signaling.rs keeps their order).     *)
Read(c) ==
    /\ inbox[c] # <<>>
    /\ inbox' = [inbox EXCEPT ![c] = Tail(@)]
    /\ view' = [view EXCEPT ![c] = Learn(@, Head(inbox[c]))]
    /\ UNCHANGED <<ws, peerId, peers, rooms, roomKeys, nextPeer>>

OnMessage(c) ==
    \/ OnBadMessage(c)
    \/ \E r \in Rooms : OnJoin(c, r) \/ OnJoinRefused(c, r)
    \/ \E type \in RelayTypes : OnRelay(c, type)
    \/ OnBye(c)

SignalNext ==
    \E c \in Clients :
        \/ Connect(c) \/ OnMessage(c) \/ StartClose(c) \/ OnError(c) \/ OnClose(c)
        \/ Read(c)

SignalSpec == SignalInit /\ [][SignalNext]_signalVars

-----------------------------------------------------------------------------
(* The three records of who is where agree: the Map of peers, the Sets of  *)
(* the rooms and the closures' peerId.                                     *)
Registered ==
    /\ \A i \in PeerIds : peers[i] # NoPeer =>
          i \in rooms[peers[i].room] /\ peerId[peers[i].ws] = i
    /\ \A r \in Rooms : \A i \in rooms[r] : peers[i] # NoPeer /\ peers[i].room = r

(* A room never holds more than two peers, and leaves the map with the     *)
(* last of them (MAX_ROOM_SIZE; removePeer).                               *)
RoomSizes ==
    \A r \in Rooms :
        /\ r \in roomKeys <=> rooms[r] # {}
        /\ Cardinality(rooms[r]) <= MaxRoomSize

(* No place in a room is held by a connection that is over, however its    *)
(* error, close and bye were ordered: a peer that lost its connection can  *)
(* come back.                                                              *)
NoGhosts ==
    \A i \in PeerIds : peers[i] # NoPeer => ws[peers[i].ws] \in {"open", "closing"}

(* peers.get(peerId)! (index.ts:161, 174, 187) is never undefined: peerId  *)
(* stays set after "error", and no message comes after it.                 *)
NoDanglingPeer ==
    \A c \in Clients :
        ws[c] \in {"open", "closing"} /\ peerId[c] # 0 => peers[peerId[c]] # NoPeer

(* A client that has read all its messages knows exactly who shares its    *)
(* room: no peer-joined or peer-left was missed or came out of order.      *)
ViewIsRoom ==
    \A c \in Clients :
        ws[c] = "open" /\ peerId[c] # 0 /\ inbox[c] = <<>> =>
            /\ view[c].me = peerId[c]
            /\ view[c].others = rooms[peers[peerId[c]].room] \ {peerId[c]}

(* A relayed message comes from a peer its reader knows to share its room: *)
(* after an empty "joined" the next message about a session is             *)
(* "peer-joined", never an offer (connect, rtc.rs:478-503, counts on it).  *)
RelayFromKnownPeer ==
    \A c \in Clients :
        inbox[c] # <<>> /\ Head(inbox[c]).type \in RelayTypes =>
            Head(inbox[c]).peer \in view[c].others
=============================================================================
