-------------------------- MODULE RendezvousProofs --------------------------
(***************************************************************************)
(* Theorems about Rendezvous, for any number of processes, attempts, peer  *)
(* ids and faults.  MeetInv is about roles, which the order of the ids     *)
(* decides; TalkInv, which contains it, about what two attempts say to     *)
(* each other; NothingLost counts the candidates between them.             *)
(***************************************************************************)
EXTENDS Rendezvous, SignalServerProofs, FunctionTheorems

(* A process has an attempt of its own, and attempts have connections.     *)
Owned ==
    /\ \A p, q \in Processes : current[p] = current[q] /\ current[p] # Absent => p = q
    /\ \A c \in Clients : ws[c] = "new" => stage[c] = "none"

MeetTypeInv == RoomInv /\ RendezvousTypeOK /\ Owned

LEMMA RoomType == Room \in Rooms
BY RoomAssumption DEF Room

-----------------------------------------------------------------------------
(***************************************************************************)
(* Every step of a rendezvous is a step of the signaling server, or leaves *)
(* it alone.                                                               *)
(***************************************************************************)
LEMMA DeliverIsSignal ==
    ASSUME RendezvousTypeOK, NEW c \in Clients, Deliver(c)
    PROVE  [SignalNext]_signalVars
<1>1. Head(outbox[c]) \in Signals
  BY DEF Deliver, RendezvousTypeOK
<1>2. CASE Head(outbox[c]) = "join"
  BY <1>2, RoomType DEF Deliver, Handles, SignalNext, OnMessage
<1>3. CASE Head(outbox[c]) \in RelayTypes
  <2>1. OnRelay(c, Head(outbox[c]))
    BY <1>3, RoomAssumption DEF Deliver, Handles
  <2> QED BY <1>3, <2>1 DEF SignalNext, OnMessage
<1>4. CASE Head(outbox[c]) = "bye"
  <2>1. OnBye(c) \/ UNCHANGED signalVars
    BY <1>4, RoomAssumption DEF Deliver, Handles
  <2> QED BY <2>1 DEF SignalNext, OnMessage
<1> QED BY <1>1, <1>2, <1>3, <1>4, RoomAssumption DEF Signals

LEMMA AttemptIsSignal ==
    ASSUME NEW c \in Clients, Attempt(c)
    PROVE  Read(c) \/ UNCHANGED signalVars
<1>1. CASE TakeJoinedFirst(c) \/ TakeJoinedSecond(c) \/ TakePeerJoined(c)
  BY <1>1 DEF TakeJoinedFirst, TakeJoinedSecond, TakePeerJoined, Takes
<1>2. CASE TakeError(c) \/ TakePeerLeft(c)
  BY <1>2 DEF TakeError, TakePeerLeft, Takes
<1>3. CASE TakeAnswer(c) \/ TakeOffer(c) \/ TakeCandidate(c) \/ IgnoreStray(c)
  BY <1>3 DEF TakeAnswer, TakeOffer, TakeCandidate, IgnoreStray, Takes
<1>4. CASE RecvNone(c) \/ SendOffer(c) \/ SendFails(c) \/ SendAnswer(c)
  BY <1>4 DEF RecvNone, SendOffer, SendFails, SendAnswer
<1>5. CASE RoundEnds(c) \/ OnConnected(c) \/ Settles(c) \/ OnOpened(c) \/ OnFailed(c)
  BY <1>5 DEF RoundEnds, OnConnected, Settles, OnOpened, OnFailed, Leaves
<1> QED BY <1>1, <1>2, <1>3, <1>4, <1>5 DEF Attempt

LEMMA UnusedType ==
    ASSUME Unused # {}
    PROVE  /\ (CHOOSE c \in Unused : TRUE) \in Clients
           /\ ws[CHOOSE c \in Unused : TRUE] = "new"
BY DEF Unused

LEMMA MeetIsSignal ==
    RendezvousTypeOK /\ [MeetNext]_meetVars => [SignalNext]_signalVars
<1> SUFFICES ASSUME RendezvousTypeOK, [MeetNext]_meetVars PROVE [SignalNext]_signalVars
  OBVIOUS
<1>1. ASSUME NEW p \in Processes, Dial(p) PROVE SignalNext
  BY <1>1, UnusedType DEF Dial, SignalNext
<1>2. ASSUME NEW p \in Processes, Stop(p) PROVE UNCHANGED signalVars
  BY <1>2 DEF Stop
<1>3. ASSUME NEW c \in Clients, Attempt(c) PROVE [SignalNext]_signalVars
  BY <1>3, AttemptIsSignal DEF SignalNext
<1>4. ASSUME NEW c \in Clients, Gather(c) \/ LocalError(c) \/ SessionEnds(c)
      PROVE  UNCHANGED signalVars
  BY <1>4 DEF Gather, LocalError, SessionEnds
<1>5. ASSUME NEW c \in Clients, PeerConnection(c) PROVE UNCHANGED signalVars
  BY <1>5 DEF PeerConnection, PcConnects, ChannelOpens, PcFails, PcMoves
<1>6. ASSUME NEW c \in Clients, Deliver(c) PROVE [SignalNext]_signalVars
  BY <1>6, DeliverIsSignal
<1>7. ASSUME NEW c \in Clients, ConnectionLost(c) \/ ConnectionDropped(c) PROVE SignalNext
  BY <1>7 DEF ConnectionLost, ConnectionDropped, SignalNext
<1>8. CASE UNCHANGED meetVars
  BY <1>8 DEF meetVars
<1> QED BY <1>1, <1>2, <1>3, <1>4, <1>5, <1>6, <1>7, <1>8 DEF MeetNext

-----------------------------------------------------------------------------
(***************************************************************************)
(* Types.                                                                  *)
(***************************************************************************)

(* No connection becomes new again.                                        *)
LEMMA NewOnce ==
    ASSUME SignalTypeOK, [SignalNext]_signalVars, NEW c \in Clients, ws'[c] = "new"
    PROVE  ws[c] = "new"
<1>1. CASE UNCHANGED signalVars
  BY <1>1 DEF signalVars
<1>2. ASSUME NEW d \in Clients, Connect(d) \/ StartClose(d) \/ OnError(d) \/ OnClose(d)
      PROVE  ws[c] = "new"
  BY <1>2 DEF Connect, StartClose, OnError, OnClose, SignalTypeOK
<1>3. ASSUME NEW d \in Clients, OnMessage(d) \/ Read(d) PROVE UNCHANGED ws
  BY <1>3 DEF OnMessage, OnBadMessage, Refuse, OnJoin, OnJoinRefused, OnRelay, OnBye, Read
<1> QED BY <1>1, <1>2, <1>3 DEF SignalNext

(* The sender of what is not an error is a peer.                           *)
LEMMA SenderType ==
    ASSUME SignalTypeOK, NEW c \in Clients, inbox[c] # <<>>, Head(inbox[c]).type # "error"
    PROVE  Sender(c) \in PeerIds /\ Head(inbox[c]).others \subseteq PeerIds
<1>1. Head(inbox[c]) \in Message
  BY HeadTailProperties DEF SignalTypeOK
<1> QED BY <1>1 DEF Message, ErrorMessage, Sender

LEMMA SendsType ==
    ASSUME RendezvousTypeOK, NEW c \in Clients, NEW signal \in Signals, Sends(c, signal)
    PROVE  outbox' \in [Clients -> Seq(Signals)]
<1>1. outbox[c] \in Seq(Signals)
  BY DEF RendezvousTypeOK
<1>2. Append(outbox[c], signal) \in Seq(Signals)
  BY <1>1, AppendProperties
<1> QED BY <1>2 DEF RendezvousTypeOK, Sends

(* Moving on within an attempt.                                            *)
LEMMA GoesType ==
    ASSUME RendezvousTypeOK, Owned, NEW c \in Clients, NEW to \in Stages \ (Ended \cup {"none"}),
           Goes(c, to), stage[c] # "none", UNCHANGED current,
           \A d \in Clients : ws'[d] = "new" => ws[d] = "new"
    PROVE  /\ stage' \in [Clients -> Stages]
           /\ \A p \in Processes : current'[p] # Absent =>
                 stage'[current'[p]] \notin Ended \cup {"none"}
           /\ Owned'
<1>1. stage' \in [Clients -> Stages] /\ stage' = [stage EXCEPT ![c] = to]
  BY DEF RendezvousTypeOK, Goes
<1>2. \A d \in Clients : stage'[d] = IF d = c THEN to ELSE stage[d]
  BY DEF RendezvousTypeOK, Goes
<1>3. \A p \in Processes : current[p] # Absent => current[p] \in Clients
  BY DEF RendezvousTypeOK
<1>4. \A p \in Processes : current'[p] # Absent => stage'[current'[p]] \notin Ended \cup {"none"}
  BY <1>2, <1>3 DEF RendezvousTypeOK
<1>5. Owned'
  BY <1>2 DEF Owned
<1> QED BY <1>1, <1>4, <1>5

(* Giving up.                                                              *)
LEMMA GiveUpType ==
    ASSUME RendezvousTypeOK, Owned, NEW c \in Clients, GiveUp(c), stage[c] # "none",
           \A d \in Clients : ws'[d] = "new" => ws[d] = "new"
    PROVE  /\ stage' \in [Clients -> Stages]
           /\ current' \in [Processes -> Clients \cup {Absent}]
           /\ outbox' \in [Clients -> Seq(Signals)]
           /\ \A p \in Processes : current'[p] # Absent =>
                 stage'[current'[p]] \notin Ended \cup {"none"}
           /\ Owned'
<1>1. /\ stage' \in [Clients -> Stages]
      /\ \A d \in Clients : stage'[d] = IF d = c THEN "over" ELSE stage[d]
  BY DEF RendezvousTypeOK, GiveUp, Goes, Stages
<1>2. /\ current' \in [Processes -> Clients \cup {Absent}]
      /\ \A p \in Processes : current'[p] = IF current[p] = c THEN Absent ELSE current[p]
  BY DEF RendezvousTypeOK, GiveUp, Releases
<1>3. outbox' \in [Clients -> Seq(Signals)]
  BY SendsType DEF GiveUp, Signals
<1>4. \A p \in Processes : current[p] # Absent => current[p] \in Clients
  BY DEF RendezvousTypeOK
<1>5. \A p \in Processes : current'[p] # Absent =>
          current'[p] = current[p] /\ current[p] # c
  BY <1>2
<1>6. \A p \in Processes : current'[p] # Absent => stage'[current'[p]] \notin Ended \cup {"none"}
  BY <1>1, <1>4, <1>5 DEF RendezvousTypeOK
<1>7. Owned'
  BY <1>1, <1>5 DEF Owned
<1> QED BY <1>1, <1>2, <1>3, <1>6, <1>7

LEMMA AttemptType ==
    ASSUME MeetTypeInv, NEW c \in Clients, Attempt(c), RoomInv'
    PROVE  MeetTypeInv'
<1>0. RendezvousTypeOK /\ Owned /\ SignalTypeOK /\ RoomInv
  BY DEF MeetTypeInv, RoomInv
<1>1. \A d \in Clients : ws'[d] = "new" => ws[d] = "new"
  BY AttemptIsSignal DEF Read, signalVars
<1>2. CASE \/ TakeError(c) \/ RecvNone(c) \/ TakePeerLeft(c) \/ SendFails(c) \/ OnFailed(c)
  <2>1. GiveUp(c) /\ stage[c] # "none"
    BY <1>2 DEF TakeError, RecvNone, TakePeerLeft, SendFails, OnFailed, Takes
  <2>2. /\ stage' \in [Clients -> Stages]
        /\ current' \in [Processes -> Clients \cup {Absent}]
        /\ outbox' \in [Clients -> Seq(Signals)]
        /\ \A p \in Processes : current'[p] # Absent =>
              stage'[current'[p]] \notin Ended \cup {"none"}
        /\ Owned'
    BY <1>0, <1>1, <2>1, GiveUpType
  <2>3. UNCHANGED <<role, pcVars, rtc, history, faults>>
    BY <1>2 DEF TakeError, RecvNone, TakePeerLeft, SendFails, OnFailed, rtcVars
  <2>4. notified' \in [Clients -> SUBSET Events]
    <3>1. UNCHANGED notified \/ NotifiedForgotten(c)
      BY <1>2 DEF TakeError, RecvNone, TakePeerLeft, SendFails, OnFailed, rtcVars
    <3> QED BY <1>0, <3>1 DEF NotifiedForgotten, RendezvousTypeOK
  <2>5. RendezvousTypeOK'
    BY <1>0, <2>2, <2>3, <2>4 DEF RendezvousTypeOK, pcVars, history
  <2> QED BY <2>2, <2>5 DEF MeetTypeInv
<1>3. CASE TakeJoinedFirst(c) \/ TakeJoinedSecond(c) \/ TakePeerJoined(c)
  <2>1. PICK to \in {"alone", "select", "prepare"} : Goes(c, to)
    BY <1>3 DEF TakeJoinedFirst, TakeJoinedSecond, TakePeerJoined
  <2>2. UNCHANGED <<current, outbox, pcVars, rtcVars, gathered, faults>> /\ stage[c] # "none"
    BY <1>3 DEF TakeJoinedFirst, TakeJoinedSecond, TakePeerJoined, Takes, history
  <2>3. /\ stage' \in [Clients -> Stages]
        /\ \A p \in Processes : current'[p] # Absent =>
              stage'[current'[p]] \notin Ended \cup {"none"}
        /\ Owned'
    <3>1. to \in Stages \ (Ended \cup {"none"})
      BY DEF Stages, Ended, Establishing, Selecting
    <3> QED BY <1>0, <1>1, <2>1, <2>2, <3>1, GoesType
  <2>4. partner' \in [Clients -> PeerIds \cup {0}]
    <3>1. inbox[c] # <<>> /\ Head(inbox[c]).type # "error"
      BY <1>3 DEF TakeJoinedFirst, TakeJoinedSecond, TakePeerJoined, Takes
    <3>2. Sender(c) \in PeerIds /\ Head(inbox[c]).others \subseteq PeerIds
      BY <1>0, <3>1, SenderType
    <3> QED BY <1>0, <1>3, <3>2
            DEF TakeJoinedFirst, TakeJoinedSecond, TakePeerJoined, RendezvousTypeOK, history
  <2>5. role' \in [Clients -> {"none", "offerer", "answerer"}]
    BY <1>0, <1>3 DEF TakeJoinedFirst, TakeJoinedSecond, TakePeerJoined, RendezvousTypeOK
  <2>6. RendezvousTypeOK'
    BY <1>0, <2>2, <2>3, <2>4, <2>5 DEF RendezvousTypeOK, pcVars, rtcVars
  <2> QED BY <2>3, <2>6 DEF MeetTypeInv
<1>4. CASE TakeAnswer(c) \/ TakeOffer(c) \/ TakeCandidate(c) \/ IgnoreStray(c)
  <2>1. PICK to \in {"handle", "answering"} : Goes(c, to)
    BY <1>4 DEF TakeAnswer, TakeOffer, TakeCandidate, IgnoreStray
  <2>2. /\ UNCHANGED <<current, role, outbox, rtc, history, faults>>
        /\ NotifiedForgotten(c) /\ stage[c] # "none"
    BY <1>4 DEF TakeAnswer, TakeOffer, TakeCandidate, IgnoreStray, Takes
  <2>3. /\ stage' \in [Clients -> Stages]
        /\ \A p \in Processes : current'[p] # Absent =>
              stage'[current'[p]] \notin Ended \cup {"none"}
        /\ Owned'
    <3>1. to \in Stages \ (Ended \cup {"none"})
      BY DEF Stages, Ended, Establishing, Selecting
    <3> QED BY <1>0, <1>1, <2>1, <2>2, <3>1, GoesType
  <2>4. /\ remote' \in [Clients -> PeerIds \cup {0}]
        /\ buffered' \in [Clients -> Seq(PeerIds)]
        /\ applied' \in [Clients -> Seq(PeerIds)]
    <3>1. buffered[c] \in Seq(PeerIds) /\ applied[c] \in Seq(PeerIds)
      BY <1>0 DEF RendezvousTypeOK
    <3>2. CASE TakeAnswer(c) \/ TakeOffer(c)
      <4>1. Sender(c) \in PeerIds
        BY <1>0, <3>2, SenderType DEF TakeAnswer, TakeOffer, Takes
      <4>2. applied[c] \o buffered[c] \in Seq(PeerIds)
        BY <3>1, ConcatProperties
      <4>3. Describe(c)
        BY <3>2 DEF TakeAnswer, TakeOffer
      <4> QED BY <1>0, <4>1, <4>2, <4>3 DEF Describe, RendezvousTypeOK
    <3>3. CASE TakeCandidate(c)
      <4>1. Sender(c) \in PeerIds
        BY <1>0, <3>3, SenderType DEF TakeCandidate, Takes
      <4>2. Append(applied[c], Sender(c)) \in Seq(PeerIds)
            /\ Append(buffered[c], Sender(c)) \in Seq(PeerIds)
        BY <3>1, <4>1, AppendProperties
      <4> QED BY <1>0, <3>3, <4>2 DEF TakeCandidate, RendezvousTypeOK
    <3>4. CASE IgnoreStray(c)
      BY <1>0, <3>4 DEF IgnoreStray, pcVars, RendezvousTypeOK
    <3> QED BY <1>4, <3>2, <3>3, <3>4
  <2>5. notified' \in [Clients -> SUBSET Events]
    BY <1>0, <2>2 DEF NotifiedForgotten, RendezvousTypeOK
  <2>6. RendezvousTypeOK'
    BY <1>0, <2>2, <2>3, <2>4, <2>5 DEF RendezvousTypeOK, history
  <2> QED BY <2>3, <2>6 DEF MeetTypeInv
<1>5. CASE SendOffer(c) \/ SendAnswer(c)
  <2>1. PICK to \in {"select", "handle"}, signal \in {"offer", "answer"} :
           Goes(c, to) /\ Sends(c, signal)
    BY <1>5 DEF SendOffer, SendAnswer
  <2>2. UNCHANGED <<current, role, pcVars, rtcVars, history, faults>> /\ stage[c] # "none"
    BY <1>5 DEF SendOffer, SendAnswer
  <2>3. /\ stage' \in [Clients -> Stages]
        /\ \A p \in Processes : current'[p] # Absent =>
              stage'[current'[p]] \notin Ended \cup {"none"}
        /\ Owned'
    <3>1. to \in Stages \ (Ended \cup {"none"})
      BY DEF Stages, Ended, Establishing, Selecting
    <3> QED BY <1>0, <1>1, <2>1, <2>2, <3>1, GoesType
  <2>4. outbox' \in [Clients -> Seq(Signals)]
    <3>1. signal \in Signals
      BY DEF Signals
    <3> QED BY <1>0, <2>1, <3>1, SendsType
  <2>5. RendezvousTypeOK'
    BY <1>0, <2>2, <2>3, <2>4 DEF RendezvousTypeOK, pcVars, rtcVars, history
  <2> QED BY <2>3, <2>5 DEF MeetTypeInv
<1>6. CASE RoundEnds(c) \/ OnConnected(c) \/ Settles(c) \/ OnOpened(c)
  <2>1. PICK to \in {"session", "select", "settle"} : Leaves(c, to)
    BY <1>6 DEF RoundEnds, OnConnected, Settles, OnOpened, IfOpen
  <2>2. stage[c] # "none"
    BY <1>6 DEF RoundEnds, OnConnected, Settles, OnOpened
  <2>3. /\ stage' \in [Clients -> Stages]
        /\ \A p \in Processes : current'[p] # Absent =>
              stage'[current'[p]] \notin Ended \cup {"none"}
        /\ Owned'
    <3>1. to \in Stages \ (Ended \cup {"none"})
      BY DEF Stages, Ended, Establishing, Selecting
    <3>2. UNCHANGED current /\ Goes(c, to)
      BY <2>1 DEF Leaves
    <3> QED BY <1>0, <1>1, <2>2, <3>1, <3>2, GoesType
  <2>4. RendezvousTypeOK'
    BY <1>0, <2>1, <2>3 DEF RendezvousTypeOK, Leaves, NotifiedForgotten, pcVars, history
  <2> QED BY <2>3, <2>4 DEF MeetTypeInv
<1> QED BY <1>2, <1>3, <1>4, <1>5, <1>6 DEF Attempt

LEMMA DialType ==
    ASSUME MeetTypeInv, NEW p \in Processes, Dial(p), RoomInv'
    PROVE  MeetTypeInv'
<1>0. RendezvousTypeOK /\ Owned /\ SignalTypeOK
  BY DEF MeetTypeInv, RoomInv
<1>1. PICK c \in Clients :
         /\ current[p] = Absent /\ ws[c] = "new" /\ Connect(c)
         /\ current' = [current EXCEPT ![p] = c]
         /\ Goes(c, "joining")
         /\ outbox' = [outbox EXCEPT ![c] = <<"join">>]
         /\ UNCHANGED <<role, pcVars, rtcVars, history, faults>>
  BY UnusedType DEF Dial
<1>2. stage[c] = "none" /\ c # Absent
  BY <1>0, <1>1, AbsentAssumption DEF Owned
<1>3. \A q \in Processes : current[q] # c
  BY <1>0, <1>2 DEF RendezvousTypeOK
<1>4. /\ stage' \in [Clients -> Stages]
      /\ \A d \in Clients : stage'[d] = IF d = c THEN "joining" ELSE stage[d]
  BY <1>0, <1>1 DEF RendezvousTypeOK, Goes, Stages, Establishing
<1>5. /\ current' \in [Processes -> Clients \cup {Absent}]
      /\ \A q \in Processes : current'[q] = IF q = p THEN c ELSE current[q]
  BY <1>0, <1>1 DEF RendezvousTypeOK
<1>6. outbox' \in [Clients -> Seq(Signals)]
  <2>1. <<"join">> \in Seq(Signals)
    BY DEF Signals
  <2> QED BY <1>0, <1>1, <2>1 DEF RendezvousTypeOK
<1>7. \A q \in Processes : current'[q] # Absent => stage'[current'[q]] \notin Ended \cup {"none"}
  <2>1. \A q \in Processes : current[q] # Absent => current[q] \in Clients
    BY <1>0 DEF RendezvousTypeOK
  <2> QED BY <1>0, <1>4, <1>5, <2>1 DEF RendezvousTypeOK, Ended
<1>8. Owned'
  <2>1. \A d \in Clients : ws'[d] = IF d = c THEN "open" ELSE ws[d]
    BY <1>0, <1>1 DEF Connect, SignalTypeOK
  <2> QED BY <1>0, <1>3, <1>4, <1>5, <2>1 DEF Owned
<1>9. RendezvousTypeOK'
  BY <1>0, <1>1, <1>4, <1>5, <1>6, <1>7 DEF RendezvousTypeOK, pcVars, rtcVars, history
<1> QED BY <1>8, <1>9 DEF MeetTypeInv

LEMMA StopType ==
    ASSUME MeetTypeInv, NEW p \in Processes, Stop(p), RoomInv'
    PROVE  MeetTypeInv'
<1> DEFINE c == current[p]
<1>0. RendezvousTypeOK /\ Owned
  BY DEF MeetTypeInv
<1>1. /\ c \in Clients /\ stage[c] # "none"
      /\ current' = [current EXCEPT ![p] = Absent]
      /\ Goes(c, "killed") /\ Fault
      /\ UNCHANGED <<signalVars, role, pcVars, rtcVars, history>>
  BY <1>0 DEF Stop, RendezvousTypeOK
<1>2. PICK i \in 0..(Len(outbox[c]) + 1) :
         outbox' = [outbox EXCEPT ![c] = SubSeq(Append(@, "bye"), 1, i)]
  BY DEF Stop
<1>3. outbox' \in [Clients -> Seq(Signals)]
  <2>1. /\ Append(outbox[c], "bye") \in Seq(Signals)
        /\ Len(Append(outbox[c], "bye")) = Len(outbox[c]) + 1
        /\ Len(outbox[c]) \in Nat
    BY <1>0, <1>1, AppendProperties DEF RendezvousTypeOK, Signals
  <2>2. \A j \in 1..i : Append(outbox[c], "bye")[j] \in Signals
    BY <2>1, ElementOfSeq
  <2>3. SubSeq(Append(outbox[c], "bye"), 1, i) \in Seq(Signals)
    BY <2>1, <2>2, SubSeqProperties
  <2> QED BY <1>0, <1>2, <2>3 DEF RendezvousTypeOK
<1>4. /\ stage' \in [Clients -> Stages]
      /\ \A d \in Clients : stage'[d] = IF d = c THEN "killed" ELSE stage[d]
  BY <1>0, <1>1 DEF RendezvousTypeOK, Goes, Stages
<1>5. /\ current' \in [Processes -> Clients \cup {Absent}]
      /\ \A q \in Processes : current'[q] = IF q = p THEN Absent ELSE current[q]
  BY <1>0, <1>1 DEF RendezvousTypeOK
<1>6. \A q \in Processes : current'[q] # Absent => current'[q] = current[q] /\ current[q] # c
  BY <1>0, <1>1, <1>5, AbsentAssumption DEF Owned
<1>7. \A q \in Processes : current'[q] # Absent => stage'[current'[q]] \notin Ended \cup {"none"}
  BY <1>0, <1>4, <1>5, <1>6 DEF RendezvousTypeOK
<1>8. Owned'
  BY <1>0, <1>1, <1>4, <1>6 DEF Owned, signalVars
<1>9. RendezvousTypeOK'
  BY <1>0, <1>1, <1>3, <1>4, <1>5, <1>7, RendezvousBounds
     DEF RendezvousTypeOK, Fault, pcVars, rtcVars, history
<1> QED BY <1>8, <1>9 DEF MeetTypeInv

LEMMA OtherStepsType ==
    ASSUME MeetTypeInv, NEW c \in Clients, RoomInv',
           \/ Gather(c) \/ PeerConnection(c) \/ LocalError(c) \/ SessionEnds(c)
           \/ Deliver(c) \/ ConnectionLost(c) \/ ConnectionDropped(c)
    PROVE  MeetTypeInv'
<1>0. RendezvousTypeOK /\ Owned /\ SignalTypeOK
  BY DEF MeetTypeInv, RoomInv
<1>1. CASE Gather(c)
  <2>1. outbox' \in [Clients -> Seq(Signals)]
    BY <1>0, <1>1, SendsType DEF Gather, Signals
  <2>2. RendezvousTypeOK'
    <3>1. gathered[c] + 1 \in 0..MaxCandidates
      BY <1>0, <1>1, RendezvousBounds DEF Gather, RendezvousTypeOK
    <3>2. gathered' \in [Clients -> 0..MaxCandidates]
      BY <1>0, <1>1, <3>1 DEF Gather, RendezvousTypeOK
    <3> QED BY <1>0, <1>1, <2>1, <3>2 DEF Gather, RendezvousTypeOK, pcVars, rtcVars
  <2>3. Owned'
    BY <1>0, <1>1 DEF Gather, Owned, signalVars
  <2> QED BY <2>2, <2>3 DEF MeetTypeInv
<1>2. CASE PeerConnection(c)
  <2>1. PICK to \in {"connected", "open", "failed"}, event \in Events : PcMoves(c, to, event)
    BY <1>2 DEF PeerConnection, PcConnects, ChannelOpens, PcFails, Events
  <2>2. faults' \in 0..MaxFaults
    BY <1>0, <1>2, RendezvousBounds
       DEF PeerConnection, PcConnects, ChannelOpens, PcFails, Fault, RendezvousTypeOK
  <2>3. notified' \in [Clients -> SUBSET Events]
    BY <1>0, <2>1 DEF PcMoves, Reports, RendezvousTypeOK
  <2>4. RendezvousTypeOK'
    BY <1>0, <2>1, <2>2, <2>3 DEF PcMoves, RendezvousTypeOK, pcVars, history
  <2>5. Owned'
    BY <1>0, <2>1 DEF PcMoves, Owned, signalVars
  <2> QED BY <2>4, <2>5 DEF MeetTypeInv
<1>3. CASE LocalError(c) \/ SessionEnds(c)
  <2>1. /\ GiveUp(c) /\ stage[c] # "none"
        /\ UNCHANGED <<signalVars, role, pcVars, rtcVars, history>>
    BY <1>3 DEF LocalError, SessionEnds, Establishing, Selecting
  <2>2. \A d \in Clients : ws'[d] = "new" => ws[d] = "new"
    BY <2>1 DEF signalVars
  <2>3. /\ stage' \in [Clients -> Stages]
        /\ current' \in [Processes -> Clients \cup {Absent}]
        /\ outbox' \in [Clients -> Seq(Signals)]
        /\ \A p \in Processes : current'[p] # Absent =>
              stage'[current'[p]] \notin Ended \cup {"none"}
        /\ Owned'
    BY <1>0, <2>1, <2>2, GiveUpType
  <2>4. faults' \in 0..MaxFaults
    BY <1>0, <1>3, RendezvousBounds DEF LocalError, SessionEnds, Fault, RendezvousTypeOK
  <2>5. RendezvousTypeOK'
    BY <1>0, <2>1, <2>3, <2>4 DEF RendezvousTypeOK, pcVars, rtcVars, history
  <2> QED BY <2>3, <2>5 DEF MeetTypeInv
<1>4. CASE Deliver(c) \/ ConnectionLost(c) \/ ConnectionDropped(c)
  <2>1. UNCHANGED <<current, stage, role, pcVars, rtcVars, history>>
    BY <1>4 DEF Deliver, ConnectionLost, ConnectionDropped, Ends
  <2>2. outbox' \in [Clients -> Seq(Signals)]
    <3>1. \/ outbox' = [outbox EXCEPT ![c] = <<>>]
          \/ outbox[c] # <<>> /\ outbox' = [outbox EXCEPT ![c] = Tail(@)]
      BY <1>4 DEF Deliver, ConnectionLost, ConnectionDropped, Ends
    <3>2. outbox[c] \in Seq(Signals)
      BY <1>0 DEF RendezvousTypeOK
    <3>3. outbox[c] # <<>> => Tail(outbox[c]) \in Seq(Signals)
      BY <3>2, HeadTailProperties
    <3>4. <<>> \in Seq(Signals)
      BY EmptySeq
    <3> QED BY <1>0, <3>1, <3>3, <3>4 DEF RendezvousTypeOK
  <2>3. faults' \in 0..MaxFaults
    BY <1>0, <1>4, RendezvousBounds
       DEF Deliver, ConnectionLost, ConnectionDropped, Fault, RendezvousTypeOK
  <2>4. RendezvousTypeOK'
    BY <1>0, <2>1, <2>2, <2>3 DEF RendezvousTypeOK, pcVars, rtcVars, history
  <2>5. [MeetNext]_meetVars
    BY <1>4 DEF MeetNext
  <2>6. \A d \in Clients : ws'[d] = "new" => ws[d] = "new"
    BY <1>0, <2>5, MeetIsSignal, NewOnce
  <2>7. Owned'
    BY <1>0, <2>1, <2>6 DEF Owned
  <2> QED BY <2>4, <2>7 DEF MeetTypeInv
<1> QED BY <1>1, <1>2, <1>3, <1>4

LEMMA MeetTypeInit == MeetInit => MeetTypeInv
<1> SUFFICES ASSUME MeetInit PROVE MeetTypeInv
  OBVIOUS
<1>1. RoomInv
  BY RoomInit DEF MeetInit
<1>2. RendezvousTypeOK
  <2>1. <<>> \in Seq(Signals) /\ <<>> \in Seq(PeerIds)
    BY EmptySeq
  <2> QED BY <2>1, RendezvousBounds DEF MeetInit, RendezvousTypeOK, Stages
<1>3. Owned
  BY DEF MeetInit, Owned
<1> QED BY <1>1, <1>2, <1>3 DEF MeetTypeInv

LEMMA MeetTypeStep == MeetTypeInv /\ [MeetNext]_meetVars => MeetTypeInv'
<1> SUFFICES ASSUME MeetTypeInv, [MeetNext]_meetVars PROVE MeetTypeInv'
  OBVIOUS
<1>1. RoomInv'
  BY MeetIsSignal, RoomNext DEF MeetTypeInv
<1>2. CASE UNCHANGED meetVars
  BY <1>1, <1>2 DEF MeetTypeInv, RendezvousTypeOK, Owned, meetVars, signalVars, clientVars,
                    pcVars, rtcVars, history
<1> QED BY <1>1, <1>2, DialType, StopType, AttemptType, OtherStepsType DEF MeetNext

LEMMA MeetTypeInvHolds == MeetSpec => []MeetTypeInv
BY MeetTypeInit, MeetTypeStep, PTL DEF MeetSpec

(* All that the clients of signaling.rs do is among what the server is     *)
(* proved to cope with: its theorems hold of every rendezvous.             *)
THEOREM MeetUsesServer == MeetSpec => SignalSpec
<1>1. MeetInit => SignalInit
  BY DEF MeetInit
<1>2. MeetTypeInv /\ [MeetNext]_meetVars => [SignalNext]_signalVars
  BY MeetIsSignal DEF MeetTypeInv
<1> QED BY <1>1, <1>2, MeetTypeInvHolds, PTL DEF MeetSpec, SignalSpec

(* Every variable of a rendezvous keeps its type, and no process stays in  *)
(* an attempt that is over.                                                *)
THEOREM MeetTypeCorrect == MeetSpec => []RendezvousTypeOK
<1>1. MeetTypeInv => RendezvousTypeOK
  BY DEF MeetTypeInv
<1> QED BY <1>1, MeetTypeInvHolds, PTL

-----------------------------------------------------------------------------
(***************************************************************************)
(* Roles.  The server hands out ids in order, so who came first can be     *)
(* told from them: an offerer is older than its partner, an answerer       *)
(* younger, and no two attempts are both of each other.                    *)
(***************************************************************************)
Decisive == {"joined", "peer-joined"}

(* What the messages on their way to a client say agrees with the order of *)
(* the ids, and tells it of its own id once.                               *)
ByAge ==
    \A c \in Clients :
        /\ view[c].me < nextPeer
        /\ \A k \in 1..Len(inbox[c]) :
              /\ inbox[c][k].type = "joined" =>
                    /\ view[c].me = 0
                    /\ inbox[c][k].peer < nextPeer
                    /\ \A i \in inbox[c][k].others : i < inbox[c][k].peer
                    /\ \A l \in 1..Len(inbox[c]) : inbox[c][l].type = "joined" => l = k
              /\ inbox[c][k].type = "peer-joined" =>
                    /\ view[c].me < inbox[c][k].peer
                    /\ \A l \in 1..Len(inbox[c]) :
                          inbox[c][l].type = "joined" => inbox[c][l].peer < inbox[c][k].peer

OneJoin(q) == \A k, l \in 1..Len(q) : q[k] = "join" /\ q[l] = "join" => k = l
HasJoin(q) == \E k \in 1..Len(q) : q[k] = "join"

(* Nothing was told to c, or is on its way, that could decide its role.    *)
Untold(c) ==
    view[c].me = 0 /\ \A k \in 1..Len(inbox[c]) : inbox[c][k].type \notin Decisive

(* A connection joins once.                                                *)
JoinsOnce ==
    \A c \in Clients :
        /\ OneJoin(outbox[c])
        /\ HasJoin(outbox[c]) => peerId[c] = 0 /\ Untold(c)
        /\ ws[c] = "new" => inbox[c] = <<>> /\ view[c].me = 0

RoleByAge ==
    \A c \in Clients :
        /\ role[c] = "none" <=> partner[c] = 0
        /\ role[c] = "offerer" => view[c].me # 0 /\ view[c].me < partner[c]
        /\ role[c] = "answerer" => partner[c] < view[c].me
        /\ stage[c] = "alone" => view[c].me # 0

MeetInv == MeetTypeInv /\ ByAge /\ JoinsOnce /\ RoleByAge

-----------------------------------------------------------------------------
(* What a step does to messages, as far as roles go: none of a decisive    *)
(* type is added,                                                          *)
Quiet ==
    /\ UNCHANGED <<view, nextPeer>>
    /\ \A c \in Clients :
          /\ \/ inbox'[c] = inbox[c]
             \/ ws[c] = "open" /\ \E m \in Message :
                                    m.type \notin Decisive /\ inbox'[c] = Append(inbox[c], m)
          /\ peerId'[c] \in {peerId[c], 0}

(* or one is read, or a join is served.                                    *)
Joins(c) == Deliver(c) /\ Head(outbox[c]) = "join" /\ OnJoin(c, Room)

LEMMA NotifyQuiet ==
    ASSUME SignalTypeOK, NEW S, NEW m \in Message, m.type \notin Decisive,
           inbox' = Notify(S, m), NEW c \in Clients
    PROVE  \/ inbox'[c] = inbox[c]
           \/ ws[c] = "open" /\ \E n \in Message :
                                  n.type \notin Decisive /\ inbox'[c] = Append(inbox[c], n)
BY DEF Notify, Told

LEMMA RefuseQuiet ==
    ASSUME SignalTypeOK, NEW c \in Clients, Refuse(c)
    PROVE  Quiet
<1>1. ErrorMessage \in Message /\ ErrorMessage.type \notin Decisive
  BY ErrorMessageType DEF ErrorMessage, Decisive
<1> QED BY <1>1 DEF Refuse, Quiet, Told, SignalTypeOK

LEMMA RelayQuiet ==
    ASSUME SignalTypeOK, NEW c \in Clients, NEW type \in RelayTypes, OnRelay(c, type)
    PROVE  Quiet
<1>1. CASE peerId[c] = 0
  BY <1>1, RefuseQuiet DEF OnRelay
<1>2. CASE peerId[c] # 0
  <2>1. UNCHANGED <<ws, peerId, nextPeer, view>>
    BY <1>2 DEF OnRelay
  <2>2. CASE UNCHANGED inbox
    BY <2>1, <2>2 DEF Quiet
  <2>3. ASSUME NEW other \in Others(peerId[c]), inbox' = Notify({other}, Note(type, peerId[c]))
        PROVE  Quiet
    <3>1. Note(type, peerId[c]) \in Message
      BY <1>2, NoteType DEF SignalTypeOK
    <3>2. Note(type, peerId[c]).type \notin Decisive
      BY RelayAssumption DEF Note, Decisive
    <3> QED BY <2>1, <2>3, <3>1, <3>2, NotifyQuiet DEF Quiet
  <2> QED BY <1>2, <2>2, <2>3 DEF OnRelay
<1> QED BY <1>1, <1>2

LEMMA LeaveQuiet ==
    ASSUME SignalTypeOK, NEW i \in PeerIds, RemovePeer(i), UNCHANGED <<nextPeer, view>>,
           \A c \in Clients : peerId'[c] \in {peerId[c], 0}
    PROVE  Quiet
<1>1. CASE UNCHANGED inbox
  BY <1>1 DEF Quiet
<1>2. ASSUME NEW S, inbox' = Notify(S, Note("peer-left", i)) PROVE Quiet
  <2>1. Note("peer-left", i) \in Message
    BY NoteType DEF NoticeTypes
  <2>2. Note("peer-left", i).type \notin Decisive
    BY DEF Note, Decisive
  <2> QED BY <1>2, <2>1, <2>2, NotifyQuiet DEF Quiet
<1> QED BY <1>1, <1>2 DEF RemovePeer

LEMMA ConnectionQuiet ==
    ASSUME SignalTypeOK, NEW c \in Clients, OnError(c) \/ OnClose(c)
    PROVE  Quiet
<1>1. UNCHANGED <<peerId, nextPeer, view>>
  BY DEF OnError, OnClose, Leave
<1>2. CASE peerId[c] = 0
  BY <1>1, <1>2 DEF OnError, OnClose, Leave, Quiet
<1>3. CASE peerId[c] # 0
  <2>1. peerId[c] \in PeerIds /\ RemovePeer(peerId[c])
    BY <1>3 DEF OnError, OnClose, Leave, SignalTypeOK
  <2> QED BY <1>1, <2>1, LeaveQuiet
<1> QED BY <1>2, <1>3

LEMMA DeliverEffect ==
    ASSUME MeetTypeInv, NEW c \in Clients, Deliver(c)
    PROVE  Quiet \/ Joins(c)
<1>0. RendezvousTypeOK /\ SignalTypeOK
  BY DEF MeetTypeInv, RoomInv
<1>1. Head(outbox[c]) \in Signals
  BY <1>0 DEF Deliver, RendezvousTypeOK
<1>2. CASE Head(outbox[c]) = "join"
  <2>1. OnJoin(c, Room) \/ OnJoinRefused(c, Room)
    BY <1>2, RoomAssumption DEF Deliver, Handles
  <2>2. CASE OnJoinRefused(c, Room)
    BY <1>0, <2>2, RefuseQuiet DEF OnJoinRefused
  <2> QED BY <1>2, <2>1, <2>2 DEF Joins
<1>3. CASE Head(outbox[c]) \in RelayTypes
  <2>1. OnRelay(c, Head(outbox[c]))
    BY <1>3, RoomAssumption DEF Deliver, Handles
  <2> QED BY <1>0, <1>3, <2>1, RelayQuiet
<1>4. CASE Head(outbox[c]) = "bye"
  <2>1. OnBye(c) \/ UNCHANGED signalVars
    BY <1>4, RoomAssumption DEF Deliver, Handles
  <2>2. CASE OnBye(c)
    <3>1. peerId[c] \in PeerIds
      BY <1>0, <2>2 DEF OnBye, SignalTypeOK
    <3>2. \A d \in Clients : peerId'[d] \in {peerId[d], 0}
      BY <1>0, <2>2 DEF OnBye, SignalTypeOK
    <3> QED BY <1>0, <2>2, <3>1, <3>2, LeaveQuiet DEF OnBye
  <2>3. CASE UNCHANGED signalVars
    BY <2>3 DEF signalVars, Quiet
  <2> QED BY <2>1, <2>2, <2>3
<1> QED BY <1>1, <1>2, <1>3, <1>4, RoomAssumption DEF Signals

LEMMA MeetEffect ==
    ASSUME MeetTypeInv, [MeetNext]_meetVars
    PROVE  Quiet \/ (\E c \in Clients : Read(c) \/ Joins(c))
<1>0. SignalTypeOK
  BY DEF MeetTypeInv, RoomInv
<1>1. UNCHANGED signalVars => Quiet
  BY DEF signalVars, Quiet
<1>2. ASSUME NEW p \in Processes, Dial(p) PROVE Quiet
  BY <1>2 DEF Dial, Connect, Quiet
<1>3. ASSUME NEW p \in Processes, Stop(p) PROVE Quiet
  BY <1>1, <1>3 DEF Stop
<1>4. ASSUME NEW c \in Clients, Attempt(c) PROVE Quiet \/ Read(c)
  BY <1>1, <1>4, AttemptIsSignal
<1>5. ASSUME NEW c \in Clients, Gather(c) \/ PeerConnection(c) \/ LocalError(c) \/ SessionEnds(c)
      PROVE  Quiet
  BY <1>1, <1>5
     DEF Gather, PeerConnection, PcConnects, ChannelOpens, PcFails, PcMoves, LocalError, SessionEnds
<1>6. ASSUME NEW c \in Clients, Deliver(c) PROVE Quiet \/ Joins(c)
  BY <1>6, DeliverEffect
<1>7. ASSUME NEW c \in Clients, ConnectionLost(c) \/ ConnectionDropped(c) PROVE Quiet
  BY <1>0, <1>7, ConnectionQuiet DEF ConnectionLost, ConnectionDropped
<1>8. CASE UNCHANGED meetVars
  BY <1>1, <1>8 DEF meetVars
<1> QED BY <1>2, <1>3, <1>4, <1>5, <1>6, <1>7, <1>8 DEF MeetNext

-----------------------------------------------------------------------------
(* ByAge, of one client.                                                   *)
AgeOf(me, q, next) ==
    /\ me < next
    /\ \A k \in 1..Len(q) :
          /\ q[k].type = "joined" =>
                /\ me = 0
                /\ q[k].peer < next
                /\ \A i \in q[k].others : i < q[k].peer
                /\ \A l \in 1..Len(q) : q[l].type = "joined" => l = k
          /\ q[k].type = "peer-joined" =>
                /\ me < q[k].peer
                /\ \A l \in 1..Len(q) : q[l].type = "joined" => q[l].peer < q[k].peer

LEMMA ByAgeOfAll == ByAge <=> \A c \in Clients : AgeOf(view[c].me, inbox[c], nextPeer)
BY DEF ByAge, AgeOf

LEMMA AppendedAge ==
    ASSUME NEW q \in Seq(Message), NEW m \in Message, NEW me \in Nat, NEW next \in Nat,
           NEW then \in Nat, AgeOf(me, q, next), next <= then,
           \/ m.type \notin Decisive
           \/ m.type = "peer-joined" /\ m.peer = next
           \/ /\ m.type = "joined" /\ me = 0 /\ m.peer < then
              /\ \A i \in m.others : i < m.peer
              /\ \A k \in 1..Len(q) : q[k].type \notin Decisive
    PROVE  AgeOf(me, Append(q, m), then)
<1> DEFINE r == Append(q, m)
<1>1. /\ Len(q) \in Nat /\ Len(r) = Len(q) + 1
      /\ \A k \in 1..Len(q) : r[k] = q[k]
      /\ r[Len(q) + 1] = m
  BY AppendProperties
<1>2. \A k \in 1..Len(q) : q[k].type # "error" => q[k].peer \in Nat
  <2>1. \A k \in 1..Len(q) : q[k] \in Message
    BY ElementOfSeq
  <2> QED BY <2>1 DEF Message, ErrorMessage, PeerIds
<1>3. \A k \in 1..Len(r) : k \in 1..Len(q) \/ k = Len(q) + 1
  BY <1>1
<1> HIDE DEF r
<1>4. me < then
  BY DEF AgeOf
<1>5. ASSUME NEW k \in 1..Len(r), r[k].type = "joined"
      PROVE  /\ me = 0
             /\ r[k].peer < then
             /\ \A i \in r[k].others : i < r[k].peer
             /\ \A l \in 1..Len(r) : r[l].type = "joined" => l = k
  <2>1. CASE k = Len(q) + 1
    <3>1. /\ m.type = "joined" /\ me = 0 /\ m.peer < then
          /\ \A i \in m.others : i < m.peer
          /\ \A l \in 1..Len(q) : q[l].type \notin Decisive
      BY <1>1, <1>5, <2>1 DEF Decisive
    <3>2. \A l \in 1..Len(r) : r[l].type = "joined" => l = k
      BY <1>1, <1>3, <2>1, <3>1 DEF Decisive
    <3> QED BY <1>1, <2>1, <3>1, <3>2
  <2>2. CASE k \in 1..Len(q)
    <3>1. r[k] = q[k] /\ q[k].type = "joined" /\ q[k].peer \in Nat
      BY <1>1, <1>2, <1>5, <2>2
    <3>2. /\ me = 0 /\ q[k].peer < next
          /\ \A i \in q[k].others : i < q[k].peer
          /\ \A l \in 1..Len(q) : q[l].type = "joined" => l = k
      BY <2>2, <3>1 DEF AgeOf
    <3>3. m.type # "joined"
      BY <2>2, <3>1 DEF Decisive
    <3>4. \A l \in 1..Len(r) : r[l].type = "joined" => l = k
      BY <1>1, <1>3, <3>2, <3>3
    <3> QED BY <3>1, <3>2, <3>4
  <2> QED BY <1>3, <2>1, <2>2
<1>6. ASSUME NEW k \in 1..Len(r), r[k].type = "peer-joined"
      PROVE  /\ me < r[k].peer
             /\ \A l \in 1..Len(r) : r[l].type = "joined" => r[l].peer < r[k].peer
  <2>1. CASE k = Len(q) + 1
    <3>1. m.type = "peer-joined" /\ m.peer = next /\ r[k] = m
      BY <1>1, <1>6, <2>1 DEF Decisive
    <3>2. me < next /\ \A l \in 1..Len(q) : q[l].type = "joined" => q[l].peer < next
      BY DEF AgeOf
    <3> QED BY <1>1, <1>3, <3>1, <3>2
  <2>2. CASE k \in 1..Len(q)
    <3>1. r[k] = q[k] /\ q[k].type = "peer-joined"
      BY <1>1, <1>6, <2>2
    <3>2. /\ me < q[k].peer
          /\ \A l \in 1..Len(q) : q[l].type = "joined" => q[l].peer < q[k].peer
      BY <2>2, <3>1 DEF AgeOf
    <3>3. m.type # "joined"
      BY <2>2, <3>1 DEF Decisive
    <3> QED BY <1>1, <1>3, <3>1, <3>2, <3>3
  <2> QED BY <1>3, <2>1, <2>2
<1> QED BY <1>4, <1>5, <1>6 DEF AgeOf, r

LEMMA ReadAge ==
    ASSUME NEW q \in Seq(Message), q # <<>>, NEW v, NEW next, AgeOf(v.me, q, next),
           v.me \in Nat, v \in [me : PeerIds \cup {0}, others : SUBSET PeerIds]
    PROVE  AgeOf(Learn(v, Head(q)).me, Tail(q), next)
<1> DEFINE m == Head(q)
           r == Tail(q)
           w == Learn(v, m)
<1>1. /\ m = q[1] /\ 1 \in 1..Len(q) /\ Len(q) \in Nat
      /\ Len(r) = Len(q) - 1
      /\ \A k \in 1..Len(r) : r[k] = q[k + 1] /\ k + 1 \in 1..Len(q)
  BY HeadTailProperties
<1> HIDE DEF m, r
<1>2. CASE m.type = "joined"
  <2>1. w.me = m.peer
    BY <1>2 DEF Learn
  <2>2. /\ m.peer < next
        /\ \A l \in 1..Len(q) : q[l].type = "joined" => l = 1
        /\ \A k \in 1..Len(q) : q[k].type = "peer-joined" => m.peer < q[k].peer
    BY <1>1, <1>2 DEF AgeOf
  <2>3. \A k \in 1..Len(r) : r[k].type # "joined"
    BY <1>1, <2>2
  <2> QED BY <1>1, <2>1, <2>2, <2>3 DEF AgeOf, r, m
<1>3. CASE m.type # "joined"
  <2>1. w.me = v.me
    BY <1>3 DEF Learn
  <2>2. \A k, l \in 1..Len(r) : l + 1 = k + 1 => l = k
    BY <1>1
  <2> QED BY <1>1, <2>1, <2>2 DEF AgeOf, r, m
<1> QED BY <1>2, <1>3

JoinedMessage == [type |-> "joined", peer |-> nextPeer, others |-> rooms[Room]]

(* Joining, c is told of older peers, and only peers that joined before    *)
(* are told of c.                                                          *)
LEMMA JoinEffect ==
    ASSUME MeetInv, NEW c \in Clients, Joins(c)
    PROVE  /\ Untold(c)
           /\ nextPeer \in PeerIds /\ nextPeer' = nextPeer + 1 /\ UNCHANGED <<ws, view>>
           /\ \A d \in Clients : peerId'[d] = IF d = c THEN nextPeer ELSE peerId[d]
           /\ JoinedMessage \in Message /\ \A i \in rooms[Room] : i < nextPeer
           /\ Note("peer-joined", nextPeer) \in Message
           /\ \/ inbox'[c] = inbox[c]
              \/ ws[c] = "open" /\ inbox'[c] = Append(inbox[c], JoinedMessage)
           /\ \A d \in Clients \ {c} :
                 \/ inbox'[d] = inbox[d]
                 \/ /\ ws[d] = "open" /\ peerId[d] # 0
                    /\ inbox'[d] = Append(inbox[d], Note("peer-joined", nextPeer))
<1>0. SignalTypeOK /\ RendezvousTypeOK /\ Registered /\ Fresh
  BY DEF MeetInv, MeetTypeInv, RoomInv
<1>1. Untold(c)
  <2>1. outbox[c] \in Seq(Signals) /\ outbox[c] # <<>>
    BY <1>0 DEF Joins, Deliver, RendezvousTypeOK
  <2>2. HasJoin(outbox[c])
    BY <2>1, HeadTailProperties DEF Joins, HasJoin
  <2> QED BY <2>2 DEF MeetInv, JoinsOnce
<1>2. nextPeer \in PeerIds /\ nextPeer' = nextPeer + 1 /\ UNCHANGED <<ws, view>>
  BY <1>0, SignalBounds DEF Joins, OnJoin, SignalTypeOK, PeerIds
<1>3. \A d \in Clients : peerId'[d] = IF d = c THEN nextPeer ELSE peerId[d]
  BY <1>0 DEF Joins, OnJoin, SignalTypeOK
<1>4. rooms[Room] \subseteq PeerIds
  BY <1>0, RoomType DEF SignalTypeOK
<1>5. \A i \in rooms[Room] : peers[i] # NoPeer
  BY <1>0, RoomType DEF Registered
<1>6. \A i \in rooms[Room] : i < nextPeer
  BY <1>0, <1>2, <1>4, <1>5 DEF Fresh, PeerIds
<1>7. JoinedMessage \in Message /\ Note("peer-joined", nextPeer) \in Message
  BY <1>2, <1>4 DEF JoinedMessage, Note, Message, NoticeTypes
<1>8. inbox' = [Notify(rooms[Room], Note("peer-joined", nextPeer)) EXCEPT
                    ![c] = Told(c, JoinedMessage)]
  BY DEF Joins, OnJoin, JoinedMessage
<1>9. inbox'[c] = Told(c, JoinedMessage)
  BY <1>8 DEF Notify
<1>10. ASSUME NEW d \in Clients \ {c}
       PROVE  \/ inbox'[d] = inbox[d]
              \/ /\ ws[d] = "open" /\ peerId[d] # 0
                 /\ inbox'[d] = Append(inbox[d], Note("peer-joined", nextPeer))
  <2>1. inbox'[d] = Notify(rooms[Room], Note("peer-joined", nextPeer))[d]
    BY <1>8 DEF Notify
  <2>2. ASSUME NEW i \in rooms[Room], peers[i].ws = d PROVE peerId[d] # 0
    BY <1>0, <1>4, <1>5, <2>2 DEF Registered, PeerIds
  <2> QED BY <2>1, <2>2 DEF Notify, Told
<1> QED BY <1>1, <1>2, <1>3, <1>6, <1>7, <1>9, <1>10 DEF Told

(* Reading, c learns no more than is in its inbox.                         *)
LEMMA ReadEffect ==
    ASSUME MeetInv, NEW c \in Clients, Read(c)
    PROVE  /\ inbox[c] \in Seq(Message) /\ inbox[c] # <<>>
           /\ UNCHANGED <<ws, peerId, nextPeer>>
           /\ \A d \in Clients \ {c} : inbox'[d] = inbox[d] /\ view'[d] = view[d]
           /\ inbox'[c] = Tail(inbox[c]) /\ view'[c] = Learn(view[c], Head(inbox[c]))
           /\ view[c].me = 0 \/ view'[c].me = view[c].me
<1>0. SignalTypeOK
  BY DEF MeetInv, MeetTypeInv, RoomInv
<1>1. inbox[c] \in Seq(Message) /\ inbox[c] # <<>>
  BY <1>0 DEF Read, SignalTypeOK
<1>2. /\ UNCHANGED <<ws, peerId, nextPeer>>
      /\ \A d \in Clients \ {c} : inbox'[d] = inbox[d] /\ view'[d] = view[d]
      /\ inbox'[c] = Tail(inbox[c]) /\ view'[c] = Learn(view[c], Head(inbox[c]))
  BY <1>0 DEF Read, SignalTypeOK
<1>3. Head(inbox[c]) = inbox[c][1] /\ 1 \in 1..Len(inbox[c])
  BY <1>1, HeadTailProperties
<1>4. CASE Head(inbox[c]).type = "joined"
  <2>1. view[c].me = 0
    BY <1>3, <1>4 DEF MeetInv, ByAge
  <2> QED BY <1>1, <1>2, <2>1
<1>5. CASE Head(inbox[c]).type # "joined"
  <2>1. view'[c].me = view[c].me
    BY <1>0, <1>2, <1>5 DEF Learn, SignalTypeOK
  <2> QED BY <1>1, <1>2, <2>1
<1> QED BY <1>4, <1>5

LEMMA ByAgeStep ==
    ASSUME MeetInv, [MeetNext]_meetVars
    PROVE  ByAge'
<1>0. /\ SignalTypeOK /\ nextPeer \in Nat
      /\ \A c \in Clients : inbox[c] \in Seq(Message) /\ view[c].me \in Nat
      /\ \A c \in Clients : AgeOf(view[c].me, inbox[c], nextPeer)
  BY ByAgeOfAll DEF MeetInv, MeetTypeInv, RoomInv, SignalTypeOK, PeerIds
<1>1. CASE Quiet
  <2>1. ASSUME NEW c \in Clients PROVE AgeOf(view'[c].me, inbox'[c], nextPeer')
    <3>1. view'[c] = view[c] /\ nextPeer' = nextPeer
      BY <1>1 DEF Quiet
    <3>2. CASE inbox'[c] = inbox[c]
      BY <1>0, <3>1, <3>2
    <3>3. ASSUME NEW m \in Message, m.type \notin Decisive, inbox'[c] = Append(inbox[c], m)
          PROVE  AgeOf(view'[c].me, inbox'[c], nextPeer')
      BY <1>0, <3>1, <3>3, AppendedAge
    <3> QED BY <1>1, <3>2, <3>3 DEF Quiet
  <2> QED BY <2>1 DEF ByAge, AgeOf
<1>2. ASSUME NEW c \in Clients, Read(c) PROVE ByAge'
  <2>1. ASSUME NEW d \in Clients PROVE AgeOf(view'[d].me, inbox'[d], nextPeer')
    <3>1. CASE d = c
      <4>1. view[c] \in [me : PeerIds \cup {0}, others : SUBSET PeerIds]
        BY <1>0 DEF SignalTypeOK
      <4>2. /\ inbox[c] \in Seq(Message) /\ inbox[c] # <<>> /\ nextPeer' = nextPeer
            /\ inbox'[c] = Tail(inbox[c]) /\ view'[c] = Learn(view[c], Head(inbox[c]))
        BY <1>2, ReadEffect
      <4>3. AgeOf(view[c].me, inbox[c], nextPeer) /\ view[c].me \in Nat
        BY <1>0
      <4>4. AgeOf(Learn(view[c], Head(inbox[c])).me, Tail(inbox[c]), nextPeer)
        BY <4>1, <4>2, <4>3, ReadAge
      <4> QED BY <3>1, <4>2, <4>4
    <3>2. CASE d # c
      BY <1>0, <1>2, <3>2, ReadEffect
    <3> QED BY <3>1, <3>2
  <2> QED BY <2>1 DEF ByAge, AgeOf
<1>3. ASSUME NEW c \in Clients, Joins(c) PROVE ByAge'
  <2>1. nextPeer' \in Nat /\ nextPeer <= nextPeer' /\ nextPeer < nextPeer' /\ UNCHANGED view
    BY <1>0, <1>3, JoinEffect
  <2>2. ASSUME NEW d \in Clients, inbox'[d] = inbox[d]
        PROVE  AgeOf(view'[d].me, inbox'[d], nextPeer')
    <3>1. \A k \in 1..Len(inbox[d]) : inbox[d][k].type = "joined" => inbox[d][k].peer \in Nat
      BY <1>0, ElementOfSeq DEF Message, ErrorMessage, PeerIds
    <3> QED BY <1>0, <2>1, <2>2, <3>1 DEF AgeOf
  <2>3. AgeOf(view'[c].me, inbox'[c], nextPeer')
    <3>1. CASE inbox'[c] = Append(inbox[c], JoinedMessage)
      <4>1. /\ JoinedMessage.type = "joined" /\ JoinedMessage.peer < nextPeer'
            /\ \A i \in JoinedMessage.others : i < JoinedMessage.peer
            /\ view[c].me = 0 /\ \A k \in 1..Len(inbox[c]) : inbox[c][k].type \notin Decisive
            /\ JoinedMessage \in Message
        BY <1>3, <2>1, JoinEffect DEF JoinedMessage, Untold
      <4> QED BY <1>0, <2>1, <3>1, <4>1, AppendedAge
    <3> QED BY <1>3, <2>2, <3>1, JoinEffect
  <2>4. ASSUME NEW d \in Clients \ {c} PROVE AgeOf(view'[d].me, inbox'[d], nextPeer')
    <3>1. CASE inbox'[d] = Append(inbox[d], Note("peer-joined", nextPeer))
      <4>1. /\ Note("peer-joined", nextPeer) \in Message
            /\ Note("peer-joined", nextPeer).type = "peer-joined"
            /\ Note("peer-joined", nextPeer).peer = nextPeer
        BY <1>3, JoinEffect DEF Note
      <4> QED BY <1>0, <2>1, <3>1, <4>1, AppendedAge
    <3> QED BY <1>3, <2>2, <3>1, JoinEffect
  <2> QED BY <2>3, <2>4 DEF ByAge, AgeOf
<1> QED BY <1>1, <1>2, <1>3, MeetEffect DEF MeetInv

-----------------------------------------------------------------------------
(* No step but a dial puts a join into an outbox.                          *)
LEMMA KeptJoins ==
    ASSUME NEW q \in Seq(Signals), NEW r \in Seq(Signals), OneJoin(q),
           \/ r = q \/ r = <<>>
           \/ q # <<>> /\ r = Tail(q)
           \/ \E signal \in Signals \ {"join"} : r = Append(q, signal)
           \/ \E i \in 0..(Len(q) + 1) : r = SubSeq(Append(q, "bye"), 1, i)
    PROVE  OneJoin(r) /\ (HasJoin(r) => HasJoin(q))
<1>0. Len(q) \in Nat
  OBVIOUS
<1>1. CASE r = q \/ r = <<>>
  BY <1>1 DEF OneJoin, HasJoin
<1>2. CASE q # <<>> /\ r = Tail(q)
  <2>1. /\ Len(r) = Len(q) - 1
        /\ \A k \in 1..Len(r) : r[k] = q[k + 1] /\ k + 1 \in 1..Len(q)
    BY <1>2, HeadTailProperties
  <2>2. \A k, l \in 1..Len(r) : k + 1 = l + 1 => k = l
    BY <1>0, <2>1
  <2> QED BY <2>1, <2>2 DEF OneJoin, HasJoin
<1>3. ASSUME NEW s \in Signals \ {"join"}, NEW t \in Seq(Signals), t = Append(q, s)
      PROVE  \A k \in 1..Len(t) : t[k] = "join" => k \in 1..Len(q) /\ q[k] = "join"
  BY <1>0, <1>3, AppendProperties
<1>4. CASE \E s \in Signals \ {"join"} : r = Append(q, s)
  BY <1>3, <1>4 DEF OneJoin, HasJoin
<1>5. ASSUME NEW i \in 0..(Len(q) + 1), r = SubSeq(Append(q, "bye"), 1, i)
      PROVE  OneJoin(r) /\ (HasJoin(r) => HasJoin(q))
  <2> DEFINE t == Append(q, "bye")
  <2>1. "bye" \in Signals \ {"join"} /\ t \in Seq(Signals) /\ Len(t) = Len(q) + 1
    BY AppendProperties DEF Signals
  <2>2. \A k \in 1..Len(t) : t[k] = "join" => k \in 1..Len(q) /\ q[k] = "join"
    BY <1>3, <2>1
  <2>3. \A k \in 1..i : t[k] \in Signals
    BY <1>0, <2>1, ElementOfSeq
  <2>4. Len(r) = i /\ \A k \in 1..i : r[k] = t[k]
    BY <1>0, <1>5, <2>1, <2>3, SubSeqProperties
  <2> HIDE DEF t
  <2>5. \A k \in 1..Len(r) : r[k] = "join" => k \in 1..Len(q) /\ q[k] = "join"
    BY <1>0, <2>1, <2>2, <2>4
  <2> QED BY <2>5 DEF OneJoin, HasJoin
<1> QED BY <1>1, <1>2, <1>4, <1>5

LEMMA SendsKeepsJoins ==
    ASSUME NEW c \in Clients, NEW signal \in Signals \ {"join"}, Sends(c, signal),
           RendezvousTypeOK, NEW d \in Clients
    PROVE  outbox'[d] = outbox[d] \/ outbox'[d] = Append(outbox[d], signal)
BY DEF Sends, RendezvousTypeOK

LEMMA GiveUpKeepsJoins ==
    ASSUME NEW c \in Clients, GiveUp(c), RendezvousTypeOK, NEW d \in Clients
    PROVE  outbox'[d] = outbox[d] \/ outbox'[d] = Append(outbox[d], "bye")
BY SendsKeepsJoins DEF GiveUp, Signals

LEMMA AttemptKeepsJoins ==
    ASSUME NEW c \in Clients, Attempt(c), RendezvousTypeOK, NEW d \in Clients
    PROVE  \/ outbox'[d] = outbox[d]
           \/ \E signal \in Signals \ {"join"} : outbox'[d] = Append(outbox[d], signal)
<1>1. CASE \/ TakeError(c) \/ RecvNone(c) \/ TakePeerLeft(c) \/ SendFails(c) \/ OnFailed(c)
  BY <1>1, GiveUpKeepsJoins
     DEF TakeError, RecvNone, TakePeerLeft, SendFails, OnFailed, Signals
<1>2. CASE SendOffer(c) \/ SendAnswer(c)
  BY <1>2, SendsKeepsJoins DEF SendOffer, SendAnswer, Signals
<1>3. CASE \/ TakeJoinedFirst(c) \/ TakeJoinedSecond(c) \/ TakePeerJoined(c)
           \/ TakeAnswer(c) \/ TakeOffer(c) \/ TakeCandidate(c) \/ IgnoreStray(c)
           \/ RoundEnds(c) \/ OnConnected(c) \/ Settles(c) \/ OnOpened(c)
  BY <1>3 DEF TakeJoinedFirst, TakeJoinedSecond, TakePeerJoined, TakeAnswer, TakeOffer,
     TakeCandidate, IgnoreStray, RoundEnds, OnConnected, Settles, OnOpened, Leaves
<1> QED BY <1>1, <1>2, <1>3 DEF Attempt

(* What a step does to outboxes.                                           *)
LEMMA OutboxEffect ==
    ASSUME MeetInv, [MeetNext]_meetVars
    PROVE  \/ \E c \in Clients :
                 /\ ws[c] = "new" /\ UNCHANGED <<inbox, view, peerId>>
                 /\ outbox' = [outbox EXCEPT ![c] = <<"join">>]
           \/ \A d \in Clients : OneJoin(outbox'[d]) /\ (HasJoin(outbox'[d]) => HasJoin(outbox[d]))
<1>0. RendezvousTypeOK /\ RendezvousTypeOK' /\ \A c \in Clients : OneJoin(outbox[c])
  BY MeetTypeStep DEF MeetInv, MeetTypeInv, JoinsOnce
<1>1. \A c \in Clients : outbox[c] \in Seq(Signals) /\ outbox'[c] \in Seq(Signals)
  BY <1>0 DEF RendezvousTypeOK
<1>2. ASSUME NEW p \in Processes, Dial(p)
      PROVE  \E c \in Clients : /\ ws[c] = "new" /\ UNCHANGED <<inbox, view, peerId>>
                                /\ outbox' = [outbox EXCEPT ![c] = <<"join">>]
  BY <1>2, UnusedType DEF Dial, Connect
<1>3. ASSUME NEW p \in Processes, Stop(p), NEW d \in Clients
      PROVE  OneJoin(outbox'[d]) /\ (HasJoin(outbox'[d]) => HasJoin(outbox[d]))
  <2>1. PICK i \in 0..(Len(outbox[current[p]]) + 1) :
           outbox' = [outbox EXCEPT ![current[p]] = SubSeq(Append(@, "bye"), 1, i)]
    BY <1>3 DEF Stop
  <2>2. CASE d = current[p]
    <3>1. outbox'[d] = SubSeq(Append(outbox[d], "bye"), 1, i)
      BY <1>0, <2>1, <2>2 DEF RendezvousTypeOK
    <3> QED BY <1>0, <1>1, <2>1, <2>2, <3>1, KeptJoins
  <2>3. CASE d # current[p]
    BY <1>0, <1>1, <2>1, <2>3, KeptJoins DEF RendezvousTypeOK
  <2> QED BY <2>2, <2>3
<1>4. ASSUME NEW c \in Clients, Attempt(c), NEW d \in Clients
      PROVE  OneJoin(outbox'[d]) /\ (HasJoin(outbox'[d]) => HasJoin(outbox[d]))
  BY <1>0, <1>1, <1>4, AttemptKeepsJoins, KeptJoins
<1>5. ASSUME NEW c \in Clients, Gather(c) \/ LocalError(c) \/ SessionEnds(c), NEW d \in Clients
      PROVE  OneJoin(outbox'[d]) /\ (HasJoin(outbox'[d]) => HasJoin(outbox[d]))
  <2>1. \/ outbox'[d] = outbox[d]
        \/ \E signal \in Signals \ {"join"} : outbox'[d] = Append(outbox[d], signal)
    BY <1>0, <1>5, SendsKeepsJoins, GiveUpKeepsJoins DEF Gather, LocalError, SessionEnds, Signals
  <2> QED BY <1>0, <1>1, <2>1, KeptJoins
<1>6. ASSUME NEW c \in Clients, PeerConnection(c), NEW d \in Clients
      PROVE  OneJoin(outbox'[d]) /\ (HasJoin(outbox'[d]) => HasJoin(outbox[d]))
  BY <1>0, <1>6 DEF PeerConnection, PcConnects, ChannelOpens, PcFails, PcMoves
<1>7. ASSUME NEW c \in Clients, NEW d \in Clients,
             Deliver(c) \/ ConnectionLost(c) \/ ConnectionDropped(c)
      PROVE  OneJoin(outbox'[d]) /\ (HasJoin(outbox'[d]) => HasJoin(outbox[d]))
  <2>1. \/ outbox'[d] = outbox[d] \/ outbox'[d] = <<>>
        \/ outbox[d] # <<>> /\ outbox'[d] = Tail(outbox[d])
    <3>1. \/ outbox' = [outbox EXCEPT ![c] = <<>>]
          \/ outbox[c] # <<>> /\ outbox' = [outbox EXCEPT ![c] = Tail(@)]
      BY <1>7 DEF Deliver, ConnectionLost, ConnectionDropped, Ends
    <3>2. outbox \in [Clients -> Seq(Signals)]
      BY <1>0 DEF RendezvousTypeOK
    <3>3. outbox'[d] = outbox[d] \/ d = c
      BY <3>1, <3>2
    <3>4. CASE d = c
      BY <3>1, <3>2, <3>4
    <3> QED BY <3>3, <3>4
  <2> QED BY <1>0, <1>1, <2>1, KeptJoins
<1>8. CASE UNCHANGED meetVars
  BY <1>0, <1>8 DEF meetVars, clientVars
<1> QED BY <1>2, <1>3, <1>4, <1>5, <1>6, <1>7, <1>8 DEF MeetNext

(* While nothing decisive is added to its inbox, c stays untold.           *)
LEMMA UntoldKept ==
    ASSUME MeetInv, NEW c \in Clients, Untold(c),
           \/ Quiet
           \/ \E d \in Clients : Read(d)
           \/ \E d \in Clients \ {c} : Joins(d) /\ peerId[c] = 0
    PROVE  Untold(c)'
<1>0. inbox[c] \in Seq(Message) /\ Len(inbox[c]) \in Nat
  BY DEF MeetInv, MeetTypeInv, RoomInv, SignalTypeOK
<1>1. CASE UNCHANGED view /\ inbox'[c] = inbox[c]
  BY <1>1 DEF Untold
<1>2. ASSUME UNCHANGED view, NEW m \in Message, m.type \notin Decisive,
             inbox'[c] = Append(inbox[c], m)
      PROVE  Untold(c)'
  <2>1. /\ Len(inbox'[c]) = Len(inbox[c]) + 1
        /\ \A k \in 1..Len(inbox[c]) : inbox'[c][k] = inbox[c][k]
        /\ inbox'[c][Len(inbox[c]) + 1] = m
    BY <1>0, <1>2, AppendProperties
  <2>2. \A k \in 1..Len(inbox'[c]) : k \in 1..Len(inbox[c]) \/ k = Len(inbox[c]) + 1
    BY <1>0, <2>1
  <2> QED BY <1>2, <2>1, <2>2 DEF Untold
<1>3. CASE Quiet
  BY <1>1, <1>2, <1>3 DEF Quiet
<1>4. ASSUME NEW d \in Clients, Read(d) PROVE Untold(c)'
  <2>1. CASE d # c
    BY <1>4, <2>1, ReadEffect DEF Untold
  <2>2. CASE d = c
    <3>1. /\ inbox[c] # <<>> /\ inbox'[c] = Tail(inbox[c])
          /\ view'[c] = Learn(view[c], Head(inbox[c]))
      BY <1>4, <2>2, ReadEffect
    <3>2. /\ Head(inbox[c]) = inbox[c][1] /\ 1 \in 1..Len(inbox[c])
          /\ Len(Tail(inbox[c])) = Len(inbox[c]) - 1
          /\ \A k \in 1..Len(Tail(inbox[c])) :
                Tail(inbox[c])[k] = inbox[c][k + 1] /\ k + 1 \in 1..Len(inbox[c])
      BY <1>0, <3>1, HeadTailProperties
    <3>3. Head(inbox[c]).type \notin Decisive
      BY <3>2 DEF Untold
    <3>4. view'[c].me = view[c].me
      BY <3>1, <3>3 DEF Learn, Decisive, MeetInv, MeetTypeInv, RoomInv, SignalTypeOK
    <3> QED BY <3>1, <3>2, <3>4 DEF Untold
  <2> QED BY <2>1, <2>2
<1>5. ASSUME NEW d \in Clients \ {c}, Joins(d), peerId[c] = 0 PROVE Untold(c)'
  BY <1>1, <1>5, JoinEffect
<1> QED BY <1>3, <1>4, <1>5

LEMMA JoinsOnceStep ==
    ASSUME MeetInv, [MeetNext]_meetVars
    PROVE  JoinsOnce'
<1>0. RendezvousTypeOK /\ SignalTypeOK /\ Fresh /\ JoinsOnce
  BY DEF MeetInv, MeetTypeInv, RoomInv
<1>1. \A c \in Clients : ws'[c] = "new" => ws[c] = "new"
  BY <1>0, MeetIsSignal, NewOnce
<1>2. ASSUME NEW c \in Clients, ws'[c] = "new" PROVE inbox'[c] = <<>> /\ view'[c].me = 0
  <2>1. ws[c] = "new" /\ inbox[c] = <<>> /\ view[c].me = 0
    BY <1>0, <1>1, <1>2 DEF JoinsOnce
  <2>2. CASE Quiet
    BY <2>1, <2>2 DEF Quiet
  <2>3. ASSUME NEW d \in Clients, Read(d) PROVE inbox'[c] = <<>> /\ view'[c].me = 0
    BY <2>1, <2>3, ReadEffect
  <2>4. ASSUME NEW d \in Clients, Joins(d) PROVE inbox'[c] = <<>> /\ view'[c].me = 0
    BY <2>1, <2>4, JoinEffect
  <2> QED BY <2>2, <2>3, <2>4, MeetEffect DEF MeetInv
<1>3. CASE \E c \in Clients : /\ ws[c] = "new" /\ UNCHANGED <<inbox, view, peerId>>
                             /\ outbox' = [outbox EXCEPT ![c] = <<"join">>]
  <2>1. PICK c \in Clients : /\ ws[c] = "new" /\ UNCHANGED <<inbox, view, peerId>>
                            /\ outbox' = [outbox EXCEPT ![c] = <<"join">>]
    BY <1>3
  <2>2. outbox'[c] = <<"join">> /\ \A d \in Clients \ {c} : outbox'[d] = outbox[d]
    BY <1>0, <2>1 DEF RendezvousTypeOK
  <2>3. OneJoin(outbox'[c])
    BY <2>2 DEF OneJoin
  <2>4. peerId'[c] = 0 /\ Untold(c)'
    BY <1>0, <2>1 DEF Fresh, JoinsOnce, Untold
  <2>5. ASSUME NEW d \in Clients \ {c}
        PROVE  OneJoin(outbox'[d]) /\ (HasJoin(outbox'[d]) => peerId'[d] = 0 /\ Untold(d)')
    BY <1>0, <2>1, <2>2 DEF JoinsOnce, Untold
  <2> QED BY <1>2, <2>3, <2>4, <2>5 DEF JoinsOnce, OneJoin, HasJoin, Untold
<1>4. CASE \A d \in Clients : OneJoin(outbox'[d]) /\ (HasJoin(outbox'[d]) => HasJoin(outbox[d]))
  <2>1. ASSUME NEW c \in Clients, HasJoin(outbox'[c]) PROVE peerId'[c] = 0 /\ Untold(c)'
    <3>1. HasJoin(outbox[c]) /\ peerId[c] = 0 /\ Untold(c)
      BY <1>0, <1>4, <2>1 DEF JoinsOnce
    <3>2. CASE Quiet
      BY <3>1, <3>2, UntoldKept DEF Quiet
    <3>3. ASSUME NEW d \in Clients, Read(d) PROVE peerId'[c] = 0 /\ Untold(c)'
      BY <3>1, <3>3, UntoldKept, ReadEffect
    <3>4. ASSUME NEW d \in Clients, Joins(d) PROVE peerId'[c] = 0 /\ Untold(c)'
      <4>1. CASE d = c
        <5>1. outbox[c] \in Seq(Signals) /\ outbox[c] # <<>> /\ Head(outbox[c]) = "join"
          BY <1>0, <3>4, <4>1 DEF Joins, Deliver, RendezvousTypeOK
        <5>2. outbox'[c] = Tail(outbox[c])
          BY <1>0, <3>4, <4>1 DEF Joins, Deliver, RendezvousTypeOK
        <5>3. ~HasJoin(Tail(outbox[c]))
          <6>1. /\ outbox[c][1] = "join" /\ 1 \in 1..Len(outbox[c])
                /\ \A k \in 1..Len(Tail(outbox[c])) :
                      /\ Tail(outbox[c])[k] = outbox[c][k + 1]
                      /\ k + 1 \in 1..Len(outbox[c]) /\ k + 1 # 1
            BY <5>1, HeadTailProperties
          <6>2. OneJoin(outbox[c])
            BY <1>0 DEF JoinsOnce
          <6> QED BY <6>1, <6>2 DEF OneJoin, HasJoin
        <5> QED BY <2>1, <5>2, <5>3
      <4>2. CASE d # c
        BY <3>1, <3>4, <4>2, UntoldKept, JoinEffect
      <4> QED BY <4>1, <4>2
    <3> QED BY <3>2, <3>3, <3>4, MeetEffect DEF MeetInv
  <2> QED BY <1>2, <1>4, <2>1 DEF JoinsOnce, OneJoin, HasJoin, Untold
<1> QED BY <1>3, <1>4, OutboxEffect

-----------------------------------------------------------------------------
(* A step that chooses no role and begins no wait.                         *)
KeepsRoles ==
    /\ UNCHANGED <<role, partner>>
    /\ \A c \in Clients : stage'[c] = "alone" => stage[c] = "alone"

LEMMA GoesKeepsRoles ==
    ASSUME RendezvousTypeOK, NEW c \in Clients, NEW to \in Stages \ {"alone"}, Goes(c, to),
           UNCHANGED <<role, partner>>
    PROVE  KeepsRoles
BY DEF Goes, KeepsRoles, RendezvousTypeOK

LEMMA AttemptKeepsRoles ==
    ASSUME RendezvousTypeOK, NEW c \in Clients, Attempt(c)
    PROVE  \/ KeepsRoles
           \/ TakeJoinedFirst(c) \/ TakeJoinedSecond(c) \/ TakePeerJoined(c)
<1>0. {"over", "handle", "answering", "select", "session", "settle"} \subseteq Stages \ {"alone"}
  BY DEF Stages, Establishing, Selecting
<1>1. CASE \/ TakeError(c) \/ RecvNone(c) \/ TakePeerLeft(c) \/ SendFails(c) \/ OnFailed(c)
  <2>1. Goes(c, "over") /\ UNCHANGED <<role, partner>>
    BY <1>1 DEF TakeError, RecvNone, TakePeerLeft, SendFails, OnFailed, GiveUp, history
  <2> QED BY <1>0, <2>1, GoesKeepsRoles
<1>2. CASE \/ SendOffer(c) \/ SendAnswer(c) \/ TakeAnswer(c) \/ TakeOffer(c)
           \/ TakeCandidate(c) \/ IgnoreStray(c)
  <2>1. UNCHANGED <<role, partner>> /\ \E to \in {"handle", "answering", "select"} : Goes(c, to)
    BY <1>2 DEF SendOffer, SendAnswer, TakeAnswer, TakeOffer, TakeCandidate, IgnoreStray, history
  <2> QED BY <1>0, <2>1, GoesKeepsRoles
<1>3. CASE RoundEnds(c) \/ OnConnected(c) \/ Settles(c) \/ OnOpened(c)
  <2>1. UNCHANGED <<role, partner>> /\ \E to \in {"session", "select", "settle"} : Goes(c, to)
    BY <1>3 DEF RoundEnds, OnConnected, Settles, OnOpened, Leaves, IfOpen, history
  <2> QED BY <1>0, <2>1, GoesKeepsRoles
<1> QED BY <1>1, <1>2, <1>3 DEF Attempt

LEMMA MeetKeepsRoles ==
    ASSUME RendezvousTypeOK, [MeetNext]_meetVars
    PROVE  \/ KeepsRoles
           \/ \E c \in Clients : TakeJoinedFirst(c) \/ TakeJoinedSecond(c) \/ TakePeerJoined(c)
<1>0. {"over", "joining", "killed"} \subseteq Stages \ {"alone"}
  BY DEF Stages, Establishing
<1>1. ASSUME NEW p \in Processes, Dial(p) PROVE KeepsRoles
  BY <1>0, <1>1, UnusedType, GoesKeepsRoles DEF Dial, history
<1>2. ASSUME NEW p \in Processes, Stop(p) PROVE KeepsRoles
  <2>1. current[p] \in Clients
    BY <1>2 DEF Stop, RendezvousTypeOK
  <2> QED BY <1>0, <1>2, <2>1, GoesKeepsRoles DEF Stop, history
<1>3. ASSUME NEW c \in Clients, LocalError(c) \/ SessionEnds(c) PROVE KeepsRoles
  BY <1>0, <1>3, GoesKeepsRoles DEF LocalError, SessionEnds, GiveUp, history
<1>4. ASSUME NEW c \in Clients, Gather(c) \/ PeerConnection(c) PROVE KeepsRoles
  BY <1>4 DEF Gather, PeerConnection, PcConnects, ChannelOpens, PcFails, PcMoves, KeepsRoles, history
<1>5. ASSUME NEW c \in Clients, Deliver(c) \/ ConnectionLost(c) \/ ConnectionDropped(c)
      PROVE  KeepsRoles
  BY <1>5 DEF Deliver, ConnectionLost, ConnectionDropped, Ends, KeepsRoles, history
<1>6. CASE UNCHANGED meetVars
  BY <1>6 DEF meetVars, clientVars, history, KeepsRoles
<1> QED BY <1>1, <1>2, <1>3, <1>4, <1>5, <1>6, AttemptKeepsRoles DEF MeetNext

(* The id of a client that has one does not change.                        *)
LEMMA MeKept ==
    ASSUME MeetInv, [MeetNext]_meetVars, NEW c \in Clients, view[c].me # 0
    PROVE  view'[c].me = view[c].me
<1>1. CASE Quiet
  BY <1>1 DEF Quiet
<1>2. ASSUME NEW d \in Clients, Read(d) PROVE view'[c].me = view[c].me
  BY <1>2, ReadEffect
<1>3. ASSUME NEW d \in Clients, Joins(d) PROVE view'[c].me = view[c].me
  BY <1>3, JoinEffect
<1> QED BY <1>1, <1>2, <1>3, MeetEffect DEF MeetInv

LEMMA RoleByAgeStep ==
    ASSUME MeetInv, [MeetNext]_meetVars
    PROVE  RoleByAge'
<1>0. /\ RendezvousTypeOK /\ RoleByAge /\ SignalTypeOK
      /\ \A c \in Clients : partner[c] \in Nat /\ view[c].me \in Nat
  BY SMTT(30) DEF MeetInv, MeetTypeInv, RoomInv, SignalTypeOK, RendezvousTypeOK, PeerIds
<1>1. \A c \in Clients : role[c] # "none" \/ stage[c] = "alone" => view'[c].me = view[c].me
  <2>1. ASSUME NEW c \in Clients, role[c] # "none" \/ stage[c] = "alone" PROVE view[c].me # 0
    BY <1>0, <2>1 DEF RoleByAge, RendezvousTypeOK
  <2> QED BY <2>1, MeKept
<1>2. CASE KeepsRoles
  <2>1. ASSUME NEW c \in Clients
        PROVE  /\ role'[c] = "none" <=> partner'[c] = 0
               /\ role'[c] = "offerer" => view'[c].me # 0 /\ view'[c].me < partner'[c]
               /\ role'[c] = "answerer" => partner'[c] < view'[c].me
               /\ stage'[c] = "alone" => view'[c].me # 0
    BY <1>0, <1>1, <1>2 DEF KeepsRoles, RoleByAge
  <2> QED BY <2>1 DEF RoleByAge
<1>3. ASSUME NEW c \in Clients, TakeJoinedFirst(c) \/ TakeJoinedSecond(c) \/ TakePeerJoined(c)
      PROVE  RoleByAge'
  <2> DEFINE m == Head(inbox[c])
  <2>1. /\ Read(c) /\ inbox[c] # <<>> /\ inbox[c] \in Seq(Message)
        /\ view'[c] = Learn(view[c], m)
    BY <1>3, ReadEffect DEF TakeJoinedFirst, TakeJoinedSecond, TakePeerJoined, Takes
  <2>2. m = inbox[c][1] /\ 1 \in 1..Len(inbox[c])
    BY <2>1, HeadTailProperties
  <2>3. m.type # "error" => m.peer \in PeerIds /\ m.others \subseteq PeerIds
    BY <1>0, <2>1, SenderType DEF Sender
  <2>4. \A d \in Clients \ {c} :
           role'[d] = role[d] /\ partner'[d] = partner[d] /\ stage'[d] = stage[d]
    BY <1>0, <1>3
       DEF TakeJoinedFirst, TakeJoinedSecond, TakePeerJoined, Goes, history, RendezvousTypeOK
  <2>5. ASSUME NEW d \in Clients \ {c}
        PROVE  /\ role'[d] = "none" <=> partner'[d] = 0
               /\ role'[d] = "offerer" => view'[d].me # 0 /\ view'[d].me < partner'[d]
               /\ role'[d] = "answerer" => partner'[d] < view'[d].me
               /\ stage'[d] = "alone" => view'[d].me # 0
    BY <1>0, <1>1, <2>4 DEF RoleByAge
  <2>6. CASE TakeJoinedFirst(c)
    <3>1. m.type = "joined" /\ view'[c].me = m.peer /\ m.peer \in PeerIds
      BY <2>1, <2>3, <2>6 DEF TakeJoinedFirst, Takes, Learn
    <3>2. role' = role /\ partner' = partner
      BY <2>6 DEF TakeJoinedFirst, history
    <3>3. view'[c].me # 0
      BY <3>1 DEF PeerIds
    <3>4. /\ role'[c] = "none" <=> partner'[c] = 0
          /\ role'[c] = "offerer" => view'[c].me # 0 /\ view'[c].me < partner'[c]
          /\ role'[c] = "answerer" => partner'[c] < view'[c].me
          /\ stage'[c] = "alone" => view'[c].me # 0
      BY <1>0, <1>1, <3>2, <3>3 DEF RoleByAge, RendezvousTypeOK
    <3> QED BY <2>5, <3>4 DEF RoleByAge
  <2>7. CASE TakeJoinedSecond(c)
    <3>1. m.type = "joined" /\ view'[c].me = m.peer /\ m.peer \in PeerIds
      BY <2>1, <2>3, <2>7 DEF TakeJoinedSecond, Takes, Learn
    <3>2. PICK i \in m.others : partner' = [partner EXCEPT ![c] = i]
      BY <2>7 DEF TakeJoinedSecond
    <3>3. i \in PeerIds /\ i < m.peer
      BY <2>2, <2>3, <3>1, <3>2 DEF MeetInv, ByAge
    <3>4. partner'[c] = i /\ role'[c] = "answerer" /\ stage'[c] = "select"
      BY <1>0, <2>7, <3>2 DEF TakeJoinedSecond, Goes, RendezvousTypeOK
    <3> QED BY <2>5, <3>1, <3>3, <3>4 DEF RoleByAge, PeerIds
  <2>8. CASE TakePeerJoined(c)
    <3>1. m.type = "peer-joined" /\ stage[c] = "alone"
      BY <2>8 DEF TakePeerJoined, Takes
    <3>2. m.peer \in PeerIds /\ view[c].me < m.peer /\ view[c].me # 0 /\ view'[c].me = view[c].me
      BY <1>0, <1>1, <2>2, <2>3, <3>1 DEF MeetInv, ByAge, RoleByAge
    <3>3. partner'[c] = m.peer /\ role'[c] = "offerer" /\ stage'[c] = "prepare"
      BY <1>0, <2>8 DEF TakePeerJoined, Goes, Sender, RendezvousTypeOK
    <3> QED BY <2>5, <3>2, <3>3 DEF RoleByAge, PeerIds
  <2> QED BY <1>3, <2>6, <2>7, <2>8
<1> QED BY <1>0, <1>2, <1>3, MeetKeepsRoles

LEMMA MeetInvInit == MeetInit => MeetInv
<1> SUFFICES ASSUME MeetInit PROVE MeetInv
  OBVIOUS
<1>1. ByAge /\ JoinsOnce
  BY DEF MeetInit, SignalInit, ByAge, JoinsOnce, OneJoin, HasJoin
<1>2. RoleByAge
  BY DEF MeetInit, RoleByAge
<1> QED BY <1>1, <1>2, MeetTypeInit DEF MeetInv

LEMMA MeetInvHolds == MeetSpec => []MeetInv
<1>1. MeetInv /\ [MeetNext]_meetVars => MeetInv'
  BY MeetTypeStep, ByAgeStep, JoinsOnceStep, RoleByAgeStep DEF MeetInv
<1> QED BY <1>1, MeetInvInit, PTL DEF MeetSpec

LEMMA MeetRolesMatch == MeetInv => RolesMatch
<1> SUFFICES ASSUME MeetInv, NEW c \in Clients, NEW d \in Clients, Mutual(c, d)
             PROVE  {role[c], role[d]} = {"offerer", "answerer"}
  BY DEF RolesMatch
<1>1. /\ partner[c] # 0 /\ partner[c] = view[d].me
      /\ partner[d] # 0 /\ partner[d] = view[c].me
  BY DEF Mutual
<1>2. view[c].me \in Nat /\ view[d].me \in Nat
  BY DEF MeetInv, MeetTypeInv, RoomInv, SignalTypeOK, PeerIds
<1>3. role[c] \in {"offerer", "answerer"} /\ role[d] \in {"offerer", "answerer"}
  BY <1>1 DEF MeetInv, MeetTypeInv, RendezvousTypeOK, RoleByAge
<1>4. role[c] # role[d]
  BY <1>1, <1>2, <1>3 DEF MeetInv, RoleByAge
<1> QED BY <1>3, <1>4

(* Whoever joins and leaves, in any order, two attempts that take each     *)
(* other for their peer are an offerer and an answerer (rtc.rs:478-503):   *)
(* the older one offers, and no two are each older than the other.         *)
THEOREM RolesAlwaysMatch == MeetSpec => []RolesMatch
BY MeetRolesMatch, MeetInvHolds, PTL

-----------------------------------------------------------------------------
(***************************************************************************)
(* What a step does to one attempt.                                        *)
(***************************************************************************)
KeepsLine(c) ==
    ws'[c] = ws[c] /\ peerId'[c] = peerId[c] /\ inbox'[c] = inbox[c] /\ view'[c] = view[c]

ReadsLine(c) ==
    /\ ws'[c] = ws[c] /\ peerId'[c] = peerId[c]
    /\ inbox[c] \in Seq(Message) /\ inbox[c] # <<>> /\ inbox'[c] = Tail(inbox[c])
    /\ view'[c] = Learn(view[c], Head(inbox[c]))

KeepsRole(c) == role'[c] = role[c] /\ partner'[c] = partner[c]
KeepsPc(c) == remote'[c] = remote[c] /\ buffered'[c] = buffered[c] /\ applied'[c] = applied[c]
KeepsRtc(c) == rtc'[c] = rtc[c] /\ notified'[c] = notified[c]

(* The messages that reach d, and what they come from.                     *)
Arrives(d, m) ==
    /\ ws[d] = "open"
    /\ \/ m = ErrorMessage /\ Deliver(d) /\ (peerId[d] = 0 \/ Head(outbox[d]) = "join")
       \/ m = JoinedMessage /\ Joins(d)
       \/ m = Note("peer-joined", nextPeer) /\ peerId[d] # 0 /\ \E c \in Clients \ {d} : Joins(c)
       \/ \E c \in Clients \ {d} :
             /\ peerId[c] # 0 /\ peerId[d] # 0
             /\ \/ m = Note("peer-left", peerId[c])
                \/ /\ Deliver(c) /\ Head(outbox[c]) \in RelayTypes
                   /\ m = Note(Head(outbox[c]), peerId[c])

Receiving(c) ==
    \/ inbox'[c] = inbox[c]
    \/ \E m \in Message : Arrives(c, m) /\ inbox'[c] = Append(inbox[c], m)

(* The task of the attempt does nothing; its connection may.               *)
Idle(c) ==
    /\ stage'[c] = stage[c] /\ gathered'[c] = gathered[c]
    /\ KeepsRole(c) /\ KeepsPc(c) /\ KeepsRtc(c)
    /\ \/ outbox'[c] = outbox[c]
       \/ outbox[c] # <<>> /\ outbox'[c] = Tail(outbox[c]) /\ Deliver(c)
       \/ outbox'[c] = <<>> /\ ws'[c] \in {"failed", "closed"}
    /\ view'[c] = view[c] /\ Receiving(c)
    /\ ws'[c] = ws[c] \/ (ws[c] # "new" /\ ws'[c] \in {"failed", "closed"})
    /\ \/ peerId'[c] = peerId[c]
       \/ peerId'[c] = nextPeer /\ Joins(c)
       \/ peerId'[c] = 0 /\ Deliver(c) /\ Head(outbox[c]) = "bye"

Dials(c) ==
    /\ ws[c] = "new" /\ ws'[c] = "open"
    /\ peerId'[c] = peerId[c] /\ inbox'[c] = inbox[c] /\ view'[c] = view[c]
    /\ stage[c] = "none" /\ stage'[c] = "joining" /\ outbox'[c] = <<"join">>
    /\ gathered'[c] = gathered[c] /\ KeepsRole(c) /\ KeepsPc(c) /\ KeepsRtc(c)

Stops(c) ==
    /\ KeepsLine(c) \/ ReadsLine(c)
    /\ stage'[c] \in Ended
    /\ gathered'[c] = gathered[c] /\ KeepsRole(c) /\ KeepsPc(c) /\ rtc'[c] = rtc[c]
    /\ notified'[c] \subseteq notified[c]
    /\ \/ outbox'[c] = outbox[c]
       \/ \E i \in 0..(Len(outbox[c]) + 1) : outbox'[c] = SubSeq(Append(outbox[c], "bye"), 1, i)

LearnsRole(c) ==
    /\ ReadsLine(c)
    /\ outbox'[c] = outbox[c] /\ gathered'[c] = gathered[c] /\ KeepsPc(c) /\ KeepsRtc(c)
    /\ \/ /\ stage[c] = "joining" /\ Head(inbox[c]).type = "joined"
          /\ \/ /\ Head(inbox[c]).others = {} /\ stage'[c] = "alone" /\ KeepsRole(c)
             \/ /\ stage'[c] = "select" /\ role'[c] = "answerer"
                /\ partner'[c] \in Head(inbox[c]).others
       \/ /\ stage[c] = "alone" /\ Head(inbox[c]).type = "peer-joined"
          /\ stage'[c] = "prepare" /\ role'[c] = "offerer" /\ partner'[c] = Sender(c)

TakesSignal(c) ==
    /\ ReadsLine(c) /\ stage[c] = "select"
    /\ outbox'[c] = outbox[c] /\ gathered'[c] = gathered[c] /\ KeepsRole(c)
    /\ rtc'[c] = rtc[c] /\ notified'[c] = {}
    /\ \/ /\ \/ role[c] = "offerer" /\ Head(inbox[c]).type = "answer" /\ stage'[c] = "handle"
             \/ role[c] = "answerer" /\ Head(inbox[c]).type = "offer" /\ stage'[c] = "answering"
          /\ remote'[c] = Sender(c) /\ buffered'[c] = <<>>
          /\ applied'[c] = applied[c] \o buffered[c]
       \/ /\ Head(inbox[c]).type = "candidate" /\ stage'[c] = "handle"
          /\ remote'[c] = remote[c]
          /\ \/ /\ remote[c] # 0 /\ buffered'[c] = buffered[c]
                /\ applied'[c] = Append(applied[c], Sender(c))
             \/ /\ remote[c] = 0 /\ applied'[c] = applied[c]
                /\ buffered'[c] = Append(buffered[c], Sender(c))
       \/ Head(inbox[c]).type \notin Expected(c) /\ stage'[c] = "handle" /\ KeepsPc(c)

Puts(c, signal) ==
    outbox'[c] = IF ws[c] \in {"open", "closing"} THEN Append(outbox[c], signal) ELSE outbox[c]

SendsSignal(c) ==
    /\ KeepsLine(c) /\ KeepsRole(c) /\ KeepsPc(c) /\ KeepsRtc(c)
    /\ \/ /\ Puts(c, "offer") /\ gathered'[c] = gathered[c]
          /\ stage[c] = "prepare" /\ stage'[c] = "select"
       \/ /\ Puts(c, "answer") /\ gathered'[c] = gathered[c]
          /\ stage[c] = "answering" /\ stage'[c] = "handle"
       \/ /\ Puts(c, "candidate") /\ gathered'[c] = gathered[c] + 1
          /\ stage'[c] = stage[c] /\ (role[c] = "offerer" \/ remote[c] # 0)

Proceeds(c) ==
    /\ KeepsLine(c) /\ KeepsRole(c) /\ KeepsPc(c) /\ rtc'[c] = rtc[c] /\ notified'[c] = {}
    /\ outbox'[c] = outbox[c] /\ gathered'[c] = gathered[c]
    /\ stage[c] \in {"handle", "select", "settle"}
    /\ stage'[c] \in {"select", "settle", "session"}
    /\ stage'[c] = "session" => rtc[c] = "open" \/ "opened" \in notified[c]

PcChanges(c) ==
    /\ KeepsLine(c) /\ KeepsRole(c) /\ KeepsPc(c)
    /\ stage'[c] = stage[c] /\ outbox'[c] = outbox[c] /\ gathered'[c] = gathered[c]
    /\ rtc'[c] \in {"connected", "open"} \/ "opened" \in notified'[c] =>
          "opened" \in notified[c] \/ \E d \in Clients : Linked(c, d)

StepOf(c) ==
    \/ Idle(c) \/ Dials(c) \/ Stops(c) \/ LearnsRole(c) \/ TakesSignal(c) \/ SendsSignal(c)
    \/ Proceeds(c) \/ PcChanges(c)

-----------------------------------------------------------------------------
LEMMA QuietIdle ==
    ASSUME NEW c \in Clients, KeepsLine(c), stage'[c] = stage[c], gathered'[c] = gathered[c],
           outbox'[c] = outbox[c], KeepsRole(c), KeepsPc(c), KeepsRtc(c)
    PROVE  Idle(c)
BY DEF Idle, KeepsLine, Receiving

LEMMA ReadLines ==
    ASSUME MeetInv, NEW c \in Clients, Read(c)
    PROVE  ReadsLine(c) /\ \A d \in Clients \ {c} : KeepsLine(d)
BY ReadEffect DEF ReadsLine, KeepsLine

LEMMA QuietLines ==
    ASSUME UNCHANGED signalVars, NEW c \in Clients
    PROVE  KeepsLine(c)
BY DEF signalVars, KeepsLine

LEMMA EndingStep ==
    ASSUME MeetInv, NEW c \in Clients,
           \/ TakeError(c) \/ RecvNone(c) \/ TakePeerLeft(c) \/ SendFails(c) \/ OnFailed(c)
           \/ LocalError(c) \/ SessionEnds(c)
    PROVE  Stops(c) /\ \A d \in Clients \ {c} : Idle(d)
<1>0. RendezvousTypeOK
  BY DEF MeetInv, MeetTypeInv
<1>1. /\ Goes(c, "over") /\ Sends(c, "bye")
      /\ UNCHANGED <<role, pcVars, rtc, history>>
      /\ UNCHANGED notified \/ NotifiedForgotten(c)
      /\ Read(c) \/ UNCHANGED signalVars
  BY DEF TakeError, RecvNone, TakePeerLeft, SendFails, OnFailed, LocalError, SessionEnds,
         GiveUp, Takes, rtcVars
<1>2. \A d \in Clients : gathered'[d] = gathered[d] /\ KeepsRole(d) /\ KeepsPc(d) /\ rtc'[d] = rtc[d]
  BY <1>1 DEF KeepsRole, KeepsPc, pcVars, history
<1>3. stage'[c] = "over" /\ \A d \in Clients \ {c} : stage'[d] = stage[d]
  BY <1>0, <1>1 DEF Goes, RendezvousTypeOK
<1>4. notified'[c] \subseteq notified[c] /\ \A d \in Clients \ {c} : notified'[d] = notified[d]
  BY <1>0, <1>1 DEF NotifiedForgotten, RendezvousTypeOK
<1>5. \A d \in Clients \ {c} : outbox'[d] = outbox[d]
  BY <1>0, <1>1 DEF Sends, RendezvousTypeOK
<1>6. \/ outbox'[c] = outbox[c]
      \/ \E i \in 0..(Len(outbox[c]) + 1) : outbox'[c] = SubSeq(Append(outbox[c], "bye"), 1, i)
  <2>1. outbox[c] \in Seq(Signals) /\ "bye" \in Signals
    BY <1>0 DEF RendezvousTypeOK, Signals
  <2>2. SubSeq(Append(outbox[c], "bye"), 1, Len(outbox[c]) + 1) = Append(outbox[c], "bye")
    <3> DEFINE t == Append(outbox[c], "bye")
    <3>1. t \in Seq(Signals) /\ Len(t) = Len(outbox[c]) + 1 /\ Len(outbox[c]) \in Nat
      BY <2>1, AppendProperties
    <3> HIDE DEF t
    <3>2. \A k \in 1..Len(t) : t[k] \in Signals
      BY <3>1, ElementOfSeq
    <3>3. /\ SubSeq(t, 1, Len(t)) \in Seq(Signals) /\ Len(SubSeq(t, 1, Len(t))) = Len(t)
          /\ \A k \in 1..Len(t) : SubSeq(t, 1, Len(t))[k] = t[k]
      BY <3>1, <3>2, SubSeqProperties
    <3>4. SubSeq(t, 1, Len(t)) = t
      BY <3>1, <3>3, SeqEqual
    <3> QED BY <3>1, <3>4 DEF t
  <2>3. outbox'[c] = outbox[c] \/ outbox'[c] = Append(outbox[c], "bye")
    BY <1>0, <1>1 DEF Sends, RendezvousTypeOK
  <2>4. Len(outbox[c]) + 1 \in 0..(Len(outbox[c]) + 1)
    BY <2>1, LenProperties
  <2> QED BY <2>2, <2>3, <2>4
<1>7. (KeepsLine(c) \/ ReadsLine(c)) /\ \A d \in Clients \ {c} : KeepsLine(d)
  BY <1>1, ReadLines, QuietLines
<1>8. Stops(c)
  BY <1>2, <1>3, <1>4, <1>6, <1>7 DEF Stops, Ended
<1>9. \A d \in Clients \ {c} : Idle(d)
  BY <1>2, <1>3, <1>4, <1>5, <1>7, QuietIdle DEF KeepsRtc
<1> QED BY <1>8, <1>9

LEMMA RoleStep ==
    ASSUME MeetInv, NEW c \in Clients,
           TakeJoinedFirst(c) \/ TakeJoinedSecond(c) \/ TakePeerJoined(c)
    PROVE  LearnsRole(c) /\ \A d \in Clients \ {c} : Idle(d)
<1>0. RendezvousTypeOK
  BY DEF MeetInv, MeetTypeInv
<1>1. Read(c) /\ UNCHANGED <<current, outbox, pcVars, rtcVars, gathered, faults>>
  BY DEF TakeJoinedFirst, TakeJoinedSecond, TakePeerJoined, Takes, history
<1>2. ReadsLine(c) /\ \A d \in Clients \ {c} : KeepsLine(d)
  BY <1>1, ReadLines
<1>3. \A d \in Clients : /\ outbox'[d] = outbox[d] /\ gathered'[d] = gathered[d]
                         /\ KeepsPc(d) /\ KeepsRtc(d)
  BY <1>1 DEF KeepsPc, KeepsRtc, pcVars, rtcVars
<1>4. \A d \in Clients \ {c} : stage'[d] = stage[d] /\ KeepsRole(d)
  BY <1>0 DEF TakeJoinedFirst, TakeJoinedSecond, TakePeerJoined, Goes, history, KeepsRole,
              RendezvousTypeOK
<1>5. \A d \in Clients \ {c} : Idle(d)
  BY <1>2, <1>3, <1>4, QuietIdle
<1>6. CASE TakeJoinedFirst(c)
  <2>1. /\ stage[c] = "joining" /\ Head(inbox[c]).type = "joined"
        /\ Head(inbox[c]).others = {} /\ stage'[c] = "alone" /\ KeepsRole(c)
    BY <1>0, <1>6 DEF TakeJoinedFirst, Takes, Goes, history, KeepsRole, RendezvousTypeOK
  <2> QED BY <1>2, <1>3, <1>5, <2>1 DEF LearnsRole
<1>7. CASE TakeJoinedSecond(c)
  <2>1. /\ stage[c] = "joining" /\ Head(inbox[c]).type = "joined"
        /\ stage'[c] = "select" /\ role'[c] = "answerer"
        /\ partner'[c] \in Head(inbox[c]).others
    BY <1>0, <1>7 DEF TakeJoinedSecond, Takes, Goes, RendezvousTypeOK
  <2> QED BY <1>2, <1>3, <1>5, <2>1 DEF LearnsRole
<1>8. CASE TakePeerJoined(c)
  <2>1. /\ stage[c] = "alone" /\ Head(inbox[c]).type = "peer-joined"
        /\ stage'[c] = "prepare" /\ role'[c] = "offerer" /\ partner'[c] = Sender(c)
    BY <1>0, <1>8 DEF TakePeerJoined, Takes, Goes, RendezvousTypeOK
  <2> QED BY <1>2, <1>3, <1>5, <2>1 DEF LearnsRole
<1> QED BY <1>6, <1>7, <1>8

LEMMA SignalStep ==
    ASSUME MeetInv, NEW c \in Clients,
           TakeAnswer(c) \/ TakeOffer(c) \/ TakeCandidate(c) \/ IgnoreStray(c)
    PROVE  TakesSignal(c) /\ \A d \in Clients \ {c} : Idle(d)
<1>0. RendezvousTypeOK
  BY DEF MeetInv, MeetTypeInv
<1>1. /\ Read(c) /\ UNCHANGED <<current, role, outbox, rtc, history, faults>>
      /\ stage[c] = "select" /\ NotifiedForgotten(c)
  BY DEF TakeAnswer, TakeOffer, TakeCandidate, IgnoreStray, Takes
<1>2. ReadsLine(c) /\ \A d \in Clients \ {c} : KeepsLine(d)
  BY <1>1, ReadLines
<1>3. \A d \in Clients : /\ outbox'[d] = outbox[d] /\ gathered'[d] = gathered[d]
                         /\ KeepsRole(d) /\ rtc'[d] = rtc[d]
  BY <1>1 DEF KeepsRole, history
<1>4. notified'[c] = {} /\ \A d \in Clients \ {c} : notified'[d] = notified[d]
  BY <1>0, <1>1 DEF NotifiedForgotten, RendezvousTypeOK
<1>5. \A d \in Clients \ {c} : stage'[d] = stage[d] /\ KeepsPc(d)
  BY <1>0 DEF TakeAnswer, TakeOffer, TakeCandidate, IgnoreStray, Goes, Describe, KeepsPc, pcVars,
              RendezvousTypeOK
<1>6. \A d \in Clients \ {c} : Idle(d)
  BY <1>2, <1>3, <1>4, <1>5, QuietIdle DEF KeepsRtc
<1>7. CASE TakeAnswer(c) \/ TakeOffer(c)
  <2>1. /\ \/ role[c] = "offerer" /\ Head(inbox[c]).type = "answer" /\ stage'[c] = "handle"
           \/ role[c] = "answerer" /\ Head(inbox[c]).type = "offer" /\ stage'[c] = "answering"
        /\ Describe(c)
    BY <1>0, <1>7 DEF TakeAnswer, TakeOffer, Takes, Goes, RendezvousTypeOK
  <2>2. /\ remote'[c] = Sender(c) /\ buffered'[c] = <<>>
        /\ applied'[c] = applied[c] \o buffered[c]
    BY <1>0, <2>1 DEF Describe, RendezvousTypeOK
  <2> QED BY <1>1, <1>2, <1>3, <1>4, <1>6, <2>1, <2>2 DEF TakesSignal
<1>8. CASE TakeCandidate(c)
  <2>1. /\ Head(inbox[c]).type = "candidate" /\ stage'[c] = "handle" /\ remote'[c] = remote[c]
        /\ \/ /\ remote[c] # 0 /\ buffered'[c] = buffered[c]
              /\ applied'[c] = Append(applied[c], Sender(c))
           \/ /\ remote[c] = 0 /\ applied'[c] = applied[c]
              /\ buffered'[c] = Append(buffered[c], Sender(c))
    BY <1>0, <1>8 DEF TakeCandidate, Takes, Goes, RendezvousTypeOK
  <2> QED BY <1>1, <1>2, <1>3, <1>4, <1>6, <2>1 DEF TakesSignal
<1>9. CASE IgnoreStray(c)
  <2>1. Head(inbox[c]).type \notin Expected(c) /\ stage'[c] = "handle" /\ KeepsPc(c)
    BY <1>0, <1>9 DEF IgnoreStray, Goes, KeepsPc, pcVars, RendezvousTypeOK
  <2> QED BY <1>1, <1>2, <1>3, <1>4, <1>6, <2>1 DEF TakesSignal
<1> QED BY <1>7, <1>8, <1>9

LEMMA SendStep ==
    ASSUME MeetInv, NEW c \in Clients, SendOffer(c) \/ SendAnswer(c) \/ Gather(c)
    PROVE  SendsSignal(c) /\ \A d \in Clients \ {c} : Idle(d)
<1>0. RendezvousTypeOK
  BY DEF MeetInv, MeetTypeInv
<1>1. UNCHANGED <<signalVars, current, role, pcVars, rtcVars, partner, faults>>
  BY DEF SendOffer, SendAnswer, Gather, history
<1>2. \A d \in Clients : KeepsLine(d) /\ KeepsRole(d) /\ KeepsPc(d) /\ KeepsRtc(d)
  BY <1>1, QuietLines DEF KeepsRole, KeepsPc, KeepsRtc, pcVars, rtcVars
<1>3. \A d \in Clients \ {c} :
         stage'[d] = stage[d] /\ gathered'[d] = gathered[d] /\ outbox'[d] = outbox[d]
  BY <1>0 DEF SendOffer, SendAnswer, Gather, Goes, Sends, history, RendezvousTypeOK
<1>4. ASSUME NEW signal, Sends(c, signal)
      PROVE  Puts(c, signal)
  BY <1>0, <1>4 DEF Sends, Puts, RendezvousTypeOK
<1>5. \A d \in Clients \ {c} : Idle(d)
  BY <1>2, <1>3, QuietIdle
<1>6. CASE SendOffer(c)
  <2>1. Sends(c, "offer") /\ stage[c] = "prepare" /\ stage'[c] = "select" /\ gathered'[c] = gathered[c]
    BY <1>0, <1>6 DEF SendOffer, Goes, history, RendezvousTypeOK
  <2> QED BY <1>2, <1>4, <1>5, <2>1 DEF SendsSignal
<1>7. CASE SendAnswer(c)
  <2>1. Sends(c, "answer") /\ stage[c] = "answering" /\ stage'[c] = "handle" /\ gathered'[c] = gathered[c]
    BY <1>0, <1>7 DEF SendAnswer, Goes, history, RendezvousTypeOK
  <2> QED BY <1>2, <1>4, <1>5, <2>1 DEF SendsSignal
<1>8. CASE Gather(c)
  <2>1. /\ Sends(c, "candidate") /\ stage'[c] = stage[c] /\ gathered'[c] = gathered[c] + 1
        /\ role[c] = "offerer" \/ remote[c] # 0
    BY <1>0, <1>8 DEF Gather, RendezvousTypeOK
  <2> QED BY <1>2, <1>4, <1>5, <2>1 DEF SendsSignal
<1> QED BY <1>6, <1>7, <1>8

LEMMA LoopStep ==
    ASSUME MeetInv, NEW c \in Clients,
           RoundEnds(c) \/ OnConnected(c) \/ Settles(c) \/ OnOpened(c)
    PROVE  Proceeds(c) /\ \A d \in Clients \ {c} : Idle(d)
<1>0. RendezvousTypeOK
  BY DEF MeetInv, MeetTypeInv
<1>1. PICK to \in {"select", "settle", "session"} :
         /\ Leaves(c, to)
         /\ to = "session" => rtc[c] = "open" \/ "opened" \in notified[c]
  BY DEF RoundEnds, OnConnected, Settles, OnOpened, IfOpen
<1>2. stage[c] \in {"handle", "select", "settle"}
  BY DEF RoundEnds, OnConnected, Settles, OnOpened
<1>3. \A d \in Clients : /\ KeepsLine(d) /\ KeepsRole(d) /\ KeepsPc(d) /\ rtc'[d] = rtc[d]
                         /\ outbox'[d] = outbox[d] /\ gathered'[d] = gathered[d]
  BY <1>1, QuietLines DEF Leaves, KeepsRole, KeepsPc, pcVars, history
<1>4. /\ notified'[c] = {} /\ stage'[c] = to
      /\ \A d \in Clients \ {c} : notified'[d] = notified[d] /\ stage'[d] = stage[d]
  BY <1>0, <1>1 DEF Leaves, Goes, NotifiedForgotten, RendezvousTypeOK
<1>5. Proceeds(c)
  BY <1>1, <1>2, <1>3, <1>4 DEF Proceeds
<1>6. \A d \in Clients \ {c} : Idle(d)
  BY <1>3, <1>4, QuietIdle DEF KeepsRtc
<1> QED BY <1>5, <1>6

LEMMA PcStep ==
    ASSUME MeetInv, NEW c \in Clients, PeerConnection(c)
    PROVE  PcChanges(c) /\ \A d \in Clients \ {c} : Idle(d)
<1>0. RendezvousTypeOK
  BY DEF MeetInv, MeetTypeInv
<1>1. PICK to \in {"connected", "open", "failed"}, event \in {"connected", "opened", "failed"} :
         /\ PcMoves(c, to, event)
         /\ to # "failed" => \E d \in Clients : Linked(c, d)
         /\ to = "failed" => event = "failed"
  BY DEF PeerConnection, PcConnects, ChannelOpens, PcFails
<1>2. UNCHANGED <<signalVars, current, stage, role, outbox, pcVars, history>>
  BY <1>1 DEF PcMoves
<1>3. \A d \in Clients : /\ KeepsLine(d) /\ KeepsRole(d) /\ KeepsPc(d) /\ stage'[d] = stage[d]
                         /\ outbox'[d] = outbox[d] /\ gathered'[d] = gathered[d]
  BY <1>2, QuietLines DEF KeepsRole, KeepsPc, pcVars, history
<1>4. rtc'[c] = to /\ \A d \in Clients \ {c} : rtc'[d] = rtc[d]
  BY <1>0, <1>1 DEF PcMoves, RendezvousTypeOK
<1>5. /\ notified'[c] \subseteq notified[c] \cup {event}
      /\ \A d \in Clients \ {c} : notified'[d] = notified[d]
  BY <1>0, <1>1 DEF PcMoves, Reports, RendezvousTypeOK
<1>6. PcChanges(c)
  BY <1>1, <1>3, <1>4, <1>5 DEF PcChanges
<1>7. \A d \in Clients \ {c} : Idle(d)
  BY <1>3, <1>4, <1>5, QuietIdle DEF KeepsRtc
<1> QED BY <1>6, <1>7

-----------------------------------------------------------------------------
(* The messages that a step of the server sends.                           *)
LEMMA ToldArrives ==
    ASSUME NEW d \in Clients, NEW m \in Message, inbox'[d] = Told(d, m),
           ws[d] = "open" => Arrives(d, m)
    PROVE  Receiving(d)
BY DEF Told, Receiving

LEMMA NotifyPoint ==
    ASSUME NEW S, NEW m, inbox' = Notify(S, m), NEW d \in Clients
    PROVE  inbox'[d] = Notify(S, m)[d]
OBVIOUS

LEMMA RefuseArrives ==
    ASSUME MeetInv, NEW c \in Clients, Refuse(c), Deliver(c),
           peerId[c] = 0 \/ Head(outbox[c]) = "join",
           NEW d \in Clients
    PROVE  Receiving(d)
<1>0. SignalTypeOK
  BY DEF MeetInv, MeetTypeInv, RoomInv
<1>1. inbox' = [inbox EXCEPT ![c] = Told(c, ErrorMessage)]
  BY DEF Refuse
<1>2. CASE d = c
  <2>1. inbox'[d] = Told(d, ErrorMessage)
    BY <1>0, <1>1, <1>2 DEF SignalTypeOK
  <2>2. ws[d] = "open" => Arrives(d, ErrorMessage)
    BY <1>2 DEF Arrives
  <2> QED BY <2>1, <2>2, ErrorMessageType, ToldArrives
<1>3. CASE d # c
  BY <1>0, <1>1, <1>3 DEF SignalTypeOK, Receiving
<1> QED BY <1>2, <1>3

LEMMA RelayArrives ==
    ASSUME MeetInv, NEW c \in Clients, Deliver(c), Head(outbox[c]) \in RelayTypes,
           OnRelay(c, Head(outbox[c])), NEW d \in Clients
    PROVE  Receiving(d)
<1>0. RoomInv /\ SignalTypeOK
  BY DEF MeetInv, MeetTypeInv, RoomInv
<1> DEFINE type == Head(outbox[c])
           i == peerId[c]
           m == Note(type, i)
<1>1. CASE i = 0
  BY <1>1, RefuseArrives DEF OnRelay
<1>2. CASE i # 0 /\ UNCHANGED inbox
  BY <1>2 DEF Receiving
<1>3. ASSUME i # 0, NEW other \in Others(i), inbox' = Notify({other}, m)
      PROVE  Receiving(d)
  <2>1. i \in PeerIds /\ peers[i] # NoPeer
    BY <1>0, <1>3 DEF OnRelay, Receives, RoomInv, SignalTypeOK, NoDanglingPeer
  <2>2. peers[i].room \in Rooms
    BY <1>0, <2>1 DEF SignalTypeOK
  <2>3. {other} \in SUBSET rooms[peers[i].room] /\ other # i /\ other \in PeerIds
    BY <1>0, <1>3, <2>2 DEF Others, SignalTypeOK
  <2>4. m \in Message
    BY <2>1, NoteType
  <2>5. Notify({other}, m)[d] = IF peerId[d] \in {other} THEN Told(d, m) ELSE inbox[d]
    BY <1>0, <2>2, <2>3, NotifyWho
  <2>6. inbox'[d] = IF peerId[d] \in {other} THEN Told(d, m) ELSE inbox[d]
    BY <1>3, <2>5, NotifyPoint
  <2>7. CASE peerId[d] = other
    <3>1. d # c /\ peerId[d] # 0
      BY <2>3, <2>7 DEF PeerIds
    <3>2. ws[d] = "open" => Arrives(d, m)
      BY <1>3, <3>1 DEF Arrives
    <3> HIDE DEF m
    <3> QED BY <2>4, <2>6, <2>7, <3>2, ToldArrives
  <2>8. CASE peerId[d] # other
    BY <2>6, <2>8 DEF Receiving
  <2> QED BY <2>7, <2>8
<1> QED BY <1>1, <1>2, <1>3 DEF OnRelay

LEMMA RemoveArrives ==
    ASSUME MeetInv, NEW c \in Clients, peerId[c] # 0, RemovePeer(peerId[c]), NEW d \in Clients
    PROVE  Receiving(d)
<1>0. RoomInv /\ SignalTypeOK
  BY DEF MeetInv, MeetTypeInv, RoomInv
<1> DEFINE i == peerId[c]
           r == peers[i].room
           m == Note("peer-left", i)
<1>1. i \in PeerIds
  BY <1>0 DEF SignalTypeOK
<1>2. CASE peers[i] = NoPeer
  BY <1>2 DEF RemovePeer, Receiving
<1>3. CASE peers[i] # NoPeer
  <2>1. r \in Rooms /\ rooms[r] \ {i} \in SUBSET rooms[r] /\ rooms[r] \in SUBSET PeerIds
    BY <1>0, <1>1, <1>3 DEF SignalTypeOK
  <2>2. inbox' = Notify(rooms[r] \ {i}, m)
    BY <1>3 DEF RemovePeer
  <2>3. m \in Message
    BY <1>1, NoteType DEF NoticeTypes
  <2>4. Notify(rooms[r] \ {i}, m)[d] = IF peerId[d] \in rooms[r] \ {i} THEN Told(d, m) ELSE inbox[d]
    BY <1>0, <2>1, NotifyWho
  <2>5. inbox'[d] = IF peerId[d] \in rooms[r] \ {i} THEN Told(d, m) ELSE inbox[d]
    BY <2>2, <2>4, NotifyPoint
  <2>6. CASE peerId[d] \in rooms[r] \ {i}
    <3>1. d # c /\ peerId[d] # 0
      BY <2>1, <2>6 DEF PeerIds
    <3>2. ws[d] = "open" => Arrives(d, m)
      BY <3>1 DEF Arrives
    <3> HIDE DEF m
    <3> QED BY <2>3, <2>5, <2>6, <3>2, ToldArrives
  <2>7. CASE peerId[d] \notin rooms[r] \ {i}
    BY <2>5, <2>7 DEF Receiving
  <2> QED BY <2>6, <2>7
<1> QED BY <1>2, <1>3

LEMMA JoinArrives ==
    ASSUME MeetInv, NEW c \in Clients, Joins(c), NEW d \in Clients
    PROVE  Receiving(d)
<1>1. CASE d = c
  <2>1. \/ inbox'[c] = inbox[c]
        \/ ws[c] = "open" /\ inbox'[c] = Append(inbox[c], JoinedMessage)
    BY JoinEffect
  <2>2. JoinedMessage \in Message
    BY JoinEffect
  <2>3. ws[c] = "open" => Arrives(c, JoinedMessage)
    BY DEF Arrives
  <2> QED BY <1>1, <2>1, <2>2, <2>3 DEF Receiving
<1>2. CASE d # c
  <2> DEFINE m == Note("peer-joined", nextPeer)
  <2>1. \/ inbox'[d] = inbox[d]
        \/ ws[d] = "open" /\ peerId[d] # 0 /\ inbox'[d] = Append(inbox[d], m)
    BY <1>2, JoinEffect
  <2>2. m \in Message
    BY JoinEffect
  <2>3. ws[d] = "open" /\ peerId[d] # 0 => Arrives(d, m)
    BY <1>2 DEF Arrives
  <2> HIDE DEF m
  <2> QED BY <2>1, <2>2, <2>3 DEF Receiving
<1> QED BY <1>1, <1>2

LEMMA DeliverStep ==
    ASSUME MeetInv, NEW c \in Clients, Deliver(c), NEW d \in Clients
    PROVE  Idle(d)
<1>0. RendezvousTypeOK /\ SignalTypeOK
  BY DEF MeetInv, MeetTypeInv, RoomInv
<1>1. /\ stage'[d] = stage[d] /\ gathered'[d] = gathered[d]
      /\ KeepsRole(d) /\ KeepsPc(d) /\ KeepsRtc(d)
  BY DEF Deliver, KeepsRole, KeepsPc, KeepsRtc, pcVars, rtcVars, history
<1>2. \/ outbox'[d] = outbox[d]
      \/ outbox[d] # <<>> /\ outbox'[d] = Tail(outbox[d]) /\ Deliver(d)
  BY <1>0 DEF Deliver, RendezvousTypeOK
<1>3. Head(outbox[c]) \in Signals
  BY <1>0 DEF Deliver, RendezvousTypeOK
<1>4. CASE Head(outbox[c]) = "join"
  <2>1. OnJoin(c, Room) \/ OnJoinRefused(c, Room)
    BY <1>4, RoomAssumption DEF Deliver, Handles
  <2>2. CASE OnJoinRefused(c, Room)
    <3>1. Receiving(d)
      BY <1>4, <2>2, RefuseArrives DEF OnJoinRefused
    <3>2. ws'[d] = ws[d] /\ view'[d] = view[d] /\ peerId'[d] = peerId[d]
      BY <2>2 DEF OnJoinRefused, Refuse
    <3> QED BY <1>1, <1>2, <3>1, <3>2 DEF Idle
  <2>3. CASE OnJoin(c, Room)
    <3>1. Joins(c)
      BY <1>4, <2>3 DEF Joins
    <3>2. Receiving(d)
      BY <3>1, JoinArrives
    <3>3. /\ ws'[d] = ws[d] /\ view'[d] = view[d]
          /\ peerId'[d] = peerId[d] \/ (peerId'[d] = nextPeer /\ Joins(d))
      BY <3>1, JoinEffect
    <3> QED BY <1>1, <1>2, <3>2, <3>3 DEF Idle
  <2> QED BY <2>1, <2>2, <2>3
<1>5. CASE Head(outbox[c]) \in RelayTypes
  <2>1. OnRelay(c, Head(outbox[c]))
    BY <1>5, RoomAssumption DEF Deliver, Handles
  <2>2. Receiving(d)
    BY <1>5, <2>1, RelayArrives
  <2>3. ws'[d] = ws[d] /\ view'[d] = view[d] /\ peerId'[d] = peerId[d]
    BY <2>1 DEF OnRelay, Refuse
  <2> QED BY <1>1, <1>2, <2>2, <2>3 DEF Idle
<1>6. CASE Head(outbox[c]) = "bye"
  <2>1. \/ peerId[c] # 0 /\ OnBye(c)
        \/ UNCHANGED signalVars
    BY <1>6, RoomAssumption DEF Deliver, Handles
  <2>2. CASE peerId[c] # 0 /\ OnBye(c)
    <3>1. Receiving(d)
      BY <2>2, RemoveArrives DEF OnBye
    <3>2. /\ ws'[d] = ws[d] /\ view'[d] = view[d]
          /\ \/ peerId'[d] = peerId[d]
             \/ peerId'[d] = 0 /\ Deliver(d) /\ Head(outbox[d]) = "bye"
      BY <1>0, <1>6, <2>2 DEF OnBye, SignalTypeOK
    <3> QED BY <1>1, <1>2, <3>1, <3>2 DEF Idle
  <2>3. CASE UNCHANGED signalVars
    BY <1>1, <1>2, <2>3 DEF Idle, signalVars, Receiving
  <2> QED BY <2>1, <2>2, <2>3
<1> QED BY <1>3, <1>4, <1>5, <1>6, RoomAssumption DEF Signals

LEMMA EndStep ==
    ASSUME MeetInv, NEW c \in Clients, ConnectionLost(c) \/ ConnectionDropped(c), NEW d \in Clients
    PROVE  Idle(d)
<1>0. RendezvousTypeOK /\ SignalTypeOK
  BY DEF MeetInv, MeetTypeInv, RoomInv
<1>1. /\ stage'[d] = stage[d] /\ gathered'[d] = gathered[d]
      /\ KeepsRole(d) /\ KeepsPc(d) /\ KeepsRtc(d)
  BY DEF ConnectionLost, ConnectionDropped, Ends, KeepsRole, KeepsPc, KeepsRtc, pcVars, rtcVars,
         history
<1>2. PICK w \in {"failed", "closed"} : ws' = [ws EXCEPT ![c] = w] /\ Leave(c) /\ ws[c] # "new"
  BY DEF ConnectionLost, ConnectionDropped, OnError, OnClose
<1>3. outbox' = [outbox EXCEPT ![c] = <<>>]
  BY DEF ConnectionLost, ConnectionDropped, Ends
<1>4. /\ ws'[d] = IF d = c THEN w ELSE ws[d]
      /\ outbox'[d] = IF d = c THEN <<>> ELSE outbox[d]
  BY <1>0, <1>2, <1>3 DEF RendezvousTypeOK, SignalTypeOK
<1>5. peerId'[d] = peerId[d] /\ view'[d] = view[d]
  BY <1>2 DEF Leave
<1>6. Receiving(d)
  <2>1. CASE peerId[c] = 0
    BY <1>2, <2>1 DEF Leave, Receiving
  <2>2. CASE peerId[c] # 0
    BY <1>2, <2>2, RemoveArrives DEF Leave
  <2> QED BY <2>1, <2>2
<1> QED BY <1>1, <1>2, <1>4, <1>5, <1>6 DEF Idle

LEMMA DialStep ==
    ASSUME MeetInv, NEW p \in Processes, Dial(p), NEW d \in Clients
    PROVE  Dials(d) \/ Idle(d)
<1>0. RendezvousTypeOK /\ SignalTypeOK /\ Owned
  BY DEF MeetInv, MeetTypeInv, RoomInv
<1>1. PICK c \in Clients :
         /\ ws[c] = "new" /\ Connect(c)
         /\ Goes(c, "joining")
         /\ outbox' = [outbox EXCEPT ![c] = <<"join">>]
         /\ UNCHANGED <<role, pcVars, rtcVars, history, faults>>
  BY UnusedType DEF Dial
<1>2. /\ gathered'[d] = gathered[d] /\ KeepsRole(d) /\ KeepsPc(d) /\ KeepsRtc(d)
      /\ peerId'[d] = peerId[d] /\ inbox'[d] = inbox[d] /\ view'[d] = view[d]
  BY <1>1 DEF Connect, KeepsRole, KeepsPc, KeepsRtc, pcVars, rtcVars, history
<1>3. CASE d = c
  <2>1. /\ ws[d] = "new" /\ ws'[d] = "open" /\ stage[d] = "none" /\ stage'[d] = "joining"
        /\ outbox'[d] = <<"join">>
    BY <1>0, <1>1, <1>3 DEF Connect, Goes, Owned, RendezvousTypeOK, SignalTypeOK
  <2> QED BY <1>2, <2>1 DEF Dials
<1>4. CASE d # c
  <2>1. ws'[d] = ws[d] /\ stage'[d] = stage[d] /\ outbox'[d] = outbox[d]
    BY <1>0, <1>1, <1>4 DEF Connect, Goes, RendezvousTypeOK, SignalTypeOK
  <2> QED BY <1>2, <2>1, QuietIdle DEF KeepsLine
<1> QED BY <1>3, <1>4

LEMMA StopStep ==
    ASSUME MeetInv, NEW p \in Processes, Stop(p), NEW d \in Clients
    PROVE  Stops(d) \/ Idle(d)
<1>0. RendezvousTypeOK
  BY DEF MeetInv, MeetTypeInv
<1> DEFINE c == current[p]
<1>1. c \in Clients /\ Goes(c, "killed") /\ UNCHANGED <<signalVars, role, pcVars, rtcVars, history>>
  BY <1>0 DEF Stop, RendezvousTypeOK
<1>2. PICK i \in 0..(Len(outbox[c]) + 1) :
         outbox' = [outbox EXCEPT ![c] = SubSeq(Append(@, "bye"), 1, i)]
  BY DEF Stop
<1>3. /\ gathered'[d] = gathered[d] /\ KeepsRole(d) /\ KeepsPc(d) /\ KeepsRtc(d) /\ KeepsLine(d)
  BY <1>1, QuietLines DEF KeepsRole, KeepsPc, KeepsRtc, pcVars, rtcVars, history
<1>4. CASE d = c
  <2>1. stage'[d] = "killed" /\ outbox'[d] = SubSeq(Append(outbox[d], "bye"), 1, i)
    BY <1>0, <1>1, <1>2, <1>4 DEF Goes, RendezvousTypeOK
  <2> QED BY <1>2, <1>3, <1>4, <2>1 DEF Stops, Ended, KeepsRtc
<1>5. CASE d # c
  <2>1. stage'[d] = stage[d] /\ outbox'[d] = outbox[d]
    BY <1>0, <1>1, <1>2, <1>5 DEF Goes, RendezvousTypeOK
  <2> QED BY <1>3, <2>1, QuietIdle
<1> QED BY <1>4, <1>5

(* Every step of a rendezvous, seen from one attempt.                      *)
LEMMA EveryStep ==
    ASSUME MeetInv, [MeetNext]_meetVars, NEW d \in Clients
    PROVE  StepOf(d)
<1>1. ASSUME NEW p \in Processes, Dial(p) \/ Stop(p) PROVE StepOf(d)
  BY <1>1, DialStep, StopStep DEF StepOf
<1>2. ASSUME NEW c \in Clients, Attempt(c) \/ LocalError(c) \/ SessionEnds(c) PROVE StepOf(d)
  BY <1>2, EndingStep, RoleStep, SignalStep, SendStep, LoopStep DEF StepOf, Attempt
<1>3. ASSUME NEW c \in Clients, Gather(c) \/ PeerConnection(c) PROVE StepOf(d)
  BY <1>3, SendStep, PcStep DEF StepOf
<1>4. ASSUME NEW c \in Clients, Deliver(c) \/ ConnectionLost(c) \/ ConnectionDropped(c)
      PROVE  StepOf(d)
  BY <1>4, DeliverStep, EndStep DEF StepOf
<1>5. CASE UNCHANGED meetVars
  BY <1>5, QuietIdle, QuietLines
     DEF StepOf, meetVars, clientVars, pcVars, rtcVars, history, KeepsRole, KeepsPc, KeepsRtc
<1> QED BY <1>1, <1>2, <1>3, <1>4, <1>5 DEF MeetNext

-----------------------------------------------------------------------------
(***************************************************************************)
(* The invariants.                                                         *)
(***************************************************************************)
Paired == {"prepare", "session"} \cup Selecting

(* All meet in one room, and no connection is closed but at once.          *)
OneRoom ==
    /\ \A i \in PeerIds : peers[i] # NoPeer => peers[i].room = Room
    /\ \A c \in Clients : ws[c] # "closing"

(* The id that c has, or will learn that it has.                           *)
OwnId(c, i) ==
    \/ view[c].me = i
    \/ \E k \in 1..Len(inbox[c]) : inbox[c][k].type = "joined" /\ inbox[c][k].peer = i

(* No two attempts have an id in common, and the server and the client     *)
(* agree on it.                                                            *)
OneOwner ==
    /\ \A c, d \in Clients : \A i \in PeerIds : OwnId(c, i) /\ OwnId(d, i) => c = d
    /\ \A c \in Clients : peerId[c] # 0 => \A i \in PeerIds : OwnId(c, i) <=> i = peerId[c]

(* What is said of peers is said of those there were, and joined names one *)
(* other at most.                                                          *)
HandedOut ==
    \A c \in Clients :
        /\ partner[c] < nextPeer
        /\ \A k \in 1..Len(inbox[c]) :
              inbox[c][k].peer < nextPeer /\ \A i, j \in inbox[c][k].others : i = j

NoError(c) == \A k \in 1..Len(inbox[c]) : inbox[c][k].type # "error"

(* Before its join is answered, refused, or accepted.                      *)
Waiting(c) ==
    \/ outbox[c] \in {<<>>, <<"join">>} /\ inbox[c] = <<>> /\ peerId[c] = 0
    \/ outbox[c] = <<>> /\ inbox[c] = <<ErrorMessage>> /\ peerId[c] = 0
    \/ /\ outbox[c] = <<>> /\ peerId[c] # 0 /\ inbox[c] # <<>>
       /\ Head(inbox[c]).type = "joined" /\ NoError(c)

(* An attempt that has a partner knows of nobody else.                     *)
PhaseOf(c) ==
    /\ stage[c] = "none" => outbox[c] = <<>> /\ ws[c] = "new"
    /\ stage[c] \in {"none", "joining", "alone"} => role[c] = "none"
    /\ stage[c] = "joining" => Waiting(c)
    /\ stage[c] = "alone" => view[c].others = {}
    /\ stage[c] \in Paired => role[c] # "none" /\ view[c].others = {partner[c]}
    /\ stage[c] \in Paired \cup {"alone"} => peerId[c] # 0 /\ NoError(c)
    /\ stage[c] = "prepare" => role[c] = "offerer"
    /\ stage[c] = "answering" => role[c] = "answerer"
    /\ \A k \in 1..Len(outbox[c]) : outbox[c][k] = "bye" => stage[c] \in Ended

Phases == \A c \in Clients : PhaseOf(c)

(* Offers come from offerers, and answers from answerers.                  *)
SentBy(type, r) ==
    \A c \in Clients :
        /\ \A k \in 1..Len(outbox[c]) : outbox[c][k] = type => role[c] = r
        /\ \A k \in 1..Len(inbox[c]) :
              inbox[c][k].type = type =>
                 \E d \in Clients : view[d].me = inbox[c][k].peer /\ role[d] = r

(* The peer connection was given what the partner sent and nothing else.   *)
DescribedOf(c) ==
    /\ role[c] = "none" =>
          remote[c] = 0 /\ buffered[c] = <<>> /\ applied[c] = <<>> /\ gathered[c] = 0
    /\ remote[c] \in {0, partner[c]}
    /\ \A k \in 1..Len(buffered[c]) : buffered[c][k] = partner[c]
    /\ \A k \in 1..Len(applied[c]) : applied[c][k] = partner[c]
    /\ remote[c] # 0 => buffered[c] = <<>>
    /\ \A k \in 1..Len(outbox[c]) : outbox[c][k] = "candidate" => role[c] # "none"

LinkNeeded(c) ==
    rtc[c] \in {"connected", "open"} \/ "opened" \in notified[c] \/ stage[c] = "session"

Described ==
    \A c \in Clients : DescribedOf(c) /\ (LinkNeeded(c) => \E d \in Clients : Linked(c, d))

(* Two attempts that have, or may yet choose, each other for a partner.    *)
Meeting(c, d) ==
    /\ c # d /\ Alive(c) /\ Alive(d) /\ ws[c] = "open" /\ ws[d] = "open"
    /\ peerId[c] # 0 /\ peerId[d] # 0
    /\ partner[c] \in {0, peerId[d]} /\ partner[d] \in {0, peerId[c]}
    /\ stage[c] # "session"

Conserved(c, d) ==
    gathered[d] = Count(outbox[d], {"candidate"}) + Count(inbox[c], CandidatesOf(peerId[d]))
                    + Len(buffered[c]) + Len(applied[c])

NothingLost == \A c, d \in Clients : Meeting(c, d) => Conserved(c, d)

TalkInv ==
    /\ MeetInv /\ ViewInv
    /\ OneRoom /\ OneOwner /\ HandedOut /\ Phases
    /\ SentBy("offer", "offerer") /\ SentBy("answer", "answerer")
    /\ Described

-----------------------------------------------------------------------------
LEMMA AppendMember ==
    ASSUME NEW S, NEW q \in Seq(S), NEW m \in S, NEW k \in 1..Len(Append(q, m))
    PROVE  Append(q, m)[k] = m \/ \E l \in 1..Len(q) : Append(q, m)[k] = q[l]
<1>1. /\ Len(q) \in Nat /\ Len(Append(q, m)) = Len(q) + 1
      /\ \A l \in 1..Len(q) : Append(q, m)[l] = q[l]
      /\ Append(q, m)[Len(q) + 1] = m
  BY AppendProperties
<1>2. k \in 1..Len(q) \/ k = Len(q) + 1
  BY <1>1
<1> QED BY <1>1, <1>2

LEMMA TailMember ==
    ASSUME NEW S, NEW q \in Seq(S), q # <<>>, NEW k \in 1..Len(Tail(q))
    PROVE  k + 1 \in 1..Len(q) /\ Tail(q)[k] = q[k + 1]
BY HeadTailProperties

LEMMA HeadMember ==
    ASSUME NEW S, NEW q \in Seq(S), q # <<>>
    PROVE  1 \in 1..Len(q) /\ Head(q) = q[1] /\ Head(q) \in S
BY HeadTailProperties

(* A message in an inbox was there before the step, or comes with it.      *)
LEMMA InboxEffect ==
    ASSUME SignalTypeOK, NEW c \in Clients, StepOf(c), NEW k \in 1..Len(inbox'[c])
    PROVE  \/ \E l \in 1..Len(inbox[c]) : inbox'[c][k] = inbox[c][l]
           \/ Idle(c) /\ \E m \in Message : Arrives(c, m) /\ inbox'[c][k] = m
<1>1. inbox[c] \in Seq(Message)
  BY DEF SignalTypeOK
<1>2. CASE inbox'[c] = inbox[c]
  BY <1>2
<1>3. CASE ReadsLine(c)
  <2>1. inbox[c] # <<>> /\ inbox'[c] = Tail(inbox[c])
    BY <1>3 DEF ReadsLine
  <2> QED BY <1>1, <2>1, TailMember
<1>4. ASSUME Idle(c), NEW m \in Message, Arrives(c, m), inbox'[c] = Append(inbox[c], m)
      PROVE  \/ \E l \in 1..Len(inbox[c]) : inbox'[c][k] = inbox[c][l]
             \/ Idle(c) /\ \E n \in Message : Arrives(c, n) /\ inbox'[c][k] = n
  BY <1>1, <1>4, AppendMember
<1>5. \/ inbox'[c] = inbox[c] \/ ReadsLine(c)
      \/ Idle(c) /\ \E m \in Message : Arrives(c, m) /\ inbox'[c] = Append(inbox[c], m)
  BY DEF StepOf, Idle, Receiving, Dials, Stops, LearnsRole, TakesSignal, SendsSignal, Proceeds,
         PcChanges, KeepsLine
<1> QED BY <1>2, <1>3, <1>4, <1>5

(* And a signal in an outbox.                                              *)
LEMMA OutboxMember ==
    ASSUME RendezvousTypeOK, NEW c \in Clients, StepOf(c), NEW k \in 1..Len(outbox'[c])
    PROVE  \/ \E l \in 1..Len(outbox[c]) : outbox'[c][k] = outbox[c][l]
           \/ outbox'[c][k] = "join" /\ Dials(c)
           \/ outbox'[c][k] = "bye" /\ Stops(c)
           \/ SendsSignal(c) /\ \/ outbox'[c][k] = "offer" /\ stage[c] = "prepare"
                                \/ outbox'[c][k] = "answer" /\ stage[c] = "answering"
                                \/ /\ outbox'[c][k] = "candidate"
                                   /\ role[c] = "offerer" \/ remote[c] # 0
<1>1. outbox[c] \in Seq(Signals) /\ Len(outbox[c]) \in Nat
  BY DEF RendezvousTypeOK
<1>2. CASE outbox'[c] = outbox[c]
  BY <1>2
<1>3. CASE outbox[c] # <<>> /\ outbox'[c] = Tail(outbox[c])
  BY <1>1, <1>3, TailMember
<1>4. CASE outbox'[c] = <<>>
  BY <1>4
<1>5. CASE Dials(c)
  BY <1>5 DEF Dials
<1>6. ASSUME Stops(c), NEW i \in 0..(Len(outbox[c]) + 1),
             outbox'[c] = SubSeq(Append(outbox[c], "bye"), 1, i)
      PROVE  outbox'[c][k] = "bye" \/ \E l \in 1..Len(outbox[c]) : outbox'[c][k] = outbox[c][l]
  <2> DEFINE t == Append(outbox[c], "bye")
  <2>1. "bye" \in Signals /\ t \in Seq(Signals) /\ Len(t) = Len(outbox[c]) + 1
    BY <1>1, AppendProperties DEF Signals
  <2>2. \A l \in 1..Len(t) : t[l] = "bye" \/ \E n \in 1..Len(outbox[c]) : t[l] = outbox[c][n]
    BY <1>1, <2>1, AppendMember
  <2> HIDE DEF t
  <2>3. \A l \in 1..i : l \in 1..Len(t) /\ t[l] \in Signals
    BY <1>1, <2>1, ElementOfSeq
  <2>4. Len(SubSeq(t, 1, i)) = i /\ \A l \in 1..i : SubSeq(t, 1, i)[l] = t[l]
    BY <1>1, <2>1, <2>3, SubSeqProperties
  <2>5. outbox'[c] = SubSeq(t, 1, i)
    BY <1>6 DEF t
  <2>6. k \in 1..i /\ outbox'[c][k] = t[k]
    BY <2>4, <2>5
  <2> QED BY <2>2, <2>3, <2>6
<1>7. ASSUME NEW signal \in Signals, outbox'[c] = Append(outbox[c], signal)
      PROVE  outbox'[c][k] = signal \/ \E l \in 1..Len(outbox[c]) : outbox'[c][k] = outbox[c][l]
  BY <1>1, <1>7, AppendMember
<1>8. CASE SendsSignal(c)
  <2>1. {"offer", "answer", "candidate"} \subseteq Signals
    BY DEF Signals
  <2> QED BY <1>2, <1>7, <1>8, <2>1 DEF SendsSignal, Puts
<1>9. CASE Stops(c)
  BY <1>2, <1>6, <1>9 DEF Stops
<1>10. CASE Idle(c)
  BY <1>2, <1>3, <1>4, <1>10 DEF Idle
<1>11. CASE LearnsRole(c) \/ TakesSignal(c) \/ Proceeds(c) \/ PcChanges(c)
  BY <1>2, <1>11 DEF LearnsRole, TakesSignal, Proceeds, PcChanges
<1> QED BY <1>5, <1>8, <1>9, <1>10, <1>11 DEF StepOf

-----------------------------------------------------------------------------
(***************************************************************************)
(* What an attempt can be told where it stands.                            *)
(***************************************************************************)
LEMMA NextGrows ==
    ASSUME MeetInv, [MeetNext]_meetVars
    PROVE  nextPeer \in Nat /\ nextPeer' \in Nat /\ nextPeer <= nextPeer'
<1>1. nextPeer \in Nat
  BY DEF MeetInv, MeetTypeInv, RoomInv, SignalTypeOK
<1>2. nextPeer' \in {nextPeer, nextPeer + 1}
  <2>1. CASE Quiet
    BY <2>1 DEF Quiet
  <2>2. ASSUME NEW c \in Clients, Read(c) PROVE nextPeer' = nextPeer
    BY <2>2, ReadEffect
  <2>3. ASSUME NEW c \in Clients, Joins(c) PROVE nextPeer' = nextPeer + 1
    BY <2>3, JoinEffect
  <2> QED BY <2>1, <2>2, <2>3, MeetEffect DEF MeetInv
<1> QED BY <1>1, <1>2

LEMMA HeadIntroduced ==
    ASSUME MeetInv, ViewInv, NEW c \in Clients, inbox[c] # <<>>
    PROVE  /\ Head(inbox[c]).type \in AboutKnown => Sender(c) \in view[c].others
           /\ Head(inbox[c]).type = "peer-joined" => view[c].others = {}
           /\ Head(inbox[c]).type = "joined" => view[c].me = 0
<1>1. inbox[c] \in Seq(Message) /\ view[c].others \subseteq PeerIds
  BY DEF MeetInv, MeetTypeInv, RoomInv, SignalTypeOK
<1>2. 1 \in 1..Len(inbox[c]) /\ Head(inbox[c]) = inbox[c][1]
  BY <1>1, HeadMember
<1>3. \A j : KnownBefore(view[c], inbox[c], 1, j) <=> j \in view[c].others
  BY DEF KnownBefore
<1>4. Introduced(view[c], inbox[c])
  BY DEF ViewInv
<1>5. /\ Head(inbox[c]).type \in AboutKnown =>
            KnownBefore(view[c], inbox[c], 1, Sender(c))
      /\ Head(inbox[c]).type = "peer-joined" =>
            \A j \in PeerIds : ~KnownBefore(view[c], inbox[c], 1, j)
  BY <1>2, <1>4 DEF Introduced, Sender
<1>6. Head(inbox[c]).type = "joined" => view[c].me = 0
  BY <1>2 DEF MeetInv, ByAge
<1> QED BY <1>1, <1>3, <1>5, <1>6

LEMMA RoleKnown ==
    ASSUME MeetInv, NEW c \in Clients, role[c] # "none"
    PROVE  view[c].me \in PeerIds /\ partner[c] \in PeerIds /\ role[c] \in {"offerer", "answerer"}
<1>1. /\ role[c] \in {"offerer", "answerer"} /\ view[c].me \in PeerIds \cup {0}
      /\ partner[c] \in PeerIds \cup {0}
  BY DEF MeetInv, MeetTypeInv, RoomInv, SignalTypeOK, RendezvousTypeOK
<1>2. /\ partner[c] # 0
      /\ role[c] = "offerer" => view[c].me # 0
      /\ role[c] = "answerer" => partner[c] < view[c].me
  BY DEF MeetInv, RoleByAge
<1>3. view[c].me # 0
  BY <1>1, <1>2 DEF PeerIds
<1> QED BY <1>1, <1>2, <1>3

(* An attempt that has a partner hears of it and of nobody else.           *)
LEMMA PartnerSpeaks ==
    ASSUME MeetInv, ViewInv, Phases, NEW c \in Clients, stage[c] \in Paired, inbox[c] # <<>>
    PROVE  Head(inbox[c]).type \in AboutKnown /\ Sender(c) = partner[c]
<1>1. inbox[c] \in Seq(Message)
  BY DEF MeetInv, MeetTypeInv, RoomInv, SignalTypeOK
<1>2. 1 \in 1..Len(inbox[c]) /\ Head(inbox[c]) = inbox[c][1] /\ Head(inbox[c]) \in Message
  BY <1>1, HeadMember
<1>3. role[c] # "none" /\ view[c].others = {partner[c]} /\ NoError(c)
  BY DEF Phases, PhaseOf
<1>4. Head(inbox[c]).type # "error"
  BY <1>2, <1>3 DEF NoError
<1>5. Head(inbox[c]).type # "joined"
  BY <1>3, HeadIntroduced, RoleKnown DEF PeerIds
<1>6. Head(inbox[c]).type # "peer-joined"
  BY <1>3, HeadIntroduced
<1>7. Head(inbox[c]).type \in RelayTypes \cup NoticeTypes
  BY <1>2, <1>4 DEF Message, ErrorMessage
<1>8. Head(inbox[c]).type \in AboutKnown
  BY <1>5, <1>6, <1>7 DEF AboutKnown, NoticeTypes
<1> QED BY <1>3, <1>8, HeadIntroduced

(* What it takes is a signal of it.                                        *)
LEMMA TakenFromPartner ==
    ASSUME MeetInv, ViewInv, Phases, NEW c \in Clients, TakesSignal(c)
    PROVE  /\ Head(inbox[c]).type \in RelayTypes /\ Sender(c) = partner[c]
           /\ role[c] # "none" /\ view'[c] = view[c]
           /\ Head(inbox[c]).type = "candidate" =>
                 /\ stage'[c] = "handle" /\ remote'[c] = remote[c]
                 /\ \/ /\ remote[c] # 0 /\ buffered'[c] = buffered[c]
                       /\ applied'[c] = Append(applied[c], Sender(c))
                    \/ /\ remote[c] = 0 /\ applied'[c] = applied[c]
                       /\ buffered'[c] = Append(buffered[c], Sender(c))
           /\ Head(inbox[c]).type # "candidate" =>
                 \/ KeepsPc(c)
                 \/ /\ remote'[c] = Sender(c) /\ buffered'[c] = <<>>
                    /\ applied'[c] = applied[c] \o buffered[c]
<1>1. stage[c] = "select" /\ inbox[c] # <<>> /\ view'[c] = Learn(view[c], Head(inbox[c]))
  BY DEF TakesSignal, ReadsLine
<1>2. "select" \in Paired
  BY DEF Paired, Selecting
<1>3. Head(inbox[c]).type \in AboutKnown /\ Sender(c) = partner[c]
  BY <1>1, <1>2, PartnerSpeaks
<1>4. role[c] # "none"
  BY <1>1, <1>2 DEF Phases, PhaseOf
<1>5. role[c] \in {"offerer", "answerer"}
  BY <1>4, RoleKnown
<1>6. /\ role[c] = "offerer" => Expected(c) = {"answer", "candidate", "peer-left"}
      /\ role[c] = "answerer" => Expected(c) = {"offer", "candidate", "peer-left"}
  BY <1>1 DEF Expected
<1>7. Head(inbox[c]).type # "peer-left"
  BY <1>5, <1>6 DEF TakesSignal
<1>8. Head(inbox[c]).type \in RelayTypes
  BY <1>3, <1>7 DEF AboutKnown
<1>9. view'[c] = view[c]
  BY <1>1, <1>8, RelayAssumption DEF Learn
<1>10. ASSUME Head(inbox[c]).type = "candidate"
       PROVE  /\ stage'[c] = "handle" /\ remote'[c] = remote[c]
              /\ \/ /\ remote[c] # 0 /\ buffered'[c] = buffered[c]
                    /\ applied'[c] = Append(applied[c], Sender(c))
                 \/ /\ remote[c] = 0 /\ applied'[c] = applied[c]
                    /\ buffered'[c] = Append(buffered[c], Sender(c))
  BY <1>5, <1>6, <1>10 DEF TakesSignal
<1>11. ASSUME Head(inbox[c]).type # "candidate"
       PROVE  \/ KeepsPc(c)
              \/ /\ remote'[c] = Sender(c) /\ buffered'[c] = <<>>
                 /\ applied'[c] = applied[c] \o buffered[c]
  BY <1>11 DEF TakesSignal
<1> QED BY <1>3, <1>4, <1>8, <1>9, <1>10, <1>11

(* What arrives at an attempt that is in a room is not a refusal.          *)
LEMMA NoRefusal ==
    ASSUME MeetInv, NEW c \in Clients, peerId[c] # 0, NEW m \in Message, Arrives(c, m)
    PROVE  m.type # "error"
<1>1. ASSUME Deliver(c), Head(outbox[c]) = "join" PROVE FALSE
  <2>1. outbox[c] \in Seq(Signals) /\ outbox[c] # <<>>
    BY <1>1 DEF Deliver, MeetInv, MeetTypeInv, RendezvousTypeOK
  <2>2. HasJoin(outbox[c])
    BY <1>1, <2>1, HeadMember DEF HasJoin
  <2> QED BY <2>2 DEF MeetInv, JoinsOnce
<1> QED BY <1>1, RoomAssumption DEF Arrives, JoinedMessage, Note

(* The ids in what arrives.                                                *)
LEMMA ArrivingIds ==
    ASSUME MeetInv, [MeetNext]_meetVars, NEW c \in Clients, NEW m \in Message, Arrives(c, m)
    PROVE  m.peer < nextPeer' /\ \A i, j \in m.others : i = j
<1>0. SignalTypeOK /\ Fresh /\ nextPeer \in Nat /\ nextPeer' \in Nat /\ nextPeer <= nextPeer'
  BY NextGrows DEF MeetInv, MeetTypeInv, RoomInv
<1>1. \A d \in Clients : peerId[d] \in Nat /\ peerId[d] < nextPeer'
  <2>1. \A d \in Clients : peerId[d] \in PeerIds => peerId[d] < nextPeer
    BY <1>0, SMTT(30) DEF Fresh, PeerIds
  <2>2. \A d \in Clients : peerId[d] \in PeerIds \cup {0}
    BY <1>0 DEF SignalTypeOK
  <2>3. 0 < nextPeer
    BY <1>0 DEF SignalTypeOK
  <2> QED BY <1>0, <2>1, <2>2, <2>3 DEF PeerIds
<1>2. CASE m = ErrorMessage
  <2>1. 0 < nextPeer'
    BY <1>0, <1>1
  <2> QED BY <1>2, <2>1 DEF ErrorMessage
<1>3. CASE m = JoinedMessage /\ Joins(c)
  <2>1. nextPeer' = nextPeer + 1
    BY <1>3, JoinEffect
  <2>2. Cardinality(rooms[Room]) < MaxRoomSize
    BY <1>3 DEF Joins, OnJoin
  <2>3. rooms[Room] \in SUBSET PeerIds
    BY <1>0, RoomType DEF SignalTypeOK
  <2>4. \A i \in rooms[Room] : rooms[Room] \ {i} = {}
    BY <2>2, <2>3, OnlyOne
  <2> QED BY <1>0, <1>3, <2>1, <2>4 DEF JoinedMessage
<1>4. CASE m = Note("peer-joined", nextPeer) /\ \E d \in Clients \ {c} : Joins(d)
  <2>1. nextPeer' = nextPeer + 1
    BY <1>4, JoinEffect
  <2> QED BY <1>0, <1>4, <2>1 DEF Note
<1>5. ASSUME NEW d \in Clients, NEW type, m = Note(type, peerId[d])
      PROVE  m.peer < nextPeer' /\ \A i, j \in m.others : i = j
  BY <1>1, <1>5 DEF Note
<1> QED BY <1>2, <1>3, <1>4, <1>5 DEF Arrives

-----------------------------------------------------------------------------
(***************************************************************************)
(* The room, and who has which id.                                         *)
(***************************************************************************)
LEMMA OneRoomStep ==
    ASSUME MeetInv, OneRoom, [MeetNext]_meetVars
    PROVE  OneRoom'
<1>0. SignalTypeOK /\ RoomInv /\ RendezvousTypeOK
  BY DEF MeetInv, MeetTypeInv, RoomInv
<1> DEFINE Kept == UNCHANGED peers
           Removed(i) == peers' = [peers EXCEPT ![i] = NoPeer]
           Calm == \A d \in Clients : ws'[d] # "closing"
<1>1. UNCHANGED ws => Calm
  BY DEF OneRoom
<1>2. ASSUME NEW i \in PeerIds, RemovePeer(i) PROVE Removed(i)
  BY <1>0, <1>2, RemovePeerEffect
<1>3. ASSUME Kept \/ \E i \in PeerIds : Removed(i)
      PROVE  \A i \in PeerIds : peers'[i] # NoPeer => peers'[i].room = Room
  BY <1>0, <1>3 DEF OneRoom, SignalTypeOK
<1>4. ASSUME NEW c \in Clients, OnError(c) \/ OnClose(c)
      PROVE  Calm /\ (Kept \/ \E i \in PeerIds : Removed(i))
  <2>1. Calm
    BY <1>0, <1>4 DEF OnError, OnClose, OneRoom, SignalTypeOK
  <2>2. Kept \/ \E i \in PeerIds : Removed(i)
    BY <1>0, <1>2, <1>4 DEF OnError, OnClose, Leave, SignalTypeOK
  <2> QED BY <2>1, <2>2
<1>5. ASSUME NEW c \in Clients, Deliver(c), ~Joins(c)
      PROVE  UNCHANGED ws /\ (Kept \/ \E i \in PeerIds : Removed(i))
  <2>1. Head(outbox[c]) \in Signals
    BY <1>0, <1>5 DEF Deliver, RendezvousTypeOK
  <2>2. CASE Head(outbox[c]) = "join"
    <3>1. OnJoinRefused(c, Room)
      BY <1>5, <2>2, RoomAssumption DEF Deliver, Handles, Joins
    <3> QED BY <3>1 DEF OnJoinRefused, Refuse
  <2>3. CASE Head(outbox[c]) \in RelayTypes
    <3>1. OnRelay(c, Head(outbox[c]))
      BY <1>5, <2>3, RoomAssumption DEF Deliver, Handles
    <3> QED BY <3>1 DEF OnRelay, Refuse
  <2>4. CASE Head(outbox[c]) = "bye"
    <3>1. (peerId[c] # 0 /\ OnBye(c)) \/ UNCHANGED signalVars
      BY <1>5, <2>4, RoomAssumption DEF Deliver, Handles
    <3>2. CASE peerId[c] # 0 /\ OnBye(c)
      BY <1>0, <1>2, <3>2 DEF OnBye, SignalTypeOK
    <3>3. CASE UNCHANGED signalVars
      BY <3>3 DEF signalVars
    <3> QED BY <3>1, <3>2, <3>3
  <2> QED BY <2>1, <2>2, <2>3, <2>4, RoomAssumption DEF Signals
<1>6. ASSUME NEW c \in Clients, Joins(c) PROVE OneRoom'
  <2>1. peers' = [peers EXCEPT ![nextPeer] = [ws |-> c, room |-> Room]] /\ UNCHANGED ws
    BY <1>6 DEF Joins, OnJoin
  <2> QED BY <1>0, <1>1, <2>1 DEF OneRoom, SignalTypeOK
<1>7. ASSUME NEW c \in Clients, Connect(c) PROVE Calm /\ Kept
  BY <1>0, <1>7 DEF Connect, OneRoom, SignalTypeOK
<1>8. ASSUME NEW c \in Clients, Read(c) \/ UNCHANGED signalVars PROVE UNCHANGED <<ws, peers>>
  BY <1>8 DEF Read, signalVars
<1>9. ASSUME NEW p \in Processes, Dial(p) \/ Stop(p) PROVE Calm /\ Kept
  BY <1>1, <1>7, <1>8, <1>9, UnusedType DEF Dial, Stop, signalVars
<1>10. ASSUME NEW c \in Clients,
              Attempt(c) \/ Gather(c) \/ PeerConnection(c) \/ LocalError(c) \/ SessionEnds(c)
       PROVE  Calm /\ Kept
  <2>1. Read(c) \/ UNCHANGED signalVars
    BY <1>10, AttemptIsSignal
       DEF Gather, PeerConnection, PcConnects, ChannelOpens, PcFails, PcMoves, LocalError, SessionEnds
  <2> QED BY <1>1, <1>8, <2>1
<1>11. ASSUME NEW c \in Clients, ConnectionLost(c) \/ ConnectionDropped(c)
       PROVE  Calm /\ (Kept \/ \E i \in PeerIds : Removed(i))
  BY <1>4, <1>11 DEF ConnectionLost, ConnectionDropped
<1>12. CASE UNCHANGED meetVars
  BY <1>12 DEF meetVars, signalVars, OneRoom
<1> QED BY <1>1, <1>3, <1>5, <1>6, <1>9, <1>10, <1>11, <1>12 DEF MeetNext, OneRoom

(* Who joins is told so, unless its connection is closing.                 *)
LEMMA JoinTold ==
    ASSUME MeetInv, OneRoom, NEW c \in Clients, Joins(c)
    PROVE  /\ ws[c] = "open" /\ peerId[c] = 0 /\ peerId'[c] = nextPeer /\ nextPeer \in PeerIds
           /\ JoinedMessage \in Message /\ inbox'[c] = Append(inbox[c], JoinedMessage)
           /\ outbox[c] # <<>> /\ Head(outbox[c]) = "join" /\ outbox'[c] = Tail(outbox[c])
<1>0. SignalTypeOK /\ RendezvousTypeOK
  BY DEF MeetInv, MeetTypeInv, RoomInv
<1>1. ws[c] = "open" /\ peerId[c] = 0
  BY DEF Joins, OnJoin, Receives, OneRoom
<1>2. inbox'[c] = Told(c, JoinedMessage)
  BY DEF Joins, OnJoin, JoinedMessage, Notify
<1>3. outbox[c] # <<>> /\ Head(outbox[c]) = "join" /\ outbox'[c] = Tail(outbox[c])
  BY <1>0 DEF Joins, Deliver, RendezvousTypeOK
<1>4. peerId'[c] = nextPeer /\ nextPeer \in PeerIds /\ JoinedMessage \in Message
  BY JoinEffect
<1> QED BY <1>1, <1>2, <1>3, <1>4 DEF Told

LEMMA OneJoins ==
    ASSUME MeetInv, NEW c \in Clients, NEW d \in Clients, Joins(c), Joins(d)
    PROVE  c = d
<1>1. peerId'[d] = nextPeer /\ nextPeer \in PeerIds
  BY JoinEffect
<1>2. d # c => peerId'[d] = peerId[d]
  BY JoinEffect
<1>3. nextPeer \in PeerIds => peerId[d] # nextPeer
  BY DEF MeetInv, MeetTypeInv, RoomInv, SignalTypeOK, Fresh
<1> QED BY <1>1, <1>2, <1>3

(* An id is gained by joining,                                             *)
LEMMA OwnIdBefore ==
    ASSUME MeetInv, [MeetNext]_meetVars, NEW c \in Clients, NEW i \in PeerIds, OwnId(c, i)'
    PROVE  OwnId(c, i) \/ (Joins(c) /\ i = nextPeer)
<1>0. SignalTypeOK /\ StepOf(c) /\ view[c].me \in PeerIds \cup {0}
  BY EveryStep DEF MeetInv, MeetTypeInv, RoomInv, SignalTypeOK
<1>1. ASSUME view'[c].me = i PROVE OwnId(c, i)
  <2>1. CASE view'[c] = view[c]
    BY <1>1, <2>1 DEF OwnId
  <2>2. CASE ReadsLine(c)
    <3>1. inbox[c] \in Seq(Message) /\ inbox[c] # <<>> /\ view'[c] = Learn(view[c], Head(inbox[c]))
      BY <2>2 DEF ReadsLine
    <3>2. 1 \in 1..Len(inbox[c]) /\ Head(inbox[c]) = inbox[c][1] /\ Head(inbox[c]) \in Message
      BY <3>1, HeadMember
    <3>3. view'[c].me = IF Head(inbox[c]).type = "joined" THEN Head(inbox[c]).peer ELSE view[c].me
      BY <1>0, <3>1, <3>2, LearnOthers DEF SignalTypeOK
    <3> QED BY <1>1, <3>2, <3>3 DEF OwnId
  <2>3. view'[c] = view[c] \/ ReadsLine(c)
    BY <1>0 DEF StepOf, Idle, Dials, Stops, LearnsRole, TakesSignal, SendsSignal, Proceeds, PcChanges,
               KeepsLine
  <2> QED BY <2>1, <2>2, <2>3
<1>2. ASSUME NEW k \in 1..Len(inbox'[c]), inbox'[c][k].type = "joined", inbox'[c][k].peer = i
      PROVE  OwnId(c, i) \/ (Joins(c) /\ i = nextPeer)
  <2>1. CASE \E l \in 1..Len(inbox[c]) : inbox'[c][k] = inbox[c][l]
    BY <1>2, <2>1 DEF OwnId
  <2>2. ASSUME NEW m \in Message, Arrives(c, m), inbox'[c][k] = m
        PROVE  Joins(c) /\ i = nextPeer
    BY <1>2, <2>2, RoomAssumption DEF Arrives, ErrorMessage, JoinedMessage, Note
  <2> QED BY <1>0, <2>1, <2>2, InboxEffect
<1> QED BY <1>1, <1>2 DEF OwnId

(* and is kept.                                                            *)
LEMMA OwnIdAfter ==
    ASSUME MeetInv, [MeetNext]_meetVars, NEW c \in Clients, NEW i \in PeerIds, OwnId(c, i)
    PROVE  OwnId(c, i)'
<1>0. SignalTypeOK /\ StepOf(c) /\ inbox[c] \in Seq(Message) /\ i # 0
  BY EveryStep DEF MeetInv, MeetTypeInv, RoomInv, SignalTypeOK, PeerIds
<1>1. CASE view[c].me = i
  BY <1>0, <1>1, MeKept DEF OwnId
<1>2. ASSUME NEW k \in 1..Len(inbox[c]), inbox[c][k].type = "joined", inbox[c][k].peer = i
      PROVE  OwnId(c, i)'
  <2>1. CASE inbox'[c] = inbox[c]
    BY <1>2, <2>1 DEF OwnId
  <2>2. ASSUME NEW m \in Message, inbox'[c] = Append(inbox[c], m) PROVE OwnId(c, i)'
    <3>1. Len(inbox'[c]) = Len(inbox[c]) + 1 /\ inbox'[c][k] = inbox[c][k] /\ Len(inbox[c]) \in Nat
      BY <1>0, <2>2, AppendProperties
    <3>2. k \in 1..Len(inbox'[c])
      BY <3>1
    <3> QED BY <1>2, <3>1, <3>2 DEF OwnId
  <2>3. CASE ReadsLine(c)
    <3>1. /\ inbox[c] # <<>> /\ view'[c] = Learn(view[c], Head(inbox[c]))
          /\ inbox'[c] = Tail(inbox[c])
      BY <2>3 DEF ReadsLine
    <3>2. /\ Head(inbox[c]) = inbox[c][1] /\ Len(inbox[c]) \in Nat
          /\ Len(Tail(inbox[c])) = Len(inbox[c]) - 1
          /\ \A l \in 1..Len(Tail(inbox[c])) : Tail(inbox[c])[l] = inbox[c][l + 1]
      BY <1>0, <3>1, HeadTailProperties
    <3>3. CASE k = 1
      BY <1>2, <3>1, <3>2, <3>3 DEF OwnId, Learn
    <3>4. CASE k # 1
      <4>1. k - 1 \in 1..Len(inbox'[c]) /\ (k - 1) + 1 = k
        BY <3>1, <3>2, <3>4
      <4>2. inbox'[c][k - 1] = inbox[c][k]
        BY <3>1, <3>2, <4>1
      <4> QED BY <1>2, <4>1, <4>2 DEF OwnId
    <3> QED BY <3>3, <3>4
  <2>4. inbox'[c] = inbox[c] \/ ReadsLine(c) \/ \E m \in Message : inbox'[c] = Append(inbox[c], m)
    BY <1>0 DEF StepOf, Idle, Receiving, Dials, Stops, LearnsRole, TakesSignal, SendsSignal,
               Proceeds, PcChanges, KeepsLine
  <2> QED BY <2>1, <2>2, <2>3, <2>4
<1> QED BY <1>1, <1>2 DEF OwnId

LEMMA OneOwnerStep ==
    ASSUME MeetInv, OneRoom, OneOwner, HandedOut, [MeetNext]_meetVars
    PROVE  OneOwner'
<1>0. SignalTypeOK /\ Fresh /\ nextPeer \in Nat
  BY DEF MeetInv, MeetTypeInv, RoomInv, SignalTypeOK
<1>1. \A c \in Clients : ~OwnId(c, nextPeer)
  <2>1. \A c \in Clients : view[c].me < nextPeer /\ view[c].me \in Nat
    BY <1>0 DEF MeetInv, ByAge, SignalTypeOK, PeerIds
  <2>2. \A c \in Clients : \A k \in 1..Len(inbox[c]) : inbox[c][k].peer < nextPeer
    BY DEF HandedOut
  <2>3. ~(nextPeer < nextPeer)
    BY <1>0
  <2> QED BY <2>1, <2>2, <2>3 DEF OwnId
<1>2. ASSUME NEW c \in Clients, NEW d \in Clients, NEW i \in PeerIds, OwnId(c, i)', OwnId(d, i)'
      PROVE  c = d
  <2>1. OwnId(c, i) \/ (Joins(c) /\ i = nextPeer)
    BY <1>2, OwnIdBefore
  <2>2. OwnId(d, i) \/ (Joins(d) /\ i = nextPeer)
    BY <1>2, OwnIdBefore
  <2>3. CASE OwnId(c, i) /\ OwnId(d, i)
    BY <2>3 DEF OneOwner
  <2>4. CASE Joins(c) /\ Joins(d)
    BY <2>4, OneJoins
  <2> QED BY <1>1, <2>1, <2>2, <2>3, <2>4
<1>3. ASSUME NEW c \in Clients, peerId'[c] # 0, NEW i \in PeerIds
      PROVE  OwnId(c, i)' <=> i = peerId'[c]
  <2>1. StepOf(c)
    BY EveryStep
  <2>2. CASE Joins(c)
    <3>1. peerId'[c] = nextPeer /\ inbox'[c] = Append(inbox[c], JoinedMessage) /\ inbox[c] \in Seq(Message)
      BY <1>0, <2>2, JoinTold DEF SignalTypeOK
    <3>2. Len(inbox[c]) + 1 \in 1..Len(inbox'[c]) /\ inbox'[c][Len(inbox[c]) + 1] = JoinedMessage
      BY <3>1, AppendProperties, JoinEffect, <2>2
    <3>3. i = nextPeer => OwnId(c, i)'
      BY <3>2 DEF OwnId, JoinedMessage
    <3>4. Untold(c)
      BY <2>2, JoinEffect
    <3>5. ~OwnId(c, i)
      BY <3>4 DEF Untold, OwnId, Decisive, PeerIds
    <3> QED BY <3>1, <3>3, <3>5, OwnIdBefore
  <2>3. CASE ~Joins(c)
    <3>1. peerId'[c] = peerId[c]
      BY <1>3, <2>1, <2>3
         DEF StepOf, Idle, Dials, Stops, LearnsRole, TakesSignal, SendsSignal, Proceeds, PcChanges,
             KeepsLine, ReadsLine
    <3>2. OwnId(c, i) <=> i = peerId[c]
      BY <1>3, <3>1 DEF OneOwner
    <3> QED BY <2>3, <3>1, <3>2, OwnIdBefore, OwnIdAfter
  <2> QED BY <2>2, <2>3
<1> QED BY <1>2, <1>3 DEF OneOwner

LEMMA HandedOutStep ==
    ASSUME MeetInv, HandedOut, [MeetNext]_meetVars
    PROVE  HandedOut'
<1>0. /\ SignalTypeOK /\ RendezvousTypeOK
      /\ nextPeer \in Nat /\ nextPeer' \in Nat /\ nextPeer <= nextPeer'
  BY NextGrows DEF MeetInv, MeetTypeInv, RoomInv
<1> SUFFICES ASSUME NEW c \in Clients
             PROVE  /\ partner'[c] < nextPeer'
                    /\ \A k \in 1..Len(inbox'[c]) :
                          inbox'[c][k].peer < nextPeer' /\ \A i, j \in inbox'[c][k].others : i = j
  BY DEF HandedOut
<1>1. StepOf(c)
  BY EveryStep
<1>2. inbox[c] \in Seq(Message) /\ partner[c] \in Nat
  BY <1>0 DEF SignalTypeOK, RendezvousTypeOK, PeerIds
<1>3. \A k \in 1..Len(inbox[c]) : inbox[c][k] \in Message /\ inbox[c][k].peer \in Nat
  <2>1. \A k \in 1..Len(inbox[c]) : inbox[c][k] \in Message
    BY <1>2, ElementOfSeq
  <2> QED BY <2>1 DEF Message, ErrorMessage, PeerIds
<1>4. partner'[c] < nextPeer'
  <2>1. CASE partner'[c] = partner[c]
    BY <1>0, <1>2, <2>1 DEF HandedOut
  <2>2. CASE LearnsRole(c)
    <3>1. inbox[c] # <<>>
      BY <2>2 DEF LearnsRole, ReadsLine
    <3>2. 1 \in 1..Len(inbox[c]) /\ Head(inbox[c]) = inbox[c][1]
      BY <1>2, <3>1, HeadMember
    <3>3. Head(inbox[c]).peer < nextPeer /\ Head(inbox[c]).peer \in Nat
      BY <1>3, <3>2 DEF HandedOut
    <3>4. CASE partner'[c] = Sender(c)
      BY <1>0, <3>3, <3>4 DEF Sender
    <3>5. CASE Head(inbox[c]).type = "joined" /\ partner'[c] \in Head(inbox[c]).others
      <4>1. partner'[c] < Head(inbox[c]).peer
        BY <3>2, <3>5 DEF MeetInv, ByAge
      <4>2. partner'[c] \in PeerIds
        BY <1>0, <3>1, <3>5, SenderType
      <4> QED BY <1>0, <3>3, <4>1, <4>2 DEF PeerIds
    <3> QED BY <2>1, <2>2, <3>4, <3>5 DEF LearnsRole, KeepsRole
  <2>3. partner'[c] = partner[c] \/ LearnsRole(c)
    BY <1>1 DEF StepOf, Idle, Dials, Stops, TakesSignal, SendsSignal, Proceeds, PcChanges, KeepsRole
  <2> QED BY <2>1, <2>2, <2>3
<1>5. ASSUME NEW k \in 1..Len(inbox'[c])
      PROVE  inbox'[c][k].peer < nextPeer' /\ \A i, j \in inbox'[c][k].others : i = j
  <2>1. ASSUME NEW l \in 1..Len(inbox[c]), inbox'[c][k] = inbox[c][l]
        PROVE  inbox'[c][k].peer < nextPeer' /\ \A i, j \in inbox'[c][k].others : i = j
    <3>1. inbox[c][l].peer < nextPeer /\ \A i, j \in inbox[c][l].others : i = j
      BY DEF HandedOut
    <3>2. inbox[c][l].peer < nextPeer'
      BY <1>0, <1>3, <3>1
    <3> QED BY <2>1, <3>1, <3>2
  <2>2. ASSUME NEW m \in Message, Arrives(c, m), inbox'[c][k] = m
        PROVE  inbox'[c][k].peer < nextPeer' /\ \A i, j \in inbox'[c][k].others : i = j
    BY <2>2, ArrivingIds
  <2> QED BY <1>0, <1>1, <2>1, <2>2, InboxEffect
<1> QED BY <1>4, <1>5

-----------------------------------------------------------------------------
(***************************************************************************)
(* Where an attempt stands.                                                *)
(***************************************************************************)
LEMMA StagesDiffer ==
    /\ Paired \cap {"none", "joining", "alone"} = {} /\ Paired \cap Ended = {}
    /\ {"joining", "none", "alone"} \cap Ended = {}
    /\ {"prepare", "select", "handle", "settle", "answering", "session"} \subseteq Paired
    /\ Stages = Paired \cup Ended \cup {"none", "joining", "alone"}
BY DEF Paired, Selecting, Ended, Stages, Establishing

(* No bye is on its way from an attempt that goes on.                      *)
LEMMA NoByeYet ==
    ASSUME MeetInv, Phases, NEW c \in Clients, Deliver(c), stage[c] \notin Ended
    PROVE  outbox[c] # <<>> /\ outbox'[c] = Tail(outbox[c]) /\ Head(outbox[c]) # "bye"
<1>1. RendezvousTypeOK /\ outbox[c] \in Seq(Signals) /\ outbox[c] # <<>>
  BY DEF Deliver, MeetInv, MeetTypeInv, RendezvousTypeOK
<1>2. outbox'[c] = Tail(outbox[c])
  BY <1>1 DEF Deliver, RendezvousTypeOK
<1>3. Head(outbox[c]) # "bye"
  BY <1>1, HeadMember DEF Phases, PhaseOf
<1> QED BY <1>1, <1>2, <1>3

LEMMA NoErrorKept ==
    ASSUME MeetInv, [MeetNext]_meetVars, NEW c \in Clients, NoError(c), peerId[c] # 0
    PROVE  NoError(c)'
<1>1. SignalTypeOK /\ StepOf(c)
  BY EveryStep DEF MeetInv, MeetTypeInv, RoomInv
<1>2. ASSUME NEW k \in 1..Len(inbox'[c]) PROVE inbox'[c][k].type # "error"
  BY <1>1, <1>2, InboxEffect, NoRefusal DEF NoError
<1> QED BY <1>2 DEF NoError

LEMMA ByeStep ==
    ASSUME MeetInv, Phases, NEW c \in Clients, StepOf(c),
           NEW k \in 1..Len(outbox'[c]), outbox'[c][k] = "bye"
    PROVE  stage'[c] \in Ended
<1>1. RendezvousTypeOK
  BY DEF MeetInv, MeetTypeInv
<1>2. CASE \E l \in 1..Len(outbox[c]) : outbox'[c][k] = outbox[c][l]
  <2>1. stage[c] \in Ended
    BY <1>2 DEF Phases, PhaseOf
  <2>2. stage'[c] = stage[c] \/ stage'[c] \in Ended
    BY <2>1 DEF StepOf, Idle, Dials, Stops, LearnsRole, TakesSignal, SendsSignal, Proceeds, PcChanges,
                Ended
  <2> QED BY <2>1, <2>2
<1>3. CASE Stops(c)
  BY <1>3 DEF Stops
<1> QED BY <1>1, <1>2, <1>3, OutboxMember

LEMMA JoinAlone == Tail(<<"join">>) = <<>>
<1> DEFINE q == <<"join">>
<1>1. q \in Seq({"join"}) /\ q # <<>> /\ Len(q) = 1
  OBVIOUS
<1> HIDE DEF q
<1>2. Tail(q) \in Seq({"join"}) /\ Len(Tail(q)) = 0
  BY <1>1, HeadTailProperties
<1> QED BY <1>2, EmptySeq DEF q

LEMMA WaitingStep ==
    ASSUME MeetInv, OneRoom, Phases, [MeetNext]_meetVars, NEW c \in Clients, Idle(c),
           stage[c] = "joining"
    PROVE  Waiting(c)'
<1>0. /\ SignalTypeOK /\ RendezvousTypeOK /\ Waiting(c) /\ inbox[c] \in Seq(Message)
      /\ stage[c] \notin Ended
  BY StagesDiffer DEF MeetInv, MeetTypeInv, RoomInv, SignalTypeOK, Phases, PhaseOf
<1>1. ASSUME outbox[c] = <<>>
      PROVE  outbox'[c] = <<>> /\ peerId'[c] = peerId[c] /\ ~Deliver(c) /\ ~Joins(c)
  BY <1>1 DEF Idle, Joins, Deliver
<1>2. CASE outbox[c] = <<>> /\ peerId[c] = 0 /\ inbox[c] \in {<<>>, <<ErrorMessage>>}
  <2>1. outbox'[c] = <<>> /\ peerId'[c] = 0 /\ inbox'[c] = inbox[c]
    BY <1>1, <1>2 DEF Idle, Receiving, Arrives
  <2> QED BY <1>2, <2>1 DEF Waiting
<1>3. CASE outbox[c] = <<"join">> /\ peerId[c] = 0 /\ inbox[c] = <<>>
  <2>1. CASE Joins(c)
    <3>1. /\ inbox'[c] = <<JoinedMessage>> /\ peerId'[c] # 0
          /\ outbox'[c] = <<>>
      <4>1. /\ inbox'[c] = Append(inbox[c], JoinedMessage) /\ peerId'[c] \in PeerIds
            /\ outbox'[c] = Tail(outbox[c])
        BY <2>1, JoinTold
      <4>2. peerId'[c] # 0
        BY <4>1 DEF PeerIds
      <4>3. outbox'[c] = <<>>
        BY <1>3, <4>1, JoinAlone
      <4> QED BY <1>3, <4>1, <4>2, <4>3
    <3>2. inbox'[c] # <<>> /\ Head(inbox'[c]).type = "joined" /\ NoError(c)'
      BY <3>1 DEF JoinedMessage, NoError
    <3> QED BY <3>1, <3>2 DEF Waiting
  <2>2. CASE ~Joins(c)
    <3>1. peerId'[c] = 0
      BY <1>3, <2>2 DEF Idle
    <3>2. CASE inbox'[c] = inbox[c]
      <4>1. outbox'[c] \in {<<>>, <<"join">>}
        BY <1>3, JoinAlone DEF Idle
      <4> QED BY <1>3, <3>1, <3>2, <4>1 DEF Waiting
    <3>3. ASSUME NEW m \in Message, Arrives(c, m), inbox'[c] = Append(inbox[c], m)
          PROVE  Waiting(c)'
      <4>1. m = ErrorMessage /\ Deliver(c)
        BY <1>3, <2>2, <3>3 DEF Arrives
      <4>2. inbox'[c] = <<ErrorMessage>>
        BY <1>3, <3>3, <4>1
      <4>3. outbox'[c] = <<>>
        BY <1>0, <1>3, <4>1, NoByeYet, JoinAlone
      <4> QED BY <3>1, <4>2, <4>3 DEF Waiting
    <3> QED BY <3>2, <3>3 DEF Idle, Receiving
  <2> QED BY <2>1, <2>2
<1>4. CASE /\ outbox[c] = <<>> /\ peerId[c] # 0 /\ inbox[c] # <<>>
           /\ Head(inbox[c]).type = "joined" /\ NoError(c)
  <2>1. outbox'[c] = <<>> /\ peerId'[c] # 0
    BY <1>1, <1>4
  <2>2. NoError(c)'
    BY <1>4, NoErrorKept
  <2>3. inbox'[c] # <<>> /\ Head(inbox'[c]) = Head(inbox[c])
    <3>1. CASE inbox'[c] = inbox[c]
      BY <1>4, <3>1
    <3>2. ASSUME NEW m \in Message, inbox'[c] = Append(inbox[c], m)
          PROVE  inbox'[c] # <<>> /\ Head(inbox'[c]) = Head(inbox[c])
      <4>1. 1 \in 1..Len(inbox[c]) /\ Head(inbox[c]) = inbox[c][1] /\ Len(inbox[c]) \in Nat
        BY <1>0, <1>4, HeadMember
      <4>2. /\ inbox'[c] \in Seq(Message) /\ Len(inbox'[c]) = Len(inbox[c]) + 1
            /\ inbox'[c][1] = inbox[c][1]
        BY <1>0, <3>2, <4>1, AppendProperties
      <4>3. inbox'[c] # <<>>
        BY <4>1, <4>2, EmptySeq
      <4> QED BY <4>1, <4>2, <4>3, HeadMember
    <3> QED BY <3>1, <3>2 DEF Idle, Receiving
  <2> QED BY <1>4, <2>1, <2>2, <2>3 DEF Waiting
<1> QED BY <1>0, <1>2, <1>3, <1>4 DEF Waiting

LEMMA QuietPhase ==
    ASSUME NEW c \in Clients, PhaseOf(c), PcChanges(c)
    PROVE  PhaseOf(c)'
BY DEF PhaseOf, PcChanges, KeepsLine, KeepsRole, Waiting, NoError

LEMMA PhaseStep ==
    ASSUME MeetInv, ViewInv, OneRoom, HandedOut, Phases, Described, [MeetNext]_meetVars,
           NEW c \in Clients
    PROVE  PhaseOf(c)'
<1>0. /\ SignalTypeOK /\ RendezvousTypeOK /\ PhaseOf(c) /\ StepOf(c) /\ DescribedOf(c)
      /\ stage[c] \in Stages /\ inbox[c] \in Seq(Message)
      /\ view[c] \in [me : PeerIds \cup {0}, others : SUBSET PeerIds]
  BY EveryStep DEF MeetInv, MeetTypeInv, RoomInv, SignalTypeOK, RendezvousTypeOK, Phases, Described
<1>1. \A k \in 1..Len(outbox'[c]) : outbox'[c][k] = "bye" => stage'[c] \in Ended
  BY <1>0, ByeStep
<1> DEFINE Past == /\ role'[c] # "none" /\ view'[c].others = {partner'[c]}
                   /\ peerId'[c] # 0 /\ NoError(c)'
<1>2. ASSUME stage'[c] \in Paired, Past,
             stage'[c] = "prepare" => role'[c] = "offerer",
             stage'[c] = "answering" => role'[c] = "answerer"
      PROVE  PhaseOf(c)'
  BY <1>1, <1>2, StagesDiffer DEF PhaseOf
<1>3. ASSUME stage'[c] \in Ended PROVE PhaseOf(c)'
  BY <1>1, <1>3, StagesDiffer DEF PhaseOf
<1>4. ASSUME stage[c] \in Paired, view'[c] = view[c], KeepsRole(c), peerId'[c] = peerId[c]
      PROVE  Past
  BY <1>0, <1>4, NoErrorKept DEF PhaseOf, KeepsRole
<1>5. CASE Idle(c)
  <2>1. stage'[c] = stage[c] /\ role'[c] = role[c] /\ partner'[c] = partner[c] /\ view'[c] = view[c]
    BY <1>5 DEF Idle, KeepsRole
  <2>2. ASSUME stage[c] \in Paired \cup {"alone"} PROVE peerId'[c] # 0 /\ NoError(c)'
    <3>1. peerId[c] # 0 /\ NoError(c) /\ stage[c] \notin Ended
      BY <1>0, <2>2, StagesDiffer DEF PhaseOf
    <3>2. peerId'[c] # 0
      BY <1>5, <3>1, NoByeYet, JoinEffect DEF Idle, PeerIds
    <3> QED BY <3>1, <3>2, NoErrorKept
  <2>3. CASE stage[c] = "none"
    <3>1. outbox[c] = <<>> /\ ws[c] = "new" /\ role[c] = "none"
      BY <1>0, <2>3 DEF PhaseOf
    <3>2. outbox'[c] = <<>> /\ ws'[c] = "new"
      BY <1>5, <3>1 DEF Idle
    <3> QED BY <1>1, <2>1, <2>3, <3>1, <3>2, StagesDiffer DEF PhaseOf
  <2>4. CASE stage[c] = "joining"
    <3>1. role[c] = "none" /\ Waiting(c)'
      BY <1>0, <1>5, <2>4, WaitingStep DEF PhaseOf
    <3> QED BY <1>1, <2>1, <2>4, <3>1, StagesDiffer DEF PhaseOf
  <2>5. CASE stage[c] = "alone"
    <3>1. role[c] = "none" /\ view[c].others = {}
      BY <1>0, <2>5 DEF PhaseOf
    <3> QED BY <1>1, <2>1, <2>2, <2>5, <3>1, StagesDiffer DEF PhaseOf
  <2>6. CASE stage[c] \in Paired
    <3>1. Past
      BY <1>0, <2>1, <2>2, <2>6 DEF PhaseOf
    <3> QED BY <1>0, <1>2, <2>1, <2>6, <3>1 DEF PhaseOf
  <2> QED BY <1>0, <1>3, <2>1, <2>3, <2>4, <2>5, <2>6, StagesDiffer
<1>6. CASE Dials(c)
  <2>1. /\ stage'[c] = "joining" /\ role'[c] = role[c] /\ outbox'[c] = <<"join">>
        /\ inbox'[c] = inbox[c] /\ peerId'[c] = peerId[c] /\ ws[c] = "new"
    BY <1>6 DEF Dials, KeepsRole
  <2>2. role[c] = "none"
    BY <1>0, <1>6 DEF Dials, PhaseOf
  <2>3. inbox[c] = <<>> /\ peerId[c] = 0
    BY <2>1 DEF MeetInv, MeetTypeInv, RoomInv, JoinsOnce, Fresh
  <2>4. Waiting(c)'
    BY <2>1, <2>3 DEF Waiting
  <2> QED BY <1>1, <2>1, <2>2, <2>4, StagesDiffer DEF PhaseOf
<1>7. CASE Stops(c)
  BY <1>3, <1>7 DEF Stops
<1>8. CASE LearnsRole(c)
  <2>1. /\ inbox[c] # <<>> /\ peerId'[c] = peerId[c] /\ view'[c] = Learn(view[c], Head(inbox[c]))
        /\ outbox'[c] = outbox[c]
    BY <1>8 DEF LearnsRole, ReadsLine
  <2>2. 1 \in 1..Len(inbox[c]) /\ Head(inbox[c]) = inbox[c][1] /\ Head(inbox[c]) \in Message
    BY <1>0, <2>1, HeadMember
  <2>3. CASE stage[c] = "joining" /\ Head(inbox[c]).type = "joined"
    <3>1. role[c] = "none" /\ Waiting(c)
      BY <1>0, <2>3 DEF PhaseOf
    <3>2. inbox[c] # <<ErrorMessage>>
      BY <2>2, <2>3 DEF ErrorMessage
    <3>3. peerId[c] # 0 /\ NoError(c)
      BY <2>1, <3>1, <3>2 DEF Waiting
    <3>4. NoError(c)'
      BY <3>3, NoErrorKept
    <3>5. view'[c].others = Head(inbox[c]).others
      BY <2>1, <2>3 DEF Learn
    <3>6. CASE Head(inbox[c]).others = {} /\ stage'[c] = "alone" /\ KeepsRole(c)
      BY <1>1, <2>1, <3>1, <3>3, <3>4, <3>5, <3>6, StagesDiffer DEF PhaseOf, KeepsRole
    <3>7. CASE /\ stage'[c] = "select" /\ role'[c] = "answerer"
               /\ partner'[c] \in Head(inbox[c]).others
      <4>1. Head(inbox[c]).others = {partner'[c]}
        BY <2>2, <3>7 DEF HandedOut
      <4> QED BY <1>2, <2>1, <3>3, <3>4, <3>5, <3>7, <4>1, StagesDiffer
    <3> QED BY <1>8, <2>3, <3>6, <3>7 DEF LearnsRole
  <2>4. CASE /\ stage[c] = "alone" /\ Head(inbox[c]).type = "peer-joined"
             /\ stage'[c] = "prepare" /\ role'[c] = "offerer" /\ partner'[c] = Sender(c)
    <3>1. view[c].others = {} /\ peerId[c] # 0 /\ NoError(c)
      BY <1>0, <2>4 DEF PhaseOf
    <3>2. view'[c].others = {partner'[c]}
      BY <1>0, <2>1, <2>4, <3>1 DEF Learn, Sender
    <3>3. NoError(c)'
      BY <3>1, NoErrorKept
    <3> QED BY <1>2, <2>1, <2>4, <3>1, <3>2, <3>3, StagesDiffer
  <2> QED BY <1>8, <2>3, <2>4 DEF LearnsRole
<1>9. CASE TakesSignal(c)
  <2>1. /\ stage[c] = "select" /\ KeepsRole(c) /\ peerId'[c] = peerId[c] /\ view'[c] = view[c]
        /\ stage'[c] = "handle" \/ (stage'[c] = "answering" /\ role'[c] = "answerer")
    BY <1>9, TakenFromPartner DEF TakesSignal, ReadsLine, KeepsRole
  <2> QED BY <1>2, <1>4, <2>1, StagesDiffer
<1>10. CASE SendsSignal(c)
  <2>1. KeepsRole(c) /\ KeepsLine(c) /\ peerId'[c] = peerId[c] /\ view'[c] = view[c]
    BY <1>10 DEF SendsSignal, KeepsLine
  <2>2. stage[c] \in Paired \cup Ended
    <3>1. CASE role[c] = "offerer" \/ remote[c] # 0
      <4>1. role[c] # "none"
        BY <1>0, <3>1 DEF DescribedOf
      <4> QED BY <1>0, <4>1, StagesDiffer DEF PhaseOf
    <3> QED BY <1>10, <3>1, StagesDiffer DEF SendsSignal
  <2>3. CASE stage[c] \in Ended
    BY <1>3, <1>10, <2>3 DEF SendsSignal, Ended
  <2>4. CASE stage[c] \in Paired
    <3>1. stage'[c] \in Paired /\ stage'[c] \in {stage[c], "select", "handle"}
      BY <1>10, <2>4, StagesDiffer DEF SendsSignal
    <3> QED BY <1>0, <1>2, <1>4, <2>1, <2>4, <3>1 DEF PhaseOf, KeepsRole
  <2> QED BY <2>2, <2>3, <2>4
<1>11. CASE Proceeds(c)
  <2>1. /\ stage[c] \in Paired /\ KeepsRole(c) /\ peerId'[c] = peerId[c] /\ view'[c] = view[c]
        /\ stage'[c] \in {"select", "settle", "session"}
    BY <1>11, StagesDiffer DEF Proceeds, KeepsLine
  <2> QED BY <1>2, <1>4, <2>1, StagesDiffer
<1>12. CASE PcChanges(c)
  BY <1>0, <1>12, QuietPhase
<1> QED BY <1>0, <1>5, <1>6, <1>7, <1>8, <1>9, <1>10, <1>11, <1>12 DEF StepOf

-----------------------------------------------------------------------------
(***************************************************************************)
(* Who sent what, and what it was used for.                                *)
(***************************************************************************)
LEMMA RoleKept ==
    ASSUME Phases, NEW c \in Clients, StepOf(c), role[c] # "none"
    PROVE  KeepsRole(c)
<1>1. ~LearnsRole(c)
  BY DEF Phases, PhaseOf, LearnsRole
<1> QED BY <1>1 DEF StepOf, Idle, Dials, Stops, TakesSignal, SendsSignal, Proceeds, PcChanges

(* The id the server knows an attempt by is the one it knows itself.       *)
LEMMA OwnPeerId ==
    ASSUME MeetInv, OneOwner, NEW c \in Clients, peerId[c] # 0, view[c].me # 0
    PROVE  view[c].me = peerId[c]
<1>1. view[c].me \in PeerIds
  BY DEF MeetInv, MeetTypeInv, RoomInv, SignalTypeOK
<1> QED BY <1>1 DEF OneOwner, OwnId

LEMMA SentByStep ==
    ASSUME MeetInv, OneOwner, Phases, Described, [MeetNext]_meetVars, NEW type, NEW r,
           <<type, r>> \in {<<"offer", "offerer">>, <<"answer", "answerer">>}, SentBy(type, r)
    PROVE  \A c \in Clients :
               /\ \A k \in 1..Len(outbox'[c]) : outbox'[c][k] = type => role'[c] = r
               /\ \A k \in 1..Len(inbox'[c]) :
                     inbox'[c][k].type = type =>
                        \E d \in Clients : view'[d].me = inbox'[c][k].peer /\ role'[d] = r
<1>0. SignalTypeOK /\ RendezvousTypeOK /\ \A c \in Clients : StepOf(c)
  BY EveryStep DEF MeetInv, MeetTypeInv, RoomInv
<1>1. /\ (type = "offer" /\ r = "offerer") \/ (type = "answer" /\ r = "answerer")
      /\ type \in RelayTypes /\ r # "none"
  BY RoomAssumption
<1>2. ASSUME NEW c \in Clients, NEW k \in 1..Len(outbox'[c]), outbox'[c][k] = type
      PROVE  role'[c] = r
  <2>1. CASE \E l \in 1..Len(outbox[c]) : outbox'[c][k] = outbox[c][l]
    <3>1. role[c] = r
      BY <1>2, <2>1 DEF SentBy
    <3> QED BY <1>0, <1>1, <3>1, RoleKept DEF KeepsRole
  <2>2. CASE /\ SendsSignal(c)
             /\ \/ outbox'[c][k] = "offer" /\ stage[c] = "prepare"
                \/ outbox'[c][k] = "answer" /\ stage[c] = "answering"
    BY <1>1, <1>2, <2>2 DEF SendsSignal, KeepsRole, Phases, PhaseOf
  <2> QED BY <1>0, <1>1, <1>2, <2>1, <2>2, OutboxMember
<1>3. ASSUME NEW c \in Clients, NEW k \in 1..Len(inbox'[c]), inbox'[c][k].type = type
      PROVE  \E d \in Clients : view'[d].me = inbox'[c][k].peer /\ role'[d] = r
  <2>1. ASSUME NEW l \in 1..Len(inbox[c]), inbox'[c][k] = inbox[c][l]
        PROVE  \E d \in Clients : view'[d].me = inbox'[c][k].peer /\ role'[d] = r
    <3>1. PICK d \in Clients : view[d].me = inbox[c][l].peer /\ role[d] = r
      BY <1>3, <2>1 DEF SentBy
    <3>2. role'[d] = r /\ view[d].me # 0
      BY <1>0, <1>1, <3>1, RoleKept, RoleKnown DEF KeepsRole, PeerIds
    <3>3. view'[d].me = view[d].me
      BY <3>2, MeKept
    <3> QED BY <2>1, <3>1, <3>2, <3>3
  <2>2. ASSUME NEW m \in Message, Arrives(c, m), inbox'[c][k] = m
        PROVE  \E d \in Clients : view'[d].me = inbox'[c][k].peer /\ role'[d] = r
    <3>1. PICK d \in Clients : /\ peerId[d] # 0 /\ Deliver(d)
                               /\ Head(outbox[d]) = type /\ m.peer = peerId[d]
      BY <1>1, <1>3, <2>2, RoomAssumption DEF Arrives, ErrorMessage, JoinedMessage, Note
    <3>2. outbox[d] \in Seq(Signals) /\ outbox[d] # <<>>
      BY <1>0, <3>1 DEF Deliver, RendezvousTypeOK
    <3>3. role[d] = r
      BY <3>1, <3>2, HeadMember DEF SentBy
    <3>4. role'[d] = r /\ view[d].me \in PeerIds
      BY <1>0, <1>1, <3>3, RoleKept, RoleKnown DEF KeepsRole
    <3>5. view[d].me # 0 /\ view'[d].me = view[d].me /\ view[d].me = peerId[d]
      BY <3>1, <3>4, MeKept, OwnPeerId DEF PeerIds
    <3> QED BY <2>2, <3>1, <3>4, <3>5
  <2> QED BY <1>0, <2>1, <2>2, InboxEffect
<1> QED BY <1>2, <1>3

LEMMA RemoteKept ==
    ASSUME MeetInv, ViewInv, Phases, Described, NEW c \in Clients, StepOf(c), remote[c] # 0
    PROVE  remote'[c] = remote[c]
<1>1. remote[c] = partner[c]
  BY DEF Described, DescribedOf
<1>2. TakesSignal(c) => remote'[c] \in {remote[c], partner[c]}
  BY TakenFromPartner DEF KeepsPc
<1> QED BY <1>1, <1>2
        DEF StepOf, Idle, Dials, Stops, LearnsRole, SendsSignal, Proceeds, PcChanges, KeepsPc

LEMMA LinkedKept ==
    ASSUME MeetInv, ViewInv, Phases, Described, [MeetNext]_meetVars,
           NEW c \in Clients, NEW d \in Clients, Linked(c, d)
    PROVE  Linked(c, d)'
<1>1. /\ remote[c] # 0 /\ remote[c] = view[d].me
      /\ remote[d] # 0 /\ remote[d] = view[c].me
  BY DEF Linked
<1>2. remote'[c] = remote[c] /\ remote'[d] = remote[d]
  BY <1>1, EveryStep, RemoteKept
<1>3. view'[c].me = view[c].me /\ view'[d].me = view[d].me
  BY <1>1, MeKept
<1> QED BY <1>1, <1>2, <1>3 DEF Linked

LEMMA ConcatAll ==
    ASSUME NEW p \in Seq(PeerIds), NEW q \in Seq(PeerIds), NEW x,
           \A l \in 1..Len(p) : p[l] = x, \A l \in 1..Len(q) : q[l] = x
    PROVE  \A k \in 1..Len(p \o q) : (p \o q)[k] = x
<1> DEFINE t == p \o q
<1>1. /\ Len(t) = Len(p) + Len(q) /\ Len(p) \in Nat /\ Len(q) \in Nat
      /\ \A l \in 1 .. Len(p) + Len(q) : t[l] = IF l <= Len(p) THEN p[l] ELSE q[l - Len(p)]
  BY ConcatProperties, LenProperties
<1> HIDE DEF t
<1>2. ASSUME NEW k \in 1..Len(t) PROVE t[k] = x
  <2>1. CASE k <= Len(p)
    BY <1>1, <2>1
  <2>2. CASE ~(k <= Len(p))
    <3>1. k - Len(p) \in 1..Len(q) /\ t[k] = q[k - Len(p)]
      BY <1>1, <2>2
    <3> QED BY <3>1
  <2> QED BY <2>1, <2>2
<1> QED BY <1>2 DEF t

LEMMA DescribedOfStep ==
    ASSUME MeetInv, ViewInv, Phases, Described, NEW c \in Clients, StepOf(c)
    PROVE  DescribedOf(c)'
<1>0. /\ SignalTypeOK /\ RendezvousTypeOK /\ DescribedOf(c) /\ PhaseOf(c)
      /\ buffered[c] \in Seq(PeerIds) /\ applied[c] \in Seq(PeerIds)
  BY DEF MeetInv, MeetTypeInv, RoomInv, RendezvousTypeOK, Described, Phases
<1>1. ASSUME NEW k \in 1..Len(outbox'[c]), outbox'[c][k] = "candidate"
      PROVE  role'[c] # "none"
  <2>1. role[c] # "none"
    <3>1. CASE \E l \in 1..Len(outbox[c]) : outbox'[c][k] = outbox[c][l]
      BY <1>0, <1>1, <3>1 DEF DescribedOf
    <3>2. CASE role[c] = "offerer" \/ remote[c] # 0
      BY <1>0, <3>2 DEF DescribedOf
    <3> QED BY <1>0, <1>1, <3>1, <3>2, OutboxMember
  <2> QED BY <2>1, RoleKept DEF KeepsRole
<1> DEFINE Rest == /\ role'[c] = "none" => remote'[c] = 0 /\ buffered'[c] = <<>>
                                            /\ applied'[c] = <<>> /\ gathered'[c] = 0
                   /\ remote'[c] \in {0, partner'[c]}
                   /\ \A k \in 1..Len(buffered'[c]) : buffered'[c][k] = partner'[c]
                   /\ \A k \in 1..Len(applied'[c]) : applied'[c][k] = partner'[c]
                   /\ remote'[c] # 0 => buffered'[c] = <<>>
<1>2. ASSUME KeepsRole(c), KeepsPc(c), role[c] = "none" => gathered'[c] = gathered[c]
      PROVE  Rest
  BY <1>0, <1>2 DEF DescribedOf, KeepsRole, KeepsPc
<1>3. CASE LearnsRole(c)
  <2>1. role[c] = "none" /\ KeepsPc(c) /\ gathered'[c] = gathered[c]
    BY <1>0, <1>3 DEF LearnsRole, PhaseOf
  <2>2. remote'[c] = 0 /\ buffered'[c] = <<>> /\ applied'[c] = <<>> /\ gathered'[c] = 0
    BY <1>0, <2>1 DEF DescribedOf, KeepsPc
  <2>3. Rest
    BY <2>2
  <2> QED BY <1>1, <2>3 DEF DescribedOf
<1>4. CASE TakesSignal(c)
  <2>1. /\ role'[c] = role[c] /\ partner'[c] = partner[c] /\ role[c] # "none"
        /\ KeepsRole(c) /\ Sender(c) = partner[c] /\ partner[c] \in PeerIds
    BY <1>4, TakenFromPartner, RoleKnown DEF TakesSignal, KeepsRole
  <2>2. CASE KeepsPc(c)
    <3>1. Rest
      BY <1>2, <2>1, <2>2
    <3> QED BY <1>1, <3>1 DEF DescribedOf
  <2>3. CASE /\ remote'[c] = Sender(c) /\ buffered'[c] = <<>>
             /\ applied'[c] = applied[c] \o buffered[c]
    <3>1. /\ \A k \in 1..Len(buffered[c]) : buffered[c][k] = partner[c]
          /\ \A k \in 1..Len(applied[c]) : applied[c][k] = partner[c]
      BY <1>0 DEF DescribedOf
    <3>2. \A k \in 1..Len(applied[c] \o buffered[c]) : (applied[c] \o buffered[c])[k] = partner[c]
      <4>1. applied[c] \in Seq(PeerIds) /\ buffered[c] \in Seq(PeerIds)
        BY <1>0
      <4> QED BY <3>1, <4>1, ConcatAll, Zenon
    <3>3. \A k \in 1..Len(<<>>) : FALSE
      OBVIOUS
    <3>4. Rest
      BY <2>1, <2>3, <3>2, <3>3
    <3> QED BY <1>1, <3>4 DEF DescribedOf
  <2>4. CASE /\ remote'[c] = remote[c]
             /\ \/ /\ remote[c] # 0 /\ buffered'[c] = buffered[c]
                   /\ applied'[c] = Append(applied[c], Sender(c))
                \/ /\ remote[c] = 0 /\ applied'[c] = applied[c]
                   /\ buffered'[c] = Append(buffered[c], Sender(c))
    <3>1. \A k \in 1..Len(Append(applied[c], Sender(c))) : Append(applied[c], Sender(c))[k] = partner[c]
      BY <1>0, <2>1, AppendMember DEF DescribedOf
    <3>2. \A k \in 1..Len(Append(buffered[c], Sender(c))) : Append(buffered[c], Sender(c))[k] = partner[c]
      BY <1>0, <2>1, AppendMember DEF DescribedOf
    <3>3. Rest
      BY <1>0, <2>1, <2>4, <3>1, <3>2 DEF DescribedOf
    <3> QED BY <1>1, <3>3 DEF DescribedOf
  <2> QED BY <1>1, <1>4, <2>2, <2>3, <2>4, TakenFromPartner DEF DescribedOf
<1>5. CASE SendsSignal(c)
  <2>1. KeepsRole(c) /\ KeepsPc(c) /\ (role[c] = "none" => gathered'[c] = gathered[c])
    BY <1>0, <1>5 DEF SendsSignal, DescribedOf
  <2> QED BY <1>1, <1>2, <2>1 DEF DescribedOf
<1>6. CASE Idle(c) \/ Dials(c) \/ Stops(c) \/ Proceeds(c) \/ PcChanges(c)
  <2>1. KeepsRole(c) /\ KeepsPc(c) /\ gathered'[c] = gathered[c]
    BY <1>6 DEF Idle, Dials, Stops, Proceeds, PcChanges
  <2> QED BY <1>1, <1>2, <2>1 DEF DescribedOf
<1> QED BY <1>3, <1>4, <1>5, <1>6 DEF StepOf

LEMMA DescribedStep ==
    ASSUME MeetInv, ViewInv, Phases, Described, [MeetNext]_meetVars
    PROVE  Described'
<1>1. ASSUME NEW c \in Clients PROVE DescribedOf(c)'
  BY EveryStep, DescribedOfStep
<1>2. ASSUME NEW c \in Clients, LinkNeeded(c)' PROVE \E d \in Clients : Linked(c, d)'
  <2>1. LinkNeeded(c) \/ \E d \in Clients : Linked(c, d)
    <3>1. CASE Idle(c)
      BY <1>2, <3>1 DEF Idle, KeepsRtc, LinkNeeded
    <3>2. CASE Dials(c) \/ Stops(c) \/ LearnsRole(c) \/ SendsSignal(c)
      BY <1>2, <3>2 DEF Dials, Stops, LearnsRole, SendsSignal, KeepsRtc, LinkNeeded, Ended
    <3>3. CASE TakesSignal(c) \/ Proceeds(c)
      BY <1>2, <3>3 DEF TakesSignal, Proceeds, LinkNeeded
    <3>4. CASE PcChanges(c)
      BY <1>2, <3>4 DEF PcChanges, LinkNeeded
    <3> QED BY <3>1, <3>2, <3>3, <3>4, EveryStep DEF StepOf
  <2>2. PICK d \in Clients : Linked(c, d)
    BY <2>1 DEF Described
  <2> QED BY <2>2, LinkedKept
<1> QED BY <1>1, <1>2 DEF Described
-----------------------------------------------------------------------------
LEMMA TalkInit == MeetInit => TalkInv
<1> SUFFICES ASSUME MeetInit PROVE TalkInv
  OBVIOUS
<1>1. MeetInv /\ ViewInv
  BY MeetInvInit, ViewInit DEF MeetInit
<1>2. /\ nextPeer = 1
      /\ \A c \in Clients : /\ ws[c] = "new" /\ peerId[c] = 0 /\ inbox[c] = <<>>
                            /\ view[c] = [me |-> 0, others |-> {}]
      /\ \A i \in PeerIds : peers[i] = NoPeer
  BY DEF MeetInit, SignalInit
<1>3. \A c \in Clients : /\ stage[c] = "none" /\ role[c] = "none" /\ outbox[c] = <<>>
                         /\ remote[c] = 0 /\ buffered[c] = <<>> /\ applied[c] = <<>>
                         /\ rtc[c] = "new" /\ notified[c] = {} /\ partner[c] = 0 /\ gathered[c] = 0
  BY DEF MeetInit
<1>4. \A k \in 1..Len(<<>>) : FALSE
  OBVIOUS
<1>5. OneRoom
  BY <1>2 DEF OneRoom
<1>6. \A c \in Clients : \A i \in PeerIds : ~OwnId(c, i)
  BY <1>2, <1>4 DEF OwnId, PeerIds
<1>7. OneOwner /\ HandedOut
  BY <1>2, <1>3, <1>4, <1>6 DEF OneOwner, HandedOut
<1>8. Phases
  BY <1>2, <1>3, <1>4, StagesDiffer DEF Phases, PhaseOf
<1>9. SentBy("offer", "offerer") /\ SentBy("answer", "answerer")
  BY <1>2, <1>3, <1>4 DEF SentBy
<1>10. Described
  BY <1>3, <1>4 DEF Described, DescribedOf, LinkNeeded
<1> QED BY <1>1, <1>5, <1>7, <1>8, <1>9, <1>10 DEF TalkInv

LEMMA TalkStep == TalkInv /\ [MeetNext]_meetVars => TalkInv'
<1> SUFFICES ASSUME TalkInv, [MeetNext]_meetVars PROVE TalkInv'
  OBVIOUS
<1>0. /\ MeetInv /\ ViewInv /\ OneRoom /\ OneOwner /\ HandedOut /\ Phases /\ Described
      /\ SentBy("offer", "offerer") /\ SentBy("answer", "answerer")
  BY DEF TalkInv
<1>1. MeetInv'
  BY <1>0, MeetTypeStep, ByAgeStep, JoinsOnceStep, RoleByAgeStep DEF MeetInv
<1>2. ViewInv'
  <2>1. RendezvousTypeOK /\ RoomInv
    BY <1>0 DEF MeetInv, MeetTypeInv
  <2>2. [SignalNext]_signalVars
    BY <2>1, MeetIsSignal
  <2> QED BY <1>0, <2>1, <2>2, ViewNext
<1>3. OneRoom' /\ OneOwner' /\ HandedOut'
  BY <1>0, OneRoomStep, OneOwnerStep, HandedOutStep
<1>4. Phases'
  BY <1>0, PhaseStep DEF Phases
<1>5. SentBy("offer", "offerer")'
  <2>1. <<"offer", "offerer">> \in {<<"offer", "offerer">>, <<"answer", "answerer">>}
    OBVIOUS
  <2>2. \A c \in Clients :
           /\ \A k \in 1..Len(outbox'[c]) : outbox'[c][k] = "offer" => role'[c] = "offerer"
           /\ \A k \in 1..Len(inbox'[c]) :
                 inbox'[c][k].type = "offer" =>
                    \E d \in Clients : view'[d].me = inbox'[c][k].peer /\ role'[d] = "offerer"
    BY <1>0, <2>1, SentByStep
  <2> QED BY <2>2 DEF SentBy
<1>6. SentBy("answer", "answerer")'
  <2>1. <<"answer", "answerer">> \in {<<"offer", "offerer">>, <<"answer", "answerer">>}
    OBVIOUS
  <2>2. \A c \in Clients :
           /\ \A k \in 1..Len(outbox'[c]) : outbox'[c][k] = "answer" => role'[c] = "answerer"
           /\ \A k \in 1..Len(inbox'[c]) :
                 inbox'[c][k].type = "answer" =>
                    \E d \in Clients : view'[d].me = inbox'[c][k].peer /\ role'[d] = "answerer"
    BY <1>0, <2>1, SentByStep
  <2> QED BY <2>2 DEF SentBy
<1>7. Described'
  BY <1>0, DescribedStep
<1> QED BY <1>1, <1>2, <1>3, <1>4, <1>5, <1>6, <1>7 DEF TalkInv

LEMMA TalkInvHolds == MeetSpec => []TalkInv
BY TalkInit, TalkStep, PTL DEF MeetSpec

(* However attempts come, go and are refused, the first signal that one    *)
(* reads is the answer to its join, and the next, when it is alone, names  *)
(* its peer (rtc.rs:478-503): the server never relays to an attempt that   *)
(* was not told of the sender, and never tells it of a peer twice.         *)
THEOREM RoleDecidedFirst == MeetSpec => []RoleSignalFirst
<1>1. TalkInv => RoleSignalFirst
  <2> SUFFICES ASSUME TalkInv, NEW c \in Clients, stage[c] \in {"joining", "alone"}, inbox[c] # <<>>
               PROVE  Head(inbox[c]).type \in Expected(c)
    BY DEF RoleSignalFirst
  <2>0. MeetInv /\ ViewInv /\ PhaseOf(c)
    BY DEF TalkInv, Phases
  <2>1. role[c] = "none"
    BY <2>0 DEF PhaseOf
  <2>2. CASE stage[c] = "joining"
    <3>1. Head(inbox[c]).type \in {"joined", "error"}
      BY <2>0, <2>2, EmptySeq DEF PhaseOf, Waiting, ErrorMessage
    <3>2. Expected(c) = {"joined", "error"}
      BY <2>2, <2>1 DEF Expected
    <3> QED BY <3>1, <3>2
  <2>3. CASE stage[c] = "alone"
    <3>1. view[c].others = {} /\ view[c].me # 0 /\ NoError(c)
      BY <2>0, <2>3 DEF PhaseOf, MeetInv, RoleByAge
    <3>2. inbox[c] \in Seq(Message)
      BY <2>0 DEF MeetInv, MeetTypeInv, RoomInv, SignalTypeOK
    <3>3. Head(inbox[c]) \in Message /\ Head(inbox[c]).type # "error"
      BY <3>1, <3>2, HeadMember DEF NoError
    <3>4. Head(inbox[c]).type \notin AboutKnown /\ Head(inbox[c]).type # "joined"
      BY <2>0, <3>1, HeadIntroduced
    <3>5. Head(inbox[c]).type = "peer-joined"
      BY <3>3, <3>4 DEF Message, AboutKnown, NoticeTypes, ErrorMessage
    <3>6. Expected(c) = {"peer-joined"}
      BY <2>3, <2>1 DEF Expected
    <3> QED BY <3>5, <3>6
  <2> QED BY <2>2, <2>3
<1> QED BY <1>1, TalkInvHolds, PTL

(* What the loops of connect drop (rtc.rs:233, 417) is never what one of   *)
(* two attempts that chose each other sent the other: the offer that an    *)
(* offerer drops, or the answer an answerer drops, comes from an attempt   *)
(* of the same role, and those never choose each other.                    *)
THEOREM StraysComeFromStrangers == MeetSpec => []OnlyStraysIgnored
<1>1. TalkInv => OnlyStraysIgnored
  <2> SUFFICES ASSUME TalkInv, NEW c \in Clients, stage[c] \in Establishing \ {"joining"},
                      inbox[c] # <<>>, Head(inbox[c]).type \notin Expected(c)
               PROVE  /\ Head(inbox[c]).type \in RelayTypes
                      /\ \A d \in Clients : view[d].me = Sender(c) => ~Mutual(c, d)
    BY DEF OnlyStraysIgnored
  <2>0. /\ MeetInv /\ ViewInv /\ Phases /\ OneOwner
        /\ SentBy("offer", "offerer") /\ SentBy("answer", "answerer")
    BY DEF TalkInv
  <2>1. stage[c] \in Paired /\ stage[c] \notin {"joining", "alone"}
    BY DEF Establishing, Paired, Selecting
  <2>2. Head(inbox[c]).type \in AboutKnown /\ Sender(c) = partner[c]
    BY <2>0, <2>1, PartnerSpeaks
  <2>3. role[c] # "none"
    BY <2>0, <2>1 DEF Phases, PhaseOf
  <2>4. role[c] \in {"offerer", "answerer"} /\ partner[c] \in PeerIds
    BY <2>0, <2>3, RoleKnown
  <2>5. \/ role[c] = "offerer" /\ Head(inbox[c]).type = "offer"
        \/ role[c] = "answerer" /\ Head(inbox[c]).type = "answer"
    BY <2>1, <2>2, <2>4, RoomAssumption DEF Expected, AboutKnown
  <2>6. inbox[c] \in Seq(Message)
    BY <2>0 DEF MeetInv, MeetTypeInv, RoomInv, SignalTypeOK
  <2>7. PICK e \in Clients : view[e].me = Sender(c) /\ role[e] = role[c]
    BY <2>0, <2>5, <2>6, HeadMember DEF SentBy, Sender
  <2>8. ASSUME NEW d \in Clients, view[d].me = Sender(c), Mutual(c, d)
        PROVE  FALSE
    <3>1. d = e
      BY <2>0, <2>2, <2>4, <2>7, <2>8 DEF OneOwner, OwnId
    <3>2. {role[c], role[d]} = {"offerer", "answerer"}
      BY <2>0, <2>8, MeetRolesMatch DEF RolesMatch
    <3> QED BY <2>7, <3>1, <3>2
  <2> QED BY <2>5, <2>8, RoomAssumption
<1> QED BY <1>1, TalkInvHolds, PTL

(* An attempt gets to a session with an attempt that chose it in turn, on  *)
(* that one's description and candidates and no other's, whatever reached  *)
(* it before.                                                              *)
THEOREM SessionsArePaired == MeetSpec => []SessionsPaired
<1>1. TalkInv => SessionsPaired
  <2> SUFFICES ASSUME TalkInv, NEW c \in Clients, stage[c] = "session"
               PROVE  /\ \E d \in Clients : Mutual(c, d) /\ Linked(c, d)
                      /\ \A i \in 1..Len(applied[c]) : applied[c][i] = partner[c]
    BY DEF SessionsPaired
  <2>1. \A d \in Clients : DescribedOf(d)
    BY DEF TalkInv, Described
  <2>2. PICK d \in Clients : Linked(c, d)
    BY DEF TalkInv, Described, LinkNeeded
  <2>3. remote[c] = partner[c] /\ remote[d] = partner[d]
    BY <2>1, <2>2 DEF Linked, DescribedOf
  <2>4. Mutual(c, d)
    BY <2>2, <2>3 DEF Linked, Mutual
  <2> QED BY <2>1, <2>2, <2>4 DEF DescribedOf
<1> QED BY <1>1, TalkInvHolds, PTL

-----------------------------------------------------------------------------
(***************************************************************************)
(* Counting the elements of a queue.                                       *)
(***************************************************************************)
Places(sequence, S) == {k \in 1..Len(sequence) : sequence[k] \in S}

LEMMA CountType ==
    ASSUME NEW T, NEW q \in Seq(T), NEW S
    PROVE  IsFiniteSet(Places(q, S)) /\ Count(q, S) = Cardinality(Places(q, S)) /\ Count(q, S) \in Nat
<1>1. IsFiniteSet(1..Len(q))
  BY FS_Interval
<1>2. IsFiniteSet(Places(q, S))
  BY <1>1, FS_Subset DEF Places
<1>3. Count(q, S) = Cardinality(Places(q, S))
  BY DEF Count, Places
<1> QED BY <1>2, <1>3, FS_CardinalityType

LEMMA CountNone ==
    ASSUME NEW q, NEW S, \A k \in 1..Len(q) : q[k] \notin S
    PROVE  Count(q, S) = 0
<1>1. {k \in 1..Len(q) : q[k] \in S} = {}
  OBVIOUS
<1> QED BY <1>1, FS_EmptySet DEF Count

LEMMA CountAppend ==
    ASSUME NEW T, NEW q \in Seq(T), NEW m \in T, NEW S
    PROVE  Count(Append(q, m), S) = Count(q, S) + (IF m \in S THEN 1 ELSE 0)
<1> DEFINE t == Append(q, m)
           n == Len(q) + 1
<1>1. /\ t \in Seq(T) /\ Len(q) \in Nat /\ Len(t) = n
      /\ \A k \in 1..Len(q) : t[k] = q[k]
      /\ t[n] = m
  BY AppendProperties
<1>2. /\ IsFiniteSet(Places(q, S)) /\ Count(q, S) = Cardinality(Places(q, S)) /\ Count(q, S) \in Nat
      /\ Count(t, S) = Cardinality(Places(t, S))
  BY <1>1, CountType
<1>3. n \notin Places(q, S)
  BY <1>1 DEF Places
<1>4. \A k : k \in 1..Len(t) <=> k \in 1..Len(q) \/ k = n
  BY <1>1
<1> HIDE DEF t, n
<1>5. CASE m \in S
  <2>1. Places(t, S) = Places(q, S) \cup {n}
    BY <1>1, <1>4, <1>5 DEF Places
  <2> QED BY <1>2, <1>3, <1>5, <2>1, FS_AddElement DEF t
<1>6. CASE m \notin S
  <2>1. Places(t, S) = Places(q, S)
    BY <1>1, <1>4, <1>6 DEF Places
  <2> QED BY <1>2, <1>6, <2>1 DEF t
<1> QED BY <1>5, <1>6

LEMMA CountTail ==
    ASSUME NEW T, NEW q \in Seq(T), q # <<>>, NEW S
    PROVE  Count(q, S) = Count(Tail(q), S) + (IF Head(q) \in S THEN 1 ELSE 0)
<1> DEFINE t == Tail(q)
           rest == Places(q, S) \ {1}
           Shift == [k \in Places(t, S) |-> k + 1]
<1>1. /\ t \in Seq(T) /\ Len(q) \in Nat /\ Len(t) = Len(q) - 1 /\ Len(q) >= 1
      /\ \A k \in 1..Len(t) : t[k] = q[k + 1] /\ k + 1 \in 1..Len(q)
      /\ Head(q) = q[1]
  BY HeadTailProperties, EmptySeq
<1>2. /\ IsFiniteSet(Places(q, S)) /\ Count(q, S) = Cardinality(Places(q, S)) /\ Count(q, S) \in Nat
      /\ IsFiniteSet(Places(t, S)) /\ Count(t, S) = Cardinality(Places(t, S)) /\ Count(t, S) \in Nat
  BY <1>1, CountType
<1>3. 1 \in Places(q, S) <=> Head(q) \in S
  BY <1>1 DEF Places
<1> HIDE DEF t
<1>4. Cardinality(rest) = Cardinality(Places(t, S))
  <2>1. Shift \in [Places(t, S) -> rest]
    BY <1>1 DEF Places
  <2>2. \A a, b \in Places(t, S) : Shift[a] = Shift[b] => a = b
    BY <1>1 DEF Places
  <2>3. ASSUME NEW k \in rest PROVE \E l \in Places(t, S) : Shift[l] = k
    <3>1. k - 1 \in 1..Len(t) /\ (k - 1) + 1 = k
      BY <1>1 DEF Places
    <3>2. k - 1 \in Places(t, S)
      BY <1>1, <3>1 DEF Places
    <3> QED BY <3>1, <3>2
  <2> HIDE DEF Shift, rest
  <2>4. Shift \in Bijection(Places(t, S), rest)
    BY <2>1, <2>2, <2>3, Fun_IsBij
  <2>5. ExistsBijection(Places(t, S), rest)
    BY <2>4, Fun_ExistsBij
  <2> QED BY <1>2, <2>5, FS_Bijection
<1>5. Cardinality(rest) = IF 1 \in Places(q, S) THEN Cardinality(Places(q, S)) - 1
                                                ELSE Cardinality(Places(q, S))
  BY <1>2, FS_RemoveElement
<1> QED BY <1>2, <1>3, <1>4, <1>5 DEF t

-----------------------------------------------------------------------------
(***************************************************************************)
(* The candidates of d on their way to c.  A step that takes one from the  *)
(* outbox of d puts it in the inbox of c, and no other step puts one there.*)
(***************************************************************************)
Hands(d) == Deliver(d) /\ Head(outbox[d]) = "candidate"
Gets(c, i) == inbox'[c] = Append(inbox[c], Note("candidate", i))
Kept(c, i) == Count(inbox[c], CandidatesOf(i)) + Len(buffered[c]) + Len(applied[c])

LEMMA AppendOne ==
    ASSUME NEW S, NEW q \in Seq(S), NEW a \in S, NEW b \in S
    PROVE  /\ Append(q, a) = Append(q, b) => a = b
           /\ Append(q, a) # q
           /\ q # <<>> => Append(q, a) # Tail(q)
<1>1. /\ Len(q) \in Nat /\ Len(Append(q, a)) = Len(q) + 1
      /\ Append(q, a)[Len(q) + 1] = a /\ Append(q, b)[Len(q) + 1] = b
  BY AppendProperties
<1>2. q # <<>> => Len(Tail(q)) = Len(q) - 1
  BY HeadTailProperties
<1> QED BY <1>1, <1>2

LEMMA MeetingBefore ==
    ASSUME TalkInv, NEW c \in Clients, StepOf(c), ~Joins(c),
           Alive(c)', ws'[c] = "open", peerId'[c] # 0
    PROVE  /\ Alive(c) /\ ws[c] = "open" /\ peerId'[c] = peerId[c]
           /\ partner[c] \in {0, partner'[c]}
           /\ stage[c] = "session" => stage'[c] = "session"
           /\ ~Dials(c) /\ ~Stops(c)
<1>0. MeetInv /\ OneOwner /\ PhaseOf(c) /\ stage'[c] \notin Ended /\ SignalTypeOK
  BY DEF TalkInv, Phases, Alive, MeetInv, MeetTypeInv, RoomInv
<1>1. ~Stops(c)
  BY <1>0 DEF Stops
<1>2. ~Dials(c)
  <2>1. SUFFICES ASSUME Dials(c) PROVE FALSE
    OBVIOUS
  <2>2. ws[c] = "new" /\ peerId[c] # 0
    BY <2>1 DEF Dials
  <2>3. view[c].me = 0 /\ inbox[c] = <<>>
    BY <1>0, <2>2 DEF MeetInv, JoinsOnce
  <2>4. peerId[c] \in PeerIds /\ OwnId(c, peerId[c])
    BY <1>0, <2>2 DEF OneOwner, SignalTypeOK
  <2>5. \A k \in 1..Len(<<>>) : FALSE
    OBVIOUS
  <2> QED BY <2>2, <2>3, <2>4, <2>5 DEF OwnId
<1>3. ws[c] = "open" /\ peerId'[c] = peerId[c]
  BY <1>1, <1>2
     DEF StepOf, Idle, LearnsRole, TakesSignal, SendsSignal, Proceeds, PcChanges, KeepsLine, ReadsLine
<1>4. stage[c] \notin Ended /\ (stage[c] = "session" => stage'[c] = "session")
  BY <1>0, <1>1, <1>2, StagesDiffer
     DEF StepOf, Idle, LearnsRole, TakesSignal, SendsSignal, Proceeds, PcChanges
<1>5. partner[c] \in {0, partner'[c]}
  <2>1. CASE role[c] = "none"
    BY <1>0, <2>1 DEF MeetInv, RoleByAge
  <2>2. CASE role[c] # "none"
    BY <2>2, RoleKept DEF KeepsRole, TalkInv
  <2> QED BY <2>1, <2>2
<1> QED BY <1>1, <1>2, <1>3, <1>4, <1>5 DEF Alive

LEMMA OutboxCount ==
    ASSUME TalkInv, NEW d \in Clients, StepOf(d), ~Dials(d), ~Stops(d), ws[d] = "open", ws'[d] = "open"
    PROVE  gathered'[d] + Count(outbox[d], {"candidate"})
              = gathered[d] + Count(outbox'[d], {"candidate"}) + (IF Hands(d) THEN 1 ELSE 0)
<1> DEFINE n == Count(outbox[d], {"candidate"})
           m == Count(outbox'[d], {"candidate"})
<1>0. RendezvousTypeOK /\ MeetInv
  BY DEF TalkInv, MeetInv, MeetTypeInv
<1>1. outbox[d] \in Seq(Signals) /\ gathered[d] \in Nat
  BY <1>0, RendezvousBounds DEF RendezvousTypeOK
<1>2. n \in Nat
  BY <1>1, CountType
<1>3. CASE Deliver(d)
  <2>1. outbox[d] # <<>> /\ outbox'[d] = Tail(outbox[d]) /\ gathered'[d] = gathered[d]
    BY <1>0, <1>3 DEF Deliver, history, RendezvousTypeOK
  <2>2. n = Count(Tail(outbox[d]), {"candidate"}) + (IF Head(outbox[d]) \in {"candidate"} THEN 1 ELSE 0)
    BY <1>1, <2>1, CountTail
  <2>3. Tail(outbox[d]) \in Seq(Signals)
    BY <1>1, <2>1, HeadTailProperties
  <2>4. Count(Tail(outbox[d]), {"candidate"}) \in Nat
    BY <2>3, CountType
  <2>5. m = Count(Tail(outbox[d]), {"candidate"})
    BY <2>1
  <2> HIDE DEF n, m
  <2>6. gathered'[d] + n = gathered[d] + m + (IF Hands(d) THEN 1 ELSE 0)
    BY <1>1, <1>3, <2>1, <2>2, <2>4, <2>5 DEF Hands
  <2> QED BY <2>6 DEF n, m
<1>4. CASE ~Deliver(d)
  <2>1. ~Hands(d)
    BY <1>4 DEF Hands
  <2>2. CASE outbox'[d] = outbox[d] /\ gathered'[d] = gathered[d]
    <3>1. m = n
      BY <2>2
    <3> HIDE DEF n, m
    <3>2. gathered'[d] + n = gathered[d] + m + (IF Hands(d) THEN 1 ELSE 0)
      BY <1>1, <1>2, <2>1, <2>2, <3>1
    <3> QED BY <3>2 DEF n, m
  <2>3. ASSUME NEW signal \in {"offer", "answer", "candidate"}, Puts(d, signal),
               gathered'[d] = gathered[d] + (IF signal = "candidate" THEN 1 ELSE 0)
        PROVE  gathered'[d] + n = gathered[d] + m + (IF Hands(d) THEN 1 ELSE 0)
    <3>1. outbox'[d] = Append(outbox[d], signal) /\ signal \in Signals
      BY <2>3 DEF Puts, Signals
    <3>2. Count(Append(outbox[d], signal), {"candidate"}) =
             n + (IF signal \in {"candidate"} THEN 1 ELSE 0)
      BY <1>1, <3>1, CountAppend
    <3>3. m = n + (IF signal = "candidate" THEN 1 ELSE 0)
      BY <3>1, <3>2
    <3> HIDE DEF n, m
    <3> QED BY <1>1, <1>2, <2>1, <2>3, <3>3
  <2>4. CASE SendsSignal(d)
    BY <1>1, <2>3, <2>4 DEF SendsSignal
  <2>5. CASE Idle(d) \/ LearnsRole(d) \/ TakesSignal(d) \/ Proceeds(d) \/ PcChanges(d)
    BY <1>4, <2>2, <2>5 DEF Idle, LearnsRole, TakesSignal, Proceeds, PcChanges
  <2> QED BY <2>4, <2>5 DEF StepOf
<1> QED BY <1>3, <1>4

LEMMA CandidateType ==
    ASSUME NEW i \in PeerIds
    PROVE  /\ Note("candidate", i) \in Message /\ Note("candidate", i) \in CandidatesOf(i)
           /\ \A m : m \in CandidatesOf(i) => m.type = "candidate" /\ m.peer = i
           /\ \A m \in Message : m.type = "candidate" /\ m.peer = i => m \in CandidatesOf(i)
<1>1. "candidate" \in RelayTypes /\ RelayTypes = {"offer", "answer", "candidate"}
  BY RoomAssumption
<1>2. Note("candidate", i) \in Message
  BY <1>1, NoteType
<1>3. ASSUME NEW m \in Message, m.type = "candidate", m.peer = i
      PROVE  m \in CandidatesOf(i)
  <2>1. m \in [type : RelayTypes \cup NoticeTypes, peer : PeerIds, others : SUBSET PeerIds]
    BY <1>3 DEF Message, ErrorMessage
  <2> QED BY <1>3, <2>1 DEF CandidatesOf
<1>4. Note("candidate", i).type = "candidate" /\ Note("candidate", i).peer = i
  BY DEF Note
<1>5. \A m : m \in CandidatesOf(i) => m.type = "candidate" /\ m.peer = i
  BY DEF CandidatesOf
<1> QED BY <1>2, <1>3, <1>4, <1>5

(* A candidate reaches an inbox as a note, from the peer that it names.    *)
LEMMA CandidateArrives ==
    ASSUME NEW c \in Clients, NEW m, Arrives(c, m), m.type = "candidate"
    PROVE  \E e \in Clients \ {c} : /\ peerId[e] # 0 /\ Hands(e)
                                    /\ m = Note("candidate", peerId[e])
BY DEF Arrives, ErrorMessage, JoinedMessage, Note, Hands

LEMMA InboxCount ==
    ASSUME TalkInv, TalkInv', NEW c \in Clients, StepOf(c), ~Dials(c), ~Stops(c),
           NEW i \in PeerIds, partner[c] \in {0, i}
    PROVE  Kept(c, i)' = Kept(c, i) + (IF Gets(c, i) THEN 1 ELSE 0)
<1> DEFINE S == CandidatesOf(i)
<1>0. MeetInv /\ ViewInv /\ Phases /\ PhaseOf(c)
  BY DEF TalkInv, Phases
<1>1. /\ inbox[c] \in Seq(Message) /\ buffered[c] \in Seq(PeerIds) /\ applied[c] \in Seq(PeerIds)
      /\ buffered \in [Clients -> Seq(PeerIds)] /\ applied \in [Clients -> Seq(PeerIds)]
      /\ buffered' \in [Clients -> Seq(PeerIds)] /\ applied' \in [Clients -> Seq(PeerIds)]
      /\ inbox \in [Clients -> Seq(Message)] /\ inbox' \in [Clients -> Seq(Message)]
  BY DEF TalkInv, MeetInv, MeetTypeInv, RoomInv, SignalTypeOK, RendezvousTypeOK
<1>2. /\ Count(inbox[c], S) \in Nat /\ Len(buffered[c]) \in Nat /\ Len(applied[c]) \in Nat
  BY <1>1, CountType, LenProperties
<1>3. Kept(c, i)' = Count(inbox'[c], S) + Len(buffered'[c]) + Len(applied'[c])
  BY DEF Kept, CandidatesOf
<1>4. Kept(c, i) = Count(inbox[c], S) + Len(buffered[c]) + Len(applied[c])
  BY DEF Kept
<1>5. Note("candidate", i) \in Message /\ Note("candidate", i) \in S
  BY CandidateType
<1> HIDE DEF S
<1>6. CASE inbox'[c] = inbox[c] /\ KeepsPc(c)
  <2>1. ~Gets(c, i)
    BY <1>1, <1>5, <1>6, AppendOne DEF Gets
  <2> QED BY <1>2, <1>3, <1>4, <1>6, <2>1 DEF KeepsPc
<1>7. ASSUME KeepsPc(c), NEW m \in Message, Arrives(c, m), inbox'[c] = Append(inbox[c], m)
      PROVE  Kept(c, i)' = Kept(c, i) + (IF Gets(c, i) THEN 1 ELSE 0)
  <2>1. Count(inbox'[c], S) = Count(inbox[c], S) + (IF m \in S THEN 1 ELSE 0)
    BY <1>1, <1>7, CountAppend
  <2>2. Gets(c, i) <=> m = Note("candidate", i)
    BY <1>1, <1>5, <1>7, AppendOne DEF Gets
  <2>3. m \in S => m = Note("candidate", i)
    <3>1. SUFFICES ASSUME m \in S PROVE m = Note("candidate", i)
      OBVIOUS
    <3>2. m.type = "candidate" /\ m.peer = i
      BY <3>1, CandidateType DEF S
    <3>3. PICK e \in Clients : m = Note("candidate", peerId[e])
      BY <1>7, <3>2, CandidateArrives
    <3> QED BY <3>2, <3>3 DEF Note
  <2>4. m \in S <=> Gets(c, i)
    BY <1>5, <2>2, <2>3
  <2>5. Count(inbox'[c], S) = Count(inbox[c], S) + (IF Gets(c, i) THEN 1 ELSE 0)
    BY <2>1, <2>4
  <2>6. Len(buffered'[c]) = Len(buffered[c]) /\ Len(applied'[c]) = Len(applied[c])
    BY <1>7 DEF KeepsPc
  <2> QED BY <1>2, <1>3, <1>1, <1>4, <2>5, <2>6
<1>8. ASSUME ReadsLine(c)
      PROVE  /\ ~Gets(c, i)
             /\ Count(inbox[c], S) = Count(inbox'[c], S) + (IF Head(inbox[c]) \in S THEN 1 ELSE 0)
             /\ Count(inbox'[c], S) \in Nat /\ Head(inbox[c]) \in Message
  <2>1. inbox[c] # <<>> /\ inbox'[c] = Tail(inbox[c])
    BY <1>8 DEF ReadsLine
  <2>2. ~Gets(c, i)
    BY <1>1, <1>5, <2>1, AppendOne DEF Gets
  <2>3. Tail(inbox[c]) \in Seq(Message) /\ Head(inbox[c]) \in Message
    BY <1>1, <2>1, HeadTailProperties
  <2> QED BY <1>1, <2>1, <2>2, <2>3, CountTail, CountType
<1>9. CASE LearnsRole(c)
  <2>1. Head(inbox[c]).type # "candidate"
    BY <1>9 DEF LearnsRole
  <2>2. Head(inbox[c]) \notin S
    BY <2>1, CandidateType DEF S
  <2>3. ReadsLine(c) /\ KeepsPc(c)
    BY <1>9 DEF LearnsRole
  <2> QED BY <1>2, <1>3, <1>4, <1>8, <2>2, <2>3 DEF KeepsPc
<1>10. CASE TakesSignal(c)
  <2> DEFINE a == Len(applied[c])
             b == Len(buffered[c])
             n == Count(inbox[c], S)
             aNew == Len(applied'[c])
             bNew == Len(buffered'[c])
             nNew == Count(inbox'[c], S)
  <2>1. ReadsLine(c) /\ Sender(c) = partner[c] /\ role[c] # "none"
    BY <1>0, <1>10, TakenFromPartner DEF TakesSignal
  <2>2. Sender(c) = i
    BY <1>0, <2>1 DEF MeetInv, RoleByAge
  <2>3. a \in Nat /\ b \in Nat /\ n \in Nat /\ aNew \in Nat /\ bNew \in Nat /\ nNew \in Nat
    <3>1. applied'[c] \in Seq(PeerIds) /\ buffered'[c] \in Seq(PeerIds)
      BY <1>1
    <3> QED BY <1>2, <1>8, <2>1, <3>1, LenProperties
  <2>4. nNew + bNew + aNew = n + b + a
    <3>1. CASE Head(inbox[c]).type = "candidate"
      <4>1. Head(inbox[c]) \in S
        BY <1>8, <2>1, <2>2, <3>1, CandidateType DEF S, Sender
      <4>2. n = nNew + 1
        BY <1>8, <2>1, <4>1
      <4>3. /\ Len(Append(applied[c], i)) = a + 1
            /\ Len(Append(buffered[c], i)) = b + 1
        BY <1>1, AppendProperties
      <4>4. \/ /\ buffered'[c] = buffered[c] /\ applied'[c] = Append(applied[c], i)
            \/ /\ applied'[c] = applied[c] /\ buffered'[c] = Append(buffered[c], i)
        BY <1>0, <1>10, <2>2, <3>1, TakenFromPartner
      <4>5. (bNew = b /\ aNew = a + 1) \/ (aNew = a /\ bNew = b + 1)
        BY <4>3, <4>4
      <4> HIDE DEF a, b, n, aNew, bNew, nNew
      <4> QED BY <2>3, <4>2, <4>5
    <3>2. CASE Head(inbox[c]).type # "candidate"
      <4>1. Head(inbox[c]) \notin S
        BY <3>2, CandidateType DEF S
      <4>2. n = nNew
        BY <1>8, <2>1, <2>3, <4>1
      <4>3. Len(<<>>) = 0 /\ Len(applied[c] \o buffered[c]) = a + b
        BY <1>1, ConcatProperties
      <4>4. \/ KeepsPc(c)
            \/ buffered'[c] = <<>> /\ applied'[c] = applied[c] \o buffered[c]
        BY <1>0, <1>10, <3>2, TakenFromPartner
      <4>5. (bNew = b /\ aNew = a) \/ (bNew = 0 /\ aNew = a + b)
        BY <4>3, <4>4 DEF KeepsPc
      <4> HIDE DEF a, b, n, aNew, bNew, nNew
      <4> QED BY <2>3, <4>2, <4>5
    <3> QED BY <3>1, <3>2
  <2>5. ~Gets(c, i)
    BY <1>8, <2>1
  <2>6. Kept(c, i)' = nNew + bNew + aNew /\ Kept(c, i) = n + b + a
    BY <1>3, <1>4
  <2> HIDE DEF a, b, n, aNew, bNew, nNew
  <2> QED BY <2>3, <2>4, <2>5, <2>6
<1>11. CASE Idle(c)
  BY <1>6, <1>7, <1>11 DEF Idle, Receiving
<1>12. CASE SendsSignal(c) \/ Proceeds(c) \/ PcChanges(c)
  BY <1>6, <1>12 DEF SendsSignal, Proceeds, PcChanges, KeepsLine
<1> QED BY <1>9, <1>10, <1>11, <1>12 DEF StepOf

LEMMA TwoMembers ==
    ASSUME NEW S \in SUBSET PeerIds, Cardinality(S) <= MaxRoomSize, NEW i \in S, NEW j \in S, i # j
    PROVE  S \ {i} = {j}
<1>1. IsFiniteSet(S)
  <2>1. IsFiniteSet(1..MaxPeers)
    BY SignalBounds, FS_Interval
  <2>2. S \subseteq 1..MaxPeers
    BY DEF PeerIds
  <2> QED BY <2>1, <2>2, FS_Subset
<1>2. IsFiniteSet(S \ {i}) /\ Cardinality(S \ {i}) = Cardinality(S) - 1
  BY <1>1, FS_RemoveElement
<1>3. /\ IsFiniteSet((S \ {i}) \ {j})
      /\ Cardinality((S \ {i}) \ {j}) = Cardinality(S \ {i}) - 1
  BY <1>2, FS_RemoveElement
<1>4. Cardinality((S \ {i}) \ {j}) = 0
  <2>1. Cardinality(S) \in Nat /\ Cardinality((S \ {i}) \ {j}) \in Nat
    BY <1>1, <1>3, FS_CardinalityType
  <2> QED BY <1>2, <1>3, <2>1 DEF MaxRoomSize
<1>5. (S \ {i}) \ {j} = {}
  BY <1>3, <1>4, FS_EmptySet
<1> QED BY <1>5

LEMMA OneIdEach ==
    ASSUME TalkInv, NEW c \in Clients, NEW d \in Clients, peerId[c] # 0, peerId[c] = peerId[d]
    PROVE  c = d
<1>1. peerId[c] \in PeerIds
  BY DEF TalkInv, MeetInv, MeetTypeInv, RoomInv, SignalTypeOK
<1> QED BY <1>1 DEF TalkInv, OneOwner

LEMMA HandedOver ==
    ASSUME TalkInv, NEW c \in Clients, NEW d \in Clients, Meeting(c, d), Hands(d)
    PROVE  Gets(c, peerId[d])
<1>0. RoomInv /\ RendezvousTypeOK /\ OneRoom
  BY DEF TalkInv, MeetInv, MeetTypeInv
<1>1. Deliver(d) /\ Head(outbox[d]) = "candidate"
  BY DEF Hands
<1>2. OnRelay(d, "candidate")
  BY <1>1, RoomAssumption DEF Deliver, Handles
<1>3. /\ c # d /\ ws[c] = "open" /\ ws[d] = "open" /\ peerId[c] # 0 /\ peerId[d] # 0
  BY DEF Meeting
<1>4. /\ peerId[c] \in rooms[Room] /\ peerId[d] \in rooms[Room] /\ Room \in Rooms
      /\ peers[peerId[d]].room = Room
  BY <1>0, <1>3, MemberOf, RoomType DEF OneRoom
<1>5. peerId[c] # peerId[d]
  BY <1>3, OneIdEach
<1>6. rooms[Room] \in SUBSET PeerIds /\ Cardinality(rooms[Room]) <= MaxRoomSize
  BY <1>0, <1>4 DEF RoomInv, SignalTypeOK, RoomSizes
<1>7. rooms[Room] \ {peerId[d]} = {peerId[c]}
  BY <1>4, <1>5, <1>6, TwoMembers
<1>8. Others(peerId[d]) = {peerId[c]}
  BY <1>4, <1>7 DEF Others
<1>9. inbox' = Notify({peerId[c]}, Note("candidate", peerId[d]))
  BY <1>2, <1>3, <1>8 DEF OnRelay
<1>10. Notify({peerId[c]}, Note("candidate", peerId[d]))[c] = Told(c, Note("candidate", peerId[d]))
  <2>1. {peerId[c]} \in SUBSET rooms[Room]
    BY <1>4
  <2> QED BY <1>0, <1>4, <2>1, NotifyWho
<1> QED BY <1>3, <1>9, <1>10 DEF Gets, Told

LEMMA TakenOver ==
    ASSUME TalkInv, NEW c \in Clients, NEW d \in Clients, Meeting(c, d), StepOf(c), ~Dials(c), ~Stops(c),
           Gets(c, peerId[d])
    PROVE  Hands(d)
<1> DEFINE n == Note("candidate", peerId[d])
<1>1. inbox[c] \in Seq(Message) /\ peerId[d] \in PeerIds /\ peerId[d] # 0
  BY DEF TalkInv, MeetInv, MeetTypeInv, RoomInv, SignalTypeOK, Meeting
<1>2. n \in Message /\ inbox'[c] = Append(inbox[c], n)
  BY <1>1, CandidateType DEF Gets
<1>3. n.type = "candidate" /\ n.peer = peerId[d]
  BY DEF Note
<1> HIDE DEF n
<1>4. inbox'[c] # inbox[c] /\ ~ReadsLine(c)
  BY <1>1, <1>2, AppendOne DEF ReadsLine
<1>5. Idle(c)
  BY <1>4 DEF StepOf, LearnsRole, TakesSignal, SendsSignal, Proceeds, PcChanges, KeepsLine
<1>6. PICK m \in Message : Arrives(c, m) /\ inbox'[c] = Append(inbox[c], m)
  BY <1>4, <1>5 DEF Idle, Receiving
<1>7. m = n
  <2>1. Append(inbox[c], m) = Append(inbox[c], n)
    BY <1>2, <1>6
  <2>2. ASSUME NEW q \in Seq(Message), NEW x \in Message, NEW y \in Message,
               Append(q, x) = Append(q, y)
        PROVE  x = y
    BY <2>2, AppendOne
  <2> QED BY <1>1, <1>2, <2>1, <2>2
<1>8. PICK e \in Clients : peerId[e] # 0 /\ Hands(e) /\ m = Note("candidate", peerId[e])
  BY <1>3, <1>6, <1>7, CandidateArrives
<1>9. peerId[e] = peerId[d]
  BY <1>3, <1>7, <1>8 DEF Note
<1> QED BY <1>8, <1>9, OneIdEach

LEMMA NothingOfNone ==
    ASSUME TalkInv', NEW c \in Clients, role'[c] = "none"
    PROVE  /\ Count(outbox'[c], {"candidate"}) = 0 /\ gathered'[c] = 0
           /\ Len(buffered'[c]) = 0 /\ Len(applied'[c]) = 0
<1>1. DescribedOf(c)'
  BY DEF TalkInv, Described
<1>2. \A k \in 1..Len(outbox'[c]) : outbox'[c][k] \notin {"candidate"}
  BY <1>1 DEF DescribedOf
<1>3. Count(outbox'[c], {"candidate"}) = 0
  BY <1>2, CountNone
<1> QED BY <1>1, <1>3 DEF DescribedOf

LEMMA JoinIdle ==
    ASSUME TalkInv, NEW c \in Clients, Joins(c), NEW d \in Clients,
           partner'[d] \in {0, nextPeer}
    PROVE  Idle(d) /\ role'[d] = "none"
<1>1. Idle(d)
  BY DeliverStep DEF Joins, TalkInv
<1>2. partner[d] < nextPeer /\ partner'[d] = partner[d] /\ role'[d] = role[d]
  BY <1>1 DEF TalkInv, HandedOut, Idle, KeepsRole
<1>3. nextPeer \in Nat /\ partner[d] \in Nat
  BY DEF TalkInv, MeetInv, MeetTypeInv, RoomInv, SignalTypeOK, RendezvousTypeOK, PeerIds
<1>4. partner[d] = 0
  BY <1>2, <1>3
<1> QED BY <1>1, <1>2, <1>4 DEF TalkInv, MeetInv, RoleByAge

LEMMA JoinerWaits ==
    ASSUME TalkInv, NEW c \in Clients, Joins(c), Alive(c)'
    PROVE  /\ peerId'[c] = nextPeer /\ role'[c] = "none"
           /\ JoinedMessage \in Message /\ inbox'[c] = <<JoinedMessage>>
<1>0. MeetInv /\ OneRoom /\ PhaseOf(c)
  BY DEF TalkInv, Phases
<1>1. /\ peerId[c] = 0 /\ peerId'[c] = nextPeer /\ JoinedMessage \in Message
      /\ inbox'[c] = Append(inbox[c], JoinedMessage) /\ outbox[c] # <<>>
  BY <1>0, JoinTold
<1>2. Idle(c)
  BY <1>0, DeliverStep DEF Joins
<1>3. stage[c] = "joining"
  <2>1. stage[c] \in Stages /\ stage[c] \notin Ended
    BY <1>0, <1>2 DEF MeetInv, MeetTypeInv, RendezvousTypeOK, Idle, Alive
  <2> QED BY <1>0, <1>1, <2>1, StagesDiffer DEF PhaseOf
<1>4. inbox[c] = <<>> /\ role'[c] = "none"
  BY <1>0, <1>1, <1>2, <1>3 DEF PhaseOf, Waiting, Idle, KeepsRole
<1> QED BY <1>1, <1>4

LEMMA JoinConserves ==
    ASSUME TalkInv, TalkInv', NEW c \in Clients, NEW d \in Clients,
           Meeting(c, d)', Joins(c) \/ Joins(d)
    PROVE  Conserved(c, d)'
<1>0. MeetInv
  BY DEF TalkInv
<1>1. /\ c # d /\ partner'[c] \in {0, peerId'[d]} /\ partner'[d] \in {0, peerId'[c]}
      /\ Alive(c)' /\ Alive(d)'
  BY DEF Meeting
<1>2. /\ role'[c] = "none" /\ role'[d] = "none"
      /\ \A k \in 1..Len(inbox'[c]) : inbox'[c][k] \notin CandidatesOf(peerId'[d])
  <2>1. CASE Joins(c)
    <3>1. peerId'[c] = nextPeer /\ role'[c] = "none" /\ inbox'[c] = <<JoinedMessage>>
      BY <1>1, <2>1, JoinerWaits
    <3>2. role'[d] = "none"
      BY <1>1, <2>1, <3>1, JoinIdle
    <3>3. \A k \in 1..Len(inbox'[c]) : inbox'[c][k] \notin CandidatesOf(peerId'[d])
      BY <3>1 DEF JoinedMessage, CandidatesOf
    <3> QED BY <3>1, <3>2, <3>3
  <2>2. CASE Joins(d)
    <3>1. peerId'[d] = nextPeer /\ role'[d] = "none"
      BY <1>1, <2>2, JoinerWaits
    <3>2. role'[c] = "none"
      BY <1>1, <2>2, <3>1, JoinIdle
    <3>3. inbox[c] \in Seq(Message) /\ nextPeer \in Nat
      BY <1>0 DEF MeetInv, MeetTypeInv, RoomInv, SignalTypeOK
    <3>4. ASSUME NEW k \in 1..Len(inbox[c])
          PROVE  inbox[c][k] \notin CandidatesOf(nextPeer)
      BY <3>3 DEF TalkInv, HandedOut, CandidatesOf
    <3>5. \/ inbox'[c] = inbox[c]
          \/ /\ Note("peer-joined", nextPeer) \in Message
             /\ inbox'[c] = Append(inbox[c], Note("peer-joined", nextPeer))
      BY <1>0, <1>1, <2>2, JoinEffect
    <3>6. Note("peer-joined", nextPeer) \notin CandidatesOf(nextPeer)
      BY DEF Note, CandidatesOf
    <3>7. ASSUME NEW k \in 1..Len(inbox'[c])
          PROVE  inbox'[c][k] \notin CandidatesOf(nextPeer)
      BY <3>3, <3>4, <3>5, <3>6, AppendMember
    <3> QED BY <3>1, <3>2, <3>7
  <2> QED BY <2>1, <2>2
<1>3. Count(inbox'[c], CandidatesOf(peerId'[d])) = 0
  BY <1>2, CountNone
<1>4. /\ Count(outbox'[d], {"candidate"}) = 0 /\ gathered'[d] = 0
      /\ Len(buffered'[c]) = 0 /\ Len(applied'[c]) = 0
  BY <1>2, NothingOfNone
<1> QED BY <1>3, <1>4 DEF Conserved, CandidatesOf

LEMMA ConservedStep ==
    ASSUME TalkInv, TalkInv', NothingLost, [MeetNext]_meetVars, NEW c \in Clients, NEW d \in Clients,
           Meeting(c, d)', ~Joins(c), ~Joins(d)
    PROVE  Conserved(c, d)'
<1>0. MeetInv /\ StepOf(c) /\ StepOf(d)
  BY EveryStep DEF TalkInv
<1>1. /\ Alive(c)' /\ ws'[c] = "open" /\ peerId'[c] # 0 /\ Alive(d)' /\ ws'[d] = "open"
      /\ peerId'[d] # 0 /\ c # d /\ stage'[c] # "session"
      /\ partner'[c] \in {0, peerId'[d]} /\ partner'[d] \in {0, peerId'[c]}
  BY DEF Meeting
<1>2. /\ Alive(c) /\ ws[c] = "open" /\ peerId'[c] = peerId[c] /\ partner[c] \in {0, partner'[c]}
      /\ stage[c] = "session" => stage'[c] = "session"
      /\ ~Dials(c) /\ ~Stops(c)
  BY <1>0, <1>1, MeetingBefore
<1>3. /\ Alive(d) /\ ws[d] = "open" /\ peerId'[d] = peerId[d] /\ partner[d] \in {0, partner'[d]}
      /\ ~Dials(d) /\ ~Stops(d)
  BY <1>0, <1>1, MeetingBefore
<1>4. Meeting(c, d)
  BY <1>1, <1>2, <1>3 DEF Meeting
<1>5. Conserved(c, d)
  BY <1>4 DEF NothingLost
<1>6. PICK i \in PeerIds : i = peerId[d]
  BY <1>1, <1>3 DEF TalkInv, MeetInv, MeetTypeInv, RoomInv, SignalTypeOK
<1>7. partner[c] \in {0, i}
  BY <1>4, <1>6 DEF Meeting
<1>8. Hands(d) <=> Gets(c, i)
  BY <1>0, <1>2, <1>4, <1>6, HandedOver, TakenOver
<1>9. PICK put \in {0, 1} : put = IF Hands(d) THEN 1 ELSE 0
  OBVIOUS
<1>10. gathered'[d] + Count(outbox[d], {"candidate"})
          = gathered[d] + Count(outbox'[d], {"candidate"}) + put
  BY <1>0, <1>1, <1>3, <1>9, OutboxCount
<1>11. Kept(c, i)' = Kept(c, i) + put
  <2>1. Kept(c, i)' = Kept(c, i) + (IF Gets(c, i) THEN 1 ELSE 0)
    BY <1>0, <1>2, <1>7, InboxCount
  <2>2. put = IF Gets(c, i) THEN 1 ELSE 0
    BY <1>8, <1>9
  <2> QED BY <2>1, <2>2
<1> DEFINE out == Count(outbox[d], {"candidate"})
           outNew == Count(outbox'[d], {"candidate"})
           in == Count(inbox[c], CandidatesOf(i))
           inNew == Count(inbox'[c], CandidatesOf(i))
           buf == Len(buffered[c])
           bufNew == Len(buffered'[c])
           app == Len(applied[c])
           appNew == Len(applied'[c])
           all == gathered[d]
           allNew == gathered'[d]
<1>12. /\ out \in Nat /\ outNew \in Nat /\ in \in Nat /\ inNew \in Nat /\ buf \in Nat
       /\ bufNew \in Nat /\ app \in Nat /\ appNew \in Nat /\ all \in Nat /\ allNew \in Nat
  <2>1. /\ outbox[d] \in Seq(Signals) /\ inbox[c] \in Seq(Message) /\ buffered[c] \in Seq(PeerIds)
        /\ applied[c] \in Seq(PeerIds) /\ gathered[d] \in 0..MaxCandidates
    BY DEF TalkInv, MeetInv, MeetTypeInv, RoomInv, SignalTypeOK, RendezvousTypeOK
  <2>2. /\ outbox'[d] \in Seq(Signals) /\ inbox'[c] \in Seq(Message) /\ buffered'[c] \in Seq(PeerIds)
        /\ applied'[c] \in Seq(PeerIds) /\ gathered'[d] \in 0..MaxCandidates
    BY DEF TalkInv, MeetInv, MeetTypeInv, RoomInv, SignalTypeOK, RendezvousTypeOK
  <2>3. out \in Nat /\ in \in Nat /\ buf \in Nat /\ app \in Nat
    BY <2>1, CountType, LenProperties
  <2>4. outNew \in Nat /\ inNew \in Nat /\ bufNew \in Nat /\ appNew \in Nat
    BY <2>2, CountType, LenProperties
  <2>5. all \in Nat /\ allNew \in Nat
    BY <2>1, <2>2, RendezvousBounds
  <2> QED BY <2>3, <2>4, <2>5
<1>13. /\ all = out + in + buf + app
       /\ allNew + out = all + outNew + put
       /\ inNew + bufNew + appNew = in + buf + app + put
  <2>1. all = out + in + buf + app
    BY <1>5, <1>6 DEF Conserved
  <2>2. allNew + out = all + outNew + put
    BY <1>10
  <2>3. inNew + bufNew + appNew = in + buf + app + put
    BY <1>11 DEF Kept, CandidatesOf
  <2> QED BY <2>1, <2>2, <2>3
<1>14. allNew = outNew + inNew + bufNew + appNew
  <2> HIDE DEF out, outNew, in, inNew, buf, bufNew, app, appNew, all, allNew
  <2> QED BY <1>9, <1>12, <1>13
<1>15. peerId'[d] = i
  BY <1>3, <1>6
<1> QED BY <1>14, <1>15 DEF Conserved, CandidatesOf

LEMMA NothingLostStep == TalkInv /\ TalkInv' /\ NothingLost /\ [MeetNext]_meetVars => NothingLost'
<1> SUFFICES ASSUME TalkInv, TalkInv', NothingLost, [MeetNext]_meetVars,
                    NEW c \in Clients, NEW d \in Clients, Meeting(c, d)'
             PROVE  Conserved(c, d)'
  BY DEF NothingLost
<1> QED BY JoinConserves, ConservedStep

LEMMA NothingLostInit == MeetInit => NothingLost
BY DEF MeetInit, SignalInit, NothingLost, Meeting

LEMMA NothingLostHolds == MeetSpec => [](TalkInv /\ NothingLost)
<1>1. TalkInv /\ NothingLost /\ [MeetNext]_meetVars => TalkInv' /\ NothingLost'
  BY TalkStep, NothingLostStep
<1> QED BY <1>1, TalkInit, NothingLostInit, PTL DEF MeetSpec

(* No candidate is lost, doubled or given to another between two attempts  *)
(* that chose each other, while both are connected to the server: one that *)
(* comes before the description is kept for it, and applied with it        *)
(* (rtc.rs:190-234, 366-418; on_ice_candidate; getOtherPeer).              *)
THEOREM CandidatesAllKept == MeetSpec => []CandidatesKept
<1>1. TalkInv /\ NothingLost => CandidatesKept
  <2> SUFFICES ASSUME TalkInv, NothingLost PROVE CandidatesKept
    OBVIOUS
  <2>0. MeetInv /\ OneOwner /\ Phases /\ Described
    BY DEF TalkInv
  <2>1. ASSUME NEW c \in Clients, NEW d \in Clients, Mutual(c, d), Alive(c)
        PROVE  peerId[c] # 0 /\ view[c].me = peerId[c]
    <3>1. partner[c] # 0 /\ view[c].me # 0
      BY <2>1 DEF Mutual
    <3>2. role[c] # "none" /\ PhaseOf(c) /\ stage[c] \in Stages /\ stage[c] \notin Ended
      BY <2>0, <2>1, <3>1
         DEF MeetInv, MeetTypeInv, RoleByAge, RendezvousTypeOK, Phases, Alive
    <3>3. peerId[c] # 0
      BY <3>2, StagesDiffer DEF PhaseOf
    <3> QED BY <2>0, <3>1, <3>3, OwnPeerId
  <2>2. ASSUME NEW c \in Clients, NEW d \in Clients, Mutual(c, d), Alive(c), Alive(d),
               ws[c] = "open", ws[d] = "open", stage[c] # "session"
        PROVE  gathered[d] = Count(outbox[d], {"candidate"})
                                + Count(inbox[c], CandidatesOf(partner[c]))
                                + Len(buffered[c]) + Len(applied[c])
    <3>1. Mutual(d, c)
      BY <2>2 DEF Mutual
    <3>2. /\ peerId[c] # 0 /\ view[c].me = peerId[c]
          /\ peerId[d] # 0 /\ view[d].me = peerId[d]
      BY <2>1, <2>2, <3>1
    <3>3. partner[c] = peerId[d] /\ partner[d] = peerId[c]
      BY <2>2, <3>2 DEF Mutual
    <3>4. c # d
      <4>1. {role[c], role[d]} = {"offerer", "answerer"}
        BY <2>0, <2>2, MeetRolesMatch DEF RolesMatch
      <4> QED BY <4>1
    <3>5. Meeting(c, d)
      BY <2>2, <3>2, <3>3, <3>4 DEF Meeting
    <3> QED BY <3>3, <3>5 DEF NothingLost, Conserved
  <2>3. \A c \in Clients : remote[c] # 0 => buffered[c] = <<>>
    BY <2>0 DEF Described, DescribedOf
  <2> QED BY <2>2, <2>3 DEF CandidatesKept
<1> QED BY <1>1, NothingLostHolds, PTL
=============================================================================
