----------------------------- MODULE Rendezvous -----------------------------
(***************************************************************************)
(* How two processes meet: the signaling server (SignalServer, which this  *)
(* module extends) with the clients of signaling.rs and the roles of       *)
(* rtc::connect.  An attempt is one call of connect, the SignalingClient   *)
(* it makes and the session that follows; it has a WebSocket connection of *)
(* its own, and is named by it.                                            *)
(*                                                                         *)
(*   dial -> joining -> alone -> prepare -> select <-> handle -> session   *)
(*                 \-> select (answerer) -> answering -> handle            *)
(*                                                                         *)
(* Signals carry no more than their type and the id of their sender: the   *)
(* description and the candidates of an attempt are its own.               *)
(***************************************************************************)
EXTENDS SignalServer

CONSTANTS
    Processes,      \* the processes that use the room, serve or proxy alike
    MaxCandidates,  \* bound: ICE candidates one attempt gathers
    MaxFaults       \* bound: connections lost, local errors, processes stopped

ASSUME RoomAssumption == Rooms # {} /\ RelayTypes = {"offer", "answer", "candidate"}
ASSUME RendezvousBounds == MaxCandidates \in Nat /\ MaxFaults \in Nat

VARIABLES
    current,    \* the attempt each process is in, or Absent between two
    stage,      \* where the task running the attempt stands
    role,       \* "offerer" or "answerer" once it is known
    outbox,     \* signals sent and not yet received by the server
    remote,     \* whose description the peer connection was given, 0 for none
    buffered,   \* candidates kept for later, by their senders
    applied,    \* candidates given to the peer connection, by their senders
    rtc,        \* peer connection and channel: "new", "connected", "open", "failed"
    notified,   \* what the Notified futures of the select in progress were told
    partner,    \* history: the peer whose presence decided the role
    gathered,   \* history: candidates sent so far
    faults      \* faults so far

pcVars == <<remote, buffered, applied>>
rtcVars == <<rtc, notified>>
history == <<partner, gathered>>
clientVars == <<current, stage, role, outbox, pcVars, rtcVars, history, faults>>
meetVars == <<signalVars, clientVars>>

Signals == {"join", "offer", "answer", "candidate", "bye"}
Selecting == {"select", "handle", "answering", "settle"}
Establishing == {"joining", "prepare"} \cup Selecting
Stages == {"none", "alone", "session", "over", "killed"} \cup Establishing
Ended == {"over", "killed"}
Alive(c) == stage[c] \notin Ended
Events == {"connected", "opened", "failed"}

RendezvousTypeOK ==
    /\ current \in [Processes -> Clients \cup {Absent}]
    /\ stage \in [Clients -> Stages]
    /\ role \in [Clients -> {"none", "offerer", "answerer"}]
    /\ outbox \in [Clients -> Seq(Signals)]
    /\ remote \in [Clients -> PeerIds \cup {0}]
    /\ buffered \in [Clients -> Seq(PeerIds)]
    /\ applied \in [Clients -> Seq(PeerIds)]
    /\ rtc \in [Clients -> {"new", "connected", "open", "failed"}]
    /\ notified \in [Clients -> SUBSET Events]
    /\ partner \in [Clients -> PeerIds \cup {0}]
    /\ gathered \in [Clients -> 0..MaxCandidates]
    /\ faults \in 0..MaxFaults
    /\ \A p \in Processes : current[p] # Absent => stage[current[p]] \notin Ended \cup {"none"}

MeetInit ==
    /\ SignalInit
    /\ current = [p \in Processes |-> Absent]
    /\ stage = [c \in Clients |-> "none"]
    /\ role = [c \in Clients |-> "none"]
    /\ outbox = [c \in Clients |-> <<>>]
    /\ remote = [c \in Clients |-> 0]
    /\ buffered = [c \in Clients |-> <<>>]
    /\ applied = [c \in Clients |-> <<>>]
    /\ rtc = [c \in Clients |-> "new"]
    /\ notified = [c \in Clients |-> {}]
    /\ partner = [c \in Clients |-> 0]
    /\ gathered = [c \in Clients |-> 0]
    /\ faults = 0

-----------------------------------------------------------------------------
(***************************************************************************)
(* The process and its attempts.                                           *)
(***************************************************************************)
Goes(c, to) == stage' = [stage EXCEPT ![c] = to]

(* A signal given to the writer task once the connection is over is lost.  *)
Sends(c, signal) ==
    outbox' = IF ws[c] \in {"open", "closing"}
              THEN [outbox EXCEPT ![c] = Append(@, signal)]
              ELSE outbox

Fault == faults < MaxFaults /\ faults' = faults + 1

(* All processes of an instance are given the same room.                   *)
Room == CHOOSE r \in Rooms : TRUE

Unused == {c \in Clients : ws[c] = "new"}

(* SignalingClient::connect.  When it fails nothing was made.              *)
Dial(p) ==
    LET c == CHOOSE c \in Unused : TRUE IN
    /\ current[p] = Absent
    /\ Unused # {}
    /\ Connect(c)
    /\ current' = [current EXCEPT ![p] = c]
    /\ Goes(c, "joining")
    /\ outbox' = [outbox EXCEPT ![c] = <<"join">>]
    /\ UNCHANGED <<role, pcVars, rtcVars, history, faults>>

(* Mutant: a failed attempt ends the process.                              *)
ReleasesNothing(c) == UNCHANGED current

(* run_with_retry is about to start over.                                  *)
Releases(c) ==
    current' = [p \in Processes |-> IF current[p] = c THEN Absent ELSE current[p]]

(* Mutant: the client has no Drop.                                         *)
GiveUpNoBye(c) ==
    /\ Goes(c, "over")
    /\ Releases(c)
    /\ UNCHANGED outbox

(* An error return: the SignalingClient is dropped, which sends a bye, and *)
(* the process is between two attempts.  Its WebSocket stays until both    *)
(* tasks of the client have ended.                                         *)
GiveUp(c) ==
    /\ Goes(c, "over")
    /\ Sends(c, "bye")
    /\ Releases(c)

(* Any `?` of connect: a peer connection, description or candidate refused *)
(* by the webrtc crate.                                                    *)
LocalError(c) ==
    /\ stage[c] \in Establishing \ {"joining"}
    /\ Fault
    /\ GiveUp(c)
    /\ UNCHANGED <<signalVars, role, pcVars, rtcVars, history>>

(* Ctrl+C or a crash.  The writer task may have sent some of what it had,  *)
(* the bye included.                                                       *)
Stop(p) ==
    LET c == current[p] IN
    /\ c # Absent
    /\ Fault
    /\ current' = [current EXCEPT ![p] = Absent]
    /\ Goes(c, "killed")
    /\ \E i \in 0..(Len(outbox[c]) + 1) :
          outbox' = [outbox EXCEPT ![c] = SubSeq(Append(@, "bye"), 1, i)]
    /\ UNCHANGED <<signalVars, role, pcVars, rtcVars, history>>

Mutual(c, d) ==
    /\ partner[c] # 0 /\ partner[c] = view[d].me
    /\ partner[d] # 0 /\ partner[d] = view[c].me

(* The session that follows ends with an error, for any reason.            *)
SessionEnds(c) ==
    /\ stage[c] = "session"
    /\ GiveUp(c)
    /\ UNCHANGED <<signalVars, role, pcVars, rtcVars, history, faults>>

(* One that must end: its handshake gets no frame from a peer that is      *)
(* still in connect.                                                       *)
HandshakeTimesOut(c) ==
    /\ \E d \in Clients : Mutual(c, d) /\ stage[d] \in Establishing
    /\ SessionEnds(c)

-----------------------------------------------------------------------------
(***************************************************************************)
(* The WebSocket connection: the writer task and the server's handlers.    *)
(***************************************************************************)
Handles(c, signal) ==
    CASE signal = "join" -> OnJoin(c, Room) \/ OnJoinRefused(c, Room)
      [] signal \in RelayTypes -> OnRelay(c, signal)
      [] signal = "bye" -> IF peerId[c] # 0 THEN OnBye(c)
                                            ELSE Receives(c) /\ UNCHANGED signalVars

Deliver(c) ==
    /\ outbox[c] # <<>>
    /\ Handles(c, Head(outbox[c]))
    /\ outbox' = [outbox EXCEPT ![c] = Tail(@)]
    /\ UNCHANGED <<current, stage, role, pcVars, rtcVars, history, faults>>

(* The end of a connection, with what was on its way to the server.        *)
Ends(c) ==
    /\ outbox' = [outbox EXCEPT ![c] = <<>>]
    /\ UNCHANGED <<current, stage, role, pcVars, rtcVars, history>>

ConnectionLost(c) == stage[c] # "killed" /\ Fault /\ (OnError(c) \/ OnClose(c)) /\ Ends(c)

(* The tasks of a client go on until the last sender is dropped and all is *)
(* sent; those of a process end with it.                                   *)
ConnectionDropped(c) ==
    /\ stage[c] = "killed" \/ (stage[c] = "over" /\ outbox[c] = <<>>)
    /\ OnClose(c)
    /\ Ends(c)
    /\ UNCHANGED faults

-----------------------------------------------------------------------------
(***************************************************************************)
(* What connect and its two loops do with the signal they receive.  Only   *)
(* its type decides: nothing looks at the id of the sender.  The branches  *)
(* for another signal while the role is open (rtc.rs:487, 501), and those  *)
(* for an error once joined (rtc.rs:227, 411, 483), have no action: by     *)
(* RoleSignalFirst and OnlyStraysIgnored they are never taken.             *)
(***************************************************************************)
Takes(c, at, type) ==
    /\ stage[c] = at
    /\ inbox[c] # <<>>
    /\ Head(inbox[c]).type = type
    /\ Read(c)

Sender(c) == Head(inbox[c]).peer

(* Mutant: the second peer of a room offers too.                           *)
TakeJoinedOffers(c) ==
    /\ Takes(c, "joining", "joined")
    /\ \E i \in Head(inbox[c]).others : partner' = [partner EXCEPT ![c] = i]
    /\ role' = [role EXCEPT ![c] = "offerer"]
    /\ Goes(c, "prepare")
    /\ UNCHANGED <<current, outbox, pcVars, rtcVars, gathered, faults>>

(* The second peer of a room is the answerer.                              *)
TakeJoinedSecond(c) ==
    /\ Takes(c, "joining", "joined")
    /\ \E i \in Head(inbox[c]).others : partner' = [partner EXCEPT ![c] = i]
    /\ role' = [role EXCEPT ![c] = "answerer"]
    /\ Goes(c, "select")
    /\ UNCHANGED <<current, outbox, pcVars, rtcVars, gathered, faults>>

TakeJoinedFirst(c) ==
    /\ Takes(c, "joining", "joined")
    /\ Head(inbox[c]).others = {}
    /\ Goes(c, "alone")
    /\ UNCHANGED <<current, role, outbox, pcVars, rtcVars, history, faults>>

(* The first one is the offerer, once it has company.                      *)
TakePeerJoined(c) ==
    /\ Takes(c, "alone", "peer-joined")
    /\ partner' = [partner EXCEPT ![c] = Sender(c)]
    /\ role' = [role EXCEPT ![c] = "offerer"]
    /\ Goes(c, "prepare")
    /\ UNCHANGED <<current, outbox, pcVars, rtcVars, gathered, faults>>

(* A full room.                                                            *)
TakeError(c) ==
    /\ Takes(c, "joining", "error")
    /\ GiveUp(c)
    /\ UNCHANGED <<role, pcVars, rtcVars, history, faults>>

(* recv gives None: the connection is over, whatever was still on its way. *)
RecvNone(c) ==
    /\ stage[c] \in {"joining", "alone", "select"}
    /\ ws[c] \in {"failed", "closed"}
    /\ GiveUp(c)
    /\ UNCHANGED <<signalVars, role, pcVars, rtcVars, history, faults>>

(* Every select makes its Notified futures anew: what one of them was told *)
(* goes with it.                                                           *)
NotifiedForgotten(c) == notified' = [notified EXCEPT ![c] = {}]

(* Mutant: a peer that leaves is no reason to give up.                     *)
TakePeerLeftIgnored(c) ==
    /\ Takes(c, "select", "peer-left")
    /\ Goes(c, "handle")
    /\ NotifiedForgotten(c)
    /\ UNCHANGED <<current, role, outbox, pcVars, rtc, history, faults>>

TakePeerLeft(c) ==
    /\ Takes(c, "select", "peer-left")
    /\ GiveUp(c)
    /\ NotifiedForgotten(c)
    /\ UNCHANGED <<role, pcVars, rtc, history, faults>>

(* The gathering of up to 5 s ends, and the offer goes out.                *)
SendOffer(c) ==
    /\ stage[c] = "prepare"
    /\ Sends(c, "offer")
    /\ Goes(c, "select")
    /\ UNCHANGED <<signalVars, current, role, pcVars, rtcVars, history, faults>>

(* The writer task has ended.                                              *)
SendFails(c) ==
    /\ stage[c] \in {"prepare", "answering"}
    /\ ws[c] \in {"failed", "closed"}
    /\ GiveUp(c)
    /\ UNCHANGED <<signalVars, role, pcVars, rtcVars, history, faults>>

(* Mutant: buffered candidates are dropped with the buffer.                *)
DescribeDropping(c) ==
    /\ remote' = [remote EXCEPT ![c] = Sender(c)]
    /\ buffered' = [buffered EXCEPT ![c] = <<>>]
    /\ UNCHANGED applied

(* set_remote_description and apply_buffered_candidates.                   *)
Describe(c) ==
    /\ remote' = [remote EXCEPT ![c] = Sender(c)]
    /\ applied' = [applied EXCEPT ![c] = @ \o buffered[c]]
    /\ buffered' = [buffered EXCEPT ![c] = <<>>]

TakeAnswer(c) ==
    /\ role[c] = "offerer"
    /\ Takes(c, "select", "answer")
    /\ Describe(c)
    /\ Goes(c, "handle")
    /\ NotifiedForgotten(c)
    /\ UNCHANGED <<current, role, outbox, rtc, history, faults>>

TakeOffer(c) ==
    /\ role[c] = "answerer"
    /\ Takes(c, "select", "offer")
    /\ Describe(c)
    /\ Goes(c, "answering")
    /\ NotifiedForgotten(c)
    /\ UNCHANGED <<current, role, outbox, rtc, history, faults>>

SendAnswer(c) ==
    /\ stage[c] = "answering"
    /\ Sends(c, "answer")
    /\ Goes(c, "handle")
    /\ UNCHANGED <<signalVars, current, role, pcVars, rtcVars, history, faults>>

TakeCandidate(c) ==
    /\ Takes(c, "select", "candidate")
    /\ IF remote[c] # 0
       THEN applied' = [applied EXCEPT ![c] = Append(@, Sender(c))] /\ UNCHANGED buffered
       ELSE buffered' = [buffered EXCEPT ![c] = Append(@, Sender(c))] /\ UNCHANGED applied
    /\ Goes(c, "handle")
    /\ NotifiedForgotten(c)
    /\ UNCHANGED <<current, role, outbox, remote, rtc, history, faults>>

(* The signals an attempt takes by name where it stands.                   *)
Expected(c) ==
    CASE stage[c] = "joining" -> {"joined", "error"}
      [] stage[c] = "alone" -> {"peer-joined"}
      [] role[c] = "offerer" -> {"answer", "candidate", "peer-left"}
      [] role[c] = "answerer" -> {"offer", "candidate", "peer-left"}

(* A signal meant for the one who was in the room before.                  *)
IgnoreStray(c) ==
    /\ stage[c] = "select"
    /\ inbox[c] # <<>>
    /\ Head(inbox[c]).type \notin Expected(c)
    /\ Read(c)
    /\ Goes(c, "handle")
    /\ NotifiedForgotten(c)
    /\ UNCHANGED <<current, role, outbox, pcVars, rtc, history, faults>>

(* on_ice_candidate, from the local description on.  It has a sender of    *)
(* its own and outlives the attempt.                                       *)
Gather(c) ==
    /\ role[c] = "offerer" \/ remote[c] # 0
    /\ stage[c] # "killed"
    /\ gathered[c] < MaxCandidates
    /\ gathered' = [gathered EXCEPT ![c] = @ + 1]
    /\ Sends(c, "candidate")
    /\ UNCHANGED <<signalVars, current, stage, role, pcVars, rtcVars, partner, faults>>

-----------------------------------------------------------------------------
(***************************************************************************)
(* The ends of the two loops.                                              *)
(***************************************************************************)
Leaves(c, to) ==
    /\ Goes(c, to)
    /\ NotifiedForgotten(c)
    /\ UNCHANGED <<signalVars, current, role, outbox, pcVars, rtc, history, faults>>

IfOpen(c) == IF rtc[c] = "open" THEN "session" ELSE "select"

(* The test at the end of each round.                                      *)
RoundEnds(c) == stage[c] = "handle" /\ Leaves(c, IfOpen(c))

(* The offerer gives the channel 5 s to open, and is back in its loop if   *)
(* it does not.                                                            *)
OnConnected(c) == stage[c] = "select" /\ "connected" \in notified[c] /\ Leaves(c, "settle")
Settles(c) == stage[c] = "settle" /\ Leaves(c, IfOpen(c))

OnOpened(c) == stage[c] = "select" /\ "opened" \in notified[c] /\ Leaves(c, "session")

OnFailed(c) ==
    /\ stage[c] = "select"
    /\ "failed" \in notified[c]
    /\ GiveUp(c)
    /\ NotifiedForgotten(c)
    /\ UNCHANGED <<signalVars, role, pcVars, rtc, history, faults>>

-----------------------------------------------------------------------------
(***************************************************************************)
(* The peer connection, external: the webrtc crate calls the handlers that *)
(* connect installed.  A handler reports by notify_waiters, which a select *)
(* in progress hears and nothing else.                                     *)
(***************************************************************************)
Hears == [none |-> {}, offerer |-> {"connected", "failed"}, answerer |-> {"opened", "failed"}]

Reports(c, event) ==
    notified' = IF stage[c] = "select" /\ event \in Hears[role[c]]
                THEN [notified EXCEPT ![c] = @ \cup {event}]
                ELSE notified

(* Both hold the description of the other.                                 *)
Linked(c, d) ==
    /\ remote[c] # 0 /\ remote[c] = view[d].me
    /\ remote[d] # 0 /\ remote[d] = view[c].me

PcMoves(c, to, event) ==
    /\ rtc' = [rtc EXCEPT ![c] = to]
    /\ Reports(c, event)
    /\ UNCHANGED <<signalVars, current, stage, role, outbox, pcVars, history>>

PcConnects(c) ==
    /\ Alive(c)
    /\ rtc[c] = "new"
    /\ \E d \in Clients : Linked(c, d) /\ rtc[d] # "failed" /\ stage[d] # "killed"
    /\ PcMoves(c, "connected", "connected")
    /\ UNCHANGED faults

ChannelOpens(c) ==
    /\ Alive(c)
    /\ rtc[c] = "connected"
    /\ \E d \in Clients : Linked(c, d) /\ rtc[d] \in {"connected", "open"} /\ stage[d] # "killed"
    /\ PcMoves(c, "open", "opened")
    /\ UNCHANGED faults

(* Once connecting, on its own or because the other side is gone.          *)
PcFails(c) ==
    /\ Alive(c)
    /\ rtc[c] # "failed"
    /\ remote[c] # 0
    /\ \/ Fault
       \/ /\ \E d \in Clients : view[d].me = remote[c] /\ (~Alive(d) \/ rtc[d] = "failed")
          /\ UNCHANGED faults
    /\ PcMoves(c, "failed", "failed")

-----------------------------------------------------------------------------
(* What the task of an attempt does by itself.                             *)
Attempt(c) ==
    \/ TakeJoinedFirst(c) \/ TakeJoinedSecond(c) \/ TakePeerJoined(c)
    \/ TakeError(c) \/ RecvNone(c) \/ TakePeerLeft(c)
    \/ SendOffer(c) \/ SendFails(c) \/ TakeAnswer(c) \/ TakeOffer(c) \/ SendAnswer(c)
    \/ TakeCandidate(c) \/ IgnoreStray(c)
    \/ RoundEnds(c) \/ OnConnected(c) \/ Settles(c) \/ OnOpened(c) \/ OnFailed(c)

PeerConnection(c) == PcConnects(c) \/ ChannelOpens(c) \/ PcFails(c)

MeetNext ==
    \/ \E p \in Processes : Dial(p) \/ Stop(p)
    \/ \E c \in Clients :
          \/ Attempt(c) \/ Gather(c) \/ PeerConnection(c) \/ LocalError(c) \/ SessionEnds(c)
          \/ Deliver(c) \/ ConnectionLost(c) \/ ConnectionDropped(c)

MeetSpec == MeetInit /\ [][MeetNext]_meetVars

(* Tasks, the server and the webrtc crate go on; the connection of a       *)
(* process that is gone is closed by its host.                             *)
FairMeetSpec ==
    /\ MeetSpec
    /\ \A c \in Clients :
          /\ WF_meetVars(Deliver(c))
          /\ WF_meetVars(Attempt(c))
          /\ WF_meetVars(PeerConnection(c))
          /\ WF_meetVars(HandshakeTimesOut(c))
          /\ WF_meetVars(stage[c] = "killed" /\ ConnectionDropped(c))

-----------------------------------------------------------------------------
(* The first signals of an attempt are those that decide its role, whoever *)
(* joins and leaves.  Any other would be lost, and connect would then wait *)
(* for a joined that has come already (rtc.rs:487).                        *)
RoleSignalFirst ==
    \A c \in Clients :
        stage[c] \in {"joining", "alone"} /\ inbox[c] # <<>> =>
            Head(inbox[c]).type \in Expected(c)

(* What the two loops ignore (rtc.rs:233, 417) is only what was relayed to *)
(* a newcomer by a peer that still takes its predecessor for its partner;  *)
(* two attempts that chose each other never lose a signal of the other.    *)
OnlyStraysIgnored ==
    \A c \in Clients :
        stage[c] \in Establishing \ {"joining"} /\ inbox[c] # <<>>
        /\ Head(inbox[c]).type \notin Expected(c) =>
            /\ Head(inbox[c]).type \in RelayTypes
            /\ \A d \in Clients : view[d].me = Sender(c) => ~Mutual(c, d)

(* Whatever strays an attempt was given, it gets to a session only on the  *)
(* descriptions and candidates of an attempt that chose it in turn.        *)
SessionsPaired ==
    \A c \in Clients :
        stage[c] = "session" =>
            /\ \E d \in Clients : Mutual(c, d) /\ Linked(c, d)
            /\ \A i \in 1..Len(applied[c]) : applied[c][i] = partner[c]

(* Two attempts that take each other for their peer have different roles:  *)
(* never two offers that cross, never two that wait for one.               *)
RolesMatch ==
    \A c, d \in Clients : Mutual(c, d) => {role[c], role[d]} = {"offerer", "answerer"}

Count(sequence, S) == Cardinality({k \in 1..Len(sequence) : sequence[k] \in S})

CandidatesOf(i) == [type : {"candidate"}, peer : {i}, others : SUBSET PeerIds]

(* While both are connected to the server every candidate that one has     *)
(* gathered is under way to the other, kept, or applied, once; and none is *)
(* kept once there is a description to apply it to.                        *)
CandidatesKept ==
    /\ \A c, d \in Clients :
          Mutual(c, d) /\ Alive(c) /\ Alive(d) /\ ws[c] = "open" /\ ws[d] = "open"
          /\ stage[c] # "session" =>
             gathered[d] = Count(outbox[d], {"candidate"})
                              + Count(inbox[c], CandidatesOf(partner[c]))
                              + Len(buffered[c]) + Len(applied[c])
    /\ \A c \in Clients : remote[c] # 0 => buffered[c] = <<>>

(* The peer connection failed and the loop, between two selects then, was  *)
(* not told.                                                               *)
FailureMissed(c) == rtc[c] = "failed" /\ "failed" \notin notified[c]

(* Its peer is still in a session with an earlier attempt, and reads no    *)
(* signal.                                                                 *)
PeerInOtherSession(c) ==
    \E d \in Clients : view[d].me = partner[c] /\ stage[d] = "session" /\ ~Mutual(c, d)

(* An attempt that has a peer gets to a session or gives up, whatever      *)
(* happens to the peer and to the signaling connection, with these two     *)
(* exceptions: the loops have no timeout.                                  *)
EstablishingEnds ==
    \A c \in Clients :
        stage[c] \in Establishing ~>
            stage[c] \notin Establishing \/ FailureMissed(c) \/ PeerInOtherSession(c)

(* An attempt that is over does not keep its place in the room, so the     *)
(* next attempt of the same process finds room (Drop of SignalingClient).  *)
PlaceReleased ==
    \A c \in Clients :
        stage[c] \in Ended ~> \A i \in PeerIds : peers[i] # NoPeer => peers[i].ws # c

(* "Use a Notify to detect when peer connection reaches Connected state"   *)
(* (rtc.rs:161): once its channel is open, the offerer is in a session,    *)
(* unless the connection fails.                                            *)
ConnectedDetected ==
    \A c \in Clients :
        stage[c] \in Establishing /\ rtc[c] = "open" ~> stage[c] = "session" \/ rtc[c] = "failed"
=============================================================================
