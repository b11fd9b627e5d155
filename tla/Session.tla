------------------------------ MODULE Session ------------------------------
(***************************************************************************)
(* The life of the two processes over several WebRTC connections: each is  *)
(* established, agrees on a version by HELLO and AGREE, runs its loop,     *)
(* ends by an error and starts over (run_with_retry).  What rtc::connect   *)
(* does to establish a connection is one step here, Establish.             *)
(*                                                                         *)
(* A connection failure reaches the loop through Notify::notify_waiters,   *)
(* which wakes the Notified futures that exist and keeps nothing for later *)
(* ones.  select! makes a new one each time round, so woken[s] is          *)
(* meaningful only while s stands in its select.                           *)
(***************************************************************************)
EXTENDS Naturals, Sequences

CONSTANTS
    ProtocolVersion,    \* of the serve side's release: 1 in the code
    HelloRanges,        \* <<min, max>> of the releases a proxy may be of
    MaxConns,           \* bound: connections ever established
    MaxInFlight         \* bound: frames under way on a connection when a ping or headers are sent

ASSUME SessionBounds ==
    /\ ProtocolVersion \in Nat \ {0}
    /\ HelloRanges \subseteq Nat \X Nat
    /\ MaxConns \in Nat
    /\ MaxInFlight \in Nat

VARIABLES
    state,      \* where the main task of each process stands
    held,       \* the connection its session is on, 0 for none
    woken,      \* the Notified of its current select has been notified
    made,       \* connections established so far
    link,       \* of each connection: "none", "up" or "failed"
    toServe,    \* frames of each connection not yet taken by the serve side
    toProxy,    \* frames of each connection not yet taken by the proxy side
    tasks,      \* spawned tasks of each connection that still run
    offered,    \* history: the range of the HELLO that serve answered
    agreed,     \* history: the version serve answered with, 0 before
    ready,      \* the version of the AGREE the proxy took, 0 before
    abandoned   \* history: connections whose loop this serve process left by ServeChokes

channels == <<toServe, toProxy>>
history == <<offered, agreed, ready, abandoned>>
vars == <<state, held, woken, made, link, toServe, toProxy, tasks, offered, agreed, ready,
          abandoned>>

Sides == {"serve", "proxy"}
Conns == 1..MaxConns
ProxyTasks == {"proxyPing", "reader", "handler"}
Tasks == {"servePing"} \cup ProxyTasks
OwnTasks == [serve |-> {"servePing"}, proxy |-> ProxyTasks]
PingOf == [serve |-> "servePing", proxy |-> "proxyPing"]

Hello(range) == [type |-> "Hello", min |-> range[1], max |-> range[2]]
Agree(v) == [type |-> "Agree", version |-> v]
Ping == [type |-> "Ping"]
Pong == [type |-> "Pong"]
Headers == [type |-> "ReqHeaders"]
Frame == {Hello(range) : range \in HelloRanges} \cup [type : {"Agree"}, version : Nat]
            \cup {Ping, Pong, Headers}

Settling == {"dialed", "greet", "handshake", "bind", "busy", "parse", "pong", "backoff"}
Looping == {"select", "busy", "parse", "pong"}
Between == {"connecting", "backoff", "stopped"}

SessionTypeOK ==
    /\ state \in [Sides -> {"connecting", "waitOpen", "select", "stopped"} \cup Settling]
    /\ held \in [Sides -> 0..MaxConns]
    /\ woken \in [Sides -> BOOLEAN]
    /\ made \in 0..MaxConns
    /\ link \in [Conns -> {"none", "up", "failed"}]
    /\ toServe \in [Conns -> Seq(Frame)]
    /\ toProxy \in [Conns -> Seq(Frame)]
    /\ tasks \in [Conns -> SUBSET Tasks]
    /\ offered \in [Conns -> HelloRanges \cup {<<0, 0>>}]
    /\ agreed \in [Conns -> Nat]
    /\ ready \in [Conns -> Nat]
    /\ abandoned \subseteq Conns
    /\ \A s \in Sides : held[s] = 0 <=> state[s] \in Between

Init ==
    /\ state = [s \in Sides |-> "connecting"]
    /\ held = [s \in Sides |-> 0]
    /\ woken = [s \in Sides |-> FALSE]
    /\ made = 0
    /\ link = [k \in Conns |-> "none"]
    /\ toServe = [k \in Conns |-> <<>>]
    /\ toProxy = [k \in Conns |-> <<>>]
    /\ tasks = [k \in Conns |-> {}]
    /\ offered = [k \in Conns |-> <<0, 0>>]
    /\ agreed = [k \in Conns |-> 0]
    /\ ready = [k \in Conns |-> 0]
    /\ abandoned = {}

-----------------------------------------------------------------------------
(***************************************************************************)
(* The connections.                                                        *)
(***************************************************************************)
Establish ==
    /\ \A s \in Sides : state[s] = "connecting"
    /\ made < MaxConns
    /\ made' = made + 1
    /\ link' = [link EXCEPT ![made + 1] = "up"]
    /\ state' = [s \in Sides |-> "dialed"]
    /\ held' = [s \in Sides |-> made + 1]
    /\ UNCHANGED <<woken, channels, tasks, history>>

(* The state handler calls notify_waiters: only a select in progress hears *)
(* of it.  Frames not yet delivered are lost.                              *)
Notified(k) == [s \in Sides |-> woken[s] \/ (held[s] = k /\ state[s] = "select")]

LinkFails(k) ==
    /\ link[k] = "up"
    /\ link' = [link EXCEPT ![k] = "failed"]
    /\ woken' = Notified(k)
    /\ \E i \in 0..Len(toServe[k]) :
          toServe' = [toServe EXCEPT ![k] = SubSeq(@, 1, i)]
    /\ \E i \in 0..Len(toProxy[k]) :
          toProxy' = [toProxy EXCEPT ![k] = SubSeq(@, 1, i)]
    /\ UNCHANGED <<state, held, made, tasks, history>>

(* dc.send on a failed connection errs (the actions named ...Fails), or    *)
(* succeeds and the frame is lost.                                         *)
Put(channel, k, f) ==
    IF link[k] = "up" THEN [channel EXCEPT ![k] = Append(@, f)] ELSE channel

-----------------------------------------------------------------------------
(***************************************************************************)
(* run_with_retry, and what every session begins and ends with.            *)
(***************************************************************************)
Goes(s, to) == state' = [state EXCEPT ![s] = to]

(* Mutant: the session's connection is kept for the next attempt.          *)
EndSessionHolding(s) ==
    /\ Goes(s, "backoff")
    /\ woken' = [woken EXCEPT ![s] = FALSE]
    /\ UNCHANGED held

(* The future of the session is dropped with all it owns but the tasks it  *)
(* spawned, and the retry loop sleeps.                                     *)
EndSession(s) ==
    /\ Goes(s, "backoff")
    /\ held' = [held EXCEPT ![s] = 0]
    /\ woken' = [woken EXCEPT ![s] = FALSE]

(* The number of attempts only sets how long it sleeps.                    *)
Retry(s) ==
    /\ state[s] = "backoff"
    /\ Goes(s, "connecting")
    /\ UNCHANGED <<held, woken, made, link, channels, tasks, history>>

(* An error before the connection is established, or of the own side after *)
(* the other's connect has returned.                                       *)
ConnectFails(s) ==
    /\ state[s] \in {"connecting", "dialed"}
    /\ EndSession(s)
    /\ UNCHANGED <<made, link, channels, tasks, history>>

(* Mutant: the proxy's keepalive starts as soon as the channel is open.    *)
ConnectReturnsPinging(s) ==
    /\ state[s] = "dialed"
    /\ Goes(s, IF s = "proxy" THEN "greet" ELSE "handshake")
    /\ tasks' = [tasks EXCEPT ![held[s]] = @ \cup ({"proxyPing"} \cap OwnTasks[s])]
    /\ UNCHANGED <<held, woken, made, link, channels, history>>

(* A channel found closed is waited for, by a Notified that nothing will   *)
(* ever notify: on_open has run.                                           *)
ConnectReturns(s) ==
    /\ state[s] = "dialed"
    /\ \/ Goes(s, IF s = "proxy" THEN "greet" ELSE "handshake")
       \/ link[held[s]] = "failed" /\ Goes(s, "waitOpen")
    /\ UNCHANGED <<held, woken, made, link, channels, tasks, history>>

(* Ctrl+C, or the end of the process for any other reason.                 *)
Stop(s) ==
    /\ state[s] # "stopped"
    /\ Goes(s, "stopped")
    /\ held' = [held EXCEPT ![s] = 0]
    /\ woken' = [woken EXCEPT ![s] = FALSE]
    /\ tasks' = [k \in Conns |-> tasks[k] \ OwnTasks[s]]
    /\ abandoned' = IF s = "serve" THEN {} ELSE abandoned
    /\ UNCHANGED <<made, link, channels, offered, agreed, ready>>

Start(s) ==
    /\ state[s] = "stopped"
    /\ Goes(s, "connecting")
    /\ UNCHANGED <<held, woken, made, link, channels, tasks, history>>

-----------------------------------------------------------------------------
(***************************************************************************)
(* The handshake: HELLO from the proxy, AGREE from serve.  The error for a *)
(* first frame of another type has no action: by NoSurprise none comes.    *)
(***************************************************************************)
Greater(a, b) == IF a > b THEN a ELSE b
Lesser(a, b) == IF a < b THEN a ELSE b

(* Mutant: the ends of the two ranges are taken the wrong way round.       *)
OverlapMaxUnion(hello) == Greater(hello.max, ProtocolVersion)

(* Agree::from_hello, whose own range is 1..ProtocolVersion.               *)
OverlapMin(hello) == Greater(hello.min, 1)
OverlapMax(hello) == Lesser(hello.max, ProtocolVersion)
Compatible(hello) == OverlapMin(hello) <= OverlapMax(hello)

Greet ==
    LET k == held["proxy"] IN
    /\ state["proxy"] = "greet"
    /\ \E range \in HelloRanges : toServe' = Put(toServe, k, Hello(range))
    /\ Goes("proxy", "handshake")
    /\ UNCHANGED <<held, woken, made, link, toProxy, tasks, history>>

GreetFails ==
    /\ state["proxy"] = "greet"
    /\ link[held["proxy"]] = "failed"
    /\ EndSession("proxy")
    /\ UNCHANGED <<made, link, channels, tasks, history>>

Inbox(s) == IF s = "serve" THEN toServe[held[s]] ELSE toProxy[held[s]]
FirstIs(s, type) == Inbox(s) # <<>> /\ Head(Inbox(s)).type = type

(* A version is agreed and the keepalive task started.                     *)
ServeAgrees ==
    LET k == held["serve"]
        hello == Head(toServe[k])
    IN
    /\ state["serve"] = "handshake"
    /\ FirstIs("serve", "Hello")
    /\ Compatible(hello)
    /\ toServe' = [toServe EXCEPT ![k] = Tail(@)]
    /\ toProxy' = Put(toProxy, k, Agree(OverlapMax(hello)))
    /\ offered' = [offered EXCEPT ![k] = <<hello.min, hello.max>>]
    /\ agreed' = [agreed EXCEPT ![k] = OverlapMax(hello)]
    /\ tasks' = [tasks EXCEPT ![k] = @ \cup {"servePing"}]
    /\ Goes("serve", "select")
    /\ UNCHANGED <<held, woken, made, link, ready, abandoned>>

(* No common version, or the AGREE cannot be sent: the peer is not told.   *)
(* A HELLO that names another protocol or is not one at all, which no      *)
(* proxy sends, would end the session in the same way.                     *)
ServeRefuses ==
    LET k == held["serve"] IN
    /\ state["serve"] = "handshake"
    /\ FirstIs("serve", "Hello")
    /\ ~Compatible(Head(toServe[k])) \/ link[k] = "failed"
    /\ toServe' = [toServe EXCEPT ![k] = Tail(@)]
    /\ EndSession("serve")
    /\ UNCHANGED <<made, link, toProxy, tasks, history>>

(* The version is not looked at.  Two tasks start: keepalive and reader.   *)
ProxyTakesAgree ==
    LET k == held["proxy"] IN
    /\ state["proxy"] = "handshake"
    /\ FirstIs("proxy", "Agree")
    /\ ready' = [ready EXCEPT ![k] = Head(toProxy[k]).version]
    /\ toProxy' = [toProxy EXCEPT ![k] = Tail(@)]
    /\ tasks' = [tasks EXCEPT ![k] = @ \cup {"proxyPing", "reader"}]
    /\ Goes("proxy", "bind")
    /\ UNCHANGED <<held, woken, made, link, toServe, offered, agreed, abandoned>>

(* Mutant: the handshake waits as long as it takes.                        *)
HandshakeWaits(s) == state[s] = "handshake" /\ FALSE /\ UNCHANGED vars

(* After 300 s without a frame.  The failure of the connection is not      *)
(* watched here.                                                           *)
HandshakeTimesOut(s) ==
    /\ state[s] = "handshake"
    /\ Inbox(s) = <<>>
    /\ EndSession(s)
    /\ UNCHANGED <<made, link, channels, tasks, history>>

-----------------------------------------------------------------------------
(***************************************************************************)
(* The loop of serve.  It takes a frame, handles it outside of its select, *)
(* and comes back to a new one.  A frame taken while a failure has already *)
(* woken the other branch makes the loop forget the failure.               *)
(***************************************************************************)
ServeTakes ==
    LET k == held["serve"] IN
    /\ state["serve"] = "select"
    /\ toServe[k] # <<>>
    /\ toServe' = [toServe EXCEPT ![k] = Tail(@)]
    /\ Goes("serve", CASE Head(toServe[k]).type = "Ping" -> "pong"
                       [] Head(toServe[k]).type = "ReqHeaders" -> "parse"
                       [] OTHER -> "busy")
    /\ woken' = [woken EXCEPT !["serve"] = FALSE]
    /\ UNCHANGED <<held, made, link, toProxy, tasks, history>>

(* A pong that cannot be sent is only logged.                              *)
ServePongs ==
    /\ state["serve"] = "pong"
    /\ toProxy' = Put(toProxy, held["serve"], Pong)
    /\ Goes("serve", "select")
    /\ UNCHANGED <<held, woken, made, link, toServe, tasks, history>>

ServeHandles ==
    /\ state["serve"] \in {"busy", "parse"}
    /\ Goes("serve", "select")
    /\ UNCHANGED <<held, woken, made, link, channels, tasks, history>>

(* Headers it cannot parse, as those of another release may be, end the    *)
(* session by a `?`: the one way out of the loop that does not abort the   *)
(* keepalive task.                                                         *)
ServeChokes ==
    /\ state["serve"] = "parse"
    /\ EndSession("serve")
    /\ abandoned' = abandoned \cup {held["serve"]}
    /\ UNCHANGED <<made, link, channels, tasks, offered, agreed, ready>>

(* Mutant: the keepalive task is left running, as in the proxy.            *)
ServeEndsKeepingPing ==
    /\ state["serve"] = "select"
    /\ woken["serve"]
    /\ EndSession("serve")
    /\ UNCHANGED <<made, link, channels, tasks, history>>

ServeEnds ==
    LET k == held["serve"] IN
    /\ state["serve"] = "select"
    /\ woken["serve"]
    /\ EndSession("serve")
    /\ tasks' = [tasks EXCEPT ![k] = @ \ {"servePing"}]
    /\ UNCHANGED <<made, link, channels, history>>

-----------------------------------------------------------------------------
(***************************************************************************)
(* The listener and the accept loop of the proxy, and its reader task.     *)
(***************************************************************************)
Bind ==
    /\ state["proxy"] = "bind"
    /\ Goes("proxy", "select")
    /\ UNCHANGED <<held, woken, made, link, channels, tasks, history>>

(* An address in use or an accept error ends the session; the two spawned  *)
(* tasks stay, here and in ProxyEnds.                                      *)
ListenerFails ==
    /\ state["proxy"] \in {"bind", "select"}
    /\ EndSession("proxy")
    /\ UNCHANGED <<made, link, channels, tasks, history>>

ProxyAccepts ==
    /\ state["proxy"] = "select"
    /\ Goes("proxy", "busy")
    /\ woken' = [woken EXCEPT !["proxy"] = FALSE]
    /\ UNCHANGED <<held, made, link, channels, tasks, history>>

ProxySpawns ==
    /\ state["proxy"] = "busy"
    /\ Goes("proxy", "select")
    /\ tasks' = [tasks EXCEPT ![held["proxy"]] = @ \cup {"handler"}]
    /\ UNCHANGED <<held, woken, made, link, channels, history>>

ProxyEnds ==
    /\ state["proxy"] = "select"
    /\ woken["proxy"]
    /\ EndSession("proxy")
    /\ UNCHANGED <<made, link, channels, tasks, history>>

(* The handlers of a connection's clients, who may ask again at any time,  *)
(* also once the session is over.  Only the headers of a request are sent  *)
(* here; Tunnel has the rest.                                              *)
SendHeaders(k) ==
    /\ "handler" \in tasks[k]
    /\ link[k] = "up"
    /\ Len(toServe[k]) + Len(toProxy[k]) < MaxInFlight
    /\ toServe' = Put(toServe, k, Headers)
    /\ UNCHANGED <<state, held, woken, made, link, toProxy, tasks, history>>

Reader(k) ==
    /\ "reader" \in tasks[k]
    /\ toProxy[k] # <<>>
    /\ toServe' = IF Head(toProxy[k]).type = "Ping" THEN Put(toServe, k, Pong) ELSE toServe
    /\ toProxy' = [toProxy EXCEPT ![k] = Tail(@)]
    /\ UNCHANGED <<state, held, woken, made, link, tasks, history>>

-----------------------------------------------------------------------------
(***************************************************************************)
(* Keepalive, of either side.                                              *)
(***************************************************************************)
SendPing(s, k) ==
    /\ PingOf[s] \in tasks[k]
    /\ link[k] = "up"
    /\ Len(toServe[k]) + Len(toProxy[k]) < MaxInFlight
    /\ IF s = "proxy" THEN toServe' = Put(toServe, k, Ping) /\ UNCHANGED toProxy
                      ELSE toProxy' = Put(toProxy, k, Ping) /\ UNCHANGED toServe
    /\ UNCHANGED <<state, held, woken, made, link, tasks, history>>

PingFails(s, k) ==
    /\ PingOf[s] \in tasks[k]
    /\ link[k] = "failed"
    /\ tasks' = [tasks EXCEPT ![k] = @ \ {PingOf[s]}]
    /\ UNCHANGED <<state, held, woken, made, link, channels, history>>

-----------------------------------------------------------------------------
(* What the main task of a process does by itself.                         *)
Main(s) ==
    \/ Retry(s) \/ ConnectReturns(s) \/ HandshakeTimesOut(s)
    \/ s = "serve" /\ (ServeAgrees \/ ServeRefuses \/ ServeTakes \/ ServePongs \/ ServeHandles
                      \/ ServeChokes \/ ServeEnds)
    \/ s = "proxy" /\ (Greet \/ GreetFails \/ ProxyTakesAgree \/ Bind \/ ProxySpawns
                      \/ ProxyEnds)

Next ==
    \/ Establish
    \/ \E s \in Sides : Main(s) \/ ConnectFails(s) \/ Stop(s) \/ Start(s)
    \/ ListenerFails \/ ProxyAccepts
    \/ \E k \in Conns : LinkFails(k) \/ SendHeaders(k) \/ Reader(k)
    \/ \E s \in Sides, k \in Conns : SendPing(s, k) \/ PingFails(s, k)

Spec == Init /\ [][Next]_vars

(* The runtime polls what can run and its timers fire.  Nothing is assumed *)
(* of connections, clients, keepalive or listeners.                        *)
FairSpec ==
    /\ Spec
    /\ \A s \in Sides : WF_vars(Main(s))
    /\ \A k \in Conns : WF_vars(Reader(k))
-----------------------------------------------------------------------------
(* The first frame a handshake takes is the one it expects: keepalive and  *)
(* requests of one side never overtake the HELLO and AGREE of either       *)
(* (serve.rs:46, proxy.rs:80), over sessions that end at any point.        *)
Expected == [serve |-> "Hello", proxy |-> "Agree"]
NoSurprise ==
    \A s \in Sides :
        state[s] = "handshake" /\ Inbox(s) # <<>> => FirstIs(s, Expected[s])

(* A proxy listens only with the version serve agreed to on that very      *)
(* connection, and serve agrees to "the highest version both sides         *)
(* support" (protocol.rs:43).                                              *)
Common(range) == {v \in 1..ProtocolVersion : range[1] <= v /\ v <= range[2]}
HighestCommon ==
    \A k \in Conns :
        /\ ready[k] # 0 => ready[k] = agreed[k]
        /\ agreed[k] # 0 => /\ agreed[k] \in Common(offered[k])
                           /\ \A v \in Common(offered[k]) : v <= agreed[k]
ListensAgreed ==
    state["proxy"] \in Looping \cup {"bind"} => ready[held["proxy"]] # 0
SameVersion == HighestCommon /\ ListensAgreed

ServeOn(k) == held["serve"] = k /\ state["serve"] \in Looping

(* The keepalive of serve runs on a connection that is up as long as serve *)
(* is in its loop there.  It runs on after the loop only where that was    *)
(* left by headers that do not parse (serve.rs:113): a failure that is     *)
(* heard, which aborts it (serve.rs:87), an end before the loop, a restart *)
(* and a later session leave none.  What those headers did leave goes on   *)
(* until the connection fails or the process ends.                         *)
KeepaliveOutlives ==
    \A k \in Conns :
        /\ "servePing" \in tasks[k] => ServeOn(k) \/ k \in abandoned
        /\ link[k] = "up" /\ (ServeOn(k) \/ k \in abandoned) => "servePing" \in tasks[k]

(* No step of a session but those that wait for others lasts for ever: the *)
(* handshake, with its 300 s, and the way from an error to a new attempt.  *)
SessionSettles ==
    \A s \in Sides : state[s] \in Settling ~> state[s] \notin Settling

(* "Watch for WebRTC connection failure" (serve.rs:84, proxy.rs:181): a    *)
(* loop whose connection failed ends, "to trigger reconnect".              *)
FailureEndsLoop ==
    \A s \in Sides :
        (held[s] # 0 /\ state[s] \in Looping /\ link[held[s]] = "failed")
            ~> state[s] \notin Looping
=============================================================================
