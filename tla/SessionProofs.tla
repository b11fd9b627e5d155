--------------------------- MODULE SessionProofs ---------------------------
(***************************************************************************)
(* Theorems about Session, for any versions and any number of connections. *)
(***************************************************************************)
EXTENDS Session, SequenceTheorems, TLAPS

OnlyHellos(q) == \A i \in DOMAIN q : q[i].type = "Hello"

(* A connection not made yet carries nothing, and sessions are on made     *)
(* ones, that of serve on none it has left.                                *)
Unmade ==
    /\ \A s \in Sides : held[s] <= made
    /\ held["serve"] \notin abandoned
    /\ \A k \in Conns : k > made =>
          /\ link[k] = "none"
          /\ tasks[k] = {}
          /\ toServe[k] = <<>>
          /\ agreed[k] = 0
          /\ k \notin abandoned

(* How far each main task is says how far the handshake of its connection  *)
(* is.                                                                     *)
Phases ==
    /\ state["serve"] \notin Between =>
          (agreed[held["serve"]] # 0 <=> state["serve"] \in Looping)
    /\ state["proxy"] \notin Between =>
          (ready[held["proxy"]] # 0 <=> state["proxy"] \in Looping \cup {"bind"})

(* Keepalive, reader and handlers run only where the handshake is over.    *)
TasksLate ==
    \A k \in Conns :
        /\ "servePing" \in tasks[k] => agreed[k] # 0
        /\ tasks[k] \cap ProxyTasks # {} => ready[k] # 0

(* Until the proxy has taken the AGREE, only HELLO goes one way, and the   *)
(* AGREE leads the frames of the other, unless it was lost.                *)
Order ==
    \A k \in Conns :
        /\ agreed[k] = 0 => toProxy[k] = <<>> /\ ready[k] = 0
        /\ ready[k] = 0 => OnlyHellos(toServe[k])
        /\ agreed[k] # 0 /\ ready[k] = 0 =>
              \/ toProxy[k] # <<>> /\ Head(toProxy[k]) = Agree(agreed[k])
              \/ toProxy[k] = <<>> /\ link[k] # "up"

SessionInv ==
    /\ SessionTypeOK
    /\ HighestCommon
    /\ KeepaliveOutlives
    /\ Unmade
    /\ Phases
    /\ TasksLate
    /\ Order

-----------------------------------------------------------------------------
(* Sequences of frames.                                                    *)
LEMMA FramesType ==
    /\ Ping \in Frame /\ Pong \in Frame /\ Headers \in Frame
    /\ \A v \in Nat : Agree(v) \in Frame
    /\ \A range \in HelloRanges : Hello(range) \in Frame
BY DEF Frame, Agree

LEMMA HelloFrame ==
    ASSUME NEW f \in Frame, f.type = "Hello"
    PROVE  /\ f.min \in Nat /\ f.max \in Nat
           /\ <<f.min, f.max>> \in HelloRanges
<1>1. f \in {Hello(range) : range \in HelloRanges}
  BY DEF Frame, Ping, Pong, Headers
<1>2. PICK range \in HelloRanges : f = Hello(range)
  BY Zenon, <1>1
<1>3. f.min = range[1] /\ f.max = range[2]
  BY <1>2 DEF Hello
<1>4. range \in Nat \X Nat
  BY SessionBounds
<1> QED  BY <1>3, <1>4

LEMMA TailType ==
    ASSUME NEW q \in Seq(Frame), q # <<>>
    PROVE  Tail(q) \in Seq(Frame) /\ Head(q) \in Frame
BY HeadTailProperties

LEMMA PutType ==
    ASSUME NEW channel \in [Conns -> Seq(Frame)], NEW k \in Conns, NEW f \in Frame
    PROVE  Put(channel, k, f) \in [Conns -> Seq(Frame)]
<1>1. Append(channel[k], f) \in Seq(Frame)
  BY AppendProperties
<1> QED  BY <1>1 DEF Put

LEMMA CutType ==
    ASSUME NEW q \in Seq(Frame), NEW i \in 0..Len(q)
    PROVE  /\ SubSeq(q, 1, i) \in Seq(Frame)
           /\ OnlyHellos(q) => OnlyHellos(SubSeq(q, 1, i))
           /\ q = <<>> => SubSeq(q, 1, i) = <<>>
           /\ q # <<>> => SubSeq(q, 1, i) = <<>> \/ Head(SubSeq(q, 1, i)) = Head(q)
BY DEF OnlyHellos

LEMMA HellosKept ==
    ASSUME NEW q \in Seq(Frame), OnlyHellos(q)
    PROVE  /\ q # <<>> => OnlyHellos(Tail(q)) /\ Head(q).type = "Hello"
           /\ \A f \in Frame : f.type = "Hello" => OnlyHellos(Append(q, f))
BY DEF OnlyHellos

LEMMA HeadKept ==
    ASSUME NEW q \in Seq(Frame), NEW f \in Frame, q # <<>>
    PROVE  Append(q, f) # <<>> /\ Head(Append(q, f)) = Head(q)
BY AppendProperties

-----------------------------------------------------------------------------
(* The type invariant.                                                     *)
LEMMA HeldType ==
    ASSUME SessionTypeOK, NEW s \in Sides, state[s] \notin Between
    PROVE  held[s] \in Conns
BY SessionBounds DEF SessionTypeOK, Conns

LEMMA ServeHeld == SessionTypeOK /\ state["serve"] \notin Between => held["serve"] \in Conns
BY HeldType DEF Sides

LEMMA ProxyHeld == SessionTypeOK /\ state["proxy"] \notin Between => held["proxy"] \in Conns
BY HeldType DEF Sides

LEMMA InitType == Init => SessionTypeOK
BY SessionBounds DEF Init, SessionTypeOK, Between, Settling, Tasks

LEMMA AgreeFrame ==
    ASSUME NEW f \in Frame, f.type = "Agree"
    PROVE  f.version \in Nat
BY DEF Frame, Hello, Ping, Pong, Headers

LEMMA OverlapType ==
    ASSUME NEW f \in Frame, f.type = "Hello"
    PROVE  OverlapMax(f) \in Nat
BY HelloFrame, SessionBounds DEF OverlapMax, Lesser

LEMMA NextType == SessionTypeOK /\ [Next]_vars => SessionTypeOK'
<1> SUFFICES ASSUME SessionTypeOK, [Next]_vars PROVE SessionTypeOK'
  OBVIOUS
<1> USE DEF SessionTypeOK, Settling, Between, Sides, channels, history
<1>1. ASSUME Establish PROVE SessionTypeOK'
  <2>1. made + 1 \in 0..MaxConns /\ made + 1 # 0
    BY <1>1, SessionBounds DEF Establish
  <2>2. held' \in [Sides -> 0..MaxConns] /\ state' = [s \in Sides |-> "dialed"]
    BY <1>1, <2>1 DEF Establish
  <2>3. link' \in [Conns -> {"none", "up", "failed"}]
    BY <1>1 DEF Establish
  <2> QED
    BY <1>1, <2>1, <2>2, <2>3 DEF Establish
<1>2. ASSUME NEW k \in Conns, LinkFails(k) PROVE SessionTypeOK'
  BY <1>2, CutType DEF LinkFails, Notified
<1>3. ASSUME NEW s \in Sides, Retry(s) PROVE SessionTypeOK'
  BY <1>3 DEF Retry, Goes
<1>4. ASSUME NEW s \in Sides, ConnectFails(s) PROVE SessionTypeOK'
  BY <1>4, SessionBounds DEF ConnectFails, EndSession, Goes
<1>5. ASSUME NEW s \in Sides, ConnectReturns(s) PROVE SessionTypeOK'
  BY <1>5, HeldType DEF ConnectReturns, Goes
<1>6. ASSUME NEW s \in Sides, Stop(s) PROVE SessionTypeOK'
  BY <1>6, SessionBounds DEF Stop, Goes, Tasks, ProxyTasks
<1>7. ASSUME NEW s \in Sides, Start(s) PROVE SessionTypeOK'
  BY <1>7 DEF Start, Goes
<1>8. ASSUME Greet PROVE SessionTypeOK'
  <2>1. toServe' \in [Conns -> Seq(Frame)]
    <3>1. held["proxy"] \in Conns
      BY <1>8, ProxyHeld DEF Greet
    <3>2. PICK range \in HelloRanges : toServe' = Put(toServe, held["proxy"], Hello(range))
      BY <1>8 DEF Greet
    <3> QED  BY <3>1, <3>2, PutType, FramesType
  <2> QED  BY <1>8, <2>1 DEF Greet, Goes
<1>9. ASSUME GreetFails PROVE SessionTypeOK'
  BY <1>9, SessionBounds DEF GreetFails, EndSession, Goes
<1>10. ASSUME ServeAgrees PROVE SessionTypeOK'
  BY <1>10, ServeHeld, PutType, FramesType, HelloFrame, TailType, OverlapType
     DEF ServeAgrees, FirstIs, Inbox, Goes, Tasks, ProxyTasks
<1>11. ASSUME ServeRefuses PROVE SessionTypeOK'
  BY SMTT(30), <1>11, SessionBounds, ServeHeld, TailType
     DEF ServeRefuses, FirstIs, Inbox, EndSession, Goes
<1>12. ASSUME ProxyTakesAgree PROVE SessionTypeOK'
  BY <1>12, ProxyHeld, TailType, AgreeFrame DEF ProxyTakesAgree, FirstIs, Inbox, Goes, Tasks, ProxyTasks
<1>13. ASSUME NEW s \in Sides, HandshakeTimesOut(s) PROVE SessionTypeOK'
  BY <1>13, SessionBounds DEF HandshakeTimesOut, EndSession, Goes
<1>14. ASSUME ServeTakes PROVE SessionTypeOK'
  BY <1>14, ServeHeld, TailType DEF ServeTakes, Goes
<1>15. ASSUME ServePongs PROVE SessionTypeOK'
  BY <1>15, ServeHeld, PutType, FramesType DEF ServePongs, Goes
<1>16. ASSUME ServeHandles PROVE SessionTypeOK'
  BY <1>16 DEF ServeHandles, Goes
<1>16a. ASSUME ServeChokes PROVE SessionTypeOK'
  BY <1>16a, SessionBounds, ServeHeld DEF ServeChokes, EndSession, Goes
<1>17. ASSUME ServeEnds PROVE SessionTypeOK'
  <2>1. tasks' \in [Conns -> SUBSET Tasks]
    BY <1>17 DEF ServeEnds
  <2>2. held' \in [Sides -> 0..MaxConns]
    <3>1. 0 \in 0..MaxConns
      BY SessionBounds
    <3>2. held' = [held EXCEPT !["serve"] = 0]
      BY <1>17 DEF ServeEnds, EndSession
    <3> QED  BY <3>1, <3>2
  <2> QED
    BY <1>17, <2>1, <2>2 DEF ServeEnds, EndSession, Goes
<1>18. ASSUME Bind PROVE SessionTypeOK'
  BY <1>18 DEF Bind, Goes
<1>19. ASSUME ListenerFails PROVE SessionTypeOK'
  BY <1>19, SessionBounds DEF ListenerFails, EndSession, Goes
<1>20. ASSUME ProxyAccepts PROVE SessionTypeOK'
  BY <1>20 DEF ProxyAccepts, Goes
<1>21. ASSUME ProxySpawns PROVE SessionTypeOK'
  BY <1>21, ProxyHeld DEF ProxySpawns, Goes, Tasks, ProxyTasks
<1>22. ASSUME ProxyEnds PROVE SessionTypeOK'
  BY <1>22, SessionBounds DEF ProxyEnds, EndSession, Goes
<1>23. ASSUME NEW k \in Conns, Reader(k) PROVE SessionTypeOK'
  BY <1>23, TailType, PutType, FramesType DEF Reader
<1>22a. ASSUME NEW k \in Conns, SendHeaders(k) PROVE SessionTypeOK'
  BY <1>22a, PutType, FramesType DEF SendHeaders
<1>24. ASSUME NEW s \in Sides, NEW k \in Conns, SendPing(s, k) PROVE SessionTypeOK'
  <2>1. Put(toServe, k, Ping) \in [Conns -> Seq(Frame)]
    BY <1>24, PutType, FramesType
  <2>2. Put(toProxy, k, Ping) \in [Conns -> Seq(Frame)]
    BY <1>24, PutType, FramesType
  <2> QED  BY <1>24, <2>1, <2>2 DEF SendPing
<1>25. ASSUME NEW s \in Sides, NEW k \in Conns, PingFails(s, k) PROVE SessionTypeOK'
  BY <1>25 DEF PingFails
<1>26. CASE UNCHANGED vars
  BY <1>26 DEF vars
<1> QED
  BY <1>1, <1>2, <1>3, <1>4, <1>5, <1>6, <1>7, <1>8, <1>9, <1>10, <1>11, <1>12, <1>13, <1>14,
     <1>15, <1>16, <1>16a, <1>17, <1>18, <1>19, <1>20, <1>21, <1>22, <1>22a, <1>23, <1>24,
     <1>25, <1>26
     DEF Next, Main
-----------------------------------------------------------------------------
(* The inductive invariant.                                                *)
LEMMA InitInv == Init => SessionInv
<1> SUFFICES ASSUME Init PROVE SessionInv
  OBVIOUS
<1>1. SessionTypeOK
  BY InitType
<1>2. HighestCommon /\ KeepaliveOutlives /\ TasksLate
  BY DEF Init, HighestCommon, KeepaliveOutlives, TasksLate
<1>3. Unmade /\ Phases /\ Order
  BY DEF Init, Unmade, Phases, Order, OnlyHellos, Between, Sides
<1> QED  BY <1>1, <1>2, <1>3 DEF SessionInv

(* What leaves serve in its loop or out of it, its tasks as they are and   *)
(* no link up again, leaves the keepalive where it belongs.                *)
LEMMA KeepaliveKept ==
    ASSUME KeepaliveOutlives, UNCHANGED abandoned,
           \A k \in Conns : /\ ServeOn(k)' <=> ServeOn(k)
                            /\ "servePing" \in tasks'[k] <=> "servePing" \in tasks[k]
                            /\ link'[k] = "up" => link[k] = "up"
    PROVE  KeepaliveOutlives'
BY DEF KeepaliveOutlives

(* Where serve is still in its handshake nothing came back to the proxy.   *)
LEMMA NothingAgreed ==
    ASSUME SessionInv, state["serve"] = "handshake"
    PROVE  /\ held["serve"] \in Conns
           /\ agreed[held["serve"]] = 0
           /\ ready[held["serve"]] = 0
           /\ toProxy[held["serve"]] = <<>>
<1>1. held["serve"] \in Conns
  BY ServeHeld DEF SessionInv, Between
<1>2. agreed[held["serve"]] = 0
  BY DEF SessionInv, Phases, Between, Looping
<1> QED  BY <1>1, <1>2 DEF SessionInv, Order

(* What the proxy takes in its handshake is the AGREE of serve.            *)
LEMMA FirstIsAgree ==
    ASSUME SessionInv, state["proxy"] = "handshake", toProxy[held["proxy"]] # <<>>
    PROVE  /\ held["proxy"] \in Conns
           /\ agreed[held["proxy"]] # 0
           /\ ready[held["proxy"]] = 0
           /\ Head(toProxy[held["proxy"]]) = Agree(agreed[held["proxy"]])
<1>1. held["proxy"] \in Conns
  BY ProxyHeld DEF SessionInv, Between
<1>2. ready[held["proxy"]] = 0
  BY DEF SessionInv, Phases, Between, Looping
<1> QED  BY <1>1, <1>2 DEF SessionInv, Order

LEMMA FirstIsHello ==
    ASSUME SessionInv, state["serve"] = "handshake", toServe[held["serve"]] # <<>>
    PROVE  Head(toServe[held["serve"]]).type = "Hello"
<1>1. OnlyHellos(toServe[held["serve"]]) /\ toServe[held["serve"]] \in Seq(Frame)
  BY NothingAgreed DEF SessionInv, Order, SessionTypeOK
<1> QED  BY <1>1, HellosKept

(* from_hello picks the greatest version of both ranges.                   *)
LEMMA OverlapHighest ==
    ASSUME NEW f \in Frame, f.type = "Hello", Compatible(f)
    PROVE  /\ OverlapMax(f) \in Common(<<f.min, f.max>>)
           /\ \A v \in Common(<<f.min, f.max>>) : v <= OverlapMax(f)
           /\ OverlapMax(f) # 0
<1>1. f.min \in Nat /\ f.max \in Nat /\ ProtocolVersion \in Nat \ {0}
  BY HelloFrame, SessionBounds
<1> QED
  BY <1>1 DEF Compatible, OverlapMin, OverlapMax, Greater, Lesser, Common

(* A send after the head of a channel was put there, or to a failed link,  *)
(* leaves the head.                                                        *)
LEMMA PutKeepsOrder ==
    ASSUME NEW channel \in [Conns -> Seq(Frame)], NEW f \in Frame,
           NEW k \in Conns, NEW j \in Conns
    PROVE  /\ channel[j] # <<>> => /\ Put(channel, k, f)[j] # <<>>
                                  /\ Head(Put(channel, k, f)[j]) = Head(channel[j])
           /\ link[k] # "up" \/ j # k => Put(channel, k, f)[j] = channel[j]
<1>1. channel[k] \in Seq(Frame)
  OBVIOUS
<1>2. channel[k] # <<>> => /\ Append(channel[k], f) # <<>>
                           /\ Head(Append(channel[k], f)) = Head(channel[k])
  BY <1>1, HeadKept
<1> QED  BY <1>2 DEF Put

LEMMA AgreesNonzero ==
    ASSUME SessionInv, ServeAgrees
    PROVE  /\ held["serve"] \in Conns
           /\ agreed'[held["serve"]] = OverlapMax(Head(toServe[held["serve"]]))
           /\ agreed'[held["serve"]] # 0
<1>1. held["serve"] \in Conns
  BY NothingAgreed DEF ServeAgrees
<1>2. Head(toServe[held["serve"]]) \in Frame /\ Head(toServe[held["serve"]]).type = "Hello"
  BY <1>1, TailType DEF ServeAgrees, FirstIs, Inbox, SessionInv, SessionTypeOK
<1>3. OverlapMax(Head(toServe[held["serve"]])) # 0
  BY <1>2, OverlapHighest DEF ServeAgrees
<1> QED  BY <1>1, <1>3 DEF ServeAgrees, SessionInv, SessionTypeOK

LEMMA TakenIsAgreed ==
    ASSUME SessionInv, ProxyTakesAgree
    PROVE  /\ held["proxy"] \in Conns
           /\ agreed[held["proxy"]] # 0
           /\ ready' = [ready EXCEPT ![held["proxy"]] = agreed[held["proxy"]]]
           /\ ready'[held["proxy"]] # 0
<1>1. /\ held["proxy"] \in Conns
      /\ agreed[held["proxy"]] # 0
      /\ Head(toProxy[held["proxy"]]) = Agree(agreed[held["proxy"]])
  <2>1. state["proxy"] = "handshake" /\ toProxy[held["proxy"]] # <<>>
    BY DEF ProxyTakesAgree, FirstIs, Inbox
  <2> QED  BY <2>1, FirstIsAgree
<1>2. Head(toProxy[held["proxy"]]).version = agreed[held["proxy"]]
  BY <1>1 DEF Agree
<1>3. ready' = [ready EXCEPT ![held["proxy"]] = agreed[held["proxy"]]]
  BY <1>2 DEF ProxyTakesAgree
<1> QED  BY <1>1, <1>3 DEF SessionInv, SessionTypeOK

LEMMA NextInv == SessionInv /\ [Next]_vars => SessionInv'
<1> SUFFICES ASSUME SessionInv, [Next]_vars PROVE SessionInv'
  OBVIOUS
<1> USE DEF channels, history
<1> DEFINE Parts == /\ HighestCommon /\ KeepaliveOutlives /\ Unmade
                    /\ Phases /\ TasksLate /\ Order
<1>a. SessionTypeOK /\ Parts
  BY DEF SessionInv
<1>b. SessionTypeOK'
  BY <1>a, NextType
<1>c. 0 \notin abandoned
  BY <1>a DEF SessionTypeOK, Conns
<1>1. ASSUME Establish PROVE Parts'
  <2>1. HighestCommon' /\ TasksLate'
    BY <1>1, <1>a DEF Establish, HighestCommon, TasksLate
  <2>2. KeepaliveOutlives'
    <3>1. state'["serve"] = "dialed" /\ state["serve"] = "connecting"
      BY <1>1 DEF Establish, Sides
    <3>2. \A k \in Conns : ~ServeOn(k) /\ ~ServeOn(k)'
      BY <3>1 DEF ServeOn, Looping
    <3>3. \A k \in abandoned : link'[k] = link[k]
      BY <1>1, <1>a DEF Establish, SessionTypeOK, Unmade, Conns
    <3> QED  BY <1>1, <1>a, <3>2, <3>3 DEF Establish, KeepaliveOutlives
  <2>3. Unmade'
    <3>1. made' = made + 1 /\ made \in Nat /\ \A s \in Sides : held'[s] = made + 1
      BY <1>1, <1>a, SessionBounds DEF Establish, SessionTypeOK
    <3>2. \A k \in Conns : k > made + 1 => link'[k] = link[k]
      BY <1>1, <1>a DEF Establish, SessionTypeOK, Conns
    <3>3. made + 1 \notin abandoned /\ made + 1 > made
      BY <1>a, <3>1 DEF SessionTypeOK, Unmade
    <3>4. \A s \in Sides : held'[s] <= made'
      BY <3>1
    <3>5. held'["serve"] \notin abandoned'
      BY <1>1, <3>1, <3>3 DEF Establish, Sides
    <3> QED
      BY <1>1, <1>a, <3>1, <3>2, <3>4, <3>5 DEF Establish, Unmade, Conns
  <2>4. Phases'
    <3>1. made + 1 \in Conns /\ agreed[made + 1] = 0
      BY <1>1, <1>a, SessionBounds DEF Establish, SessionTypeOK, Unmade, Conns
    <3>2. ready[made + 1] = 0
      BY <1>a, <3>1 DEF Order
    <3>3. \A s \in {"serve", "proxy"} : state'[s] = "dialed" /\ held'[s] = made + 1
      BY <1>1 DEF Establish, Sides
    <3> QED  BY <1>1, <3>1, <3>2, <3>3 DEF Establish, Phases, Looping
  <2>5. Order'
    <3>1. made \in Nat /\ \A k \in Conns : k # made + 1 => link'[k] = link[k]
      BY <1>1, <1>a DEF Establish, SessionTypeOK
    <3>2. made + 1 \in Conns => agreed[made + 1] = 0
      BY <1>a, <3>1 DEF Unmade
    <3> QED  BY <1>1, <1>a, <3>1, <3>2 DEF Establish, Order
  <2> QED  BY <2>1, <2>2, <2>3, <2>4, <2>5
<1>2. ASSUME NEW k \in Conns, LinkFails(k) PROVE Parts'
  <2>1. HighestCommon' /\ Phases' /\ TasksLate'
    BY <1>2, <1>a DEF LinkFails, HighestCommon, Phases, TasksLate
  <2>2. Unmade'
    BY <1>2, <1>a, CutType DEF LinkFails, SessionTypeOK, Unmade
  <2>3. Order'
    BY <1>2, <1>a, CutType DEF LinkFails, SessionTypeOK, Order
  <2>4. KeepaliveOutlives'
    BY <1>2, <1>a, KeepaliveKept DEF LinkFails, ServeOn
  <2> QED  BY <2>1, <2>2, <2>3, <2>4
<1>3. ASSUME NEW s \in Sides, Retry(s) PROVE Parts'
  <2>1. HighestCommon' /\ Unmade' /\ TasksLate' /\ Order'
    BY <1>3, <1>a DEF Retry, HighestCommon, Unmade, TasksLate, Order
  <2>2. Phases'
    BY <1>3, <1>a DEF Retry, Goes, SessionTypeOK, Phases, Between, Looping
  <2>3. KeepaliveOutlives'
    BY <1>3, <1>a, KeepaliveKept
       DEF Retry, Goes, SessionTypeOK, ServeOn, Looping, Sides
  <2> QED  BY <2>1, <2>2, <2>3
<1>4. ASSUME NEW s \in Sides, ConnectFails(s) PROVE Parts'
  <2>1. HighestCommon' /\ TasksLate' /\ Order'
    BY <1>4, <1>a DEF ConnectFails, HighestCommon, TasksLate, Order
  <2>2. KeepaliveOutlives'
    BY <1>4, <1>a, KeepaliveKept
       DEF ConnectFails, EndSession, Goes, SessionTypeOK, ServeOn, Looping, Sides
  <2>3. Unmade'
    BY <1>4, <1>a, <1>c DEF ConnectFails, EndSession, Goes, SessionTypeOK, Unmade, Sides
  <2>4. Phases'
    BY <1>4, <1>a DEF ConnectFails, EndSession, Goes, SessionTypeOK, Phases, Between, Looping
  <2> QED  BY <2>1, <2>2, <2>3, <2>4
<1>5. ASSUME NEW s \in Sides, ConnectReturns(s) PROVE Parts'
  <2>1. HighestCommon' /\ Unmade' /\ TasksLate' /\ Order'
    BY <1>5, <1>a
       DEF ConnectReturns, HighestCommon, Unmade, TasksLate, Order
  <2>2. Phases'
    <3>1. state'[s] \in {"greet", "handshake", "waitOpen"}
      <4>1. CASE Goes(s, IF s = "proxy" THEN "greet" ELSE "handshake")
        BY <1>5, <1>a, <4>1 DEF Goes, SessionTypeOK
      <4>2. CASE Goes(s, "waitOpen")
        BY <1>5, <1>a, <4>2 DEF Goes, SessionTypeOK
      <4> QED  BY <1>5, <4>1, <4>2 DEF ConnectReturns
    <3>2. \A q \in Sides : q # s => state'[q] = state[q]
      BY <1>5, <1>a DEF ConnectReturns, Goes, SessionTypeOK
    <3> QED
      BY <1>5, <1>a, <3>1, <3>2 DEF ConnectReturns, Phases, Between, Looping, Sides
  <2>3. KeepaliveOutlives'
    BY <1>5, <1>a, KeepaliveKept
       DEF ConnectReturns, Goes, SessionTypeOK, ServeOn, Looping, Sides
  <2> QED  BY <2>1, <2>2, <2>3
<1>6. ASSUME NEW s \in Sides, Stop(s) PROVE Parts'
  <2>1. HighestCommon' /\ Order'
    BY <1>6, <1>a DEF Stop, HighestCommon, Order
  <2>2. KeepaliveOutlives'
    <3>1. CASE s = "serve"
      BY <1>6, <1>a, <3>1
         DEF Stop, Goes, OwnTasks, SessionTypeOK, KeepaliveOutlives, ServeOn, Looping, Sides
    <3>2. CASE s = "proxy"
      BY <1>6, <1>a, <3>2, KeepaliveKept
         DEF Stop, Goes, OwnTasks, ProxyTasks, SessionTypeOK, ServeOn, Sides
    <3> QED  BY <3>1, <3>2 DEF Sides
  <2>3. Unmade'
    BY <1>6, <1>a DEF Stop, Goes, SessionTypeOK, Unmade
  <2>4. Phases'
    BY <1>6, <1>a DEF Stop, Goes, SessionTypeOK, Phases, Between, Looping
  <2>5. TasksLate'
    BY <1>6, <1>a DEF Stop, Goes, SessionTypeOK, TasksLate
  <2> QED  BY <2>1, <2>2, <2>3, <2>4, <2>5
<1>7. ASSUME NEW s \in Sides, Start(s) PROVE Parts'
  <2>1. HighestCommon' /\ Unmade' /\ TasksLate' /\ Order'
    BY <1>7, <1>a DEF Start, HighestCommon, Unmade, TasksLate, Order
  <2>2. Phases'
    BY <1>7, <1>a DEF Start, Goes, SessionTypeOK, Phases, Between, Looping
  <2>3. KeepaliveOutlives'
    BY <1>7, <1>a, KeepaliveKept
       DEF Start, Goes, SessionTypeOK, ServeOn, Looping, Sides
  <2> QED  BY <2>1, <2>2, <2>3
<1>8. ASSUME Greet PROVE Parts'
  <2>1. HighestCommon' /\ TasksLate'
    BY <1>8, <1>a DEF Greet, HighestCommon, TasksLate
  <2>2. Unmade'
    <3>1. held["proxy"] \in Conns /\ held["proxy"] <= made /\ made \in Nat
      BY <1>8, <1>a, ProxyHeld DEF Greet, Between, SessionTypeOK, Unmade, Sides
    <3>2. \A k \in Conns : k > made => toServe'[k] = toServe[k]
      <4>1. PICK range \in HelloRanges : toServe' = Put(toServe, held["proxy"], Hello(range))
        BY <1>8 DEF Greet
      <4>2. Hello(range) \in Frame /\ toServe \in [Conns -> Seq(Frame)]
        BY <1>a, FramesType DEF SessionTypeOK
      <4>3. \A k \in Conns : k > made => k # held["proxy"]
        BY <3>1 DEF Conns
      <4> QED  BY <3>1, <4>1, <4>2, <4>3, PutKeepsOrder
    <3> QED  BY <1>8, <1>a, <3>2 DEF Greet, Unmade
  <2>3. Phases'
    BY <1>8, <1>a DEF Greet, Goes, SessionTypeOK, Phases, Between, Looping
  <2>4. Order'
    BY <1>8, <1>a, ProxyHeld, FramesType, HellosKept
       DEF Greet, Goes, SessionTypeOK, Order, Put, Hello
  <2>5. KeepaliveOutlives'
    BY <1>8, <1>a, KeepaliveKept DEF Greet, Goes, SessionTypeOK, ServeOn, Sides
  <2> QED  BY <2>1, <2>2, <2>3, <2>4, <2>5
<1>9. ASSUME GreetFails PROVE Parts'
  <2>1. HighestCommon' /\ TasksLate' /\ Order'
    BY <1>9, <1>a DEF GreetFails, HighestCommon, TasksLate, Order
  <2>2. KeepaliveOutlives'
    BY <1>9, <1>a, KeepaliveKept
       DEF GreetFails, EndSession, Goes, SessionTypeOK, ServeOn, Sides
  <2>3. Unmade'
    BY <1>9, <1>a, <1>c DEF GreetFails, EndSession, Goes, SessionTypeOK, Unmade, Sides
  <2>4. Phases'
    BY <1>9, <1>a DEF GreetFails, EndSession, Goes, SessionTypeOK, Phases, Between, Looping
  <2> QED  BY <2>1, <2>2, <2>3, <2>4
<1>10. ASSUME ServeAgrees PROVE Parts'
  <2>1. HighestCommon'
    <3>1. /\ held["serve"] \in Conns
          /\ ready[held["serve"]] = 0
      BY <1>10, NothingAgreed DEF ServeAgrees
    <3>2. Head(toServe[held["serve"]]) \in Frame /\ Head(toServe[held["serve"]]).type = "Hello"
      BY <1>10, <1>a, <3>1, TailType DEF ServeAgrees, FirstIs, Inbox, SessionTypeOK
    <3> DEFINE hello == Head(toServe[held["serve"]])
    <3>3. /\ OverlapMax(hello) \in Common(<<hello.min, hello.max>>)
          /\ \A v \in Common(<<hello.min, hello.max>>) : v <= OverlapMax(hello)
      BY <1>10, <3>2, OverlapHighest DEF ServeAgrees
    <3> HIDE DEF hello
    <3>4. /\ ready' = ready
          /\ offered' = [offered EXCEPT ![held["serve"]] = <<hello.min, hello.max>>]
          /\ agreed' = [agreed EXCEPT ![held["serve"]] = OverlapMax(hello)]
      BY <1>10 DEF ServeAgrees, hello
    <3> QED  BY <1>a, <3>1, <3>3, <3>4 DEF SessionTypeOK, HighestCommon
  <2>2. KeepaliveOutlives'
    <3>1. state'["serve"] = "select" /\ held' = held /\ held["serve"] \in Conns
      BY <1>10, <1>a, NothingAgreed DEF ServeAgrees, Goes, SessionTypeOK, Sides
    <3>2. tasks' = [tasks EXCEPT ![held["serve"]] = @ \cup {"servePing"}]
      BY <1>10 DEF ServeAgrees
    <3>3. \A k \in Conns : ServeOn(k)' <=> k = held["serve"]
      BY <3>1 DEF ServeOn, Looping
    <3>4. \A k \in Conns : ~ServeOn(k)
      BY <1>10 DEF ServeAgrees, ServeOn, Looping
    <3> QED
      BY <1>10, <1>a, <3>1, <3>2, <3>3, <3>4 DEF ServeAgrees, SessionTypeOK, KeepaliveOutlives
  <2>3. Unmade'
    BY <1>10, <1>a, <1>b, NothingAgreed DEF ServeAgrees, Goes, SessionTypeOK, Unmade
  <2>4. Phases'
    <3>1. held["serve"] \in Conns
      BY <1>10, NothingAgreed DEF ServeAgrees
    <3>2. agreed'[held["serve"]] # 0
      BY <1>10, <3>1, AgreesNonzero DEF SessionInv
    <3> QED
      BY <1>10, <1>a, <3>1, <3>2
         DEF ServeAgrees, Goes, SessionTypeOK, Phases, Between, Looping, Settling, Sides
  <2>5. TasksLate'
    <3>1. held["serve"] \in Conns
      BY <1>10, NothingAgreed DEF ServeAgrees
    <3>2. agreed'[held["serve"]] # 0
      BY <1>10, <3>1, AgreesNonzero DEF SessionInv
    <3>3. \A k \in Conns : k # held["serve"] => tasks'[k] = tasks[k] /\ agreed'[k] = agreed[k]
      BY <1>10, <1>a DEF ServeAgrees, SessionTypeOK
    <3>4. tasks'[held["serve"]] = tasks[held["serve"]] \cup {"servePing"} /\ ready' = ready
      BY <1>10, <1>a, <3>1 DEF ServeAgrees, SessionTypeOK
    <3> QED  BY <1>a, <3>2, <3>3, <3>4 DEF TasksLate, ProxyTasks
  <2>6. Order'
    <3> DEFINE k == held["serve"]
    <3>1. /\ k \in Conns /\ ready[k] = 0 /\ toProxy[k] = <<>> /\ ready' = ready
          /\ toServe[k] # <<>> /\ toServe[k] \in Seq(Frame)
      BY <1>10, <1>a, NothingAgreed DEF ServeAgrees, FirstIs, Inbox, SessionTypeOK
    <3>2. OverlapMax(Head(toServe[k])) \in Nat
      BY <1>10, <3>1, TailType, OverlapType DEF ServeAgrees, FirstIs, Inbox
    <3>3. /\ toProxy' = Put(toProxy, k, Agree(agreed'[k])) /\ agreed'[k] # 0
          /\ toServe'[k] = Tail(toServe[k]) /\ link' = link
      BY <1>10, <1>a, <3>1, AgreesNonzero DEF ServeAgrees, SessionTypeOK, SessionInv
    <3>4. \A j \in Conns : j # k =>
             toProxy'[j] = toProxy[j] /\ toServe'[j] = toServe[j] /\ agreed'[j] = agreed[j]
      BY <1>10, <1>a, <3>1, <3>3 DEF ServeAgrees, SessionTypeOK, Put
    <3>5. OnlyHellos(toServe'[k])
      BY <1>a, <3>1, <3>3, HellosKept DEF Order
    <3>6. \/ toProxy'[k] # <<>> /\ Head(toProxy'[k]) = Agree(agreed'[k])
          \/ toProxy'[k] = <<>> /\ link[k] # "up"
      BY <1>a, <3>1, <3>3 DEF Put, SessionTypeOK
    <3> HIDE DEF k
    <3> QED  BY <1>a, <3>1, <3>3, <3>4, <3>5, <3>6 DEF Order
  <2> QED  BY <2>1, <2>2, <2>3, <2>4, <2>5, <2>6
<1>11. ASSUME ServeRefuses PROVE Parts'
  <2>1. HighestCommon' /\ TasksLate'
    BY <1>11, <1>a DEF ServeRefuses, HighestCommon, TasksLate
  <2>2. KeepaliveOutlives'
    BY <1>11, <1>a, KeepaliveKept
       DEF ServeRefuses, EndSession, Goes, SessionTypeOK, ServeOn, Looping, Sides
  <2>3. Unmade'
    BY <1>11, <1>a, <1>c DEF ServeRefuses, EndSession, Goes, SessionTypeOK, Unmade, Sides
  <2>4. Phases'
    BY <1>11, <1>a DEF ServeRefuses, EndSession, Goes, SessionTypeOK, Phases, Between, Looping
  <2>5. Order'
    BY <1>11, <1>a, ServeHeld, HellosKept
       DEF ServeRefuses, EndSession, Goes, SessionTypeOK, Order, FirstIs, Inbox
  <2> QED  BY <2>1, <2>2, <2>3, <2>4, <2>5
<1>12. ASSUME ProxyTakesAgree PROVE Parts'
  <2>1. HighestCommon'
    BY <1>12, <1>a, TakenIsAgreed DEF ProxyTakesAgree, SessionTypeOK, HighestCommon
  <2>2. KeepaliveOutlives'
    BY <1>12, <1>a, KeepaliveKept
       DEF ProxyTakesAgree, Goes, SessionTypeOK, ServeOn, Sides
  <2>3. Unmade'
    BY <1>12, <1>a, <1>b, FirstIsAgree DEF ProxyTakesAgree, Goes, SessionTypeOK, Unmade
  <2>4. Phases'
    BY <1>12, <1>a, TakenIsAgreed
       DEF ProxyTakesAgree, Goes, SessionTypeOK, Phases, Between, Looping, Settling, Sides
  <2>5. TasksLate'
    <3>1. \A k \in Conns : k # held["proxy"] => tasks'[k] = tasks[k] /\ ready'[k] = ready[k]
      BY <1>12, <1>a DEF ProxyTakesAgree, SessionTypeOK
    <3>2. /\ held["proxy"] \in Conns /\ agreed' = agreed
          /\ agreed[held["proxy"]] # 0 /\ ready'[held["proxy"]] # 0
      BY <1>12, <1>a, TakenIsAgreed DEF ProxyTakesAgree
    <3> QED  BY <1>a, <3>1, <3>2 DEF TasksLate
  <2>6. Order'
    <3>1. \A k \in Conns : k # held["proxy"] => toProxy'[k] = toProxy[k] /\ ready'[k] = ready[k]
      BY <1>12, <1>a DEF ProxyTakesAgree, SessionTypeOK
    <3>2. /\ held["proxy"] \in Conns /\ agreed' = agreed /\ toServe' = toServe /\ link' = link
          /\ agreed[held["proxy"]] # 0 /\ ready'[held["proxy"]] # 0
      BY <1>12, <1>a, TakenIsAgreed DEF ProxyTakesAgree
    <3> QED  BY <1>a, <3>1, <3>2 DEF Order
  <2> QED  BY <2>1, <2>2, <2>3, <2>4, <2>5, <2>6
<1>13. ASSUME NEW s \in Sides, HandshakeTimesOut(s) PROVE Parts'
  <2>1. HighestCommon' /\ TasksLate' /\ Order'
    BY <1>13, <1>a DEF HandshakeTimesOut, HighestCommon, TasksLate, Order
  <2>2. KeepaliveOutlives'
    BY <1>13, <1>a, KeepaliveKept
       DEF HandshakeTimesOut, EndSession, Goes, SessionTypeOK, ServeOn, Looping, Sides
  <2>3. Unmade'
    BY <1>13, <1>a, <1>c DEF HandshakeTimesOut, EndSession, Goes, SessionTypeOK, Unmade, Sides
  <2>4. Phases'
    BY <1>13, <1>a
       DEF HandshakeTimesOut, EndSession, Goes, SessionTypeOK, Phases, Between, Looping
  <2> QED  BY <2>1, <2>2, <2>3, <2>4
<1>14. ASSUME ServeTakes PROVE Parts'
  <2>1. HighestCommon' /\ TasksLate'
    BY <1>14, <1>a DEF ServeTakes, HighestCommon, TasksLate
  <2>2. Unmade'
    BY <1>14, <1>a DEF ServeTakes, Goes, SessionTypeOK, Unmade
  <2>3. Phases'
    BY <1>14, <1>a DEF ServeTakes, Goes, SessionTypeOK, Phases, Between, Looping
  <2>4. Order'
    BY <1>14, <1>a, ServeHeld, HellosKept DEF ServeTakes, Goes, SessionTypeOK, Order
  <2>5. KeepaliveOutlives'
    BY <1>14, <1>a, KeepaliveKept
       DEF ServeTakes, Goes, SessionTypeOK, ServeOn, Looping, Sides
  <2> QED  BY <2>1, <2>2, <2>3, <2>4, <2>5
<1>15. ASSUME ServePongs PROVE Parts'
  <2>1. HighestCommon' /\ Unmade' /\ TasksLate'
    BY <1>15, <1>a DEF ServePongs, HighestCommon, Unmade, TasksLate
  <2>2. Phases'
    BY <1>15, <1>a DEF ServePongs, Goes, SessionTypeOK, Phases, Between, Looping
  <2>3. Order'
    <3>1. held["serve"] \in Conns /\ agreed[held["serve"]] # 0
      BY <1>15, <1>a, ServeHeld DEF ServePongs, Phases, Between, Looping
    <3>2. toProxy \in [Conns -> Seq(Frame)] /\ Pong \in Frame
      BY <1>a, FramesType DEF SessionTypeOK
    <3>3. toProxy' = Put(toProxy, held["serve"], Pong)
      BY <1>15 DEF ServePongs
    <3> QED
      BY <1>15, <1>a, <3>1, <3>2, <3>3, PutKeepsOrder DEF ServePongs, Order
  <2>4. KeepaliveOutlives'
    BY <1>15, <1>a, KeepaliveKept
       DEF ServePongs, Goes, SessionTypeOK, ServeOn, Looping, Sides
  <2> QED  BY <2>1, <2>2, <2>3, <2>4
<1>16. ASSUME ServeHandles PROVE Parts'
  <2>1. HighestCommon' /\ Unmade' /\ TasksLate' /\ Order'
    BY <1>16, <1>a DEF ServeHandles, HighestCommon, Unmade, TasksLate, Order
  <2>2. Phases'
    BY <1>16, <1>a DEF ServeHandles, Goes, SessionTypeOK, Phases, Between, Looping
  <2>3. KeepaliveOutlives'
    BY <1>16, <1>a, KeepaliveKept
       DEF ServeHandles, Goes, SessionTypeOK, ServeOn, Looping, Sides
  <2> QED  BY <2>1, <2>2, <2>3
<1>16a. ASSUME ServeChokes PROVE Parts'
  <2>1. HighestCommon' /\ TasksLate' /\ Order'
    BY <1>16a, <1>a DEF ServeChokes, HighestCommon, TasksLate, Order
  <2>2. KeepaliveOutlives'
    BY <1>16a, <1>a, ServeHeld
       DEF ServeChokes, EndSession, Goes, SessionTypeOK, KeepaliveOutlives, ServeOn, Looping,
           Between, Sides
  <2>3. Unmade'
    BY <1>16a, <1>a, ServeHeld DEF ServeChokes, EndSession, Goes, SessionTypeOK, Unmade, Between,
       Conns, Sides
  <2>4. Phases'
    BY <1>16a, <1>a DEF ServeChokes, EndSession, Goes, SessionTypeOK, Phases, Between, Looping
  <2> QED  BY <2>1, <2>2, <2>3, <2>4
<1>17. ASSUME ServeEnds PROVE Parts'
  <2>1. HighestCommon' /\ Order'
    BY <1>17, <1>a DEF ServeEnds, HighestCommon, Order
  <2>2. KeepaliveOutlives'
    BY <1>17, <1>a
       DEF ServeEnds, EndSession, Goes, SessionTypeOK, Unmade, KeepaliveOutlives, ServeOn, Looping,
           Sides
  <2>3. Unmade'
    BY <1>17, <1>a, <1>c DEF ServeEnds, EndSession, Goes, SessionTypeOK, Unmade, Sides
  <2>4. Phases'
    BY <1>17, <1>a DEF ServeEnds, EndSession, Goes, SessionTypeOK, Phases, Between, Looping
  <2>5. TasksLate'
    BY <1>17, <1>a DEF ServeEnds, EndSession, Goes, SessionTypeOK, TasksLate
  <2> QED  BY <2>1, <2>2, <2>3, <2>4, <2>5
<1>18. ASSUME Bind PROVE Parts'
  <2>1. HighestCommon' /\ Unmade' /\ TasksLate' /\ Order'
    BY <1>18, <1>a DEF Bind, HighestCommon, Unmade, TasksLate, Order
  <2>2. Phases'
    BY <1>18, <1>a DEF Bind, Goes, SessionTypeOK, Phases, Between, Looping
  <2>3. KeepaliveOutlives'
    BY <1>18, <1>a, KeepaliveKept DEF Bind, Goes, SessionTypeOK, ServeOn, Sides
  <2> QED  BY <2>1, <2>2, <2>3
<1>19. ASSUME ListenerFails PROVE Parts'
  <2>1. HighestCommon' /\ TasksLate' /\ Order'
    BY <1>19, <1>a DEF ListenerFails, HighestCommon, TasksLate, Order
  <2>2. KeepaliveOutlives'
    BY <1>19, <1>a, KeepaliveKept
       DEF ListenerFails, EndSession, Goes, SessionTypeOK, ServeOn, Sides
  <2>3. Unmade'
    BY <1>19, <1>a, <1>c DEF ListenerFails, EndSession, Goes, SessionTypeOK, Unmade, Sides
  <2>4. Phases'
    BY <1>19, <1>a DEF ListenerFails, EndSession, Goes, SessionTypeOK, Phases, Between, Looping
  <2> QED  BY <2>1, <2>2, <2>3, <2>4
<1>20. ASSUME ProxyAccepts PROVE Parts'
  <2>1. HighestCommon' /\ Unmade' /\ TasksLate' /\ Order'
    BY <1>20, <1>a DEF ProxyAccepts, HighestCommon, Unmade, TasksLate, Order
  <2>2. Phases'
    BY <1>20, <1>a DEF ProxyAccepts, Goes, SessionTypeOK, Phases, Between, Looping
  <2>3. KeepaliveOutlives'
    BY <1>20, <1>a, KeepaliveKept
       DEF ProxyAccepts, Goes, SessionTypeOK, ServeOn, Sides
  <2> QED  BY <2>1, <2>2, <2>3
<1>21. ASSUME ProxySpawns PROVE Parts'
  <2>1. HighestCommon' /\ Order'
    BY <1>21, <1>a DEF ProxySpawns, HighestCommon, Order
  <2>2. Phases'
    BY <1>21, <1>a DEF ProxySpawns, Goes, SessionTypeOK, Phases, Between, Looping
  <2>3. KeepaliveOutlives'
    BY <1>21, <1>a, KeepaliveKept
       DEF ProxySpawns, Goes, SessionTypeOK, ServeOn, Sides
  <2>4. held["proxy"] \in Conns /\ held["proxy"] <= made /\ ready[held["proxy"]] # 0
    BY <1>21, <1>a, ProxyHeld DEF ProxySpawns, Phases, Unmade, Between, Looping, Sides
  <2>5. Unmade'
    BY <1>21, <1>a, <2>4 DEF ProxySpawns, SessionTypeOK, Unmade, Conns
  <2>6. TasksLate'
    BY <1>21, <1>a, <2>4 DEF ProxySpawns, SessionTypeOK, TasksLate
  <2> QED  BY <2>1, <2>2, <2>3, <2>5, <2>6
<1>22. ASSUME ProxyEnds PROVE Parts'
  <2>1. HighestCommon' /\ TasksLate' /\ Order'
    BY <1>22, <1>a DEF ProxyEnds, HighestCommon, TasksLate, Order
  <2>2. KeepaliveOutlives'
    BY <1>22, <1>a, KeepaliveKept
       DEF ProxyEnds, EndSession, Goes, SessionTypeOK, ServeOn, Sides
  <2>3. Unmade'
    BY <1>22, <1>a, <1>c DEF ProxyEnds, EndSession, Goes, SessionTypeOK, Unmade, Sides
  <2>4. Phases'
    BY <1>22, <1>a DEF ProxyEnds, EndSession, Goes, SessionTypeOK, Phases, Between, Looping
  <2> QED  BY <2>1, <2>2, <2>3, <2>4
<1>22a. ASSUME NEW k \in Conns, SendHeaders(k) PROVE Parts'
  <2>1. HighestCommon' /\ Phases' /\ TasksLate'
    BY <1>22a, <1>a DEF SendHeaders, HighestCommon, Phases, TasksLate
  <2>2. Unmade'
    <3>1. k <= made /\ made \in Nat
      BY <1>22a, <1>a DEF SendHeaders, Unmade, SessionTypeOK, Conns
    <3>2. \A j \in Conns : j # k => toServe'[j] = toServe[j]
      BY <1>22a, <1>a DEF SendHeaders, Put, SessionTypeOK
    <3> QED  BY <1>22a, <1>a, <3>1, <3>2 DEF SendHeaders, Unmade, Conns
  <2>3. Order'
    <3>1. ready[k] # 0
      BY <1>22a, <1>a DEF SendHeaders, TasksLate, ProxyTasks
    <3>2. \A j \in Conns : j # k => toServe'[j] = toServe[j]
      BY <1>22a, <1>a DEF SendHeaders, Put, SessionTypeOK
    <3> QED  BY <1>22a, <1>a, <3>1, <3>2 DEF SendHeaders, Order
  <2>4. KeepaliveOutlives'
    BY <1>22a, <1>a, KeepaliveKept DEF SendHeaders, ServeOn
  <2> QED  BY <2>1, <2>2, <2>3, <2>4
<1>23. ASSUME NEW k \in Conns, Reader(k) PROVE Parts'
  <2>1. HighestCommon' /\ Phases' /\ TasksLate'
    BY <1>23, <1>a DEF Reader, HighestCommon, Phases, TasksLate
  <2>2. Unmade'
    <3>1. k <= made /\ made \in Nat
      BY <1>23, <1>a DEF Reader, Unmade, SessionTypeOK, Conns
    <3>2. \A j \in Conns : j # k => toServe'[j] = toServe[j]
      BY <1>23, <1>a DEF Reader, Put, SessionTypeOK
    <3> QED  BY <1>23, <1>a, <3>1, <3>2 DEF Reader, Unmade, Conns
  <2>3. Order'
    <3>1. ready[k] # 0
      BY <1>23, <1>a DEF Reader, TasksLate, ProxyTasks
    <3>2. \A j \in Conns : j # k => toServe'[j] = toServe[j] /\ toProxy'[j] = toProxy[j]
      BY <1>23, <1>a DEF Reader, Put, SessionTypeOK
    <3> QED  BY <1>23, <1>a, <3>1, <3>2 DEF Reader, Order
  <2>4. KeepaliveOutlives'
    BY <1>23, <1>a, KeepaliveKept DEF Reader, ServeOn
  <2> QED  BY <2>1, <2>2, <2>3, <2>4
<1>24. ASSUME NEW s \in Sides, NEW k \in Conns, SendPing(s, k) PROVE Parts'
  <2>1. HighestCommon' /\ Phases' /\ TasksLate'
    BY <1>24, <1>a DEF SendPing, HighestCommon, Phases, TasksLate
  <2>2. Unmade'
    <3>1. k <= made /\ made \in Nat
      BY <1>24, <1>a DEF SendPing, Unmade, SessionTypeOK, Conns
    <3>2. \A j \in Conns : j # k => toServe'[j] = toServe[j]
      BY <1>24, <1>a DEF SendPing, Put, SessionTypeOK
    <3> QED  BY <1>24, <1>a, <3>1, <3>2 DEF SendPing, Unmade, Conns
  <2>3. Order'
    <3>1. CASE s = "proxy"
      <4>1. ready[k] # 0 /\ toProxy' = toProxy
        BY <1>24, <1>a, <3>1 DEF SendPing, TasksLate, PingOf, ProxyTasks
      <4>2. \A j \in Conns : j # k => toServe'[j] = toServe[j]
        BY <1>24, <1>a, <3>1 DEF SendPing, Put, SessionTypeOK
      <4> QED  BY <1>24, <1>a, <4>1, <4>2 DEF SendPing, Order
    <3>2. CASE s = "serve"
      <4>1. agreed[k] # 0 /\ toServe' = toServe /\ toProxy' = Put(toProxy, k, Ping)
        BY <1>24, <1>a, <3>2 DEF SendPing, TasksLate, PingOf
      <4>2. toProxy \in [Conns -> Seq(Frame)] /\ Ping \in Frame
        BY <1>a, FramesType DEF SessionTypeOK
      <4> QED
        BY <1>24, <1>a, <4>1, <4>2, PutKeepsOrder DEF SendPing, Order
    <3> QED  BY <1>24, <3>1, <3>2 DEF Sides
  <2>4. KeepaliveOutlives'
    BY <1>24, <1>a, KeepaliveKept DEF SendPing, ServeOn
  <2> QED  BY <2>1, <2>2, <2>3, <2>4
<1>25. ASSUME NEW s \in Sides, NEW k \in Conns, PingFails(s, k) PROVE Parts'
  <2>1. HighestCommon' /\ Phases' /\ Order'
    BY <1>25, <1>a DEF PingFails, HighestCommon, Phases, Order
  <2>2. KeepaliveOutlives'
    BY <1>25, <1>a DEF PingFails, SessionTypeOK, KeepaliveOutlives, ServeOn
  <2>3. Unmade'
    BY <1>25, <1>a DEF PingFails, SessionTypeOK, Unmade
  <2>4. TasksLate'
    BY <1>25, <1>a DEF PingFails, SessionTypeOK, TasksLate
  <2> QED  BY <2>1, <2>2, <2>3, <2>4
<1>26. CASE UNCHANGED vars
  <2>1. UNCHANGED <<state, held, made, link, toServe, toProxy, tasks, offered, agreed, ready,
                  abandoned>>
    BY <1>26 DEF vars
  <2>2. HighestCommon'
    BY <1>a, <2>1 DEF HighestCommon
  <2>3. KeepaliveOutlives'
    BY <1>a, <2>1 DEF KeepaliveOutlives, ServeOn
  <2>4. Unmade'
    BY <1>a, <2>1 DEF Unmade
  <2>5. Phases'
    BY <1>a, <2>1 DEF Phases
  <2>6. TasksLate'
    BY <1>a, <2>1 DEF TasksLate
  <2>7. Order'
    BY <1>a, <2>1 DEF Order
  <2> QED  BY <1>b, <2>2, <2>3, <2>4, <2>5, <2>6, <2>7 DEF SessionInv
<1> QED
  BY <1>b, <1>1, <1>2, <1>3, <1>4, <1>5, <1>6, <1>7, <1>8, <1>9, <1>10, <1>11, <1>12, <1>13,
     <1>14, <1>15, <1>16, <1>16a, <1>17, <1>18, <1>19, <1>20, <1>21, <1>22, <1>22a, <1>23, <1>24,
     <1>25, <1>26
     DEF Next, Main, SessionInv

-----------------------------------------------------------------------------
LEMMA InvNoSurprise == SessionInv => NoSurprise
<1> SUFFICES ASSUME SessionInv, NEW s \in Sides, state[s] = "handshake", Inbox(s) # <<>>
             PROVE  FirstIs(s, Expected[s])
  BY DEF NoSurprise
<1>1. CASE s = "serve"
  BY <1>1, FirstIsHello DEF FirstIs, Inbox, Expected
<1>2. CASE s = "proxy"
  BY <1>2, FirstIsAgree DEF FirstIs, Inbox, Expected, Agree
<1> QED  BY <1>1, <1>2 DEF Sides

LEMMA InvSameVersion == SessionInv => SameVersion
BY DEF SessionInv, SameVersion, ListensAgreed, Phases, Between, Looping

LEMMA InvHolds == Spec => []SessionInv
<1>1. Init => SessionInv
  BY InitInv
<1>2. SessionInv /\ [Next]_vars => SessionInv'
  BY NextInv
<1> QED  BY <1>1, <1>2, PTL DEF Spec

(* Every variable keeps its type, and a main task is on a connection just  *)
(* while it has a session (EndSession, Stop).                              *)
THEOREM SessionTypeCorrect == Spec => []SessionTypeOK
<1>1. SessionInv => SessionTypeOK
  BY DEF SessionInv
<1> QED  BY <1>1, InvHolds, PTL

(* No handshake ends by an unexpected frame (serve.rs:46, proxy.rs:80).    *)
THEOREM HandshakeInOrder == Spec => []NoSurprise
BY InvNoSurprise, InvHolds, PTL

(* The proxy listens only with the highest version both ends support, as   *)
(* agreed by serve on that connection.                                     *)
THEOREM VersionsAgree == Spec => []SameVersion
BY InvSameVersion, InvHolds, PTL

(* The keepalive of serve runs on an up connection just while serve is in  *)
(* its loop there, or has left it by headers it could not parse.           *)
THEOREM KeepaliveAccounted == Spec => []KeepaliveOutlives
<1>1. SessionInv => KeepaliveOutlives
  BY DEF SessionInv
<1> QED  BY <1>1, InvHolds, PTL
=============================================================================
