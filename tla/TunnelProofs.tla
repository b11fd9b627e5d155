---------------------------- MODULE TunnelProofs ----------------------------
(***************************************************************************)
(* Theorems about Tunnel, for every set of requests and every bound.       *)
(***************************************************************************)
EXTENDS Tunnel, SequenceTheorems, TLAPS

(* The sequence operators keep the set of elements of their argument.      *)
LEMMA SequenceTypes ==
    ASSUME NEW S, NEW q \in Seq(S)
    PROVE  /\ \A e \in S : Append(q, e) \in Seq(S)
           /\ q # <<>> => Head(q) \in S /\ Tail(q) \in Seq(S)
           /\ \A i \in 0..Len(q) : SubSeq(q, 1, i) \in Seq(S)
<1>1. \A e \in S : Append(q, e) \in Seq(S)
  BY AppendProperties
<1>2. q # <<>> => Head(q) \in S /\ Tail(q) \in Seq(S)
  BY HeadTailProperties
<1>3. \A i \in 0..Len(q) : SubSeq(q, 1, i) \in Seq(S)
  BY SubSeqProperties
<1>4. QED  BY <1>1, <1>2, <1>3

(* A send leaves a queue of frames a queue of frames, whatever the link.   *)
LEMMA PutType ==
    ASSUME NEW S, NEW q \in Seq(S), NEW f \in S
    PROVE  Put(q, f) \in Seq(S)
BY SequenceTypes DEF Put

LEMMA FrameOfType ==
    ASSUME TypeOK, NEW r \in Requests, NEW n \in Nat,
           NEW t \in ReqTypes \cup ResTypes \cup KeepaliveTypes
    PROVE  FrameOf(t, r, n) \in Frame
BY DEF FrameOf, Frame, TypeOK

LEMMA KeepaliveType == Ping \in Frame /\ Pong \in Frame
BY BoundAssumption DEF Ping, Pong, Frame, Ids, KeepaliveTypes

-----------------------------------------------------------------------------
LEMMA InitType == Init => TypeOK
BY BoundAssumption DEF Init, TypeOK, Ids, NextStreamId, NoReply, Waiting

LEMMA DeliveredType ==
    ASSUME TypeOK, NEW f \in Frame
    PROVE  Delivered(f) \in [Requests -> Seq(Frame)]
<1>1. Target(f) \in Requests \cup {NoReq}
  BY DEF Target, TypeOK, Frame
<1>2. QED  BY <1>1, SequenceTypes DEF Delivered, TypeOK

LEMMA NextType == TypeOK /\ [Next]_vars => TypeOK'
<1> USE DEF handlerVars, clientVars, serveVars, taskVars,
            Waiting, Forwarding, Finished, TaskSending, TaskOver
<1>1. ASSUME TypeOK, NEW r \in Requests, Accept(r)
     PROVE  TypeOK'
  <2>1. NextStreamId(nextId) \in Ids
    BY <1>1, BoundAssumption DEF Accept, TypeOK, Ids, NextStreamId
  <2> QED
    BY Zenon, <1>1, <2>1 DEF Accept, TypeOK
<1>2. ASSUME TypeOK, NEW r \in Requests, Collect(r)
     PROVE  TypeOK'
  <2>1. reqLen' \in [Requests -> Nat]
    BY <1>2, BoundAssumption DEF Collect, TypeOK
  <2> QED
    BY Zenon, <1>2, <2>1 DEF Collect, TypeOK
<1>3. ASSUME TypeOK, NEW r \in Requests, CollectFails(r)
     PROVE  TypeOK'
  <2>1. pc' \in [Requests -> {"idle"} \cup Waiting \cup Forwarding \cup Finished]
    BY <1>3 DEF CollectFails, TypeOK, Finished
  <2>2. reply' \in [Requests -> (Requests \cup {NoReq}) \X Nat]
    BY <1>3 DEF CollectFails, TypeOK
  <2> QED
    BY Zenon, <1>3, <2>1, <2>2 DEF CollectFails, TypeOK, serveVars, taskVars
<1>4. ASSUME TypeOK, NEW r \in Requests, HangUp(r)
     PROVE  TypeOK'
  <2>3. UNCHANGED <<nextId, sid, reqLen, sent, clientVars, pending, toServe, toProxy, link,
                    serveVars, taskVars, pings>>
    BY <1>4 DEF HangUp
  <2> USE DEF clientVars, serveVars, taskVars
  <2>1. CASE /\ pc' = [pc EXCEPT ![r] = "gone"]
             /\ events' = [events EXCEPT ![r] = <<>>]
    <3>1. pc' \in [Requests -> {"idle"} \cup Waiting \cup Forwarding \cup Finished]
      BY <1>4, <2>1 DEF TypeOK, Finished
    <3>2. events' \in [Requests -> Seq(Frame)]
      BY <1>4, <2>1 DEF TypeOK
    <3> QED  BY Zenon, <1>4, <2>3, <3>1, <3>2 DEF TypeOK
  <2>2. CASE /\ pc' = [pc EXCEPT ![r] = "orphan"]
             /\ UNCHANGED events
    BY Zenon, <1>4, <2>2, <2>3 DEF TypeOK, Forwarding
  <2> QED  BY <1>4, <2>1, <2>2 DEF HangUp
<1>5. ASSUME TypeOK, NEW r \in Requests, Register(r)
     PROVE  TypeOK'
  BY Zenon, <1>5 DEF Register, TypeOK
<1>6. ASSUME TypeOK, NEW r \in Requests, SendHeaders(r)
     PROVE  TypeOK'
  <2>1. toServe' \in Seq(Frame)
    BY Zenon, <1>6, FrameOfType, PutType DEF SendHeaders, ReqTypes, ResTypes, TypeOK
  <2> QED
    BY Zenon, <1>6, <2>1 DEF SendHeaders, TypeOK
<1>7. ASSUME TypeOK, NEW r \in Requests, SendHeadersFails(r)
     PROVE  TypeOK'
  BY Zenon, <1>7 DEF SendHeadersFails, TypeOK
<1>8. ASSUME TypeOK, NEW r \in Requests, SendBody(r)
     PROVE  TypeOK'
  <2>1. sent[r] + 1 \in Nat /\ sent' \in [Requests -> Nat]
    BY <1>8 DEF SendBody, TypeOK
  <2>2. toServe' \in Seq(Frame)
    BY Zenon, <1>8, <2>1, FrameOfType, PutType DEF SendBody, ReqTypes, ResTypes, TypeOK
  <2> QED
    BY Zenon, <1>8, <2>1, <2>2 DEF SendBody, TypeOK
<1>9. ASSUME TypeOK, NEW r \in Requests, SendBodyFails(r)
     PROVE  TypeOK'
  BY Zenon, <1>9 DEF SendBodyFails, TypeOK
<1>10. ASSUME TypeOK, NEW r \in Requests, SendEnd(r)
     PROVE  TypeOK'
  <2>1. toServe' \in Seq(Frame)
    BY Zenon, <1>10, FrameOfType, PutType DEF SendEnd, ReqTypes, ResTypes, TypeOK
  <2> QED
    BY Zenon, <1>10, <2>1 DEF SendEnd, TypeOK
<1>11. ASSUME TypeOK, NEW r \in Requests, AwaitHeaders(r)
     PROVE  TypeOK'
  <2>1. events' \in [Requests -> Seq(Frame)]
    BY <1>11, SequenceTypes DEF AwaitHeaders, TypeOK, NextIs
  <2>2. events[r] # <<>> /\ Head(events[r]) \in Frame
    BY <1>11, SequenceTypes DEF AwaitHeaders, TypeOK, NextIs
  <2>3. <<Head(events[r]).req, Head(events[r]).n>> \in (Requests \cup {NoReq}) \X Nat
    BY <1>11, <2>2 DEF AwaitHeaders, Frame
  <2>4. reply' \in [Requests -> (Requests \cup {NoReq}) \X Nat]
    BY <1>11, <2>3 DEF AwaitHeaders, TypeOK
  <2> QED
    BY Zenon, <1>11, <2>1, <2>2, <2>3, <2>4 DEF AwaitHeaders, TypeOK
<1>12. ASSUME TypeOK, NEW r \in Requests, AwaitSkipsBody(r)
     PROVE  TypeOK'
  <2>1. events' \in [Requests -> Seq(Frame)]
    BY <1>12, SequenceTypes DEF AwaitSkipsBody, TypeOK, NextIs
  <2> QED
    BY Zenon, <1>12, <2>1 DEF AwaitSkipsBody, TypeOK
<1>13. ASSUME TypeOK, NEW r \in Requests, AwaitFails(r)
     PROVE  TypeOK'
  BY Zenon, <1>13 DEF AwaitFails, TypeOK
<1>14. ASSUME TypeOK, NEW r \in Requests, AwaitTimesOut(r)
     PROVE  TypeOK'
  BY Zenon, <1>14 DEF AwaitTimesOut, TypeOK
<1>15. ASSUME TypeOK, NEW r \in Requests, Cleanup(r)
     PROVE  TypeOK'
  <2>1. reply' \in [Requests -> (Requests \cup {NoReq}) \X Nat]
    <3>1. <<NoReq, 502>> \in (Requests \cup {NoReq}) \X Nat
      OBVIOUS
    <3>2. <<NoReq, 504>> \in (Requests \cup {NoReq}) \X Nat
      OBVIOUS
    <3> QED  BY <1>15, <3>1, <3>2 DEF Cleanup, TypeOK
  <2> QED
    BY SMTT(30), <1>15, <2>1 DEF Cleanup, TypeOK
<1>16. ASSUME TypeOK, NEW r \in Requests, ForwardBody(r)
     PROVE  TypeOK'
  <2>1. events' \in [Requests -> Seq(Frame)]
    BY <1>16, SequenceTypes DEF ForwardBody, TypeOK, NextIs
  <2>2. events[r] # <<>> /\ Head(events[r]) \in Frame
    BY <1>16, SequenceTypes DEF ForwardBody, TypeOK, NextIs
  <2>3. <<Head(events[r]).req, Head(events[r]).n>> \in Chunk
    BY <1>16, <2>2 DEF ForwardBody, Frame, Chunk
  <2>4. got' \in [Requests -> Seq(Chunk)]
    BY <1>16, <2>3, SequenceTypes DEF ForwardBody, TypeOK
  <2> QED
    BY Zenon, <1>16, <2>1, <2>2, <2>3, <2>4 DEF ForwardBody, TypeOK
<1>17. ASSUME TypeOK, NEW r \in Requests, ForwardToNobody(r)
     PROVE  TypeOK'
  <2>1. pc' \in [Requests -> {"idle"} \cup Waiting \cup Forwarding \cup Finished]
    BY <1>17 DEF ForwardToNobody, TypeOK, Forwarding, Finished
  <2>2. events' \in [Requests -> Seq(Frame)]
    BY <1>17 DEF ForwardToNobody, TypeOK
  <2> QED
    BY Zenon, <1>17, <2>1, <2>2 DEF ForwardToNobody, TypeOK
<1>18. ASSUME TypeOK, NEW r \in Requests, ForwardSkipsHeaders(r)
     PROVE  TypeOK'
  <2>1. events' \in [Requests -> Seq(Frame)]
    BY <1>18, SequenceTypes DEF ForwardSkipsHeaders, TypeOK, NextIs
  <2> QED
    BY Zenon, <1>18, <2>1 DEF ForwardSkipsHeaders, TypeOK
<1>19. ASSUME TypeOK, NEW r \in Requests, ForwardEnds(r)
     PROVE  TypeOK'
  <2>1. pc' \in [Requests -> {"idle"} \cup Waiting \cup Forwarding \cup Finished]
    BY <1>19 DEF ForwardEnds, TypeOK, Forwarding, Finished
  <2>2. events' \in [Requests -> Seq(Frame)]
    BY <1>19 DEF ForwardEnds, TypeOK
  <2> QED
    BY Zenon, <1>19, <2>1, <2>2 DEF ForwardEnds, TypeOK
<1>20. ASSUME TypeOK, NEW r \in Requests, UpstreamAnswers(r)
     PROVE  TypeOK'
  BY ZenonT(30), <1>20 DEF UpstreamAnswers, TypeOK
<1>21. ASSUME TypeOK, NEW r \in Requests, UpstreamFails(r)
     PROVE  TypeOK'
  BY ZenonT(30), <1>21 DEF UpstreamFails, TypeOK
<1>22. ASSUME TypeOK, NEW r \in Requests, TaskSendsHeaders(r)
     PROVE  TypeOK'
  <2>1. hStatus[r] \in Nat
    <3>1. hStatus[r] \in {0, 200, 502}
      BY <1>22 DEF TypeOK
    <3> QED  BY <3>1
  <2>2. toProxy' \in Seq(Frame)
    BY Zenon, <1>22, <2>1, FrameOfType, PutType DEF TaskSendsHeaders, ReqTypes, ResTypes, TypeOK
  <2> QED
    BY Zenon, <1>22, <2>1, <2>2 DEF TaskSendsHeaders, TypeOK
<1>23. ASSUME TypeOK, NEW r \in Requests, TaskSendsBody(r)
     PROVE  TypeOK'
  <2>1. resSent[r] + 1 \in Nat /\ resSent' \in [Requests -> Nat]
    BY <1>23 DEF TaskSendsBody, TypeOK
  <2>2. toProxy' \in Seq(Frame)
    BY Zenon, <1>23, <2>1, FrameOfType, PutType DEF TaskSendsBody, ReqTypes, ResTypes, TypeOK
  <2> QED
    BY Zenon, <1>23, <2>1, <2>2 DEF TaskSendsBody, TypeOK
<1>24. ASSUME TypeOK, NEW r \in Requests, TaskSendsError(r)
     PROVE  TypeOK'
  <2>1. FrameOf("Error", r, 0) \in Frame
    BY <1>24, FrameOfType DEF TaskSendsError, ResTypes
  <2>2. toProxy' \in Seq(Frame)
    BY <1>24, <2>1, PutType DEF TaskSendsError, TypeOK
  <2> QED
    BY Zenon, <1>24, <2>1, <2>2 DEF TaskSendsError, TypeOK
<1>25. ASSUME TypeOK, NEW r \in Requests, TaskSendsEnd(r)
     PROVE  TypeOK'
  <2>1. toProxy' \in Seq(Frame)
    BY Zenon, <1>25, FrameOfType, PutType DEF TaskSendsEnd, ReqTypes, ResTypes, TypeOK
  <2> QED
    BY Zenon, <1>25, <2>1 DEF TaskSendsEnd, TypeOK
<1>26. ASSUME TypeOK, NEW r \in Requests, TaskSendFails(r)
     PROVE  TypeOK'
  BY Zenon, <1>26 DEF TaskSendFails, TypeOK
<1>27. ASSUME TypeOK, ReaderRoutes
     PROVE  TypeOK'
  <2>1. Head(toProxy) \in Frame /\ toProxy' \in Seq(Frame)
    BY <1>27, SequenceTypes DEF ReaderRoutes, TypeOK
  <2>2. events' \in [Requests -> Seq(Frame)]
    BY <1>27, <2>1, DeliveredType DEF ReaderRoutes
  <2> QED
    BY Zenon, <1>27, <2>1, <2>2 DEF ReaderRoutes, TypeOK
<1>28. ASSUME TypeOK, ReaderEnds
     PROVE  TypeOK'
  <2>1. Head(toProxy) \in Frame /\ toProxy' \in Seq(Frame)
    BY <1>28, SequenceTypes DEF ReaderEnds, TypeOK
  <2>2. events' \in [Requests -> Seq(Frame)]
    BY <1>28, <2>1, DeliveredType DEF ReaderEnds
  <2>3. Head(toProxy).id \in Ids
    BY <1>28, <2>1 DEF ReaderEnds, Frame
  <2> QED
    BY Zenon, <1>28, <2>1, <2>2, <2>3 DEF ReaderEnds, TypeOK
<1>29. ASSUME TypeOK, ReaderPongs
     PROVE  TypeOK'
  <2>1. Head(toProxy) \in Frame /\ toProxy' \in Seq(Frame)
    BY <1>29, SequenceTypes DEF ReaderPongs, TypeOK
  <2>2. toServe' \in Seq(Frame)
    BY <1>29, PutType, KeepaliveType DEF ReaderPongs, TypeOK
  <2> QED
    BY Zenon, <1>29, <2>1, <2>2 DEF ReaderPongs, TypeOK
<1>30. ASSUME TypeOK, ReaderIgnores
     PROVE  TypeOK'
  <2>1. Head(toProxy) \in Frame /\ toProxy' \in Seq(Frame)
    BY <1>30, SequenceTypes DEF ReaderIgnores, TypeOK
  <2> QED
    BY Zenon, <1>30, <2>1 DEF ReaderIgnores, TypeOK
<1>31. ASSUME TypeOK, ServeHeaders
     PROVE  TypeOK'
  <2>1. Head(toServe) \in Frame /\ toServe' \in Seq(Frame)
    BY <1>31, SequenceTypes DEF ServeHeaders, TypeOK, ServeNext
  <2>2. /\ Head(toServe).id \in Ids
        /\ Head(toServe).req \in Requests \cup {NoReq}
        /\ Head(toServe).n \in Nat
    BY <1>31, <2>1 DEF ServeHeaders, Frame
  <2>3. srvBody' \in [Ids -> Seq(Chunk)]
    BY <1>31, <2>2, SequenceTypes DEF ServeHeaders, TypeOK, Chunk
  <2> QED
    BY Zenon, <1>31, <2>1, <2>2, <2>3 DEF ServeHeaders, TypeOK
<1>32. ASSUME TypeOK, ServeBody
     PROVE  TypeOK'
  <2>1. Head(toServe) \in Frame /\ toServe' \in Seq(Frame)
    BY <1>32, SequenceTypes DEF ServeBody, TypeOK, ServeNext
  <2>2. /\ Head(toServe).id \in Ids
        /\ Head(toServe).req \in Requests \cup {NoReq}
        /\ Head(toServe).n \in Nat
    BY <1>32, <2>1 DEF ServeBody, Frame
  <2>3. srvBody' \in [Ids -> Seq(Chunk)]
    BY ZenonT(30), <1>32, <2>2, SequenceTypes DEF ServeBody, TypeOK, Chunk
  <2> QED
    BY Zenon, <1>32, <2>1, <2>2, <2>3 DEF ServeBody, TypeOK
<1>33. ASSUME TypeOK, ServeEnd
     PROVE  TypeOK'
  <2>1. Head(toServe) \in Frame /\ toServe' \in Seq(Frame)
    BY <1>33, SequenceTypes DEF ServeEnd, TypeOK, ServeNext
  <2>2. /\ Head(toServe).id \in Ids
        /\ Head(toServe).req \in Requests \cup {NoReq}
        /\ Head(toServe).n \in Nat
    BY <1>33, <2>1 DEF ServeEnd, Frame
  <2> DEFINE i == Head(toServe).id
  <2>3. CASE srvReq[i] = NoReq
    <3>1. UNCHANGED <<handlerVars, clientVars, events, pending, toProxy, link, serveVars,
                      taskVars, pings>>
      BY <1>33, <2>3 DEF ServeEnd, serveVars, taskVars
    <3> QED
      BY Zenon, <1>33, <2>1, <3>1
         DEF TypeOK, handlerVars, clientVars, serveVars, taskVars
  <2>4. CASE srvReq[i] # NoReq
    <3>1. srvReq[i] \in Requests /\ srvBody[i] \in Seq(Chunk)
      BY <1>33, <2>2, <2>4 DEF TypeOK
    <3>2. /\ srvReq' = [srvReq EXCEPT ![i] = NoReq]
          /\ srvBody' = [srvBody EXCEPT ![i] = <<>>]
          /\ h' = [h EXCEPT ![srvReq[i]] = "upstream"]
          /\ upBody' = [upBody EXCEPT ![srvReq[i]] = srvBody[i]]
      BY <1>33, <2>4 DEF ServeEnd
    <3>3. srvBody' \in [Ids -> Seq(Chunk)] /\ upBody' \in [Requests -> Seq(Chunk)]
      <4>1. <<>> \in Seq(Chunk)
        OBVIOUS
      <4>2. srvBody' \in [Ids -> Seq(Chunk)]
        BY Zenon, <1>33, <3>2, <4>1 DEF TypeOK
      <4>3. upBody' \in [Requests -> Seq(Chunk)]
        BY <1>33, <3>1, <3>2 DEF TypeOK
      <4> QED  BY <4>2, <4>3
    <3>4. /\ h' \in [Requests -> {"none", "upstream"} \cup TaskSending \cup TaskOver]
          /\ srvReq' \in [Ids -> Requests \cup {NoReq}]
      BY Zenon, <1>33, <3>1, <3>2 DEF TypeOK
    <3> QED  BY Zenon, <1>33, <2>1, <3>3, <3>4 DEF ServeEnd, TypeOK
  <2> QED  BY <2>3, <2>4
<1>34. ASSUME TypeOK, ServePongs
     PROVE  TypeOK'
  <2>1. Head(toServe) \in Frame /\ toServe' \in Seq(Frame)
    BY <1>34, SequenceTypes DEF ServePongs, TypeOK, ServeNext
  <2>2. toProxy' \in Seq(Frame)
    BY <1>34, PutType, KeepaliveType DEF ServePongs, TypeOK
  <2> QED
    BY Zenon, <1>34, <2>1, <2>2 DEF ServePongs, TypeOK
<1>35. ASSUME TypeOK, ServeIgnores
     PROVE  TypeOK'
  <2>1. Head(toServe) \in Frame /\ toServe' \in Seq(Frame)
    BY <1>35, SequenceTypes DEF ServeIgnores, TypeOK, ServeNext
  <2> QED
    BY Zenon, <1>35, <2>1 DEF ServeIgnores, TypeOK
<1>36. ASSUME TypeOK, ServeExit
     PROVE  TypeOK'
  BY Zenon, <1>36 DEF ServeExit, TypeOK
<1>37. ASSUME TypeOK, SendPing
     PROVE  TypeOK'
  <2>3. /\ pings' \in Nat
        /\ UNCHANGED <<handlerVars, clientVars, events, pending, link, serveVars, taskVars>>
    BY <1>37 DEF SendPing, TypeOK
  <2> USE DEF handlerVars, clientVars, serveVars, taskVars
  <2>1. CASE toServe' = Append(toServe, Ping) /\ UNCHANGED toProxy
    <3>1. toServe' \in Seq(Frame)
      BY <1>37, <2>1, SequenceTypes, KeepaliveType DEF TypeOK
    <3> QED  BY <1>37, <2>1, <2>3, <3>1 DEF TypeOK
  <2>2. CASE toProxy' = Append(toProxy, Ping) /\ UNCHANGED toServe
    <3>1. toProxy' \in Seq(Frame)
      BY <1>37, <2>2, SequenceTypes, KeepaliveType DEF TypeOK
    <3> QED  BY Zenon, <1>37, <2>2, <2>3, <3>1 DEF TypeOK
  <2> QED  BY <1>37, <2>1, <2>2 DEF SendPing
<1>38. ASSUME TypeOK, LinkFails
     PROVE  TypeOK'
  <2>1. toServe' \in Seq(Frame) /\ toProxy' \in Seq(Frame)
    BY <1>38, SequenceTypes DEF LinkFails, TypeOK
  <2> QED
    BY Zenon, <1>38, <2>1 DEF LinkFails, TypeOK
<1>39. CASE UNCHANGED vars
  BY <1>39 DEF TypeOK, vars
<1> QED
  BY <1>1, <1>2, <1>3, <1>4, <1>5, <1>6, <1>7, <1>8, <1>9, <1>10, <1>11, <1>12, <1>13, <1>14,
     <1>15, <1>16, <1>17, <1>18, <1>19, <1>20, <1>21, <1>22, <1>23, <1>24, <1>25, <1>26, <1>27,
     <1>28, <1>29, <1>30, <1>31, <1>32, <1>33, <1>34, <1>35, <1>36, <1>37, <1>38, <1>39
     DEF Next, Client, Handler, Forwarder, Upstream, Task, Reader, Serve

(* Every variable of the tunnel keeps its type, for any number of requests *)
(* and any width of the stream id (the counter of proxy.rs:265 included).  *)
THEOREM TypeCorrect == Spec => []TypeOK
<1>1. Init => TypeOK
  BY InitType
<1>2. TypeOK /\ [Next]_vars => TypeOK'
  BY NextType
<1> QED  BY <1>1, <1>2, PTL DEF Spec

-----------------------------------------------------------------------------
(***************************************************************************)
(* Isolation.  It is not inductive: a chunk reaches a client because of    *)
(* the map entry its id selects, the entry because of the id its request   *)
(* was given.  RoutedById says of every place that holds data of a stream  *)
(* that the data belongs to a request given the id of that place.          *)
(***************************************************************************)
(* The requests that were given stream id i, and what belongs to them.     *)
On(i) == {r \in Requests : pc[r] # "idle" /\ sid[r] = i}
OnFrame(i) == {f \in Frame : f.req \in On(i)}
OnChunk(i) == {c \in Chunk : c[1] \in On(i)}
OwnFrame == {f \in Frame : f.type \in KeepaliveTypes \/ f.req \in On(f.id)}

(* The place of each request, and of each stream id.                       *)
Blank(r) ==
    /\ events[r] = <<>> /\ got[r] = <<>> /\ upBody[r] = <<>>
    /\ reply[r] = NoReply /\ h[r] = "none"
RequestRouted(r) ==
    /\ events[r] \in Seq(OnFrame(sid[r]))
    /\ got[r] \in Seq(OnChunk(sid[r]))
    /\ upBody[r] \in Seq(OnChunk(sid[r]))
    /\ reply[r][1] \in On(sid[r]) \cup {NoReq}
    /\ pc[r] = "idle" => Blank(r)
IdRouted(i) ==
    /\ pending[i] \in On(i) \cup {NoReq}
    /\ srvReq[i] \in On(i) \cup {NoReq}
    /\ srvBody[i] \in Seq(OnChunk(i))

RoutedById ==
    /\ toServe \in Seq(OwnFrame)
    /\ toProxy \in Seq(OwnFrame)
    /\ \A r \in Requests : RequestRouted(r)
    /\ \A i \in Ids : IdRouted(i)

(* Only Accept gives an id away; every other step leaves these sets alone. *)
SameIds ==
    /\ \A i : On(i)' = On(i) /\ OnFrame(i)' = OnFrame(i) /\ OnChunk(i)' = OnChunk(i)
    /\ OwnFrame' = OwnFrame

LEMMA SameIdsLemma ==
    ASSUME sid' = sid,
           \A q \in Requests : pc'[q] = "idle" <=> pc[q] = "idle"
    PROVE  SameIds
<1>1. \A i : On(i)' = On(i)
  BY DEF On
<1>2. \A i : OnFrame(i)' = OnFrame(i) /\ OnChunk(i)' = OnChunk(i)
  BY <1>1 DEF OnFrame, OnChunk
<1>3. OwnFrame' = OwnFrame
  BY <1>1 DEF OwnFrame
<1> QED  BY <1>1, <1>2, <1>3 DEF SameIds

LEMMA SeqMonotone ==
    ASSUME NEW S, NEW T, S \subseteq T
    PROVE  Seq(S) \subseteq Seq(T)
OBVIOUS

(* A frame sent for an accepted request goes under that request's own id.  *)
LEMMA FrameOfOwned ==
    ASSUME TypeOK, NEW r \in Requests, pc[r] # "idle", NEW n \in Nat,
           NEW t \in ReqTypes \cup ResTypes
    PROVE  FrameOf(t, r, n) \in OwnFrame
<1>1. FrameOf(t, r, n) \in Frame
  BY FrameOfType
<1> QED  BY <1>1 DEF FrameOf, OwnFrame, On

LEMMA KeepaliveOwned == Ping \in OwnFrame /\ Pong \in OwnFrame
BY KeepaliveType DEF OwnFrame, Ping, Pong, KeepaliveTypes

(* A frame of a stream, delivered, stays with a request given that id.     *)
LEMMA DeliveredRouted ==
    ASSUME TypeOK, RoutedById, NEW f \in OwnFrame, f.type \notin KeepaliveTypes
    PROVE  \A q \in Requests :
               /\ Delivered(f)[q] \in Seq(OnFrame(sid[q]))
               /\ pc[q] = "idle" => Delivered(f)[q] = <<>>
<1>1. f \in Frame /\ f.id \in Ids /\ f \in OnFrame(f.id)
  BY DEF OwnFrame, OnFrame, Frame
<1>2. Target(f) \in On(f.id) \cup {NoReq}
  BY <1>1 DEF Target, RoutedById, IdRouted
<1>3. CASE Target(f) = NoReq
  BY <1>3 DEF Delivered, RoutedById, RequestRouted, Blank
<1>4. CASE Target(f) # NoReq
  <2>1. Target(f) \in Requests /\ pc[Target(f)] # "idle" /\ sid[Target(f)] = f.id
    BY <1>2, <1>4 DEF On
  <2>2. Append(events[Target(f)], f) \in Seq(OnFrame(sid[Target(f)]))
    BY <1>1, <2>1, SequenceTypes DEF RoutedById, RequestRouted
  <2> QED  BY ZenonT(30), <2>1, <2>2 DEF Delivered, TypeOK, RoutedById, RequestRouted, Blank
<1> QED  BY <1>3, <1>4

(* Steps that leave alone everything that holds data of a stream.          *)
LEMMA Untouched ==
    ASSUME RoutedById,
           UNCHANGED <<sid, toServe, toProxy, events, got, upBody, reply, pending, srvReq,
                       srvBody>>,
           \A q \in Requests : pc'[q] = "idle" <=> pc[q] = "idle",
           \A q \in Requests : pc[q] = "idle" => h'[q] = h[q]
    PROVE  RoutedById'
<1>1. SameIds
  BY SameIdsLemma
<1>2. toServe' \in Seq(OwnFrame') /\ toProxy' \in Seq(OwnFrame')
  BY <1>1 DEF SameIds, RoutedById
<1>3. ASSUME NEW q \in Requests PROVE RequestRouted(q)'
  BY <1>1 DEF SameIds, RoutedById, RequestRouted, Blank
<1>4. ASSUME NEW i \in Ids PROVE IdRouted(i)'
  BY <1>1 DEF SameIds, RoutedById, IdRouted
<1> QED  BY <1>2, <1>3, <1>4 DEF RoutedById

(* A step of one request, already accepted, that leaves the others alone   *)
(* and keeps in its own places only what belongs to its stream id.         *)
SameRequest(q) ==
    /\ pc'[q] = pc[q] /\ events'[q] = events[q] /\ got'[q] = got[q]
    /\ upBody'[q] = upBody[q] /\ reply'[q] = reply[q] /\ h'[q] = h[q]

LEMMA RequestStep ==
    ASSUME RoutedById, NEW r \in Requests, pc[r] # "idle", pc'[r] # "idle",
           UNCHANGED <<sid, srvReq, srvBody>>,
           \A q \in Requests \ {r} : SameRequest(q),
           toServe' \in Seq(OwnFrame), toProxy' \in Seq(OwnFrame),
           \A i \in Ids : pending'[i] \in On(i) \cup {NoReq},
           events'[r] \in Seq(OnFrame(sid[r])),
           got'[r] \in Seq(OnChunk(sid[r])),
           upBody'[r] \in Seq(OnChunk(sid[r])),
           reply'[r][1] \in On(sid[r]) \cup {NoReq}
    PROVE  RoutedById'
<1>1. SameIds
  BY SameIdsLemma DEF SameRequest
<1>2. ASSUME NEW q \in Requests PROVE RequestRouted(q)'
  <2>1. CASE q = r
    BY <1>1, <2>1 DEF SameIds, RequestRouted
  <2>2. CASE q # r
    <3>1. RequestRouted(q) /\ SameRequest(q)
      BY <2>2 DEF RoutedById
    <3> QED  BY <1>1, <3>1 DEF SameIds, SameRequest, RequestRouted, Blank
  <2> QED  BY <2>1, <2>2
<1>3. ASSUME NEW i \in Ids PROVE IdRouted(i)'
  BY <1>1 DEF SameIds, RoutedById, IdRouted
<1> QED  BY <1>1, <1>2, <1>3 DEF SameIds, RoutedById

(* What RoutedById says of one request, and of the map entries.            *)
LEMMA RoutedNow ==
    ASSUME RoutedById, NEW r \in Requests
    PROVE  /\ events[r] \in Seq(OnFrame(sid[r]))
           /\ got[r] \in Seq(OnChunk(sid[r])) /\ upBody[r] \in Seq(OnChunk(sid[r]))
           /\ reply[r][1] \in On(sid[r]) \cup {NoReq}
           /\ events[r] # <<>> => /\ Head(events[r]) \in OnFrame(sid[r])
                                 /\ Tail(events[r]) \in Seq(OnFrame(sid[r]))
           /\ <<>> \in Seq(OnFrame(sid[r]))
           /\ toServe \in Seq(OwnFrame) /\ toProxy \in Seq(OwnFrame)
           /\ \A i \in Ids : pending[i] \in On(i) \cup {NoReq}
<1>1. events[r] \in Seq(OnFrame(sid[r]))
  BY DEF RoutedById, RequestRouted
<1>2. events[r] # <<>> => /\ Head(events[r]) \in OnFrame(sid[r])
                         /\ Tail(events[r]) \in Seq(OnFrame(sid[r]))
  BY Zenon, <1>1, SequenceTypes
<1>3. <<>> \in Seq(OnFrame(sid[r]))
  OBVIOUS
<1> QED  BY <1>1, <1>2, <1>3 DEF RoutedById, RequestRouted, IdRouted

LEMMA InitRouted == Init => RoutedById
BY DEF Init, RoutedById, RequestRouted, IdRouted, Blank, NoReply

LEMMA NextRouted == TypeOK /\ RoutedById /\ [Next]_vars => RoutedById'
<1> USE DEF handlerVars, clientVars, serveVars, taskVars
<1>1. ASSUME TypeOK, RoutedById, NEW r \in Requests, Accept(r)
     PROVE  RoutedById'
  <2>1. \A i : On(i) \subseteq On(i)' /\ OnFrame(i) \subseteq OnFrame(i)'
                /\ OnChunk(i) \subseteq OnChunk(i)'
    <3>1. \A q \in Requests : pc[q] # "idle" => pc'[q] # "idle" /\ sid'[q] = sid[q]
      BY <1>1 DEF Accept, TypeOK
    <3>2. \A i : On(i) \subseteq On(i)'
      BY <3>1 DEF On
    <3> QED  BY <3>2 DEF OnFrame, OnChunk
  <2>2. OwnFrame \subseteq OwnFrame'
    BY <2>1 DEF OwnFrame
  <2>3. toServe' \in Seq(OwnFrame') /\ toProxy' \in Seq(OwnFrame')
    BY <1>1, <2>2, SeqMonotone DEF Accept, RoutedById
  <2>4. ASSUME NEW q \in Requests PROVE RequestRouted(q)'
    <3>1. CASE q = r
      <4>1. Blank(r) /\ pc'[r] # "idle"
        BY <1>1 DEF Accept, TypeOK, RoutedById, RequestRouted
      <4> QED  BY <1>1, <3>1, <4>1 DEF Accept, RequestRouted, Blank, NoReply
    <3>2. CASE q # r
      <4>1. pc'[q] = pc[q] /\ sid'[q] = sid[q]
        BY <1>1, <3>2 DEF Accept, TypeOK
      <4>2. RequestRouted(q)
        BY <1>1 DEF RoutedById
      <4>3. /\ events[q] \in Seq(OnFrame(sid[q])') /\ got[q] \in Seq(OnChunk(sid[q])')
            /\ upBody[q] \in Seq(OnChunk(sid[q])')
        BY <2>1, <4>1, <4>2, SeqMonotone DEF RequestRouted
      <4>4. reply[q][1] \in On(sid[q])' \cup {NoReq}
        BY <2>1, <4>1, <4>2 DEF RequestRouted
      <4> QED  BY <1>1, <4>1, <4>2, <4>3, <4>4 DEF Accept, RequestRouted, Blank
    <3> QED  BY <3>1, <3>2
  <2>5. ASSUME NEW i \in Ids PROVE IdRouted(i)'
    <3>1. IdRouted(i)
      BY <1>1 DEF RoutedById
    <3>2. srvBody[i] \in Seq(OnChunk(i)')
      BY <2>1, <3>1, SeqMonotone DEF IdRouted
    <3> QED  BY <1>1, <2>1, <3>1, <3>2 DEF Accept, IdRouted
  <2> QED  BY <2>3, <2>4, <2>5 DEF RoutedById
<1>2. ASSUME TypeOK, RoutedById, NEW r \in Requests, Collect(r)
     PROVE  RoutedById'
  BY <1>2, Untouched DEF Collect, TypeOK, Waiting, TaskSending, RoutedById, RequestRouted, Blank
<1>3. ASSUME TypeOK, RoutedById, NEW r \in Requests, CollectFails(r)
     PROVE  RoutedById'
  <2>1. \A q \in Requests \ {r} : SameRequest(q)
    BY <1>3 DEF CollectFails, TypeOK, SameRequest
  <2>2. pc[r] # "idle" /\ pc'[r] = "answered"
    BY <1>3 DEF CollectFails, TypeOK, Waiting, Forwarding
  <2>3. reply'[r][1] = NoReq
    BY <1>3 DEF CollectFails, TypeOK
  <2> QED
    BY Zenon, <1>3, <2>1, <2>2, <2>3, RoutedNow, RequestStep DEF CollectFails
<1>4. ASSUME TypeOK, RoutedById, NEW r \in Requests, HangUp(r)
     PROVE  RoutedById'
  <2>1. \A q \in Requests \ {r} : SameRequest(q)
    BY SMTT(30), <1>4 DEF HangUp, TypeOK, SameRequest
  <2>2. pc[r] # "idle" /\ pc'[r] # "idle"
    BY <1>4 DEF HangUp, TypeOK, Waiting
  <2>3. events'[r] \in {events[r], <<>>}
    BY <1>4 DEF HangUp, TypeOK
  <2> QED
    BY Zenon, <1>4, <2>1, <2>2, <2>3, RoutedNow, RequestStep DEF HangUp
<1>5. ASSUME TypeOK, RoutedById, NEW r \in Requests, Register(r)
     PROVE  RoutedById'
  <2>1. \A q \in Requests \ {r} : SameRequest(q)
    BY <1>5 DEF Register, TypeOK, SameRequest
  <2>2. pc[r] # "idle" /\ pc'[r] = "sendHeaders"
    BY <1>5 DEF Register, TypeOK, Waiting, Forwarding
  <2>3. \A i \in Ids : pending'[i] \in On(i) \cup {NoReq}
    BY <1>5, <2>2, RoutedNow DEF Register, TypeOK, On
  <2> QED
    BY Zenon, <1>5, <2>1, <2>2, <2>3, RoutedNow, RequestStep DEF Register
<1>6. ASSUME TypeOK, RoutedById, NEW r \in Requests, SendHeaders(r)
     PROVE  RoutedById'
  <2>1. \A q \in Requests \ {r} : SameRequest(q)
    BY <1>6 DEF SendHeaders, TypeOK, SameRequest
  <2>2. pc[r] # "idle" /\ pc'[r] = "sendBody"
    BY <1>6 DEF SendHeaders, TypeOK
  <2>3. 0 \in Nat
    BY <1>6 DEF TypeOK
  <2>4. toServe' \in Seq(OwnFrame)
    BY Zenon, <1>6, <2>2, <2>3, FrameOfOwned, PutType, RoutedNow DEF SendHeaders, ReqTypes
  <2> QED
    BY Zenon, <1>6, <2>1, <2>2, <2>3, <2>4, RoutedNow, RequestStep DEF SendHeaders
<1>7. ASSUME TypeOK, RoutedById, NEW r \in Requests, SendHeadersFails(r)
     PROVE  RoutedById'
  BY <1>7, Untouched
     DEF SendHeadersFails, TypeOK, Waiting, TaskSending, RoutedById, RequestRouted, Blank
<1>8. ASSUME TypeOK, RoutedById, NEW r \in Requests, SendBody(r)
     PROVE  RoutedById'
  <2>1. \A q \in Requests \ {r} : SameRequest(q)
    BY <1>8 DEF SendBody, TypeOK, SameRequest
  <2>2. pc[r] # "idle" /\ pc'[r] = "sendBody"
    BY <1>8 DEF SendBody, TypeOK
  <2>3. sent[r] + 1 \in Nat
    BY <1>8 DEF TypeOK
  <2>4. toServe' \in Seq(OwnFrame)
    BY Zenon, <1>8, <2>2, <2>3, FrameOfOwned, PutType, RoutedNow DEF SendBody, ReqTypes
  <2> QED
    BY Zenon, <1>8, <2>1, <2>2, <2>3, <2>4, RoutedNow, RequestStep DEF SendBody
<1>9. ASSUME TypeOK, RoutedById, NEW r \in Requests, SendBodyFails(r)
     PROVE  RoutedById'
  BY <1>9, Untouched
     DEF SendBodyFails, TypeOK, Waiting, TaskSending, RoutedById, RequestRouted, Blank
<1>10. ASSUME TypeOK, RoutedById, NEW r \in Requests, SendEnd(r)
     PROVE  RoutedById'
  <2>1. \A q \in Requests \ {r} : SameRequest(q)
    BY <1>10 DEF SendEnd, TypeOK, SameRequest
  <2>2. pc[r] # "idle" /\ pc'[r] = "await"
    BY <1>10 DEF SendEnd, TypeOK
  <2>3. 0 \in Nat
    BY <1>10 DEF TypeOK
  <2>4. toServe' \in Seq(OwnFrame)
    BY <1>10, <2>2, <2>3, FrameOfOwned, PutType, RoutedNow DEF SendEnd, ReqTypes
  <2> QED
    BY Zenon, <1>10, <2>1, <2>2, <2>3, <2>4, RoutedNow, RequestStep DEF SendEnd
<1>11. ASSUME TypeOK, RoutedById, NEW r \in Requests, AwaitHeaders(r)
     PROVE  RoutedById'
  <2>1. \A q \in Requests \ {r} : SameRequest(q)
    BY <1>11 DEF AwaitHeaders, TypeOK, SameRequest
  <2>2. pc[r] # "idle" /\ pc'[r] = "stream"
    BY <1>11 DEF AwaitHeaders, TypeOK, Waiting, Forwarding
  <2>3. events[r] # <<>> /\ events'[r] = Tail(events[r])
    BY <1>11 DEF AwaitHeaders, NextIs, TypeOK
  <2>4. Head(events[r]).req \in On(sid[r])
    BY Zenon, <1>11, <2>3, RoutedNow DEF OnFrame
  <2>5. reply'[r][1] \in On(sid[r])
    BY <1>11, <2>4 DEF AwaitHeaders, TypeOK
  <2> QED
    BY Zenon, <1>11, <2>1, <2>2, <2>3, <2>4, <2>5, RoutedNow, RequestStep DEF AwaitHeaders
<1>12. ASSUME TypeOK, RoutedById, NEW r \in Requests, AwaitSkipsBody(r)
     PROVE  RoutedById'
  <2>1. \A q \in Requests \ {r} : SameRequest(q)
    BY <1>12 DEF AwaitSkipsBody, TypeOK, SameRequest
  <2>2. pc[r] # "idle" /\ pc'[r] = "await"
    BY <1>12 DEF AwaitSkipsBody, TypeOK, Waiting, Forwarding
  <2>3. events[r] # <<>> /\ events'[r] = Tail(events[r])
    BY <1>12 DEF AwaitSkipsBody, NextIs, TypeOK
  <2> QED
    BY Zenon, <1>12, <2>1, <2>2, <2>3, RoutedNow, RequestStep DEF AwaitSkipsBody
<1>13. ASSUME TypeOK, RoutedById, NEW r \in Requests, AwaitFails(r)
     PROVE  RoutedById'
  BY <1>13, Untouched
     DEF AwaitFails, TypeOK, Waiting, TaskSending, RoutedById, RequestRouted, Blank
<1>14. ASSUME TypeOK, RoutedById, NEW r \in Requests, AwaitTimesOut(r)
     PROVE  RoutedById'
  BY <1>14, Untouched
     DEF AwaitTimesOut, TypeOK, Waiting, TaskSending, RoutedById, RequestRouted, Blank
<1>15. ASSUME TypeOK, RoutedById, NEW r \in Requests, Cleanup(r)
     PROVE  RoutedById'
  <2>1. \A q \in Requests \ {r} : SameRequest(q)
    BY <1>15 DEF Cleanup, TypeOK, SameRequest
  <2>2. pc[r] # "idle" /\ pc'[r] = "answered" /\ events'[r] = <<>>
    BY <1>15 DEF Cleanup, TypeOK, Waiting, Forwarding
  <2>3. reply'[r][1] = NoReq
    BY <1>15 DEF Cleanup, TypeOK
  <2>4. \A i \in Ids : pending'[i] \in {pending[i], NoReq}
    BY <1>15 DEF Cleanup, TypeOK
  <2> QED
    BY Zenon, <1>15, <2>1, <2>2, <2>3, <2>4, RoutedNow, RequestStep DEF Cleanup
<1>16. ASSUME TypeOK, RoutedById, NEW r \in Requests, ForwardBody(r)
     PROVE  RoutedById'
  <2>1. \A q \in Requests \ {r} : SameRequest(q)
    BY <1>16 DEF ForwardBody, TypeOK, SameRequest
  <2>2. pc[r] # "idle" /\ pc'[r] = "stream"
    BY <1>16 DEF ForwardBody, TypeOK, Waiting, Forwarding
  <2>3. events[r] # <<>> /\ events'[r] = Tail(events[r])
    BY <1>16 DEF ForwardBody, NextIs, TypeOK
  <2>4. <<Head(events[r]).req, Head(events[r]).n>> \in OnChunk(sid[r])
    BY Zenon, <1>16, <2>3, RoutedNow DEF OnFrame, OnChunk, Chunk, Frame
  <2>5. got'[r] \in Seq(OnChunk(sid[r]))
    BY <1>16, <2>4, RoutedNow, SequenceTypes DEF ForwardBody, TypeOK
  <2> QED
    BY Zenon, <1>16, <2>1, <2>2, <2>3, <2>4, <2>5, RoutedNow, RequestStep DEF ForwardBody
<1>17. ASSUME TypeOK, RoutedById, NEW r \in Requests, ForwardToNobody(r)
     PROVE  RoutedById'
  <2>1. \A q \in Requests \ {r} : SameRequest(q)
    BY <1>17 DEF ForwardToNobody, TypeOK, SameRequest
  <2>2. pc[r] # "idle" /\ pc'[r] = "dropped" /\ events'[r] = <<>>
    BY <1>17 DEF ForwardToNobody, TypeOK, Waiting, Forwarding
  <2> QED
    BY Zenon, <1>17, <2>1, <2>2, RoutedNow, RequestStep DEF ForwardToNobody
<1>18. ASSUME TypeOK, RoutedById, NEW r \in Requests, ForwardSkipsHeaders(r)
     PROVE  RoutedById'
  <2>1. \A q \in Requests \ {r} : SameRequest(q)
    BY <1>18 DEF ForwardSkipsHeaders, TypeOK, SameRequest
  <2>2. pc[r] # "idle" /\ pc'[r] = pc[r]
    BY <1>18 DEF ForwardSkipsHeaders, Forwarding
  <2>3. events[r] # <<>> /\ events'[r] = Tail(events[r])
    BY <1>18 DEF ForwardSkipsHeaders, NextIs, TypeOK
  <2> QED
    BY Zenon, <1>18, <2>1, <2>2, <2>3, RoutedNow, RequestStep DEF ForwardSkipsHeaders
<1>19. ASSUME TypeOK, RoutedById, NEW r \in Requests, ForwardEnds(r)
     PROVE  RoutedById'
  <2>1. \A q \in Requests \ {r} : SameRequest(q)
    BY <1>19 DEF ForwardEnds, TypeOK, SameRequest
  <2>2. pc[r] # "idle" /\ pc'[r] # "idle" /\ events'[r] = <<>>
    BY <1>19 DEF ForwardEnds, TypeOK, Forwarding
  <2> QED
    BY Zenon, <1>19, <2>1, <2>2, RoutedNow, RequestStep DEF ForwardEnds
<1>20. ASSUME TypeOK, RoutedById, NEW r \in Requests, UpstreamAnswers(r)
     PROVE  RoutedById'
  BY <1>20, Untouched
     DEF UpstreamAnswers, TypeOK, Waiting, TaskSending, RoutedById, RequestRouted, Blank
<1>21. ASSUME TypeOK, RoutedById, NEW r \in Requests, UpstreamFails(r)
     PROVE  RoutedById'
  BY <1>21, Untouched
     DEF UpstreamFails, TypeOK, Waiting, TaskSending, RoutedById, RequestRouted, Blank
<1>22. ASSUME TypeOK, RoutedById, NEW r \in Requests, TaskSendsHeaders(r)
     PROVE  RoutedById'
  <2>1. SameIds
    BY <1>22, SameIdsLemma
       DEF TaskSendsHeaders, TypeOK, Waiting, Forwarding, NextIs, TaskSending
  <2>2. pc[r] # "idle"
    BY <1>22 DEF TaskSendsHeaders, RoutedById, RequestRouted, Blank
  <2>3. hStatus[r] \in Nat
    <3>1. hStatus[r] \in {0, 200, 502}
      BY <1>22 DEF TypeOK
    <3> QED  BY <3>1
  <2>4. toServe' \in Seq(OwnFrame) /\ toProxy' \in Seq(OwnFrame)
    BY Zenon, <1>22, <2>2, <2>3, FrameOfOwned, PutType
       DEF TaskSendsHeaders, RoutedById, ReqTypes, ResTypes
  <2>5. ASSUME NEW q \in Requests PROVE RequestRouted(q)'
    BY Zenon, <1>22, <2>1
       DEF TaskSendsHeaders, TypeOK, SameIds, RoutedById, RequestRouted, Blank, Waiting,
           Forwarding
  <2>6. ASSUME NEW i \in Ids PROVE IdRouted(i)'
    BY <1>22, <2>1 DEF TaskSendsHeaders, TypeOK, SameIds, RoutedById, IdRouted
  <2> QED
    BY <2>1, <2>2, <2>3, <2>4, <2>5, <2>6 DEF SameIds, RoutedById
<1>23. ASSUME TypeOK, RoutedById, NEW r \in Requests, TaskSendsBody(r)
     PROVE  RoutedById'
  <2>1. SameIds
    BY <1>23, SameIdsLemma DEF TaskSendsBody, TypeOK, Waiting, Forwarding, NextIs, TaskSending
  <2>2. pc[r] # "idle"
    BY <1>23 DEF TaskSendsBody, RoutedById, RequestRouted, Blank
  <2>3. resSent[r] + 1 \in Nat
    BY <1>23 DEF TypeOK
  <2>4. toServe' \in Seq(OwnFrame) /\ toProxy' \in Seq(OwnFrame)
    BY Zenon, <1>23, <2>2, <2>3, FrameOfOwned, PutType
       DEF TaskSendsBody, RoutedById, ReqTypes, ResTypes
  <2>5. ASSUME NEW q \in Requests PROVE RequestRouted(q)'
    BY Zenon, <1>23, <2>1
       DEF TaskSendsBody, TypeOK, SameIds, RoutedById, RequestRouted, Blank, Waiting,
           Forwarding
  <2>6. ASSUME NEW i \in Ids PROVE IdRouted(i)'
    BY <1>23, <2>1 DEF TaskSendsBody, TypeOK, SameIds, RoutedById, IdRouted
  <2> QED
    BY <2>1, <2>2, <2>3, <2>4, <2>5, <2>6 DEF SameIds, RoutedById
<1>24. ASSUME TypeOK, RoutedById, NEW r \in Requests, TaskSendsError(r)
     PROVE  RoutedById'
  <2>1. SameIds
    BY <1>24, SameIdsLemma DEF TaskSendsError, TypeOK, Waiting, Forwarding, NextIs, TaskSending
  <2>2. pc[r] # "idle"
    BY <1>24 DEF TaskSendsError, RoutedById, RequestRouted, Blank
  <2>3. 0 \in Nat
    BY <1>24 DEF TypeOK
  <2>4. toServe' \in Seq(OwnFrame) /\ toProxy' \in Seq(OwnFrame)
    BY <1>24, <2>2, <2>3, FrameOfOwned, PutType
       DEF TaskSendsError, RoutedById, ReqTypes, ResTypes
  <2>5. ASSUME NEW q \in Requests PROVE RequestRouted(q)'
    <3>1. RequestRouted(q) /\ (pc[q] = "idle" => h'[q] = h[q])
      BY <1>24, <2>2 DEF TaskSendsError, TypeOK, RoutedById
    <3>2. UNCHANGED <<pc, sid, events, got, upBody, reply>>
      BY <1>24 DEF TaskSendsError
    <3> QED  BY <2>1, <3>1, <3>2 DEF SameIds, RequestRouted, Blank
  <2>6. ASSUME NEW i \in Ids PROVE IdRouted(i)'
    BY <1>24, <2>1 DEF TaskSendsError, TypeOK, SameIds, RoutedById, IdRouted
  <2> QED
    BY <2>1, <2>2, <2>3, <2>4, <2>5, <2>6 DEF SameIds, RoutedById
<1>25. ASSUME TypeOK, RoutedById, NEW r \in Requests, TaskSendsEnd(r)
     PROVE  RoutedById'
  <2>1. SameIds
    BY <1>25, SameIdsLemma DEF TaskSendsEnd, TypeOK, Waiting, Forwarding, NextIs, TaskSending
  <2>2. pc[r] # "idle"
    BY <1>25 DEF TaskSendsEnd, RoutedById, RequestRouted, Blank
  <2>3. 0 \in Nat
    BY <1>25 DEF TypeOK
  <2>4. toServe' \in Seq(OwnFrame) /\ toProxy' \in Seq(OwnFrame)
    BY <1>25, <2>2, <2>3, FrameOfOwned, PutType DEF TaskSendsEnd, RoutedById, ReqTypes, ResTypes
  <2>5. ASSUME NEW q \in Requests PROVE RequestRouted(q)'
    BY ZenonT(30), <1>25, <2>1
       DEF TaskSendsEnd, TypeOK, SameIds, RoutedById, RequestRouted, Blank, Waiting, Forwarding
  <2>6. ASSUME NEW i \in Ids PROVE IdRouted(i)'
    BY <1>25, <2>1 DEF TaskSendsEnd, TypeOK, SameIds, RoutedById, IdRouted
  <2> QED
    BY <2>1, <2>2, <2>3, <2>4, <2>5, <2>6 DEF SameIds, RoutedById
<1>26. ASSUME TypeOK, RoutedById, NEW r \in Requests, TaskSendFails(r)
     PROVE  RoutedById'
  BY <1>26, Untouched
     DEF TaskSendFails, TypeOK, Waiting, TaskSending, RoutedById, RequestRouted, Blank
<1>27. ASSUME TypeOK, RoutedById, ReaderRoutes
     PROVE  RoutedById'
  <2>1. SameIds
    BY <1>27, SameIdsLemma DEF ReaderRoutes, TypeOK, Waiting, Forwarding, NextIs, TaskSending
  <2>2. Head(toProxy) \in OwnFrame /\ Tail(toProxy) \in Seq(OwnFrame)
    BY <1>27, SequenceTypes DEF ReaderRoutes, RoutedById, ServeNext
  <2>3. toServe' \in Seq(OwnFrame) /\ toProxy' \in Seq(OwnFrame)
    BY <1>27, <2>2 DEF ReaderRoutes, RoutedById
  <2>4. ASSUME NEW q \in Requests PROVE RequestRouted(q)'
    BY ZenonT(30), <1>27, <2>1, <2>2, DeliveredRouted
       DEF ReaderRoutes, TypeOK, SameIds, RoutedById, RequestRouted, Blank, KeepaliveTypes
  <2>5. ASSUME NEW i \in Ids PROVE IdRouted(i)'
    BY <1>27, <2>1, <2>2 DEF ReaderRoutes, TypeOK, SameIds, RoutedById, IdRouted
  <2> QED
    BY <2>1, <2>2, <2>3, <2>4, <2>5 DEF SameIds, RoutedById
<1>28. ASSUME TypeOK, RoutedById, ReaderEnds
     PROVE  RoutedById'
  <2>1. SameIds
    BY <1>28, SameIdsLemma DEF ReaderEnds, TypeOK, Waiting, Forwarding, NextIs, TaskSending
  <2>2. Head(toProxy) \in OwnFrame /\ Tail(toProxy) \in Seq(OwnFrame)
    BY <1>28, SequenceTypes DEF ReaderEnds, RoutedById, ServeNext
  <2>3. toServe' \in Seq(OwnFrame) /\ toProxy' \in Seq(OwnFrame)
    BY <1>28, <2>2 DEF ReaderEnds, RoutedById
  <2>4. ASSUME NEW q \in Requests PROVE RequestRouted(q)'
    BY ZenonT(30), <1>28, <2>1, <2>2, DeliveredRouted
       DEF ReaderEnds, TypeOK, SameIds, RoutedById, RequestRouted, Blank, KeepaliveTypes
  <2>5. ASSUME NEW i \in Ids PROVE IdRouted(i)'
    BY <1>28, <2>1, <2>2 DEF ReaderEnds, TypeOK, SameIds, RoutedById, IdRouted
  <2> QED
    BY <2>1, <2>2, <2>3, <2>4, <2>5 DEF SameIds, RoutedById
<1>29. ASSUME TypeOK, RoutedById, ReaderPongs
     PROVE  RoutedById'
  <2>1. SameIds
    BY <1>29, SameIdsLemma DEF ReaderPongs, TypeOK, Waiting, Forwarding, NextIs, TaskSending
  <2>2. Head(toProxy) \in OwnFrame /\ Tail(toProxy) \in Seq(OwnFrame)
    BY <1>29, SequenceTypes DEF ReaderPongs, RoutedById, ServeNext
  <2>3. toServe' \in Seq(OwnFrame) /\ toProxy' \in Seq(OwnFrame)
    BY <1>29, <2>2, KeepaliveOwned, PutType DEF ReaderPongs, RoutedById
  <2>4. ASSUME NEW q \in Requests PROVE RequestRouted(q)'
    BY Zenon, <1>29, <2>1
       DEF ReaderPongs, TypeOK, SameIds, RoutedById, RequestRouted, Blank, KeepaliveTypes
  <2>5. ASSUME NEW i \in Ids PROVE IdRouted(i)'
    BY <1>29, <2>1 DEF ReaderPongs, TypeOK, SameIds, RoutedById, IdRouted
  <2> QED
    BY <2>1, <2>2, <2>3, <2>4, <2>5 DEF SameIds, RoutedById
<1>30. ASSUME TypeOK, RoutedById, ReaderIgnores
     PROVE  RoutedById'
  <2>1. SameIds
    BY <1>30, SameIdsLemma DEF ReaderIgnores, TypeOK, Waiting, Forwarding, NextIs, TaskSending
  <2>2. Head(toProxy) \in OwnFrame /\ Tail(toProxy) \in Seq(OwnFrame)
    BY <1>30, SequenceTypes DEF ReaderIgnores, RoutedById, ServeNext
  <2>3. toServe' \in Seq(OwnFrame) /\ toProxy' \in Seq(OwnFrame)
    BY <1>30, <2>2 DEF ReaderIgnores, RoutedById
  <2>4. ASSUME NEW q \in Requests PROVE RequestRouted(q)'
    BY Zenon, <1>30, <2>1
       DEF ReaderIgnores, TypeOK, SameIds, RoutedById, RequestRouted, Blank, KeepaliveTypes
  <2>5. ASSUME NEW i \in Ids PROVE IdRouted(i)'
    BY <1>30, <2>1 DEF ReaderIgnores, TypeOK, SameIds, RoutedById, IdRouted
  <2> QED
    BY <2>1, <2>2, <2>3, <2>4, <2>5 DEF SameIds, RoutedById
<1>31. ASSUME TypeOK, RoutedById, ServeHeaders
     PROVE  RoutedById'
  <2>1. SameIds
    BY <1>31, SameIdsLemma DEF ServeHeaders, TypeOK, Waiting, Forwarding, NextIs, TaskSending
  <2>2. Head(toServe) \in OwnFrame /\ Tail(toServe) \in Seq(OwnFrame)
    BY <1>31, SequenceTypes DEF ServeHeaders, RoutedById, ServeNext
  <2>3. toServe' \in Seq(OwnFrame) /\ toProxy' \in Seq(OwnFrame)
    BY <1>31, <2>2 DEF ServeHeaders, RoutedById
  <2>4. ASSUME NEW q \in Requests PROVE RequestRouted(q)'
    BY <1>31, <2>1
       DEF ServeHeaders, TypeOK, SameIds, RoutedById, RequestRouted, Blank, Waiting, Forwarding
  <2>5. ASSUME NEW i \in Ids PROVE IdRouted(i)'
    <3>1. Head(toServe).req \in On(Head(toServe).id)
      BY <1>31, <2>2 DEF ServeHeaders, ServeNext, OwnFrame, KeepaliveTypes
    <3>2. IdRouted(i) /\ pending' = pending
      BY <1>31 DEF ServeHeaders, RoutedById
    <3>3. CASE i = Head(toServe).id
      <4>1. srvReq'[i] = Head(toServe).req /\ srvBody'[i] = <<>>
        BY <1>31, <3>3 DEF ServeHeaders, TypeOK
      <4> QED  BY <2>1, <3>1, <3>2, <3>3, <4>1 DEF SameIds, IdRouted
    <3>4. CASE i # Head(toServe).id
      <4>1. srvReq'[i] = srvReq[i] /\ srvBody'[i] = srvBody[i]
        BY <1>31, <3>4 DEF ServeHeaders, TypeOK
      <4> QED  BY <2>1, <3>2, <4>1 DEF SameIds, IdRouted
    <3> QED  BY <3>3, <3>4
  <2> QED
    BY <2>1, <2>2, <2>3, <2>4, <2>5 DEF SameIds, RoutedById
<1>32. ASSUME TypeOK, RoutedById, ServeBody
     PROVE  RoutedById'
  <2>1. SameIds
    BY <1>32, SameIdsLemma DEF ServeBody, TypeOK, Waiting, Forwarding, NextIs, TaskSending
  <2>2. Head(toServe) \in OwnFrame /\ Tail(toServe) \in Seq(OwnFrame)
    BY <1>32, SequenceTypes DEF ServeBody, RoutedById, ServeNext
  <2>3. toServe' \in Seq(OwnFrame) /\ toProxy' \in Seq(OwnFrame)
    BY <1>32, <2>2 DEF ServeBody, RoutedById
  <2>4. ASSUME NEW q \in Requests PROVE RequestRouted(q)'
    BY <1>32, <2>1
       DEF ServeBody, TypeOK, SameIds, RoutedById, RequestRouted, Blank, Waiting, Forwarding
  <2>5. ASSUME NEW i \in Ids PROVE IdRouted(i)'
    <3> DEFINE f == Head(toServe)
    <3>1. <<f.req, f.n>> \in OnChunk(f.id)
      BY <1>32, <2>2 DEF ServeBody, ServeNext, OwnFrame, KeepaliveTypes, Frame, Chunk, OnChunk
    <3>2. IdRouted(i) /\ pending' = pending /\ srvReq' = srvReq
      BY <1>32 DEF ServeBody, RoutedById
    <3>3. CASE srvBody'[i] = srvBody[i]
      BY <2>1, <3>2, <3>3 DEF SameIds, IdRouted
    <3>4. CASE srvBody'[i] # srvBody[i]
      <4>1. i = f.id /\ srvBody'[i] = Append(srvBody[i], <<f.req, f.n>>)
        BY SMTT(30), <1>32, <3>4 DEF ServeBody, TypeOK
      <4>2. srvBody'[i] \in Seq(OnChunk(i))
        BY <3>1, <3>2, <4>1, SequenceTypes DEF IdRouted
      <4> QED  BY <2>1, <3>2, <4>2 DEF SameIds, IdRouted
    <3> QED  BY <3>3, <3>4
  <2> QED
    BY <2>1, <2>2, <2>3, <2>4, <2>5 DEF SameIds, RoutedById
<1>33. ASSUME TypeOK, RoutedById, ServeEnd
     PROVE  RoutedById'
  <2>1. SameIds
    BY <1>33, SameIdsLemma DEF ServeEnd, TypeOK, Waiting, Forwarding, NextIs, TaskSending
  <2>2. Head(toServe) \in OwnFrame /\ Tail(toServe) \in Seq(OwnFrame)
    BY <1>33, SequenceTypes DEF ServeEnd, RoutedById, ServeNext
  <2>3. toServe' \in Seq(OwnFrame) /\ toProxy' \in Seq(OwnFrame)
    BY <1>33, <2>2 DEF ServeEnd, RoutedById
  <2> DEFINE i == Head(toServe).id
  <2>4. i \in Ids
    BY <2>2 DEF OwnFrame, Frame
  <2>5. ASSUME NEW q \in Requests PROVE RequestRouted(q)'
    <3>1. RequestRouted(q)
      BY <1>33 DEF RoutedById
    <3>2. UNCHANGED <<pc, sid, events, got, reply>>
      BY <1>33 DEF ServeEnd
    <3>3. CASE q # srvReq[i]
      <4>1. upBody'[q] = upBody[q] /\ h'[q] = h[q]
        <5>1. \/ UNCHANGED <<h, upBody>>
              \/ /\ h' = [h EXCEPT ![srvReq[i]] = "upstream"]
                 /\ upBody' = [upBody EXCEPT ![srvReq[i]] = srvBody[i]]
          BY <1>33 DEF ServeEnd
        <5>2. CASE UNCHANGED <<h, upBody>>
          BY <5>2
        <5>3. CASE /\ h' = [h EXCEPT ![srvReq[i]] = "upstream"]
                   /\ upBody' = [upBody EXCEPT ![srvReq[i]] = srvBody[i]]
          BY <1>33, <3>3, <5>3 DEF TypeOK
        <5> QED  BY <5>1, <5>2, <5>3
      <4> QED  BY <2>1, <3>1, <3>2, <4>1 DEF SameIds, RequestRouted, Blank
    <3>4. CASE q = srvReq[i]
      <4>1. q \in On(i) /\ srvBody[i] \in Seq(OnChunk(i))
        BY <1>33, <2>4, <3>4, NoReqAssumption DEF RoutedById, IdRouted
      <4>2. sid[q] = i /\ pc[q] # "idle"
        BY <4>1 DEF On
      <4>3. upBody'[q] = srvBody[i]
        BY <1>33, <3>4, NoReqAssumption DEF ServeEnd, TypeOK
      <4> QED  BY <2>1, <3>1, <3>2, <4>1, <4>2, <4>3 DEF SameIds, RequestRouted
    <3> QED  BY <3>3, <3>4
  <2>6. ASSUME NEW k \in Ids PROVE IdRouted(k)'
    <3>1. IdRouted(k) /\ pending' = pending
      BY <1>33 DEF ServeEnd, RoutedById
    <3>2. \/ srvReq'[k] = srvReq[k] /\ srvBody'[k] = srvBody[k]
          \/ srvReq'[k] = NoReq /\ srvBody'[k] = <<>>
      <4>1. CASE srvReq[i] = NoReq
        BY <1>33, <4>1 DEF ServeEnd
      <4>2. CASE srvReq[i] # NoReq
        <5>1. /\ srvReq' = [srvReq EXCEPT ![i] = NoReq]
              /\ srvBody' = [srvBody EXCEPT ![i] = <<>>]
          BY <1>33, <4>2 DEF ServeEnd
        <5> QED  BY <1>33, <5>1 DEF TypeOK
      <4> QED  BY <4>1, <4>2
    <3>3. srvReq'[k] \in On(k) \cup {NoReq} /\ srvBody'[k] \in Seq(OnChunk(k))
      <4>1. CASE srvReq'[k] = srvReq[k] /\ srvBody'[k] = srvBody[k]
        BY <3>1, <4>1 DEF IdRouted
      <4>2. CASE srvReq'[k] = NoReq /\ srvBody'[k] = <<>>
        BY <4>2
      <4> QED  BY <3>2, <4>1, <4>2
    <3> QED  BY <2>1, <3>1, <3>3 DEF SameIds, IdRouted
  <2> QED
    BY <2>1, <2>3, <2>5, <2>6 DEF SameIds, RoutedById
<1>34. ASSUME TypeOK, RoutedById, ServePongs
     PROVE  RoutedById'
  <2>1. SameIds
    BY <1>34, SameIdsLemma DEF ServePongs, TypeOK, Waiting, Forwarding, NextIs, TaskSending
  <2>2. Head(toServe) \in OwnFrame /\ Tail(toServe) \in Seq(OwnFrame)
    BY <1>34, SequenceTypes DEF ServePongs, RoutedById, ServeNext
  <2>3. toServe' \in Seq(OwnFrame) /\ toProxy' \in Seq(OwnFrame)
    BY <1>34, <2>2, KeepaliveOwned, PutType DEF ServePongs, RoutedById
  <2>4. ASSUME NEW q \in Requests PROVE RequestRouted(q)'
    BY <1>34, <2>1
       DEF ServePongs, TypeOK, SameIds, RoutedById, RequestRouted, Blank, Waiting, Forwarding
  <2>5. ASSUME NEW i \in Ids PROVE IdRouted(i)'
    BY <1>34, <2>1 DEF ServePongs, TypeOK, SameIds, RoutedById, IdRouted
  <2> QED
    BY <2>1, <2>2, <2>3, <2>4, <2>5 DEF SameIds, RoutedById
<1>35. ASSUME TypeOK, RoutedById, ServeIgnores
     PROVE  RoutedById'
  <2>1. SameIds
    BY <1>35, SameIdsLemma DEF ServeIgnores, TypeOK, Waiting, Forwarding, NextIs, TaskSending
  <2>2. Head(toServe) \in OwnFrame /\ Tail(toServe) \in Seq(OwnFrame)
    BY <1>35, SequenceTypes DEF ServeIgnores, RoutedById, ServeNext
  <2>3. toServe' \in Seq(OwnFrame) /\ toProxy' \in Seq(OwnFrame)
    BY <1>35, <2>2 DEF ServeIgnores, RoutedById
  <2>4. ASSUME NEW q \in Requests PROVE RequestRouted(q)'
    BY <1>35, <2>1
       DEF ServeIgnores, TypeOK, SameIds, RoutedById, RequestRouted, Blank, Waiting, Forwarding
  <2>5. ASSUME NEW i \in Ids PROVE IdRouted(i)'
    BY <1>35, <2>1 DEF ServeIgnores, TypeOK, SameIds, RoutedById, IdRouted
  <2> QED
    BY <2>1, <2>2, <2>3, <2>4, <2>5 DEF SameIds, RoutedById
<1>36. ASSUME TypeOK, RoutedById, ServeExit
     PROVE  RoutedById'
  BY <1>36, Untouched
     DEF ServeExit, TypeOK, Waiting, TaskSending, RoutedById, RequestRouted, Blank
<1>37. ASSUME TypeOK, RoutedById, SendPing
     PROVE  RoutedById'
  <2>1. SameIds
    BY <1>37, SameIdsLemma DEF SendPing, TypeOK, Waiting, Forwarding, NextIs, TaskSending
  <2>2. toServe' \in Seq(OwnFrame) /\ toProxy' \in Seq(OwnFrame)
    BY Zenon, <1>37, KeepaliveOwned, SequenceTypes DEF SendPing, RoutedById
  <2>3. ASSUME NEW q \in Requests PROVE RequestRouted(q)'
    BY Zenon, <1>37, <2>1
       DEF SendPing, TypeOK, SameIds, RoutedById, RequestRouted, Blank, Waiting, Forwarding
  <2>4. ASSUME NEW i \in Ids PROVE IdRouted(i)'
    BY <1>37, <2>1 DEF SendPing, TypeOK, SameIds, RoutedById, IdRouted
  <2> QED
    BY <2>1, <2>2, <2>3, <2>4 DEF SameIds, RoutedById
<1>38. ASSUME TypeOK, RoutedById, LinkFails
     PROVE  RoutedById'
  <2>1. SameIds
    BY <1>38, SameIdsLemma DEF LinkFails, TypeOK, Waiting, Forwarding, NextIs, TaskSending
  <2>2. toServe' \in Seq(OwnFrame) /\ toProxy' \in Seq(OwnFrame)
    BY <1>38, KeepaliveOwned, SequenceTypes DEF LinkFails, RoutedById
  <2>3. ASSUME NEW q \in Requests PROVE RequestRouted(q)'
    BY Zenon, <1>38, <2>1
       DEF LinkFails, TypeOK, SameIds, RoutedById, RequestRouted, Blank, Waiting, Forwarding
  <2>4. ASSUME NEW i \in Ids PROVE IdRouted(i)'
    BY <1>38, <2>1 DEF LinkFails, TypeOK, SameIds, RoutedById, IdRouted
  <2> QED
    BY <2>1, <2>2, <2>3, <2>4 DEF SameIds, RoutedById
<1>39. ASSUME RoutedById, UNCHANGED vars
     PROVE  RoutedById'
  BY <1>39, Untouched DEF vars
<1> QED
  BY <1>1, <1>2, <1>3, <1>4, <1>5, <1>6, <1>7, <1>8, <1>9, <1>10, <1>11, <1>12, <1>13, <1>14,
     <1>15, <1>16, <1>17, <1>18, <1>19, <1>20, <1>21, <1>22, <1>23, <1>24, <1>25, <1>26, <1>27,
     <1>28, <1>29, <1>30, <1>31, <1>32, <1>33, <1>34, <1>35, <1>36, <1>37, <1>38, <1>39
     DEF Next, Client, Handler, Forwarder, Upstream, Task, Reader, Serve

(* Requests that share the channel never see each other's data, whatever   *)
(* the number of requests, of chunks and of ids, under any interleaving,   *)
(* time-out, hang-up or loss of the link - for each request whose id was   *)
(* given to it alone.                                                      *)
THEOREM IsolationHolds == Spec => []Isolation
<1>1. Init => TypeOK /\ RoutedById
  BY InitType, InitRouted
<1>2. TypeOK /\ RoutedById /\ [Next]_vars => TypeOK' /\ RoutedById'
  BY NextType, NextRouted
<1>3. TypeOK /\ RoutedById => Isolation
  <2> SUFFICES ASSUME TypeOK, RoutedById, NEW r \in Requests, UniqueId(r)
               PROVE  /\ reply[r][1] \in {r, NoReq}
                      /\ \A i \in DOMAIN got[r] : got[r][i][1] = r
                      /\ \A i \in DOMAIN upBody[r] : upBody[r][i][1] = r
    BY DEF Isolation
  <2>1. On(sid[r]) = {r}
    BY DEF On, UniqueId
  <2>2. RequestRouted(r)
    BY DEF RoutedById
  <2>3. \A c \in OnChunk(sid[r]) : c[1] = r
    BY <2>1 DEF OnChunk
  <2>4. \A i \in DOMAIN got[r] : got[r][i] \in OnChunk(sid[r])
    BY <2>2 DEF RequestRouted
  <2>5. \A i \in DOMAIN upBody[r] : upBody[r][i] \in OnChunk(sid[r])
    BY <2>2 DEF RequestRouted
  <2> QED  BY <2>1, <2>2, <2>3, <2>4, <2>5 DEF RequestRouted
<1> QED  BY <1>1, <1>2, <1>3, PTL DEF Spec
=============================================================================
