------------------------ MODULE TunnelExchangeProofs ------------------------
(***************************************************************************)
(* Theorems about what Tunnel as a whole promises: it implements the       *)
(* independent exchanges of HttpExchange, for every set of requests whose  *)
(* stream ids are distinct, on a link that may fail; and the map entries   *)
(* its handlers, reader and serve loop leave behind are a hang-up's.       *)
(***************************************************************************)
EXTENDS TunnelOrderProofs, FiniteSetTheorems

(***************************************************************************)
(* Stream ids.  While a session has served no more requests than there are *)
(* ids, no two have the same: the n-th request got id n, the last one 0.   *)
(***************************************************************************)
Accepted == {r \in Requests : pc[r] # "idle"}
AllUnique == \A r \in Accepted : UniqueId(r)

EnoughIds == IsFiniteSet(Requests) /\ Cardinality(Requests) <= MaxId + 1

Fresh ==
    LET n == Cardinality(Accepted) IN
    /\ \A r, q \in Accepted : r # q => sid[r] # sid[q]
    /\ n <= MaxId => /\ nextId = (IF n = MaxId THEN 0 ELSE n + 1)
                     /\ \A r \in Accepted : sid[r] \in 1..n

LEMMA InitFresh == Init => Fresh
<1> SUFFICES ASSUME Init PROVE Fresh
  OBVIOUS
<1>1. Accepted = {}
  BY DEF Init, Accepted
<1>2. Cardinality(Accepted) = 0
  BY <1>1, FS_EmptySet
<1>3. nextId = IF 0 = MaxId THEN 0 ELSE 0 + 1
  BY DEF Init, NextStreamId
<1> QED  BY <1>1, <1>2, <1>3 DEF Fresh

LEMMA NextFresh ==
    ASSUME EnoughIds, TypeOK, Fresh, [Next]_vars
    PROVE  Fresh'
<1> DEFINE n == Cardinality(Accepted)
<1>1. Accepted \subseteq Requests
  BY DEF Accepted
<1>2. IsFiniteSet(Accepted) /\ n \in Nat /\ MaxId \in Nat
  BY <1>1, FS_Subset, FS_CardinalityType, BoundAssumption DEF EnoughIds
<1>3. /\ \A r, q \in Accepted : r # q => sid[r] # sid[q]
      /\ n <= MaxId => /\ nextId = (IF n = MaxId THEN 0 ELSE n + 1)
                       /\ \A r \in Accepted : sid[r] \in 1..n
  BY DEF Fresh
<1>4. \A r \in Requests : Onward(r)
  BY OnwardStep
<1>5. CASE \E r \in Requests : Accept(r)
  <2>1. PICK r \in Requests : Accept(r)
    BY <1>5
  <2>2. /\ r \notin Accepted /\ Accepted' = Accepted \cup {r}
        /\ sid'[r] = nextId /\ nextId' = NextStreamId(nextId)
        /\ \A q \in Accepted : sid'[q] = sid[q]
    BY <2>1 DEF Accept, Accepted, TypeOK
  <2>3. Cardinality(Accepted)' = n + 1
    BY <1>2, <2>2, FS_AddElement
  <2>4. n <= MaxId
    <3>1. IsFiniteSet(Accepted \cup {r}) /\ Accepted \cup {r} \subseteq Requests
      BY <1>1, <1>2, FS_AddElement
    <3>2. Cardinality(Accepted \cup {r}) <= Cardinality(Requests)
      BY <3>1, FS_Subset DEF EnoughIds
    <3>3. n + 1 <= MaxId + 1
      BY <1>2, <2>2, <2>3, <3>2, FS_CardinalityType DEF EnoughIds
    <3> QED  BY <1>2, <3>3
  <2>5. nextId = (IF n = MaxId THEN 0 ELSE n + 1) /\ \A q \in Accepted : sid[q] \in 1..n
    BY <1>3, <2>4
  <2> HIDE DEF n
  <2>6. \A q \in Accepted : sid[q] # nextId
    BY <1>2, <2>4, <2>5
  <2>7. ASSUME n + 1 <= MaxId
        PROVE  /\ nextId' = IF n + 1 = MaxId THEN 0 ELSE n + 1 + 1
               /\ \A q \in Accepted \cup {r} : sid'[q] \in 1..(n + 1)
    BY <1>2, <2>2, <2>5, <2>7 DEF NextStreamId
  <2>8. \A q, s \in Accepted \cup {r} : q # s => sid'[q] # sid'[s]
    BY <1>3, <2>2, <2>6
  <2> QED  BY <2>2, <2>3, <2>7, <2>8 DEF Fresh
<1>6. CASE ~ \E r \in Requests : Accept(r)
  <2>1. \A r \in Requests : sid'[r] = sid[r] /\ (pc'[r] = "idle" <=> pc[r] = "idle")
    BY <1>4, <1>6 DEF Onward
  <2>2. Accepted' = Accepted
    BY <2>1 DEF Accepted
  <2>3. nextId' = nextId
    <3>1. ASSUME NEW r \in Requests,
                 Client(r) \/ Handler(r) \/ Forwarder(r) \/ Upstream(r) \/ Task(r)
          PROVE  nextId' = nextId
      <4>1. CASE Client(r)
        BY <1>6, <4>1 DEF Client, Collect, CollectFails, HangUp
      <4>2. CASE Handler(r)
        BY <4>2 DEF Handler, Register, SendHeaders, SendHeadersFails, SendBody, SendBodyFails,
                    SendEnd, AwaitHeaders, AwaitSkipsBody, AwaitFails, AwaitTimesOut, Cleanup,
                    handlerVars
      <4>3. CASE Forwarder(r)
        BY <4>3 DEF Forwarder, ForwardBody, ForwardToNobody, ForwardSkipsHeaders, ForwardEnds,
                    handlerVars
      <4>4. CASE Upstream(r) \/ Task(r)
        BY <4>4 DEF Upstream, UpstreamAnswers, UpstreamFails, Task, TaskSendsHeaders,
                    TaskSendsBody, TaskSendsError, TaskSendsEnd, TaskSendFails, handlerVars
      <4> QED  BY <3>1, <4>1, <4>2, <4>3, <4>4
    <3>2. CASE Reader \/ Serve \/ ServeExit
      BY <3>2 DEF Reader, ReaderRoutes, ReaderEnds, ReaderPongs, ReaderIgnores, Serve,
                  ServeHeaders, ServeBody, ServeEnd, ServePongs, ServeIgnores, ServeExit,
                  handlerVars
    <3>3. CASE SendPing \/ LinkFails \/ UNCHANGED vars
      BY <3>3 DEF SendPing, LinkFails, vars, handlerVars
    <3> QED  BY <3>1, <3>2, <3>3 DEF Next
  <2>4. \A r \in Accepted : sid'[r] = sid[r]
    BY <1>1, <2>1
  <2> QED  BY <1>3, <2>2, <2>3, <2>4 DEF Fresh
<1> QED  BY <1>5, <1>6

(* No two requests of a session share a stream id, until it has served as  *)
(* many as there are ids (stream_counter.fetch_add, proxy.rs:265; 2^32).   *)
THEOREM IdsDistinct == ASSUME EnoughIds PROVE Spec => []AllUnique
<1>1. Init => TypeOK /\ Fresh
  BY InitType, InitFresh
<1>2. TypeOK /\ Fresh /\ [Next]_vars => TypeOK' /\ Fresh'
  BY NextType, NextFresh
<1>3. Fresh => AllUnique
  BY DEF Fresh, AllUnique, Accepted, UniqueId
<1> QED  BY <1>1, <1>2, <1>3, PTL DEF Spec

-----------------------------------------------------------------------------
(***************************************************************************)
(* The mapping to HttpExchange.                                            *)
(***************************************************************************)
Phases == [r \in Requests |-> Phase(r)]
Calls == [r \in Requests |-> CallOf(r)]

LEMMA PhaseValues ==
    \A r \in Requests :
        /\ pc[r] \in {"idle", "collect"} => Phase(r) = "new"
        /\ pc[r] \in Waiting \ {"collect"} => Phase(r) = "open"
        /\ pc[r] = "answered" => Phase(r) = "refused"
        /\ pc[r] = "stream" => Phase(r) = "streaming"
        /\ pc[r] = "closed" => Phase(r) = "closed"
        /\ pc[r] \in {"gone", "orphan", "dropped"} => Phase(r) = "left"
BY DEF Phase, Waiting

LEMMA CallValues ==
    \A r \in Requests :
        /\ h[r] = "none" => CallOf(r) = "no"
        /\ h[r] \in {"upstream", "headers", "body", "dead"} => CallOf(r) = "made"
        /\ h[r] = "done" => CallOf(r) = "whole"
        /\ h[r] \in {"broken", "aborted"} => CallOf(r) = "cut"
BY DEF CallOf

(* The same after a step.                                                  *)
LEMMA PhaseValuesNext ==
    \A r \in Requests :
        /\ pc'[r] \in {"idle", "collect"} => Phase(r)' = "new"
        /\ pc'[r] \in Waiting \ {"collect"} => Phase(r)' = "open"
        /\ pc'[r] = "answered" => Phase(r)' = "refused"
        /\ pc'[r] = "stream" => Phase(r)' = "streaming"
        /\ pc'[r] = "closed" => Phase(r)' = "closed"
        /\ pc'[r] \in {"gone", "orphan", "dropped"} => Phase(r)' = "left"
BY DEF Phase, Waiting

LEMMA CallValuesNext ==
    \A r \in Requests :
        /\ h'[r] = "none" => CallOf(r)' = "no"
        /\ h'[r] \in {"upstream", "headers", "body", "dead"} => CallOf(r)' = "made"
        /\ h'[r] = "done" => CallOf(r)' = "whole"
        /\ h'[r] \in {"broken", "aborted"} => CallOf(r)' = "cut"
BY DEF CallOf

(* A step of the handler or the client of r: its phase alone may change.   *)
LEMMA PhaseStep ==
    ASSUME TypeOK, NEW r \in Requests, \A q \in Requests \ {r} : pc'[q] = pc[q]
    PROVE  /\ Phases' = [Phases EXCEPT ![r] = Phase(r)']
           /\ Phase(r)' = Phase(r) => Phases' = Phases
<1>1. \A q \in Requests \ {r} : Phase(q)' = Phase(q)
  BY DEF Phase
<1> QED  BY <1>1 DEF Phases

LEMMA CallStep ==
    ASSUME TypeOK, NEW r \in Requests, \A q \in Requests \ {r} : h'[q] = h[q]
    PROVE  /\ Calls' = [Calls EXCEPT ![r] = CallOf(r)']
           /\ CallOf(r)' = CallOf(r) => Calls' = Calls
<1>1. \A q \in Requests \ {r} : CallOf(q)' = CallOf(q)
  BY DEF CallOf
<1> QED  BY <1>1 DEF Calls

LEMMA SamePhases == pc' = pc => Phases' = Phases
BY DEF Phases, Phase

LEMMA SameCalls == h' = h => Calls' = Calls
BY DEF Calls, CallOf

Stutters == UNCHANGED <<Phases, reqLen, Calls, upBody, resSent, got>>

LEMMA StutterSteps ==
    ASSUME TypeOK, NEW r \in Requests,
           \/ Accept(r) \/ Register(r) \/ SendHeaders(r) \/ SendHeadersFails(r) \/ SendBody(r)
           \/ SendBodyFails(r) \/ SendEnd(r) \/ AwaitSkipsBody(r) \/ AwaitFails(r)
           \/ AwaitTimesOut(r) \/ ForwardToNobody(r) \/ ForwardSkipsHeaders(r)
           \/ UpstreamAnswers(r) \/ UpstreamFails(r) \/ TaskSendsHeaders(r) \/ TaskSendFails(r)
    PROVE  Stutters
<1> USE DEF handlerVars, clientVars, serveVars, taskVars
<1>1. UNCHANGED <<reqLen, upBody, resSent, got>>
  BY DEF Accept, Register, SendHeaders, SendHeadersFails, SendBody, SendBodyFails, SendEnd,
         AwaitSkipsBody, AwaitFails, AwaitTimesOut, ForwardToNobody, ForwardSkipsHeaders,
         UpstreamAnswers, UpstreamFails, TaskSendsHeaders, TaskSendFails
<1>2. CASE Accept(r) \/ Register(r) \/ SendHeaders(r) \/ SendHeadersFails(r) \/ SendBody(r)
           \/ SendBodyFails(r) \/ SendEnd(r) \/ AwaitSkipsBody(r) \/ AwaitFails(r)
           \/ AwaitTimesOut(r) \/ ForwardToNobody(r) \/ ForwardSkipsHeaders(r)
  <2>1. h' = h
    BY <1>2 DEF Accept, Register, SendHeaders, SendHeadersFails, SendBody, SendBodyFails,
                SendEnd, AwaitSkipsBody, AwaitFails, AwaitTimesOut, ForwardToNobody,
                ForwardSkipsHeaders
  <2>2. /\ \A q \in Requests \ {r} : pc'[q] = pc[q]
        /\ \/ {pc[r], pc'[r]} \subseteq {"idle", "collect"}
           \/ {pc[r], pc'[r]} \subseteq Waiting \ {"collect"}
           \/ {pc[r], pc'[r]} \subseteq {"gone", "orphan", "dropped"}
           \/ pc'[r] = pc[r]
    BY <1>2 DEF Accept, Register, SendHeaders, SendHeadersFails, SendBody, SendBodyFails,
                SendEnd, AwaitSkipsBody, AwaitFails, AwaitTimesOut, ForwardToNobody,
                ForwardSkipsHeaders, TypeOK, Waiting
  <2>3. Phase(r)' = Phase(r)
    <3>1. CASE pc'[r] = pc[r]
      BY <3>1 DEF Phase
    <3>2. CASE pc'[r] # pc[r]
      BY <2>2, <3>2, PhaseValues, PhaseValuesNext
    <3> QED  BY <3>1, <3>2
  <2> QED  BY <1>1, <2>1, <2>2, <2>3, PhaseStep, SameCalls DEF Stutters
<1>3. CASE \/ UpstreamAnswers(r) \/ UpstreamFails(r) \/ TaskSendsHeaders(r) \/ TaskSendFails(r)
  <2>1. pc' = pc
    BY <1>3 DEF UpstreamAnswers, UpstreamFails, TaskSendsHeaders, TaskSendFails
  <2>2. /\ \A q \in Requests \ {r} : h'[q] = h[q]
        /\ \/ {h[r], h'[r]} \subseteq {"upstream", "headers", "body", "dead"}
           \/ {h[r], h'[r]} \subseteq {"broken", "aborted"}
    <3>1. h \in [Requests -> {"none", "upstream"} \cup TaskSending \cup TaskOver]
      BY DEF TypeOK
    <3> QED  BY <1>3, <3>1 DEF UpstreamAnswers, UpstreamFails, TaskSendsHeaders, TaskSendFails,
                                TaskSending
  <2>3. CallOf(r)' = CallOf(r)
    BY <2>2, CallValues, CallValuesNext
  <2> QED  BY <1>1, <2>1, <2>2, <2>3, CallStep, SamePhases DEF Stutters
<1> QED  BY <1>2, <1>3

(* A step that moves the phase of r as an action of HttpExchange may.      *)
LEMMA ClientSteps ==
    ASSUME TypeOK, NEW r \in Requests,
           Collect(r) \/ CollectFails(r) \/ HangUp(r) \/ Cleanup(r)
    PROVE  Exchange!Open(r) \/ Exchange!Refuse(r) \/ Exchange!Leave(r)
<1> USE DEF handlerVars, clientVars, serveVars, taskVars
<1>1. /\ UNCHANGED <<upBody, resSent, got>> /\ Calls' = Calls
      /\ \A q \in Requests \ {r} : pc'[q] = pc[q]
  <2>1. /\ UNCHANGED <<upBody, resSent, got>> /\ h' = h
        /\ \A q \in Requests \ {r} : pc'[q] = pc[q]
    BY DEF Collect, CollectFails, HangUp, Cleanup, TypeOK
  <2> QED  BY <2>1, SameCalls
<1>2. Phases' = [Phases EXCEPT ![r] = Phase(r)'] /\ Phases[r] = Phase(r)
  BY <1>1, PhaseStep DEF Phases
<1>3. CASE Collect(r)
  <2>1. Phase(r) = "new" /\ Phase(r)' = "open"
    BY <1>3, PhaseValues, PhaseValuesNext DEF Collect, TypeOK, Waiting
  <2> QED  BY <1>1, <1>2, <1>3, <2>1 DEF Collect, Exchange!Open, Phases, Calls
<1>4. CASE CollectFails(r) \/ Cleanup(r)
  <2>1. Phase(r) \in {"new", "open"} /\ Phase(r)' = "refused" /\ reqLen' = reqLen
    BY <1>4, PhaseValues, PhaseValuesNext DEF CollectFails, Cleanup, TypeOK, Waiting
  <2> QED  BY <1>1, <1>2, <2>1 DEF Exchange!Refuse, Phases, Calls
<1>5. CASE HangUp(r)
  <2>1. Phase(r) \in {"new", "open", "streaming"} /\ Phase(r)' = "left" /\ reqLen' = reqLen
    BY <1>5, PhaseValues, PhaseValuesNext DEF HangUp, TypeOK, Waiting
  <2> QED  BY <1>1, <1>2, <2>1 DEF Exchange!Leave, Phases, Calls
<1> QED  BY <1>3, <1>4, <1>5

(* What reaches the client: OrderInv, before and after the step, says that *)
(* it is the upstream's, in order and no more than was produced.           *)
LEMMA ForwardSteps ==
    ASSUME TypeOK, TypeOK', NEW r \in Requests, ResOrder(r)', ResOrder(r),
           AwaitHeaders(r) \/ ForwardBody(r) \/ ForwardEnds(r)
    PROVE  Exchange!Respond(r) \/ Exchange!Deliver(r) \/ Exchange!Close(r) \/ Stutters
<1> USE DEF handlerVars, clientVars, serveVars, taskVars
<1>1. /\ UNCHANGED <<reqLen, upBody, resSent, h>> /\ Calls' = Calls
      /\ \A q \in Requests \ {r} : pc'[q] = pc[q]
  <2>1. /\ UNCHANGED <<reqLen, upBody, resSent, h>>
        /\ \A q \in Requests \ {r} : pc'[q] = pc[q]
    <3>1. UNCHANGED <<reqLen, upBody, resSent, h>>
      BY DEF AwaitHeaders, ForwardBody, ForwardEnds
    <3>2. \/ pc' = pc \/ pc' = [pc EXCEPT ![r] = "stream"]
          \/ pc' = [pc EXCEPT ![r] = IF @ = "stream" THEN "closed" ELSE "dropped"]
      BY DEF AwaitHeaders, ForwardBody, ForwardEnds
    <3>3. pc \in [Requests -> {"idle"} \cup Waiting \cup Forwarding \cup Finished]
      BY DEF TypeOK
    <3>4. \A q \in Requests \ {r} : pc'[q] = pc[q]
      BY <3>2, <3>3
    <3> QED  BY <3>1, <3>4
  <2> QED  BY <2>1, SameCalls
<1>2. /\ Phases' = [Phases EXCEPT ![r] = Phase(r)'] /\ Phases[r] = Phase(r)
      /\ Phase(r)' = Phase(r) => Phases' = Phases
  BY <1>1, PhaseStep DEF Phases
<1>3. CASE AwaitHeaders(r)
  <2>1. pc[r] = "await" /\ pc'[r] = "stream" /\ got' = got
    BY <1>3 DEF AwaitHeaders, TypeOK
  <2>2. Phase(r) = "open" /\ Phase(r)' = "streaming"
    BY <2>1, PhaseValues, PhaseValuesNext DEF Waiting
  <2>3. h[r] \notin Unanswered
    BY <1>1, <2>1 DEF ResOrder, Forwarding
  <2>4. CallOf(r) # "no"
    <3>1. h[r] \in {"body", "dead", "done", "broken", "aborted"}
      BY <2>3 DEF Unanswered, TypeOK, TaskSending, TaskOver
    <3> QED  BY <3>1, CallValues
  <2> QED  BY <1>1, <1>2, <2>1, <2>2, <2>4 DEF Exchange!Respond, Phases, Calls
<1>4. CASE ForwardBody(r)
  <2>1. /\ pc[r] = "stream" /\ pc' = pc
        /\ \E e : got' = [got EXCEPT ![r] = Append(@, e)]
    BY <1>4 DEF ForwardBody
  <2>2. Phase(r) = "streaming" /\ Phase(r)' = Phase(r)
    BY <2>1, PhaseValues, PhaseValuesNext
  <2>3. PICK e : got' = [got EXCEPT ![r] = Append(@, e)]
    BY <2>1
  <2>4. Len(got[r]) \in Nat /\ got[r] \in Seq(Chunk)
    BY LenProperties DEF TypeOK
  <2>5. got'[r] = Append(got[r], e)
    BY <2>3 DEF TypeOK
  <2>6. Len(got'[r]) = Len(got[r]) + 1 /\ got'[r][Len(got[r]) + 1] = e
    BY <2>4, <2>5
  <2>7. got'[r] = Chunks(r, Len(got[r]) + 1) /\ Len(got[r]) + 1 <= resSent[r]
    BY <1>1, <2>6 DEF ResOrder
  <2>8. e = <<r, Len(got[r]) + 1>>
    BY <2>4, <2>6, <2>7 DEF Chunks
  <2>9. Len(got[r]) < resSent[r] /\ got' = [got EXCEPT ![r] = Append(@, <<r, Len(@) + 1>>)]
    <3>1. resSent[r] \in Nat
      BY DEF TypeOK
    <3> QED  BY <2>3, <2>4, <2>7, <2>8, <3>1
  <2> QED  BY <1>1, <1>2, <2>2, <2>9 DEF Exchange!Deliver, Phases, Calls
<1>5. CASE ForwardEnds(r)
  <2>1. got' = got /\ \/ pc[r] = "stream" /\ pc'[r] = "closed"
                      \/ pc[r] = "orphan" /\ pc'[r] = "dropped"
    BY <1>5 DEF ForwardEnds, TypeOK, Forwarding
  <2>2. CASE pc[r] = "stream" /\ pc'[r] = "closed"
    <3>1. Phase(r) = "streaming" /\ Phase(r)' = "closed"
      BY <2>2, PhaseValues, PhaseValuesNext
    <3>2. \/ h[r] = "done" /\ Len(got[r]) = resSent[r]
          \/ h[r] \in {"broken", "aborted"}
      BY <1>1, <2>1, <2>2 DEF ResOrder
    <3>3. \/ CallOf(r) = "whole" /\ Len(got[r]) = resSent[r]
          \/ CallOf(r) = "cut"
      BY <3>2, CallValues
    <3> QED  BY <1>1, <1>2, <2>1, <3>1, <3>3 DEF Exchange!Close, Phases, Calls
  <2>3. CASE pc[r] = "orphan" /\ pc'[r] = "dropped"
    <3>1. Phase(r)' = Phase(r)
      BY <2>3, PhaseValues, PhaseValuesNext
    <3> QED  BY <1>1, <1>2, <2>1, <3>1 DEF Stutters
  <2> QED  BY <2>1, <2>2, <2>3
<1> QED  BY <1>3, <1>4, <1>5

(* The task of handle_request, from the upstream's headers on.             *)
LEMMA UpstreamSteps ==
    ASSUME TypeOK, NEW r \in Requests,
           TaskSendsBody(r) \/ TaskSendsError(r) \/ TaskSendsEnd(r)
    PROVE  Exchange!Produce(r) \/ Exchange!Finish(r) \/ Stutters
<1> USE DEF handlerVars, clientVars, serveVars, taskVars
<1>1. /\ UNCHANGED <<reqLen, upBody, got>> /\ Phases' = Phases
      /\ \A q \in Requests \ {r} : h'[q] = h[q]
  <2>1. /\ UNCHANGED <<reqLen, upBody, got>> /\ pc' = pc
        /\ \A q \in Requests \ {r} : h'[q] = h[q]
    BY DEF TaskSendsBody, TaskSendsError, TaskSendsEnd, TypeOK
  <2> QED  BY <2>1, SamePhases
<1>2. /\ Calls' = [Calls EXCEPT ![r] = CallOf(r)'] /\ Calls[r] = CallOf(r)
      /\ CallOf(r)' = CallOf(r) => Calls' = Calls
  BY <1>1, CallStep DEF Calls
<1>3. CASE TaskSendsBody(r)
  <2>1. h[r] = "body" /\ h' = h /\ resSent' = [resSent EXCEPT ![r] = @ + 1]
    BY <1>3 DEF TaskSendsBody
  <2>2. CallOf(r) = "made" /\ CallOf(r)' = CallOf(r)
    BY <2>1, CallValues, CallValuesNext
  <2> QED  BY <1>1, <1>2, <2>1, <2>2 DEF Exchange!Produce, Phases, Calls
<1>4. CASE TaskSendsError(r) \/ TaskSendsEnd(r)
  <2>1. resSent' = resSent /\ \/ h[r] = "body" /\ h'[r] \in {"broken", "done"}
                              \/ h[r] = "broken" /\ h'[r] = "aborted"
    BY <1>4 DEF TaskSendsError, TaskSendsEnd, TypeOK
  <2>2. CASE h[r] = "body" /\ h'[r] \in {"broken", "done"}
    <3>1. CallOf(r) = "made" /\ CallOf(r)' \in {"whole", "cut"}
      BY <2>2, CallValues, CallValuesNext
    <3> QED  BY <1>1, <1>2, <2>1, <3>1 DEF Exchange!Finish, Phases, Calls
  <2>3. CASE h[r] = "broken" /\ h'[r] = "aborted"
    <3>1. CallOf(r)' = CallOf(r)
      BY <2>3, CallValues, CallValuesNext
    <3> QED  BY <1>1, <1>2, <2>1, <3>1 DEF Stutters
  <2> QED  BY <2>1, <2>2, <2>3
<1> QED  BY <1>3, <1>4

(* The upstream is called: with the whole body, and for no request that    *)
(* had been called before, whose ReqEnd is the last frame of its stream.   *)
LEMMA ServeCalls ==
    ASSUME TypeOK, NEW r \in Requests, ReqOrder(r), UniqueId(r),
           toServe # <<>>, Head(toServe) \in ReqFrames(r), Head(toServe).type = "ReqEnd",
           srvReq[sid[r]] = r, h' = [h EXCEPT ![r] = "upstream"],
           upBody' = [upBody EXCEPT ![r] = srvBody[sid[r]]],
           UNCHANGED <<pc, reqLen, resSent, got>>
    PROVE  Exchange!Call(r)
<1> DEFINE f == Head(toServe)
           b == srvBody[sid[r]]
<1>1. /\ toServe \in Seq(Frame) /\ f \in Frame /\ reqLen[r] \in Nat
      /\ ReqPos(r) \in [Frame -> Nat] /\ ReqTaken(r) \in Nat /\ ReqSent(r) \in Nat
  <2>1. toServe \in Seq(Frame) /\ f \in Frame /\ reqLen[r] \in Nat
    BY DEF TypeOK, ReqFrames
  <2> QED  BY <2>1, PositionTypes
<1>2. ReqPos(r)[f] = ReqTaken(r) + 1 /\ ReqTaken(r) + 1 <= ReqSent(r)
  <2>1. InLine(toServe, ReqFrames(r), ReqPos(r), ReqTaken(r), ReqSent(r))
    BY DEF ReqOrder
  <2> QED  BY <1>1, <2>1, TailNext
<1>3. ReqPos(r)[f] = reqLen[r] + 2
  BY <1>1, ReqPosition
<1>4. h[r] = "none"
  <2>1. h[r] # "none" => ReqTaken(r) = reqLen[r] + 2
    BY DEF ReqTaken
  <2> QED  BY <1>1, <1>2, <1>3, <2>1
<1>5. pc[r] \notin Early
  <2>1. pc[r] \in Early => ReqSent(r) = 0
    BY DEF ReqSent, Early
  <2> QED  BY <1>1, <1>2, <2>1
<1>6. Phase(r) # "new"
  BY <1>5, PhaseValues DEF Early, Waiting, Finished, Forwarding, TypeOK
<1>7. b = Chunks(r, reqLen[r])
  <2>1. ReqTaken(r) = Len(b) + 1 /\ b = Chunks(r, Len(b))
    BY <1>4 DEF ReqTaken, ReqOrder
  <2>2. Len(b) \in Nat
    BY LenProperties DEF TypeOK
  <2>3. Len(b) = reqLen[r]
    BY <1>1, <1>2, <1>3, <2>1, <2>2
  <2> QED  BY <2>1, <2>3
<1>8. CallOf(r) = "no" /\ CallOf(r)' = "made" /\ Calls' = [Calls EXCEPT ![r] = CallOf(r)']
  <2>1. h'[r] = "upstream" /\ \A q \in Requests \ {r} : h'[q] = h[q]
    BY DEF TypeOK
  <2> QED  BY <1>4, <2>1, CallValues, CallValuesNext, CallStep
<1> QED  BY <1>6, <1>7, <1>8, SamePhases DEF Exchange!Call, Phases, Calls, Chunks

LEMMA ServeSteps ==
    ASSUME TypeOK, RoutedById, OrderInv, AllUnique, Serve
    PROVE  (\E r \in Requests : Exchange!Call(r)) \/ Stutters
<1> USE DEF handlerVars, clientVars, serveVars, taskVars
<1>1. /\ UNCHANGED <<reqLen, resSent, got, pc, sid>> /\ Phases' = Phases
  BY SamePhases
     DEF Serve, ServeHeaders, ServeBody, ServeEnd, ServePongs, ServeIgnores
<1>2. CASE UNCHANGED <<h, upBody>>
  BY <1>1, <1>2, SameCalls DEF Stutters
<1>3. CASE ~ UNCHANGED <<h, upBody>>
  <2> DEFINE f == Head(toServe)
             r == srvReq[f.id]
  <2>1. /\ ServeNext({"ReqEnd"}) /\ r # NoReq
        /\ h' = [h EXCEPT ![r] = "upstream"] /\ upBody' = [upBody EXCEPT ![r] = srvBody[f.id]]
    BY <1>3 DEF Serve, ServeHeaders, ServeBody, ServeEnd, ServePongs, ServeIgnores
  <2>2. toServe # <<>> /\ f.type = "ReqEnd" /\ f \in OwnFrame
    BY <2>1, SequenceTypes DEF ServeNext, RoutedById
  <2>3. f \in Frame /\ f.id \in Ids /\ f.req \in On(f.id) /\ r \in On(f.id)
    <3>1. f \in Frame /\ f.id \in Ids
      BY <2>2 DEF OwnFrame, Frame
    <3>2. r \in On(f.id) \cup {NoReq}
      BY <3>1 DEF RoutedById, IdRouted
    <3>3. f.req \in On(f.id)
      BY <2>2 DEF OwnFrame, KeepaliveTypes
    <3> QED  BY <2>1, <3>1, <3>2, <3>3
  <2>4. r \in Requests /\ UniqueId(r) /\ sid[r] = f.id
    BY <2>3 DEF On, AllUnique, Accepted
  <2>5. f.req = r
    BY <2>3, <2>4 DEF On, UniqueId
  <2> HIDE DEF f, r
  <2>6. f \in ReqFrames(r)
    BY <2>2, <2>3, <2>5 DEF ReqFrames, ReqTypes
  <2>7. srvReq[sid[r]] = r /\ f = Head(toServe) /\ upBody' = [upBody EXCEPT ![r] = srvBody[sid[r]]]
    BY <2>1, <2>4 DEF f, r
  <2>8. ReqOrder(r)
    BY <2>4 DEF OrderInv
  <2>9. Exchange!Call(r)
    BY <1>1, <2>1, <2>2, <2>4, <2>6, <2>7, <2>8, ServeCalls
  <2> QED  BY <2>4, <2>9
<1> QED  BY <1>2, <1>3

LEMMA MapsInit == Init => Exchange!Init
<1> SUFFICES ASSUME Init PROVE Exchange!Init
  OBVIOUS
<1>1. \A r \in Requests : Phase(r) = "new" /\ CallOf(r) = "no"
  BY PhaseValues, CallValues DEF Init
<1> QED  BY <1>1 DEF Init, Exchange!Init

LEMMA MapsNext ==
    ASSUME TypeOK, TypeOK', RoutedById, OrderInv, OrderInv', AllUnique, AllUnique', [Next]_vars
    PROVE  [Exchange!Next]_(Exchange!vars)
<1> USE DEF handlerVars, clientVars, serveVars, taskVars
<1>1. Stutters => UNCHANGED Exchange!vars
  BY DEF Stutters, Exchange!vars, Phases, Calls
<1>2. CASE Reader \/ ServeExit \/ SendPing \/ LinkFails \/ UNCHANGED vars
  <2>1. UNCHANGED <<pc, h, reqLen, upBody, resSent, got>>
    BY <1>2 DEF Reader, ReaderRoutes, ReaderEnds, ReaderPongs, ReaderIgnores, ServeExit,
                SendPing, LinkFails, vars
  <2> QED  BY <1>1, <2>1, SamePhases, SameCalls DEF Stutters
<1>3. CASE Serve
  BY <1>1, <1>3, ServeSteps DEF Exchange!Next
<1>4. ASSUME NEW r \in Requests,
             Client(r) \/ Handler(r) \/ Forwarder(r) \/ Upstream(r) \/ Task(r)
      PROVE  [Exchange!Next]_(Exchange!vars)
  <2>1. CASE Collect(r) \/ CollectFails(r) \/ HangUp(r) \/ Cleanup(r)
    BY <2>1, ClientSteps DEF Exchange!Next
  <2>2. CASE AwaitHeaders(r) \/ ForwardBody(r) \/ ForwardEnds(r)
    <3>1. /\ pc[r] # "idle" /\ sid' = sid
          /\ \A q \in Requests : pc'[q] = "idle" <=> pc[q] = "idle"
      <4>1. sid' = sid /\ pc[r] # "idle"
        BY <2>2 DEF AwaitHeaders, ForwardBody, ForwardEnds, Forwarding
      <4>2. \/ pc' = pc \/ pc' = [pc EXCEPT ![r] = "stream"]
            \/ pc' = [pc EXCEPT ![r] = IF @ = "stream" THEN "closed" ELSE "dropped"]
        BY <2>2 DEF AwaitHeaders, ForwardBody, ForwardEnds
      <4>3. pc \in [Requests -> {"idle"} \cup Waiting \cup Forwarding \cup Finished]
        BY DEF TypeOK
      <4> QED  BY <4>1, <4>2, <4>3
    <3>2. UniqueId(r) /\ UniqueId(r)'
      BY <3>1 DEF AllUnique, Accepted
    <3>3. ResOrder(r) /\ ResOrder(r)'
      BY <3>2 DEF OrderInv
    <3> QED  BY <1>1, <2>2, <3>3, ForwardSteps DEF Exchange!Next
  <2>3. CASE TaskSendsBody(r) \/ TaskSendsError(r) \/ TaskSendsEnd(r)
    BY <1>1, <2>3, UpstreamSteps DEF Exchange!Next
  <2>4. CASE \/ Accept(r) \/ Register(r) \/ SendHeaders(r) \/ SendHeadersFails(r) \/ SendBody(r)
             \/ SendBodyFails(r) \/ SendEnd(r) \/ AwaitSkipsBody(r) \/ AwaitFails(r)
             \/ AwaitTimesOut(r) \/ ForwardToNobody(r) \/ ForwardSkipsHeaders(r)
             \/ UpstreamAnswers(r) \/ UpstreamFails(r) \/ TaskSendsHeaders(r) \/ TaskSendFails(r)
    BY <1>1, <2>4, StutterSteps
  <2> QED  BY <1>4, <2>1, <2>2, <2>3, <2>4 DEF Client, Handler, Forwarder, Upstream, Task
<1> QED  BY <1>2, <1>3, <1>4 DEF Next

(* Multiplexing, lost links, time-outs and hang-ups add nothing a client   *)
(* or an upstream could tell from independent exchanges, as long as no two *)
(* requests share a stream id (proxy.rs:252-397, serve.rs:100-290).        *)
THEOREM TunnelIsExchanges == Spec /\ []AllUnique => ExchangeSpec
<1>1. Init => TypeOK /\ RoutedById /\ OrderInv
  BY InitType, InitRouted, InitOrder
<1>2. TypeOK /\ RoutedById /\ OrderInv /\ [Next]_vars => TypeOK' /\ RoutedById' /\ OrderInv'
  BY NextType, NextRouted, NextOrder
<1>3. Init => Exchange!Init
  BY MapsInit
<1>4. TypeOK /\ TypeOK' /\ RoutedById /\ OrderInv /\ OrderInv' /\ AllUnique /\ AllUnique'
          /\ [Next]_vars => [Exchange!Next]_(Exchange!vars)
  BY MapsNext
<1> QED  BY <1>1, <1>2, <1>3, <1>4, PTL DEF Spec, ExchangeSpec, Exchange!Spec

(* So they are while the session has served no more requests than there    *)
(* are stream ids.                                                         *)
THEOREM ExchangeHolds == ASSUME EnoughIds PROVE Spec => ExchangeSpec
BY IdsDistinct, TunnelIsExchanges, PTL

-----------------------------------------------------------------------------
(***************************************************************************)
(* Map entries.  An entry of pending goes with the End or the Error of its *)
(* response, or when its handler gives up; one of pending_requests with    *)
(* the ReqEnd.  So the invariant says which frames an entry can still      *)
(* count on.                                                               *)
(***************************************************************************)
(* The frames of S under way in q.                                         *)
Under(q, S) == {f \in S : \E k \in 1..Len(q) : q[k] = f}

LEMMA UnderWay ==
    ASSUME NEW q \in Seq(Frame), NEW S
    PROVE  /\ \A f \in Frame \ S : Under(Append(q, f), S) = Under(q, S)
           /\ \A f \in Frame : f \in S => Under(Append(q, f), S) = Under(q, S) \cup {f}
           /\ \A w : Moves(q, w, S) => Under(w, S) = Under(q, S)
           /\ \A w : Cut(q, w) => Under(w, S) \subseteq Under(q, S)
           /\ q # <<>> => /\ Under(Tail(q), S) \subseteq Under(q, S)
                          /\ Under(q, S) \subseteq Under(Tail(q), S) \cup {Head(q)}
<1>1. ASSUME NEW f \in Frame
      PROVE  \A e : (\E k \in 1..Len(Append(q, f)) : Append(q, f)[k] = e) <=>
                    e = f \/ \E k \in 1..Len(q) : q[k] = e
  <2> DEFINE w == Append(q, f)
  <2>1. /\ Len(w) = Len(q) + 1 /\ Len(q) \in Nat
        /\ \A k \in 1..Len(q) : w[k] = q[k]
        /\ w[Len(q) + 1] = f
    BY AppendProperties, LenProperties
  <2> HIDE DEF w
  <2> QED  BY <2>1 DEF w
<1>2. ASSUME q # <<>>
      PROVE  \A e : (\E k \in 1..Len(q) : q[k] = e) <=>
                    e = Head(q) \/ \E k \in 1..Len(Tail(q)) : Tail(q)[k] = e
  <2> DEFINE w == Tail(q)
  <2>1. /\ Len(q) \in Nat /\ Len(q) >= 1 /\ Len(w) = Len(q) - 1 /\ Head(q) = q[1]
        /\ \A k \in 1..(Len(q) - 1) : w[k] = q[k + 1]
    BY <1>2, HeadTailProperties, LenProperties, EmptySeq
  <2> HIDE DEF w
  <2>2. ASSUME NEW k \in 1..Len(q)
        PROVE  q[k] = Head(q) \/ \E l \in 1..Len(w) : w[l] = q[k]
    <3>1. CASE k = 1
      BY <2>1, <3>1
    <3>2. CASE k # 1
      <4>1. k - 1 \in 1..(Len(q) - 1) /\ (k - 1) + 1 = k
        BY <2>1, <3>2
      <4> QED  BY <2>1, <4>1
    <3> QED  BY <3>1, <3>2
  <2>3. ASSUME NEW l \in 1..Len(w) PROVE \E k \in 1..Len(q) : q[k] = w[l]
    <3>1. l \in 1..(Len(q) - 1) /\ l + 1 \in 1..Len(q)
      BY <2>1
    <3> QED  BY <2>1, <3>1
  <2>4. 1 \in 1..Len(q)
    BY <2>1
  <2> QED  BY <2>1, <2>2, <2>3, <2>4 DEF w
<1>3. ASSUME NEW w, Cut(q, w), NEW e, \E k \in 1..Len(w) : w[k] = e
      PROVE  \E k \in 1..Len(q) : q[k] = e
  <2>1. PICK i \in 0..Len(q) : w = SubSeq(q, 1, i)
    BY <1>3 DEF Cut
  <2>2. Len(q) \in Nat /\ Len(w) = i /\ \A k \in 1..i : w[k] = q[k]
    BY <2>1, SubSeqProperties, LenProperties
  <2> QED  BY <1>3, <2>2
<1>4. \A f \in Frame : /\ f \notin S => Under(Append(q, f), S) = Under(q, S)
                       /\ f \in S => Under(Append(q, f), S) = Under(q, S) \cup {f}
  BY <1>1 DEF Under
<1>5. q # <<>> => /\ Under(Tail(q), S) \subseteq Under(q, S)
                  /\ Under(q, S) \subseteq Under(Tail(q), S) \cup {Head(q)}
                  /\ Head(q) \notin S => Under(Tail(q), S) = Under(q, S)
  BY <1>2 DEF Under
<1>6. \A w : Cut(q, w) => Under(w, S) \subseteq Under(q, S)
  BY <1>3 DEF Under
<1>7. ASSUME NEW w, Moves(q, w, S) PROVE Under(w, S) = Under(q, S)
  <2>1. CASE w = q
    BY <2>1
  <2>2. CASE \E f \in Frame \ S : w = Append(q, f)
    BY <1>4, <2>2
  <2>3. CASE q # <<>> /\ Head(q) \notin S /\ w = Tail(q)
    BY <1>5, <2>3
  <2> QED  BY <1>7, <2>1, <2>2, <2>3 DEF Moves
<1> QED  BY <1>4, <1>5, <1>6, <1>7

(* Where nothing was sent, or all of it.                                   *)
AllSent == {"await", "timedOut", "failed", "answered"}
Unsent(r) == ReqTaken(r) = 0 /\ Under(toServe, ReqFrames(r)) = {}

Asked(r) ==
    /\ h[r] # "none" => srvReq[sid[r]] # r
    /\ srvReq[sid[r]] = r => Len(srvBody[sid[r]]) <= reqLen[r]
    /\ \A f \in Under(toServe, ReqFrames(r)) : f.type = "ReqBody" => f.n <= reqLen[r]
    /\ link = "up" /\ pc[r] \in AllSent =>
          \/ Unsent(r)
          \/ Full(toServe, ReqFrames(r), ReqPos(r), ReqTaken(r), reqLen[r] + 2)

(* Before its task has sent anything, and where it died at the headers.    *)
Unheard(r) == h[r] \in Unanswered \/ (h[r] = "dead" /\ link = "up")

Replied(r) ==
    /\ Unheard(r) => /\ Under(toProxy, ResFrames(r)) = {} /\ events[r] = <<>>
                     /\ pc[r] \notin Forwarding \cup {"closed", "dropped"}
    /\ link = "up" /\ pending[sid[r]] = r /\ h[r] \in {"done", "aborted"} =>
          \E f \in Under(toProxy, ResFrames(r)) : f.type = "ResEnd"
    /\ pc[r] \in {"collect", "register", "answered"} => pending[sid[r]] # r

LeakInv == \A r \in Requests : UniqueId(r) => Asked(r) /\ Replied(r)

LEMMA FrameSets ==
    ASSUME TypeOK, NEW r \in Requests
    PROVE  /\ toServe \in Seq(Frame) /\ toProxy \in Seq(Frame)
           /\ ReqFrames(r) \subseteq Frame /\ ResFrames(r) \subseteq Frame
BY DEF TypeOK, ReqFrames, ResFrames

(* A handler that has sent nothing has nothing under way.                  *)
LEMMA EarlyUnsent ==
    ASSUME TypeOK, NEW r \in Requests, ReqOrder(r), pc[r] \in Early
    PROVE  Unsent(r) /\ h[r] = "none" /\ srvReq[sid[r]] # r
<1>1. /\ ReqPos(r) \in [Frame -> Nat] /\ ReqTaken(r) \in Nat /\ reqLen[r] \in Nat
      /\ Len(srvBody[sid[r]]) \in Nat
  <2>1. reqLen[r] \in Nat /\ srvBody[sid[r]] \in Seq(Chunk)
    BY DEF TypeOK
  <2> QED  BY <2>1, PositionTypes, LenProperties
<1>2. InLine(toServe, ReqFrames(r), ReqPos(r), ReqTaken(r), 0)
  <2>1. ReqSent(r) = 0
    BY DEF ReqSent, Early
  <2> QED  BY <2>1 DEF ReqOrder
<1>3. ReqTaken(r) = 0
  BY <1>1, <1>2 DEF InLine
<1>4. Under(toServe, ReqFrames(r)) = {}
  <2> SUFFICES ASSUME NEW f \in ReqFrames(r), NEW k \in 1..Len(toServe), toServe[k] = f
               PROVE  FALSE
    BY DEF Under
  <2>1. 0 < ReqPos(r)[f] /\ ReqPos(r)[f] <= 0
    BY <1>2, <1>3 DEF InLine, InPlace
  <2>2. ReqPos(r)[f] \in Nat
    BY <1>1, FrameSets
  <2> QED  BY <2>1, <2>2
<1>5. h[r] = "none"
  BY <1>1, <1>3 DEF ReqTaken
<1>6. srvReq[sid[r]] # r
  BY <1>1, <1>3, <1>5 DEF ReqTaken
<1> QED  BY <1>3, <1>4, <1>5, <1>6 DEF Unsent

(* Steps that are not about r.                                             *)
LEMMA OtherLeak ==
    ASSUME TypeOK, NEW r \in Requests, Other(r)
    PROVE  (Asked(r) => Asked(r)') /\ (Replied(r) => Replied(r)')
<1>1. /\ toServe \in Seq(Frame) /\ toProxy \in Seq(Frame)
      /\ ReqPos(r) \in [Frame -> Nat] /\ ReqTaken(r) \in Nat /\ reqLen[r] + 2 \in Nat
  <2>1. reqLen[r] \in Nat
    BY DEF TypeOK
  <2> QED  BY <2>1, FrameSets, PositionTypes
<1>2. ReqPos(r)' = ReqPos(r) /\ ReqTaken(r)' = ReqTaken(r)
  BY DEF Other, ReqPos, ReqTaken
<1>3. \/ link' = "down"
      \/ link' = link /\ Moves(toServe, toServe', ReqFrames(r))
                      /\ Moves(toProxy, toProxy', ResFrames(r))
  BY DEF Other
<1>4. /\ Under(toServe', ReqFrames(r)) \subseteq Under(toServe, ReqFrames(r))
      /\ Under(toProxy', ResFrames(r)) \subseteq Under(toProxy, ResFrames(r))
      /\ link' = "up" => /\ Under(toServe', ReqFrames(r)) = Under(toServe, ReqFrames(r))
                         /\ Under(toProxy', ResFrames(r)) = Under(toProxy, ResFrames(r))
  <2>1. CASE Moves(toServe, toServe', ReqFrames(r)) /\ Moves(toProxy, toProxy', ResFrames(r))
    BY <1>1, <2>1, UnderWay
  <2>2. CASE link' = "down" /\ Cut(toServe, toServe') /\ Cut(toProxy, toProxy')
    BY <1>1, <2>2, UnderWay
  <2> QED  BY <2>1, <2>2 DEF Other
<1>5. ASSUME Asked(r) PROVE Asked(r)'
  <2>1. link' = "up" /\ Full(toServe, ReqFrames(r), ReqPos(r), ReqTaken(r), reqLen[r] + 2) =>
            Full(toServe', ReqFrames(r), ReqPos(r), ReqTaken(r), reqLen[r] + 2)
    BY <1>1, <1>3, MovesInLine
  <2>2. link' = "up" => link = "up"
    BY <1>3
  <2>3. link' = "up" /\ Unsent(r) => Unsent(r)'
    BY <1>2, <1>4 DEF Unsent
  <2> HIDE DEF Full, Unsent
  <2> QED  BY <1>2, <1>4, <1>5, <2>1, <2>2, <2>3 DEF Asked, Other
<1>6. ASSUME Replied(r) PROVE Replied(r)'
  <2>1. link' = "up" => link = "up"
    BY <1>3
  <2>2. Unheard(r)' => Unheard(r)
    BY <2>1 DEF Unheard, Other
  <2> QED  BY <1>4, <1>6, <2>1, <2>2 DEF Replied, Other
<1> QED  BY <1>5, <1>6

-----------------------------------------------------------------------------
(* Steps of r that put nothing into its queue to the serve side.           *)
LEMMA AskedIdle ==
    ASSUME TypeOK, NEW r \in Requests, ReqOrder(r), Asked(r),
           UNCHANGED <<sid, link, srvReq, srvBody, toServe>>,
           h'[r] = "none" <=> h[r] = "none",
           reqLen'[r] = reqLen[r] \/ (pc[r] \in Early /\ pc'[r] \notin AllSent),
           pc'[r] \in AllSent => pc[r] \in AllSent \cup Early
    PROVE  Asked(r)'
<1>1. ReqTaken(r)' = ReqTaken(r) \/ reqLen'[r] # reqLen[r]
  BY DEF ReqTaken
<1>2. CASE pc[r] \in Early
  <2>1. Unsent(r) /\ h[r] = "none" /\ srvReq[sid[r]] # r
    BY <1>2, EarlyUnsent
  <2>2. ReqTaken(r)' = 0
    BY <2>1 DEF ReqTaken
  <2>3. Unsent(r)'
    BY <2>1, <2>2 DEF Unsent
  <2> QED  BY <2>1, <2>3 DEF Asked, Unsent
<1>3. CASE pc[r] \notin Early
  <2>1. ReqPos(r)' = ReqPos(r) /\ ReqTaken(r)' = ReqTaken(r) /\ reqLen'[r] = reqLen[r]
    BY <1>1, <1>3 DEF ReqPos
  <2>2. Unsent(r) => Unsent(r)'
    BY <2>1 DEF Unsent
  <2> HIDE DEF Full, Unsent
  <2> QED  BY <1>3, <2>1, <2>2 DEF Asked
<1> QED  BY <1>2, <1>3

(* Steps of r that send a frame of its request, not the last.              *)
LEMMA AskedSends ==
    ASSUME TypeOK, NEW r \in Requests, Asked(r), NEW f \in ReqFrames(r),
           UNCHANGED <<sid, link, srvReq, srvBody, h, reqLen>>,
           toServe' = Put(toServe, f), f.type = "ReqBody" => f.n <= reqLen[r],
           pc'[r] \notin AllSent
    PROVE  Asked(r)'
<1>1. Under(toServe', ReqFrames(r)) \subseteq Under(toServe, ReqFrames(r)) \cup {f}
  <2>1. toServe \in Seq(Frame) /\ f \in Frame
    BY FrameSets
  <2> QED  BY <2>1, UnderWay DEF Put
<1> QED  BY <1>1 DEF Asked

LEMMA AskedEnds ==
    ASSUME TypeOK, NEW r \in Requests, ReqOrder(r), Asked(r), SendEnd(r)
    PROVE  Asked(r)'
<1> USE DEF handlerVars, clientVars, serveVars, taskVars
<1> DEFINE f == FrameOf("ReqEnd", r, 0)
           S == ReqFrames(r)
           P == ReqPos(r)
<1>1. /\ UNCHANGED <<sid, link, srvReq, srvBody, h, reqLen>> /\ toServe' = Put(toServe, f)
      /\ pc[r] \in {"sendBody", "sendEnd"} /\ pc'[r] = "await"
      /\ pc[r] = "sendBody" => sent[r] = reqLen[r]
  BY DEF SendEnd, TypeOK
<1>2. f \in Frame /\ f \in S /\ f.type = "ReqEnd"
  BY FrameOfType DEF FrameOf, ReqTypes, ReqFrames
<1>3. P[f] = reqLen[r] + 2 /\ reqLen[r] \in Nat
  BY <1>2, ReqPosition DEF TypeOK
<1>4. /\ toServe \in Seq(Frame) /\ P \in [Frame -> Nat] /\ ReqTaken(r) \in Nat
      /\ ReqPos(r)' = P /\ ReqTaken(r)' = ReqTaken(r)
  BY <1>1, FrameSets, PositionTypes DEF ReqPos, ReqTaken
<1> HIDE DEF f, S, P
<1>5. Under(toServe', S) \subseteq Under(toServe, S) \cup {f}
  BY <1>1, <1>2, <1>4, UnderWay DEF Put
<1>6. ASSUME link' = "up"
      PROVE  Full(toServe', S, P, ReqTaken(r), reqLen[r] + 2)
  <2>1. link = "up" /\ pc[r] = "sendBody" /\ sent[r] = reqLen[r]
    BY <1>1, <1>6 DEF ReqOrder
  <2>2. ReqSent(r) = reqLen[r] + 1
    BY <2>1 DEF ReqSent, Early
  <2>3. /\ InLine(toServe, S, P, ReqTaken(r), reqLen[r] + 1)
        /\ Full(toServe, S, P, ReqTaken(r), reqLen[r] + 1)
    BY <2>1, <2>2 DEF ReqOrder, S, P
  <2>4. toServe' = Append(toServe, f)
    BY <1>1, <2>1 DEF Put
  <2>5. P[f] = (reqLen[r] + 1) + 1 /\ reqLen[r] + 1 \in Nat /\ (reqLen[r] + 1) + 1 = reqLen[r] + 2
    BY <1>3
  <2> HIDE DEF Full, InLine
  <2>6. Full(toServe', S, P, ReqTaken(r), (reqLen[r] + 1) + 1)
    BY <1>2, <1>4, <2>3, <2>4, <2>5, AppendNext
  <2> QED  BY <2>5, <2>6
<1> HIDE DEF Full
<1> QED  BY <1>1, <1>2, <1>4, <1>5, <1>6 DEF Asked, S, P

LEMMA AskedOwn ==
    ASSUME TypeOK, NEW r \in Requests, ReqOrder(r), Asked(r), pc[r] # "idle",
           Client(r) \/ Handler(r) \/ Forwarder(r) \/ Upstream(r) \/ Task(r)
    PROVE  Asked(r)'
<1> USE DEF handlerVars, clientVars, serveVars, taskVars
<1>1. CASE SendHeaders(r)
  <2> DEFINE f == FrameOf("ReqHeaders", r, 0)
  <2>1. f \in ReqFrames(r) /\ f.type = "ReqHeaders"
    BY FrameOfType DEF FrameOf, ReqTypes, ReqFrames
  <2> HIDE DEF f
  <2>2. /\ UNCHANGED <<sid, link, srvReq, srvBody, h, reqLen>> /\ toServe' = Put(toServe, f)
        /\ pc'[r] = "sendBody"
    BY <1>1 DEF SendHeaders, TypeOK, f
  <2> QED  BY <2>1, <2>2, AskedSends DEF AllSent
<1>2. CASE SendBody(r)
  <2> DEFINE f == FrameOf("ReqBody", r, sent[r] + 1)
  <2>1. sent[r] + 1 \in Nat /\ sent[r] < reqLen[r] /\ reqLen[r] \in Nat /\ sent[r] \in Nat
    BY <1>2 DEF SendBody, TypeOK
  <2>2. f \in ReqFrames(r) /\ f.n = sent[r] + 1
    BY <2>1, FrameOfType DEF FrameOf, ReqTypes, ReqFrames
  <2>3. f.n <= reqLen[r]
    BY <2>1, <2>2
  <2> HIDE DEF f
  <2>4. /\ UNCHANGED <<sid, link, srvReq, srvBody, h, reqLen>> /\ toServe' = Put(toServe, f)
        /\ pc'[r] = "sendBody"
    BY <1>2 DEF SendBody, f
  <2> QED  BY <2>2, <2>3, <2>4, AskedSends DEF AllSent
<1>3. CASE SendEnd(r)
  BY <1>3, AskedEnds
<1>4. CASE Collect(r)
  <2>1. pc[r] \in Early /\ pc'[r] \notin AllSent
    BY <1>4 DEF Collect, TypeOK, Early, AllSent
  <2>2. UNCHANGED <<sid, link, srvReq, srvBody, toServe, h>>
    BY <1>4 DEF Collect
  <2> QED  BY <2>1, <2>2, AskedIdle
<1>5. CASE CollectFails(r)
  <2>1. pc[r] \in Early
    BY <1>5 DEF CollectFails, Early
  <2>2. UNCHANGED <<sid, link, srvReq, srvBody, toServe, h, reqLen>>
    BY <1>5 DEF CollectFails
  <2> QED  BY <2>1, <2>2, AskedIdle
<1>6. CASE HangUp(r)
  <2>1. pc'[r] \in {"gone", "orphan"}
    BY <1>6 DEF HangUp, TypeOK
  <2> QED  BY <1>6, <2>1, AskedIdle DEF HangUp, AllSent
<1>7. CASE Register(r) \/ SendHeadersFails(r) \/ SendBodyFails(r)
  <2>1. pc'[r] \in AllSent => pc[r] \in Early
    BY <1>7 DEF Register, SendHeadersFails, SendBodyFails, TypeOK, Early, AllSent
  <2> QED  BY <1>7, <2>1, AskedIdle DEF Register, SendHeadersFails, SendBodyFails
<1>8. CASE AwaitHeaders(r) \/ AwaitSkipsBody(r) \/ AwaitFails(r) \/ AwaitTimesOut(r) \/ Cleanup(r)
  <2>1. pc[r] \in AllSent
    BY <1>8 DEF AwaitHeaders, AwaitSkipsBody, AwaitFails, AwaitTimesOut, Cleanup, AllSent
  <2> QED  BY <1>8, <2>1, AskedIdle
            DEF AwaitHeaders, AwaitSkipsBody, AwaitFails, AwaitTimesOut, Cleanup
<1>9. CASE Forwarder(r)
  <2>1. pc'[r] \notin AllSent
    <3>1. pc \in [Requests -> {"idle"} \cup Waiting \cup Forwarding \cup Finished]
      BY DEF TypeOK
    <3> QED  BY <1>9, <3>1 DEF Forwarder, ForwardBody, ForwardToNobody, ForwardSkipsHeaders,
                                ForwardEnds, Forwarding, AllSent
  <2> QED  BY <1>9, <2>1, AskedIdle
            DEF Forwarder, ForwardBody, ForwardToNobody, ForwardSkipsHeaders, ForwardEnds
<1>10. CASE Upstream(r) \/ Task(r)
  <2>1. h[r] # "none" /\ h'[r] # "none"
    BY <1>10 DEF Upstream, UpstreamAnswers, UpstreamFails, Task, TaskSendsHeaders,
                 TaskSendsBody, TaskSendsError, TaskSendsEnd, TaskSendFails, TaskSending, TypeOK
  <2> QED  BY <1>10, <2>1, AskedIdle
            DEF Upstream, UpstreamAnswers, UpstreamFails, Task, TaskSendsHeaders,
                TaskSendsBody, TaskSendsError, TaskSendsEnd, TaskSendFails
<1>11. ~ Accept(r)
  BY DEF Accept
<1> QED  BY <1>1, <1>2, <1>3, <1>4, <1>5, <1>6, <1>7, <1>8, <1>9, <1>10, <1>11
            DEF Client, Handler

(* The serve loop takes a frame of r's request.                            *)
LEMMA AskedServed ==
    ASSUME TypeOK, TypeOK', RoutedById, NEW r \in Requests, UniqueId(r), ReqOrder(r), Asked(r),
           Serve, Head(toServe) \in ReqFrames(r)
    PROVE  Asked(r)'
<1> USE DEF handlerVars, clientVars, serveVars, taskVars
<1> DEFINE f == Head(toServe)
           i == sid[r]
           S == ReqFrames(r)
           P == ReqPos(r)
           p == ReqTaken(r)
           m == reqLen[r]
<1>1. /\ toServe # <<>> /\ toServe' = Tail(toServe)
      /\ UNCHANGED <<pc, sid, reqLen, link>>
  BY DEF Serve, ServeNext, ServeHeaders, ServeBody, ServeEnd, ServePongs, ServeIgnores
<1>2. f \in OwnFrame /\ f \in Frame /\ f.type \in ReqTypes /\ f.n \in Nat
  BY <1>1, SequenceTypes DEF RoutedById, ReqFrames, Frame
<1>3. f.id = i /\ i \in Ids /\ srvReq[i] \in {r, NoReq} /\ r # NoReq
  <2>1. f.type \notin KeepaliveTypes /\ f.req = r
    BY <1>2 DEF ReqTypes, KeepaliveTypes, ReqFrames
  <2>2. i \in Ids /\ r # NoReq
    BY NoReqAssumption DEF TypeOK
  <2> HIDE DEF f
  <2> QED  BY <1>2, <2>1, <2>2, OwnPlaces
<1>4. /\ P \in [Frame -> Nat] /\ p \in Nat /\ toServe \in Seq(Frame) /\ f \in S /\ m \in Nat
      /\ P' = P /\ ReqSent(r) <= m + 2 /\ ReqSent(r) \in Nat
  <2>1. m \in Nat
    BY DEF TypeOK
  <2>2. P' = P
    BY <1>1 DEF ReqPos
  <2> QED  BY <2>1, <2>2, FrameSets, PositionTypes, ReqBound
<1>5. /\ P[f] = p + 1 /\ p + 1 <= ReqSent(r)
      /\ Under(toServe', S) \subseteq Under(toServe, S) /\ f \in Under(toServe, S)
  <2>1. InLine(toServe, S, P, p, ReqSent(r))
    BY DEF ReqOrder
  <2>2. f = toServe[1] /\ 1 \in 1..Len(toServe)
    BY <1>1, <1>4, HeadTailProperties, LenProperties, EmptySeq
  <2>3. f \in Under(toServe, S)
    BY <1>4, <2>2 DEF Under
  <2> HIDE DEF InLine, P, p, S, f
  <2>4. P[Head(toServe)] = p + 1 /\ p + 1 <= ReqSent(r)
    BY <1>1, <1>4, <2>1, TailNext DEF f
  <2>5. Under(toServe', S) \subseteq Under(toServe, S)
    BY <1>1, <1>4, UnderWay
  <2> QED  BY <2>3, <2>4, <2>5 DEF f
<1>6. ReqTaken(r)' = p + 1
  BY ReqServed
<1>7. ASSUME link' = "up", pc'[r] \in AllSent
      PROVE  Full(toServe', S, P, p + 1, m + 2)
  <2>1. ~ Unsent(r)
    BY <1>5 DEF Unsent
  <2>2. Full(toServe, S, P, p, m + 2)
    BY <1>1, <1>7, <2>1 DEF Asked
  <2>3. ReqSent(r) = m + 2
    BY <1>1, <1>7 DEF ReqSent, Early, AllSent
  <2>4. InLine(toServe, S, P, p, m + 2)
    BY <2>3 DEF ReqOrder
  <2> HIDE DEF InLine, Full, P, p, S, f, m
  <2>5. m + 2 \in Nat /\ Head(toServe) \in S
    BY <1>4 DEF f
  <2> QED  BY <1>1, <1>4, <2>2, <2>4, <2>5, TailNext
<1>8. h[r] = "none"
  <2>1. h[r] # "none" => p = m + 2
    BY DEF ReqTaken
  <2> HIDE DEF p, m, f, P
  <2> QED  BY <1>4, <1>5, <2>1
<1>9. srvReq'[i] = r => h'[r] = "none" /\ Len(srvBody'[i]) <= m
  <2> SUFFICES ASSUME srvReq'[i] = r PROVE h'[r] = "none" /\ Len(srvBody'[i]) <= m
    OBVIOUS
  <2>1. ~ ServeEnd
    <3>1. Head(toServe).id = i
      BY <1>3
    <3>2. srvReq \in [Ids -> Requests \cup {NoReq}]
      BY DEF TypeOK
    <3> HIDE DEF i, f
    <3>3. ServeEnd => srvReq' = [srvReq EXCEPT ![i] = NoReq] \/ (srvReq[i] = NoReq /\ srvReq' = srvReq)
      BY <3>1 DEF ServeEnd
    <3> QED  BY <1>3, <3>2, <3>3
  <2>2. h' = h
    BY <2>1 DEF Serve, ServeHeaders, ServeBody, ServePongs, ServeIgnores
  <2>3. Len(srvBody'[i]) + 1 = p + 1 /\ Len(srvBody'[i]) \in Nat
    <3>1. srvBody'[i] \in Seq(Chunk)
      BY <1>3 DEF TypeOK
    <3> QED  BY <1>1, <1>6, <1>8, <2>2, <3>1, LenProperties DEF ReqTaken
  <2>4. f.type \in {"ReqHeaders", "ReqBody"}
    BY <1>2, <2>1
       DEF Serve, ServeNext, ServeHeaders, ServeBody, ServePongs, ServeIgnores, ReqTypes, ResTypes
  <2>5. /\ f.type = "ReqHeaders" => P[f] = 1
        /\ f.type = "ReqBody" => P[f] = IF f.n # 0 THEN f.n + 1 ELSE m + 3
    BY <1>2, ReqPosition
  <2>6. f.type = "ReqBody" => f.n <= m
    BY <1>5 DEF Asked
  <2> HIDE DEF f, P, p, m
  <2> QED  BY <1>2, <1>4, <1>5, <1>8, <2>2, <2>3, <2>4, <2>5, <2>6
<1> HIDE DEF Full
<1> QED  BY <1>1, <1>4, <1>5, <1>6, <1>7, <1>9 DEF Asked

-----------------------------------------------------------------------------
(* Steps that leave the queue to the proxy and the task of r alone.        *)
LEMMA RepliedIdle ==
    ASSUME TypeOK, NEW r \in Requests, Replied(r),
           UNCHANGED <<sid, link, toProxy>>,
           h'[r] = h[r] \/ {h[r], h'[r]} \subseteq Unanswered,
           pending'[sid[r]] = r => pending[sid[r]] = r,
           events[r] = <<>> => events'[r] = <<>>,
           pc'[r] \in Forwarding \cup {"closed", "dropped"} =>
               pc[r] \in Forwarding \cup {"closed", "dropped"} \/ events[r] # <<>>,
           pc'[r] \in {"collect", "register", "answered"} =>
               pc[r] \in {"collect", "register", "answered"} \/ pending'[sid[r]] # r
    PROVE  Replied(r)'
<1>1. Unheard(r)' => Unheard(r)
  BY DEF Unheard, Unanswered
<1>2. h'[r] \in {"done", "aborted"} => h'[r] = h[r]
  BY DEF Unanswered
<1> QED  BY <1>1, <1>2 DEF Replied

LEMMA RepliedTask ==
    ASSUME TypeOK, NEW r \in Requests, ResOrder(r), Replied(r), Task(r)
    PROVE  Replied(r)'
<1> USE DEF handlerVars, clientVars, serveVars, taskVars
<1>1. UNCHANGED <<pc, sid, link, pending, events>>
  BY DEF Task, TaskSendsHeaders, TaskSendsBody, TaskSendsError, TaskSendsEnd, TaskSendFails
<1>2. CASE TaskSendsHeaders(r) \/ TaskSendsBody(r) \/ TaskSendsError(r)
  <2>1. h'[r] \in {"body", "broken"}
    BY <1>2 DEF TaskSendsHeaders, TaskSendsBody, TaskSendsError, TypeOK
  <2>2. ~ Unheard(r)'
    BY <2>1 DEF Unheard, Unanswered
  <2> QED  BY <1>1, <2>1, <2>2 DEF Replied
<1>3. CASE TaskSendsEnd(r)
  <2> DEFINE f == FrameOf("ResEnd", r, 0)
  <2>1. h'[r] \in {"done", "aborted"} /\ toProxy' = Put(toProxy, f)
    BY <1>3 DEF TaskSendsEnd, TypeOK
  <2>2. ~ Unheard(r)'
    BY <2>1 DEF Unheard, Unanswered
  <2>3. f \in Frame /\ f \in ResFrames(r) /\ f.type = "ResEnd"
    BY FrameOfType DEF FrameOf, ResTypes, ResFrames
  <2> HIDE DEF f
  <2>4. Under(Append(toProxy, f), ResFrames(r)) = Under(toProxy, ResFrames(r)) \cup {f}
    BY <2>3, FrameSets, UnderWay
  <2>5. link' = "up" => f \in Under(toProxy', ResFrames(r))
    BY <1>1, <2>1, <2>4 DEF Put
  <2> QED  BY <1>1, <2>2, <2>3, <2>5 DEF Replied
<1>4. CASE TaskSendFails(r)
  <2>1. /\ toProxy' = toProxy
        /\ \/ h[r] = "broken" /\ h'[r] = "aborted" /\ link = "down"
           \/ h'[r] = "dead" /\ (link = "down" \/ h[r] = "headers")
    BY <1>4 DEF TaskSendFails, TypeOK, TaskSending
  <2>2. Unheard(r)' => Unheard(r)
    BY <1>1, <2>1 DEF Unheard, Unanswered
  <2>3. ~ (link' = "up" /\ h'[r] \in {"done", "aborted"})
    BY <1>1, <2>1
  <2> QED  BY <1>1, <2>1, <2>2, <2>3 DEF Replied
<1> QED  BY <1>2, <1>3, <1>4 DEF Task

LEMMA RepliedOwn ==
    ASSUME TypeOK, TypeOK', NEW r \in Requests, ReqOrder(r), ResOrder(r), Replied(r),
           pc[r] # "idle",
           Client(r) \/ Handler(r) \/ Forwarder(r) \/ Upstream(r) \/ Task(r)
    PROVE  Replied(r)'
<1> USE DEF handlerVars, clientVars, serveVars, taskVars
<1>1. CASE Task(r)
  BY <1>1, RepliedTask
<1>2. CASE Upstream(r)
  <2>1. {h[r], h'[r]} \subseteq Unanswered
    BY <1>2 DEF Upstream, UpstreamAnswers, UpstreamFails, Unanswered, TypeOK
  <2> QED  BY <1>2, <2>1, RepliedIdle DEF Upstream, UpstreamAnswers, UpstreamFails
<1>3. CASE Register(r)
  <2>1. pc[r] = "register" /\ pc'[r] = "sendHeaders"
    BY <1>3 DEF Register, TypeOK
  <2>2. h[r] = "none"
    BY <2>1, EarlyUnsent DEF Early
  <2>3. UNCHANGED <<h, sid, link, toProxy, events>>
    BY <1>3 DEF Register
  <2> QED  BY <2>1, <2>2, <2>3 DEF Replied, Unheard, Unanswered, Forwarding
<1>4. CASE Collect(r)
  <2>1. pc[r] = "collect" /\ pc'[r] = "register"
    BY <1>4 DEF Collect, TypeOK
  <2>2. UNCHANGED <<h, sid, link, toProxy, events, pending>>
    BY <1>4 DEF Collect
  <2> QED  BY <2>1, <2>2, RepliedIdle DEF Forwarding
<1>5. CASE CollectFails(r)
  <2>1. pc[r] = "collect" /\ pc'[r] = "answered"
    BY <1>5 DEF CollectFails, TypeOK
  <2>2. UNCHANGED <<h, sid, link, toProxy, events, pending>>
    BY <1>5 DEF CollectFails
  <2> QED  BY <2>1, <2>2, RepliedIdle DEF Forwarding
<1>6. CASE HangUp(r)
  <2>1. /\ pc'[r] = "gone" \/ (pc[r] = "stream" /\ pc'[r] = "orphan")
        /\ events'[r] \in {<<>>, events[r]}
        /\ UNCHANGED <<h, sid, link, toProxy, pending>>
    BY <1>6 DEF HangUp, TypeOK
  <2> QED  BY <2>1, RepliedIdle DEF Forwarding
<1>7. CASE SendHeaders(r) \/ SendHeadersFails(r) \/ SendBody(r) \/ SendBodyFails(r) \/ SendEnd(r)
           \/ AwaitFails(r) \/ AwaitTimesOut(r)
  <2>1. pc \in [Requests -> {"idle"} \cup Waiting \cup Forwarding \cup Finished]
    BY DEF TypeOK
  <2>2. pc'[r] \in {"sendHeaders", "sendBody", "sendEnd", "await", "failed", "timedOut"}
    BY <1>7, <2>1 DEF SendHeaders, SendHeadersFails, SendBody, SendBodyFails, SendEnd, AwaitFails,
                      AwaitTimesOut
  <2>3. UNCHANGED <<h, sid, link, toProxy, events, pending>>
    BY <1>7 DEF SendHeaders, SendHeadersFails, SendBody, SendBodyFails, SendEnd, AwaitFails,
                AwaitTimesOut
  <2> QED  BY <2>2, <2>3, RepliedIdle DEF Forwarding
<1>8. CASE AwaitHeaders(r) \/ AwaitSkipsBody(r)
  <2>1. /\ pc'[r] \in {"await", "stream"} /\ events[r] # <<>>
        /\ UNCHANGED <<h, sid, link, toProxy, pending>>
    BY <1>8 DEF AwaitHeaders, AwaitSkipsBody, NextIs, TypeOK
  <2> QED  BY <2>1, RepliedIdle DEF Forwarding
<1>9. CASE Cleanup(r)
  <2>1. UNCHANGED <<h, sid, link, toProxy>> /\ pc'[r] = "answered" /\ events'[r] = <<>>
    BY <1>9 DEF Cleanup, TypeOK
  <2>2. pending'[sid[r]] # r
    BY <1>9, NoReqAssumption DEF Cleanup, TypeOK
  <2> QED  BY <2>1, <2>2, RepliedIdle DEF Forwarding
<1>10. CASE Forwarder(r)
  <2>1. pc[r] \in Forwarding /\ UNCHANGED <<h, sid, link, toProxy, pending>>
    BY <1>10 DEF Forwarder, ForwardBody, ForwardToNobody, ForwardSkipsHeaders, ForwardEnds,
                 Forwarding
  <2>2. pc'[r] \in Forwarding \cup {"closed", "dropped"}
    <3>1. pc \in [Requests -> {"idle"} \cup Waiting \cup Forwarding \cup Finished]
      BY DEF TypeOK
    <3> QED  BY <1>10, <2>1, <3>1
              DEF Forwarder, ForwardBody, ForwardToNobody, ForwardSkipsHeaders, ForwardEnds
  <2>3. events[r] = <<>> => events'[r] = <<>>
    <3>1. events \in [Requests -> Seq(Frame)]
      BY DEF TypeOK
    <3> QED  BY <1>10, <3>1 DEF Forwarder, ForwardBody, ForwardToNobody, ForwardSkipsHeaders,
                                ForwardEnds, NextIs
  <2> QED  BY <2>1, <2>2, <2>3, RepliedIdle DEF Forwarding
<1>11. ~ Accept(r)
  BY DEF Accept
<1> QED  BY <1>1, <1>2, <1>3, <1>4, <1>5, <1>6, <1>7, <1>8, <1>9, <1>10, <1>11
            DEF Client, Handler

(* The reader task takes a frame of r's response.                          *)
LEMMA LeakRouted ==
    ASSUME TypeOK, RoutedById, NEW r \in Requests, UniqueId(r), ReqOrder(r),
           Asked(r), Replied(r), Reader, Head(toProxy) \in ResFrames(r)
    PROVE  Asked(r)' /\ Replied(r)'
<1> USE DEF handlerVars, clientVars, serveVars, taskVars
<1> DEFINE f == Head(toProxy)
           i == sid[r]
           S == ResFrames(r)
<1>1. /\ ReaderRoutes \/ ReaderEnds
      /\ toProxy # <<>> /\ toProxy' = Tail(toProxy)
      /\ UNCHANGED <<handlerVars, clientVars, toServe, link, serveVars, taskVars>>
  <2>1. f.type \in ResTypes
    BY DEF ResFrames
  <2>2. ~ ReaderPongs /\ ~ ReaderIgnores
    BY <2>1 DEF ReaderPongs, ReaderIgnores, ResTypes, ReqTypes
  <2> QED  BY <2>2 DEF Reader, ReaderRoutes, ReaderEnds
<1>2. f.id = i /\ i \in Ids /\ pending[i] \in {r, NoReq} /\ r # NoReq /\ f \in S
  <2>1. f \in OwnFrame /\ f.req = r /\ f.type \notin KeepaliveTypes
    BY <1>1, SequenceTypes DEF RoutedById, ResFrames, ResTypes, KeepaliveTypes
  <2>2. i \in Ids /\ r # NoReq
    BY NoReqAssumption DEF TypeOK
  <2>3. f \in S
    OBVIOUS
  <2> HIDE DEF f, S
  <2> QED  BY <2>1, <2>2, <2>3, OwnPlaces
<1>3. Asked(r)'
  BY <1>1, AskedIdle
<1>4. \/ pending' = pending /\ f.type # "ResEnd"
      \/ pending' = [pending EXCEPT ![f.id] = NoReq]
  BY <1>1 DEF ReaderRoutes, ReaderEnds
<1>5. pending'[i] = r => pending[i] = r /\ f.type # "ResEnd"
  <2>1. pending \in [Ids -> Requests \cup {NoReq}]
    BY DEF TypeOK
  <2> HIDE DEF f, i
  <2> QED  BY <1>2, <1>4, <2>1
<1>6. /\ Under(toProxy', S) \subseteq Under(toProxy, S) /\ f \in Under(toProxy, S)
      /\ Under(toProxy, S) \subseteq Under(toProxy', S) \cup {f}
  <2>1. toProxy \in Seq(Frame)
    BY FrameSets
  <2>2. f = toProxy[1] /\ 1 \in 1..Len(toProxy)
    BY <1>1, <2>1, HeadTailProperties, LenProperties, EmptySeq
  <2>3. f \in Under(toProxy, S)
    BY <1>2, <2>2 DEF Under
  <2> QED  BY <1>1, <2>1, <2>3, UnderWay
<1> HIDE DEF f, S
<1>7. ~ Unheard(r)'
  BY <1>1, <1>6 DEF Replied, Unheard, S
<1>8. ASSUME link' = "up", pending'[i] = r, h'[r] \in {"done", "aborted"}
      PROVE  \E e \in Under(toProxy', S) : e.type = "ResEnd"
  <2>1. PICK e \in Under(toProxy, S) : e.type = "ResEnd"
    BY <1>1, <1>5, <1>8 DEF Replied, S
  <2> QED  BY <1>5, <1>6, <1>8, <2>1
<1> QED  BY <1>1, <1>3, <1>5, <1>7, <1>8 DEF Replied, S

(* The serve loop takes a frame of r's request.                            *)
LEMMA LeakServed ==
    ASSUME TypeOK, TypeOK', RoutedById, NEW r \in Requests, UniqueId(r),
           ReqOrder(r), ResOrder(r), Asked(r), Replied(r),
           Serve, Head(toServe) \in ReqFrames(r)
    PROVE  Asked(r)' /\ Replied(r)'
<1>1. Asked(r)'
  BY AskedServed
<1>2. /\ {h[r], h'[r]} \subseteq Unanswered
      /\ UNCHANGED <<pc, sid, link, pending, events, toProxy>>
  BY ResServed
<1>3. Replied(r)'
  BY <1>2, RepliedIdle
<1> QED  BY <1>1, <1>3

LEMMA AcceptLeak ==
    ASSUME TypeOK, RoutedById, NEW r \in Requests, Accept(r)
    PROVE  Asked(r)' /\ Replied(r)'
<1> USE DEF clientVars, serveVars, taskVars
<1>1. /\ pc'[r] = "collect" /\ sid'[r] = nextId /\ events'[r] = <<>> /\ h'[r] = "none"
      /\ srvReq'[nextId] # r /\ pending'[nextId] # r
  BY AcceptFresh DEF Blank
<1>2. Under(toServe', ReqFrames(r)) = {} /\ Under(toProxy', ResFrames(r)) = {}
  BY AcceptFresh DEF Under
<1>3. Asked(r)'
  BY <1>1, <1>2 DEF Asked, AllSent
<1>4. Replied(r)'
  BY <1>1, <1>2 DEF Replied, Forwarding
<1> QED  BY <1>3, <1>4

LEMMA InitLeak == Init => LeakInv
BY DEF Init, LeakInv, UniqueId

LEMMA NextLeak ==
    TypeOK /\ TypeOK' /\ RoutedById /\ OrderInv /\ LeakInv /\ [Next]_vars => LeakInv'
<1> SUFFICES ASSUME TypeOK, TypeOK', RoutedById, OrderInv, LeakInv, [Next]_vars,
                    NEW r \in Requests, UniqueId(r)'
             PROVE  Asked(r)' /\ Replied(r)'
  BY DEF LeakInv
<1>1. CASE Accept(r)
  BY <1>1, AcceptLeak
<1>2. CASE ~ Accept(r)
  <2>1. UniqueId(r)
    BY <1>2, UniqueBefore
  <2>2. ReqOrder(r) /\ ResOrder(r) /\ Asked(r) /\ Replied(r) /\ pc[r] # "idle"
    BY <2>1 DEF OrderInv, LeakInv, UniqueId
  <2>3. CASE Client(r) \/ Handler(r) \/ Forwarder(r) \/ Upstream(r) \/ Task(r)
    BY <2>2, <2>3, AskedOwn, RepliedOwn
  <2>4. ASSUME NEW q \in Requests \ {r},
               Client(q) \/ Handler(q) \/ Forwarder(q) \/ Upstream(q) \/ Task(q)
        PROVE  Asked(r)' /\ Replied(r)'
    BY <2>1, <2>2, <2>4, OtherRequest, OtherLeak
  <2>5. CASE Reader /\ Head(toProxy) \in ResFrames(r)
    BY <2>1, <2>2, <2>5, LeakRouted
  <2>6. CASE Serve /\ Head(toServe) \in ReqFrames(r)
    BY <2>1, <2>2, <2>6, LeakServed
  <2>7. CASE \/ Reader /\ Head(toProxy) \notin ResFrames(r)
             \/ Serve /\ Head(toServe) \notin ReqFrames(r)
             \/ ServeExit \/ SendPing \/ LinkFails \/ UNCHANGED vars
    BY <2>1, <2>2, <2>7, OtherSteps, OtherLeak
  <2> QED  BY <2>3, <2>4, <2>5, <2>6, <2>7 DEF Next
<1> QED  BY <1>1, <1>2

LEMMA LeakHolds == Spec => [](TypeOK /\ OrderInv /\ LeakInv)
<1>1. Init => TypeOK /\ RoutedById /\ OrderInv /\ LeakInv
  BY InitType, InitRouted, InitOrder, InitLeak
<1>2. TypeOK /\ RoutedById /\ OrderInv /\ LeakInv /\ [Next]_vars =>
          TypeOK' /\ RoutedById' /\ OrderInv' /\ LeakInv'
  BY NextType, NextRouted, NextOrder, NextLeak
<1> QED  BY <1>1, <1>2, PTL DEF Spec

(* With no frame of r under way, every entry of r is one a client left.    *)
LEMMA LeftByHangUp ==
    ASSUME TypeOK, NEW r \in Requests, Asked(r), Replied(r), link = "up",
           pc[r] \in Finished \/ h[r] \in TaskOver \ {"dead"},
           h[r] \in {"none"} \cup TaskOver, ~ InFlight(r),
           pending[sid[r]] = r \/ srvReq[sid[r]] = r
    PROVE  pc[r] = "gone" /\ h[r] \in {"none", "dead"}
<1>1. Under(toServe, ReqFrames(r)) = {} /\ Under(toProxy, ResFrames(r)) = {}
  <2>1. \A q \in {toServe, toProxy} : \A k \in 1..Len(q) : q[k].req # r
    <3>1. DOMAIN toServe = 1..Len(toServe) /\ DOMAIN toProxy = 1..Len(toProxy)
      BY LenProperties DEF TypeOK
    <3> QED  BY <3>1 DEF InFlight
  <2> QED  BY <2>1 DEF Under, ReqFrames, ResFrames
<1>2. CASE pending[sid[r]] = r
  <2>1. h[r] \notin {"done", "aborted"}
    BY <1>1, <1>2 DEF Replied
  <2>2. pc[r] \notin {"answered", "closed", "dropped"}
    BY <1>2, <2>1 DEF Replied, Unheard, Unanswered, TaskOver
  <2> QED  BY <2>1, <2>2 DEF Finished, TaskOver
<1>3. CASE srvReq[sid[r]] = r
  <2>1. h[r] = "none" /\ Len(srvBody[sid[r]]) <= reqLen[r]
    BY <1>3 DEF Asked
  <2>2. pc[r] \notin {"closed", "dropped"}
    BY <2>1 DEF Replied, Unheard, Unanswered
  <2>3. pc[r] # "answered"
    <3> SUFFICES ASSUME pc[r] = "answered" PROVE FALSE
      OBVIOUS
    <3>1. reqLen[r] \in Nat /\ Len(srvBody[sid[r]]) \in Nat
      BY LenProperties DEF TypeOK
    <3>2. ReqTaken(r) = Len(srvBody[sid[r]]) + 1
      BY <1>3, <2>1 DEF ReqTaken
    <3>3. Full(toServe, ReqFrames(r), ReqPos(r), ReqTaken(r), reqLen[r] + 2)
      <4>1. ~ Unsent(r)
        BY <3>1, <3>2 DEF Unsent
      <4> QED  BY <4>1 DEF Asked, AllSent
    <3>4. reqLen[r] + 2 \in Nat /\ ReqTaken(r) < reqLen[r] + 2
      BY <2>1, <3>1, <3>2
    <3>5. \E k \in 1..Len(toServe) : toServe[k] \in ReqFrames(r)
      BY <3>1, <3>2, <3>3, <3>4 DEF Full
    <3> QED  BY <1>1, <3>5 DEF Under
  <2> QED  BY <2>1, <2>2, <2>3 DEF Finished, TaskOver
<1> QED  BY <1>2, <1>3

(* Whatever the interleaving of handlers, reader, serve loop and tasks,    *)
(* no way out of a handler but a hang-up leaves an entry in pending        *)
(* (proxy.rs:140-150, 309-370) or in pending_requests (serve.rs:126) once  *)
(* the frames of its stream are through.                                   *)
THEOREM LeaksOnlyByHangUp == Spec => []LeakOnlyByHangUp
<1>1. TypeOK /\ OrderInv /\ LeakInv => LeakOnlyByHangUp
  <2> SUFFICES ASSUME TypeOK, OrderInv, LeakInv, NEW r \in Requests,
                      link = "up", UniqueId(r),
                      pc[r] \in Finished \/ h[r] \in TaskOver \ {"dead"},
                      h[r] \in {"none"} \cup TaskOver, ~ InFlight(r),
                      sid[r] \in {i \in Ids : r \in {pending[i], srvReq[i]}}
               PROVE  pc[r] = "gone" /\ h[r] \in {"none", "dead"}
    BY DEF LeakOnlyByHangUp
  <2>1. Asked(r) /\ Replied(r)
    BY DEF LeakInv
  <2> QED  BY <2>1, LeftByHangUp
<1> QED  BY <1>1, LeakHolds, PTL
=============================================================================
