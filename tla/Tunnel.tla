------------------------------- MODULE Tunnel -------------------------------
(***************************************************************************)
(* The data plane of one established session: HTTP requests that reach the *)
(* proxy are multiplexed, by stream id, over one ordered data channel to   *)
(* the serve side, which calls the upstream and streams the response back. *)
(*                                                                         *)
(*   HTTP client -> handle_proxy_request --toServe-->  run_serve loop      *)
(*                    ^ events[r]                        | spawns          *)
(*   forwarder task <-+-- reader task  <--toProxy--   handle_request -> up *)
(*                                                                         *)
(* Routing is by stream id alone, as in the code.  The field req of a      *)
(* frame is a history field: whose data the frame carries.                 *)
(***************************************************************************)
EXTENDS Naturals, Sequences, FiniteSets

CONSTANTS
    Requests,       \* the HTTP requests clients may ever make
    NoReq,          \* "no request": an absent map entry
    MaxId,          \* the largest stream id: 2^32 - 1 in the code
    MaxReqChunks,   \* bound: body chunks of a request
    MaxResChunks,   \* bound: body chunks of an upstream response
    MaxPings,       \* bound: keepalive pings sent in all
    LinkMayFail     \* whether the link fails in the behaviours considered

ASSUME NoReqAssumption == NoReq \notin Requests
ASSUME BoundAssumption ==
    /\ MaxId \in Nat
    /\ MaxReqChunks \in Nat
    /\ MaxResChunks \in Nat
    /\ MaxPings \in Nat
    /\ LinkMayFail \in BOOLEAN

VARIABLES
    nextId,     \* stream_counter
    pc,         \* where handle_proxy_request, then its forwarder task, stands
    sid,        \* the stream id of each request
    reqLen,     \* body chunks of the request, known once collected
    sent,       \* body chunks of the request sent so far
    reply,      \* <<owner of the headers or NoReq, status>> the client was given
    got,        \* body chunks streamed to the client
    events,     \* the StreamEvent channel of each request
    pending,    \* PendingResponses: stream id -> request holding the sender
    toServe,    \* frames on their way to the serve loop
    toProxy,    \* frames on their way to the reader task
    link,       \* "up", then "down" for good
    serveUp,    \* the loop of run_serve runs
    srvReq,     \* pending_requests of serve: stream id -> request
    srvBody,    \* the body collected for it so far
    h,          \* where the task running handle_request stands
    hStatus,    \* the status it answers with
    resSent,    \* response body chunks it sent
    upBody,     \* the request body the upstream was called with
    pings       \* pings sent so far

clientVars == <<reply, got>>
handlerVars == <<pc, sid, reqLen, sent, nextId>>
serveVars == <<serveUp, srvReq, srvBody>>
taskVars == <<h, hStatus, resSent, upBody>>
vars == <<nextId, pc, sid, reqLen, sent, reply, got, events, pending, toServe,
          toProxy, link, serveUp, srvReq, srvBody, h, hStatus, resSent, upBody, pings>>

Ids == 0..MaxId
ReqTypes == {"ReqHeaders", "ReqBody", "ReqEnd"}
ResTypes == {"ResHeaders", "ResBody", "ResEnd", "Error"}
KeepaliveTypes == {"Ping", "Pong"}
Frame == [type : ReqTypes \cup ResTypes \cup KeepaliveTypes, id : Ids,
          req : Requests \cup {NoReq}, n : Nat]
Chunk == (Requests \cup {NoReq}) \X Nat

NoReply == <<NoReq, 0>>
Ping == [type |-> "Ping", id |-> 0, req |-> NoReq, n |-> 0]
Pong == [type |-> "Pong", id |-> 0, req |-> NoReq, n |-> 0]

(* A frame of request r: its stream id, and data number n of that type.    *)
FrameOf(type, r, n) == [type |-> type, id |-> sid[r], req |-> r, n |-> n]

(* The whole body number 1..n of request r, in order.                      *)
Chunks(r, n) == [i \in 1..n |-> <<r, i>>]

Waiting == {"collect", "register", "sendHeaders", "sendBody", "sendEnd", "await",
            "failed", "timedOut"}
Forwarding == {"stream", "orphan"}
Finished == {"answered", "closed", "dropped", "gone"}
TaskSending == {"headers", "body", "broken"}
TaskOver == {"done", "aborted", "dead"}

TypeOK ==
    /\ nextId \in Ids
    /\ pc \in [Requests -> {"idle"} \cup Waiting \cup Forwarding \cup Finished]
    /\ sid \in [Requests -> Ids]
    /\ reqLen \in [Requests -> Nat]
    /\ sent \in [Requests -> Nat]
    /\ reply \in [Requests -> (Requests \cup {NoReq}) \X Nat]
    /\ got \in [Requests -> Seq(Chunk)]
    /\ events \in [Requests -> Seq(Frame)]
    /\ pending \in [Ids -> Requests \cup {NoReq}]
    /\ toServe \in Seq(Frame)
    /\ toProxy \in Seq(Frame)
    /\ link \in {"up", "down"}
    /\ serveUp \in BOOLEAN
    /\ srvReq \in [Ids -> Requests \cup {NoReq}]
    /\ srvBody \in [Ids -> Seq(Chunk)]
    /\ h \in [Requests -> {"none", "upstream"} \cup TaskSending \cup TaskOver]
    /\ hStatus \in [Requests -> {0, 200, 502}]
    /\ resSent \in [Requests -> Nat]
    /\ upBody \in [Requests -> Seq(Chunk)]
    /\ pings \in Nat

(* Mutant: a counter wider than the id.                                    *)
NextStreamIdNoWrap(i) == i + 1

(* stream_counter starts at 1; fetch_add on an AtomicU32 wraps.            *)
NextStreamId(i) == IF i = MaxId THEN 0 ELSE i + 1

Init ==
    /\ nextId = NextStreamId(0)
    /\ pc = [r \in Requests |-> "idle"]
    /\ sid = [r \in Requests |-> 0]
    /\ reqLen = [r \in Requests |-> 0]
    /\ sent = [r \in Requests |-> 0]
    /\ reply = [r \in Requests |-> NoReply]
    /\ got = [r \in Requests |-> <<>>]
    /\ events = [r \in Requests |-> <<>>]
    /\ pending = [i \in Ids |-> NoReq]
    /\ toServe = <<>>
    /\ toProxy = <<>>
    /\ link = "up"
    /\ serveUp = TRUE
    /\ srvReq = [i \in Ids |-> NoReq]
    /\ srvBody = [i \in Ids |-> <<>>]
    /\ h = [r \in Requests |-> "none"]
    /\ hStatus = [r \in Requests |-> 0]
    /\ resSent = [r \in Requests |-> 0]
    /\ upBody = [r \in Requests |-> <<>>]
    /\ pings = 0

-----------------------------------------------------------------------------
(***************************************************************************)
(* The data channel.  It is ordered and reliable while the link is up.     *)
(* Once it is down, a send either fails (the actions named ...Fails) or    *)
(* succeeds and its frame is lost.  A send of headers may fail at any      *)
(* time: they go in one frame, and the webrtc crate refuses one that is    *)
(* too long.                                                               *)
(***************************************************************************)
Put(queue, f) == IF link = "up" THEN Append(queue, f) ELSE queue

LinkFails ==
    /\ LinkMayFail
    /\ link = "up"
    /\ link' = "down"
    /\ \E i \in 0..Len(toServe) : toServe' = SubSeq(toServe, 1, i)
    /\ \E i \in 0..Len(toProxy) : toProxy' = SubSeq(toProxy, 1, i)
    /\ UNCHANGED <<handlerVars, clientVars, events, pending, serveVars, taskVars, pings>>

(* The keepalive task of either side.                                      *)
SendPing ==
    /\ link = "up"
    /\ pings < MaxPings
    /\ pings' = pings + 1
    /\ \/ toServe' = Append(toServe, Ping) /\ UNCHANGED toProxy
       \/ toProxy' = Append(toProxy, Ping) /\ UNCHANGED toServe
    /\ UNCHANGED <<handlerVars, clientVars, events, pending, link, serveVars, taskVars>>

-----------------------------------------------------------------------------
(***************************************************************************)
(* handle_proxy_request, up to the response headers.                       *)
(***************************************************************************)
Accept(r) ==
    /\ pc[r] = "idle"
    /\ sid' = [sid EXCEPT ![r] = nextId]
    /\ nextId' = NextStreamId(nextId)
    /\ pc' = [pc EXCEPT ![r] = "collect"]
    /\ UNCHANGED <<reqLen, sent, clientVars, events, pending, toServe, toProxy, link,
                   serveVars, taskVars, pings>>

Collect(r) ==
    /\ pc[r] = "collect"
    /\ \E n \in 0..MaxReqChunks : reqLen' = [reqLen EXCEPT ![r] = n]
    /\ pc' = [pc EXCEPT ![r] = "register"]
    /\ UNCHANGED <<nextId, sid, sent, clientVars, events, pending, toServe, toProxy, link,
                   serveVars, taskVars, pings>>

CollectFails(r) ==
    /\ pc[r] = "collect"
    /\ reply' = [reply EXCEPT ![r] = <<NoReq, 400>>]
    /\ pc' = [pc EXCEPT ![r] = "answered"]
    /\ UNCHANGED <<nextId, sid, reqLen, sent, got, events, pending, toServe, toProxy, link,
                   serveVars, taskVars, pings>>

(* Mutant: the counter is read again after the body was collected.         *)
RegisterLatestId(r) ==
    /\ pc[r] = "register"
    /\ pending' = [pending EXCEPT ![IF nextId = 0 THEN MaxId ELSE nextId - 1] = r]
    /\ pc' = [pc EXCEPT ![r] = "sendHeaders"]
    /\ UNCHANGED <<nextId, sid, reqLen, sent, clientVars, events, toServe, toProxy, link,
                   serveVars, taskVars, pings>>

(* Inserting under a stream id still in use drops the sender stored there. *)
Register(r) ==
    /\ pc[r] = "register"
    /\ pending' = [pending EXCEPT ![sid[r]] = r]
    /\ pc' = [pc EXCEPT ![r] = "sendHeaders"]
    /\ UNCHANGED <<nextId, sid, reqLen, sent, clientVars, events, toServe, toProxy, link,
                   serveVars, taskVars, pings>>

SendHeaders(r) ==
    /\ pc[r] = "sendHeaders"
    /\ toServe' = Put(toServe, FrameOf("ReqHeaders", r, 0))
    /\ pc' = [pc EXCEPT ![r] = "sendBody"]
    /\ UNCHANGED <<nextId, sid, reqLen, sent, clientVars, events, pending, toProxy, link,
                   serveVars, taskVars, pings>>

(* The link is down, or the headers are too long for one frame.            *)
SendHeadersFails(r) ==
    /\ pc[r] = "sendHeaders"
    /\ pc' = [pc EXCEPT ![r] = "failed"]
    /\ UNCHANGED <<nextId, sid, reqLen, sent, clientVars, events, pending, toServe, toProxy, link,
                   serveVars, taskVars, pings>>

SendBody(r) ==
    /\ pc[r] = "sendBody"
    /\ sent[r] < reqLen[r]
    /\ toServe' = Put(toServe, FrameOf("ReqBody", r, sent[r] + 1))
    /\ sent' = [sent EXCEPT ![r] = @ + 1]
    /\ UNCHANGED <<nextId, pc, sid, reqLen, clientVars, events, pending, toProxy, link,
                   serveVars, taskVars, pings>>

(* The loop over the body breaks, and the end is sent all the same.        *)
SendBodyFails(r) ==
    /\ pc[r] = "sendBody"
    /\ sent[r] < reqLen[r]
    /\ link = "down"
    /\ pc' = [pc EXCEPT ![r] = "sendEnd"]
    /\ UNCHANGED <<nextId, sid, reqLen, sent, clientVars, events, pending, toServe, toProxy,
                   link, serveVars, taskVars, pings>>

(* Mutant: the loop over the body stops one chunk early.                   *)
SendEndOneShort(r) ==
    /\ \/ pc[r] = "sendEnd"
       \/ pc[r] = "sendBody" /\ sent[r] + 1 >= reqLen[r]
    /\ toServe' = Put(toServe, FrameOf("ReqEnd", r, 0))
    /\ pc' = [pc EXCEPT ![r] = "await"]
    /\ UNCHANGED <<nextId, sid, reqLen, sent, clientVars, events, pending, toProxy, link,
                   serveVars, taskVars, pings>>

(* A failed send of the end is only logged: the handler waits for headers. *)
SendEnd(r) ==
    /\ \/ pc[r] = "sendEnd"
       \/ pc[r] = "sendBody" /\ sent[r] = reqLen[r]
    /\ toServe' = Put(toServe, FrameOf("ReqEnd", r, 0))
    /\ pc' = [pc EXCEPT ![r] = "await"]
    /\ UNCHANGED <<nextId, sid, reqLen, sent, clientVars, events, pending, toProxy, link,
                   serveVars, taskVars, pings>>

(* The sender of r's event channel lives in the pending map only.          *)
ChannelOpen(r) == pending[sid[r]] = r
NextIs(r, types) == events[r] # <<>> /\ Head(events[r]).type \in types
(* Mutant: a superseded sender is kept alive.                              *)
DrainedNever(r) == FALSE
Drained(r) == events[r] = <<>> /\ ~ChannelOpen(r)

AwaitHeaders(r) ==
    /\ pc[r] = "await"
    /\ NextIs(r, {"ResHeaders"})
    /\ reply' = [reply EXCEPT ![r] = <<Head(events[r]).req, Head(events[r]).n>>]
    /\ events' = [events EXCEPT ![r] = Tail(@)]
    /\ pc' = [pc EXCEPT ![r] = "stream"]
    /\ UNCHANGED <<nextId, sid, reqLen, sent, got, pending, toServe, toProxy, link,
                   serveVars, taskVars, pings>>

(* A body chunk before the headers is dropped with a warning.              *)
AwaitSkipsBody(r) ==
    /\ pc[r] = "await"
    /\ NextIs(r, {"ResBody"})
    /\ events' = [events EXCEPT ![r] = Tail(@)]
    /\ UNCHANGED <<handlerVars, clientVars, pending, toServe, toProxy, link, serveVars,
                   taskVars, pings>>

AwaitFails(r) ==
    /\ pc[r] = "await"
    /\ NextIs(r, {"ResEnd", "Error"}) \/ Drained(r)
    /\ pc' = [pc EXCEPT ![r] = "failed"]
    /\ UNCHANGED <<nextId, sid, reqLen, sent, clientVars, events, pending, toServe, toProxy, link,
                   serveVars, taskVars, pings>>

(* Mutant: the timer is disarmed once the request has gone out.            *)
AwaitNoTimer(r) == pc[r] = "await" /\ FALSE /\ UNCHANGED vars

(* The 60 s timer fires only while the inner future has nothing to take.   *)
AwaitTimesOut(r) ==
    /\ pc[r] = "await"
    /\ events[r] = <<>>
    /\ ChannelOpen(r)
    /\ pc' = [pc EXCEPT ![r] = "timedOut"]
    /\ UNCHANGED <<nextId, sid, reqLen, sent, clientVars, events, pending, toServe, toProxy, link,
                   serveVars, taskVars, pings>>

(* Every error return after registration removes the entry of its id.      *)
Cleanup(r) ==
    /\ pc[r] \in {"failed", "timedOut"}
    /\ pending' = [pending EXCEPT ![sid[r]] = NoReq]
    /\ reply' = [reply EXCEPT ![r] = <<NoReq, IF pc[r] = "failed" THEN 502 ELSE 504>>]
    /\ events' = [events EXCEPT ![r] = <<>>]
    /\ pc' = [pc EXCEPT ![r] = "answered"]
    /\ UNCHANGED <<nextId, sid, reqLen, sent, got, toServe, toProxy, link,
                   serveVars, taskVars, pings>>

(***************************************************************************)
(* The forwarder task of a response, and the body stream hyper reads.      *)
(***************************************************************************)
ForwardBody(r) ==
    /\ pc[r] = "stream"
    /\ NextIs(r, {"ResBody"})
    /\ got' = [got EXCEPT ![r] = Append(@, <<Head(events[r]).req, Head(events[r]).n>>)]
    /\ events' = [events EXCEPT ![r] = Tail(@)]
    /\ UNCHANGED <<handlerVars, reply, pending, toServe, toProxy, link, serveVars,
                   taskVars, pings>>

(* The client is gone: the task learns it from the next chunk it forwards. *)
ForwardToNobody(r) ==
    /\ pc[r] = "orphan"
    /\ NextIs(r, {"ResBody"})
    /\ events' = [events EXCEPT ![r] = <<>>]
    /\ pc' = [pc EXCEPT ![r] = "dropped"]
    /\ UNCHANGED <<nextId, sid, reqLen, sent, clientVars, pending, toServe, toProxy, link,
                   serveVars, taskVars, pings>>

ForwardSkipsHeaders(r) ==
    /\ pc[r] \in Forwarding
    /\ NextIs(r, {"ResHeaders"})
    /\ events' = [events EXCEPT ![r] = Tail(@)]
    /\ UNCHANGED <<handlerVars, clientVars, pending, toServe, toProxy, link, serveVars,
                   taskVars, pings>>

(* Mutant: a lost link ends the body like an End.                          *)
ForwardEndsWithLink(r) ==
    /\ pc[r] \in Forwarding
    /\ NextIs(r, {"ResEnd", "Error"}) \/ Drained(r) \/ link = "down"
    /\ events' = [events EXCEPT ![r] = <<>>]
    /\ pc' = [pc EXCEPT ![r] = IF @ = "stream" THEN "closed" ELSE "dropped"]
    /\ UNCHANGED <<nextId, sid, reqLen, sent, clientVars, pending, toServe, toProxy, link,
                   serveVars, taskVars, pings>>

(* End, Error and a closed channel all drop body_tx: the client sees the   *)
(* body end.                                                               *)
ForwardEnds(r) ==
    /\ pc[r] \in Forwarding
    /\ NextIs(r, {"ResEnd", "Error"}) \/ Drained(r)
    /\ events' = [events EXCEPT ![r] = <<>>]
    /\ pc' = [pc EXCEPT ![r] = IF @ = "stream" THEN "closed" ELSE "dropped"]
    /\ UNCHANGED <<nextId, sid, reqLen, sent, clientVars, pending, toServe, toProxy, link,
                   serveVars, taskVars, pings>>

(* hyper drops the handler's future (at any await) or the response body    *)
(* when the client closes its connection; neither touches pending.         *)
HangUp(r) ==
    /\ \/ /\ pc[r] \in Waiting
          /\ pc' = [pc EXCEPT ![r] = "gone"]
          /\ events' = [events EXCEPT ![r] = <<>>]
       \/ /\ pc[r] = "stream"
          /\ pc' = [pc EXCEPT ![r] = "orphan"]
          /\ UNCHANGED events
    /\ UNCHANGED <<nextId, sid, reqLen, sent, clientVars, pending, toServe, toProxy, link,
                   serveVars, taskVars, pings>>

-----------------------------------------------------------------------------
(***************************************************************************)
(* The reader task of the proxy.                                           *)
(***************************************************************************)
(* The request whose event channel frame f goes to, if its entry exists.   *)
Target(f) == pending[f.id]

(* Mutant: chunks are routed only once the client has its headers.         *)
DeliveredOnceStreaming(f) ==
    LET r == Target(f) IN
    IF r # NoReq /\ pc[r] \notin Finished /\ (f.type = "ResBody" => pc[r] \in Forwarding)
    THEN [events EXCEPT ![r] = Append(@, f)]
    ELSE events

(* Mutant: the end of a response overtakes its queued chunks.              *)
DeliveredEndFirst(f) ==
    LET r == Target(f) IN
    IF r # NoReq /\ pc[r] \notin Finished
    THEN [events EXCEPT ![r] = IF f.type = "ResEnd" THEN <<f>> \o @ ELSE Append(@, f)]
    ELSE events

(* A send into the channel of a handler that is over goes nowhere.         *)
Delivered(f) ==
    LET r == Target(f) IN
    IF r # NoReq /\ pc[r] \notin Finished
    THEN [events EXCEPT ![r] = Append(@, f)]
    ELSE events

ReaderRoutes ==
    /\ toProxy # <<>>
    /\ Head(toProxy).type \in {"ResHeaders", "ResBody"}
    /\ events' = Delivered(Head(toProxy))
    /\ toProxy' = Tail(toProxy)
    /\ UNCHANGED <<handlerVars, clientVars, pending, toServe, link, serveVars, taskVars, pings>>

(* Mutant: the entry is looked up, not removed.                            *)
ReaderEndsKeepsEntry ==
    /\ toProxy # <<>>
    /\ Head(toProxy).type \in {"ResEnd", "Error"}
    /\ events' = Delivered(Head(toProxy))
    /\ toProxy' = Tail(toProxy)
    /\ UNCHANGED <<handlerVars, clientVars, pending, toServe, link, serveVars, taskVars, pings>>

ReaderEnds ==
    /\ toProxy # <<>>
    /\ Head(toProxy).type \in {"ResEnd", "Error"}
    /\ events' = Delivered(Head(toProxy))
    /\ pending' = [pending EXCEPT ![Head(toProxy).id] = NoReq]
    /\ toProxy' = Tail(toProxy)
    /\ UNCHANGED <<handlerVars, clientVars, toServe, link, serveVars, taskVars, pings>>

ReaderPongs ==
    /\ toProxy # <<>>
    /\ Head(toProxy).type = "Ping"
    /\ toServe' = Put(toServe, Pong)
    /\ toProxy' = Tail(toProxy)
    /\ UNCHANGED <<handlerVars, clientVars, events, pending, link, serveVars, taskVars, pings>>

(* A Pong, and every type a proxy does not expect, is only logged.         *)
ReaderIgnores ==
    /\ toProxy # <<>>
    /\ Head(toProxy).type \in ReqTypes \cup {"Pong"}
    /\ toProxy' = Tail(toProxy)
    /\ UNCHANGED <<handlerVars, clientVars, events, pending, toServe, link, serveVars,
                   taskVars, pings>>

Reader == ReaderRoutes \/ ReaderEnds \/ ReaderPongs \/ ReaderIgnores

-----------------------------------------------------------------------------
(***************************************************************************)
(* The loop of run_serve.                                                  *)
(***************************************************************************)
ServeNext(types) == serveUp /\ toServe # <<>> /\ Head(toServe).type \in types

ServeHeaders ==
    /\ ServeNext({"ReqHeaders"})
    /\ LET f == Head(toServe) IN
       /\ srvReq' = [srvReq EXCEPT ![f.id] = f.req]
       /\ srvBody' = [srvBody EXCEPT ![f.id] = <<>>]
    /\ toServe' = Tail(toServe)
    /\ UNCHANGED <<handlerVars, clientVars, events, pending, toProxy, link, serveUp,
                   taskVars, pings>>

ServeBody ==
    /\ ServeNext({"ReqBody"})
    /\ LET f == Head(toServe) IN
       srvBody' = IF srvReq[f.id] # NoReq
                  THEN [srvBody EXCEPT ![f.id] = Append(@, <<f.req, f.n>>)]
                  ELSE srvBody
    /\ toServe' = Tail(toServe)
    /\ UNCHANGED <<handlerVars, clientVars, events, pending, toProxy, link, serveUp, srvReq,
                   taskVars, pings>>

(* The entry is removed and a task is spawned for it.                      *)
ServeEnd ==
    /\ ServeNext({"ReqEnd"})
    /\ LET i == Head(toServe).id
           r == srvReq[i] IN
       IF r # NoReq
       THEN /\ srvReq' = [srvReq EXCEPT ![i] = NoReq]
            /\ srvBody' = [srvBody EXCEPT ![i] = <<>>]
            /\ h' = [h EXCEPT ![r] = "upstream"]
            /\ upBody' = [upBody EXCEPT ![r] = srvBody[i]]
       ELSE UNCHANGED <<srvReq, srvBody, h, upBody>>
    /\ toServe' = Tail(toServe)
    /\ UNCHANGED <<handlerVars, clientVars, events, pending, toProxy, link, serveUp,
                   hStatus, resSent, pings>>

ServePongs ==
    /\ ServeNext({"Ping"})
    /\ toProxy' = Put(toProxy, Pong)
    /\ toServe' = Tail(toServe)
    /\ UNCHANGED <<handlerVars, clientVars, events, pending, link, serveVars, taskVars, pings>>

ServeIgnores ==
    /\ ServeNext(ResTypes \cup {"Pong"})
    /\ toServe' = Tail(toServe)
    /\ UNCHANGED <<handlerVars, clientVars, events, pending, toProxy, link, serveVars,
                   taskVars, pings>>

(* The failure wins the select: queued frames are never processed.         *)
ServeExit ==
    /\ serveUp
    /\ link = "down"
    /\ serveUp' = FALSE
    /\ UNCHANGED <<handlerVars, clientVars, events, pending, toServe, toProxy, link, srvReq,
                   srvBody, taskVars, pings>>

Serve == ServeHeaders \/ ServeBody \/ ServeEnd \/ ServePongs \/ ServeIgnores

-----------------------------------------------------------------------------
(***************************************************************************)
(* The task that runs handle_request.                                      *)
(***************************************************************************)
UpstreamAnswers(r) ==
    /\ h[r] = "upstream"
    /\ hStatus' = [hStatus EXCEPT ![r] = 200]
    /\ h' = [h EXCEPT ![r] = "headers"]
    /\ UNCHANGED <<handlerVars, clientVars, events, pending, toServe, toProxy, link,
                   serveVars, resSent, upBody, pings>>

UpstreamFails(r) ==
    /\ h[r] = "upstream"
    /\ hStatus' = [hStatus EXCEPT ![r] = 502]
    /\ h' = [h EXCEPT ![r] = "headers"]
    /\ UNCHANGED <<handlerVars, clientVars, events, pending, toServe, toProxy, link,
                   serveVars, resSent, upBody, pings>>

TaskSendsHeaders(r) ==
    /\ h[r] = "headers"
    /\ toProxy' = Put(toProxy, FrameOf("ResHeaders", r, hStatus[r]))
    /\ h' = [h EXCEPT ![r] = "body"]
    /\ UNCHANGED <<handlerVars, clientVars, events, pending, toServe, link, serveVars,
                   hStatus, resSent, upBody, pings>>

(* A 502 has one body chunk, the text of the error.                        *)
ChunksLeft(r) == resSent[r] < IF hStatus[r] = 502 THEN 1 ELSE MaxResChunks

TaskSendsBody(r) ==
    /\ h[r] = "body"
    /\ ChunksLeft(r)
    /\ toProxy' = Put(toProxy, FrameOf("ResBody", r, resSent[r] + 1))
    /\ resSent' = [resSent EXCEPT ![r] = @ + 1]
    /\ UNCHANGED <<handlerVars, clientVars, events, pending, toServe, link, serveVars, h,
                   hStatus, upBody, pings>>

(* Mutant: the error becomes a second, late status.                        *)
TaskSendsLate502(r) ==
    /\ h[r] = "body"
    /\ hStatus[r] = 200
    /\ toProxy' = Put(toProxy, FrameOf("ResHeaders", r, 502))
    /\ h' = [h EXCEPT ![r] = "broken"]
    /\ UNCHANGED <<handlerVars, clientVars, events, pending, toServe, link, serveVars,
                   hStatus, resSent, upBody, pings>>

(* Mutant: a broken upstream ends the task by `?`.                         *)
TaskDropsError(r) ==
    /\ h[r] = "body"
    /\ hStatus[r] = 200
    /\ h' = [h EXCEPT ![r] = "dead"]
    /\ UNCHANGED <<handlerVars, clientVars, events, pending, toServe, toProxy, link,
                   serveVars, hStatus, resSent, upBody, pings>>

(* The upstream drops its body mid-stream.                                 *)
TaskSendsError(r) ==
    /\ h[r] = "body"
    /\ hStatus[r] = 200
    /\ toProxy' = Put(toProxy, FrameOf("Error", r, 0))
    /\ h' = [h EXCEPT ![r] = "broken"]
    /\ UNCHANGED <<handlerVars, clientVars, events, pending, toServe, link, serveVars,
                   hStatus, resSent, upBody, pings>>

TaskSendsEnd(r) ==
    /\ \/ h[r] = "body" /\ (hStatus[r] = 502 => ~ChunksLeft(r))
       \/ h[r] = "broken"
    /\ toProxy' = Put(toProxy, FrameOf("ResEnd", r, 0))
    /\ h' = [h EXCEPT ![r] = IF @ = "body" THEN "done" ELSE "aborted"]
    /\ UNCHANGED <<handlerVars, clientVars, events, pending, toServe, link, serveVars,
                   hStatus, resSent, upBody, pings>>

(* Any send that fails ends the task by `?`: no Error and no End follow.   *)
(* The upstream's headers may be too long for one frame (Framing).         *)
TaskSendFails(r) ==
    /\ h[r] \in TaskSending
    /\ link = "down" \/ (h[r] = "headers" /\ hStatus[r] = 200)
    /\ h' = [h EXCEPT ![r] = IF @ = "broken" THEN "aborted" ELSE "dead"]
    /\ UNCHANGED <<handlerVars, clientVars, events, pending, toServe, toProxy, link,
                   serveVars, hStatus, resSent, upBody, pings>>

-----------------------------------------------------------------------------
Handler(r) ==
    \/ Register(r) \/ SendHeaders(r) \/ SendHeadersFails(r) \/ SendBody(r)
    \/ SendBodyFails(r) \/ SendEnd(r) \/ AwaitHeaders(r) \/ AwaitSkipsBody(r)
    \/ AwaitFails(r) \/ AwaitTimesOut(r) \/ Cleanup(r)

Forwarder(r) ==
    ForwardBody(r) \/ ForwardToNobody(r) \/ ForwardSkipsHeaders(r) \/ ForwardEnds(r)

Client(r) == Accept(r) \/ Collect(r) \/ CollectFails(r) \/ HangUp(r)

Upstream(r) == UpstreamAnswers(r) \/ UpstreamFails(r)

Task(r) ==
    \/ TaskSendsHeaders(r) \/ TaskSendsBody(r) \/ TaskSendsError(r) \/ TaskSendsEnd(r)
    \/ TaskSendFails(r)

Next ==
    \/ \E r \in Requests :
          Client(r) \/ Handler(r) \/ Forwarder(r) \/ Upstream(r) \/ Task(r)
    \/ Reader \/ Serve \/ ServeExit
    \/ SendPing \/ LinkFails

Spec == Init /\ [][Next]_vars

(***************************************************************************)
(* Fairness: the tokio runtimes poll every task that can run.  Nothing is  *)
(* promised about clients, keepalive or the link.  FairSpec assumes        *)
(* nothing outside the proxy's handlers.  TunnelFairness, which the        *)
(* properties that need more assume, has WF on Upstream(r) and Task(r): an *)
(* upstream that answers, and bodies that end, for the code sets no        *)
(* timeout on either (serve.rs:207-216).                                   *)
(***************************************************************************)
FairSpec == Spec /\ \A r \in Requests : WF_vars(Handler(r))

TunnelFairness ==
    /\ \A r \in Requests :
          WF_vars(Forwarder(r)) /\ WF_vars(Upstream(r)) /\ WF_vars(Task(r))
    /\ WF_vars(Reader)
    /\ WF_vars(Serve \/ ServeExit)

-----------------------------------------------------------------------------
(* No other request was ever given the stream id of r.  Ids are reused     *)
(* after MaxId + 1 requests, and nothing below is promised across a reuse. *)
UniqueId(r) ==
    /\ pc[r] # "idle"
    /\ \A q \in Requests \ {r} : pc[q] # "idle" => sid[q] # sid[r]

(* Requests that share the channel never see each other's data: headers    *)
(* and body chunks given to a client, and the body an upstream is called   *)
(* with, belong to that request (routing by id in proxy.rs and serve.rs).  *)
Isolation ==
    \A r \in Requests : UniqueId(r) =>
        /\ reply[r][1] \in {r, NoReq}
        /\ \A i \in DOMAIN got[r] : got[r][i][1] = r
        /\ \A i \in DOMAIN upBody[r] : upBody[r][i][1] = r

(* A client sees a gap-free prefix of what handle_request sent for it, and *)
(* its response was started by the headers of that same response.          *)
ResponsePrefix ==
    \A r \in Requests : UniqueId(r) =>
        /\ got[r] = Chunks(r, Len(got[r]))
        /\ Len(got[r]) <= resSent[r]
        /\ got[r] # <<>> => reply[r] = <<r, hStatus[r]>>

(* The upstream is called with the request body whole and in order: what   *)
(* serve collects under a stream's id is all the client sent, whichever    *)
(* frames of the other request come between.  That holds too where ReqEnd  *)
(* follows a chunk that failed to be sent (proxy.rs:326), on a link that   *)
(* is down for good.                                                       *)
RequestWhole ==
    \A r \in Requests : UniqueId(r) /\ h[r] # "none" =>
        upBody[r] = Chunks(r, reqLen[r])

(* "Response headers (sent exactly once, first)" (proxy.rs:28): they head  *)
(* the channel until taken, and none comes after.                          *)
HeadersFirst ==
    \A r \in Requests : UniqueId(r) =>
        \A i \in DOMAIN events[r] :
            events[r][i].type = "ResHeaders" <=> i = 1 /\ pc[r] \notin Forwarding

(* A response body that ended early is an upstream that broke off: neither *)
(* a lost link nor another stream's end closes a body.                     *)
NoEarlyEnd ==
    \A r \in Requests : UniqueId(r) /\ pc[r] = "closed" =>
        \/ h[r] = "done" /\ got[r] = Chunks(r, resSent[r])
        \/ h[r] \in {"broken", "aborted"}

(* "Channel closed - body complete" (proxy.rs:241): a body that ends       *)
(* cleanly for the client is the whole body of the upstream.               *)
CleanEndIsComplete ==
    \A r \in Requests : UniqueId(r) /\ pc[r] = "closed" => h[r] = "done"

(* Once a handler is over and the frames of its stream are through, map    *)
(* entries are left only by a client that hung up, and then only if its    *)
(* ReqEnd was not sent or the serve task died at its headers (the removals *)
(* of proxy.rs:140-150, 309-370 and serve.rs:126 miss no other).           *)
InFlight(r) ==
    \E q \in {toServe, toProxy} : \E i \in DOMAIN q : q[i].req = r
LeakOnlyByHangUp ==
    \A r \in Requests :
        /\ link = "up" /\ UniqueId(r)
        /\ pc[r] \in Finished \/ h[r] \in TaskOver \ {"dead"}
        /\ h[r] \in {"none"} \cup TaskOver
        /\ ~InFlight(r)
        => \/ sid[r] \notin {i \in Ids : r \in {pending[i], srvReq[i]}}
           \/ pc[r] = "gone" /\ h[r] \in {"none", "dead"}

(* The tunnel implements independent HTTP exchanges: multiplexing, lost    *)
(* links, time-outs and hang-ups add no behaviour a client or an upstream  *)
(* could tell from HttpExchange.                                           *)
Phase(r) ==
    CASE pc[r] \in {"idle", "collect"} -> "new"
      [] pc[r] \in Waiting \ {"collect"} -> "open"
      [] pc[r] = "answered" -> "refused"
      [] pc[r] = "stream" -> "streaming"
      [] pc[r] = "closed" -> "closed"
      [] pc[r] \in {"gone", "orphan", "dropped"} -> "left"
CallOf(r) ==
    CASE h[r] = "none" -> "no"
      [] h[r] \in {"upstream", "headers", "body", "dead"} -> "made"
      [] h[r] = "done" -> "whole"
      [] h[r] \in {"broken", "aborted"} -> "cut"
Exchange == INSTANCE HttpExchange WITH
    phase <- [r \in Requests |-> Phase(r)],
    size <- reqLen,
    call <- [r \in Requests |-> CallOf(r)],
    body <- upBody,
    made <- resSent,
    seen <- got
ExchangeSpec == Exchange!Spec

(* Whatever the link, the serve side and the upstream do, a client whose   *)
(* request was read gets an answer: no await before the headers is without *)
(* a way out (timeout of proxy.rs:339).                                    *)
Answered ==
    \A r \in Requests :
        pc[r] = "register" ~> pc[r] \in Finished \cup Forwarding

(* While the link holds, a response that began comes to its end.           *)
StreamEnds ==
    TunnelFairness =>
        \A r \in Requests :
            pc[r] \in Forwarding ~> pc[r] \in Finished \/ link = "down"

(* While the link holds, a request sent in full leaves no entry behind,    *)
(* whether it is answered, times out or is abandoned by its client: unless *)
(* that client left before a serve task died at headers too long to send.  *)
DiedUnheard(r) == pc[r] = "gone" /\ \E q \in Requests : sid[q] = sid[r] /\ h[q] = "dead"
EntryReleased ==
    TunnelFairness =>
        \A r \in Requests :
            pc[r] = "await" ~> pending[sid[r]] # r \/ link = "down" \/ DiedUnheard(r)
=============================================================================
