# p2p-llm-tunnel: a verification development

The program carries HTTP requests from a **proxy** (next to an HTTP client) to a
**serve** process (next to an upstream such as an LLM server) over one WebRTC
data channel. The two find each other through a **signaling server**.

```
 HTTP client ── proxy.rs ══ WebRTC data channel (rtc.rs, protocol.rs) ══ serve.rs ── upstream
                   └── signaling.rs ── index.ts (rooms of two) ── signaling.rs ──┘
```

## 1. Inventory

| part | state it keeps | operations | talks to |
|---|---|---|---|
| `proxy.rs` | `stream_counter`, `PendingResponses` (stream id → sender of an event channel), one event channel and one body channel per request | `handle_proxy_request`, its forwarder task, the reader task, keepalive, accept loop, handshake | HTTP clients, the data channel |
| `serve.rs` | `pending_requests` (stream id → headers and body so far), one task per request | message loop of `run_serve`, `handle_request`, keepalive, handshake, `build_upstream_url` | the data channel, the upstream |
| `protocol.rs` | none | frame constructors, `encode`, `decode`, `Agree::from_hello` | |
| `rtc.rs` | peer connection, data channel, buffered candidates, `Notify` objects | `connect` (role), `establish_as_offerer`, `establish_as_answerer` | signaling client, webrtc crate |
| `signaling.rs` | two unbounded channels | connect and join, writer task, reader task, bye on drop | signaling server |
| `main.rs` | `attempt` | `run_with_retry` with exponential backoff | all of the above |
| `index.ts` | `peers`, `rooms`, `peerId` of each connection | join, offer/answer/candidate relay, bye, close, error | signaling clients |

What makes it hard, and what makes each part correct:

- **Multiplexing.** Everything about a request crosses one channel under a 32-bit
  stream id, and is put together again by maps keyed on that id, while handlers,
  reader, forwarders and upstream tasks run concurrently. Correct: no request
  sees another's data; a client reads a prefix of its own response, in order.
- **Partial failure.** A send, the upstream, the client or the link may fail
  between any two steps, and each failure has its own early return. Correct: a
  response is never closed as complete because of a lost link, an upstream is
  never called with part of a body, every request is answered, entries go away.
- **Races.** The 60 s timer against late frames; a hang-up, which cancels the
  handler at any `await`; the counter wrapping onto an id in use.
- **Rooms.** Two peers at most, in a server whose `error`, `close` and `bye`
  handlers all remove the peer. Correct: the records agree, a dead connection
  holds no place, and a client learns of its peer before it hears from it.
- **Sessions.** Two processes that connect, agree on a version, fail and start over, each
  on its own. Correct: a handshake takes only the frame it expects, both ends hold
  the same version, the keepalive of serve lasts as long as its loop (with one exception, `serve.rs:113`), no process
  is stuck between two attempts.
- **Meeting.** The role of a process, offerer or answerer, is decided by the first
  signals it reads; candidates come before the description they belong to; a peer
  may leave, stop or start over at any time, and what it was sent reaches whoever
  took its place. Correct: partners never have the same role, no signal between them is
  lost or ignored, a session comes of two attempts that chose each other, and a
  process that gave up neither waits for ever nor keeps its place in the room.
- **Bytes and texts.** Bodies are cut into frames by offsets, ids written as bytes,
  paths and headers rewritten on the way. Correct: what one end encodes the other decodes, a
  body is put together as it was, and every path of the upstream can be had.
- **Notifications.** `Notify::notify_waiters` keeps no permit, so an event that
  comes while nobody waits is lost (`rtc.rs:83,169,170,352`).

The complete list, each hazard at its line with the properties that cover it,
is `hazards` in `PROJECT.json`.

## 2. Modules

| module | what it is |
|---|---|
| `Tunnel` | the data plane of one established session: proxy, serve and the channel |
| `HttpExchange` | what the tunnel promises, without a tunnel: independent exchanges |
| `TunnelProofs` | types and isolation of streams, proved |
| `TunnelOrderProofs` | order and completeness of streams, proved |
| `TunnelExchangeProofs` | that it implements `HttpExchange`, and what its maps keep, proved |
| `Framing`, `FramingProofs` | frames as bytes, and bodies cut into them; theorems |
| `Forwarding`, `ForwardingProofs` | the path and the headers of a request and its response; theorems |
| `SignalServer` | the signaling server, with clients that may send anything |
| `SignalServerProofs` | the server's own records, and what its clients conclude from its messages, proved |
| `Rendezvous` | extends `SignalServer` with the program's clients: how two processes meet |
| `RendezvousProofs` | that it implements `SignalServer`, and theorems about roles, partners and candidates |
| `Session` | both processes over several connections: handshake, loops, failures, retry |
| `SessionProofs` | theorems about `Session` |
| `MCTunnel`, `MCSignalServer`, `MCRendezvous`, `MCSession`, `MCForwarding` | symmetry sets and values of constants for the runs |

The layers rest on each other as in the program. `Rendezvous` ends where a data channel
is open, which is where `Session` begins with one step of both processes; `Tunnel` is what
goes over that channel between the handshake and the failure of the link. `Tunnel`
takes a frame for a record and a chunk for a unit, and `Framing` shows why it may.

A definition under a comment that starts with `Mutant:` is a deliberately wrong
variant of the definition after it. Nothing in the model uses it; it is there to
show that the property it belongs to would notice such a bug.

### Tunnel

One action is what one task does between two points where another task may run.

| variable | code |
|---|---|
| `pc[r]` | where `handle_proxy_request` stands for request `r`, and after the headers its forwarder task |
| `sid`, `nextId` | `stream_id`, `stream_counter` (started at 1, `fetch_add`, wraps after `MaxId`) |
| `events[r]` | the event channel of `r`; `pending` holds its only sender |
| `pending` | `PendingResponses` |
| `toServe`, `toProxy`, `link` | the data channel, ordered and reliable until the link fails |
| `srvReq`, `srvBody`, `serveUp` | `pending_requests` and the loop of `run_serve` |
| `h`, `hStatus`, `resSent` | the task that runs `handle_request` |
| `reply`, `got`, `upBody` | what the client and the upstream have been given |

`pc` goes `idle`, `collect`, `register`, `sendHeaders`, `sendBody`, (`sendEnd`),
`await`, then `stream`; `failed` and `timedOut` are the error returns on their
way through the lock of the map, `orphan` is a forwarder whose client left. A
request is over when it is `answered` (an error status), `closed` (its body
ended), `dropped` or `gone` (its client left).

A body chunk is a pair of its request and its number; the request is a history
field, never read by an action that models code. A status is 200 for whatever
the upstream said and 502, 504 or 400 for what the tunnel makes up. The choices
that follow from this:

- The forwarder task and the body channel hyper reads from are one step: the
  forwarder never blocks on an unbounded channel, so what the client reads is
  what the forwarder has passed on, later. A forwarder learns that its client left only
  from a chunk it cannot pass on, as in the code.
- A hang-up (`HangUp`) cancels the handler's future wherever it is, as hyper
  does when the connection closes.
- Once the link is down a send fails or its frame is lost. The handlers of connections already open may
  still accept requests, and the reader and serve loop still take what had arrived.
- `reqwest` and hyper agree on what a method is, so the `?` on parsing it in
  `serve.rs:203` is never taken. The listener opens only after the handshake, so the
  503 of `proxy.rs:257` is never given.
- Frames are well formed: both ends use the same `protocol.rs`. What the `?` on headers that do not parse
  (`serve.rs:113`) does to the session is in `Session`.
- An upstream chunk above `MAX_BODY_CHUNK` is several chunks, as in `Framing`.
- The headers of a message are one frame, and nothing compares their length with what
  the channel takes (`serve.rs:258`, `proxy.rs:306`): a headers frame may be refused on
  a link that holds. The handler then answers 502 (`SendHeadersFails`); the serve task
  ends by its `?` without a word (`TaskSendFails`), and the handler with a 504 after
  its 60 s. If the client has hung up by then, its entry stays: `LeakOnlyByHangUp` and
  `EntryReleased` say so (`DiedUnheard`).

### Framing and Forwarding

`Framing` has bytes: `IdBytes` and `IdOf` are `to_be_bytes` and `from_be_bytes`,
`Encode` and `Decode` those of `protocol.rs`. A stream sends its headers,
then pieces of its body (what the upstream's stream yields), each cut by the loop of
`serve.rs` at `MAX_BODY_CHUNK`; the reader decodes what arrives and puts bodies together.
The direction shown is that of responses. The loop for requests (`proxy.rs:318-330`) is
the same with one piece. `BodyUpTo` adds up what the frames under way have of a body. No code looks at a byte of a body, so bytes only have to differ.

`Forwarding` follows one request and its response. A path is a sequence of
characters of which only `/` means anything, and `BuildUpstreamUrl` does to it what
`build_upstream_url` does. Headers are a list in which names may repeat; `Collect` makes
the map that crosses the tunnel, and `Without` drops those of one hop, which are not
the same in the two directions. The value `"binary"` stands for one that is not text
(`to_str` fails).

### SignalServer

A JavaScript handler runs to its end, so it is one action. `ws`, `peerId` and
`inbox` are the connection, the variable of its closure, and the messages on
their way to it; `peers` and `rooms` are the Maps, with `roomKeys` the rooms
that have an entry. Ids are numbered in the order `randomUUID` gives them.
Clients may send anything at any time, more than `signaling.rs` ever does, but messages are JSON objects:
a bare `null` would parse and throw at `msg.type` (`index.ts:111`), outside of the `try`. What
`ws` may do was read from how its events follow each other: messages may be
delivered while the connection is closing, and after `error` only `close` comes.
`view` is what a client can conclude from the messages it has read, in the
order the reader task of `signaling.rs` hands them over.

### Rendezvous

An attempt is one call of `rtc::connect` with the `SignalingClient` it makes and the session that
follows. Each has a WebSocket connection of its own and is named by it, so what is
left of an attempt (its outbox, its place in the room, its candidates) can still meet the next one
of the same process.

| variable | code |
|---|---|
| `current[p]` | the attempt process `p` is in, if any |
| `stage[c]` | where its task stands (see the head of the module) |
| `role[c]` | the branch of `connect` taken |
| `outbox[c]` | the channel to the writer task, and what is on its way to the server; `inbox[c]` of `SignalServer` is the way back |
| `remote`, `buffered`, `applied` | the remote description, the buffered candidates, those added to the peer connection, all by their senders |
| `rtc[c]` | peer connection and data channel, as the webrtc crate reports them |
| `notified[c]` | what the `Notified` futures of the select in progress have been told |

`select` is an `await` of the select, `handle` the rest of a round: what the peer
connection reports in between is not in `notified` and is lost. `prepare` is the making and
sending of the offer, `answering` that of the answer, `settle` the 5 s the offerer
gives its channel. A signal carries its type and sender only.

- The branches for signals that cannot come where a task stands (`rtc.rs:227`, `411`,
  `483`, `487`, `501`) have no action: that they are never taken is what `RoleSignalFirst` and
  `OnlyStraysIgnored` say.
- The webrtc crate is external: `PcConnects`, `ChannelOpens` and `PcFails` say no more than
  that both ends need each other's descriptions, that a connection may fail once it is under way, and that it
  does when the other end is gone.
- A fault is a lost WebSocket, an error of the webrtc crate or a process
  stopped; `MaxFaults` bounds them. A session may end at any time
  (`SessionEnds`); it must (`HandshakeTimesOut`) when its partner is still in `connect`, since then nobody
  answers its handshake.
- `Dial` takes unused connections in a fixed order: which is which makes no difference.

### Session

The main task of each process stands in `state[s]`: `connecting` (`rtc::connect`), `dialed`
(it is about to return), `greet` and `handshake`, then for the proxy `bind`, and
`select` with `busy`, `parse` or `pong` for what is done between two selects; `waitOpen` is
`connected.notified()` of a channel found closed, `backoff` the sleep of
`run_with_retry`, `stopped` a process that is not there. A connection is a number;
`held[s]` is the one of the current session, `tasks[k]` what was spawned on it
and still runs, which for the proxy outlives the session (`proxy.rs:182` aborts nothing).

- `woken[s]` is the `Notified` future of the select in progress. `LinkFails` sets it only
  for a process that stands in its select, and a select that takes its other branch
  drops it: `notify_waiters` keeps nothing.
- Establishing is one step of both processes. The connection may then fail at any
  time, and one process may give up while the other has connected.
- `incoming_rx.recv()` never yields `None`: the handlers of the channel, which the
  session holds, own its sender. The branches for it (`serve.rs:94`, `proxy.rs:78`) have no action.
- Requests and responses are left to `Tunnel`, but for the headers of requests (`SendHeaders`): they
  may come from a handler whose session is over, and make serve's loop leave its select. Headers that serve cannot
  parse, as those of another release may be, end its session by a `?` (`ServeChokes`, `serve.rs:113`), the one way
  out of the loop that does not abort the keepalive; `abandoned` remembers where that happened. Handlers are told
  apart only by connection, and one whose client is gone is one that stays silent.
- `ServeRefuses` leaves out a HELLO of another protocol or one that is no HELLO at all (`serve.rs:45-56`), which
  no proxy sends; it would end the session as an incompatible range does, before any task is spawned.
- The length of the sleep, and with it the count of
  attempts, is left out, as are the features of HELLO (`sse` on either side).

## 3. Runs

| run | instance | shows |
|---|---|---|
| `tunnel_streams` | 2 requests, ids 0..2, 1 request chunk, 2 response chunks, no failure | all invariants of `Tunnel`: `TypeOK`, `Isolation`, `ResponsePrefix`, `HeadersFirst`, `RequestWhole`, `NoEarlyEnd`, `LeakOnlyByHangUp` |
| `tunnel_exchange` | 1 request, 2 chunks each way, 2 pings, link may fail; fair handlers | `ExchangeSpec`, `Answered`, `StreamEnds`, `EntryReleased` |
| `tunnel_reuse` | 2 requests forced onto one id (`MaxId = 0`), fair handlers | `StreamEnds`, `EntryReleased` |
| `tunnel_truncation` | 1 request | `CleanEndIsComplete` is violated (section 5) |
| `framing_bodies` | 2 streams, ids of four different bytes, chunks of 2 bytes, bodies up to 3 | `FramingTypeOK`, `AllDecodable`, `BodyConserved`, `FinishedWhole`, `BodyFramesFit` |
| `forward_all` | paths up to 5 characters, prefixes up to 3, 3 upstreams, 2 headers | `AdvertisedReachesUpstream`, `SingleHeadersArrive` |
| `signal_rooms` | 3 connections, 2 rooms, 3 peer ids, 2 messages under way | all properties of `SignalServer` |
| `meet_faults` | 2 processes, 3 attempts, 1 candidate each, 1 fault | all invariants of `Rendezvous`: `RendezvousTypeOK`, `RoleSignalFirst`, `OnlyStraysIgnored`, `SessionsPaired`, `RolesMatch`, `CandidatesKept` |
| `meet_ends` | 2 processes, 3 attempts, 1 fault, fair tasks | `EstablishingEnds`, `PlaceReleased` |
| `meet_connected` | 2 processes, 2 attempts, no fault | `ConnectedDetected` is violated (section 5) |
| `session_life` | 2 connections, a range with common versions and one without, 1 frame under way, fair tasks and timers | all properties of `Session`, `SessionSettles` among them |
| `session_failure` | 1 connection | `FailureEndsLoop` is violated (section 5) |

**Why the bounds are enough.** Requests interact only through the shared queues,
the counter and the two maps, in pairs: with two, one can overtake, delay or
replace the other at every step, and a third adds no new kind of encounter. Two
chunks make order, loss and an end between them visible; one is enough where
the question is whether a body is whole. Request bodies cut off by a
failing link are in `tunnel_exchange`, two uploads at once in `tunnel_streams`;
`RequestWhole` and `NoEarlyEnd` for a link that fails follow there from `ExchangeSpec`, and are
proved for every instance. With `MaxId = 2` two requests get the
ids 1 and 2 and the counter then wraps; `MaxId = 0` makes every request reuse the
one id.

Ids 0x01020304 and 0x04030201 are each the other in the wrong byte order. Pieces of 0 to 3 bytes with
chunks of 2 are shorter than a chunk, one chunk, and one and a part, alone or after another piece. Paths
of five characters hold a prefix twice over, one that the path only
starts with by its letters, and slashes at every end; two headers are the same name twice, a name
of one hop, or one that is not text.

A third connection can find a room full, and can take the place of one
that left; two rooms show relays that would cross. One relayed type stands for
the three, whose handlers are alike; `Rendezvous` has all three. `MaxInbox` stops a handler only until the
client has read, and in `Rendezvous` (9) never; `MaxPeers` bounds joins. Three attempts of two processes
are the least for a newcomer to meet what is left of one that is gone, its signals and its
place included; one fault anywhere breaks one of them, and sessions that end break more. With `MaxCandidates = 0` in `meet_ends`
candidates, which end no wait, are left out. A second connection of `Session` meets what is left of the first; a third
would meet no more. One version range starts in serve's and goes beyond it, the other has
nothing of it; a range that ends below serve's maximum is left to `VersionsAgree`, which holds for all. A ping or
headers are put on a connection that carries nothing: whether one comes before the HELLO or the AGREE shows so, and
longer channels are left to `HandshakeInOrder`.

**Symmetry** is used in the runs of invariants only: requests in `tunnel_streams`,
connections and rooms in `signal_rooms`, processes in `meet_faults`. Nothing orders them but the
ids they are given.

**Deadlock.** Nothing needs to go on for ever in `Tunnel`, `SignalServer`, `Rendezvous` and
`Framing` (no request need come, no peer need join, attempts and bodies are bounded), so deadlock is not checked
there; that nothing gets stuck half-way is what the liveness properties say.
Processes restart for ever in `Session` and requests follow each other in `Forwarding`, where deadlock is checked.

**Fairness.** A tokio runtime polls every task that can run, hence weak fairness.

- `Tunnel!FairSpec` is fair to the proxy's handlers and to nothing else: the timer of `AwaitTimesOut` is part
  of its handler, since a timer that is not disarmed fires. `Answered` needs no more.
  `StreamEnds` and `EntryReleased` assume `TunnelFairness` besides: forwarders,
  reader, serve loop and tasks, and an upstream that answers and whose bodies end, because the code sets no timeout
  on either: without it a stream lasts as long as the upstream likes, and the
  entry of a client that hung up stays. Nobody is promised that clients act, that
  pings are sent, or that the link holds or fails. The two properties are about a link that
  holds; after a failure the forwarder has nothing to wait for and waits.
- `FairMeetSpec` is fair to the tasks of each attempt, to the writer task and the server (`Deliver`), to
  what the webrtc crate does, and to the timeout of a handshake that nobody
  answers; and a host closes the connections of a process that is gone. It promises
  no dialling and no fault. `EstablishingEnds` has two exceptions, which the code has no
  way out of: a failure that no select heard (`FailureMissed`), and a peer that
  is still in a session with an earlier attempt and reads no signals (`PeerInOtherSession`).
- `Session!FairSpec` is fair to each process's own steps, with their timers, and to the reader; it
  promises no connection, no client and no keepalive.

**Refinement.** `ExchangeSpec` is `HttpExchange!Spec` under the mapping at the
end of `Tunnel` (`Phase`, `CallOf`): every step of the tunnel is a step of one
exchange or changes nothing that a client or an upstream could see. Timeouts,
hang-ups and failed sends map to `Refuse`, `Leave` and stuttering. It does not
hold across a reused id, which is why its run has one request, and why `Isolation` and the other
properties of two requests say `UniqueId`; for more requests it is proved (`ExchangeHolds`). `Rendezvous` implements
`SignalServer` with no mapping at all: it keeps its variables, and its clients do less than
anything (`MeetUsesServer`, proved).

## 4. Proofs

TLAPS proves, for all values of the constants under the named assumptions
(`NoReqAssumption`, `BoundAssumption`, `AbsentAssumption`, `RelayAssumption`,
`SignalBounds`, `RoomAssumption`, `RendezvousBounds`, `SessionBounds`, `StreamsAssumption`, `ChunkAssumption`,
`FramingBounds`, `ForwardingBounds`: absent values are not members, bounds are natural numbers, there is a
room and there are three relayed types, stream ids have 32 bits and a chunk has a byte at least):

- `TypeCorrect`: `Spec => []TypeOK` of `Tunnel`, one step per action.
- `IsolationHolds`: `Spec => []Isolation`. `Isolation` is not inductive: the data a client
  is given comes from its event channel, that from a frame and a map entry, that
  from a frame of the other direction and another map. `RoutedById` strengthens
  it: in every place that belongs to a stream id (a frame, an entry, a body, an
  event channel, what was given out) all data belongs to requests that were given
  that id. `TypeOK /\ RoutedById` is inductive; a request whose id no other
  was given is then alone in it. Every step but `Accept` leaves the relation of
  requests and ids alone (`SameIds`), and `Accept` only extends it.
- `RequestsArriveWhole`, `ResponsesInOrder`, `HeadersLead`, `EndsAreReal`: the invariants of
  order. What a client has been given says nothing of what comes next, so
  `OrderInv` gives every frame of a stream a position (headers, chunks, end): what is
  in a queue of a stream are the next positions after the last one taken out, in order, none missing
  before its last; and as long as the link holds, none is missing up to what its sender has
  sent. A link that fails only cuts off the tails of queues, which is why order survives it and
  why an end that arrives proves the body before it. It is about streams with
  `UniqueId`, and inductive with `TypeOK /\ RoutedById`.
- `TunnelIsExchanges`, `ExchangeHolds`: the refinement, step by step. A step of one request moves its phase
  or its call at most once (`Phases`, `Calls`), and what an abstract step asks for (the body of a call is whole,
  a client sees what was made, a clean end is an end) is what `OrderInv` has before and after it.
  The first theorem takes distinct ids as its hypothesis; `IdsDistinct` proves that from
  `EnoughIds`, at most as many requests in a session as there are stream ids: the n-th got id n (`Fresh`).
- `LeaksOnlyByHangUp`: an entry goes with a frame or with its handler, so `LeakInv` says which frames an
  entry can still count on: a response that ended has its `ResEnd` under way as long as it has an entry
  (`Replied`), and of a request sent to its end all that was not taken yet is under way, or nothing was ever sent
  (`Asked`). With none under way, only a handler that never got to its cleanup is left.
- `FramingTypeCorrect`, `FramesDecode`, `ChunksFit`, from `FramingInv`: every frame under way is the
  encoding of a message, and body frames have between 1 and `MaxChunk` bytes; the four
  bytes of an id give it back by the arithmetic of 32 bits.
- `BodiesConserved` (`BodyConserved`) and `FinishedHaveAll` (`FinishedWhole`), from `BodyInv`. What is received, under
  way and in hand is the body only because the end of a stream is its last frame and comes when nothing is in hand
  (`EndsLast`): a reader that has finished takes nothing more. What is under way is a recursion over frames; its laws
  (one frame more at the end, one less in front) go by induction on the set of their numbers (`SetInduction`, from the
  well-foundedness of `<`).
- `HeadersPassedOn` (`SingleHeadersArrive`) and `UpstreamReachable` (`AdvertisedReachesUpstream`) of `Forwarding`. The first
  relates two ends of a hop, so `HeadersInv` has the frame between them; `UrlInv` keeps the options and the path until
  the url is made. That the last of equal names, and the end of a trimmed text, exist at all is `LastOf` and `LeastOf`.
- `SignalTypeCorrect`, `RoomsConsistent` (`Registered`), `RoomsBounded` (`RoomSizes`), `PlacesFreed`
  (`NoGhosts`), `PeerAlwaysKnown` (`NoDanglingPeer`). None of them is
  inductive alone: `removePeer` finds the place through the record, `close` finds the
  record through `peerId`. Their conjunction with `Fresh` (no trace of an id not yet
  handed out, one owner for each, a new connection has none) is `RoomInv`, which is
  inductive. `RemovePeerEffect` says what `removePeer` does whether or not there is a
  record, and `LeaveKeepsInv` covers bye, error and close at once.
- `ViewsMatchRooms` (`ViewIsRoom`), `RelaysFollowIntroduction` (`RelayFromKnownPeer`), from `ViewInv`: on
  top of `RoomInv`, what a client will know once it has read its inbox is who is in its room
  (`KnowsAtLast`), and every relay in an inbox finds its sender known when its turn comes (`RelaysKnown`).
- `MeetUsesServer`: `MeetSpec => SignalSpec`, so that the five theorems before it
  hold of the rendezvous. `MeetTypeCorrect`, and `RolesAlwaysMatch` (`RolesMatch`), from `MeetInv`: ids grow with
  the age of attempts, an attempt joins once, and of two that take each other for their peer the older is the
  offerer (`RoleByAge`), since it alone can have found the room empty.
- `RoleDecidedFirst` (`RoleSignalFirst`), `StraysComeFromStrangers` (`OnlyStraysIgnored`) and `SessionsArePaired`
  (`SessionsPaired`), from `TalkInv`. What an attempt may find in its inbox depends on what the server
  thinks of it and on what its peer has done, so `TalkInv` adds to `MeetInv` and `ViewInv`: an id belongs to one attempt
  and server and client agree on it (`OneOwner`); what is in outbox and inbox in each stage (`Phases`); offers come
  from offerers and answers from answerers (`SentBy`); and a peer connection was given what its
  partner sent, and connects only to one that has its description (`Described`).
- `CandidatesAllKept` (`CandidatesKept`). Candidates are counted between partners, but are sent, and may arrive, before the
  choice is mutual. `NothingLost` therefore counts them from the moment two attempts may still choose each other
  (`Meeting`), and is inductive with `TalkInv`.
- `SessionTypeCorrect`, `HandshakeInOrder`, `VersionsAgree`, `KeepaliveAccounted`, from the inductive
  `SessionInv`. What a handshake finds in its channel depends on how far the other side got, so the
  invariant ties them per connection: until serve agrees nothing goes back (`Order`), until the
  proxy has the AGREE that frame leads the channel or was lost with the link, and only HELLO goes the
  other way; `Phases` and `TasksLate` say who can have sent anything else, `Unmade`
  that a new connection starts empty. `KeepaliveOutlives` is inductive with them: a connection that
  was left in the middle of its loop is never taken up again (`Unmade`).

Only model-checked: the liveness properties (`Answered`, `StreamEnds`, `EntryReleased`, `EstablishingEnds`,
`PlaceReleased`, `SessionSettles`), which TLAPS cannot prove. Every invariant and every refinement that
a passing run checks has a theorem.

## 5. Findings

**Truncated bodies.** `proxy.rs:241` says of a body channel that closes: "Channel closed — body
complete". It also closes when the upstream broke off (`proxy.rs:408-412`), and
then too the client's HTTP body ends cleanly: the client cannot tell a truncated
response from a whole one. `tunnel_truncation` shows the behaviour.

**Lost failure.** `serve.rs:84` and `proxy.rs:181` "Watch for WebRTC connection failure", to end the
loop and so reconnect. The failure comes by `notify_waiters` to a `Notified` made anew each time
round the select: during the handshake, while a frame is handled, or when the select
takes a frame that is ready as well, it is lost, and nothing else ends the loop. `session_failure`
shows a process that waits for ever on a dead connection.

**Lost connection.** `rtc.rs:161` says "Use a Notify to detect when peer connection reaches
Connected state". It is the same kind of `Notify`, so a connection that connects while the offerer handles a
signal is not detected, unless its channel is already open at the end of that round (`rtc.rs:258`):
the offerer goes on waiting beside a channel that opens. It leaves its loop only with
another signal, in practice the `peer-left` of an answerer whose handshake has timed out
after 300 s. `meet_connected` shows it.

Noted on the way, with no run of their own: headers are one frame however long they are (`serve.rs:258`, `proxy.rs:306`);
headers that do not parse end the whole serve session and leave its keepalive running (`serve.rs:113`); the advertise prefix is stripped
without a segment boundary, so `/v1` turns `/v10/x` into `0/x` (`serve.rs:177`); of a header name
that repeats only the last value is passed on (`proxy.rs:273`, `serve.rs:246`), though the comment at
`serve.rs:206` has all headers forwarded but those of one hop.

## 6. Not modelled

- ICE, DTLS and SCTP are the webrtc crate's: `Rendezvous` and `Session` model what it reports, from how the
  code uses it.
- `cli.rs` declares arguments and has no behaviour. The test scripts and mock upstreams drive the
  program and are no part of it.
- Logging, the wording of errors, JSON and URLs as texts, and the list of features in HELLO and AGREE, which
  nothing reads.
- Lengths of time: the backoff of `run_with_retry`, and with it the count of attempts, only sets how
  long a process sleeps. That `attempt` is never reset (`main.rs:133`) is such a length.
- Memory of the unbounded channels: nothing bounds them, and nothing says that something should.
- WebSockets that are half open (`index.ts:126`): how long a host takes to notice is outside the
  repository; `PlaceReleased` assumes that it does.
- HTTP connections that outlive the session which accepted them (`proxy.rs:196`): in `Tunnel` they are requests on
  a link that has failed, which get an error status or their timeout; in `Session` they go on sending headers.

Some hazards are in the models and have no property, because the bad thing does happen and nothing in the
repository promises otherwise: clients of a failed tunnel whose bodies never end (`proxy.rs:395`), a channel that
closed before it was first looked at (`serve.rs:31`), tasks of the proxy that outlive their session
(`proxy.rs:176`), a prefix stripped in the middle of a segment (`serve.rs:177`). The properties name them as their exceptions where
they touch them.
