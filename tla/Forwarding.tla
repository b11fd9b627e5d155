----------------------------- MODULE Forwarding -----------------------------
(***************************************************************************)
(* What becomes of the path and the headers of a request, and of the       *)
(* headers of its response, on their way: build_upstream_url and the       *)
(* header loops of serve.rs and proxy.rs.  A text is a sequence of         *)
(* characters, of which only "/" means anything.  A message has a list of  *)
(* headers, in which a name may come more than once; a map crosses the     *)
(* tunnel.  One request is followed there and back; Tunnel has the rest.   *)
(***************************************************************************)
EXTENDS Naturals, Sequences, SequencesExt, Functions

CONSTANTS
    Letters,        \* the other characters of paths and options
    MaxPath,        \* bound: characters of a path
    MaxOption,      \* bound: characters of --advertise
    Upstreams,      \* values of --upstream
    Names,          \* header names, which hyper and reqwest keep in lower case
    MaxHeaders      \* bound: headers of one message

ASSUME ForwardingBounds ==
    MaxPath \in Nat /\ MaxOption \in Nat /\ MaxHeaders \in Nat /\ "/" \notin Letters

VARIABLES
    upstream,       \* --upstream
    advertise,      \* --advertise
    at,             \* how far the request is: "idle", "tunnel", "upstream", "back"
    path,           \* its path and query
    url,            \* where serve sends it
    sent,           \* the headers a side was given, of the request or the response
    carried,        \* the map of them in the frame
    arrived         \* the headers the other side passes on

forwardVars == <<upstream, advertise, at, path, url, sent, carried, arrived>>
options == <<upstream, advertise>>

Texts(max) == UNION {[1..n -> Letters \cup {"/"}] : n \in 0..max}
Rooted(t) == t # <<>> /\ t[1] = "/"
Binary == "binary"      \* a value that is not text (to_str fails)
Values == {"a", "b", Binary}
HeaderLists == UNION {[1..n -> Names \X Values] : n \in 0..MaxHeaders}
NoHeaders == [n \in {} |-> Binary]

Init ==
    /\ upstream \in Upstreams
    /\ advertise \in {t \in Texts(MaxOption) : t = <<>> \/ Rooted(t)}
    /\ at = "idle"
    /\ path = <<>>
    /\ url = <<>>
    /\ sent = <<>>
    /\ carried = NoHeaders
    /\ arrived = NoHeaders

-----------------------------------------------------------------------------
(* trim_end_matches('/')                                                   *)
TrimEnd(t) ==
    CHOOSE p \in {SubSeq(t, 1, n) : n \in 0..Len(t)} :
        /\ p = <<>> \/ Last(p) # "/"
        /\ \A i \in (Len(p) + 1)..Len(t) : t[i] = "/"

Drop(prefix, t) == SubSeq(t, Len(prefix) + 1, Len(t))

(* Mutant: the options are taken as they were given.                       *)
BuildUpstreamUrlUntrimmed(base, prefix, request) ==
    IF prefix # <<>> /\ IsPrefix(prefix, request)
    THEN base \o (IF prefix = request THEN <<"/">> ELSE Drop(prefix, request))
    ELSE base \o request

BuildUpstreamUrl(base, prefix, request) ==
    LET p == TrimEnd(prefix) IN
    IF p # <<>> /\ IsPrefix(p, request)
    THEN TrimEnd(base) \o (IF p = request THEN <<"/">> ELSE Drop(p, request))
    ELSE TrimEnd(base) \o request

IsText(h) == h[2] # Binary

(* The map has the last value under each name, of the headers at places.   *)
MapOf(headers, places) ==
    [n \in {headers[i][1] : i \in places} |->
        headers[CHOOSE i \in places :
                    headers[i][1] = n /\ \A j \in places : headers[j][1] = n => j <= i][2]]

(* Mutant: a value that is not text ends the loop.                         *)
CollectUntilBinary(headers) ==
    MapOf(headers, {i \in DOMAIN headers : \A j \in 1..i : IsText(headers[j])})

(* A value that is not text is left out.                                   *)
Collect(headers) == MapOf(headers, {i \in DOMAIN headers : IsText(headers[i])})

RequestHopByHop == {"host", "connection", "transfer-encoding"}
ResponseHopByHop == {"transfer-encoding", "connection"}
Without(map, names) == Restrict(map, DOMAIN map \ names)

-----------------------------------------------------------------------------
ProxyAccepts ==
    /\ at = "idle"
    /\ at' = "tunnel"
    /\ path' \in {t \in Texts(MaxPath) : Rooted(t)}
    /\ sent' \in HeaderLists
    /\ carried' = Collect(sent')
    /\ UNCHANGED <<options, url, arrived>>

ServeForwards ==
    /\ at = "tunnel"
    /\ at' = "upstream"
    /\ url' = BuildUpstreamUrl(upstream, advertise, path)
    /\ arrived' = Without(carried, RequestHopByHop)
    /\ UNCHANGED <<options, path, sent, carried>>

ServeAnswers ==
    /\ at = "upstream"
    /\ at' = "back"
    /\ path' = <<>>
    /\ url' = <<>>
    /\ sent' \in HeaderLists
    /\ carried' = Collect(sent')
    /\ arrived' = NoHeaders
    /\ UNCHANGED options

ProxyAnswers ==
    /\ at = "back"
    /\ at' = "idle"
    /\ arrived' = Without(carried, ResponseHopByHop)
    /\ UNCHANGED <<options, path, url, sent, carried>>

Next == ProxyAccepts \/ ServeForwards \/ ServeAnswers \/ ProxyAnswers

Spec == Init /\ [][Next]_forwardVars

-----------------------------------------------------------------------------
(* "When `--advertise /v1` is set, consumers send requests to `/v1/models` *)
(* and this function strips `/v1` to forward `/models` to the upstream"    *)
(* (serve.rs:161): with the prefix in front of it every path of the        *)
(* upstream can be had, one that begins with the prefix again included,    *)
(* whatever slashes the options end in.                                    *)
AdvertisedReachesUpstream ==
    at = "upstream" /\ IsPrefix(TrimEnd(advertise), path) =>
        LET wanted == Drop(TrimEnd(advertise), path) IN
        /\ Rooted(wanted) => url = TrimEnd(upstream) \o wanted
        /\ wanted = <<>> => url = TrimEnd(upstream) \o <<"/">>

HopByHop == {"transfer-encoding", "connection"}
Given(n) == {i \in DOMAIN sent : sent[i][1] = n}
PassedOn == at \in {"upstream", "idle"}

(* In both directions a header that comes once arrives as it was, unless   *)
(* it is for one hop or not text, and nothing arrives that was not sent.   *)
SingleHeadersArrive ==
    PassedOn =>
        /\ \A i \in DOMAIN sent :
              IsText(sent[i]) /\ sent[i][1] \notin RequestHopByHop /\ Given(sent[i][1]) = {i} =>
                 sent[i][1] \in DOMAIN arrived /\ arrived[sent[i][1]] = sent[i][2]
        /\ \A n \in DOMAIN arrived :
              n \notin HopByHop /\ \E i \in Given(n) : sent[i] = <<n, arrived[n]>>
=============================================================================
