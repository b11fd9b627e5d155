---------------------------- MODULE HttpExchange ----------------------------
(***************************************************************************)
(* What the tunnel promises, with no tunnel in it: independent HTTP        *)
(* exchanges between a client and an upstream.  The upstream is called at  *)
(* most once, with the whole request body; the client reads a prefix of    *)
(* what the upstream produced, and the body it reads is closed only at the *)
(* end of what was produced or after the upstream broke off.               *)
(***************************************************************************)
EXTENDS Naturals, Sequences

CONSTANTS Requests, MaxReqChunks

VARIABLES
    phase,  \* of the client: "new", "open", "streaming", "closed", "refused" or "left"
    size,   \* chunks of the request body
    call,   \* "no", "made", "whole" or "cut": the upstream's side of the exchange
    body,   \* the request body the upstream received
    made,   \* chunks the upstream produced
    seen    \* chunks the client was given

vars == <<phase, size, call, body, made, seen>>

Init ==
    /\ phase = [r \in Requests |-> "new"]
    /\ size = [r \in Requests |-> 0]
    /\ call = [r \in Requests |-> "no"]
    /\ body = [r \in Requests |-> <<>>]
    /\ made = [r \in Requests |-> 0]
    /\ seen = [r \in Requests |-> <<>>]

Open(r) ==
    /\ phase[r] = "new"
    /\ phase' = [phase EXCEPT ![r] = "open"]
    /\ \E n \in 0..MaxReqChunks : size' = [size EXCEPT ![r] = n]
    /\ UNCHANGED <<call, body, made, seen>>

Call(r) ==
    /\ phase[r] # "new"
    /\ call[r] = "no"
    /\ call' = [call EXCEPT ![r] = "made"]
    /\ body' = [body EXCEPT ![r] = [i \in 1..size[r] |-> <<r, i>>]]
    /\ UNCHANGED <<phase, size, made, seen>>

Produce(r) ==
    /\ call[r] = "made"
    /\ made' = [made EXCEPT ![r] = @ + 1]
    /\ UNCHANGED <<phase, size, call, body, seen>>

(* The upstream completes its response, or breaks it off.                  *)
Finish(r) ==
    /\ call[r] = "made"
    /\ \E end \in {"whole", "cut"} : call' = [call EXCEPT ![r] = end]
    /\ UNCHANGED <<phase, size, body, made, seen>>

(* The tunnel answers in the upstream's place: an error status, no stream. *)
Refuse(r) ==
    /\ phase[r] \in {"new", "open"}
    /\ phase' = [phase EXCEPT ![r] = "refused"]
    /\ UNCHANGED <<size, call, body, made, seen>>

Respond(r) ==
    /\ phase[r] = "open"
    /\ call[r] # "no"
    /\ phase' = [phase EXCEPT ![r] = "streaming"]
    /\ UNCHANGED <<size, call, body, made, seen>>

Deliver(r) ==
    /\ phase[r] = "streaming"
    /\ Len(seen[r]) < made[r]
    /\ seen' = [seen EXCEPT ![r] = Append(@, <<r, Len(@) + 1>>)]
    /\ UNCHANGED <<phase, size, call, body, made>>

Close(r) ==
    /\ phase[r] = "streaming"
    /\ \/ call[r] = "whole" /\ Len(seen[r]) = made[r]
       \/ call[r] = "cut"
    /\ phase' = [phase EXCEPT ![r] = "closed"]
    /\ UNCHANGED <<size, call, body, made, seen>>

Leave(r) ==
    /\ phase[r] \in {"new", "open", "streaming"}
    /\ phase' = [phase EXCEPT ![r] = "left"]
    /\ UNCHANGED <<size, call, body, made, seen>>

Next ==
    \E r \in Requests :
        \/ Open(r) \/ Call(r) \/ Produce(r) \/ Finish(r) \/ Refuse(r)
        \/ Respond(r) \/ Deliver(r) \/ Close(r) \/ Leave(r)

Spec == Init /\ [][Next]_vars
=============================================================================
