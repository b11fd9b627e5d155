------------------------------ MODULE Framing ------------------------------
(***************************************************************************)
(* Frames as bytes (protocol.rs), and the way a body crosses the channel:  *)
(* cut into frames by the loops of serve.rs and proxy.rs, decoded and put  *)
(* together by the reader.  Tunnel, where a frame is a record and a chunk  *)
(* a unit, rests on this.                                                  *)
(*                                                                         *)
(* The direction shown is that of responses, whose body comes in pieces of *)
(* any length; a request has one piece.  The channel is ordered and loses  *)
(* nothing; sends of different streams interleave.                         *)
(***************************************************************************)
EXTENDS Naturals, Sequences

CONSTANTS
    Streams,        \* stream ids in use
    MaxChunk,       \* MAX_BODY_CHUNK
    HeaderRoom,     \* what MAX_FRAME_SIZE leaves for the rest of the frame
    HeadersSizes,   \* lengths of serialized headers
    MaxBody         \* bound: bytes of one body

ASSUME StreamsAssumption == Streams \subseteq Nat /\ \A s \in Streams : s \div 16777216 < 256
ASSUME ChunkAssumption == MaxChunk \in Nat \ {0} /\ HeaderRoom \in Nat /\ HeaderRoom >= 5
ASSUME FramingBounds == HeadersSizes \subseteq Nat /\ MaxBody \in Nat

VARIABLES
    phase,      \* of each stream: "idle", "body", "ended"
    piece,      \* the piece of the body in hand
    offset,     \* how much of it has been sent
    wire,       \* frames under way, as bytes
    received,   \* what the reader has put together
    finished,   \* the reader has seen the end
    given       \* history: the body so far

framingVars == <<phase, piece, offset, wire, received, finished, given>>

-----------------------------------------------------------------------------
Code == [Hello |-> 1, Agree |-> 2, Ping |-> 3, Pong |-> 4,
         ReqHeaders |-> 10, ReqBody |-> 11, ReqEnd |-> 12,
         ResHeaders |-> 20, ResBody |-> 21, ResEnd |-> 22, Error |-> 99]
MessageType == DOMAIN Code
Byte == 0..255
FrameHeader == 5
MaxFrameSize == MaxChunk + HeaderRoom

(* Mutant: the bytes of the id in the order of the host, not the network.  *)
IdBytesLittleEndian(id) ==
    <<id % 256, (id \div 256) % 256, (id \div 65536) % 256, id \div 16777216>>

IdBytes(id) ==
    <<id \div 16777216, (id \div 65536) % 256, (id \div 256) % 256, id % 256>>

IdOf(b) == 16777216 * b[1] + 65536 * b[2] + 256 * b[3] + b[4]

Encode(m) == <<Code[m.type]>> \o IdBytes(m.id) \o m.payload

KnownCode(b) == \E t \in MessageType : Code[t] = b
FromU8(b) == CHOOSE t \in MessageType : Code[t] = b

(* Mutant: a frame with no payload is taken for a short one.               *)
DecodableWithPayload(data) == Len(data) > FrameHeader /\ KnownCode(data[1])

Decodable(data) == Len(data) >= FrameHeader /\ KnownCode(data[1])

Decode(data) ==
    [type |-> FromU8(data[1]), id |-> IdOf(SubSeq(data, 2, 5)),
     payload |-> SubSeq(data, 6, Len(data))]

ResHeaders(s, size) == [type |-> "ResHeaders", id |-> s, payload |-> [i \in 1..size |-> 0]]
ResBody(s, data) == [type |-> "ResBody", id |-> s, payload |-> data]
ResEnd(s) == [type |-> "ResEnd", id |-> s, payload |-> <<>>]

-----------------------------------------------------------------------------
(* The next n bytes of the body of s.  Nothing looks at a byte of a body:  *)
(* it is enough that the bytes differ.                                     *)
NextBytes(s, n) == [i \in 1..n |-> (s + Len(given[s]) + i) % 256]

FramingTypeOK ==
    /\ phase \in [Streams -> {"idle", "body", "ended"}]
    /\ piece \in [Streams -> Seq(Byte)]
    /\ offset \in [Streams -> Nat]
    /\ wire \in Seq(Seq(Byte))
    /\ received \in [Streams -> Seq(Byte)]
    /\ finished \in [Streams -> BOOLEAN]
    /\ given \in [Streams -> Seq(Byte)]
    /\ \A s \in Streams : offset[s] <= Len(piece[s])

Init ==
    /\ phase = [s \in Streams |-> "idle"]
    /\ piece = [s \in Streams |-> <<>>]
    /\ offset = [s \in Streams |-> 0]
    /\ wire = <<>>
    /\ received = [s \in Streams |-> <<>>]
    /\ finished = [s \in Streams |-> FALSE]
    /\ given = [s \in Streams |-> <<>>]

Send(m) == wire' = Append(wire, Encode(m))

SendHeaders(s) ==
    /\ phase[s] = "idle"
    /\ phase' = [phase EXCEPT ![s] = "body"]
    /\ \E size \in HeadersSizes : Send(ResHeaders(s, size))
    /\ UNCHANGED <<piece, offset, received, finished, given>>

(* Mutant: the last chunk of a piece is taken for sent.                    *)
PieceSentButOne(s) == phase[s] = "body" /\ offset[s] + MaxChunk >= Len(piece[s])

PieceSent(s) == phase[s] = "body" /\ offset[s] = Len(piece[s])

(* Mutant: the offset is that of the piece before.                         *)
TakePieceKeepsOffset(s) ==
    /\ PieceSent(s)
    /\ \E n \in 0..(MaxBody - Len(given[s])) :
          /\ piece' = [piece EXCEPT ![s] = NextBytes(s, n)]
          /\ given' = [given EXCEPT ![s] = @ \o NextBytes(s, n)]
    /\ UNCHANGED <<phase, offset, wire, received, finished>>

(* The next piece of the body, once the last one is sent.                  *)
TakePiece(s) ==
    /\ PieceSent(s)
    /\ \E n \in 0..(MaxBody - Len(given[s])) :
          /\ piece' = [piece EXCEPT ![s] = NextBytes(s, n)]
          /\ given' = [given EXCEPT ![s] = @ \o NextBytes(s, n)]
    /\ offset' = [offset EXCEPT ![s] = 0]
    /\ UNCHANGED <<phase, wire, received, finished>>

(* Mutant: a chunk takes all the room there is.                            *)
ChunkEndAll(s) == Len(piece[s])

ChunkEnd(s) ==
    IF offset[s] + MaxChunk < Len(piece[s]) THEN offset[s] + MaxChunk ELSE Len(piece[s])

SendChunk(s) ==
    /\ phase[s] = "body"
    /\ offset[s] < Len(piece[s])
    /\ Send(ResBody(s, SubSeq(piece[s], offset[s] + 1, ChunkEnd(s))))
    /\ offset' = [offset EXCEPT ![s] = ChunkEnd(s)]
    /\ UNCHANGED <<phase, piece, received, finished, given>>

SendEnd(s) ==
    /\ PieceSent(s)
    /\ phase' = [phase EXCEPT ![s] = "ended"]
    /\ Send(ResEnd(s))
    /\ UNCHANGED <<piece, offset, received, finished, given>>

(* The reader: what it cannot decode, or knows no stream for, it drops.    *)
Receive ==
    LET m == Decode(Head(wire)) IN
    /\ wire # <<>>
    /\ wire' = Tail(wire)
    /\ IF Decodable(Head(wire)) /\ m.id \in Streams /\ ~finished[m.id]
       THEN /\ received' = IF m.type = "ResBody"
                           THEN [received EXCEPT ![m.id] = @ \o m.payload] ELSE received
            /\ finished' = [finished EXCEPT ![m.id] = (m.type = "ResEnd")]
       ELSE UNCHANGED <<received, finished>>
    /\ UNCHANGED <<phase, piece, offset, given>>

Next ==
    \/ \E s \in Streams : SendHeaders(s) \/ TakePiece(s) \/ SendChunk(s) \/ SendEnd(s)
    \/ Receive

Spec == Init /\ [][Next]_framingVars

-----------------------------------------------------------------------------
(* Every frame under way can be decoded, into the message it was made of:  *)
(* encoded again it gives the same bytes.                                  *)
AllDecodable ==
    \A i \in 1..Len(wire) : Decodable(wire[i]) /\ Encode(Decode(wire[i])) = wire[i]

(* The bytes of the body of s in a frame, and in the first i of frames.    *)
BodyIn(s, data) ==
    LET m == Decode(data) IN
    IF m.type = "ResBody" /\ m.id = s THEN m.payload ELSE <<>>

BodyUpTo(s, frames) ==
    LET upTo[i \in 0..Len(frames)] ==
            IF i = 0 THEN <<>> ELSE upTo[i - 1] \o BodyIn(s, frames[i])
    IN upTo

UnderWay(s) == BodyUpTo(s, wire)[Len(wire)]

(* What was received, what is under way and what is still in hand are, in  *)
(* this order, the body: chunk boundaries lose, repeat and mix up nothing. *)
BodyConserved ==
    \A s \in Streams :
        received[s] \o UnderWay(s) \o SubSeq(piece[s], offset[s] + 1, Len(piece[s])) = given[s]

(* A stream that is finished at the reader has its whole body.             *)
FinishedWhole == \A s \in Streams : finished[s] => received[s] = given[s] /\ phase[s] = "ended"

(* Body frames fit in MAX_FRAME_SIZE whatever the length of the piece, and *)
(* are never empty: the loop gets on.  It does not hold of headers, which  *)
(* are sent in one frame (serve.rs:258, proxy.rs:306).                     *)
BodyFramesFit ==
    \A i \in 1..Len(wire) : Decode(wire[i]).type = "ResBody" =>
        Len(wire[i]) > FrameHeader /\ Len(wire[i]) <= MaxFrameSize
=============================================================================
