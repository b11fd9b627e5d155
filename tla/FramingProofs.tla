---------------------------- MODULE FramingProofs ----------------------------
(***************************************************************************)
(* Theorems about Framing, for any stream ids of 32 bits, any chunk size   *)
(* and any bodies.                                                         *)
(***************************************************************************)
EXTENDS Framing, Integers, SequenceTheorems, WellFoundedInduction, TLAPS

U32 == {id \in Nat : id \div 16777216 < 256}
Message == [type : MessageType, id : U32, payload : Seq(Byte)]

(* A message type is found again from its code (from_u8).                  *)
LEMMA CodeRoundTrip ==
    ASSUME NEW t \in MessageType
    PROVE  Code[t] \in Byte /\ KnownCode(Code[t]) /\ FromU8(Code[t]) = t
<1>1. Code[t] \in Byte /\ KnownCode(Code[t])
  BY DEF Code, MessageType, Byte, KnownCode
<1>2. ASSUME NEW u \in MessageType, Code[u] = Code[t] PROVE u = t
  BY <1>2 DEF Code, MessageType
<1> QED BY <1>1, <1>2 DEF FromU8

(* The four bytes of an id are bytes, and give the id back.                *)
LEMMA IdRoundTrip ==
    ASSUME NEW id \in U32
    PROVE  /\ IdBytes(id) \in Seq(Byte)
           /\ Len(IdBytes(id)) = 4
           /\ IdOf(IdBytes(id)) = id
<1> DEFINE a == id \div 16777216
           b == id \div 65536
           c == id \div 256
<1>1. id \in Nat /\ a \in Nat /\ b \in Nat /\ c \in Nat
  BY SMTT(30) DEF U32
<1>2. a \in Byte /\ b % 256 \in Byte /\ c % 256 \in Byte /\ id % 256 \in Byte
  BY SMTT(30), <1>1 DEF U32, Byte
<1>3. id = 256 * c + (id % 256) /\ c = 256 * b + (c % 256) /\ b = 256 * a + (b % 256)
  BY SMTT(30), <1>1 DEF U32
<1>4. id = 16777216 * a + 65536 * (b % 256) + 256 * (c % 256) + (id % 256)
  BY SMTT(30), <1>1, <1>2, <1>3 DEF Byte
<1> QED BY SMTT(30), <1>2, <1>4 DEF IdBytes, IdOf

(* Frames decode to what was encoded, whatever the type, id and payload.   *)
LEMMA DecodeInvertsEncode ==
    ASSUME NEW m \in Message
    PROVE  /\ Encode(m) \in Seq(Byte)
           /\ Len(Encode(m)) = FrameHeader + Len(m.payload)
           /\ Decodable(Encode(m))
           /\ Decode(Encode(m)) = m
<1> DEFINE e == Encode(m)
           k == <<Code[m.type]>> \o IdBytes(m.id)
<1>1. m.type \in MessageType /\ m.id \in U32 /\ m.payload \in Seq(Byte)
  BY DEF Message
<1>2. /\ IdBytes(m.id) \in Seq(Byte)
      /\ Len(IdBytes(m.id)) = 4
      /\ IdOf(IdBytes(m.id)) = m.id
  BY <1>1, IdRoundTrip
<1>3. Code[m.type] \in Byte /\ KnownCode(Code[m.type]) /\ FromU8(Code[m.type]) = m.type
  BY <1>1, CodeRoundTrip
<1>4. /\ k \in Seq(Byte) /\ Len(k) = 5 /\ k[1] = Code[m.type]
      /\ \A i \in 1..4 : k[i + 1] = IdBytes(m.id)[i]
  <2> DEFINE code == <<Code[m.type]>>
  <2>1. code \in Seq(Byte) /\ Len(code) = 1 /\ code[1] = Code[m.type]
    BY <1>3
  <2> HIDE DEF code
  <2>2. /\ code \o IdBytes(m.id) \in Seq(Byte)
        /\ Len(code \o IdBytes(m.id)) = Len(code) + Len(IdBytes(m.id))
        /\ \A i \in 1..(Len(code) + Len(IdBytes(m.id))) : (code \o IdBytes(m.id))[i] =
              IF i <= Len(code) THEN code[i] ELSE IdBytes(m.id)[i - Len(code)]
    BY <1>2, <2>1, ConcatProperties, Zenon
  <2>3. /\ (code \o IdBytes(m.id))[1] = code[1]
        /\ \A i \in 1..4 : (code \o IdBytes(m.id))[i + 1] = IdBytes(m.id)[i]
    BY <1>2, <2>1, <2>2
  <2> QED BY <1>2, <2>1, <2>2, <2>3 DEF code
<1>5. e = k \o m.payload
  BY <1>1, <1>2, <1>3 DEF Encode
<1>6. /\ e \in Seq(Byte) /\ Len(e) = 5 + Len(m.payload)
      /\ \A i \in 1..5 : e[i] = k[i]
      /\ \A i \in 1..Len(m.payload) : e[i + 5] = m.payload[i]
  <2> HIDE DEF k, e
  <2>1. /\ k \o m.payload \in Seq(Byte)
        /\ Len(k \o m.payload) = Len(k) + Len(m.payload)
        /\ \A i \in 1..(Len(k) + Len(m.payload)) : (k \o m.payload)[i] =
              IF i <= Len(k) THEN k[i] ELSE m.payload[i - Len(k)]
    BY <1>1, <1>4, ConcatProperties, Zenon
  <2>2. Len(m.payload) \in Nat
    BY <1>1
  <2>3. /\ \A i \in 1..5 : (k \o m.payload)[i] = k[i]
        /\ \A i \in 1..Len(m.payload) : (k \o m.payload)[i + 5] = m.payload[i]
    BY <1>4, <2>1, <2>2
  <2> QED BY <1>4, <1>5, <2>1, <2>3
<1>7. Decodable(e)
  BY <1>1, <1>3, <1>4, <1>6 DEF Decodable, FrameHeader
<1>8. IdOf(SubSeq(e, 2, 5)) = m.id
  <2>1. SubSeq(e, 2, 5) = IdBytes(m.id)
    BY <1>1, <1>2, <1>4, <1>6
  <2> QED BY <2>1, <1>2
<1>9. SubSeq(e, 6, Len(e)) = m.payload
  <2>1. /\ SubSeq(e, 6, Len(e)) \in Seq(Byte)
        /\ Len(SubSeq(e, 6, Len(e))) = Len(m.payload)
        /\ \A i \in 1..Len(m.payload) : SubSeq(e, 6, Len(e))[i] = e[i + 5]
    BY SMTT(30), <1>1, <1>6
  <2> QED BY <1>1, <1>6, <2>1
<1>10. Decode(e) = m
  BY <1>1, <1>3, <1>4, <1>6, <1>8, <1>9 DEF Decode, Message
<1> QED BY <1>1, <1>6, <1>7, <1>10 DEF FrameHeader

-----------------------------------------------------------------------------
(* What is sent is a message: its id is a stream.                          *)
LEMMA SentIsMessage ==
    ASSUME NEW s \in Streams, NEW data \in Seq(Byte), NEW size \in Nat
    PROVE  /\ ResHeaders(s, size) \in Message
           /\ ResBody(s, data) \in Message
           /\ ResEnd(s) \in Message
<1>1. s \in U32
  BY StreamsAssumption DEF U32
<1>2. {"ResHeaders", "ResBody", "ResEnd"} \subseteq MessageType
  BY DEF MessageType, Code
<1>3. [i \in 1..size |-> 0] \in Seq(Byte) /\ <<>> \in Seq(Byte)
  BY DEF Byte
<1> QED BY <1>1, <1>2, <1>3 DEF ResHeaders, ResBody, ResEnd, Message

LEMMA NextBytesType ==
    ASSUME FramingTypeOK, NEW s \in Streams, NEW n \in Nat
    PROVE  NextBytes(s, n) \in Seq(Byte)
<1>1. s \in Nat /\ Len(given[s]) \in Nat
  BY StreamsAssumption DEF FramingTypeOK
<1>2. \A x \in Nat : x % 256 \in Byte
  BY DEF Byte
<1>3. \A i \in 1..n : s + Len(given[s]) + i \in Nat
  BY <1>1
<1> QED BY <1>2, <1>3 DEF NextBytes

(* A chunk is not empty, holds MAX_BODY_CHUNK bytes at most, and takes the *)
(* offset no further than the piece.                                       *)
LEMMA ChunkBounds ==
    ASSUME FramingTypeOK, NEW s \in Streams, offset[s] < Len(piece[s])
    PROVE  LET chunk == SubSeq(piece[s], offset[s] + 1, ChunkEnd(s)) IN
           /\ chunk \in Seq(Byte)
           /\ Len(chunk) \in 1..MaxChunk
           /\ ChunkEnd(s) \in Nat /\ ChunkEnd(s) <= Len(piece[s])
<1>1. piece[s] \in Seq(Byte) /\ offset[s] \in Nat /\ Len(piece[s]) \in Nat
  BY DEF FramingTypeOK
<1>2. /\ ChunkEnd(s) \in Nat /\ ChunkEnd(s) <= Len(piece[s])
      /\ ChunkEnd(s) - offset[s] \in 1..MaxChunk
  BY <1>1, ChunkAssumption DEF ChunkEnd
<1>3. \A i \in (offset[s] + 1)..ChunkEnd(s) : piece[s][i] \in Byte
  BY <1>1, <1>2
<1>4. LET chunk == SubSeq(piece[s], offset[s] + 1, ChunkEnd(s)) IN
      /\ chunk \in Seq(Byte)
      /\ Len(chunk) = ChunkEnd(s) - offset[s]
  BY <1>1, <1>2, <1>3, SubSeqProperties
<1> QED BY <1>2, <1>4

(* The two promises about a frame: it decodes, and a body frame fits.      *)
Sound(data) == Decodable(data) /\ Encode(Decode(data)) = data
Fits(data) ==
    Decode(data).type = "ResBody" => Len(data) > FrameHeader /\ Len(data) <= MaxFrameSize
FramingInv == FramingTypeOK /\ \A i \in 1..Len(wire) : Sound(wire[i]) /\ Fits(wire[i])

(* Sending a message keeps both, if a body is no more than a chunk.        *)
LEMMA SendKeepsFrames ==
    ASSUME FramingInv, NEW m \in Message, Send(m),
           m.type = "ResBody" => Len(m.payload) \in 1..MaxChunk
    PROVE  /\ wire' \in Seq(Seq(Byte))
           /\ \A i \in 1..Len(wire') : Sound(wire'[i]) /\ Fits(wire'[i])
<1>1. wire \in Seq(Seq(Byte))
  BY DEF FramingInv, FramingTypeOK
<1>2. /\ Encode(m) \in Seq(Byte)
      /\ Len(Encode(m)) = FrameHeader + Len(m.payload)
      /\ Decodable(Encode(m))
      /\ Decode(Encode(m)) = m
  BY DecodeInvertsEncode
<1>3. Sound(Encode(m))
  BY <1>2 DEF Sound
<1>4. Fits(Encode(m))
  <2>1. m.type = "ResBody" =>
            FrameHeader + Len(m.payload) > FrameHeader
            /\ FrameHeader + Len(m.payload) <= MaxFrameSize
    BY ChunkAssumption DEF FrameHeader, MaxFrameSize
  <2> QED BY <1>2, <2>1 DEF Fits
<1>5. /\ wire' \in Seq(Seq(Byte))
      /\ Len(wire') = Len(wire) + 1
      /\ \A i \in 1..Len(wire) : wire'[i] = wire[i]
      /\ wire'[Len(wire) + 1] = Encode(m)
  BY <1>1, <1>2 DEF Send
<1>6. \A i \in 1..Len(wire') : i \in 1..Len(wire) \/ i = Len(wire) + 1
  BY <1>1, <1>5
<1> QED BY <1>3, <1>4, <1>5, <1>6 DEF FramingInv

(* Whatever an action leaves alone on the wire stays sound.                *)
LEMMA SameWireKeepsFrames ==
    ASSUME FramingInv, UNCHANGED wire
    PROVE  \A i \in 1..Len(wire') : Sound(wire'[i]) /\ Fits(wire'[i])
BY DEF FramingInv

LEMMA FramingInit == Init => FramingInv
BY DEF Init, FramingInv, FramingTypeOK, Sound, Fits

LEMMA FramingStep == FramingInv /\ [Next]_framingVars => FramingInv'
<1> SUFFICES ASSUME FramingInv, [Next]_framingVars
             PROVE  FramingInv'
  OBVIOUS
<1>0. FramingTypeOK
  BY DEF FramingInv
<1>1. ASSUME NEW s \in Streams, SendHeaders(s) PROVE FramingInv'
  <2>1. PICK size \in HeadersSizes : Send(ResHeaders(s, size))
    BY <1>1 DEF SendHeaders
  <2>2. ResHeaders(s, size) \in Message /\ ResHeaders(s, size).type # "ResBody"
    BY SentIsMessage, FramingBounds, EmptySeq DEF ResHeaders
  <2>3. /\ wire' \in Seq(Seq(Byte))
        /\ \A i \in 1..Len(wire') : Sound(wire'[i]) /\ Fits(wire'[i])
    BY <2>1, <2>2, SendKeepsFrames
  <2>4. FramingTypeOK'
    BY <1>0, <1>1, <2>3 DEF FramingTypeOK, SendHeaders
  <2> QED BY <2>3, <2>4 DEF FramingInv, Sound, Fits
<1>2. ASSUME NEW s \in Streams, TakePiece(s) PROVE FramingInv'
  <2>1. PICK n \in 0..(MaxBody - Len(given[s])) :
           /\ piece' = [piece EXCEPT ![s] = NextBytes(s, n)]
           /\ given' = [given EXCEPT ![s] = @ \o NextBytes(s, n)]
    BY <1>2 DEF TakePiece
  <2>2. NextBytes(s, n) \in Seq(Byte) /\ given[s] \o NextBytes(s, n) \in Seq(Byte)
    BY <1>0, NextBytesType DEF FramingTypeOK
  <2>3. FramingTypeOK'
    BY <1>0, <1>2, <2>1, <2>2 DEF FramingTypeOK, TakePiece
  <2>4. UNCHANGED wire
    BY <1>2 DEF TakePiece
  <2> QED BY <2>3, <2>4, SameWireKeepsFrames DEF FramingInv, Sound, Fits
<1>3. ASSUME NEW s \in Streams, SendChunk(s) PROVE FramingInv'
  <2> DEFINE chunk == SubSeq(piece[s], offset[s] + 1, ChunkEnd(s))
  <2>1. /\ chunk \in Seq(Byte)
        /\ Len(chunk) \in 1..MaxChunk
        /\ ChunkEnd(s) \in Nat /\ ChunkEnd(s) <= Len(piece[s])
    BY <1>0, <1>3, ChunkBounds DEF SendChunk
  <2>2. ResBody(s, chunk) \in Message /\ ResBody(s, chunk).payload = chunk
    BY <2>1, SentIsMessage DEF ResBody
  <2>3. Send(ResBody(s, chunk))
    BY <1>3 DEF SendChunk
  <2>4. /\ wire' \in Seq(Seq(Byte))
        /\ \A i \in 1..Len(wire') : Sound(wire'[i]) /\ Fits(wire'[i])
    BY <2>1, <2>2, <2>3, SendKeepsFrames
  <2>5. FramingTypeOK'
    BY <1>0, <1>3, <2>1, <2>4 DEF FramingTypeOK, SendChunk
  <2> QED BY <2>4, <2>5 DEF FramingInv, Sound, Fits
<1>4. ASSUME NEW s \in Streams, SendEnd(s) PROVE FramingInv'
  <2>1. ResEnd(s) \in Message /\ ResEnd(s).type # "ResBody"
    BY SentIsMessage, EmptySeq DEF ResEnd
  <2>2. /\ wire' \in Seq(Seq(Byte))
        /\ \A i \in 1..Len(wire') : Sound(wire'[i]) /\ Fits(wire'[i])
    BY <1>4, <2>1, SendKeepsFrames DEF SendEnd
  <2>3. FramingTypeOK'
    BY <1>0, <1>4, <2>2 DEF FramingTypeOK, SendEnd
  <2> QED BY <2>2, <2>3 DEF FramingInv, Sound, Fits
<1>5. ASSUME Receive PROVE FramingInv'
  <2>1. wire \in Seq(Seq(Byte)) /\ wire # <<>> /\ wire' = Tail(wire)
    BY <1>0, <1>5 DEF FramingTypeOK, Receive
  <2>2. /\ Head(wire) \in Seq(Byte)
        /\ wire' \in Seq(Seq(Byte))
        /\ \A i \in 1..Len(wire') : i + 1 \in 1..Len(wire) /\ wire'[i] = wire[i + 1]
    BY <2>1
  <2>3. \A i \in 1..Len(wire') : Sound(wire'[i]) /\ Fits(wire'[i])
    BY <2>2 DEF FramingInv
  <2>4. Decodable(Head(wire)) => Decode(Head(wire)).payload \in Seq(Byte)
    <3>1. SUFFICES ASSUME Decodable(Head(wire)) PROVE SubSeq(Head(wire), 6, Len(Head(wire))) \in Seq(Byte)
      BY DEF Decode
    <3>2. \A i \in 6..Len(Head(wire)) : Head(wire)[i] \in Byte
      BY <2>2
    <3> QED BY <2>2, <3>2, SubSeqProperties
  <2>5. received' \in [Streams -> Seq(Byte)] /\ finished' \in [Streams -> BOOLEAN]
    <3> DEFINE m == Decode(Head(wire))
    <3>1. CASE Decodable(Head(wire)) /\ m.id \in Streams /\ ~finished[m.id]
      <4>1. received[m.id] \o m.payload \in Seq(Byte)
        BY <1>0, <2>4, <3>1 DEF FramingTypeOK
      <4>2. /\ received' \in {received, [received EXCEPT ![m.id] = @ \o m.payload]}
            /\ finished' = [finished EXCEPT ![m.id] = (m.type = "ResEnd")]
        BY <1>5, <3>1 DEF Receive, m
      <4> HIDE DEF m
      <4>3. received' \in [Streams -> Seq(Byte)]
        BY <1>0, <3>1, <4>1, <4>2 DEF FramingTypeOK
      <4>4. finished' \in [Streams -> BOOLEAN]
        BY <1>0, <3>1, <4>2 DEF FramingTypeOK
      <4> QED BY <4>3, <4>4
    <3>2. CASE ~(Decodable(Head(wire)) /\ m.id \in Streams /\ ~finished[m.id])
      BY <1>0, <1>5, <3>2 DEF FramingTypeOK, Receive
    <3> QED BY <3>1, <3>2
  <2>6. FramingTypeOK'
    BY <1>0, <1>5, <2>2, <2>5 DEF FramingTypeOK, Receive
  <2> QED BY <2>3, <2>6 DEF FramingInv, Sound, Fits
<1>6. ASSUME UNCHANGED framingVars PROVE FramingInv'
  BY <1>0, <1>6 DEF FramingInv, FramingTypeOK, framingVars, Sound, Fits
<1> QED BY <1>1, <1>2, <1>3, <1>4, <1>5, <1>6 DEF Next

LEMMA FramingInvariant == Spec => []FramingInv
<1> QED BY FramingInit, FramingStep, PTL DEF Spec

(* The state of senders, wire and reader keeps its types, and no loop's    *)
(* offset passes the end of its piece.                                     *)
THEOREM FramingTypeCorrect == Spec => []FramingTypeOK
<1>1. FramingInv => FramingTypeOK
  BY DEF FramingInv
<1> QED BY <1>1, FramingInvariant, PTL

(* Encode and decode are inverse on all that is ever sent, for any ids of  *)
(* 32 bits: no frame is refused, or read as another.                       *)
THEOREM FramesDecode == Spec => []AllDecodable
<1>1. FramingInv => AllDecodable
  BY DEF FramingInv, AllDecodable, Sound
<1> QED BY <1>1, FramingInvariant, PTL

(* However the upstream cuts its body, and whatever MAX_BODY_CHUNK is, the *)
(* chunk loop sends body frames within MAX_FRAME_SIZE, none of them empty. *)
THEOREM ChunksFit == Spec => []BodyFramesFit
<1>1. FramingInv => BodyFramesFit
  BY DEF FramingInv, BodyFramesFit, Fits
<1> QED BY <1>1, FramingInvariant, PTL

-----------------------------------------------------------------------------
(* Bodies.  What is under way of a body is defined by recursion on the     *)
(* frames, so its laws go by induction on their number: a set of numbers   *)
(* that has 0, and n + 1 with n, has all.                                  *)
LEMMA SetInduction ==
    ASSUME NEW P, 0 \in P, \A n \in Nat : n \in P => n + 1 \in P
    PROVE  Nat \subseteq P
<1> DEFINE less == {p \in Nat \X Nat : p[1] < p[2]}
           rest == Nat \ P
<1>1. IsWellFoundedOn(less, Nat)
  BY NatLessThanWellFounded, Zenon DEF OpToRel
<1>2. \A k, m \in Nat : k < m => <<k, m>> \in less
  OBVIOUS
<1> SUFFICES ASSUME rest # {} PROVE FALSE
  OBVIOUS
<1>3. rest \subseteq Nat
  OBVIOUS
<1> HIDE DEF less
<1>4. PICK m \in rest : \A k \in rest : <<k, m>> \notin less
  BY <1>1, <1>3, WFMin
<1>5. m \in Nat /\ m # 0 /\ m - 1 \in Nat /\ m - 1 < m /\ (m - 1) + 1 = m
  BY <1>4
<1>6. m - 1 \in rest
  BY <1>4, <1>5
<1> QED BY <1>2, <1>4, <1>5, <1>6

(* The recursion of BodyUpTo defines a function.                           *)
LEMMA BodyUpToDef ==
    ASSUME NEW s, NEW frames, Len(frames) \in Nat
    PROVE  BodyUpTo(s, frames) =
             [i \in 0..Len(frames) |->
                IF i = 0 THEN <<>> ELSE BodyUpTo(s, frames)[i - 1] \o BodyIn(s, frames[i])]
<1> DEFINE Solves(f, n) ==
             f = [i \in 0..n |-> IF i = 0 THEN <<>> ELSE f[i - 1] \o BodyIn(s, frames[i])]
           P == {n \in Nat : \E f : Solves(f, n)}
<1>1. 0 \in P
  <2>1. Solves([i \in 0..0 |-> <<>>], 0)
    OBVIOUS
  <2> QED BY <2>1
<1>2. ASSUME NEW n \in Nat, n \in P PROVE n + 1 \in P
  <2>1. PICK f : Solves(f, n)
    BY <1>2
  <2> DEFINE g == [i \in 0..(n + 1) |-> IF i <= n THEN f[i] ELSE f[n] \o BodyIn(s, frames[n + 1])]
  <2>2. /\ g = [i \in 0..(n + 1) |-> g[i]]
        /\ \A i \in 0..n : g[i] = f[i]
        /\ g[n + 1] = f[n] \o BodyIn(s, frames[n + 1])
    OBVIOUS
  <2>3. \A i \in 0..n : f[i] = IF i = 0 THEN <<>> ELSE f[i - 1] \o BodyIn(s, frames[i])
    BY <2>1
  <2> HIDE DEF g
  <2>4. ASSUME NEW i \in 0..(n + 1)
        PROVE  g[i] = IF i = 0 THEN <<>> ELSE g[i - 1] \o BodyIn(s, frames[i])
    <3>1. CASE i = 0
      <4>1. 0 \in 0..n
        OBVIOUS
      <4>2. f[0] = <<>> /\ g[0] = f[0]
        BY <2>2, <2>3, <4>1
      <4> QED BY <3>1, <4>2
    <3>2. CASE i \in 1..n
      <4>1. i \in 0..n /\ i - 1 \in 0..n /\ i # 0
        BY <3>2
      <4> QED BY <2>2, <2>3, <4>1
    <3>3. CASE i = n + 1
      <4>1. i - 1 = n /\ i # 0 /\ n \in 0..n
        BY <3>3
      <4> QED BY <2>2, <3>3, <4>1
    <3> QED BY <3>1, <3>2, <3>3
  <2>5. g = [i \in 0..(n + 1) |-> IF i = 0 THEN <<>> ELSE g[i - 1] \o BodyIn(s, frames[i])]
    BY <2>2, <2>4
  <2>6. Solves(g, n + 1)
    BY <2>5, Zenon
  <2> HIDE DEF Solves
  <2>7. \E k : Solves(k, n + 1)
    BY <2>6
  <2> QED BY <2>7
<1> HIDE DEF P
<1>3. Len(frames) \in P
  BY <1>1, <1>2, SetInduction
<1>4. \E f : Solves(f, Len(frames))
  BY <1>3 DEF P
<1>5. BodyUpTo(s, frames) = CHOOSE f : Solves(f, Len(frames))
  BY Zenon DEF BodyUpTo
<1> QED BY <1>4, <1>5

Frames == Seq(Seq(Byte))

LEMMA BodyUpToRec ==
    ASSUME NEW s, NEW frames \in Frames
    PROVE  /\ BodyUpTo(s, frames)[0] = <<>>
           /\ \A i \in 1..Len(frames) :
                 BodyUpTo(s, frames)[i] = BodyUpTo(s, frames)[i - 1] \o BodyIn(s, frames[i])
<1>1. Len(frames) \in Nat
  BY DEF Frames
<1> DEFINE f == BodyUpTo(s, frames)
<1>2. f = [i \in 0..Len(frames) |-> IF i = 0 THEN <<>> ELSE f[i - 1] \o BodyIn(s, frames[i])]
  BY <1>1, BodyUpToDef
<1> HIDE DEF f
<1>3. \A i \in 0..Len(frames) : f[i] = IF i = 0 THEN <<>> ELSE f[i - 1] \o BodyIn(s, frames[i])
  BY <1>2
<1>4. f[0] = <<>>
  <2>1. 0 \in 0..Len(frames)
    BY <1>1
  <2> QED BY <1>3, <2>1
<1>5. \A i \in 1..Len(frames) : f[i] = f[i - 1] \o BodyIn(s, frames[i])
  <2>1. \A i \in 1..Len(frames) : i \in 0..Len(frames) /\ i # 0
    BY <1>1
  <2> QED BY <1>3, <2>1
<1> QED BY <1>4, <1>5 DEF f

LEMMA BodyInType ==
    ASSUME NEW s, NEW data \in Seq(Byte)
    PROVE  BodyIn(s, data) \in Seq(Byte)
<1>1. SubSeq(data, 6, Len(data)) \in Seq(Byte)
  <2>1. \A i \in 6..Len(data) : data[i] \in Byte
    OBVIOUS
  <2> QED BY <2>1, SubSeqProperties
<1> QED BY <1>1 DEF BodyIn, Decode

LEMMA BodyUpToType ==
    ASSUME NEW s, NEW frames \in Frames
    PROVE  \A i \in 0..Len(frames) : BodyUpTo(s, frames)[i] \in Seq(Byte)
<1> DEFINE f == BodyUpTo(s, frames)
           P == {i \in Nat : i <= Len(frames) => f[i] \in Seq(Byte)}
<1>1. f[0] = <<>> /\ \A i \in 1..Len(frames) : f[i] = f[i - 1] \o BodyIn(s, frames[i])
  BY BodyUpToRec
<1> HIDE DEF f
<1>2. 0 \in P
  <2>1. <<>> \in Seq(Byte)
    OBVIOUS
  <2>2. f[0] \in Seq(Byte)
    BY <1>1, <2>1, Zenon
  <2> QED BY <2>2
<1>3. ASSUME NEW n \in Nat, n \in P PROVE n + 1 \in P
  <2> SUFFICES ASSUME n + 1 <= Len(frames) PROVE f[n + 1] \in Seq(Byte)
    OBVIOUS
  <2>1. Len(frames) \in Nat /\ n + 1 \in 1..Len(frames) /\ (n + 1) - 1 = n /\ n <= Len(frames)
    BY DEF Frames
  <2>2. f[n] \in Seq(Byte)
    BY <1>3, <2>1
  <2>3. frames[n + 1] \in Seq(Byte)
    BY <2>1 DEF Frames
  <2>4. BodyIn(s, frames[n + 1]) \in Seq(Byte)
    BY <2>3, BodyInType
  <2>5. f[n + 1] = f[n] \o BodyIn(s, frames[n + 1])
    BY <1>1, <2>1
  <2> QED BY <2>2, <2>4, <2>5, ConcatProperties
<1> HIDE DEF P
<1>4. Nat \subseteq P
  BY <1>2, <1>3, SetInduction
<1>5. \A i \in 0..Len(frames) : i \in P
  BY <1>4
<1> QED BY <1>5 DEF P, f

LEMMA ConcatBytes ==
    ASSUME NEW a \in Seq(Byte), NEW b \in Seq(Byte), NEW c \in Seq(Byte)
    PROVE  (a \o b) \o c = a \o (b \o c)
BY ConcatAssociative

(* One more frame brings what it has.                                      *)
LEMMA BodyUpToAppend ==
    ASSUME NEW s, NEW frames \in Frames, NEW data \in Seq(Byte)
    PROVE  BodyUpTo(s, Append(frames, data))[Len(Append(frames, data))]
             = BodyUpTo(s, frames)[Len(frames)] \o BodyIn(s, data)
<1> DEFINE longer == Append(frames, data)
           f == BodyUpTo(s, frames)
           g == BodyUpTo(s, longer)
           P == {i \in Nat : i <= Len(frames) => g[i] = f[i]}
<1>1. /\ longer \in Frames /\ Len(frames) \in Nat /\ Len(longer) = Len(frames) + 1
      /\ \A i \in 1..Len(frames) : longer[i] = frames[i]
      /\ longer[Len(frames) + 1] = data
  BY DEF Frames
<1> HIDE DEF longer
<1>2. f[0] = <<>> /\ \A i \in 1..Len(frames) : f[i] = f[i - 1] \o BodyIn(s, frames[i])
  BY BodyUpToRec
<1>3. g[0] = <<>> /\ \A i \in 1..Len(longer) : g[i] = g[i - 1] \o BodyIn(s, longer[i])
  BY <1>1, BodyUpToRec
<1> HIDE DEF f, g
<1>4. 0 \in P
  BY <1>2, <1>3
<1>5. ASSUME NEW n \in Nat, n \in P PROVE n + 1 \in P
  <2> SUFFICES ASSUME n + 1 <= Len(frames) PROVE g[n + 1] = f[n + 1]
    OBVIOUS
  <2>1. /\ n + 1 \in 1..Len(frames) /\ n + 1 \in 1..Len(longer)
        /\ (n + 1) - 1 = n /\ n <= Len(frames)
    BY <1>1
  <2>2. g[n] = f[n]
    BY <1>5, <2>1
  <2>3. g[n + 1] = g[n] \o BodyIn(s, longer[n + 1])
    BY <1>3, <2>1
  <2>4. f[n + 1] = f[n] \o BodyIn(s, frames[n + 1])
    BY <1>2, <2>1
  <2> QED BY <1>1, <2>1, <2>2, <2>3, <2>4
<1> HIDE DEF P
<1>6. Len(frames) \in P
  BY <1>1, <1>4, <1>5, SetInduction
<1>7. g[Len(frames)] = f[Len(frames)]
  BY <1>1, <1>6 DEF P
<1>8. g[Len(longer)] = g[Len(frames)] \o BodyIn(s, data)
  <2>1. Len(longer) \in 1..Len(longer) /\ Len(longer) - 1 = Len(frames)
    BY <1>1
  <2> QED BY <1>1, <1>3, <2>1
<1> QED BY <1>7, <1>8 DEF f, g, longer

(* What all frames have is what the first has and then what the others do. *)
LEMMA BodyUpToTail ==
    ASSUME NEW s, NEW frames \in Frames, frames # <<>>
    PROVE  BodyUpTo(s, frames)[Len(frames)]
             = BodyIn(s, Head(frames)) \o BodyUpTo(s, Tail(frames))[Len(Tail(frames))]
<1> DEFINE others == Tail(frames)
           first == BodyIn(s, Head(frames))
           f == BodyUpTo(s, frames)
           g == BodyUpTo(s, others)
           P == {i \in Nat : i <= Len(others) => f[i + 1] = first \o g[i]}
<1>1. /\ others \in Frames /\ Len(others) \in Nat /\ Len(frames) = Len(others) + 1
      /\ \A i \in 1..Len(others) : others[i] = frames[i + 1] /\ others[i] \in Seq(Byte)
      /\ Head(frames) = frames[1] /\ Head(frames) \in Seq(Byte)
  BY DEF Frames
<1>2. first \in Seq(Byte)
  BY <1>1, BodyInType
<1> HIDE DEF others
<1>3. f[0] = <<>> /\ \A i \in 1..Len(frames) : f[i] = f[i - 1] \o BodyIn(s, frames[i])
  BY BodyUpToRec
<1>4. g[0] = <<>> /\ \A i \in 1..Len(others) : g[i] = g[i - 1] \o BodyIn(s, others[i])
  BY <1>1, BodyUpToRec
<1>5. \A i \in 0..Len(others) : g[i] \in Seq(Byte)
  BY <1>1, BodyUpToType
<1>6. 0 \in P
  <2>1. 1 \in 1..Len(frames) /\ 1 - 1 = 0
    BY <1>1
  <2>2. f[1] = f[0] \o BodyIn(s, frames[1])
    BY <1>3, <2>1
  <2> HIDE DEF f, g, first
  <2>3. f[1] = <<>> \o BodyIn(s, frames[1])
    BY <1>3, <2>2
  <2>4. f[1] = first
    BY <1>1, <1>2, <2>3, ConcatEmptySeq DEF first
  <2>5. f[1] = first \o g[0]
    BY <1>2, <1>4, <2>4, ConcatEmptySeq
  <2> QED BY <2>5
<1> HIDE DEF f, g, first
<1>7. ASSUME NEW n \in Nat, n \in P PROVE n + 1 \in P
  <2> SUFFICES ASSUME n + 1 <= Len(others) PROVE f[(n + 1) + 1] = first \o g[n + 1]
    OBVIOUS
  <2>1. /\ n + 1 \in 1..Len(others) /\ (n + 1) + 1 \in 1..Len(frames)
        /\ (n + 1) - 1 = n /\ ((n + 1) + 1) - 1 = n + 1 /\ n \in 0..Len(others)
    BY <1>1
  <2> DEFINE data == BodyIn(s, others[n + 1])
  <2>2. f[n + 1] = first \o g[n]
    BY <1>7, <2>1
  <2>3. g[n + 1] = g[n] \o data
    BY <1>4, <2>1
  <2>4. f[(n + 1) + 1] = f[n + 1] \o data
    BY <1>1, <1>3, <2>1
  <2>5. data \in Seq(Byte) /\ g[n] \in Seq(Byte)
    BY <1>1, <1>5, <2>1, BodyInType
  <2> HIDE DEF data
  <2>6. (first \o g[n]) \o data = first \o (g[n] \o data)
    BY <1>2, <2>5, ConcatBytes
  <2> QED BY <2>2, <2>3, <2>4, <2>6
<1> HIDE DEF P
<1>8. Len(others) \in P
  BY <1>1, <1>6, <1>7, SetInduction
<1>9. f[Len(others) + 1] = first \o g[Len(others)]
  BY <1>1, <1>8 DEF P
<1> QED BY <1>1, <1>9 DEF f, g, first, others

(* Frames of which none is of the stream have nothing of its body.         *)
LEMMA BodyUpToNone ==
    ASSUME NEW s, NEW frames \in Frames, \A i \in 1..Len(frames) : Decode(frames[i]).id # s
    PROVE  BodyUpTo(s, frames)[Len(frames)] = <<>>
<1> DEFINE f == BodyUpTo(s, frames)
           P == {i \in Nat : i <= Len(frames) => f[i] = <<>>}
<1>1. f[0] = <<>> /\ \A i \in 1..Len(frames) : f[i] = f[i - 1] \o BodyIn(s, frames[i])
  BY BodyUpToRec
<1>2. \A i \in 1..Len(frames) : BodyIn(s, frames[i]) = <<>>
  BY DEF BodyIn
<1> HIDE DEF f
<1>3. 0 \in P
  BY <1>1
<1>4. ASSUME NEW n \in Nat, n \in P PROVE n + 1 \in P
  <2> SUFFICES ASSUME n + 1 <= Len(frames) PROVE f[n + 1] = <<>>
    OBVIOUS
  <2>1. n + 1 \in 1..Len(frames) /\ (n + 1) - 1 = n /\ n <= Len(frames)
    BY DEF Frames
  <2>2. f[n + 1] = f[n] \o BodyIn(s, frames[n + 1]) /\ f[n] = <<>>
    BY <1>1, <1>4, <2>1
  <2>3. f[n + 1] = <<>> \o <<>>
    BY <1>2, <2>1, <2>2
  <2> QED BY <2>3
<1> HIDE DEF P
<1>5. Len(frames) \in Nat
  BY DEF Frames
<1>6. Len(frames) \in P
  BY <1>3, <1>4, <1>5, SetInduction
<1>7. f[Len(frames)] = <<>>
  BY <1>5, <1>6 DEF P
<1> QED BY <1>7 DEF f

-----------------------------------------------------------------------------
(* BodyConserved is not inductive: the reader takes nothing more for a     *)
(* stream that is finished.  The end of a stream is its last frame, and    *)
(* only comes when nothing of its body is in hand.                         *)
EndsLast ==
    \A s \in Streams :
        /\ phase[s] = "ended" => offset[s] = Len(piece[s])
        /\ \A i \in 1..Len(wire) :
              Decode(wire[i]).type = "ResEnd" /\ Decode(wire[i]).id = s =>
                 phase[s] = "ended" /\ \A j \in (i + 1)..Len(wire) : Decode(wire[j]).id # s
        /\ finished[s] => phase[s] = "ended" /\ \A j \in 1..Len(wire) : Decode(wire[j]).id # s

(* What a frame just sent is, and where.                                   *)
LEMMA SentFrame ==
    ASSUME FramingTypeOK, NEW m \in Message, Send(m)
    PROVE  /\ wire \in Frames /\ Len(wire) \in Nat /\ Len(wire') = Len(wire) + 1
           /\ \A i \in 1..Len(wire) : wire'[i] = wire[i]
           /\ Decode(wire'[Len(wire) + 1]) = m
<1>1. wire \in Frames
  BY DEF FramingTypeOK, Frames
<1>2. Encode(m) \in Seq(Byte) /\ Decode(Encode(m)) = m
  BY DecodeInvertsEncode
<1>3. /\ Len(wire) \in Nat /\ Len(wire') = Len(wire) + 1
      /\ \A i \in 1..Len(wire) : wire'[i] = wire[i]
      /\ wire'[Len(wire) + 1] = Encode(m)
  BY <1>1, <1>2 DEF Send, Frames
<1> QED BY <1>1, <1>2, <1>3

(* A stream that has not ended may send, and then end.                     *)
LEMMA SendKeepsEnds ==
    ASSUME FramingTypeOK, EndsLast, NEW s \in Streams, phase[s] # "ended",
           NEW m \in Message, m.id = s, Send(m), UNCHANGED finished,
           m.type = "ResEnd" => phase'[s] = "ended",
           \A u \in Streams \ {s} : phase'[u] = phase[u],
           \A u \in Streams : phase'[u] = "ended" => offset'[u] = Len(piece'[u])
    PROVE  EndsLast'
<1>1. /\ Len(wire) \in Nat /\ Len(wire') = Len(wire) + 1
      /\ \A i \in 1..Len(wire) : wire'[i] = wire[i]
      /\ Decode(wire'[Len(wire) + 1]) = m
  BY SentFrame
<1>2. \A i \in 1..Len(wire') : i \in 1..Len(wire) \/ i = Len(wire) + 1
  BY <1>1
<1>3. ASSUME NEW u \in Streams, NEW i \in 1..Len(wire'),
             Decode(wire'[i]).type = "ResEnd", Decode(wire'[i]).id = u
      PROVE  phase'[u] = "ended" /\ \A j \in (i + 1)..Len(wire') : Decode(wire'[j]).id # u
  <2>1. CASE i \in 1..Len(wire)
    <3>1. phase[u] = "ended" /\ \A j \in (i + 1)..Len(wire) : Decode(wire[j]).id # u
      BY <1>1, <1>3, <2>1 DEF EndsLast
    <3>2. u # s /\ phase'[u] = "ended"
      BY <3>1
    <3>3. ASSUME NEW j \in (i + 1)..Len(wire') PROVE Decode(wire'[j]).id # u
      <4>1. \/ j \in (i + 1)..Len(wire) /\ j \in 1..Len(wire)
            \/ j = Len(wire) + 1
        BY <1>1, <2>1
      <4> QED BY <1>1, <3>1, <3>2, <4>1
    <3> QED BY <3>2, <3>3
  <2>2. CASE i = Len(wire) + 1
    <3>1. u = s /\ phase'[u] = "ended"
      BY <1>1, <1>3, <2>2
    <3>2. (i + 1)..Len(wire') = {}
      BY <1>1, <2>2
    <3> QED BY <3>1, <3>2
  <2> QED BY <1>2, <2>1, <2>2
<1>4. ASSUME NEW u \in Streams, finished'[u]
      PROVE  phase'[u] = "ended" /\ \A j \in 1..Len(wire') : Decode(wire'[j]).id # u
  <2>1. phase[u] = "ended" /\ \A j \in 1..Len(wire) : Decode(wire[j]).id # u
    BY <1>4 DEF EndsLast
  <2>2. u # s /\ phase'[u] = "ended"
    BY <2>1
  <2> QED BY <1>1, <1>2, <2>1, <2>2
<1> QED BY <1>3, <1>4 DEF EndsLast

(* The reader takes the first frame.                                       *)
LEMMA ReceivedFrame ==
    ASSUME FramingInv, Receive
    PROVE  LET m == Decode(Head(wire)) IN
           /\ wire \in Frames /\ wire # <<>> /\ wire' = Tail(wire)
           /\ Len(wire) \in Nat \ {0} /\ Len(wire') = Len(wire) - 1
           /\ Head(wire) = wire[1] /\ Head(wire) \in Seq(Byte) /\ Decodable(Head(wire))
           /\ \A i \in 1..Len(wire') : i + 1 \in 1..Len(wire) /\ wire'[i] = wire[i + 1]
           /\ \A s \in Streams :
                 IF m.id = s /\ ~finished[s]
                 THEN /\ finished'[s] = (m.type = "ResEnd")
                      /\ received'[s] = IF m.type = "ResBody" THEN received[s] \o m.payload
                                        ELSE received[s]
                 ELSE finished'[s] = finished[s] /\ received'[s] = received[s]
<1> DEFINE m == Decode(Head(wire))
<1>1. /\ wire \in Frames /\ wire # <<>> /\ wire' = Tail(wire)
      /\ received \in [Streams -> Seq(Byte)] /\ finished \in [Streams -> BOOLEAN]
  BY DEF FramingInv, FramingTypeOK, Frames, Receive
<1>2. /\ Len(wire) \in Nat \ {0} /\ Len(wire') = Len(wire) - 1
      /\ Head(wire) = wire[1] /\ Head(wire) \in Seq(Byte)
      /\ \A i \in 1..Len(wire') : i + 1 \in 1..Len(wire) /\ wire'[i] = wire[i + 1]
  BY <1>1 DEF Frames
<1>3. Decodable(Head(wire))
  BY <1>2 DEF FramingInv, Sound
<1>4. IF m.id \in Streams /\ ~finished[m.id]
      THEN /\ received' = IF m.type = "ResBody"
                          THEN [received EXCEPT ![m.id] = @ \o m.payload] ELSE received
           /\ finished' = [finished EXCEPT ![m.id] = (m.type = "ResEnd")]
      ELSE UNCHANGED <<received, finished>>
  BY <1>3 DEF Receive
<1> HIDE DEF m
<1>5. ASSUME NEW s \in Streams
      PROVE  IF m.id = s /\ ~finished[s]
             THEN /\ finished'[s] = (m.type = "ResEnd")
                  /\ received'[s] = IF m.type = "ResBody" THEN received[s] \o m.payload
                                    ELSE received[s]
             ELSE finished'[s] = finished[s] /\ received'[s] = received[s]
  <2>1. CASE m.id \in Streams /\ ~finished[m.id]
    BY <1>1, <1>4, <2>1
  <2>2. CASE ~(m.id \in Streams /\ ~finished[m.id])
    BY <1>4, <2>2
  <2> QED BY <2>1, <2>2
<1> QED BY <1>1, <1>2, <1>3, <1>5 DEF m

LEMMA EndsStep == FramingInv /\ EndsLast /\ [Next]_framingVars => EndsLast'
<1> SUFFICES ASSUME FramingInv, EndsLast, [Next]_framingVars
             PROVE  EndsLast'
  OBVIOUS
<1>0. FramingTypeOK
  BY DEF FramingInv
<1>1. ASSUME NEW s \in Streams, SendHeaders(s) PROVE EndsLast'
  <2>1. PICK size \in HeadersSizes : Send(ResHeaders(s, size))
    BY <1>1 DEF SendHeaders
  <2>2. /\ ResHeaders(s, size) \in Message
        /\ ResHeaders(s, size).type # "ResEnd" /\ ResHeaders(s, size).id = s
    BY SentIsMessage, FramingBounds, EmptySeq DEF ResHeaders
  <2>3. phase \in [Streams -> {"idle", "body", "ended"}] /\ phase[s] = "idle"
    BY <1>0, <1>1 DEF SendHeaders, FramingTypeOK
  <2>4. /\ UNCHANGED <<finished, piece, offset>>
        /\ phase' = [phase EXCEPT ![s] = "body"]
    BY <1>1 DEF SendHeaders
  <2>5. \A u \in Streams : phase'[u] = "ended" => offset'[u] = Len(piece'[u])
    BY <2>3, <2>4 DEF EndsLast
  <2> QED BY <1>0, <2>1, <2>2, <2>3, <2>4, <2>5, SendKeepsEnds
<1>2. ASSUME NEW s \in Streams, TakePiece(s) PROVE EndsLast'
  <2>1. /\ UNCHANGED <<phase, wire, finished>> /\ phase[s] # "ended"
        /\ \A u \in Streams \ {s} : offset'[u] = offset[u] /\ piece'[u] = piece[u]
    BY <1>0, <1>2 DEF TakePiece, PieceSent, FramingTypeOK
  <2> QED BY <2>1 DEF EndsLast
<1>3. ASSUME NEW s \in Streams, SendChunk(s) PROVE EndsLast'
  <2> DEFINE chunk == SubSeq(piece[s], offset[s] + 1, ChunkEnd(s))
  <2>1. chunk \in Seq(Byte)
    BY <1>0, <1>3, ChunkBounds DEF SendChunk
  <2>2. /\ ResBody(s, chunk) \in Message
        /\ ResBody(s, chunk).type # "ResEnd" /\ ResBody(s, chunk).id = s
    BY <2>1, SentIsMessage DEF ResBody
  <2>3. /\ Send(ResBody(s, chunk)) /\ phase[s] = "body"
        /\ UNCHANGED <<phase, finished, piece>>
        /\ offset' = [offset EXCEPT ![s] = ChunkEnd(s)]
    BY <1>3 DEF SendChunk
  <2>4. \A u \in Streams : phase'[u] = "ended" => offset'[u] = Len(piece'[u])
    BY <1>0, <2>3 DEF EndsLast, FramingTypeOK
  <2> QED BY <1>0, <2>2, <2>3, <2>4, SendKeepsEnds
<1>4. ASSUME NEW s \in Streams, SendEnd(s) PROVE EndsLast'
  <2>1. ResEnd(s) \in Message /\ ResEnd(s).id = s
    BY SentIsMessage, EmptySeq DEF ResEnd
  <2>2. /\ Send(ResEnd(s)) /\ phase[s] = "body" /\ offset[s] = Len(piece[s])
        /\ UNCHANGED <<finished, piece, offset>>
        /\ phase' = [phase EXCEPT ![s] = "ended"]
    BY <1>4 DEF SendEnd, PieceSent
  <2>3. phase'[s] = "ended" /\ \A u \in Streams \ {s} : phase'[u] = phase[u]
    BY <1>0, <2>2 DEF FramingTypeOK
  <2>4. \A u \in Streams : phase'[u] = "ended" => offset'[u] = Len(piece'[u])
    BY <2>2, <2>3 DEF EndsLast
  <2> QED BY <1>0, <2>1, <2>2, <2>3, <2>4, SendKeepsEnds
<1>5. ASSUME Receive PROVE EndsLast'
  <2> DEFINE m == Decode(Head(wire))
  <2>1. /\ Len(wire) \in Nat \ {0} /\ Len(wire') = Len(wire) - 1 /\ Head(wire) = wire[1]
        /\ \A i \in 1..Len(wire') : i + 1 \in 1..Len(wire) /\ wire'[i] = wire[i + 1]
    BY <1>5, ReceivedFrame
  <2>2. UNCHANGED <<phase, piece, offset>>
    BY <1>5 DEF Receive
  <2>3. ASSUME NEW u \in Streams, NEW i \in 1..Len(wire'),
               Decode(wire'[i]).type = "ResEnd", Decode(wire'[i]).id = u
        PROVE  phase'[u] = "ended" /\ \A j \in (i + 1)..Len(wire') : Decode(wire'[j]).id # u
    <3>1. /\ phase[u] = "ended"
          /\ \A j \in ((i + 1) + 1)..Len(wire) : Decode(wire[j]).id # u
      <4> DEFINE k == i + 1
      <4>1. k \in 1..Len(wire) /\ Decode(wire[k]).type = "ResEnd" /\ Decode(wire[k]).id = u
        BY <2>1, <2>3
      <4> HIDE DEF k
      <4>2. phase[u] = "ended" /\ \A j \in (k + 1)..Len(wire) : Decode(wire[j]).id # u
        BY <4>1 DEF EndsLast
      <4> QED BY <4>2 DEF k
    <3>2. ASSUME NEW j \in (i + 1)..Len(wire') PROVE Decode(wire'[j]).id # u
      <4>1. j \in 1..Len(wire') /\ j + 1 \in ((i + 1) + 1)..Len(wire)
        BY <2>1
      <4> QED BY <2>1, <3>1, <4>1
    <3> QED BY <2>2, <3>1, <3>2
  <2>4. ASSUME NEW u \in Streams, finished'[u]
        PROVE  phase'[u] = "ended" /\ \A j \in 1..Len(wire') : Decode(wire'[j]).id # u
    <3>1. phase[u] = "ended" /\ \A j \in 2..Len(wire) : Decode(wire[j]).id # u
      <4>1. CASE finished[u]
        BY <4>1, <2>1 DEF EndsLast
      <4>2. CASE ~finished[u]
        <5>1. m.id = u /\ m.type = "ResEnd"
          BY <1>5, <2>4, <4>2, ReceivedFrame
        <5>2. 1 \in 1..Len(wire) /\ 1 + 1 = 2
          BY <2>1
        <5> QED BY <2>1, <5>1, <5>2 DEF EndsLast
      <4> QED BY <4>1, <4>2
    <3>2. \A j \in 1..Len(wire') : j + 1 \in 2..Len(wire) /\ wire'[j] = wire[j + 1]
      BY <2>1
    <3> QED BY <2>2, <3>1, <3>2
  <2> QED BY <2>2, <2>3, <2>4 DEF EndsLast
<1>6. ASSUME UNCHANGED framingVars PROVE EndsLast'
  BY <1>6 DEF EndsLast, framingVars
<1> QED BY <1>1, <1>2, <1>3, <1>4, <1>5, <1>6 DEF Next

(* What the sender of s has in hand.                                       *)
InHand(s) == SubSeq(piece[s], offset[s] + 1, Len(piece[s]))

LEMMA BodyPartTypes ==
    ASSUME FramingTypeOK, NEW s \in Streams
    PROVE  /\ received[s] \in Seq(Byte) /\ UnderWay(s) \in Seq(Byte) /\ InHand(s) \in Seq(Byte)
           /\ given[s] \in Seq(Byte) /\ piece[s] \in Seq(Byte)
           /\ offset[s] \in Nat /\ Len(piece[s]) \in Nat /\ offset[s] <= Len(piece[s])
<1>1. /\ received[s] \in Seq(Byte) /\ given[s] \in Seq(Byte) /\ piece[s] \in Seq(Byte)
      /\ offset[s] \in Nat /\ Len(piece[s]) \in Nat /\ offset[s] <= Len(piece[s])
      /\ wire \in Frames /\ Len(wire) \in Nat
  BY DEF FramingTypeOK, Frames
<1>2. UnderWay(s) \in Seq(Byte)
  <2>1. Len(wire) \in 0..Len(wire)
    BY <1>1
  <2> QED BY <1>1, <2>1, BodyUpToType DEF UnderWay
<1>3. InHand(s) \in Seq(Byte)
  <2>1. \A i \in (offset[s] + 1)..Len(piece[s]) : piece[s][i] \in Byte
    BY <1>1
  <2> QED BY <1>1, <2>1, SubSeqProperties DEF InHand
<1> QED BY <1>1, <1>2, <1>3

(* With all of a piece sent nothing is in hand.                            *)
LEMMA NothingInHand ==
    ASSUME FramingTypeOK, NEW s \in Streams, offset[s] = Len(piece[s])
    PROVE  InHand(s) = <<>>
BY BodyPartTypes, SubSeqEmpty DEF InHand

(* A message sent is under way, behind what was.                           *)
LEMMA SendPutsUnderWay ==
    ASSUME FramingTypeOK, NEW m \in Message, Send(m), NEW s \in Streams
    PROVE  IF m.type = "ResBody" /\ m.id = s
           THEN UnderWay(s)' = UnderWay(s) \o m.payload
           ELSE UnderWay(s)' = UnderWay(s)
<1>1. wire \in Frames /\ wire' = Append(wire, Encode(m))
  BY DEF FramingTypeOK, Frames, Send
<1>2. Encode(m) \in Seq(Byte) /\ Decode(Encode(m)) = m
  BY DecodeInvertsEncode
<1>3. UnderWay(s)' = UnderWay(s) \o BodyIn(s, Encode(m))
  BY <1>1, <1>2, BodyUpToAppend DEF UnderWay
<1>4. BodyIn(s, Encode(m)) = IF m.type = "ResBody" /\ m.id = s THEN m.payload ELSE <<>>
  BY <1>2 DEF BodyIn
<1>5. UnderWay(s) \o <<>> = UnderWay(s)
  BY BodyPartTypes, ConcatEmptySeq
<1> QED BY <1>3, <1>4, <1>5

Conserved(s) == (received[s] \o UnderWay(s)) \o InHand(s) = given[s]
BodyInv == FramingInv /\ EndsLast /\ \A s \in Streams : Conserved(s)

LEMMA BodyInit == Init => BodyInv
<1> SUFFICES ASSUME Init PROVE BodyInv
  OBVIOUS
<1>1. FramingInv /\ wire = <<>> /\ Len(wire) = 0
  BY FramingInit DEF Init
<1>2. EndsLast
  <2>1. \A s \in Streams : phase[s] # "ended" /\ ~finished[s]
    BY DEF Init
  <2>2. 1..Len(wire) = {}
    BY <1>1
  <2> QED BY <2>1, <2>2, Zenon DEF EndsLast
<1>3. ASSUME NEW s \in Streams PROVE Conserved(s)
  <2>1. received[s] = <<>> /\ given[s] = <<>> /\ offset[s] = Len(piece[s])
    BY DEF Init
  <2>2. wire \in Frames
    BY <1>1 DEF FramingInv, FramingTypeOK, Frames
  <2>3. UnderWay(s) = <<>>
    BY <1>1, <2>2, BodyUpToRec DEF UnderWay
  <2>4. InHand(s) = <<>>
    BY <1>1, <2>1, NothingInHand DEF FramingInv
  <2>5. (<<>> \o <<>>) \o <<>> = <<>>
    OBVIOUS
  <2> QED BY <2>1, <2>3, <2>4, <2>5 DEF Conserved
<1> QED BY <1>1, <1>2, <1>3 DEF BodyInv

(* A step that changes none of the parts keeps their sum.                  *)
LEMMA SameParts ==
    ASSUME NEW s \in Streams, Conserved(s),
           received'[s] = received[s], UnderWay(s)' = UnderWay(s),
           piece'[s] = piece[s], offset'[s] = offset[s], given'[s] = given[s]
    PROVE  Conserved(s)'
BY DEF Conserved, InHand

LEMMA TakePieceConserves ==
    ASSUME FramingTypeOK, FramingTypeOK', NEW t \in Streams, TakePiece(t),
           NEW s \in Streams, Conserved(s)
    PROVE  Conserved(s)'
<1>1. UnderWay(s)' = UnderWay(s) /\ received' = received
  BY DEF TakePiece, UnderWay
<1>2. CASE s # t
  <2>1. piece'[s] = piece[s] /\ offset'[s] = offset[s] /\ given'[s] = given[s]
    BY <1>2 DEF TakePiece, FramingTypeOK
  <2> QED BY <1>1, <2>1, SameParts
<1>3. CASE s = t
  <2>1. PICK n \in 0..(MaxBody - Len(given[s])) :
           piece'[s] = NextBytes(s, n) /\ given'[s] = given[s] \o NextBytes(s, n)
    BY <1>3 DEF TakePiece, FramingTypeOK
  <2>2. offset'[s] = 0 /\ offset[s] = Len(piece[s])
    BY <1>3 DEF TakePiece, PieceSent, FramingTypeOK
  <2> DEFINE new == NextBytes(s, n)
             sofar == received[s] \o UnderWay(s)
  <2>3. new \in Seq(Byte)
    BY NextBytesType
  <2>4. sofar \in Seq(Byte)
    BY BodyPartTypes, ConcatProperties
  <2>5. InHand(s)' = new
    BY <2>1, <2>2, <2>3, SubSeqFull DEF InHand
  <2>6. sofar \o <<>> = given[s]
    BY <2>2, NothingInHand DEF Conserved
  <2>7. sofar = given[s]
    BY <2>4, <2>6, ConcatEmptySeq
  <2>8. (received'[s] \o UnderWay(s)') \o InHand(s)' = given[s] \o new
    BY <1>1, <2>5, <2>7
  <2> QED BY <2>1, <2>8 DEF Conserved
<1> QED BY <1>2, <1>3

LEMMA SendChunkConserves ==
    ASSUME FramingTypeOK, NEW t \in Streams, SendChunk(t), NEW s \in Streams, Conserved(s)
    PROVE  Conserved(s)'
<1> DEFINE chunk == SubSeq(piece[t], offset[t] + 1, ChunkEnd(t))
           m == ResBody(t, chunk)
<1>1. /\ offset[t] < Len(piece[t]) /\ Send(m)
      /\ offset' = [offset EXCEPT ![t] = ChunkEnd(t)]
      /\ UNCHANGED <<piece, received, given>>
  BY DEF SendChunk
<1>2. chunk \in Seq(Byte) /\ ChunkEnd(t) \in Nat /\ ChunkEnd(t) <= Len(piece[t])
  BY <1>1, ChunkBounds
<1>3. m \in Message /\ m.type = "ResBody" /\ m.id = t /\ m.payload = chunk
  BY <1>2, SentIsMessage DEF ResBody
<1> HIDE DEF m
<1>4. CASE s # t
  <2>1. UnderWay(s)' = UnderWay(s)
    BY <1>1, <1>3, <1>4, SendPutsUnderWay
  <2>2. offset'[s] = offset[s]
    BY <1>1, <1>4 DEF FramingTypeOK
  <2> QED BY <1>1, <2>1, <2>2, SameParts
<1>5. CASE s = t
  <2>1. UnderWay(s)' = UnderWay(s) \o chunk
    BY <1>1, <1>3, <1>5, SendPutsUnderWay
  <2>2. offset'[s] = ChunkEnd(s) /\ piece'[s] = piece[s]
    BY <1>1, <1>5 DEF FramingTypeOK
  <2>3. /\ piece[s] \in Seq(Byte) /\ Len(piece[s]) \in Nat /\ offset[s] \in Nat
        /\ offset[s] < Len(piece[s]) /\ ChunkEnd(s) \in Nat /\ ChunkEnd(s) <= Len(piece[s])
        /\ ChunkEnd(s) > offset[s]
    BY <1>1, <1>2, <1>5, BodyPartTypes, ChunkAssumption DEF ChunkEnd
  <2> DEFINE rest == SubSeq(piece[s], ChunkEnd(s) + 1, Len(piece[s]))
  <2>4. InHand(s) = chunk \o rest
    <3>1. /\ offset[s] + 1 \in 1..Len(piece[s]) + 1
          /\ ChunkEnd(s) \in (offset[s] + 1) - 1 .. Len(piece[s])
          /\ Len(piece[s]) \in ChunkEnd(s)..Len(piece[s])
      BY <2>3
    <3>2. SubSeq(piece[s], offset[s] + 1, ChunkEnd(s)) \o rest
            = SubSeq(piece[s], offset[s] + 1, Len(piece[s]))
      BY <2>3, <3>1, ConcatAdjacentSubSeq
    <3> QED BY <1>5, <3>2 DEF InHand
  <2>5. InHand(s)' = rest
    BY <2>2 DEF InHand
  <2>6. rest \in Seq(Byte)
    <3>1. \A i \in (ChunkEnd(s) + 1)..Len(piece[s]) : piece[s][i] \in Byte
      BY <2>3
    <3> QED BY <2>3, <3>1, SubSeqProperties
  <2> HIDE DEF chunk, rest
  <2> DEFINE got == received[s]
             way == UnderWay(s)
             both == got \o way
  <2>7. /\ got \in Seq(Byte) /\ way \in Seq(Byte) /\ both \in Seq(Byte)
        /\ chunk \in Seq(Byte) /\ rest \in Seq(Byte)
    BY <1>2, <2>6, BodyPartTypes, ConcatProperties
  <2>8. both \o (chunk \o rest) = given[s]
    BY <2>4 DEF Conserved
  <2>9. received'[s] = got /\ given'[s] = given[s]
    BY <1>1
  <2> HIDE DEF got, way
  <2>10. both \o chunk = got \o (way \o chunk)
    BY <2>7, ConcatBytes
  <2> HIDE DEF both
  <2>11. (both \o chunk) \o rest = both \o (chunk \o rest)
    BY <2>7, ConcatBytes
  <2>12. (got \o (way \o chunk)) \o rest = given'[s]
    BY <2>8, <2>9, <2>10, <2>11
  <2>13. UnderWay(s)' = way \o chunk
    BY <2>1 DEF way
  <2> QED BY <2>5, <2>9, <2>12, <2>13 DEF Conserved
<1> QED BY <1>4, <1>5

LEMMA ReceiveConserves ==
    ASSUME FramingInv, EndsLast, Receive, NEW s \in Streams, Conserved(s)
    PROVE  Conserved(s)'
<1> DEFINE m == Decode(Head(wire))
           data == BodyIn(s, Head(wire))
<1>1. /\ wire \in Frames /\ wire # <<>> /\ wire' = Tail(wire) /\ Len(wire) \in Nat \ {0}
      /\ Head(wire) = wire[1] /\ Head(wire) \in Seq(Byte)
      /\ IF m.id = s /\ ~finished[s]
         THEN received'[s] = IF m.type = "ResBody" THEN received[s] \o m.payload ELSE received[s]
         ELSE received'[s] = received[s]
  BY ReceivedFrame
<1>2. UNCHANGED <<piece, offset, given>>
  BY DEF Receive
<1>3. FramingTypeOK /\ data \in Seq(Byte)
  BY <1>1, BodyInType DEF FramingInv
<1>4. UnderWay(s) = data \o UnderWay(s)'
  BY <1>1, BodyUpToTail DEF UnderWay
<1>5. received[s] \in Seq(Byte) /\ received[s] \o <<>> = received[s]
  BY <1>3, BodyPartTypes, ConcatEmptySeq
<1>6. received'[s] = received[s] \o data
  <2>1. CASE m.id = s /\ ~finished[s]
    BY <1>1, <1>5, <2>1 DEF BodyIn
  <2>2. CASE m.id # s
    BY <1>1, <1>5, <2>2 DEF BodyIn
  <2>3. CASE finished[s]
    <3>1. 1 \in 1..Len(wire)
      BY <1>1
    <3>2. m.id # s
      BY <1>1, <2>3, <3>1 DEF EndsLast
    <3> QED BY <2>2, <3>2
  <2> QED BY <2>1, <2>2, <2>3
<1>7. UnderWay(s)' \in Seq(Byte)
  <2>1. wire' \in Frames /\ Len(wire') \in 0..Len(wire')
    BY <1>1 DEF Frames
  <2> QED BY <2>1, BodyUpToType DEF UnderWay
<1> HIDE DEF data
<1>8. (received[s] \o data) \o UnderWay(s)' = received[s] \o (data \o UnderWay(s)')
  BY <1>3, <1>5, <1>7, ConcatBytes
<1>9. received'[s] \o UnderWay(s)' = received[s] \o UnderWay(s)
  BY <1>4, <1>6, <1>8
<1>10. InHand(s)' = InHand(s) /\ given'[s] = given[s]
  BY <1>2 DEF InHand
<1> QED BY <1>9, <1>10 DEF Conserved

LEMMA BodyStep == BodyInv /\ [Next]_framingVars => BodyInv'
<1> SUFFICES ASSUME BodyInv, [Next]_framingVars PROVE BodyInv'
  OBVIOUS
<1>1. FramingInv /\ EndsLast /\ FramingTypeOK
  BY DEF BodyInv, FramingInv
<1>2. FramingInv' /\ EndsLast' /\ FramingTypeOK'
  BY <1>1, FramingStep, EndsStep DEF FramingInv
<1>3. ASSUME NEW s \in Streams PROVE Conserved(s)'
  <2>1. Conserved(s)
    BY DEF BodyInv
  <2>2. ASSUME NEW t \in Streams, SendHeaders(t) PROVE Conserved(s)'
    <3>1. PICK size \in HeadersSizes : Send(ResHeaders(t, size))
      BY <2>2 DEF SendHeaders
    <3>2. ResHeaders(t, size) \in Message /\ ResHeaders(t, size).type # "ResBody"
      BY SentIsMessage, FramingBounds, EmptySeq DEF ResHeaders
    <3>3. UnderWay(s)' = UnderWay(s)
      BY <1>1, <3>1, <3>2, SendPutsUnderWay
    <3>4. UNCHANGED <<received, piece, offset, given>>
      BY <2>2 DEF SendHeaders
    <3> QED BY <2>1, <3>3, <3>4, SameParts
  <2>3. ASSUME NEW t \in Streams, TakePiece(t) PROVE Conserved(s)'
    BY <1>1, <1>2, <2>1, <2>3, TakePieceConserves
  <2>4. ASSUME NEW t \in Streams, SendChunk(t) PROVE Conserved(s)'
    BY <1>1, <2>1, <2>4, SendChunkConserves
  <2>5. ASSUME NEW t \in Streams, SendEnd(t) PROVE Conserved(s)'
    <3>1. Send(ResEnd(t)) /\ UNCHANGED <<received, piece, offset, given>>
      BY <2>5 DEF SendEnd
    <3>2. ResEnd(t) \in Message /\ ResEnd(t).type # "ResBody"
      BY SentIsMessage, EmptySeq DEF ResEnd
    <3>3. UnderWay(s)' = UnderWay(s)
      BY <1>1, <3>1, <3>2, SendPutsUnderWay
    <3> QED BY <2>1, <3>1, <3>3, SameParts
  <2>6. ASSUME Receive PROVE Conserved(s)'
    BY <1>1, <2>1, <2>6, ReceiveConserves
  <2>7. ASSUME UNCHANGED framingVars PROVE Conserved(s)'
    BY <2>1, <2>7, SameParts DEF framingVars, UnderWay
  <2> QED BY <2>2, <2>3, <2>4, <2>5, <2>6, <2>7 DEF Next
<1> QED BY <1>2, <1>3 DEF BodyInv

LEMMA BodyInvariant == Spec => []BodyInv
<1> QED BY BodyInit, BodyStep, PTL DEF Spec

(* However the upstream cuts its body into pieces, the chunk loops cut     *)
(* those into frames and sends of different streams interleave, the reader *)
(* puts each body together as it was (serve.rs:261-276, proxy.rs:109-145). *)
THEOREM BodiesConserved == Spec => []BodyConserved
<1>1. BodyInv => BodyConserved
  BY DEF BodyInv, Conserved, InHand, BodyConserved
<1> QED BY <1>1, BodyInvariant, PTL

(* When the reader sees the end of a stream it has the whole body.         *)
THEOREM FinishedHaveAll == Spec => []FinishedWhole
<1>1. BodyInv => FinishedWhole
  <2> SUFFICES ASSUME BodyInv, NEW s \in Streams, finished[s]
               PROVE  received[s] = given[s] /\ phase[s] = "ended"
    BY DEF FinishedWhole
  <2>1. FramingTypeOK /\ EndsLast /\ Conserved(s)
    BY DEF BodyInv, FramingInv
  <2>2. phase[s] = "ended" /\ \A j \in 1..Len(wire) : Decode(wire[j]).id # s
    BY <2>1 DEF EndsLast
  <2>3. UnderWay(s) = <<>>
    BY <2>1, <2>2, BodyUpToNone DEF UnderWay, FramingTypeOK, Frames
  <2>4. InHand(s) = <<>>
    BY <2>1, <2>2, NothingInHand DEF EndsLast
  <2>5. received[s] \in Seq(Byte) /\ received[s] \o <<>> = received[s]
    BY <2>1, BodyPartTypes, ConcatEmptySeq
  <2>6. given[s] = (received[s] \o <<>>) \o <<>>
    BY <2>1, <2>3, <2>4 DEF Conserved
  <2> QED BY <2>2, <2>5, <2>6
<1> QED BY <1>1, BodyInvariant, PTL
=============================================================================
