-------------------------- MODULE TunnelOrderProofs --------------------------
(***************************************************************************)
(* Theorems about the order of what a stream has in transit in Tunnel, for *)
(* every set of requests and every bound, on a link that may fail.         *)
(*                                                                         *)
(* Each frame of a stream has a position in it, from 1 on, in either       *)
(* direction.  What is under way in a queue is, but for the frames of      *)
(* other streams, the positions after the last one its reader took, in     *)
(* order, none missing before the last of them; and while the link holds   *)
(* the last of them is the last one sent.                                  *)
(***************************************************************************)
EXTENDS TunnelProofs

(* The frames of S in q are those of positions p + 1, p + 2, ... and none  *)
(* beyond t; Full: up to t.                                                *)
InPlace(q, S, pos, p, t, k) ==
    q[k] \in S =>
        /\ p < pos[q[k]] /\ pos[q[k]] <= t
        /\ \A l \in 1..(k - 1) : q[l] \in S => pos[q[l]] < pos[q[k]]
        /\ \A n \in (p + 1)..pos[q[k]] : \E l \in 1..k : q[l] \in S /\ pos[q[l]] = n

InLine(q, S, pos, p, t) == p <= t /\ \A k \in 1..Len(q) : InPlace(q, S, pos, p, t, k)

Full(q, S, pos, p, t) ==
    \A n \in (p + 1)..t : \E l \in 1..Len(q) : q[l] \in S /\ pos[q[l]] = n

(* A queue goes on by something that is not of S, or loses its end.        *)
Moves(q, q2, S) ==
    \/ q2 = q
    \/ \E f \in Frame \ S : q2 = Append(q, f)
    \/ q # <<>> /\ Head(q) \notin S /\ q2 = Tail(q)

-----------------------------------------------------------------------------
(***************************************************************************)
(* Queues.                                                                 *)
(***************************************************************************)
LEMMA SamePlace ==
    ASSUME NEW q, NEW w, NEW k \in Nat \ {0}, \A l \in 1..k : w[l] = q[l],
           NEW S, NEW pos, NEW p \in Nat, NEW t \in Nat, InPlace(q, S, pos, p, t, k)
    PROVE  InPlace(w, S, pos, p, t, k)
<1>1. w[k] = q[k] /\ \A l \in 1..(k - 1) : w[l] = q[l]
  OBVIOUS
<1> SUFFICES ASSUME q[k] \in S
             PROVE  /\ p < pos[q[k]] /\ pos[q[k]] <= t
                    /\ \A l \in 1..(k - 1) : w[l] \in S => pos[w[l]] < pos[q[k]]
                    /\ \A n \in (p + 1)..pos[q[k]] : \E l \in 1..k : w[l] \in S /\ pos[w[l]] = n
  BY <1>1 DEF InPlace
<1>2. p < pos[q[k]] /\ pos[q[k]] <= t
  BY DEF InPlace
<1>3. \A l \in 1..(k - 1) : w[l] \in S => pos[w[l]] < pos[q[k]]
  BY <1>1 DEF InPlace
<1>4. ASSUME NEW n \in (p + 1)..pos[q[k]] PROVE \E l \in 1..k : w[l] \in S /\ pos[w[l]] = n
  <2>1. PICK l \in 1..k : q[l] \in S /\ pos[q[l]] = n
    BY DEF InPlace
  <2> QED  BY <2>1
<1> QED  BY <1>2, <1>3, <1>4

LEMMA AppendOther ==
    ASSUME NEW q \in Seq(Frame), NEW S, NEW f \in Frame \ S, NEW pos \in [Frame -> Nat],
           NEW p \in Nat, NEW t \in Nat
    PROVE  /\ InLine(q, S, pos, p, t) => InLine(Append(q, f), S, pos, p, t)
           /\ Full(q, S, pos, p, t) => Full(Append(q, f), S, pos, p, t)
<1> DEFINE w == Append(q, f)
<1>1. /\ Len(w) = Len(q) + 1 /\ Len(q) \in Nat
      /\ \A k \in 1..Len(q) : w[k] = q[k]
      /\ w[Len(q) + 1] = f
  BY AppendProperties, LenProperties
<1> HIDE DEF w
<1>2. \A k \in 1..Len(w) : w[k] \in S => k \in 1..Len(q) /\ w[k] = q[k]
  BY <1>1
<1>3. \A k \in 1..Len(q) : \A l \in 1..k : l \in 1..Len(q) /\ l \in 1..Len(w) /\ w[l] = q[l]
  BY <1>1
<1>4. InLine(q, S, pos, p, t) => InLine(w, S, pos, p, t)
  <2> SUFFICES ASSUME InLine(q, S, pos, p, t), NEW k \in 1..Len(w), w[k] \in S
               PROVE  InPlace(w, S, pos, p, t, k)
    BY DEF InLine, InPlace
  <2>1. k \in 1..Len(q) /\ k \in Nat \ {0} /\ \A l \in 1..k : w[l] = q[l]
    BY <1>2, <1>3
  <2>2. InPlace(q, S, pos, p, t, k)
    BY <2>1 DEF InLine
  <2> QED  BY <2>1, <2>2, SamePlace
<1>5. Full(q, S, pos, p, t) => Full(w, S, pos, p, t)
  BY <1>1, <1>3 DEF Full
<1> QED  BY <1>4, <1>5 DEF w

LEMMA AppendNext ==
    ASSUME NEW q \in Seq(Frame), NEW S, NEW f \in Frame, f \in S, NEW pos \in [Frame -> Nat],
           NEW p \in Nat, NEW t \in Nat, pos[f] = t + 1,
           InLine(q, S, pos, p, t), Full(q, S, pos, p, t)
    PROVE  InLine(Append(q, f), S, pos, p, t + 1) /\ Full(Append(q, f), S, pos, p, t + 1)
<1> DEFINE w == Append(q, f)
<1>1. /\ Len(w) = Len(q) + 1 /\ Len(q) \in Nat
      /\ \A k \in 1..Len(q) : w[k] = q[k] /\ q[k] \in Frame
      /\ w[Len(q) + 1] = f
  BY AppendProperties, LenProperties
<1> HIDE DEF w
<1>2. ASSUME NEW k \in 1..Len(q) PROVE InPlace(w, S, pos, p, t, k)
  <2>1. k \in Nat \ {0} /\ InPlace(q, S, pos, p, t, k) /\ \A l \in 1..k : w[l] = q[l]
    BY <1>1 DEF InLine
  <2> QED  BY <2>1, SamePlace
<1>3. \A n \in (p + 1)..(t + 1) : \E l \in 1..(Len(q) + 1) : w[l] \in S /\ pos[w[l]] = n
  <2> TAKE n \in (p + 1)..(t + 1)
  <2>1. CASE n = t + 1
    BY <1>1, <2>1
  <2>2. CASE n # t + 1
    <3>1. n \in (p + 1)..t
      BY <2>2
    <3>2. PICK l \in 1..Len(q) : q[l] \in S /\ pos[q[l]] = n
      BY <3>1 DEF Full
    <3> QED  BY <1>1, <3>2
  <2> QED  BY <2>1, <2>2
<1>4. \A l \in 1..Len(q) : w[l] \in S => pos[w[l]] < t + 1
  <2> TAKE l \in 1..Len(q)
  <2>1. pos[w[l]] \in Nat
    BY <1>1
  <2> QED  BY <2>1, <1>2 DEF InPlace
<1>5. InLine(w, S, pos, p, t + 1)
  <2>1. p <= t + 1 /\ p < t + 1
    BY DEF InLine
  <2>2. ASSUME NEW k \in 1..Len(w) PROVE InPlace(w, S, pos, p, t + 1, k)
    <3>1. CASE k \in 1..Len(q)
      <4>1. pos[w[k]] \in Nat /\ InPlace(w, S, pos, p, t, k)
        BY <1>1, <1>2, <3>1
      <4>2. pos[w[k]] <= t => pos[w[k]] <= t + 1
        BY <4>1
      <4> QED  BY <4>1, <4>2 DEF InPlace
    <3>2. CASE k = Len(q) + 1
      <4>1. w[k] = f /\ pos[w[k]] = t + 1 /\ \A l \in 1..(k - 1) : l \in 1..Len(q)
        BY <1>1, <3>2
      <4>2. p < pos[w[k]] /\ pos[w[k]] <= t + 1
        BY <2>1, <4>1
      <4>3. \A l \in 1..(k - 1) : w[l] \in S => pos[w[l]] < pos[w[k]]
        BY <1>4, <4>1
      <4>4. \A n \in (p + 1)..pos[w[k]] : \E l \in 1..k : w[l] \in S /\ pos[w[l]] = n
        BY <1>3, <3>2, <4>1
      <4> QED  BY <4>2, <4>3, <4>4 DEF InPlace
    <3> QED  BY <1>1, <3>1, <3>2
  <2> QED  BY <2>1, <2>2 DEF InLine
<1>6. Full(w, S, pos, p, t + 1)
  BY <1>1, <1>3 DEF Full
<1> QED  BY <1>5, <1>6 DEF w

LEMMA TailOther ==
    ASSUME NEW q \in Seq(Frame), q # <<>>, NEW S, Head(q) \notin S,
           NEW pos \in [Frame -> Nat], NEW p \in Nat, NEW t \in Nat
    PROVE  /\ InLine(q, S, pos, p, t) => InLine(Tail(q), S, pos, p, t)
           /\ Full(q, S, pos, p, t) => Full(Tail(q), S, pos, p, t)
<1> DEFINE w == Tail(q)
<1>1. /\ Len(q) \in Nat /\ Len(w) = Len(q) - 1 /\ q[1] \notin S
      /\ \A k \in 1..(Len(q) - 1) : w[k] = q[k + 1]
  BY HeadTailProperties, LenProperties
<1> HIDE DEF w
<1>2. \A l \in 1..Len(q) : q[l] \in S => l - 1 \in 1..Len(w) /\ w[l - 1] = q[l]
  <2> TAKE l \in 1..Len(q)
  <2>1. CASE l = 1
    BY <1>1, <2>1
  <2>2. CASE l # 1
    <3>1. l - 1 \in 1..(Len(q) - 1) /\ (l - 1) + 1 = l
      BY <2>2
    <3> QED  BY <1>1, <3>1
  <2> QED  BY <2>1, <2>2
<1>3. InLine(q, S, pos, p, t) => InLine(w, S, pos, p, t)
  <2> SUFFICES ASSUME InLine(q, S, pos, p, t), NEW k \in 1..Len(w), w[k] \in S
               PROVE  InPlace(w, S, pos, p, t, k)
    BY DEF InLine, InPlace
  <2>1. k + 1 \in 1..Len(q) /\ w[k] = q[k + 1] /\ q[k + 1] \in S
    BY <1>1
  <2>2. InPlace(q, S, pos, p, t, k + 1)
    BY <2>1 DEF InLine
  <2>3. p < pos[w[k]] /\ pos[w[k]] <= t
    BY <2>1, <2>2 DEF InPlace
  <2>4. ASSUME NEW l \in 1..(k - 1), w[l] \in S PROVE pos[w[l]] < pos[w[k]]
    <3>1. l + 1 \in 1..((k + 1) - 1) /\ l \in 1..(Len(q) - 1)
      BY <1>1
    <3>2. w[l] = q[l + 1]
      BY <1>1, <3>1
    <3> QED  BY <2>1, <2>2, <2>4, <3>1, <3>2 DEF InPlace
  <2>5. ASSUME NEW n \in (p + 1)..pos[w[k]]
        PROVE  \E l \in 1..k : w[l] \in S /\ pos[w[l]] = n
    <3>1. PICK l \in 1..(k + 1) : q[l] \in S /\ pos[q[l]] = n
      BY <2>1, <2>2, <2>5 DEF InPlace
    <3>2. l \in 1..Len(q)
      BY <1>1, <3>1
    <3>3. l - 1 \in 1..Len(w) /\ w[l - 1] = q[l]
      BY <1>2, <3>1, <3>2
    <3>4. l - 1 \in 1..k
      BY <3>1, <3>3
    <3> QED  BY <3>1, <3>3, <3>4
  <2> QED  BY <2>3, <2>4, <2>5 DEF InPlace
<1>4. ASSUME Full(q, S, pos, p, t) PROVE Full(w, S, pos, p, t)
  <2> SUFFICES ASSUME NEW n \in (p + 1)..t
               PROVE  \E l \in 1..Len(w) : w[l] \in S /\ pos[w[l]] = n
    BY DEF Full
  <2>1. PICK l \in 1..Len(q) : q[l] \in S /\ pos[q[l]] = n
    BY <1>4 DEF Full
  <2>2. l - 1 \in 1..Len(w) /\ w[l - 1] = q[l]
    BY <1>2, <2>1
  <2> QED  BY <2>1, <2>2
<1> QED  BY <1>3, <1>4 DEF w

LEMMA TailNext ==
    ASSUME NEW q \in Seq(Frame), q # <<>>, NEW S, Head(q) \in S,
           NEW pos \in [Frame -> Nat], NEW p \in Nat, NEW t \in Nat,
           InLine(q, S, pos, p, t)
    PROVE  /\ pos[Head(q)] = p + 1 /\ p + 1 <= t
           /\ InLine(Tail(q), S, pos, p + 1, t)
           /\ Full(q, S, pos, p, t) => Full(Tail(q), S, pos, p + 1, t)
<1> DEFINE w == Tail(q)
<1>1. /\ Len(q) \in Nat /\ Len(q) >= 1 /\ Len(w) = Len(q) - 1
      /\ Head(q) = q[1] /\ q[1] \in S
      /\ \A k \in 1..Len(q) : q[k] \in Frame /\ pos[q[k]] \in Nat
      /\ \A k \in 1..(Len(q) - 1) : w[k] = q[k + 1]
  BY HeadTailProperties, LenProperties, EmptySeq
<1> HIDE DEF w
<1>2. pos[q[1]] = p + 1 /\ p + 1 <= t
  <2>0. 1 \in 1..Len(q) /\ InPlace(q, S, pos, p, t, 1)
    BY <1>1 DEF InLine
  <2>1. p < pos[q[1]] /\ pos[q[1]] <= t /\ pos[q[1]] \in Nat
    BY <1>1, <2>0 DEF InPlace
  <2>2. p + 1 \in (p + 1)..pos[q[1]]
    BY <2>1
  <2>3. PICK l \in 1..1 : q[l] \in S /\ pos[q[l]] = p + 1
    BY <1>1, <2>0, <2>2 DEF InPlace
  <2>4. l = 1
    BY <2>3
  <2> QED  BY <2>1, <2>3, <2>4
<1>3. \A l \in 1..Len(q) : q[l] \in S /\ pos[q[l]] # p + 1 =>
          l - 1 \in 1..Len(w) /\ w[l - 1] = q[l]
  <2> TAKE l \in 1..Len(q)
  <2>1. CASE l = 1
    BY <1>2, <2>1
  <2>2. CASE l # 1
    <3>1. l - 1 \in 1..(Len(q) - 1) /\ (l - 1) + 1 = l
      BY <2>2
    <3> QED  BY <1>1, <3>1
  <2> QED  BY <2>1, <2>2
<1>4. InLine(w, S, pos, p + 1, t)
  <2> SUFFICES ASSUME NEW k \in 1..Len(w), w[k] \in S
               PROVE  InPlace(w, S, pos, p + 1, t, k)
    BY <1>2 DEF InLine, InPlace
  <2>1. k + 1 \in 1..Len(q) /\ w[k] = q[k + 1] /\ q[k + 1] \in S
    BY <1>1
  <2>2. InPlace(q, S, pos, p, t, k + 1)
    BY <2>1 DEF InLine
  <2>3. p + 1 < pos[w[k]] /\ pos[w[k]] <= t
    <3>1. 1 \in 1..((k + 1) - 1)
      BY <1>1
    <3>2. pos[q[1]] < pos[q[k + 1]]
      BY <1>1, <2>1, <2>2, <3>1 DEF InPlace
    <3> QED  BY <1>2, <2>1, <2>2, <3>2 DEF InPlace
  <2>4. ASSUME NEW l \in 1..(k - 1), w[l] \in S PROVE pos[w[l]] < pos[w[k]]
    <3>1. l + 1 \in 1..((k + 1) - 1) /\ l \in 1..(Len(q) - 1)
      BY <1>1
    <3>2. w[l] = q[l + 1]
      BY <1>1, <3>1
    <3> QED  BY <2>1, <2>2, <2>4, <3>1, <3>2 DEF InPlace
  <2>5. ASSUME NEW n \in (p + 1 + 1)..pos[w[k]]
        PROVE  \E l \in 1..k : w[l] \in S /\ pos[w[l]] = n
    <3>1. n \in (p + 1)..pos[q[k + 1]] /\ n # p + 1
      BY <1>1, <2>1
    <3>2. PICK l \in 1..(k + 1) : q[l] \in S /\ pos[q[l]] = n
      BY <2>1, <2>2, <3>1 DEF InPlace
    <3>3. l \in 1..Len(q)
      BY <1>1, <3>2
    <3>4. l - 1 \in 1..Len(w) /\ w[l - 1] = q[l]
      BY <1>3, <3>1, <3>2, <3>3
    <3>5. l - 1 \in 1..k
      BY <3>2, <3>4
    <3> QED  BY <3>2, <3>4, <3>5
  <2> QED  BY <2>3, <2>4, <2>5 DEF InPlace
<1>5. ASSUME Full(q, S, pos, p, t) PROVE Full(w, S, pos, p + 1, t)
  <2> SUFFICES ASSUME NEW n \in (p + 1 + 1)..t
               PROVE  \E l \in 1..Len(w) : w[l] \in S /\ pos[w[l]] = n
    BY DEF Full
  <2>1. n \in (p + 1)..t /\ n # p + 1
    OBVIOUS
  <2>2. PICK l \in 1..Len(q) : q[l] \in S /\ pos[q[l]] = n
    BY <1>5, <2>1 DEF Full
  <2>3. l - 1 \in 1..Len(w) /\ w[l - 1] = q[l]
    BY <1>3, <2>1, <2>2
  <2> QED  BY <2>2, <2>3
<1> QED  BY <1>1, <1>2, <1>4, <1>5 DEF w

LEMMA PrefixInLine ==
    ASSUME NEW q \in Seq(Frame), NEW i \in 0..Len(q), NEW S, NEW pos \in [Frame -> Nat],
           NEW p \in Nat, NEW t \in Nat, InLine(q, S, pos, p, t)
    PROVE  InLine(SubSeq(q, 1, i), S, pos, p, t)
<1> DEFINE w == SubSeq(q, 1, i)
<1>1. Len(q) \in Nat /\ Len(w) = i /\ \A k \in 1..i : w[k] = q[k]
  BY SubSeqProperties, LenProperties
<1> HIDE DEF w
<1>2. ASSUME NEW k \in 1..Len(w) PROVE InPlace(w, S, pos, p, t, k)
  <2>1. k \in 1..Len(q) /\ k \in Nat \ {0} /\ \A l \in 1..k : w[l] = q[l]
    BY <1>1
  <2>2. InPlace(q, S, pos, p, t, k)
    BY <2>1 DEF InLine
  <2> QED  BY <2>1, <2>2, SamePlace
<1>3. InLine(w, S, pos, p, t)
  BY <1>2 DEF InLine
<1> QED  BY <1>3 DEF w

(* Moves of other streams.                                                 *)
LEMMA MovesInLine ==
    ASSUME NEW q \in Seq(Frame), NEW w, NEW S, Moves(q, w, S), NEW pos \in [Frame -> Nat],
           NEW p \in Nat, NEW t \in Nat
    PROVE  /\ InLine(q, S, pos, p, t) => InLine(w, S, pos, p, t)
           /\ Full(q, S, pos, p, t) => Full(w, S, pos, p, t)
<1>1. CASE w = q
  BY <1>1
<1>2. CASE \E f \in Frame \ S : w = Append(q, f)
  BY <1>2, AppendOther
<1>3. CASE q # <<>> /\ Head(q) \notin S /\ w = Tail(q)
  BY <1>3, TailOther
<1> QED  BY <1>1, <1>2, <1>3 DEF Moves

(* More may have been sent and lost.                                       *)
LEMMA MoreSent ==
    ASSUME NEW q \in Seq(Frame), NEW S, NEW pos \in [Frame -> Nat],
           NEW p \in Nat, NEW t \in Nat, InLine(q, S, pos, p, t), NEW u \in Nat, t <= u
    PROVE  InLine(q, S, pos, p, u)
<1>1. \A k \in 1..Len(q) : q[k] \in Frame /\ pos[q[k]] \in Nat
  OBVIOUS
<1> QED  BY <1>1 DEF InLine, InPlace

(* Positions may change where nothing is under way.                        *)
LEMMA SamePositions ==
    ASSUME NEW q \in Seq(Frame), NEW S, NEW pos \in [Frame -> Nat], NEW pos2 \in [Frame -> Nat],
           NEW p \in Nat, NEW t \in Nat, InLine(q, S, pos, p, t),
           \A f \in Frame : f \in S /\ pos[f] <= t => pos2[f] = pos[f]
    PROVE  /\ InLine(q, S, pos2, p, t)
           /\ Full(q, S, pos, p, t) => Full(q, S, pos2, p, t)
<1>1. \A k \in 1..Len(q) : q[k] \in S => pos2[q[k]] = pos[q[k]]
  BY DEF InLine, InPlace
<1>2. \A k \in 1..Len(q) : \A l \in 1..k : l \in 1..Len(q)
  BY LenProperties
<1>3. ASSUME NEW k \in 1..Len(q), q[k] \in S PROVE InPlace(q, S, pos2, p, t, k)
  <2>1. InPlace(q, S, pos, p, t, k) /\ pos2[q[k]] = pos[q[k]]
    BY <1>1, <1>3 DEF InLine
  <2>2. p < pos2[q[k]] /\ pos2[q[k]] <= t
    BY <1>3, <2>1 DEF InPlace
  <2>3. ASSUME NEW l \in 1..(k - 1), q[l] \in S PROVE pos2[q[l]] < pos2[q[k]]
    <3>1. l \in 1..Len(q)
      BY <1>2
    <3> QED  BY <1>1, <1>3, <2>1, <2>3, <3>1 DEF InPlace
  <2>4. ASSUME NEW n \in (p + 1)..pos2[q[k]]
        PROVE  \E l \in 1..k : q[l] \in S /\ pos2[q[l]] = n
    <3>1. PICK l \in 1..k : q[l] \in S /\ pos[q[l]] = n
      BY <1>3, <2>1, <2>4 DEF InPlace
    <3> QED  BY <1>1, <1>2, <3>1
  <2> QED  BY <2>2, <2>3, <2>4 DEF InPlace
<1>4. InLine(q, S, pos2, p, t)
  BY <1>3 DEF InLine, InPlace
<1>5. Full(q, S, pos, p, t) => Full(q, S, pos2, p, t)
  BY <1>1 DEF Full
<1> QED  BY <1>4, <1>5

LEMMA NothingInLine ==
    ASSUME NEW q \in Seq(Frame), NEW S, \A k \in 1..Len(q) : q[k] \notin S,
           NEW pos, NEW p \in Nat, NEW t \in Nat, p <= t
    PROVE  InLine(q, S, pos, p, t) /\ (p = t => Full(q, S, pos, p, t))
BY DEF InLine, InPlace, Full

-----------------------------------------------------------------------------
(***************************************************************************)
(* The invariant.  It is about streams whose id was given to no other      *)
(* request.                                                                *)
(***************************************************************************)
Early == {"idle", "collect", "register", "sendHeaders"}
Sending == {"sendHeaders", "sendBody", "sendEnd", "await"}
Unanswered == {"none", "upstream", "headers"}

ReqFrames(r) == {f \in Frame : f.req = r /\ f.type \in ReqTypes}
ReqPos(r) ==
    [f \in Frame |->
        CASE f.type = "ReqHeaders" -> 1
          [] f.type = "ReqBody" /\ f.n # 0 -> f.n + 1
          [] f.type = "ReqEnd" -> reqLen[r] + 2
          [] OTHER -> reqLen[r] + 3]
ReqSent(r) ==
    CASE pc[r] \in Early -> 0
      [] pc[r] \in {"sendBody", "sendEnd"} -> sent[r] + 1
      [] OTHER -> reqLen[r] + 2
ReqTaken(r) ==
    CASE h[r] # "none" -> reqLen[r] + 2
      [] h[r] = "none" /\ srvReq[sid[r]] = r -> Len(srvBody[sid[r]]) + 1
      [] OTHER -> 0

ReqOrder(r) ==
    /\ InLine(toServe, ReqFrames(r), ReqPos(r), ReqTaken(r), ReqSent(r))
    /\ link = "up" /\ pc[r] \in Early \cup {"sendBody"} =>
          Full(toServe, ReqFrames(r), ReqPos(r), ReqTaken(r), ReqSent(r))
    /\ pc[r] \in {"sendBody", "sendEnd"} => sent[r] <= reqLen[r]
    /\ pc[r] = "sendEnd" => link = "down"
    /\ srvReq[sid[r]] = r => srvBody[sid[r]] = Chunks(r, Len(srvBody[sid[r]]))
    /\ h[r] # "none" => upBody[r] = Chunks(r, reqLen[r])

ResFrames(r) == {f \in Frame : f.req = r /\ f.type \in ResTypes}
(* status, n, task: what the task answers with, has sent, and its stage.   *)
ResPlace(status, n, task) ==
    [f \in Frame |->
        CASE f.type = "ResHeaders" /\ f.n = status -> 1
          [] f.type = "ResBody" /\ f.n \in 1..n -> f.n + 1
          [] f.type = "Error" /\ task \in {"broken", "aborted"} -> n + 2
          [] f.type = "ResEnd" /\ task = "done" -> n + 2
          [] f.type = "ResEnd" /\ task # "done" -> n + 3
          [] OTHER -> n + 4]
ResPos(r) == ResPlace(hStatus[r], resSent[r], h[r])
ResSent(r) ==
    CASE h[r] \in Unanswered -> 0
      [] h[r] \in {"body", "dead"} -> resSent[r] + 1
      [] h[r] \in {"broken", "done"} -> resSent[r] + 2
      [] OTHER -> resSent[r] + 3
Given(r) == IF pc[r] \in Forwarding THEN Len(got[r]) + 1 ELSE 0
ResRead(r) == Given(r) + Len(events[r])
Live(r) == pc[r] \in {"collect", "register"} \/ (pending[sid[r]] = r /\ pc[r] \notin Finished)

ResOrder(r) ==
    /\ Live(r) => InLine(toProxy, ResFrames(r), ResPos(r), ResRead(r), ResSent(r))
    /\ Live(r) /\ link = "up" /\ h[r] \notin TaskOver =>
          Full(toProxy, ResFrames(r), ResPos(r), ResRead(r), ResSent(r))
    /\ \A k \in 1..Len(events[r]) :
          events[r][k] \in ResFrames(r) /\ ResPos(r)[events[r][k]] = Given(r) + k
    /\ pc[r] \notin Finished => ResRead(r) <= ResSent(r)
    /\ pc[r] \in Finished \cup {"idle", "collect", "register"} => events[r] = <<>>
    /\ pc[r] \in Sending \cup Forwarding /\ pending[sid[r]] # r =>
          events[r] # <<>> /\ events[r][Len(events[r])].type \in {"ResEnd", "Error"}
    /\ got[r] = Chunks(r, Len(got[r])) /\ Len(got[r]) <= resSent[r]
    /\ pc[r] \notin Forwarding \cup {"closed", "dropped"} => got[r] = <<>>
    /\ pc[r] \in Forwarding \cup {"closed", "dropped"} =>
          reply[r] = <<r, hStatus[r]>> /\ h[r] \notin Unanswered
    /\ pc[r] = "closed" =>
          \/ h[r] = "done" /\ Len(got[r]) = resSent[r]
          \/ h[r] \in {"broken", "aborted"}
    /\ h[r] \in Unanswered => resSent[r] = 0

OrderInv ==
    \A r \in Requests :
        /\ pc[r] \in Early => sent[r] = 0
        /\ pc[r] = "idle" => resSent[r] = 0
        /\ UniqueId(r) => ReqOrder(r) /\ ResOrder(r)

-----------------------------------------------------------------------------
LEMMA PositionTypes ==
    ASSUME TypeOK, NEW r \in Requests
    PROVE  /\ ReqPos(r) \in [Frame -> Nat] /\ ReqTaken(r) \in Nat /\ ReqSent(r) \in Nat
           /\ ResPos(r) \in [Frame -> Nat] /\ ResSent(r) \in Nat
           /\ Given(r) \in Nat /\ ResRead(r) \in Nat
<1>1. reqLen[r] \in Nat /\ sent[r] \in Nat /\ resSent[r] \in Nat
  BY DEF TypeOK
<1>2. Len(srvBody[sid[r]]) \in Nat /\ Len(got[r]) \in Nat /\ Len(events[r]) \in Nat
  BY LenProperties DEF TypeOK
<1>3. \A f \in Frame : f.n \in Nat
  BY DEF Frame
<1>4. ReqPos(r) \in [Frame -> Nat]
  BY <1>1, <1>3 DEF ReqPos
<1>5. ResPos(r) \in [Frame -> Nat]
  BY <1>1, <1>3 DEF ResPos, ResPlace
<1>6. ReqTaken(r) \in Nat /\ ReqSent(r) \in Nat
  BY <1>1, <1>2 DEF ReqTaken, ReqSent
<1>7. ResSent(r) \in Nat /\ Given(r) \in Nat
  BY SMTT(30), <1>1, <1>2 DEF ResSent, Given
<1> QED  BY <1>2, <1>4, <1>5, <1>6, <1>7 DEF ResRead

LEMMA PositionTypesNext ==
    ASSUME TypeOK', NEW r \in Requests
    PROVE  /\ ReqPos(r)' \in [Frame -> Nat] /\ ReqTaken(r)' \in Nat /\ ReqSent(r)' \in Nat
           /\ ResPos(r)' \in [Frame -> Nat] /\ ResSent(r)' \in Nat
           /\ Given(r)' \in Nat /\ ResRead(r)' \in Nat
<1>1. reqLen'[r] \in Nat /\ sent'[r] \in Nat /\ resSent'[r] \in Nat
  BY DEF TypeOK
<1>2. Len(srvBody'[sid'[r]]) \in Nat /\ Len(got'[r]) \in Nat /\ Len(events'[r]) \in Nat
  BY LenProperties DEF TypeOK
<1>3. \A f \in Frame : f.n \in Nat
  BY DEF Frame
<1>4. ReqPos(r)' \in [Frame -> Nat]
  BY <1>1, <1>3 DEF ReqPos
<1>5. ResPos(r)' \in [Frame -> Nat]
  BY <1>1, <1>3 DEF ResPos, ResPlace
<1>6. ReqTaken(r)' \in Nat /\ ReqSent(r)' \in Nat
  BY <1>1, <1>2 DEF ReqTaken, ReqSent
<1>7. ResSent(r)' \in Nat /\ Given(r)' \in Nat
  BY SMTT(30), <1>1, <1>2 DEF ResSent, Given
<1> QED  BY <1>2, <1>4, <1>5, <1>6, <1>7 DEF ResRead

(* Positions, read off the frames.                                         *)
LEMMA ReqPosition ==
    ASSUME TypeOK, NEW r \in Requests
    PROVE  \A f \in Frame :
               /\ f.type = "ReqHeaders" => ReqPos(r)[f] = 1
               /\ f.type = "ReqBody" => ReqPos(r)[f] = IF f.n # 0 THEN f.n + 1 ELSE reqLen[r] + 3
               /\ f.type = "ReqEnd" => ReqPos(r)[f] = reqLen[r] + 2
               /\ ReqPos(r)[f] >= 1
<1> TAKE f \in Frame
<1>1. f.n \in Nat /\ reqLen[r] \in Nat
  BY DEF TypeOK, Frame
<1>2. CASE f.type = "ReqHeaders"
  <2>1. ReqPos(r)[f] = 1
    BY <1>2 DEF ReqPos
  <2> QED  BY <1>2, <2>1
<1>3. CASE f.type = "ReqBody" /\ f.n # 0
  <2>1. ReqPos(r)[f] = f.n + 1
    BY <1>3 DEF ReqPos
  <2> QED  BY <1>1, <1>3, <2>1
<1>4. CASE f.type = "ReqEnd"
  <2>1. ReqPos(r)[f] = reqLen[r] + 2
    BY <1>4 DEF ReqPos
  <2> QED  BY <1>1, <1>4, <2>1
<1>5. CASE f.type \notin {"ReqHeaders", "ReqEnd"} /\ ~(f.type = "ReqBody" /\ f.n # 0)
  <2>1. ReqPos(r)[f] = reqLen[r] + 3
    BY <1>5 DEF ReqPos
  <2> QED  BY <1>1, <1>5, <2>1
<1> QED  BY <1>2, <1>3, <1>4, <1>5

LEMMA ResPlaces ==
    ASSUME NEW status, NEW n \in Nat, NEW task
    PROVE  \A f \in Frame : LET p == ResPlace(status, n, task)[f] IN
               /\ f.type = "ResHeaders" => p = IF f.n = status THEN 1 ELSE n + 4
               /\ f.type = "ResBody" => p = IF f.n \in 1..n THEN f.n + 1 ELSE n + 4
               /\ f.type = "Error" => p = n + IF task \in {"broken", "aborted"} THEN 2 ELSE 4
               /\ f.type = "ResEnd" => p = n + IF task = "done" THEN 2 ELSE 3
               /\ p >= 1
<1> TAKE f \in Frame
<1> DEFINE p == ResPlace(status, n, task)[f]
<1>1. f.n \in Nat
  BY DEF Frame
<1>2. CASE f.type = "ResHeaders" /\ f.n = status
  <2>1. p = 1
    BY <1>2 DEF ResPlace
  <2> QED  BY <1>2, <2>1
<1>3. CASE f.type = "ResBody" /\ f.n \in 1..n
  <2>1. p = f.n + 1
    BY <1>3 DEF ResPlace
  <2> QED  BY <1>1, <1>3, <2>1
<1>4. CASE f.type = "Error" /\ task \in {"broken", "aborted"}
  <2>1. p = n + 2
    BY <1>4 DEF ResPlace
  <2> QED  BY <1>1, <1>4, <2>1
<1>5. CASE f.type = "ResEnd" /\ task = "done"
  <2>1. p = n + 2
    BY <1>5 DEF ResPlace
  <2> QED  BY <1>1, <1>5, <2>1
<1>6. CASE f.type = "ResEnd" /\ task # "done"
  <2>1. p = n + 3
    BY <1>6 DEF ResPlace
  <2> QED  BY <1>1, <1>6, <2>1
<1>7. CASE /\ f.type # "ResEnd" /\ ~(f.type = "ResHeaders" /\ f.n = status)
           /\ ~(f.type = "ResBody" /\ f.n \in 1..n)
           /\ ~(f.type = "Error" /\ task \in {"broken", "aborted"})
  <2>1. p = n + 4
    BY <1>7 DEF ResPlace
  <2> QED  BY <1>1, <1>7, <2>1
<1> QED  BY <1>2, <1>3, <1>4, <1>5, <1>6, <1>7

LEMMA ResPosition ==
    ASSUME TypeOK, NEW r \in Requests
    PROVE  \A f \in Frame :
               /\ f.type = "ResHeaders" =>
                     ResPos(r)[f] = IF f.n = hStatus[r] THEN 1 ELSE resSent[r] + 4
               /\ f.type = "ResBody" =>
                     ResPos(r)[f] = IF f.n \in 1..resSent[r] THEN f.n + 1 ELSE resSent[r] + 4
               /\ f.type = "Error" =>
                     ResPos(r)[f] = resSent[r] + IF h[r] \in {"broken", "aborted"} THEN 2 ELSE 4
               /\ f.type = "ResEnd" =>
                     ResPos(r)[f] = resSent[r] + IF h[r] = "done" THEN 2 ELSE 3
               /\ ResPos(r)[f] >= 1
<1>1. resSent[r] \in Nat
  BY DEF TypeOK
<1> QED  BY <1>1, ResPlaces DEF ResPos

(* What is known of a stream whose id is its request's own.                *)
LEMMA OwnPlaces ==
    ASSUME TypeOK, RoutedById, NEW r \in Requests, UniqueId(r)
    PROVE  /\ pending[sid[r]] \in {r, NoReq} /\ srvReq[sid[r]] \in {r, NoReq}
           /\ \A i \in Ids : i # sid[r] => pending[i] # r /\ srvReq[i] # r
           /\ \A f \in OwnFrame : f.type \notin KeepaliveTypes => (f.req = r <=> f.id = sid[r])
<1>1. sid[r] \in Ids /\ r # NoReq
  BY NoReqAssumption DEF TypeOK
<1>2. On(sid[r]) = {r} /\ \A i \in Ids : i # sid[r] => r \notin On(i)
  BY DEF On, UniqueId
<1>3. \A i \in Ids : pending[i] \in On(i) \cup {NoReq} /\ srvReq[i] \in On(i) \cup {NoReq}
  BY DEF RoutedById, IdRouted
<1>4. \A f \in OwnFrame : f.type \notin KeepaliveTypes => f.id \in Ids /\ f.req \in On(f.id)
  BY DEF OwnFrame, Frame
<1> QED  BY <1>1, <1>2, <1>3, <1>4

-----------------------------------------------------------------------------
(***************************************************************************)
(* The request's direction.  ReqStep covers every step that takes nothing  *)
(* of the request out of its queue.                                        *)
(***************************************************************************)
(* The queue loses its end with the link, or goes on by other streams, or  *)
(* by the next frame of this one.                                          *)
Cut(q, q2) == \E i \in 0..Len(q) : q2 = SubSeq(q, 1, i)

ReqTransit(r) ==
    \/ /\ Moves(toServe, toServe', ReqFrames(r))
       /\ link' \in {link, "down"}
       /\ link' = "up" /\ pc'[r] \in Early \cup {"sendBody"} =>
             pc[r] \in Early \cup {"sendBody"} /\ ReqSent(r)' = ReqSent(r)
    \/ link' = "down" /\ Cut(toServe, toServe')
    \/ /\ link = "up" /\ pc[r] \in Early \cup {"sendBody"} /\ reqLen'[r] = reqLen[r]
       /\ ReqSent(r)' = ReqSent(r) + 1
       /\ \E f \in ReqFrames(r) :
             toServe' = Append(toServe, f) /\ ReqPos(r)[f] = ReqSent(r) + 1

ServeSame(r) ==
    /\ sid'[r] = sid[r] /\ upBody'[r] = upBody[r]
    /\ h'[r] = "none" <=> h[r] = "none"
    /\ srvReq'[sid[r]] = srvReq[sid[r]] /\ srvBody'[sid[r]] = srvBody[sid[r]]

LEMMA ReqStep ==
    ASSUME TypeOK, TypeOK', NEW r \in Requests, ReqOrder(r),
           ServeSame(r), ReqTransit(r),
           reqLen'[r] = reqLen[r] \/ ReqSent(r) = 0,
           ReqSent(r) <= ReqSent(r)',
           pc'[r] \in {"sendBody", "sendEnd"} => sent'[r] <= reqLen'[r],
           pc'[r] = "sendEnd" => link' = "down"
    PROVE  ReqOrder(r)'
<1> DEFINE S == ReqFrames(r)
           p == ReqTaken(r)
           t == ReqSent(r)
           u == ReqSent(r)'
           P == ReqPos(r)
           Q == ReqPos(r)'
<1>1. /\ P \in [Frame -> Nat] /\ p \in Nat /\ t \in Nat
      /\ Q \in [Frame -> Nat] /\ u \in Nat
      /\ toServe \in Seq(Frame) /\ toServe' \in Seq(Frame) /\ S \subseteq Frame
  BY PositionTypes, PositionTypesNext DEF TypeOK, ReqFrames
<1>2. InLine(toServe, S, P, p, t) /\ p <= t
  BY DEF ReqOrder, InLine
<1>3. reqLen[r] \in Nat /\ (t = 0 => h[r] = "none")
  <2>1. reqLen[r] \in Nat
    BY DEF TypeOK
  <2>2. h[r] # "none" => p = reqLen[r] + 2
    BY DEF ReqTaken
  <2> QED  BY <1>1, <1>2, <2>1, <2>2
<1>4. ReqTaken(r)' = p
  <2>1. CASE reqLen'[r] = reqLen[r]
    BY <2>1 DEF ServeSame, ReqTaken
  <2>2. CASE t = 0
    BY <1>3, <2>2 DEF ServeSame, ReqTaken
  <2> QED  BY <2>1, <2>2
<1>5. \A f \in Frame : f \in S /\ P[f] <= t => Q[f] = P[f]
  <2>1. CASE reqLen'[r] = reqLen[r]
    BY <2>1 DEF ReqPos
  <2>2. CASE t = 0
    <3>1. \A f \in Frame : P[f] >= 1
      BY ReqPosition
    <3>2. \A f \in Frame : P[f] \in Nat
      BY <1>1
    <3> QED  BY <2>2, <3>1, <3>2
  <2> QED  BY <2>1, <2>2
<1> HIDE DEF S, p, t, u, P, Q
<1>6. InLine(toServe, S, Q, p, t) /\ (Full(toServe, S, P, p, t) => Full(toServe, S, Q, p, t))
  BY <1>1, <1>2, <1>5, SamePositions
<1>7. link = "up" /\ pc[r] \in Early \cup {"sendBody"} => Full(toServe, S, Q, p, t)
  BY <1>6 DEF ReqOrder, S, P, p, t
<1>8. /\ InLine(toServe', S, Q, p, u)
      /\ link' = "up" /\ pc'[r] \in Early \cup {"sendBody"} => Full(toServe', S, Q, p, u)
  <2>1. CASE /\ Moves(toServe, toServe', S)
             /\ link' \in {link, "down"}
             /\ link' = "up" /\ pc'[r] \in Early \cup {"sendBody"} =>
                   pc[r] \in Early \cup {"sendBody"} /\ u = t
    <3>1. /\ InLine(toServe', S, Q, p, t)
          /\ Full(toServe, S, Q, p, t) => Full(toServe', S, Q, p, t)
      BY Zenon, <1>1, <1>6, <2>1, MovesInLine
    <3>2. InLine(toServe', S, Q, p, u)
      <4>1. t <= u
        BY DEF t, u
      <4> QED  BY <1>1, <3>1, <4>1, MoreSent
    <3> QED  BY Zenon, <1>7, <2>1, <3>1, <3>2
  <2>2. CASE link' = "down" /\ Cut(toServe, toServe')
    <3>1. InLine(toServe', S, Q, p, t)
      BY <1>1, <1>6, <2>2, PrefixInLine DEF Cut
    <3>2. InLine(toServe', S, Q, p, u)
      <4>1. t <= u
        BY DEF t, u
      <4> QED  BY <1>1, <3>1, <4>1, MoreSent
    <3> QED  BY <2>2, <3>2
  <2>3. CASE /\ link = "up" /\ pc[r] \in Early \cup {"sendBody"} /\ reqLen'[r] = reqLen[r]
             /\ u = t + 1
             /\ \E f \in S : toServe' = Append(toServe, f) /\ P[f] = t + 1
    <3>1. PICK f \in S : toServe' = Append(toServe, f) /\ P[f] = t + 1
      BY <2>3
    <3>2. Q[f] = t + 1 /\ f \in Frame
      BY <1>1, <2>3, <3>1 DEF ReqPos, P, Q
    <3>3. InLine(toServe', S, Q, p, t + 1) /\ Full(toServe', S, Q, p, t + 1)
      BY <1>1, <1>6, <1>7, <2>3, <3>1, <3>2, AppendNext
    <3> QED  BY <2>3, <3>3
  <2> QED  BY <2>1, <2>2, <2>3 DEF ReqTransit, S, p, t, u, P, Q
<1>9. /\ InLine(toServe', ReqFrames(r), ReqPos(r)', ReqTaken(r)', ReqSent(r)')
      /\ link' = "up" /\ pc'[r] \in Early \cup {"sendBody"} =>
            Full(toServe', ReqFrames(r), ReqPos(r)', ReqTaken(r)', ReqSent(r)')
  BY <1>4, <1>8 DEF S, p, u, Q
<1>10. /\ srvReq'[sid'[r]] = r => srvBody'[sid'[r]] = Chunks(r, Len(srvBody'[sid'[r]]))
       /\ h'[r] # "none" => upBody'[r] = Chunks(r, reqLen'[r])
  <2>1. srvReq'[sid'[r]] = r => srvBody'[sid'[r]] = Chunks(r, Len(srvBody'[sid'[r]]))
    BY DEF ReqOrder, ServeSame
  <2>2. h'[r] # "none" => upBody'[r] = Chunks(r, reqLen'[r])
    BY <1>3 DEF ReqOrder, ServeSame, t
  <2> QED  BY <2>1, <2>2
<1> QED  BY <1>9, <1>10 DEF ReqOrder

-----------------------------------------------------------------------------
(***************************************************************************)
(* The response's direction.  ResStep covers every step that takes nothing *)
(* of the response out of its queue or its channel.                        *)
(***************************************************************************)
ResTransit(r) ==
    \/ /\ Moves(toProxy, toProxy', ResFrames(r))
       /\ link' \in {link, "down"}
       /\ link' = "up" /\ h'[r] \notin TaskOver =>
             h[r] \notin TaskOver /\ ResSent(r)' = ResSent(r)
    \/ link' = "down" /\ Cut(toProxy, toProxy')
    \/ /\ link = "up" /\ h[r] \notin TaskOver /\ ResSent(r)' = ResSent(r) + 1
       /\ \E f \in ResFrames(r) :
             toProxy' = Append(toProxy, f) /\ ResPos(r)'[f] = ResSent(r) + 1

(* What the serve task has sent stays sent.                                *)
TaskGoesOn(r) ==
    /\ ResSent(r) <= ResSent(r)' /\ resSent[r] <= resSent'[r]
    /\ \A f \in ResFrames(r) : ResPos(r)[f] <= ResSent(r) => ResPos(r)'[f] = ResPos(r)[f]
    /\ h[r] \notin Unanswered => h'[r] \notin Unanswered /\ hStatus'[r] = hStatus[r]
    /\ h[r] = "done" => h'[r] = "done" /\ resSent'[r] = resSent[r]
    /\ h[r] \in {"broken", "aborted"} => h'[r] \in {"broken", "aborted"}
    /\ h'[r] \in Unanswered => resSent'[r] = resSent[r]

(* Nothing was given to the handler or its client.                         *)
ProxyGoesOn(r) ==
    /\ sid'[r] = sid[r] /\ events'[r] = events[r] /\ got'[r] = got[r] /\ reply'[r] = reply[r]
    /\ pending'[sid[r]] = pending[sid[r]]
    /\ \/ pc'[r] = pc[r]
       \/ {pc[r], pc'[r]} \subseteq {"collect", "register"}
       \/ {pc[r], pc'[r]} \subseteq Forwarding
       \/ pc[r] \in Sending /\ pc'[r] \in Sending \cup {"failed", "timedOut"}

LEMMA ResStep ==
    ASSUME TypeOK, TypeOK', NEW r \in Requests, ResOrder(r),
           ResTransit(r), TaskGoesOn(r), ProxyGoesOn(r)
    PROVE  ResOrder(r)'
<1> DEFINE S == ResFrames(r)
           p == ResRead(r)
           t == ResSent(r)
           u == ResSent(r)'
           P == ResPos(r)
           Q == ResPos(r)'
<1>1. /\ P \in [Frame -> Nat] /\ p \in Nat /\ t \in Nat
      /\ Q \in [Frame -> Nat] /\ u \in Nat
      /\ toProxy \in Seq(Frame) /\ toProxy' \in Seq(Frame) /\ S \subseteq Frame
  BY PositionTypes, PositionTypesNext DEF TypeOK, ResFrames
<1>2. Given(r)' = Given(r) /\ ResRead(r)' = p /\ (Live(r)' <=> Live(r))
  <2>1. Given(r)' = Given(r)
    BY DEF ProxyGoesOn, Given, Forwarding, Sending
  <2>2. Live(r)' <=> Live(r)
    BY DEF ProxyGoesOn, Live, Finished, Sending, Forwarding
  <2> QED  BY <2>1, <2>2 DEF ProxyGoesOn, ResRead
<1>3. t <= u /\ \A f \in S : P[f] <= t => Q[f] = P[f]
  BY DEF TaskGoesOn
<1> HIDE DEF S, p, t, u, P, Q
<1>4. ASSUME Live(r)
      PROVE  /\ InLine(toProxy', S, Q, p, u)
             /\ link' = "up" /\ h'[r] \notin TaskOver => Full(toProxy', S, Q, p, u)
  <2>1. InLine(toProxy, S, P, p, t)
    BY <1>4 DEF ResOrder, S, P, p, t
  <2>2. link = "up" /\ h[r] \notin TaskOver => Full(toProxy, S, P, p, t)
    BY <1>4 DEF ResOrder, S, P, p, t
  <2>3. InLine(toProxy, S, Q, p, t) /\ (Full(toProxy, S, P, p, t) => Full(toProxy, S, Q, p, t))
    BY <1>1, <1>3, <2>1, SamePositions
  <2>4. CASE /\ Moves(toProxy, toProxy', S)
             /\ link' \in {link, "down"}
             /\ link' = "up" /\ h'[r] \notin TaskOver => h[r] \notin TaskOver /\ u = t
    <3>1. /\ InLine(toProxy', S, Q, p, t)
          /\ Full(toProxy, S, Q, p, t) => Full(toProxy', S, Q, p, t)
      BY Zenon, <1>1, <2>3, <2>4, MovesInLine
    <3>2. InLine(toProxy', S, Q, p, u)
      BY <1>1, <1>3, <3>1, MoreSent
    <3> QED  BY Zenon, <2>2, <2>3, <2>4, <3>1, <3>2
  <2>5. CASE link' = "down" /\ Cut(toProxy, toProxy')
    <3>1. InLine(toProxy', S, Q, p, t)
      BY <1>1, <2>3, <2>5, PrefixInLine DEF Cut
    <3>2. InLine(toProxy', S, Q, p, u)
      BY <1>1, <1>3, <3>1, MoreSent
    <3> QED  BY <2>5, <3>2
  <2>6. CASE /\ link = "up" /\ h[r] \notin TaskOver /\ u = t + 1
             /\ \E f \in S : toProxy' = Append(toProxy, f) /\ Q[f] = t + 1
    <3>1. PICK f \in S : toProxy' = Append(toProxy, f) /\ Q[f] = t + 1
      BY <2>6
    <3>2. f \in Frame
      BY <1>1
    <3>3. InLine(toProxy', S, Q, p, t + 1) /\ Full(toProxy', S, Q, p, t + 1)
      BY <1>1, <2>2, <2>3, <2>6, <3>1, <3>2, AppendNext
    <3> QED  BY <2>6, <3>3
  <2> QED  BY <2>4, <2>5, <2>6 DEF ResTransit, S, t, u, Q
<1>5. /\ Live(r)' => InLine(toProxy', ResFrames(r), ResPos(r)', ResRead(r)', ResSent(r)')
      /\ Live(r)' /\ link' = "up" /\ h'[r] \notin TaskOver =>
            Full(toProxy', ResFrames(r), ResPos(r)', ResRead(r)', ResSent(r)')
  BY <1>2, <1>4 DEF S, u, Q
<1>6. pc'[r] \notin Finished => ResRead(r)' <= ResSent(r)'
  <2>1. pc'[r] \notin Finished => pc[r] \notin Finished
    BY DEF ProxyGoesOn, Finished, Sending, Forwarding
  <2>2. pc[r] \notin Finished => p <= t
    BY DEF ResOrder, p, t
  <2> QED  BY <1>1, <1>2, <1>3, <2>1, <2>2 DEF u
<1>7. \A k \in 1..Len(events'[r]) :
          events'[r][k] \in ResFrames(r) /\ ResPos(r)'[events'[r][k]] = Given(r)' + k
  <2> SUFFICES ASSUME NEW k \in 1..Len(events[r])
               PROVE  events[r][k] \in S /\ Q[events[r][k]] = Given(r) + k
    BY <1>2 DEF ProxyGoesOn, S, Q
  <2>1. events[r][k] \in S /\ P[events[r][k]] = Given(r) + k
    BY DEF ResOrder, S, P
  <2>2. pc[r] \notin Finished
    <3>1. events[r] # <<>>
      OBVIOUS
    <3> QED  BY <3>1 DEF ResOrder
  <2>3. Given(r) + k <= t
    <3>1. p <= t /\ p = Given(r) + Len(events[r])
      BY <2>2 DEF ResOrder, p, t, ResRead
    <3>2. Given(r) \in Nat
      BY PositionTypes
    <3>3. Len(events[r]) \in Nat
      BY LenProperties DEF TypeOK
    <3> QED  BY <1>1, <3>1, <3>2, <3>3
  <2> QED  BY <1>3, <2>1, <2>3
<1>8. /\ pc'[r] \in Finished \cup {"idle", "collect", "register"} => events'[r] = <<>>
      /\ pc'[r] \in Sending \cup Forwarding /\ pending'[sid'[r]] # r =>
            events'[r] # <<>> /\ events'[r][Len(events'[r])].type \in {"ResEnd", "Error"}
  BY DEF ResOrder, ProxyGoesOn, Sending, Forwarding, Finished
<1>9. /\ got'[r] = Chunks(r, Len(got'[r])) /\ Len(got'[r]) <= resSent'[r]
      /\ pc'[r] \notin Forwarding \cup {"closed", "dropped"} => got'[r] = <<>>
  <2>1. Len(got[r]) \in Nat /\ resSent[r] \in Nat /\ resSent'[r] \in Nat
    BY LenProperties DEF TypeOK
  <2>2. Len(got[r]) <= resSent[r] /\ resSent[r] <= resSent'[r]
    BY DEF ResOrder, TaskGoesOn
  <2>3. Len(got[r]) <= resSent'[r]
    BY <2>1, <2>2
  <2> QED  BY <2>3 DEF ResOrder, ProxyGoesOn, Forwarding, Sending
<1>10. pc'[r] \in Forwarding \cup {"closed", "dropped"} =>
            reply'[r] = <<r, hStatus'[r]>> /\ h'[r] \notin Unanswered
  BY DEF ResOrder, ProxyGoesOn, TaskGoesOn, Unanswered, Forwarding, Sending
<1>11. pc'[r] = "closed" =>
           \/ h'[r] = "done" /\ Len(got'[r]) = resSent'[r]
           \/ h'[r] \in {"broken", "aborted"}
  BY DEF ResOrder, ProxyGoesOn, TaskGoesOn, Sending, Forwarding
<1>12. h'[r] \in Unanswered => resSent'[r] = 0
  BY DEF ResOrder, TaskGoesOn
<1> QED  BY Zenon, <1>5, <1>6, <1>7, <1>8, <1>9, <1>10, <1>11, <1>12 DEF ResOrder

-----------------------------------------------------------------------------
(***************************************************************************)
(* Steps that are not about request r.                                     *)
(***************************************************************************)
Other(r) ==
    /\ pc'[r] = pc[r] /\ sid'[r] = sid[r] /\ reqLen'[r] = reqLen[r] /\ sent'[r] = sent[r]
    /\ reply'[r] = reply[r] /\ got'[r] = got[r] /\ events'[r] = events[r]
    /\ h'[r] = h[r] /\ hStatus'[r] = hStatus[r] /\ resSent'[r] = resSent[r]
    /\ upBody'[r] = upBody[r] /\ pending'[sid[r]] = pending[sid[r]]
    /\ srvReq'[sid[r]] = srvReq[sid[r]] /\ srvBody'[sid[r]] = srvBody[sid[r]]
    /\ \/ /\ link' = link
          /\ Moves(toServe, toServe', ReqFrames(r)) /\ Moves(toProxy, toProxy', ResFrames(r))
       \/ link' = "down" /\ Cut(toServe, toServe') /\ Cut(toProxy, toProxy')

LEMMA OtherKeeps ==
    ASSUME TypeOK, TypeOK', NEW r \in Requests, Other(r)
    PROVE  (ReqOrder(r) => ReqOrder(r)') /\ (ResOrder(r) => ResOrder(r)')
<1>1. /\ ReqSent(r) \in Nat /\ ReqSent(r)' = ReqSent(r)
      /\ ResSent(r) \in Nat /\ ResSent(r)' = ResSent(r)
  <2>1. ReqSent(r)' = ReqSent(r)
    BY DEF Other, ReqSent
  <2>2. ResSent(r)' = ResSent(r)
    BY DEF Other, ResSent
  <2> QED  BY <2>1, <2>2, PositionTypes
<1>2. resSent[r] \in Nat /\ ResPos(r)' = ResPos(r)
  BY DEF Other, ResPos, TypeOK
<1>3. ASSUME ReqOrder(r) PROVE ReqOrder(r)'
  <2>1. ServeSame(r)
    BY DEF Other, ServeSame
  <2>2. ReqTransit(r)
    BY <1>1 DEF Other, ReqTransit
  <2>3. /\ pc'[r] \in {"sendBody", "sendEnd"} => sent'[r] <= reqLen'[r]
        /\ pc'[r] = "sendEnd" => link' = "down"
    BY <1>3 DEF Other, ReqOrder
  <2>4. reqLen'[r] = reqLen[r] /\ ReqSent(r) <= ReqSent(r)'
    BY <1>1 DEF Other
  <2> QED  BY <1>3, <2>1, <2>2, <2>3, <2>4, ReqStep
<1>4. ASSUME ResOrder(r) PROVE ResOrder(r)'
  <2>1. ResTransit(r)
    BY <1>1 DEF Other, ResTransit
  <2>2. TaskGoesOn(r)
    BY <1>1, <1>2 DEF Other, TaskGoesOn
  <2>3. ProxyGoesOn(r)
    BY DEF Other, ProxyGoesOn
  <2> QED  BY <1>4, <2>1, <2>2, <2>3, ResStep
<1> QED  BY <1>3, <1>4

LEMMA KeepaliveMoves ==
    ASSUME TypeOK, NEW r \in Requests
    PROVE  /\ \A f \in {Ping, Pong} : /\ Moves(toServe, Put(toServe, f), ReqFrames(r))
                                     /\ Moves(toProxy, Put(toProxy, f), ResFrames(r))
           /\ Moves(toServe, toServe, ReqFrames(r)) /\ Moves(toProxy, toProxy, ResFrames(r))
BY KeepaliveType
   DEF Moves, Put, Ping, Pong, ReqFrames, ResFrames, ReqTypes, ResTypes, KeepaliveTypes

LEMMA OtherMoves ==
    ASSUME TypeOK, NEW r \in Requests, NEW q \in Requests, q # r, NEW n \in Nat,
           NEW t \in ReqTypes \cup ResTypes
    PROVE  /\ Moves(toServe, Put(toServe, FrameOf(t, q, n)), ReqFrames(r))
           /\ Moves(toProxy, Put(toProxy, FrameOf(t, q, n)), ResFrames(r))
<1>1. FrameOf(t, q, n) \in Frame
  BY FrameOfType
<1>2. FrameOf(t, q, n).req = q
  BY DEF FrameOf
<1> QED  BY <1>1, <1>2 DEF Moves, Put, ReqFrames, ResFrames

LEMMA OtherRequest ==
    ASSUME TypeOK, NEW r \in Requests, UniqueId(r), NEW q \in Requests, q # r,
           Client(q) \/ Handler(q) \/ Forwarder(q) \/ Upstream(q) \/ Task(q)
    PROVE  Other(r)
<1> USE DEF handlerVars, clientVars, serveVars, taskVars
<1>1. pc[q] # "idle" => sid[q] # sid[r]
  BY DEF UniqueId
<1>2. Moves(toServe, toServe, ReqFrames(r)) /\ Moves(toProxy, toProxy, ResFrames(r))
  BY KeepaliveMoves
<1>3. ASSUME Accept(q) PROVE Other(r)
  BY <1>3, <1>2 DEF Accept, Other, TypeOK
<1>4. ASSUME Collect(q) PROVE Other(r)
  BY <1>4, <1>2 DEF Collect, Other, TypeOK
<1>5. ASSUME CollectFails(q) PROVE Other(r)
  BY <1>5, <1>2 DEF CollectFails, Other, TypeOK
<1>6. ASSUME HangUp(q) PROVE Other(r)
  BY <1>6, <1>2 DEF HangUp, Other, TypeOK
<1>7. ASSUME Register(q) PROVE Other(r)
  BY <1>7, <1>1, <1>2 DEF Register, Other, TypeOK
<1>8. ASSUME SendHeaders(q) PROVE Other(r)
  <2>1. 0 \in Nat /\ "ReqHeaders" \in ReqTypes \cup ResTypes
    BY DEF TypeOK, ReqTypes, ResTypes
  <2>2. Moves(toServe, toServe', ReqFrames(r))
    BY <1>8, <2>1, OtherMoves DEF SendHeaders
  <2> QED  BY <1>8, <1>2, <2>2 DEF SendHeaders, Other, TypeOK
<1>9. ASSUME SendHeadersFails(q) PROVE Other(r)
  BY <1>9, <1>2 DEF SendHeadersFails, Other, TypeOK
<1>10. ASSUME SendBody(q) PROVE Other(r)
  <2>1. sent[q] + 1 \in Nat /\ "ReqBody" \in ReqTypes \cup ResTypes
    BY DEF TypeOK, ReqTypes, ResTypes
  <2>2. Moves(toServe, toServe', ReqFrames(r))
    BY <1>10, <2>1, OtherMoves DEF SendBody
  <2> QED  BY <1>10, <1>2, <2>2 DEF SendBody, Other, TypeOK
<1>11. ASSUME SendBodyFails(q) PROVE Other(r)
  BY <1>11, <1>2 DEF SendBodyFails, Other, TypeOK
<1>12. ASSUME SendEnd(q) PROVE Other(r)
  <2>1. 0 \in Nat /\ "ReqEnd" \in ReqTypes \cup ResTypes
    BY DEF TypeOK, ReqTypes, ResTypes
  <2>2. Moves(toServe, toServe', ReqFrames(r))
    BY <1>12, <2>1, OtherMoves DEF SendEnd
  <2> QED  BY <1>12, <1>2, <2>2 DEF SendEnd, Other, TypeOK
<1>13. ASSUME AwaitHeaders(q) PROVE Other(r)
  BY <1>13, <1>2 DEF AwaitHeaders, Other, TypeOK
<1>14. ASSUME AwaitSkipsBody(q) PROVE Other(r)
  BY <1>14, <1>2 DEF AwaitSkipsBody, Other, TypeOK
<1>15. ASSUME AwaitFails(q) PROVE Other(r)
  BY <1>15, <1>2 DEF AwaitFails, Other, TypeOK
<1>16. ASSUME AwaitTimesOut(q) PROVE Other(r)
  BY <1>16, <1>2 DEF AwaitTimesOut, Other, TypeOK
<1>17. ASSUME Cleanup(q) PROVE Other(r)
  <2>1. sid[q] # sid[r]
    BY <1>1, <1>17 DEF Cleanup
  <2>2. pending'[sid[r]] = pending[sid[r]]
    BY <1>17, <2>1 DEF Cleanup, TypeOK
  <2>3. pc'[r] = pc[r] /\ reply'[r] = reply[r] /\ events'[r] = events[r]
    BY <1>17 DEF Cleanup, TypeOK
  <2> QED  BY <1>17, <1>2, <2>2, <2>3 DEF Cleanup, Other
<1>18. ASSUME ForwardBody(q) PROVE Other(r)
  BY <1>18, <1>2 DEF ForwardBody, Other, TypeOK
<1>19. ASSUME ForwardToNobody(q) PROVE Other(r)
  BY <1>19, <1>2 DEF ForwardToNobody, Other, TypeOK
<1>20. ASSUME ForwardSkipsHeaders(q) PROVE Other(r)
  BY <1>20, <1>2 DEF ForwardSkipsHeaders, Other, TypeOK
<1>21. ASSUME ForwardEnds(q) PROVE Other(r)
  BY <1>21, <1>2 DEF ForwardEnds, Other, TypeOK
<1>22. ASSUME UpstreamAnswers(q) PROVE Other(r)
  BY <1>22, <1>2 DEF UpstreamAnswers, Other, TypeOK
<1>23. ASSUME UpstreamFails(q) PROVE Other(r)
  BY <1>23, <1>2 DEF UpstreamFails, Other, TypeOK
<1>24. ASSUME TaskSendsHeaders(q) PROVE Other(r)
  <2>1. hStatus[q] \in Nat /\ "ResHeaders" \in ReqTypes \cup ResTypes
    <3>1. hStatus[q] \in {0, 200, 502}
      BY DEF TypeOK
    <3> QED  BY <3>1 DEF ResTypes
  <2>2. Moves(toProxy, toProxy', ResFrames(r))
    BY <1>24, <2>1, OtherMoves DEF TaskSendsHeaders
  <2> QED  BY <1>24, <1>2, <2>2 DEF TaskSendsHeaders, Other, TypeOK
<1>25. ASSUME TaskSendsBody(q) PROVE Other(r)
  <2>1. resSent[q] + 1 \in Nat /\ "ResBody" \in ReqTypes \cup ResTypes
    BY SMTT(30) DEF TypeOK, ReqTypes, ResTypes
  <2>2. Moves(toProxy, toProxy', ResFrames(r))
    BY <1>25, <2>1, OtherMoves DEF TaskSendsBody
  <2> QED  BY <1>25, <1>2, <2>2 DEF TaskSendsBody, Other, TypeOK
<1>26. ASSUME TaskSendsError(q) PROVE Other(r)
  <2>1. 0 \in Nat /\ "Error" \in ReqTypes \cup ResTypes
    BY DEF TypeOK, ReqTypes, ResTypes
  <2>2. Moves(toProxy, toProxy', ResFrames(r))
    BY <1>26, <2>1, OtherMoves DEF TaskSendsError
  <2> QED  BY <1>26, <1>2, <2>2 DEF TaskSendsError, Other, TypeOK
<1>27. ASSUME TaskSendsEnd(q) PROVE Other(r)
  <2>1. 0 \in Nat /\ "ResEnd" \in ReqTypes \cup ResTypes
    BY DEF TypeOK, ReqTypes, ResTypes
  <2>2. Moves(toProxy, toProxy', ResFrames(r))
    BY <1>27, <2>1, OtherMoves DEF TaskSendsEnd
  <2> QED  BY <1>27, <1>2, <2>2 DEF TaskSendsEnd, Other, TypeOK
<1>28. ASSUME TaskSendFails(q) PROVE Other(r)
  BY <1>28, <1>2 DEF TaskSendFails, Other, TypeOK
<1> QED
  BY <1>3, <1>4, <1>5, <1>6, <1>7, <1>8, <1>9, <1>10, <1>11, <1>12, <1>13, <1>14,
     <1>15, <1>16, <1>17, <1>18, <1>19, <1>20, <1>21, <1>22, <1>23, <1>24, <1>25,
     <1>26, <1>27, <1>28
     DEF Client, Handler, Forwarder, Upstream, Task

LEMMA OtherSteps ==
    ASSUME TypeOK, RoutedById, NEW r \in Requests, UniqueId(r),
           \/ Reader /\ Head(toProxy) \notin ResFrames(r)
           \/ Serve /\ Head(toServe) \notin ReqFrames(r)
           \/ ServeExit \/ SendPing \/ LinkFails \/ UNCHANGED vars
    PROVE  Other(r)
<1> USE DEF handlerVars, clientVars, serveVars, taskVars
<1>1. Moves(toServe, toServe, ReqFrames(r)) /\ Moves(toProxy, toProxy, ResFrames(r))
  BY KeepaliveMoves
<1>2. \A f \in {Ping, Pong} : /\ Moves(toServe, Put(toServe, f), ReqFrames(r))
                             /\ Moves(toProxy, Put(toProxy, f), ResFrames(r))
  BY KeepaliveMoves
<1>3. /\ toProxy # <<>> => Head(toProxy) \in OwnFrame /\ Head(toProxy) \in Frame
      /\ toServe # <<>> => Head(toServe) \in OwnFrame /\ Head(toServe) \in Frame
  BY SequenceTypes DEF RoutedById, TypeOK
<1>4. /\ \A i \in Ids : i # sid[r] => pending[i] # r /\ srvReq[i] # r
      /\ \A f \in OwnFrame : f.type \notin KeepaliveTypes => (f.req = r <=> f.id = sid[r])
  BY OwnPlaces
<1>5. \A f \in Frame : f.id \in Ids
  BY DEF Frame
<1>6. ASSUME Reader, Head(toProxy) \notin ResFrames(r) PROVE Other(r)
  <2> DEFINE f == Head(toProxy)
  <2>1. toProxy # <<>> /\ toProxy' = Tail(toProxy) /\ f \in OwnFrame /\ f \in Frame
    BY <1>3, <1>6 DEF Reader, ReaderRoutes, ReaderEnds, ReaderPongs, ReaderIgnores
  <2>2. Moves(toProxy, toProxy', ResFrames(r))
    BY <1>6, <2>1 DEF Moves
  <2>3. ASSUME f.type \in ResTypes
        PROVE  f.id # sid[r] /\ Delivered(f)[r] = events[r]
    <3>1. f.req # r
      BY <1>6, <2>1, <2>3 DEF ResFrames
    <3>2. f.type \notin KeepaliveTypes
      BY <2>3 DEF ResTypes, KeepaliveTypes
    <3>3. f.id # sid[r] /\ f.id \in Ids
      BY <1>4, <1>5, <2>1, <3>1, <3>2
    <3>4. Target(f) # r
      BY <1>4, <3>3 DEF Target
    <3> QED  BY <3>3, <3>4 DEF Delivered, TypeOK
  <2> HIDE DEF f
  <2>4. ASSUME ReaderRoutes PROVE Other(r)
    BY <1>1, <2>2, <2>3, <2>4 DEF ReaderRoutes, Other, ResTypes, f
  <2>5. ASSUME ReaderEnds PROVE Other(r)
    <3>1. events'[r] = events[r] /\ f.id # sid[r]
      BY <2>3, <2>5 DEF ReaderEnds, ResTypes, f
    <3>2. pending'[sid[r]] = pending[sid[r]]
      BY <2>5, <3>1 DEF ReaderEnds, TypeOK, f
    <3> QED  BY <1>1, <2>2, <2>5, <3>1, <3>2 DEF ReaderEnds, Other
  <2>6. ASSUME ReaderPongs PROVE Other(r)
    BY <1>2, <2>2, <2>6 DEF ReaderPongs, Other
  <2>7. ASSUME ReaderIgnores PROVE Other(r)
    BY <1>1, <2>2, <2>7 DEF ReaderIgnores, Other
  <2> QED  BY <1>6, <2>4, <2>5, <2>6, <2>7 DEF Reader
<1>7. ASSUME Serve, Head(toServe) \notin ReqFrames(r) PROVE Other(r)
  <2> DEFINE f == Head(toServe)
  <2>1. toServe # <<>> /\ toServe' = Tail(toServe) /\ f \in OwnFrame /\ f \in Frame
    BY <1>3, <1>7
       DEF Serve, ServeNext, ServeHeaders, ServeBody, ServeEnd, ServePongs, ServeIgnores
  <2>2. Moves(toServe, toServe', ReqFrames(r))
    BY <1>7, <2>1 DEF Moves
  <2>3. ASSUME f.type \in ReqTypes
        PROVE  f.id # sid[r] /\ f.id \in Ids /\ srvReq[f.id] # r
    <3>1. f.req # r
      BY <1>7, <2>1, <2>3 DEF ReqFrames
    <3>2. f.type \notin KeepaliveTypes
      BY <2>3 DEF ReqTypes, KeepaliveTypes
    <3> QED  BY <1>4, <1>5, <2>1, <3>1, <3>2
  <2> HIDE DEF f
  <2>4. ASSUME ServeHeaders PROVE Other(r)
    <3>1. f.id # sid[r]
      BY <2>3, <2>4 DEF ServeHeaders, ServeNext, ReqTypes, f
    <3>2. srvReq'[sid[r]] = srvReq[sid[r]] /\ srvBody'[sid[r]] = srvBody[sid[r]]
      BY <2>4, <3>1 DEF ServeHeaders, TypeOK, f
    <3> QED  BY <1>1, <2>2, <2>4, <3>2 DEF ServeHeaders, Other
  <2>5. ASSUME ServeBody PROVE Other(r)
    <3>1. f.id # sid[r]
      BY <2>3, <2>5 DEF ServeBody, ServeNext, ReqTypes, f
    <3>2. srvBody'[sid[r]] = srvBody[sid[r]]
      BY <2>5, <3>1 DEF ServeBody, TypeOK, f
    <3> QED  BY <1>1, <2>2, <2>5, <3>2 DEF ServeBody, Other
  <2>6. ASSUME ServeEnd PROVE Other(r)
    <3>1. f.id # sid[r] /\ f.id \in Ids /\ srvReq[f.id] # r
      BY <2>3, <2>6 DEF ServeEnd, ServeNext, ReqTypes, f
    <3>2. \/ UNCHANGED <<srvReq, srvBody, h, upBody>>
          \/ /\ srvReq' = [srvReq EXCEPT ![f.id] = NoReq]
             /\ srvBody' = [srvBody EXCEPT ![f.id] = <<>>]
             /\ h' = [h EXCEPT ![srvReq[f.id]] = "upstream"]
             /\ upBody' = [upBody EXCEPT ![srvReq[f.id]] = srvBody[f.id]]
      BY <2>6 DEF ServeEnd, f
    <3>3. /\ srvReq'[sid[r]] = srvReq[sid[r]] /\ srvBody'[sid[r]] = srvBody[sid[r]]
          /\ h'[r] = h[r] /\ upBody'[r] = upBody[r]
      <4>1. CASE UNCHANGED <<srvReq, srvBody, h, upBody>>
        BY <4>1
      <4>2. CASE /\ srvReq' = [srvReq EXCEPT ![f.id] = NoReq]
                 /\ srvBody' = [srvBody EXCEPT ![f.id] = <<>>]
                 /\ h' = [h EXCEPT ![srvReq[f.id]] = "upstream"]
                 /\ upBody' = [upBody EXCEPT ![srvReq[f.id]] = srvBody[f.id]]
        <5>1. h'[r] = h[r] /\ upBody'[r] = upBody[r]
          BY <3>1, <4>2 DEF TypeOK
        <5>2. srvReq'[sid[r]] = srvReq[sid[r]] /\ srvBody'[sid[r]] = srvBody[sid[r]]
          BY <3>1, <4>2 DEF TypeOK
        <5> QED  BY <5>1, <5>2
      <4> QED  BY <3>2, <4>1, <4>2
    <3> QED  BY <1>1, <2>2, <2>6, <3>3 DEF ServeEnd, Other
  <2>7. ASSUME ServePongs PROVE Other(r)
    BY <1>2, <2>2, <2>7 DEF ServePongs, Other
  <2>8. ASSUME ServeIgnores PROVE Other(r)
    BY <1>1, <2>2, <2>8 DEF ServeIgnores, Other
  <2> QED  BY <1>7, <2>4, <2>5, <2>6, <2>7, <2>8 DEF Serve
<1>8. ASSUME ServeExit PROVE Other(r)
  BY <1>1, <1>8 DEF ServeExit, Other
<1>9. ASSUME SendPing PROVE Other(r)
  <2>1. \/ toServe' = Put(toServe, Ping) /\ toProxy' = toProxy
        \/ toProxy' = Put(toProxy, Ping) /\ toServe' = toServe
    BY <1>9 DEF SendPing, Put
  <2>2. Moves(toServe, toServe', ReqFrames(r)) /\ Moves(toProxy, toProxy', ResFrames(r))
    BY <1>1, <1>2, <2>1
  <2> QED  BY <1>9, <2>2 DEF SendPing, Other
<1>10. ASSUME LinkFails PROVE Other(r)
  BY <1>10 DEF LinkFails, Other, Cut
<1>11. ASSUME UNCHANGED vars PROVE Other(r)
  BY <1>1, <1>11 DEF vars, Other
<1> QED  BY <1>6, <1>7, <1>8, <1>9, <1>10, <1>11

LEMMA NextChunk ==
    ASSUME NEW r, NEW b, NEW n \in Nat, b = Chunks(r, n)
    PROVE  /\ Len(Append(b, <<r, n + 1>>)) = n + 1
           /\ Append(b, <<r, n + 1>>) = Chunks(r, n + 1)
<1> DEFINE c == Append(b, <<r, n + 1>>)
<1>1. b \in Seq({r} \X Nat) /\ Len(b) = n /\ \A k \in 1..n : b[k] = <<r, k>>
  BY DEF Chunks
<1>2. /\ Len(c) = n + 1 /\ c \in Seq({r} \X Nat)
      /\ \A k \in 1..n : c[k] = b[k]
      /\ c[n + 1] = <<r, n + 1>>
  BY <1>1, AppendProperties
<1> HIDE DEF c
<1>3. \A k \in 1..(n + 1) : c[k] = <<r, k>>
  BY <1>1, <1>2
<1>4. c = Chunks(r, n + 1)
  BY <1>2, <1>3 DEF Chunks
<1> QED  BY <1>2, <1>4 DEF c

-----------------------------------------------------------------------------
(***************************************************************************)
(* Steps of request r that leave one of its directions alone.              *)
(***************************************************************************)
LEMMA ReqBound ==
    ASSUME TypeOK, NEW r \in Requests, ReqOrder(r)
    PROVE  ReqSent(r) <= reqLen[r] + 2 /\ ReqTaken(r) <= ReqSent(r)
<1>1. reqLen[r] \in Nat /\ sent[r] \in Nat
  BY DEF TypeOK
<1>2. pc[r] \in {"sendBody", "sendEnd"} => sent[r] <= reqLen[r]
  BY DEF ReqOrder
<1>3. ReqTaken(r) <= ReqSent(r)
  BY DEF ReqOrder, InLine
<1> QED  BY <1>1, <1>2, <1>3 DEF ReqSent

LEMMA ReqIdle ==
    ASSUME TypeOK, TypeOK', NEW r \in Requests, ReqOrder(r),
           sid' = sid, link' = link, reqLen' = reqLen, sent' = sent,
           ServeSame(r), Moves(toServe, toServe', ReqFrames(r)),
           \/ pc'[r] = pc[r]
           \/ {pc[r], pc'[r]} \subseteq Early
           \/ pc'[r] \notin Early \cup {"sendBody", "sendEnd"}
    PROVE  ReqOrder(r)'
<1>1. ReqSent(r) \in Nat
  BY PositionTypes
<1>2. pc'[r] \in Early \cup {"sendBody", "sendEnd"} =>
          /\ ReqSent(r)' = ReqSent(r)
          /\ pc[r] = pc'[r] \/ {pc[r], pc'[r]} \subseteq Early
  <2>1. CASE pc'[r] = pc[r]
    BY <2>1 DEF ReqSent
  <2>2. CASE {pc[r], pc'[r]} \subseteq Early
    BY <2>2 DEF ReqSent, Early
  <2> QED  BY <2>1, <2>2
<1>3. ReqSent(r) <= ReqSent(r)'
  <2>1. CASE pc'[r] \in Early \cup {"sendBody", "sendEnd"}
    BY <1>1, <1>2, <2>1
  <2>2. CASE pc'[r] \notin Early \cup {"sendBody", "sendEnd"}
    <3>1. ReqSent(r)' = reqLen[r] + 2
      BY <2>2 DEF ReqSent
    <3> QED  BY <3>1, ReqBound
  <2> QED  BY <2>1, <2>2
<1>4. ReqTransit(r)
  BY <1>2 DEF ReqTransit, Early
<1>5. /\ pc'[r] \in {"sendBody", "sendEnd"} => sent'[r] <= reqLen'[r]
      /\ pc'[r] = "sendEnd" => link' = "down"
  BY <1>2 DEF ReqOrder, Early
<1> QED  BY <1>3, <1>4, <1>5, ReqStep

LEMMA ResIdle ==
    ASSUME TypeOK, TypeOK', NEW r \in Requests, ResOrder(r),
           link' = link, h'[r] = h[r], hStatus' = hStatus, resSent' = resSent, toProxy' = toProxy,
           ProxyGoesOn(r)
    PROVE  ResOrder(r)'
<1>1. ResSent(r) \in Nat /\ ResSent(r)' = ResSent(r) /\ resSent[r] \in Nat
  BY PositionTypes DEF ResSent, TypeOK
<1>2. ResPos(r)' = ResPos(r)
  BY DEF ResPos
<1>3. TaskGoesOn(r)
  BY <1>1, <1>2 DEF TaskGoesOn
<1>4. ResTransit(r)
  BY <1>1 DEF ResTransit, Moves
<1> QED  BY <1>3, <1>4, ResStep

(* A handler or forwarder that is over reads no more.                      *)
LEMMA ResOver ==
    ASSUME TypeOK, TypeOK', NEW r \in Requests, ResOrder(r),
           sid' = sid, h' = h, hStatus' = hStatus, resSent' = resSent, got' = got,
           events'[r] = <<>>, pc'[r] \in Finished,
           pc'[r] \in {"closed", "dropped"} => pc[r] \in Forwarding /\ reply' = reply,
           pc'[r] \notin {"closed", "dropped"} => pc[r] \notin Forwarding \cup {"closed", "dropped"},
           pc'[r] = "closed" =>
               \/ h[r] = "done" /\ Len(got[r]) = resSent[r]
               \/ h[r] \in {"broken", "aborted"}
    PROVE  ResOrder(r)'
<1>1. ~ Live(r)'
  BY DEF Live, Finished
<1>2. Len(<<>>) = 0 /\ 1..0 = {}
  OBVIOUS
<1>3. pc'[r] \notin Sending \cup Forwarding
  BY DEF Finished, Sending, Forwarding
<1>4. /\ got'[r] = Chunks(r, Len(got'[r])) /\ Len(got'[r]) <= resSent'[r]
      /\ pc'[r] \notin Forwarding \cup {"closed", "dropped"} => got'[r] = <<>>
  BY DEF ResOrder
<1>5. pc'[r] \in Forwarding \cup {"closed", "dropped"} =>
           reply'[r] = <<r, hStatus'[r]>> /\ h'[r] \notin Unanswered
  BY <1>3 DEF ResOrder
<1> QED  BY <1>1, <1>2, <1>3, <1>4, <1>5 DEF ResOrder

-----------------------------------------------------------------------------
(***************************************************************************)
(* The request's direction, in the steps of request r.                     *)
(***************************************************************************)
LEMMA ReqOwn ==
    ASSUME TypeOK, TypeOK', NEW r \in Requests, ReqOrder(r),
           pc[r] \in Early => sent[r] = 0, pc[r] # "idle",
           Client(r) \/ Handler(r) \/ Forwarder(r) \/ Upstream(r) \/ Task(r)
    PROVE  ReqOrder(r)'
<1> USE DEF handlerVars, clientVars, serveVars, taskVars
<1>1. Moves(toServe, toServe, ReqFrames(r))
  BY DEF Moves
<1>2. reqLen[r] \in Nat /\ sent[r] \in Nat
  BY DEF TypeOK
<1>3. ~ Accept(r)
  BY DEF Accept
<1>4. ASSUME Collect(r) PROVE ReqOrder(r)'
  <2>1. pc[r] = "collect" /\ pc'[r] = "register"
    BY <1>4 DEF Collect, TypeOK
  <2>2. ReqSent(r) = 0 /\ ReqSent(r)' = 0
    BY <2>1 DEF ReqSent, Early
  <2>3. ServeSame(r) /\ ReqTransit(r)
    BY <1>1, <1>4, <2>1, <2>2 DEF Collect, ServeSame, ReqTransit, Early
  <2> QED  BY <2>1, <2>2, <2>3, ReqStep
<1>5. ASSUME SendHeaders(r) PROVE ReqOrder(r)'
  <2> DEFINE f == FrameOf("ReqHeaders", r, 0)
  <2>1. pc[r] = "sendHeaders" /\ pc'[r] = "sendBody" /\ reqLen' = reqLen /\ sent' = sent
    BY <1>5 DEF SendHeaders, TypeOK
  <2>2. ReqSent(r) = 0 /\ ReqSent(r)' = 1
    BY <2>1 DEF ReqSent, Early
  <2>3. f \in Frame /\ f.type = "ReqHeaders" /\ f.req = r
    BY FrameOfType DEF FrameOf, ReqTypes
  <2>4. f \in ReqFrames(r) /\ ReqPos(r)[f] = 1
    BY <2>3, ReqPosition DEF ReqFrames, ReqTypes
  <2> HIDE DEF f
  <2>5. toServe' = Put(toServe, f) /\ link' = link
    BY <1>5 DEF SendHeaders, f
  <2>6. ReqTransit(r)
    <3>1. CASE link = "up"
      BY <2>1, <2>2, <2>4, <2>5, <3>1 DEF Put, ReqTransit, Early
    <3>2. CASE link # "up"
      BY <1>1, <2>5, <3>2 DEF Put, ReqTransit, TypeOK
    <3> QED  BY <3>1, <3>2
  <2>7. ServeSame(r) /\ sent'[r] <= reqLen'[r]
    BY <1>2, <1>5, <2>1 DEF SendHeaders, ServeSame, Early
  <2> QED  BY <2>1, <2>2, <2>6, <2>7, ReqStep
<1>6. ASSUME SendBody(r) PROVE ReqOrder(r)'
  <2> DEFINE f == FrameOf("ReqBody", r, sent[r] + 1)
  <2>1. pc[r] = "sendBody" /\ pc' = pc /\ reqLen' = reqLen /\ sent[r] < reqLen[r]
        /\ sent'[r] = sent[r] + 1
    BY <1>6 DEF SendBody, TypeOK
  <2>2. ReqSent(r) = sent[r] + 1 /\ ReqSent(r)' = sent[r] + 2
    BY <1>2, <2>1 DEF ReqSent, Early
  <2>3. f \in Frame /\ f.type = "ReqBody" /\ f.req = r /\ f.n = sent[r] + 1
    <3>1. sent[r] + 1 \in Nat
      BY <1>2
    <3> QED  BY <3>1, FrameOfType DEF FrameOf, ReqTypes
  <2>4. f \in ReqFrames(r) /\ ReqPos(r)[f] = sent[r] + 2
    <3>1. ReqPos(r)[f] = f.n + 1
      BY <1>2, <2>3, ReqPosition
    <3> QED  BY <1>2, <2>3, <3>1 DEF ReqFrames, ReqTypes
  <2> HIDE DEF f
  <2>5. toServe' = Put(toServe, f) /\ link' = link
    BY <1>6 DEF SendBody, f
  <2>6. ReqTransit(r)
    <3>1. CASE link = "up"
      BY <1>2, <2>1, <2>2, <2>4, <2>5, <3>1 DEF Put, ReqTransit
    <3>2. CASE link # "up"
      BY <1>1, <2>5, <3>2 DEF Put, ReqTransit, TypeOK
    <3> QED  BY <3>1, <3>2
  <2>7. ServeSame(r) /\ sent'[r] <= reqLen'[r] /\ ReqSent(r) <= ReqSent(r)'
    BY <1>2, <1>6, <2>1, <2>2 DEF SendBody, ServeSame
  <2> QED  BY <2>1, <2>2, <2>6, <2>7, ReqStep
<1>7. ASSUME SendBodyFails(r) PROVE ReqOrder(r)'
  <2>1. /\ pc[r] = "sendBody" /\ pc'[r] = "sendEnd" /\ reqLen' = reqLen /\ sent' = sent
        /\ link = "down" /\ link' = "down" /\ sent[r] < reqLen[r]
    BY <1>7 DEF SendBodyFails, TypeOK
  <2>2. ReqSent(r) = sent[r] + 1 /\ ReqSent(r)' = sent[r] + 1
    BY <2>1 DEF ReqSent, Early
  <2>3. ServeSame(r) /\ ReqTransit(r)
    BY <1>1, <1>7, <2>1 DEF SendBodyFails, ServeSame, ReqTransit
  <2> QED  BY <1>2, <2>1, <2>2, <2>3, ReqStep
<1>8. ASSUME SendEnd(r) PROVE ReqOrder(r)'
  <2> DEFINE f == FrameOf("ReqEnd", r, 0)
  <2>1. /\ pc'[r] = "await" /\ reqLen' = reqLen /\ sent' = sent /\ link' = link
        /\ pc[r] = "sendEnd" \/ (pc[r] = "sendBody" /\ sent[r] = reqLen[r])
    BY <1>8 DEF SendEnd, TypeOK
  <2>2. ReqSent(r) = sent[r] + 1 /\ ReqSent(r)' = reqLen[r] + 2
    BY <2>1 DEF ReqSent, Early
  <2>3. f \in Frame /\ f.type = "ReqEnd" /\ f.req = r
    BY FrameOfType DEF FrameOf, ReqTypes
  <2>4. f \in ReqFrames(r) /\ ReqPos(r)[f] = reqLen[r] + 2
    BY <2>3, ReqPosition DEF ReqFrames, ReqTypes
  <2> HIDE DEF f
  <2>5. toServe' = Put(toServe, f)
    BY <1>8 DEF SendEnd, f
  <2>6. ReqTransit(r)
    <3>1. CASE link = "up"
      <4>1. pc[r] = "sendBody" /\ sent[r] = reqLen[r]
        BY <2>1, <3>1 DEF ReqOrder
      <4> QED  BY <1>2, <2>1, <2>2, <2>4, <2>5, <3>1, <4>1 DEF Put, ReqTransit
    <3>2. CASE link # "up"
      BY <1>1, <2>1, <2>5, <3>2 DEF Put, ReqTransit, TypeOK
    <3> QED  BY <3>1, <3>2
  <2>7. ServeSame(r) /\ ReqSent(r) <= ReqSent(r)'
    <3>1. ReqSent(r) <= reqLen[r] + 2
      BY ReqBound
    <3> QED  BY <1>8, <2>2, <3>1 DEF SendEnd, ServeSame
  <2> QED  BY <2>1, <2>6, <2>7, ReqStep
<1>9. ASSUME CollectFails(r) PROVE ReqOrder(r)'
  <2>1. /\ UNCHANGED <<sid, link, reqLen, sent, toServe>> /\ ServeSame(r)
        /\ pc'[r] = pc[r] \/ {pc[r], pc'[r]} \subseteq Early
              \/ pc'[r] \notin Early \cup {"sendBody", "sendEnd"}
    BY <1>9 DEF CollectFails, ServeSame, Early, TypeOK
  <2> QED  BY <1>1, <2>1, ReqIdle
<1>10. ASSUME HangUp(r) PROVE ReqOrder(r)'
  <2>1. /\ UNCHANGED <<sid, link, reqLen, sent, toServe>> /\ ServeSame(r)
        /\ pc'[r] = pc[r] \/ {pc[r], pc'[r]} \subseteq Early
              \/ pc'[r] \notin Early \cup {"sendBody", "sendEnd"}
    BY <1>10 DEF HangUp, ServeSame, Early, TypeOK
  <2> QED  BY <1>1, <2>1, ReqIdle
<1>11. ASSUME Register(r) PROVE ReqOrder(r)'
  <2>1. /\ UNCHANGED <<sid, link, reqLen, sent, toServe>> /\ ServeSame(r)
        /\ pc'[r] = pc[r] \/ {pc[r], pc'[r]} \subseteq Early
              \/ pc'[r] \notin Early \cup {"sendBody", "sendEnd"}
    BY <1>11 DEF Register, ServeSame, Early, TypeOK
  <2> QED  BY <1>1, <2>1, ReqIdle
<1>12. ASSUME SendHeadersFails(r) PROVE ReqOrder(r)'
  <2>1. /\ UNCHANGED <<sid, link, reqLen, sent, toServe>> /\ ServeSame(r)
        /\ pc'[r] = pc[r] \/ {pc[r], pc'[r]} \subseteq Early
              \/ pc'[r] \notin Early \cup {"sendBody", "sendEnd"}
    BY <1>12 DEF SendHeadersFails, ServeSame, Early, TypeOK
  <2> QED  BY <1>1, <2>1, ReqIdle
<1>13. ASSUME AwaitHeaders(r) PROVE ReqOrder(r)'
  <2>1. /\ UNCHANGED <<sid, link, reqLen, sent, toServe>> /\ ServeSame(r)
        /\ pc'[r] = pc[r] \/ {pc[r], pc'[r]} \subseteq Early
              \/ pc'[r] \notin Early \cup {"sendBody", "sendEnd"}
    BY <1>13 DEF AwaitHeaders, ServeSame, Early, TypeOK
  <2> QED  BY <1>1, <2>1, ReqIdle
<1>14. ASSUME AwaitSkipsBody(r) PROVE ReqOrder(r)'
  <2>1. /\ UNCHANGED <<sid, link, reqLen, sent, toServe>> /\ ServeSame(r)
        /\ pc'[r] = pc[r] \/ {pc[r], pc'[r]} \subseteq Early
              \/ pc'[r] \notin Early \cup {"sendBody", "sendEnd"}
    BY <1>14 DEF AwaitSkipsBody, ServeSame, Early, TypeOK
  <2> QED  BY <1>1, <2>1, ReqIdle
<1>15. ASSUME AwaitFails(r) PROVE ReqOrder(r)'
  <2>1. /\ UNCHANGED <<sid, link, reqLen, sent, toServe>> /\ ServeSame(r)
        /\ pc'[r] = pc[r] \/ {pc[r], pc'[r]} \subseteq Early
              \/ pc'[r] \notin Early \cup {"sendBody", "sendEnd"}
    BY <1>15 DEF AwaitFails, ServeSame, Early, TypeOK
  <2> QED  BY <1>1, <2>1, ReqIdle
<1>16. ASSUME AwaitTimesOut(r) PROVE ReqOrder(r)'
  <2>1. /\ UNCHANGED <<sid, link, reqLen, sent, toServe>> /\ ServeSame(r)
        /\ pc'[r] = pc[r] \/ {pc[r], pc'[r]} \subseteq Early
              \/ pc'[r] \notin Early \cup {"sendBody", "sendEnd"}
    BY <1>16 DEF AwaitTimesOut, ServeSame, Early, TypeOK
  <2> QED  BY <1>1, <2>1, ReqIdle
<1>17. ASSUME Cleanup(r) PROVE ReqOrder(r)'
  <2>1. /\ UNCHANGED <<sid, link, reqLen, sent, toServe>> /\ ServeSame(r)
        /\ pc'[r] = pc[r] \/ {pc[r], pc'[r]} \subseteq Early
              \/ pc'[r] \notin Early \cup {"sendBody", "sendEnd"}
    BY <1>17 DEF Cleanup, ServeSame, Early, TypeOK
  <2> QED  BY <1>1, <2>1, ReqIdle
<1>18. ASSUME ForwardBody(r) PROVE ReqOrder(r)'
  <2>1. /\ UNCHANGED <<sid, link, reqLen, sent, toServe>> /\ ServeSame(r)
        /\ pc'[r] = pc[r] \/ {pc[r], pc'[r]} \subseteq Early
              \/ pc'[r] \notin Early \cup {"sendBody", "sendEnd"}
    BY <1>18 DEF ForwardBody, ServeSame, Early, TypeOK
  <2> QED  BY <1>1, <2>1, ReqIdle
<1>19. ASSUME ForwardToNobody(r) PROVE ReqOrder(r)'
  <2>1. /\ UNCHANGED <<sid, link, reqLen, sent, toServe>> /\ ServeSame(r)
        /\ pc'[r] = pc[r] \/ {pc[r], pc'[r]} \subseteq Early
              \/ pc'[r] \notin Early \cup {"sendBody", "sendEnd"}
    BY <1>19 DEF ForwardToNobody, ServeSame, Early, TypeOK
  <2> QED  BY <1>1, <2>1, ReqIdle
<1>20. ASSUME ForwardSkipsHeaders(r) PROVE ReqOrder(r)'
  <2>1. /\ UNCHANGED <<sid, link, reqLen, sent, toServe>> /\ ServeSame(r)
        /\ pc'[r] = pc[r] \/ {pc[r], pc'[r]} \subseteq Early
              \/ pc'[r] \notin Early \cup {"sendBody", "sendEnd"}
    BY <1>20 DEF ForwardSkipsHeaders, ServeSame, Early, TypeOK
  <2> QED  BY <1>1, <2>1, ReqIdle
<1>21. ASSUME ForwardEnds(r) PROVE ReqOrder(r)'
  <2>1. /\ UNCHANGED <<sid, link, reqLen, sent, toServe>> /\ ServeSame(r)
        /\ pc'[r] = pc[r] \/ {pc[r], pc'[r]} \subseteq Early
              \/ pc'[r] \notin Early \cup {"sendBody", "sendEnd"}
    BY <1>21 DEF ForwardEnds, ServeSame, Early, TypeOK
  <2> QED  BY <1>1, <2>1, ReqIdle
<1>22. ASSUME UpstreamAnswers(r) PROVE ReqOrder(r)'
  <2>1. /\ UNCHANGED <<sid, link, reqLen, sent, toServe>> /\ ServeSame(r)
        /\ pc'[r] = pc[r] \/ {pc[r], pc'[r]} \subseteq Early
              \/ pc'[r] \notin Early \cup {"sendBody", "sendEnd"}
    BY <1>22 DEF UpstreamAnswers, ServeSame, Early, TypeOK
  <2> QED  BY <1>1, <2>1, ReqIdle
<1>23. ASSUME UpstreamFails(r) PROVE ReqOrder(r)'
  <2>1. /\ UNCHANGED <<sid, link, reqLen, sent, toServe>> /\ ServeSame(r)
        /\ pc'[r] = pc[r] \/ {pc[r], pc'[r]} \subseteq Early
              \/ pc'[r] \notin Early \cup {"sendBody", "sendEnd"}
    BY <1>23 DEF UpstreamFails, ServeSame, Early, TypeOK
  <2> QED  BY <1>1, <2>1, ReqIdle
<1>24. ASSUME TaskSendsHeaders(r) PROVE ReqOrder(r)'
  <2>1. /\ UNCHANGED <<sid, link, reqLen, sent, toServe>> /\ ServeSame(r)
        /\ pc'[r] = pc[r] \/ {pc[r], pc'[r]} \subseteq Early
              \/ pc'[r] \notin Early \cup {"sendBody", "sendEnd"}
    BY <1>24 DEF TaskSendsHeaders, ServeSame, Early, TypeOK
  <2> QED  BY <1>1, <2>1, ReqIdle
<1>25. ASSUME TaskSendsBody(r) PROVE ReqOrder(r)'
  <2>1. /\ UNCHANGED <<sid, link, reqLen, sent, toServe>> /\ ServeSame(r)
        /\ pc'[r] = pc[r] \/ {pc[r], pc'[r]} \subseteq Early
              \/ pc'[r] \notin Early \cup {"sendBody", "sendEnd"}
    BY <1>25 DEF TaskSendsBody, ServeSame, Early, TypeOK
  <2> QED  BY <1>1, <2>1, ReqIdle
<1>26. ASSUME TaskSendsError(r) PROVE ReqOrder(r)'
  <2>1. /\ UNCHANGED <<sid, link, reqLen, sent, toServe>> /\ ServeSame(r)
        /\ pc'[r] = pc[r] \/ {pc[r], pc'[r]} \subseteq Early
              \/ pc'[r] \notin Early \cup {"sendBody", "sendEnd"}
    BY <1>26 DEF TaskSendsError, ServeSame, Early, TypeOK
  <2> QED  BY <1>1, <2>1, ReqIdle
<1>27. ASSUME TaskSendsEnd(r) PROVE ReqOrder(r)'
  <2>1. /\ UNCHANGED <<sid, link, reqLen, sent, toServe>> /\ ServeSame(r)
        /\ pc'[r] = pc[r] \/ {pc[r], pc'[r]} \subseteq Early
              \/ pc'[r] \notin Early \cup {"sendBody", "sendEnd"}
    BY <1>27 DEF TaskSendsEnd, ServeSame, Early, TypeOK
  <2> QED  BY <1>1, <2>1, ReqIdle
<1>28. ASSUME TaskSendFails(r) PROVE ReqOrder(r)'
  <2>1. /\ UNCHANGED <<sid, link, reqLen, sent, toServe>> /\ ServeSame(r)
        /\ pc'[r] = pc[r] \/ {pc[r], pc'[r]} \subseteq Early
              \/ pc'[r] \notin Early \cup {"sendBody", "sendEnd"}
    BY <1>28 DEF TaskSendFails, TaskSending, ServeSame, Early, TypeOK
  <2> QED  BY <1>1, <2>1, ReqIdle
<1> QED
  BY <1>3, <1>4, <1>5, <1>6, <1>7, <1>8, <1>9, <1>10, <1>11, <1>12, <1>13, <1>14,
     <1>15, <1>16, <1>17, <1>18, <1>19, <1>20, <1>21, <1>22, <1>23, <1>24, <1>25,
     <1>26, <1>27, <1>28
     DEF Client, Handler, Forwarder, Upstream, Task

(* The serve loop takes the frames of a request one position at a time.    *)
LEMMA ReqServed ==
    ASSUME TypeOK, TypeOK', RoutedById, NEW r \in Requests, UniqueId(r), ReqOrder(r),
           Serve, Head(toServe) \in ReqFrames(r)
    PROVE  ReqOrder(r)' /\ ReqTaken(r)' = ReqTaken(r) + 1
<1> USE DEF handlerVars, clientVars, serveVars, taskVars
<1> DEFINE f == Head(toServe)
           i == sid[r]
           S == ReqFrames(r)
           P == ReqPos(r)
           p == ReqTaken(r)
           t == ReqSent(r)
<1>1. /\ toServe # <<>> /\ toServe' = Tail(toServe) /\ serveUp
      /\ UNCHANGED <<pc, sid, reqLen, sent, link>>
  BY DEF Serve, ServeNext, ServeHeaders, ServeBody, ServeEnd, ServePongs, ServeIgnores
<1>2. f \in OwnFrame /\ f \in Frame /\ f.req = r /\ f.type \in ReqTypes /\ f.n \in Nat
  BY <1>1, SequenceTypes DEF RoutedById, ReqFrames, Frame
<1>3. f.id = i /\ i \in Ids /\ srvReq[i] \in {r, NoReq} /\ r # NoReq
  <2>1. f.type \notin KeepaliveTypes
    BY <1>2 DEF ReqTypes, KeepaliveTypes
  <2>2. i \in Ids /\ r # NoReq
    BY NoReqAssumption DEF TypeOK
  <2> HIDE DEF f
  <2> QED  BY <1>2, <2>1, <2>2, OwnPlaces
<1>4. /\ P \in [Frame -> Nat] /\ p \in Nat /\ t \in Nat
      /\ toServe \in Seq(Frame) /\ reqLen[r] \in Nat /\ Len(srvBody[i]) \in Nat
  <2>1. P \in [Frame -> Nat] /\ p \in Nat /\ t \in Nat
    BY PositionTypes
  <2>2. Len(srvBody[i]) \in Nat
    BY <1>3, LenProperties DEF TypeOK
  <2> QED  BY <2>1, <2>2 DEF TypeOK
<1>5. /\ P[f] = p + 1 /\ p + 1 <= t /\ t <= reqLen[r] + 2
      /\ InLine(toServe', S, P, p + 1, t)
      /\ link' = "up" /\ pc'[r] \in Early \cup {"sendBody"} => Full(toServe', S, P, p + 1, t)
  <2>1. InLine(toServe, S, P, p, t)
    BY DEF ReqOrder
  <2>2. link = "up" /\ pc[r] \in Early \cup {"sendBody"} => Full(toServe, S, P, p, t)
    BY DEF ReqOrder
  <2>3. t <= reqLen[r] + 2
    BY ReqBound
  <2> HIDE DEF S, P, p, t, f
  <2>4. /\ P[Head(toServe)] = p + 1 /\ p + 1 <= t
        /\ InLine(Tail(toServe), S, P, p + 1, t)
        /\ Full(toServe, S, P, p, t) => Full(Tail(toServe), S, P, p + 1, t)
    BY <1>1, <1>4, <2>1, TailNext DEF S
  <2> QED  BY <1>1, <2>2, <2>3, <2>4 DEF f
<1>6. h[r] = "none" /\ (p = 0 \/ (srvReq[i] = r /\ p = Len(srvBody[i]) + 1))
  <2>1. h[r] = "none"
    <3>1. h[r] # "none" => p = reqLen[r] + 2
      BY DEF ReqTaken
    <3> HIDE DEF p, t
    <3> QED  BY <1>4, <1>5, <3>1
  <2> QED  BY <2>1 DEF ReqTaken
<1>7. ReqPos(r)' = P /\ t = ReqSent(r)'
  BY <1>1 DEF ReqPos, ReqSent
<1>8. pc'[r] \in {"sendBody", "sendEnd"} => sent'[r] <= reqLen'[r]
  BY <1>1 DEF ReqOrder
<1>9. pc'[r] = "sendEnd" => link' = "down"
  BY <1>1 DEF ReqOrder
<1> HIDE DEF P, p, t, f
<1>10. SUFFICES /\ ReqTaken(r)' = p + 1
                /\ srvReq'[i] = r => srvBody'[i] = Chunks(r, Len(srvBody'[i]))
                /\ h'[r] # "none" => upBody'[r] = Chunks(r, reqLen[r])
  BY <1>1, <1>5, <1>7, <1>8, <1>9 DEF ReqOrder, p
<1>11. CASE ServeHeaders
  <2>1. f.type = "ReqHeaders"
    BY <1>11 DEF ServeHeaders, ServeNext, f
  <2>2. P[f] = 1
    BY <1>2, <2>1, ReqPosition DEF P
  <2>3. p = 0
    BY <1>4, <1>5, <2>2
  <2>4. srvReq'[i] = r /\ srvBody'[i] = <<>> /\ h' = h /\ sid' = sid
    BY <1>2, <1>3, <1>11 DEF ServeHeaders, TypeOK, f
  <2>5. Len(<<>>) = 0 /\ Chunks(r, 0) = <<>>
    BY DEF Chunks
  <2>6. ReqTaken(r)' = 1
    BY <1>6, <2>4, <2>5 DEF ReqTaken
  <2> QED  BY <1>6, <2>3, <2>4, <2>5, <2>6
<1>12. CASE ServeBody
  <2>1. f.type = "ReqBody"
    BY <1>12 DEF ServeBody, ServeNext, f
  <2>2. P[f] = IF f.n # 0 THEN f.n + 1 ELSE reqLen[r] + 3
    BY <1>2, <2>1, ReqPosition DEF P
  <2>3. f.n = p /\ p # 0
    BY <1>2, <1>4, <1>5, <2>2
  <2>4. srvReq[i] = r /\ f.n = Len(srvBody[i]) + 1
    BY <1>6, <2>3
  <2>5. srvBody' = [srvBody EXCEPT ![i] = Append(@, <<r, f.n>>)] /\ srvReq' = srvReq /\ h' = h
    BY <1>2, <1>3, <1>12, <2>4 DEF ServeBody, f
  <2>6. srvBody'[i] = Append(srvBody[i], <<r, f.n>>) /\ srvBody[i] \in Seq(Chunk)
    <3>1. srvBody \in [Ids -> Seq(Chunk)]
      BY DEF TypeOK
    <3> HIDE DEF i
    <3> QED  BY <1>3, <2>5, <3>1
  <2>7. srvBody[i] = Chunks(r, Len(srvBody[i]))
    BY <2>4 DEF ReqOrder
  <2>8. Len(srvBody'[i]) = Len(srvBody[i]) + 1 /\ srvBody'[i] = Chunks(r, Len(srvBody'[i]))
    <3>1. srvBody'[i] = Append(srvBody[i], <<r, Len(srvBody[i]) + 1>>)
      BY <2>4, <2>6
    <3> DEFINE b == srvBody[i]
               n == Len(srvBody[i])
    <3>2. n \in Nat /\ b = Chunks(r, n)
      BY <1>4, <2>7
    <3> HIDE DEF b, n
    <3>3. Len(Append(b, <<r, n + 1>>)) = n + 1 /\ Append(b, <<r, n + 1>>) = Chunks(r, n + 1)
      BY <3>2, NextChunk
    <3> QED  BY <3>1, <3>3 DEF b, n
  <2>9. ReqTaken(r)' = Len(srvBody[i]) + 2
    BY <1>1, <1>4, <1>6, <2>4, <2>5, <2>8 DEF ReqTaken
  <2> QED  BY <1>4, <1>6, <2>3, <2>4, <2>5, <2>8, <2>9
<1>13. CASE ServeEnd
  <2>1. f.type = "ReqEnd"
    BY <1>13 DEF ServeEnd, ServeNext, f
  <2>2. P[f] = reqLen[r] + 2
    BY <1>2, <2>1, ReqPosition DEF P
  <2>3. srvReq[i] = r /\ Len(srvBody[i]) = reqLen[r]
    BY <1>4, <1>5, <1>6, <2>2
  <2>4. /\ srvReq' = [srvReq EXCEPT ![i] = NoReq]
        /\ h' = [h EXCEPT ![r] = "upstream"]
        /\ upBody' = [upBody EXCEPT ![r] = srvBody[i]]
    BY <1>3, <1>13, <2>3 DEF ServeEnd, f
  <2>5. srvReq'[i] = NoReq /\ h'[r] = "upstream" /\ upBody'[r] = srvBody[i]
    BY <1>3, <2>4 DEF TypeOK
  <2>6. ReqTaken(r)' = reqLen[r] + 2
    BY <1>1, <2>5 DEF ReqTaken
  <2>7. srvBody[i] = Chunks(r, reqLen[r])
    BY <2>3 DEF ReqOrder
  <2> QED  BY <1>3, <1>4, <1>5, <2>2, <2>5, <2>6, <2>7
<1>14. ~ ServePongs /\ ~ ServeIgnores
  BY <1>2 DEF ServePongs, ServeIgnores, ServeNext, ReqTypes, ResTypes, f
<1> QED  BY <1>11, <1>12, <1>13, <1>14 DEF Serve

-----------------------------------------------------------------------------
(***************************************************************************)
(* The response's direction, in the steps of request r and of its task.    *)
(***************************************************************************)
LEMMA ResBound ==
    ASSUME TypeOK, NEW r \in Requests
    PROVE  ResSent(r) <= resSent[r] + 3
<1>1. resSent[r] \in Nat
  BY DEF TypeOK
<1> QED  BY <1>1 DEF ResSent

(* The next event of a channel has the next position of the response.      *)
LEMMA NextEvent ==
    ASSUME TypeOK, NEW r \in Requests, ResOrder(r), events[r] # <<>>
    PROVE  /\ Head(events[r]) \in Frame /\ Head(events[r]).req = r
           /\ ResPos(r)[Head(events[r])] = Given(r) + 1
           /\ Given(r) + 1 <= ResSent(r) /\ Given(r) + 1 <= resSent[r] + 3
           /\ pc[r] \notin Finished
<1>1. events[r] \in Seq(Frame) /\ resSent[r] \in Nat
  BY DEF TypeOK
<1>2. Len(events[r]) \in Nat /\ Len(events[r]) >= 1 /\ Head(events[r]) = events[r][1]
  BY <1>1, EmptySeq, LenProperties, HeadTailProperties
<1>3. Given(r) \in Nat /\ ResSent(r) \in Nat
  BY PositionTypes
<1>4. 1 \in 1..Len(events[r])
  BY <1>2
<1>5. events[r][1] \in ResFrames(r) /\ ResPos(r)[events[r][1]] = Given(r) + 1
  BY <1>4 DEF ResOrder
<1>6. pc[r] \notin Finished
  BY DEF ResOrder
<1>7. Given(r) + Len(events[r]) <= ResSent(r)
  BY <1>6 DEF ResOrder, ResRead
<1>8. Given(r) + 1 <= ResSent(r)
  BY <1>2, <1>3, <1>7
<1>9. Given(r) + 1 <= resSent[r] + 3
  BY <1>1, <1>3, <1>8, ResBound
<1> QED  BY <1>2, <1>5, <1>6, <1>8, <1>9 DEF ResFrames

(* The handler, then the forwarder, takes an event that does not end it.   *)
LEMMA ResTakes ==
    ASSUME TypeOK, TypeOK', NEW r \in Requests, ResOrder(r),
           events[r] # <<>>, events'[r] = Tail(events[r]),
           Head(events[r]).type \notin {"ResEnd", "Error"},
           pc[r] \in {"await", "stream"}, pc'[r] = "stream", Given(r)' = Given(r) + 1,
           UNCHANGED <<sid, h, hStatus, resSent, pending, toProxy, link>>,
           got'[r] = Chunks(r, Len(got'[r])), Len(got'[r]) <= resSent[r],
           reply'[r] = <<r, hStatus[r]>>, h[r] \notin Unanswered
    PROVE  ResOrder(r)'
<1>1. events[r] \in Seq(Frame)
  BY DEF TypeOK
<1>2. /\ Len(events[r]) \in Nat /\ Len(events[r]) >= 1
      /\ Len(events'[r]) = Len(events[r]) - 1
      /\ \A k \in 1..Len(events'[r]) : events'[r][k] = events[r][k + 1]
      /\ Head(events[r]) = events[r][1]
  BY <1>1, EmptySeq, LenProperties, HeadTailProperties
<1>3. Given(r) \in Nat
  BY PositionTypes
<1>4. ResRead(r)' = ResRead(r)
  BY <1>2, <1>3 DEF ResRead
<1>5. ResPos(r)' = ResPos(r) /\ ResSent(r)' = ResSent(r)
  BY DEF ResPos, ResSent
<1>6. Live(r)' => Live(r)
  BY DEF Live, Finished
<1>7. /\ Live(r)' => InLine(toProxy', ResFrames(r), ResPos(r)', ResRead(r)', ResSent(r)')
      /\ Live(r)' /\ link' = "up" /\ h'[r] \notin TaskOver =>
            Full(toProxy', ResFrames(r), ResPos(r)', ResRead(r)', ResSent(r)')
  BY <1>4, <1>5, <1>6 DEF ResOrder
<1>8. \A k \in 1..Len(events'[r]) :
          events'[r][k] \in ResFrames(r) /\ ResPos(r)'[events'[r][k]] = Given(r)' + k
  <2> TAKE k \in 1..Len(events'[r])
  <2>1. k + 1 \in 1..Len(events[r]) /\ events'[r][k] = events[r][k + 1]
    BY <1>2
  <2>2. events[r][k + 1] \in ResFrames(r) /\ ResPos(r)[events[r][k + 1]] = Given(r) + (k + 1)
    BY <2>1 DEF ResOrder
  <2> QED  BY SMTT(30), <1>3, <1>5, <2>1, <2>2
<1>9. pc'[r] \notin Finished => ResRead(r)' <= ResSent(r)'
  BY <1>4, <1>5, NextEvent DEF ResOrder
<1>10. pending'[sid'[r]] # r =>
           events'[r] # <<>> /\ events'[r][Len(events'[r])].type \in {"ResEnd", "Error"}
  <2> SUFFICES ASSUME pending[sid[r]] # r
               PROVE  events'[r] # <<>> /\ events'[r][Len(events'[r])].type \in {"ResEnd", "Error"}
    OBVIOUS
  <2>1. events[r][Len(events[r])].type \in {"ResEnd", "Error"}
    BY DEF ResOrder, Sending, Forwarding
  <2>2. Len(events[r]) # 1
    BY <1>2, <2>1
  <2> DEFINE n == Len(events'[r])
             m == Len(events[r])
  <2>3. m \in Nat /\ m >= 1 /\ n = m - 1 /\ m # 1
        /\ \A k \in 1..n : events'[r][k] = events[r][k + 1]
    BY <1>2, <2>2
  <2> HIDE DEF n, m
  <2>4. n \in 1..n /\ n + 1 = m /\ n # 0
    BY <2>3
  <2>5. events'[r][n] = events[r][m]
    BY <2>3, <2>4
  <2>6. events'[r] # <<>>
    <3>1. events'[r] = <<>> => n = 0
      BY EmptySeq DEF n
    <3> QED  BY <2>4, <3>1
  <2> QED  BY <2>1, <2>5, <2>6 DEF n, m
<1>11. /\ pc'[r] \notin Finished \cup {"idle", "collect", "register"} /\ pc'[r] \in Forwarding
       /\ pc'[r] # "closed"
  BY DEF Finished, Forwarding
<1> QED  BY Zenon, <1>7, <1>8, <1>9, <1>10, <1>11 DEF ResOrder

(* The task goes on while nothing of its response has been sent.           *)
LEMMA ResUnanswered ==
    ASSUME TypeOK, TypeOK', NEW r \in Requests, ResOrder(r),
           h[r] \in Unanswered, h'[r] \in Unanswered,
           resSent' = resSent, toProxy' = toProxy, link' = link, ProxyGoesOn(r)
    PROVE  ResOrder(r)'
<1>1. ResSent(r) = 0 /\ ResSent(r)' = 0 /\ resSent[r] \in Nat
  BY DEF ResSent, Unanswered, TypeOK
<1>2. ASSUME NEW f \in ResFrames(r) PROVE ~(ResPos(r)[f] <= ResSent(r))
  <2>1. f \in Frame
    BY DEF ResFrames
  <2>2. ResPos(r)[f] >= 1 /\ ResPos(r)[f] \in Nat
    BY <2>1, ResPosition, PositionTypes
  <2> QED  BY <1>1, <2>2
<1>3. TaskGoesOn(r)
  BY <1>1, <1>2 DEF TaskGoesOn, Unanswered
<1>4. ResTransit(r)
  BY <1>1 DEF ResTransit, Moves, Unanswered, TaskOver
<1> QED  BY <1>3, <1>4, ResStep

(* Positions of what was sent do not move when the task goes on.           *)
LEMMA PlacesStay ==
    ASSUME NEW s, NEW n \in Nat, NEW f \in Frame, f.type \in ResTypes
    PROVE  /\ ResPlace(s, n, "body")[f] <= n + 1 =>
                 /\ ResPlace(s, n + 1, "body")[f] = ResPlace(s, n, "body")[f]
                 /\ \A t \in {"broken", "done", "dead"} :
                       ResPlace(s, n, t)[f] = ResPlace(s, n, "body")[f]
           /\ ResPlace(s, n, "broken")[f] <= n + 2 =>
                 ResPlace(s, n, "aborted")[f] = ResPlace(s, n, "broken")[f]
<1>1. n + 1 \in Nat /\ f.n \in Nat
  BY DEF Frame
<1>2. f.type \in {"ResHeaders", "ResBody", "ResEnd", "Error"}
  BY DEF ResTypes
<1>3. CASE f.type = "ResHeaders"
  BY <1>1, <1>3, ResPlaces
<1>4. CASE f.type = "ResBody"
  BY <1>1, <1>4, ResPlaces
<1>5. CASE f.type = "ResEnd"
  BY <1>1, <1>5, ResPlaces
<1>6. CASE f.type = "Error"
  BY <1>1, <1>6, ResPlaces
<1> QED  BY <1>2, <1>3, <1>4, <1>5, <1>6

LEMMA TaskSends ==
    ASSUME TypeOK, TypeOK', NEW r \in Requests, ResOrder(r),
           NEW f \in ResFrames(r), toProxy' = Put(toProxy, f), link' = link,
           ProxyGoesOn(r), TaskGoesOn(r), h[r] \notin TaskOver,
           ResSent(r)' = ResSent(r) + 1, ResPos(r)'[f] = ResSent(r) + 1
    PROVE  ResOrder(r)'
<1>1. ResTransit(r)
  <2>1. CASE link = "up"
    BY <2>1 DEF ResTransit, Put
  <2>2. CASE link # "up"
    BY <2>2 DEF ResTransit, Put, Moves, TypeOK
  <2> QED  BY <2>1, <2>2
<1> QED  BY <1>1, ResStep

LEMMA ResTask ==
    ASSUME TypeOK, TypeOK', NEW r \in Requests, ResOrder(r), Upstream(r) \/ Task(r)
    PROVE  ResOrder(r)'
<1> USE DEF handlerVars, clientVars, serveVars, taskVars
<1> DEFINE n == resSent[r]
           s == hStatus[r]
<1>1. n \in Nat /\ s \in Nat
  <2>1. s \in {0, 200, 502} /\ n \in Nat
    BY DEF TypeOK
  <2> QED  BY <2>1
<1>2. \A f \in ResFrames(r) : f \in Frame /\ f.type \in ResTypes /\ ResPos(r)[f] >= 1
                             /\ ResPos(r)[f] \in Nat
  BY ResPosition, PositionTypes DEF ResFrames
<1>3. Upstream(r) \/ Task(r) => ProxyGoesOn(r)
  BY DEF Upstream, Task, UpstreamAnswers, UpstreamFails, TaskSendsHeaders, TaskSendsBody,
         TaskSendsError, TaskSendsEnd, TaskSendFails, ProxyGoesOn
<1>4. ASSUME Upstream(r) PROVE ResOrder(r)'
  <2>1. /\ h[r] \in Unanswered /\ h'[r] \in Unanswered
        /\ resSent' = resSent /\ toProxy' = toProxy /\ link' = link
    BY <1>4 DEF Upstream, UpstreamAnswers, UpstreamFails, Unanswered, TypeOK
  <2> QED  BY <1>3, <1>4, <2>1, ResUnanswered
<1>5. ASSUME TaskSendsHeaders(r) PROVE ResOrder(r)'
  <2> DEFINE f == FrameOf("ResHeaders", r, s)
  <2>1. /\ h[r] = "headers" /\ h'[r] = "body" /\ hStatus' = hStatus /\ resSent' = resSent
        /\ link' = link /\ n = 0
    BY <1>5 DEF TaskSendsHeaders, TypeOK, ResOrder, Unanswered
  <2>2. ResSent(r) = 0 /\ ResSent(r)' = 1
    BY <2>1 DEF ResSent, Unanswered
  <2>3. f \in Frame /\ f.type = "ResHeaders" /\ f.n = s /\ f \in ResFrames(r)
    BY <1>1, FrameOfType DEF FrameOf, ResTypes, ResFrames
  <2>4. ResPos(r)'[f] = 1
    BY <1>1, <2>1, <2>3, ResPlaces DEF ResPos
  <2> HIDE DEF f
  <2>5. toProxy' = Put(toProxy, f)
    BY <1>5 DEF TaskSendsHeaders, f
  <2>6. TaskGoesOn(r)
    BY <1>1, <1>2, <2>1, <2>2 DEF TaskGoesOn, Unanswered
  <2> QED  BY <1>3, <1>5, <2>1, <2>2, <2>3, <2>4, <2>5, <2>6, TaskSends DEF TaskOver, Task
<1>6. ASSUME TaskSendsBody(r) PROVE ResOrder(r)'
  <2> DEFINE f == FrameOf("ResBody", r, n + 1)
  <2>1. /\ h[r] = "body" /\ h' = h /\ hStatus' = hStatus /\ resSent'[r] = n + 1
        /\ link' = link
    BY <1>6 DEF TaskSendsBody, TypeOK
  <2>2. ResSent(r) = n + 1 /\ ResSent(r)' = n + 2
    BY <1>1, <2>1 DEF ResSent, Unanswered
  <2>3. n + 1 \in Nat /\ f \in Frame /\ f.type = "ResBody" /\ f.n = n + 1 /\ f \in ResFrames(r)
    <3>1. n + 1 \in Nat
      BY <1>1
    <3> QED  BY <3>1, FrameOfType DEF FrameOf, ResTypes, ResFrames
  <2>4. ResPos(r)' = ResPlace(s, n + 1, "body") /\ ResPos(r) = ResPlace(s, n, "body")
    BY <2>1 DEF ResPos
  <2>5. ResPos(r)'[f] = n + 2
    BY <1>1, <2>3, <2>4, ResPlaces
  <2> HIDE DEF f
  <2>6. toProxy' = Put(toProxy, f)
    BY <1>6 DEF TaskSendsBody, f
  <2>7. \A g \in ResFrames(r) : ResPos(r)[g] <= ResSent(r) => ResPos(r)'[g] = ResPos(r)[g]
    BY <1>1, <1>2, <2>2, <2>4, PlacesStay
  <2>8. TaskGoesOn(r)
    BY <1>1, <2>1, <2>2, <2>7 DEF TaskGoesOn, Unanswered
  <2>9. ResSent(r)' = ResSent(r) + 1 /\ ResPos(r)'[f] = ResSent(r) + 1
    BY <1>1, <2>2, <2>5
  <2> QED  BY <1>3, <1>6, <2>1, <2>3, <2>6, <2>8, <2>9, TaskSends DEF TaskOver, Task
<1>7. ASSUME TaskSendsError(r) PROVE ResOrder(r)'
  <2> DEFINE f == FrameOf("Error", r, 0)
  <2>1. /\ h[r] = "body" /\ h'[r] = "broken" /\ hStatus' = hStatus /\ resSent' = resSent
        /\ link' = link
    BY <1>7 DEF TaskSendsError, TypeOK
  <2>2. ResSent(r) = n + 1 /\ ResSent(r)' = n + 2
    BY <1>1, <2>1 DEF ResSent, Unanswered
  <2>3. f \in Frame /\ f.type = "Error" /\ f \in ResFrames(r)
    BY FrameOfType DEF FrameOf, ResTypes, ResFrames
  <2>4. ResPos(r)' = ResPlace(s, n, "broken") /\ ResPos(r) = ResPlace(s, n, "body")
    BY <2>1 DEF ResPos
  <2>5. ResPos(r)'[f] = n + 2
    BY <1>1, <2>3, <2>4, ResPlaces
  <2> HIDE DEF f
  <2>6. toProxy' = Put(toProxy, f)
    BY <1>7 DEF TaskSendsError, f
  <2>7. \A g \in ResFrames(r) : ResPos(r)[g] <= ResSent(r) => ResPos(r)'[g] = ResPos(r)[g]
    BY <1>1, <1>2, <2>2, <2>4, PlacesStay
  <2>8. TaskGoesOn(r)
    BY <1>1, <2>1, <2>2, <2>7 DEF TaskGoesOn, Unanswered
  <2>9. ResSent(r)' = ResSent(r) + 1 /\ ResPos(r)'[f] = ResSent(r) + 1
    BY <1>1, <2>2, <2>5
  <2> QED  BY <1>3, <1>7, <2>1, <2>3, <2>6, <2>8, <2>9, TaskSends DEF TaskOver, Task
<1>8. ASSUME TaskSendsEnd(r) PROVE ResOrder(r)'
  <2> DEFINE f == FrameOf("ResEnd", r, 0)
             m == IF h[r] = "body" THEN n + 1 ELSE n + 2
             t == IF h[r] = "body" THEN "done" ELSE "aborted"
  <2>1. /\ h[r] \in {"body", "broken"} /\ h'[r] = t /\ hStatus' = hStatus
        /\ resSent' = resSent /\ link' = link
    BY <1>8 DEF TaskSendsEnd, TypeOK
  <2>2. ResSent(r) = m /\ ResSent(r)' = m + 1 /\ m \in Nat
    BY <1>1, <2>1 DEF ResSent, Unanswered
  <2>3. f \in Frame /\ f.type = "ResEnd" /\ f \in ResFrames(r)
    BY FrameOfType DEF FrameOf, ResTypes, ResFrames
  <2>4. ResPos(r)' = ResPlace(s, n, t) /\ ResPos(r) = ResPlace(s, n, h[r])
    BY <2>1 DEF ResPos
  <2>5. ResPos(r)'[f] = m + 1
    BY <1>1, <2>3, <2>4, ResPlaces
  <2> HIDE DEF f
  <2>6. toProxy' = Put(toProxy, f)
    BY <1>8 DEF TaskSendsEnd, f
  <2>7. \A g \in ResFrames(r) : ResPos(r)[g] <= ResSent(r) => ResPos(r)'[g] = ResPos(r)[g]
    BY <1>1, <1>2, <2>1, <2>2, <2>4, PlacesStay
  <2>8. TaskGoesOn(r)
    BY <1>1, <2>1, <2>2, <2>7 DEF TaskGoesOn, Unanswered
  <2> QED  BY <1>3, <1>8, <2>1, <2>2, <2>3, <2>5, <2>6, <2>8, TaskSends DEF TaskOver, Task
<1>9. ASSUME TaskSendFails(r) PROVE ResOrder(r)'
  <2>1. /\ h[r] \in {"headers", "body", "broken"}
        /\ h'[r] = IF h[r] = "broken" THEN "aborted" ELSE "dead"
        /\ UNCHANGED <<hStatus, resSent, link, toProxy>>
    BY <1>9 DEF TaskSendFails, TaskSending, TypeOK
  <2>2. /\ ResSent(r) = IF h[r] = "headers" THEN 0 ELSE IF h[r] = "body" THEN n + 1 ELSE n + 2
        /\ ResSent(r)' = IF h[r] = "broken" THEN n + 3 ELSE n + 1
    BY <1>1, <2>1 DEF ResSent, Unanswered
  <2>3. \A g \in ResFrames(r) : ResPos(r)[g] <= ResSent(r) => ResPos(r)'[g] = ResPos(r)[g]
    <3>1. ResPos(r)' = ResPlace(s, n, h'[r]) /\ ResPos(r) = ResPlace(s, n, h[r])
      BY <2>1 DEF ResPos
    <3> QED  BY <1>1, <1>2, <2>1, <2>2, <3>1, PlacesStay
  <2>4. TaskGoesOn(r)
    BY <1>1, <2>1, <2>2, <2>3 DEF TaskGoesOn, Unanswered
  <2>5. ResTransit(r)
    BY <2>1 DEF ResTransit, Moves, TaskOver
  <2> QED  BY <1>3, <1>9, <2>4, <2>5, ResStep DEF Task
<1> QED  BY <1>4, <1>5, <1>6, <1>7, <1>8, <1>9 DEF Task

(* The next event of a handler that awaits headers is the headers; that of *)
(* a forwarder is the next chunk, or ends the response.                    *)
LEMMA NextKind ==
    ASSUME TypeOK, NEW r \in Requests, ResOrder(r), events[r] # <<>>,
           pc[r] \in Forwarding \cup {"await"}
    PROVE  LET e == Head(events[r])
               g == Len(got[r]) IN
           /\ e.req = r
           /\ h[r] \notin Unanswered
           /\ pc[r] = "await" => e.type # "ResBody" /\ (e.type = "ResHeaders" => e.n = hStatus[r])
           /\ pc[r] # "await" =>
                 /\ e.type # "ResHeaders"
                 /\ e.type = "ResBody" => e.n = g + 1 /\ g + 1 <= resSent[r]
                 /\ e.type = "ResEnd" => h[r] = "done" /\ g = resSent[r]
                 /\ e.type = "Error" => h[r] \in {"broken", "aborted"}
<1> DEFINE e == Head(events[r])
           g == Len(got[r])
           n == resSent[r]
<1>1. g \in Nat /\ n \in Nat /\ g <= n
  BY LenProperties DEF TypeOK, ResOrder
<1>2. /\ e \in Frame /\ e.req = r /\ e.n \in Nat
      /\ ResPos(r)[e] = Given(r) + 1
      /\ Given(r) + 1 <= ResSent(r) /\ Given(r) + 1 <= n + 3
  BY NextEvent DEF Frame
<1>3. Given(r) = IF pc[r] = "await" THEN 0 ELSE g + 1
  BY DEF Given, Forwarding
<1>4. h[r] \notin Unanswered
  <2>1. ResSent(r) \in Nat /\ Given(r) \in Nat
    BY PositionTypes
  <2>2. ResSent(r) # 0
    BY <1>2, <2>1
  <2> QED  BY <2>2 DEF ResSent, Unanswered
<1>5. /\ e.type = "ResHeaders" => ResPos(r)[e] = IF e.n = hStatus[r] THEN 1 ELSE n + 4
      /\ e.type = "ResBody" => ResPos(r)[e] = IF e.n \in 1..n THEN e.n + 1 ELSE n + 4
      /\ e.type = "Error" => ResPos(r)[e] = n + IF h[r] \in {"broken", "aborted"} THEN 2 ELSE 4
      /\ e.type = "ResEnd" => ResPos(r)[e] = n + IF h[r] = "done" THEN 2 ELSE 3
  BY <1>2, ResPosition
<1> HIDE DEF e, g, n
<1>6. CASE pc[r] = "await"
  <2>1. ResPos(r)[e] = 1
    BY <1>2, <1>3, <1>6
  <2>2. e.type # "ResBody"
    BY <1>1, <1>2, <1>5, <2>1
  <2>3. e.type = "ResHeaders" => e.n = hStatus[r]
    BY <1>1, <1>5, <2>1
  <2> QED  BY <1>2, <1>4, <1>6, <2>2, <2>3 DEF e
<1>7. CASE pc[r] # "await"
  <2>1. ResPos(r)[e] = g + 2 /\ g + 2 <= n + 3
    BY <1>1, <1>2, <1>3, <1>7
  <2>2. e.type # "ResHeaders"
    BY <1>1, <1>5, <2>1
  <2>3. e.type = "ResBody" => e.n = g + 1 /\ g + 1 <= n
    BY <1>1, <1>2, <1>5, <2>1
  <2>4. e.type = "ResEnd" => h[r] = "done" /\ g = n
    BY <1>1, <1>5, <2>1
  <2>5. e.type = "Error" => h[r] \in {"broken", "aborted"}
    BY <1>1, <1>5, <2>1
  <2> QED  BY <1>2, <1>4, <1>7, <2>2, <2>3, <2>4, <2>5 DEF e, g, n
<1> QED  BY <1>6, <1>7

LEMMA ResOwn ==
    ASSUME TypeOK, TypeOK', NEW r \in Requests, ResOrder(r), pc[r] # "idle",
           Client(r) \/ Handler(r) \/ Forwarder(r)
    PROVE  ResOrder(r)'
<1> USE DEF handlerVars, clientVars, serveVars, taskVars
<1>1. ~ Accept(r)
  BY DEF Accept
<1>2. ASSUME Collect(r) PROVE ResOrder(r)'
  <2>1. ProxyGoesOn(r) /\ UNCHANGED <<link, h, hStatus, resSent, toProxy>>
    BY <1>2 DEF Collect, ProxyGoesOn, TypeOK
  <2> QED  BY <2>1, ResIdle
<1>3. ASSUME CollectFails(r) PROVE ResOrder(r)'
  <2>1. /\ pc[r] = "collect" /\ pc'[r] = "answered" /\ events'[r] = <<>>
        /\ UNCHANGED <<sid, h, hStatus, resSent, got>>
    BY <1>3 DEF CollectFails, TypeOK, ResOrder
  <2> QED  BY <2>1, ResOver DEF Finished, Forwarding
<1>4. ASSUME HangUp(r) PROVE ResOrder(r)'
  <2>1. CASE pc[r] \in Waiting
    <3>1. /\ pc'[r] = "gone" /\ events'[r] = <<>>
          /\ UNCHANGED <<sid, h, hStatus, resSent, got>>
      BY <1>4, <2>1 DEF HangUp, Waiting, TypeOK
    <3> QED  BY <2>1, <3>1, ResOver DEF Finished, Forwarding, Waiting
  <2>2. CASE pc[r] = "stream"
    <3>1. ProxyGoesOn(r) /\ UNCHANGED <<link, h, hStatus, resSent, toProxy>>
      BY <1>4, <2>2 DEF HangUp, Waiting, Forwarding, ProxyGoesOn, TypeOK
    <3> QED  BY <3>1, ResIdle
  <2> QED  BY <1>4, <2>1, <2>2 DEF HangUp
<1>5. ASSUME Register(r) PROVE ResOrder(r)'
  <2>1. /\ pc[r] = "register" /\ pc'[r] = "sendHeaders"
        /\ UNCHANGED <<sid, link, h, hStatus, resSent, toProxy, events, got, reply>>
        /\ pending'[sid[r]] = r
    BY <1>5 DEF Register, TypeOK
  <2>2. Live(r) /\ ResPos(r)' = ResPos(r) /\ ResSent(r)' = ResSent(r)
    BY <2>1 DEF Live, ResPos, ResSent
  <2>3. Given(r)' = Given(r) /\ ResRead(r)' = ResRead(r)
    BY <2>1 DEF Given, ResRead, Forwarding
  <2>4. pc'[r] \notin Finished \cup {"idle", "collect", "register"} \cup Forwarding
        /\ pc[r] \notin Finished \cup Forwarding
    BY <2>1 DEF Finished, Forwarding
  <2>5. /\ Live(r)' => InLine(toProxy', ResFrames(r), ResPos(r)', ResRead(r)', ResSent(r)')
        /\ Live(r)' /\ link' = "up" /\ h'[r] \notin TaskOver =>
              Full(toProxy', ResFrames(r), ResPos(r)', ResRead(r)', ResSent(r)')
    BY <2>1, <2>2, <2>3 DEF ResOrder
  <2>6. \A k \in 1..Len(events'[r]) :
            events'[r][k] \in ResFrames(r) /\ ResPos(r)'[events'[r][k]] = Given(r)' + k
    BY <2>1, <2>2, <2>3 DEF ResOrder
  <2>7. /\ ResRead(r)' <= ResSent(r)'
        /\ got'[r] = Chunks(r, Len(got'[r])) /\ Len(got'[r]) <= resSent'[r] /\ got'[r] = <<>>
        /\ h'[r] \in Unanswered => resSent'[r] = 0
    BY <2>1, <2>2, <2>3, <2>4 DEF ResOrder
  <2> QED  BY <2>1, <2>4, <2>5, <2>6, <2>7 DEF ResOrder
<1>6. ASSUME \/ SendHeaders(r) \/ SendHeadersFails(r) \/ SendBody(r) \/ SendBodyFails(r)
             \/ SendEnd(r) \/ AwaitFails(r) \/ AwaitTimesOut(r)
      PROVE  ResOrder(r)'
  <2>1. /\ pc[r] \in Sending /\ pc'[r] \in Sending \cup {"failed", "timedOut"}
        /\ UNCHANGED <<sid, events, got, reply, pending, link, h, hStatus, resSent, toProxy>>
    <3>1. CASE SendHeaders(r)
      BY <3>1 DEF SendHeaders, Sending, TypeOK
    <3>2. CASE SendHeadersFails(r)
      BY <3>2 DEF SendHeadersFails, Sending, TypeOK
    <3>3. CASE SendBody(r)
      BY <3>3 DEF SendBody, Sending, TypeOK
    <3>4. CASE SendBodyFails(r)
      BY <3>4 DEF SendBodyFails, Sending, TypeOK
    <3>5. CASE SendEnd(r)
      BY <3>5 DEF SendEnd, Sending, TypeOK
    <3>6. CASE AwaitFails(r)
      BY <3>6 DEF AwaitFails, Sending, TypeOK
    <3>7. CASE AwaitTimesOut(r)
      BY <3>7 DEF AwaitTimesOut, Sending, TypeOK
    <3> QED  BY <1>6, <3>1, <3>2, <3>3, <3>4, <3>5, <3>6, <3>7
  <2>2. ProxyGoesOn(r)
    BY <2>1 DEF ProxyGoesOn
  <2> QED  BY <2>1, <2>2, ResIdle
<1>7. ASSUME AwaitHeaders(r) PROVE ResOrder(r)'
  <2> DEFINE e == Head(events[r])
  <2>1. /\ pc[r] = "await" /\ events[r] # <<>> /\ e.type = "ResHeaders"
        /\ reply'[r] = <<e.req, e.n>> /\ events'[r] = Tail(events[r]) /\ pc'[r] = "stream"
        /\ UNCHANGED <<sid, h, hStatus, resSent, pending, toProxy, link, got>>
    BY <1>7 DEF AwaitHeaders, NextIs, TypeOK
  <2>2. e.req = r /\ h[r] \notin Unanswered /\ e.n = hStatus[r]
    BY <2>1, NextKind
  <2>3. got[r] = <<>> /\ got[r] = Chunks(r, Len(got[r])) /\ Len(got[r]) <= resSent[r]
    BY <2>1 DEF ResOrder, Forwarding
  <2>4. Given(r) = 0 /\ Given(r)' = 1
    BY <2>1, <2>3 DEF Given, Forwarding
  <2> HIDE DEF e
  <2> QED  BY <2>1, <2>2, <2>3, <2>4, ResTakes DEF e
<1>8. ASSUME ForwardBody(r) PROVE ResOrder(r)'
  <2> DEFINE e == Head(events[r])
             g == Len(got[r])
  <2>1. /\ pc[r] = "stream" /\ events[r] # <<>> /\ e.type = "ResBody"
        /\ got'[r] = Append(got[r], <<e.req, e.n>>) /\ events'[r] = Tail(events[r])
        /\ UNCHANGED <<pc, reply, sid, h, hStatus, resSent, pending, toProxy, link>>
    BY <1>8 DEF ForwardBody, NextIs, TypeOK
  <2>2. e.req = r /\ h[r] \notin Unanswered /\ e.n = g + 1 /\ g + 1 <= resSent[r]
    BY <2>1, NextKind DEF Forwarding
  <2>3. got[r] = Chunks(r, g) /\ g \in Nat /\ reply[r] = <<r, hStatus[r]>>
    BY <2>1, LenProperties DEF ResOrder, TypeOK, Forwarding
  <2> HIDE DEF e
  <2>4. got'[r] = Append(got[r], <<r, g + 1>>)
    BY <2>1, <2>2
  <2>5. Len(got'[r]) = g + 1 /\ got'[r] = Chunks(r, g + 1)
    <3> DEFINE b == got[r]
    <3> HIDE DEF b, g
    <3>1. Len(Append(b, <<r, g + 1>>)) = g + 1 /\ Append(b, <<r, g + 1>>) = Chunks(r, g + 1)
      BY <2>3, NextChunk DEF b
    <3> QED  BY <2>4, <3>1 DEF b
  <2>6. Given(r) = g + 1 /\ Given(r)' = Given(r) + 1
    BY <2>1, <2>3, <2>5 DEF Given, Forwarding
  <2> HIDE DEF g
  <2> QED  BY <2>1, <2>2, <2>3, <2>5, <2>6, ResTakes DEF e
<1>9. ~ AwaitSkipsBody(r) /\ ~ ForwardSkipsHeaders(r)
  BY NextKind DEF AwaitSkipsBody, ForwardSkipsHeaders, NextIs, Forwarding
<1>10. ASSUME Cleanup(r) PROVE ResOrder(r)'
  <2>1. /\ pc[r] \in {"failed", "timedOut"} /\ pc'[r] = "answered" /\ events'[r] = <<>>
        /\ UNCHANGED <<sid, h, hStatus, resSent, got>>
    BY <1>10 DEF Cleanup, TypeOK
  <2> QED  BY <2>1, ResOver DEF Finished, Forwarding
<1>11. ASSUME ForwardToNobody(r) PROVE ResOrder(r)'
  <2>1. /\ pc[r] = "orphan" /\ pc'[r] = "dropped" /\ events'[r] = <<>>
        /\ UNCHANGED <<sid, h, hStatus, resSent, got, reply>>
    BY <1>11 DEF ForwardToNobody, TypeOK
  <2> QED  BY <2>1, ResOver DEF Finished, Forwarding
<1>12. ASSUME ForwardEnds(r) PROVE ResOrder(r)'
  <2>1. /\ pc[r] \in Forwarding /\ events'[r] = <<>>
        /\ pc'[r] = IF pc[r] = "stream" THEN "closed" ELSE "dropped"
        /\ UNCHANGED <<sid, h, hStatus, resSent, got, reply>>
    BY <1>12 DEF ForwardEnds, TypeOK
  <2>2. ~ Drained(r)
    BY <2>1 DEF ResOrder, Drained, ChannelOpen
  <2>3. events[r] # <<>> /\ Head(events[r]).type \in {"ResEnd", "Error"}
    BY <1>12, <2>2 DEF ForwardEnds, NextIs
  <2>4. \/ h[r] = "done" /\ Len(got[r]) = resSent[r]
        \/ h[r] \in {"broken", "aborted"}
    BY <2>1, <2>3, NextKind DEF Forwarding
  <2> QED  BY <2>1, <2>4, ResOver DEF Finished, Forwarding
<1> QED
  BY <1>1, <1>2, <1>3, <1>4, <1>5, <1>6, <1>7, <1>8, <1>9, <1>10, <1>11, <1>12
     DEF Client, Handler, Forwarder

-----------------------------------------------------------------------------
(***************************************************************************)
(* Frames of request r that reach the reader task and the serve loop.      *)
(***************************************************************************)
LEMMA ResRouted ==
    ASSUME TypeOK, TypeOK', RoutedById, NEW r \in Requests, UniqueId(r),
           ReqOrder(r), ResOrder(r), Reader, Head(toProxy) \in ResFrames(r)
    PROVE  ReqOrder(r)' /\ ResOrder(r)'
<1> USE DEF handlerVars, clientVars, serveVars, taskVars
<1> DEFINE f == Head(toProxy)
           i == sid[r]
           q == events[r]
<1>1. /\ ReaderRoutes \/ ReaderEnds
      /\ toProxy # <<>> /\ toProxy' = Tail(toProxy) /\ events' = Delivered(f)
      /\ UNCHANGED <<handlerVars, clientVars, toServe, link, serveVars, taskVars>>
  <2>1. f.type \in ResTypes
    BY DEF ResFrames
  <2>2. ~ ReaderPongs /\ ~ ReaderIgnores
    BY <2>1 DEF ReaderPongs, ReaderIgnores, ResTypes, ReqTypes
  <2> QED  BY <2>2 DEF Reader, ReaderRoutes, ReaderEnds
<1>2. /\ \/ pending' = pending
         \/ f.type \in {"ResEnd", "Error"} /\ pending' = [pending EXCEPT ![f.id] = NoReq]
  BY <1>1 DEF ReaderRoutes, ReaderEnds
<1>3. f \in Frame /\ f.id = i /\ i \in Ids /\ pending[i] \in {r, NoReq} /\ r # NoReq
  <2>1. f \in OwnFrame /\ f.req = r /\ f.type \notin KeepaliveTypes
    BY <1>1, SequenceTypes DEF RoutedById, ResFrames, ResTypes, KeepaliveTypes
  <2>2. i \in Ids /\ r # NoReq
    BY NoReqAssumption DEF TypeOK
  <2>3. f \in Frame
    BY DEF ResFrames
  <2> HIDE DEF f
  <2> QED  BY <2>1, <2>2, <2>3, OwnPlaces
<1>4. f \in ResFrames(r) /\ toProxy \in Seq(Frame) /\ q \in Seq(Frame) /\ pending \in [Ids -> Requests \cup {NoReq}]
      /\ events \in [Requests -> Seq(Frame)]
  BY DEF TypeOK
<1> HIDE DEF f
<1>5. pending'[i] = pending[i] \/ (pending'[i] = NoReq /\ f.type \in {"ResEnd", "Error"})
  <2> HIDE DEF i
  <2> QED  BY <1>2, <1>3, <1>4
<1>6. ReqOrder(r)'
  <2>1. ServeSame(r) /\ Moves(toServe, toServe', ReqFrames(r))
    BY <1>1 DEF ServeSame, Moves
  <2> QED  BY <1>1, <2>1, ReqIdle
<1>7. /\ ResPos(r)' = ResPos(r) /\ ResSent(r)' = ResSent(r) /\ Given(r)' = Given(r)
      /\ ResPos(r) \in [Frame -> Nat] /\ ResRead(r) \in Nat /\ ResSent(r) \in Nat
      /\ Given(r) \in Nat
  BY <1>1, PositionTypes DEF ResPos, ResSent, Given
(* What the step does to r, case by case: delivered, or dropped.           *)
<1>8. ASSUME /\ Live(r)' => InLine(toProxy', ResFrames(r), ResPos(r), ResRead(r)', ResSent(r))
             /\ Live(r)' /\ link = "up" /\ h[r] \notin TaskOver =>
                   Full(toProxy', ResFrames(r), ResPos(r), ResRead(r)', ResSent(r)),
             \A k \in 1..Len(events'[r]) :
                 events'[r][k] \in ResFrames(r) /\ ResPos(r)[events'[r][k]] = Given(r) + k,
             pc[r] \notin Finished => ResRead(r)' <= ResSent(r),
             pc[r] \in Finished \cup {"idle", "collect", "register"} => events'[r] = <<>>,
             pc[r] \in Sending \cup Forwarding /\ pending'[i] # r =>
                 events'[r] # <<>> /\ events'[r][Len(events'[r])].type \in {"ResEnd", "Error"}
      PROVE  ResOrder(r)'
  <2>1. /\ Live(r)' => InLine(toProxy', ResFrames(r), ResPos(r)', ResRead(r)', ResSent(r)')
        /\ Live(r)' /\ link' = "up" /\ h'[r] \notin TaskOver =>
              Full(toProxy', ResFrames(r), ResPos(r)', ResRead(r)', ResSent(r)')
    BY <1>1, <1>7, <1>8
  <2>2. /\ \A k \in 1..Len(events'[r]) :
              events'[r][k] \in ResFrames(r) /\ ResPos(r)'[events'[r][k]] = Given(r)' + k
        /\ pc'[r] \notin Finished => ResRead(r)' <= ResSent(r)'
    BY <1>1, <1>7, <1>8
  <2>3. /\ pc'[r] \in Finished \cup {"idle", "collect", "register"} => events'[r] = <<>>
        /\ pc'[r] \in Sending \cup Forwarding /\ pending'[sid'[r]] # r =>
              events'[r] # <<>> /\ events'[r][Len(events'[r])].type \in {"ResEnd", "Error"}
    BY <1>1, <1>8
  <2>4. /\ got'[r] = Chunks(r, Len(got'[r])) /\ Len(got'[r]) <= resSent'[r]
        /\ pc'[r] \notin Forwarding \cup {"closed", "dropped"} => got'[r] = <<>>
        /\ pc'[r] \in Forwarding \cup {"closed", "dropped"} =>
              reply'[r] = <<r, hStatus'[r]>> /\ h'[r] \notin Unanswered
        /\ pc'[r] = "closed" =>
              \/ h'[r] = "done" /\ Len(got'[r]) = resSent'[r]
              \/ h'[r] \in {"broken", "aborted"}
        /\ h'[r] \in Unanswered => resSent'[r] = 0
    BY <1>1 DEF ResOrder
  <2> QED  BY <2>1, <2>2, <2>3, <2>4 DEF ResOrder
<1>9. CASE Live(r)
  <2> DEFINE S == ResFrames(r)
             P == ResPos(r)
             p == ResRead(r)
             t == ResSent(r)
  <2>1. /\ P[f] = p + 1 /\ p + 1 <= t
        /\ InLine(toProxy', S, P, p + 1, t)
        /\ link = "up" /\ h[r] \notin TaskOver => Full(toProxy', S, P, p + 1, t)
    <3>1. InLine(toProxy, S, P, p, t)
      BY <1>9 DEF ResOrder
    <3>2. link = "up" /\ h[r] \notin TaskOver => Full(toProxy, S, P, p, t)
      BY <1>9 DEF ResOrder
    <3>3. P \in [Frame -> Nat] /\ p \in Nat /\ t \in Nat /\ Head(toProxy) \in S
      BY <1>7
    <3> HIDE DEF S, P, p, t
    <3>4. /\ P[Head(toProxy)] = p + 1 /\ p + 1 <= t
          /\ InLine(Tail(toProxy), S, P, p + 1, t)
          /\ Full(toProxy, S, P, p, t) => Full(Tail(toProxy), S, P, p + 1, t)
      BY <1>1, <1>4, <3>1, <3>3, TailNext
    <3> QED  BY <1>1, <3>2, <3>4 DEF f
  <2>2. pc[r] \notin Early
    <3>1. t # 0
      BY <1>7, <2>1
    <3>2. h[r] # "none"
      BY <3>1 DEF ResSent, Unanswered
    <3>3. ReqTaken(r) = reqLen[r] + 2 /\ reqLen[r] \in Nat
      BY <3>2 DEF ReqTaken, TypeOK
    <3>4. ReqTaken(r) <= ReqSent(r)
      BY ReqBound
    <3>5. ReqSent(r) \in Nat /\ ReqSent(r) # 0
      BY <3>3, <3>4, PositionTypes
    <3> QED  BY <3>5 DEF ReqSent, Early
  <2>3. pending[i] = r /\ pc[r] \notin Finished
    BY <1>9, <2>2 DEF Live, Early
  <2>4. events'[r] = Append(q, f)
    <3>1. Target(f) = r
      BY <1>3, <2>3 DEF Target
    <3> QED  BY <1>1, <1>3, <1>4, <2>3, <3>1 DEF Delivered
  <2>5. /\ Len(q) \in Nat /\ Len(events'[r]) = Len(q) + 1
        /\ \A k \in 1..Len(q) : events'[r][k] = q[k]
        /\ events'[r][Len(q) + 1] = f
    BY <1>3, <1>4, <2>4, AppendProperties, LenProperties
  <2>6. ResRead(r)' = p + 1
    BY <1>7, <2>5 DEF ResRead
  <2>7. \A k \in 1..Len(events'[r]) :
            events'[r][k] \in ResFrames(r) /\ ResPos(r)[events'[r][k]] = Given(r) + k
    <3> TAKE k \in 1..Len(events'[r])
    <3>1. CASE k \in 1..Len(q)
      BY <2>5, <3>1 DEF ResOrder
    <3>2. CASE k = Len(q) + 1
      <4>1. p = Given(r) + Len(q)
        BY DEF ResRead
      <4>2. P[f] = Given(r) + k
        BY <1>7, <2>1, <2>5, <3>2, <4>1
      <4> QED  BY <1>4, <2>5, <3>2, <4>2
    <3> QED  BY <2>5, <3>1, <3>2
  <2>8. pending'[i] # r =>
            events'[r] # <<>> /\ events'[r][Len(events'[r])].type \in {"ResEnd", "Error"}
    <3>1. events'[r] # <<>>
      BY <2>5, EmptySeq
    <3> QED  BY <1>5, <2>3, <2>5, <3>1
  <2>9. pc[r] \notin Finished \cup {"idle", "collect", "register"}
    BY <2>2, <2>3 DEF Early
  <2>10. /\ InLine(toProxy', ResFrames(r), ResPos(r), ResRead(r)', ResSent(r))
         /\ link = "up" /\ h[r] \notin TaskOver =>
               Full(toProxy', ResFrames(r), ResPos(r), ResRead(r)', ResSent(r))
         /\ ResRead(r)' <= ResSent(r)
    BY <2>1, <2>6
  <2> HIDE DEF i, q, S, P, p, t
  <2> QED  BY Zenon, <1>6, <1>8, <2>7, <2>8, <2>9, <2>10
<1>10. CASE ~ Live(r)
  <2>1. pc[r] \notin {"collect", "register"} /\ (pending[i] = r => pc[r] \in Finished)
    BY <1>10 DEF Live
  <2>2. events'[r] = events[r]
    <3>1. Target(f) \in {r, NoReq} /\ (Target(f) = r => pc[r] \in Finished)
      BY <1>3, <2>1 DEF Target
    <3> QED  BY <1>1, <1>3, <1>4, <3>1 DEF Delivered
  <2>3. ~ Live(r)'
    BY <1>1, <1>3, <1>5, <2>1 DEF Live
  <2>4. ResRead(r)' = ResRead(r)
    BY <1>7, <2>2 DEF ResRead
  <2>5. pc[r] \in Sending \cup Forwarding => pending[i] # r
    BY <2>1 DEF Sending, Forwarding, Finished
  <2>6. /\ \A k \in 1..Len(events'[r]) :
              events'[r][k] \in ResFrames(r) /\ ResPos(r)[events'[r][k]] = Given(r) + k
        /\ pc[r] \notin Finished => ResRead(r)' <= ResSent(r)
        /\ pc[r] \in Finished \cup {"idle", "collect", "register"} => events'[r] = <<>>
    BY <2>2, <2>4 DEF ResOrder
  <2>7. pc[r] \in Sending \cup Forwarding =>
            events'[r] # <<>> /\ events'[r][Len(events'[r])].type \in {"ResEnd", "Error"}
    BY <2>2, <2>5 DEF ResOrder
  <2> HIDE DEF i, q
  <2> QED  BY Zenon, <1>6, <1>8, <2>3, <2>6, <2>7
<1> QED  BY <1>6, <1>9, <1>10

(* The end of a request starts its task; its other frames start nothing.   *)
LEMMA ResServed ==
    ASSUME TypeOK, TypeOK', RoutedById, NEW r \in Requests, UniqueId(r),
           ReqOrder(r), ResOrder(r), Serve, Head(toServe) \in ReqFrames(r)
    PROVE  /\ ResOrder(r)' /\ {h[r], h'[r]} \subseteq Unanswered
           /\ UNCHANGED <<pc, sid, link, pending, events, toProxy>>
<1> USE DEF handlerVars, clientVars, serveVars, taskVars
<1> DEFINE f == Head(toServe)
<1>1. toServe # <<>> /\ f.type \in ReqTypes /\ toServe \in Seq(Frame)
  BY DEF Serve, ServeNext, ServeHeaders, ServeBody, ServeEnd, ServePongs, ServeIgnores,
         ReqFrames, TypeOK
<1>2. h[r] = "none"
  <2>1. InLine(toServe, ReqFrames(r), ReqPos(r), ReqTaken(r), ReqSent(r))
    BY DEF ReqOrder
  <2>2. ReqTaken(r) + 1 <= ReqSent(r)
    BY <1>1, <2>1, PositionTypes, TailNext
  <2>3. h[r] # "none" => ReqTaken(r) = reqLen[r] + 2
    BY DEF ReqTaken
  <2>4. ReqTaken(r) \in Nat /\ ReqSent(r) \in Nat /\ reqLen[r] \in Nat
    <3>1. reqLen[r] \in Nat
      BY DEF TypeOK
    <3> QED  BY <3>1, PositionTypes
  <2> QED  BY <2>2, <2>3, <2>4, ReqBound
<1>3. f.id = sid[r] /\ srvReq[sid[r]] \in {r, NoReq} /\ f \in Frame
  <2>1. f \in OwnFrame /\ f.req = r /\ f.type \notin KeepaliveTypes
    BY <1>1, SequenceTypes DEF RoutedById, ReqFrames, ReqTypes, KeepaliveTypes
  <2>2. f \in Frame
    BY DEF ReqFrames
  <2> HIDE DEF f
  <2> QED  BY <2>1, <2>2, OwnPlaces
<1>4. ~ ServePongs /\ ~ ServeIgnores
  BY <1>1 DEF ServePongs, ServeIgnores, ServeNext, ReqTypes, ResTypes
<1> HIDE DEF f
<1>5. ProxyGoesOn(r) /\ UNCHANGED <<pc, sid, link, pending, events, hStatus, resSent, toProxy>>
  BY <1>4 DEF Serve, ServeHeaders, ServeBody, ServeEnd, ProxyGoesOn
<1>6. h'[r] \in {"none", "upstream"}
  <2>1. CASE ServeHeaders \/ ServeBody
    BY <1>2, <2>1 DEF ServeHeaders, ServeBody
  <2>2. CASE ServeEnd
    <3>1. \/ h' = h
          \/ h' = [h EXCEPT ![srvReq[f.id]] = "upstream"]
      BY <2>2 DEF ServeEnd, f
    <3>2. h \in [Requests -> {"none", "upstream"} \cup TaskSending \cup TaskOver]
      BY DEF TypeOK
    <3> QED  BY <1>2, <3>1, <3>2
  <2> QED  BY <1>4, <2>1, <2>2 DEF Serve
<1>7. ResOrder(r)'
  BY <1>2, <1>5, <1>6, ResUnanswered DEF Unanswered
<1> QED  BY <1>2, <1>5, <1>6, <1>7 DEF Unanswered

-----------------------------------------------------------------------------
(***************************************************************************)
(* The invariant.                                                          *)
(***************************************************************************)
(* An id, once given, stays; nothing of a request moves before its id.     *)
Onward(r) ==
    /\ Accept(r) \/ ((pc'[r] = "idle" <=> pc[r] = "idle") /\ sid'[r] = sid[r])
    /\ pc'[r] \in Early => pc[r] \in Early /\ sent'[r] = sent[r]
    /\ h[r] = "none" => resSent'[r] = resSent[r]

LEMMA OnwardStep ==
    ASSUME TypeOK, NEW r \in Requests, [Next]_vars
    PROVE  Onward(r)
<1> USE DEF handlerVars, clientVars, serveVars, taskVars
<1>1. CASE UNCHANGED vars
  BY <1>1 DEF vars, Onward
<1>2. CASE Reader \/ Serve \/ ServeExit \/ SendPing \/ LinkFails
  <2>1. UNCHANGED <<pc, sid, sent, resSent>>
    BY <1>2 DEF Reader, ReaderRoutes, ReaderEnds, ReaderPongs, ReaderIgnores, Serve,
                ServeHeaders, ServeBody, ServeEnd, ServePongs, ServeIgnores, ServeExit,
                SendPing, LinkFails
  <2> QED  BY <2>1 DEF Onward
<1>3. ASSUME NEW q \in Requests,
             Client(q) \/ Handler(q) \/ Forwarder(q) \/ Upstream(q) \/ Task(q)
      PROVE  Onward(r)
  <2>1. CASE Accept(q)
    <3>1. resSent' = resSent /\ sent' = sent /\ pc[q] = "idle"
      BY <2>1 DEF Accept
    <3>2. CASE q = r
      BY <2>1, <3>1, <3>2 DEF Onward, Early
    <3>3. CASE q # r
      <4>1. pc'[r] = pc[r] /\ sid'[r] = sid[r]
        BY <2>1, <3>3 DEF Accept, TypeOK
      <4> QED  BY <3>1, <4>1 DEF Onward
    <3> QED  BY <3>2, <3>3
  <2>2. CASE Collect(q)
    BY SMTT(30), <2>2 DEF Collect, Onward, Early, TypeOK
  <2>3. CASE CollectFails(q)
    BY <2>3 DEF CollectFails, Onward, Early, TypeOK
  <2>4. CASE HangUp(q)
    BY SMTT(30), <2>4 DEF HangUp, Onward, Early, TypeOK, Waiting
  <2>5. CASE Register(q)
    BY <2>5 DEF Register, Onward, Early, TypeOK
  <2>6. CASE SendHeaders(q)
    BY <2>6 DEF SendHeaders, Onward, Early, TypeOK
  <2>7. CASE SendHeadersFails(q)
    BY <2>7 DEF SendHeadersFails, Onward, Early, TypeOK
  <2>8. CASE SendBody(q)
    BY <2>8 DEF SendBody, Onward, Early, TypeOK
  <2>9. CASE SendBodyFails(q)
    BY <2>9 DEF SendBodyFails, Onward, Early, TypeOK
  <2>10. CASE SendEnd(q)
    BY <2>10 DEF SendEnd, Onward, Early, TypeOK
  <2>11. CASE AwaitHeaders(q)
    BY <2>11 DEF AwaitHeaders, Onward, Early, TypeOK
  <2>12. CASE AwaitSkipsBody(q)
    BY <2>12 DEF AwaitSkipsBody, Onward, Early, TypeOK
  <2>13. CASE AwaitFails(q)
    BY <2>13 DEF AwaitFails, Onward, Early, TypeOK
  <2>14. CASE AwaitTimesOut(q)
    BY <2>14 DEF AwaitTimesOut, Onward, Early, TypeOK
  <2>15. CASE Cleanup(q)
    BY <2>15 DEF Cleanup, Onward, Early, TypeOK
  <2>16. CASE ForwardBody(q)
    BY <2>16 DEF ForwardBody, Onward, Early, TypeOK, Forwarding
  <2>17. CASE ForwardToNobody(q)
    BY <2>17 DEF ForwardToNobody, Onward, Early, TypeOK, Forwarding
  <2>18. CASE ForwardSkipsHeaders(q)
    BY <2>18 DEF ForwardSkipsHeaders, Onward, Early, TypeOK, Forwarding
  <2>19. CASE ForwardEnds(q)
    BY <2>19 DEF ForwardEnds, Onward, Early, TypeOK, Forwarding
  <2>20. CASE UpstreamAnswers(q)
    BY <2>20 DEF UpstreamAnswers, Onward, Early, TypeOK
  <2>21. CASE UpstreamFails(q)
    BY <2>21 DEF UpstreamFails, Onward, Early, TypeOK
  <2>22. CASE TaskSendsHeaders(q)
    BY <2>22 DEF TaskSendsHeaders, Onward, Early, TypeOK
  <2>23. CASE TaskSendsBody(q)
    BY <2>23 DEF TaskSendsBody, Onward, Early, TypeOK
  <2>24. CASE TaskSendsError(q)
    BY <2>24 DEF TaskSendsError, Onward, Early, TypeOK
  <2>25. CASE TaskSendsEnd(q)
    BY <2>25 DEF TaskSendsEnd, Onward, Early, TypeOK
  <2>26. CASE TaskSendFails(q)
    BY <2>26 DEF TaskSendFails, Onward, Early, TypeOK, TaskSending
  <2> QED
    BY <1>3, <2>1, <2>2, <2>3, <2>4, <2>5, <2>6, <2>7, <2>8, <2>9, <2>10, <2>11, <2>12, <2>13, <2>14, <2>15, <2>16, <2>17, <2>18, <2>19, <2>20, <2>21, <2>22, <2>23, <2>24, <2>25, <2>26
       DEF Client, Handler, Forwarder, Upstream, Task
<1> QED  BY <1>1, <1>2, <1>3 DEF Next

(* A unique id was unique before: ids are only added.                      *)
LEMMA UniqueBefore ==
    ASSUME TypeOK, [Next]_vars, NEW r \in Requests, UniqueId(r)', ~ Accept(r)
    PROVE  UniqueId(r)
<1>1. \A q \in Requests : Onward(q)
  BY OnwardStep
<1>2. pc[r] # "idle" /\ sid'[r] = sid[r]
  BY <1>1 DEF Onward, UniqueId
<1>3. ASSUME NEW q \in Requests \ {r}, pc[q] # "idle" PROVE sid[q] # sid[r]
  <2>1. pc'[q] # "idle" /\ sid'[q] = sid[q]
    BY <1>1, <1>3 DEF Onward, Accept
  <2> QED  BY <1>2, <2>1 DEF UniqueId
<1> QED  BY <1>2, <1>3 DEF UniqueId

LEMMA AcceptFresh ==
    ASSUME TypeOK, RoutedById, NEW r \in Requests, Accept(r)
    PROVE  /\ pc'[r] = "collect" /\ sid'[r] = nextId /\ Blank(r)
           /\ UNCHANGED <<sent, reqLen, clientVars, events, pending, toServe, toProxy, link,
                          serveVars, taskVars>>
           /\ \A k \in 1..Len(toServe) : toServe[k] \notin ReqFrames(r)
           /\ \A k \in 1..Len(toProxy) : toProxy[k] \notin ResFrames(r)
           /\ srvReq[nextId] # r /\ pending[nextId] # r
<1> USE DEF handlerVars, clientVars, serveVars, taskVars
<1>1. /\ pc[r] = "idle" /\ pc'[r] = "collect" /\ sid'[r] = nextId /\ nextId \in Ids
      /\ UNCHANGED <<sent, reqLen, clientVars, events, pending, toServe, toProxy, link,
                     serveVars, taskVars>>
  BY DEF Accept, TypeOK
<1>2. Blank(r)
  BY <1>1 DEF RoutedById, RequestRouted
<1>3. \A f \in OwnFrame : f \notin ReqFrames(r) /\ f \notin ResFrames(r)
  <2> SUFFICES ASSUME NEW f \in OwnFrame, f.req = r, f.type \in ReqTypes \cup ResTypes
               PROVE  FALSE
    BY DEF ReqFrames, ResFrames
  <2>1. f.type \notin KeepaliveTypes
    BY DEF ReqTypes, ResTypes, KeepaliveTypes
  <2> QED  BY <1>1, <2>1 DEF OwnFrame, On
<1>4. /\ \A k \in 1..Len(toServe) : toServe[k] \notin ReqFrames(r)
      /\ \A k \in 1..Len(toProxy) : toProxy[k] \notin ResFrames(r)
  <2>1. toServe \in Seq(OwnFrame) /\ toProxy \in Seq(OwnFrame)
    BY DEF RoutedById
  <2> QED  BY <1>3, <2>1
<1>5. srvReq[nextId] # r /\ pending[nextId] # r
  <2>1. {srvReq[nextId], pending[nextId]} \subseteq On(nextId) \cup {NoReq} /\ r \notin On(nextId)
    BY <1>1 DEF RoutedById, IdRouted, On
  <2> QED  BY <2>1, NoReqAssumption
<1> QED  BY <1>1, <1>2, <1>4, <1>5

(* A request starts with nothing in transit and nothing given to it.       *)
LEMMA AcceptOrder ==
    ASSUME TypeOK, TypeOK', RoutedById, NEW r \in Requests, Accept(r),
           sent[r] = 0, resSent[r] = 0
    PROVE  ReqOrder(r)' /\ ResOrder(r)'
<1> USE DEF handlerVars, clientVars, serveVars, taskVars
<1>1. /\ pc'[r] = "collect" /\ sid'[r] = nextId
      /\ UNCHANGED <<sent, reqLen, clientVars, events, toServe, toProxy, serveVars, taskVars>>
  BY AcceptFresh
<1>2. Blank(r)
  BY AcceptFresh
<1>4. /\ \A k \in 1..Len(toServe') : toServe'[k] \notin ReqFrames(r)
      /\ \A k \in 1..Len(toProxy') : toProxy'[k] \notin ResFrames(r)
  BY <1>1, AcceptFresh
<1>5. srvReq[nextId] # r
  BY AcceptFresh
<1>6. Len(<<>>) = 0 /\ Chunks(r, 0) = <<>> /\ 1..0 = {}
  BY DEF Chunks
<1>7. ReqTaken(r)' = 0 /\ ReqSent(r)' = 0
  BY <1>1, <1>2, <1>5 DEF ReqTaken, ReqSent, Early, Blank
<1>8. ResSent(r)' = 0 /\ Given(r)' = 0 /\ ResRead(r)' = 0
  BY <1>1, <1>2, <1>6 DEF ResSent, Given, ResRead, Blank, Unanswered, Forwarding
<1>9. ReqOrder(r)'
  <2>1. /\ InLine(toServe', ReqFrames(r), ReqPos(r)', ReqTaken(r)', ReqSent(r)')
        /\ Full(toServe', ReqFrames(r), ReqPos(r)', ReqTaken(r)', ReqSent(r)')
    <3>1. /\ InLine(toServe', ReqFrames(r), ReqPos(r)', 0, 0)
          /\ Full(toServe', ReqFrames(r), ReqPos(r)', 0, 0)
      BY <1>4 DEF InLine, InPlace, Full
    <3> QED  BY <1>7, <3>1
  <2> QED  BY <1>1, <1>2, <1>5, <2>1 DEF ReqOrder, Blank
<1>10. ResOrder(r)'
  <2>1. /\ InLine(toProxy', ResFrames(r), ResPos(r)', ResRead(r)', ResSent(r)')
        /\ Full(toProxy', ResFrames(r), ResPos(r)', ResRead(r)', ResSent(r)')
    <3>1. /\ InLine(toProxy', ResFrames(r), ResPos(r)', 0, 0)
          /\ Full(toProxy', ResFrames(r), ResPos(r)', 0, 0)
      BY <1>4 DEF InLine, InPlace, Full
    <3> QED  BY <1>8, <3>1
  <2>2. pc'[r] \notin Sending \cup Forwarding \cup {"closed", "dropped"}
    BY <1>1 DEF Sending, Forwarding
  <2>3. events'[r] = <<>> /\ got'[r] = <<>> /\ resSent'[r] = 0
    BY <1>1, <1>2 DEF Blank
  <2> QED  BY <1>1, <1>6, <1>8, <2>1, <2>2, <2>3 DEF ResOrder
<1> QED  BY <1>9, <1>10

LEMMA InitOrder == Init => OrderInv
BY DEF Init, OrderInv, UniqueId, Early

LEMMA NextOrder ==
    TypeOK /\ TypeOK' /\ RoutedById /\ OrderInv /\ [Next]_vars => OrderInv'
<1> SUFFICES ASSUME TypeOK, TypeOK', RoutedById, OrderInv, [Next]_vars, NEW r \in Requests
             PROVE  /\ pc'[r] \in Early => sent'[r] = 0
                    /\ pc'[r] = "idle" => resSent'[r] = 0
                    /\ UniqueId(r)' => ReqOrder(r)' /\ ResOrder(r)'
  BY DEF OrderInv
<1>1. \A q \in Requests : Onward(q)
  BY OnwardStep
<1>2. /\ pc[r] \in Early => sent[r] = 0
      /\ pc[r] = "idle" => resSent[r] = 0
      /\ UniqueId(r) => ReqOrder(r) /\ ResOrder(r)
  BY DEF OrderInv
<1>3. pc'[r] \in Early => sent'[r] = 0
  BY <1>1, <1>2 DEF Onward
<1>4. pc'[r] = "idle" => resSent'[r] = 0
  <2>1. pc[r] = "idle" => h[r] = "none"
    BY DEF RoutedById, RequestRouted, Blank
  <2>2. pc'[r] = "idle" => pc[r] = "idle"
    BY <1>1 DEF Onward, Accept, TypeOK
  <2> QED  BY <1>1, <1>2, <2>1, <2>2 DEF Onward
<1>5. ASSUME UniqueId(r)' PROVE ReqOrder(r)' /\ ResOrder(r)'
  <2>1. CASE Accept(r)
    BY <1>2, <2>1, AcceptOrder DEF Accept, Early
  <2>2. CASE ~ Accept(r)
    <3>1. UniqueId(r)
      BY <1>5, <2>2, UniqueBefore
    <3>2. ReqOrder(r) /\ ResOrder(r) /\ pc[r] # "idle"
      BY <1>2, <3>1 DEF UniqueId
    <3>3. CASE Client(r) \/ Handler(r) \/ Forwarder(r) \/ Upstream(r) \/ Task(r)
      BY <1>2, <3>2, <3>3, ReqOwn, ResOwn, ResTask
    <3>4. ASSUME NEW q \in Requests \ {r},
                 Client(q) \/ Handler(q) \/ Forwarder(q) \/ Upstream(q) \/ Task(q)
          PROVE  ReqOrder(r)' /\ ResOrder(r)'
      BY <3>1, <3>2, <3>4, OtherRequest, OtherKeeps
    <3>5. CASE Reader /\ Head(toProxy) \in ResFrames(r)
      BY <3>1, <3>2, <3>5, ResRouted
    <3>6. CASE Serve /\ Head(toServe) \in ReqFrames(r)
      BY <3>1, <3>2, <3>6, ReqServed, ResServed
    <3>7. CASE \/ Reader /\ Head(toProxy) \notin ResFrames(r)
               \/ Serve /\ Head(toServe) \notin ReqFrames(r)
               \/ ServeExit \/ SendPing \/ LinkFails \/ UNCHANGED vars
      BY <3>1, <3>2, <3>7, OtherSteps, OtherKeeps
    <3> QED  BY <3>3, <3>4, <3>5, <3>6, <3>7 DEF Next
  <2> QED  BY <2>1, <2>2
<1> QED  BY <1>3, <1>4, <1>5

LEMMA OrderHolds == Spec => [](TypeOK /\ OrderInv)
<1>1. Init => TypeOK /\ RoutedById /\ OrderInv
  BY InitType, InitRouted, InitOrder
<1>2. TypeOK /\ RoutedById /\ OrderInv /\ [Next]_vars => TypeOK' /\ RoutedById' /\ OrderInv'
  BY NextType, NextRouted, NextOrder
<1> QED  BY <1>1, <1>2, PTL DEF Spec

-----------------------------------------------------------------------------
(* The upstream is called with the request body whole and in order, on a   *)
(* link that may fail between any two chunks and although the proxy sends  *)
(* ReqEnd after a chunk it could not send (proxy.rs:316-333).              *)
THEOREM RequestsArriveWhole == Spec => []RequestWhole
<1>1. TypeOK /\ OrderInv => RequestWhole
  BY DEF OrderInv, ReqOrder, RequestWhole
<1> QED  BY <1>1, OrderHolds, PTL

(* A client is given the chunks its serve task sent, in order and without  *)
(* a gap, after the headers of that same response.                         *)
THEOREM ResponsesInOrder == Spec => []ResponsePrefix
<1>1. TypeOK /\ OrderInv => ResponsePrefix
  <2> SUFFICES ASSUME TypeOK, OrderInv, NEW r \in Requests, UniqueId(r)
               PROVE  /\ got[r] = Chunks(r, Len(got[r]))
                      /\ Len(got[r]) <= resSent[r]
                      /\ got[r] # <<>> => reply[r] = <<r, hStatus[r]>>
    BY DEF ResponsePrefix
  <2> QED  BY DEF OrderInv, ResOrder
<1> QED  BY <1>1, OrderHolds, PTL

(* Response headers are sent exactly once and first (proxy.rs:28): they    *)
(* head the event channel until the handler takes them, and never come     *)
(* again.                                                                  *)
THEOREM HeadersLead == Spec => []HeadersFirst
<1>1. TypeOK /\ OrderInv => HeadersFirst
  <2> SUFFICES ASSUME TypeOK, OrderInv, NEW r \in Requests, UniqueId(r),
                      NEW k \in DOMAIN events[r]
               PROVE  events[r][k].type = "ResHeaders" <=> k = 1 /\ pc[r] \notin Forwarding
    BY DEF HeadersFirst
  <2> DEFINE e == events[r][k]
             n == resSent[r]
             g == Len(got[r])
  <2>1. ResOrder(r)
    BY DEF OrderInv
  <2>2. k \in 1..Len(events[r]) /\ Len(events[r]) \in Nat /\ e \in Frame /\ e.n \in Nat
        /\ n \in Nat /\ g \in Nat
    <3>1. events[r] \in Seq(Frame) /\ got[r] \in Seq(Chunk) /\ n \in Nat
      BY DEF TypeOK
    <3>2. k \in 1..Len(events[r]) /\ Len(events[r]) \in Nat /\ e \in Frame /\ g \in Nat
      BY <3>1, LenProperties
    <3> QED  BY <3>1, <3>2 DEF Frame
  <2>3. e.type \in ResTypes /\ ResPos(r)[e] = Given(r) + k
    BY <2>1, <2>2 DEF ResOrder, ResFrames
  <2>4. pc[r] \notin Finished
    <3>1. events[r] # <<>>
      BY <2>2
    <3> QED  BY <2>1, <3>1 DEF ResOrder
  <2>5. Given(r) + k <= n + 3
    <3>1. Given(r) + Len(events[r]) <= ResSent(r) /\ ResSent(r) <= n + 3
      BY <2>1, <2>4, ResBound DEF ResOrder, ResRead
    <3> QED  BY <2>2, <3>1, PositionTypes
  <2>6. Given(r) = IF pc[r] \in Forwarding THEN g + 1 ELSE 0
    BY DEF Given
  <2>7. /\ e.type = "ResHeaders" => ResPos(r)[e] = IF e.n = hStatus[r] THEN 1 ELSE n + 4
        /\ e.type = "ResBody" => ResPos(r)[e] = IF e.n \in 1..n THEN e.n + 1 ELSE n + 4
        /\ e.type = "Error" => ResPos(r)[e] = n + IF h[r] \in {"broken", "aborted"} THEN 2 ELSE 4
        /\ e.type = "ResEnd" => ResPos(r)[e] = n + IF h[r] = "done" THEN 2 ELSE 3
    BY <2>2, ResPosition
  <2>8. e.type \in {"ResHeaders", "ResBody", "ResEnd", "Error"}
    BY <2>3 DEF ResTypes
  <2> HIDE DEF e, n, g
  <2>9. e.type = "ResHeaders" <=> ResPos(r)[e] = 1
    BY <2>2, <2>3, <2>5, <2>7, <2>8
  <2>10. ResPos(r)[e] = 1 <=> k = 1 /\ pc[r] \notin Forwarding
    BY <2>2, <2>3, <2>6
  <2> QED  BY <2>9, <2>10 DEF e
<1> QED  BY <1>1, OrderHolds, PTL

(* A body that ends before the upstream's own end was cut by the upstream: *)
(* no loss of the link and no other stream ends it.                        *)
THEOREM EndsAreReal == Spec => []NoEarlyEnd
<1>1. TypeOK /\ OrderInv => NoEarlyEnd
  <2> SUFFICES ASSUME TypeOK, OrderInv, NEW r \in Requests, UniqueId(r), pc[r] = "closed"
               PROVE  \/ h[r] = "done" /\ got[r] = Chunks(r, resSent[r])
                      \/ h[r] \in {"broken", "aborted"}
    BY DEF NoEarlyEnd
  <2> QED  BY DEF OrderInv, ResOrder
<1> QED  BY <1>1, OrderHolds, PTL

=============================================================================
