-------------------------- MODULE ForwardingProofs --------------------------
(***************************************************************************)
(* What Forwarding does to headers and paths of any length, with options   *)
(* of any length, proved.                                                  *)
(***************************************************************************)
EXTENDS Forwarding, Integers, SequenceTheorems, WellFoundedInduction, TLAPS

(* A set of numbers has a least one.                                       *)
LEMMA LeastOf ==
    ASSUME NEW T \in SUBSET Nat, T # {}
    PROVE  \E m \in T : \A k \in T : m <= k
<1> DEFINE less == {p \in Nat \X Nat : p[1] < p[2]}
<1>1. IsWellFoundedOn(less, Nat)
    BY NatLessThanWellFounded, Zenon DEF OpToRel
<1>2. \A k, m \in Nat : k < m => <<k, m>> \in less
    OBVIOUS
<1> HIDE DEF less
<1>3. PICK m \in T : \A k \in T : <<k, m>> \notin less
    BY <1>1, WFMin
<1>4. ASSUME NEW k \in T PROVE m <= k
  <2>1. k \in Nat /\ m \in Nat
    OBVIOUS
  <2>2. ~(k < m)
    BY <1>2, <1>3, <2>1, Zenon
  <2> QED
    BY <2>1, <2>2
<1> QED
    BY <1>4

(* So a set of places of a list has a last one.                            *)
LEMMA LastOf ==
    ASSUME NEW n \in Nat, NEW T \in SUBSET 1..n, T # {}
    PROVE  \E m \in T : \A k \in T : k <= m
<1> DEFINE gaps == {n - i : i \in T}
<1>1. \A i \in T : n - i \in Nat
    OBVIOUS
<1>2. gaps \in SUBSET Nat /\ gaps # {}
    BY <1>1
<1>3. PICK g \in gaps : \A k \in gaps : g <= k
    BY <1>2, LeastOf
<1>4. PICK m \in T : g = n - m
    OBVIOUS
<1>5. ASSUME NEW k \in T PROVE k <= m
  <2>1. n - k \in gaps
    OBVIOUS
  <2> QED
    BY <1>3, <1>4, <2>1
<1> QED
    BY <1>5

-----------------------------------------------------------------------------
(* A list of headers has places from 1 on, with a name and a value each.   *)
LEMMA HeadersAreLists ==
    ASSUME NEW h \in HeaderLists
    PROVE  /\ \E n \in Nat : DOMAIN h = 1..n
           /\ \A i \in DOMAIN h : h[i] = <<h[i][1], h[i][2]>>
<1>1. PICK n \in 0..MaxHeaders : h \in [1..n -> Names \X Values]
    BY DEF HeaderLists
<1>2. n \in Nat
    BY ForwardingBounds
<1> QED
    BY <1>1, <1>2

(* The map has the names at the places it is made from, each with a value  *)
(* that came under it.                                                     *)
LEMMA MapOfProperties ==
    ASSUME NEW h \in HeaderLists, NEW S \in SUBSET DOMAIN h
    PROVE  /\ DOMAIN MapOf(h, S) = {h[i][1] : i \in S}
           /\ \A n \in DOMAIN MapOf(h, S) :
                 \E i \in S : h[i][1] = n /\ MapOf(h, S)[n] = h[i][2]
<1>1. DOMAIN MapOf(h, S) = {h[i][1] : i \in S}
    BY DEF MapOf
<1>2. ASSUME NEW n \in DOMAIN MapOf(h, S)
      PROVE  \E i \in S : h[i][1] = n /\ MapOf(h, S)[n] = h[i][2]
  <2> DEFINE same == {i \in S : h[i][1] = n}
             Latest(i) == h[i][1] = n /\ \A j \in S : h[j][1] = n => j <= i
             place == CHOOSE i \in S : Latest(i)
  <2>1. PICK len \in Nat : DOMAIN h = 1..len
      BY HeadersAreLists
  <2>2. same # {}
      BY <1>1, <1>2
  <2>3. \E i \in same : \A j \in same : j <= i
      BY <2>1, <2>2, LastOf
  <2>4. \E i \in S : Latest(i)
      BY <2>3
  <2>5. place \in S /\ Latest(place)
      BY <2>4
  <2>6. MapOf(h, S)[n] = h[place][2]
      BY <1>1, <1>2 DEF MapOf
  <2> QED
      BY <2>5, <2>6
<1> QED
    BY <1>1, <1>2

-----------------------------------------------------------------------------
(* SingleHeadersArrive speaks of both ends of a hop. What the frame has is *)
(* made of what was given at the one end, and what arrives is made of what *)
(* the frame has, so the invariant has the frame in between.               *)
HeadersInv ==
    /\ sent \in HeaderLists
    /\ carried = Collect(sent)
    /\ at = "upstream" => arrived = Without(carried, RequestHopByHop)
    /\ at = "idle" => arrived = Without(carried, ResponseHopByHop)

LEMMA HeadersInvInit == Init => HeadersInv
<1> SUFFICES ASSUME Init PROVE HeadersInv
    OBVIOUS
<1>1. sent \in HeaderLists
  <2>1. <<>> \in [1..0 -> Names \X Values] /\ 0 \in 0..MaxHeaders
    BY ForwardingBounds
  <2> QED
    BY <2>1 DEF Init, HeaderLists
<1>2. carried = Collect(sent)
  <2>1. DOMAIN sent = {}
    BY DEF Init
  <2>2. Collect(sent) = MapOf(sent, {})
    BY <2>1 DEF Collect
  <2>3. MapOf(sent, {}) = NoHeaders
    BY DEF MapOf, NoHeaders
  <2> QED
    BY <2>2, <2>3 DEF Init
<1>3. arrived = Without(carried, ResponseHopByHop)
    BY DEF Init, NoHeaders, Without, Restrict
<1> QED
    BY <1>1, <1>2, <1>3 DEF HeadersInv, Init

LEMMA HeadersInvStep == HeadersInv /\ [Next]_forwardVars => HeadersInv'
<1> SUFFICES ASSUME HeadersInv, [Next]_forwardVars PROVE HeadersInv'
    OBVIOUS
<1>1. CASE ProxyAccepts
    BY <1>1 DEF ProxyAccepts, HeadersInv
<1>2. CASE ServeForwards
    BY <1>2 DEF ServeForwards, HeadersInv
<1>3. CASE ServeAnswers
    BY <1>3 DEF ServeAnswers, HeadersInv
<1>4. CASE ProxyAnswers
    BY <1>4 DEF ProxyAnswers, HeadersInv
<1>5. CASE UNCHANGED forwardVars
    BY <1>5 DEF forwardVars, HeadersInv
<1> QED
    BY <1>1, <1>2, <1>3, <1>4, <1>5 DEF Next

(* Of a header that comes once the map has the value.                      *)
LEMMA CollectKeepsSingles ==
    ASSUME NEW h \in HeaderLists, NEW i \in DOMAIN h, IsText(h[i]),
           \A j \in DOMAIN h : h[j][1] = h[i][1] => j = i
    PROVE  h[i][1] \in DOMAIN Collect(h) /\ Collect(h)[h[i][1]] = h[i][2]
<1> DEFINE S == {j \in DOMAIN h : IsText(h[j])}
<1>1. Collect(h) = MapOf(h, S) /\ i \in S /\ S \in SUBSET DOMAIN h
    BY DEF Collect
<1> HIDE DEF S
<1>2. h[i][1] \in DOMAIN MapOf(h, S)
  <2>1. DOMAIN MapOf(h, S) = {h[j][1] : j \in S}
    BY <1>1, MapOfProperties
  <2> QED
    BY <1>1, <2>1
<1>3. PICK j \in S : h[j][1] = h[i][1] /\ MapOf(h, S)[h[i][1]] = h[j][2]
    BY <1>1, <1>2, MapOfProperties
<1>4. j = i
    BY <1>1, <1>3
<1> QED
    BY <1>1, <1>2, <1>3, <1>4

(* What the map has was in the list.                                       *)
LEMMA CollectInventsNothing ==
    ASSUME NEW h \in HeaderLists, NEW n \in DOMAIN Collect(h)
    PROVE  \E i \in DOMAIN h : h[i] = <<n, Collect(h)[n]>>
<1> DEFINE S == {j \in DOMAIN h : IsText(h[j])}
<1>1. Collect(h) = MapOf(h, S) /\ S \in SUBSET DOMAIN h
    BY DEF Collect
<1> HIDE DEF S
<1>2. n \in DOMAIN MapOf(h, S)
    BY <1>1
<1>3. PICK i \in S : h[i][1] = n /\ MapOf(h, S)[n] = h[i][2]
    BY <1>1, <1>2, MapOfProperties
<1>4. i \in DOMAIN h /\ h[i] = <<h[i][1], h[i][2]>>
    BY <1>1, HeadersAreLists
<1> QED
    BY <1>1, <1>3, <1>4

LEMMA HeadersInvImplies == HeadersInv => SingleHeadersArrive
<1> SUFFICES ASSUME HeadersInv, PassedOn PROVE SingleHeadersArrive
    BY DEF SingleHeadersArrive
<1>1. PICK hop \in {RequestHopByHop, ResponseHopByHop} : arrived = Without(carried, hop)
    BY DEF HeadersInv, PassedOn
<1>2. HopByHop \subseteq hop /\ hop \subseteq RequestHopByHop
    BY DEF HopByHop, RequestHopByHop, ResponseHopByHop
<1>3. /\ DOMAIN arrived = DOMAIN carried \ hop
      /\ \A n \in DOMAIN arrived : arrived[n] = carried[n]
    BY <1>1 DEF Without, Restrict
<1>4. ASSUME NEW i \in DOMAIN sent,
             IsText(sent[i]), sent[i][1] \notin RequestHopByHop, Given(sent[i][1]) = {i}
      PROVE  sent[i][1] \in DOMAIN arrived /\ arrived[sent[i][1]] = sent[i][2]
  <2>1. \A j \in DOMAIN sent : sent[j][1] = sent[i][1] => j = i
    BY <1>4 DEF Given
  <2>2. sent[i][1] \in DOMAIN carried /\ carried[sent[i][1]] = sent[i][2]
    BY <1>4, <2>1, CollectKeepsSingles DEF HeadersInv
  <2> QED
    BY <1>2, <1>3, <1>4, <2>2
<1>5. ASSUME NEW n \in DOMAIN arrived
      PROVE  n \notin HopByHop /\ \E i \in Given(n) : sent[i] = <<n, arrived[n]>>
  <2>1. n \in DOMAIN Collect(sent) /\ arrived[n] = Collect(sent)[n] /\ n \notin HopByHop
    BY <1>2, <1>3, <1>5 DEF HeadersInv
  <2>2. PICK i \in DOMAIN sent : sent[i] = <<n, Collect(sent)[n]>>
    BY <2>1, CollectInventsNothing DEF HeadersInv
  <2>3. i \in Given(n)
    BY <2>2 DEF Given
  <2> QED
    BY <2>1, <2>2, <2>3
<1> QED
    BY <1>4, <1>5 DEF SingleHeadersArrive

(* The header loops of serve.rs and proxy.rs pass on every header that     *)
(* comes once, is text and is not for one hop, in both directions, and     *)
(* make none up, however many there are and whatever they are called.      *)
THEOREM HeadersPassedOn == Spec => []SingleHeadersArrive
<1>1. Init => HeadersInv
    BY HeadersInvInit
<1>2. HeadersInv /\ [Next]_forwardVars => HeadersInv'
    BY HeadersInvStep
<1>3. HeadersInv => SingleHeadersArrive
    BY HeadersInvImplies
<1> QED
    BY <1>1, <1>2, <1>3, PTL DEF Spec

-----------------------------------------------------------------------------
(* The letters of a text without the slashes at its end are a text too.    *)
LEMMA TrimEndIsText ==
    ASSUME NEW S, NEW t \in Seq(S)
    PROVE  /\ TrimEnd(t) \in Seq(S)
           /\ TrimEnd(t) = <<>> \/ Last(TrimEnd(t)) # "/"
           /\ \A i \in (Len(TrimEnd(t)) + 1)..Len(t) : t[i] = "/"
<1> DEFINE Slashes(n) == \A i \in (n + 1)..Len(t) : t[i] = "/"
           ends == {n \in 0..Len(t) : Slashes(n)}
           Trimmed(p) == (p = <<>> \/ Last(p) # "/") /\ Slashes(Len(p))
<1>1. Len(t) \in Nat /\ ends \in SUBSET Nat /\ Len(t) \in ends
    BY LenProperties
<1>2. PICK n \in ends : \A k \in ends : n <= k
    BY <1>1, LeastOf
<1> DEFINE p == SubSeq(t, 1, n)
<1>3. p \in Seq(S) /\ Len(p) = n /\ \A i \in 1..n : p[i] = t[i]
    BY <1>1, <1>2, SubSeqProperties
<1>4. p = <<>> \/ Last(p) # "/"
  <2> SUFFICES ASSUME p # <<>>, Last(p) = "/" PROVE FALSE
    OBVIOUS
  <2>1. n > 0
    BY <1>1, <1>3, EmptySeq
  <2>2. t[n] = "/"
    BY <1>3, <2>1 DEF Last
  <2>3. n - 1 \in 0..Len(t) /\ Slashes(n - 1)
    BY <1>1, <2>1, <2>2
  <2>4. n - 1 \in ends
    BY <2>3
  <2>5. n <= n - 1
    BY <1>2, <2>4
  <2> QED
    BY <1>1, <1>2, <2>5
<1>5. Trimmed(p)
    BY <1>2, <1>3, <1>4
<1>6. \E q \in {SubSeq(t, 1, m) : m \in 0..Len(t)} : Trimmed(q)
    BY <1>2, <1>5
<1>7. TrimEnd(t) \in {SubSeq(t, 1, m) : m \in 0..Len(t)} /\ Trimmed(TrimEnd(t))
    BY <1>6 DEF TrimEnd
<1>8. TrimEnd(t) \in Seq(S)
    BY <1>1, <1>7, SubSeqProperties
<1> QED
    BY <1>7, <1>8

Characters == Letters \cup {"/"}

LEMMA TextsAreSequences ==
    ASSUME NEW max \in Nat, NEW t \in Texts(max)
    PROVE  t \in Seq(Characters)
<1>1. PICK n \in 0..max : t \in [1..n -> Characters]
    BY DEF Texts, Characters
<1>2. n \in Nat
    OBVIOUS
<1> QED
    BY <1>1, <1>2

(* What a path has after a prefix of it is nothing if it is the prefix and *)
(* something otherwise; after no prefix it is the path.                    *)
LEMMA DropProperties ==
    ASSUME NEW S, NEW p \in Seq(S), NEW t \in Seq(S), IsPrefix(p, t)
    PROVE  /\ p = t => Drop(p, t) = <<>>
           /\ p # t => Drop(p, t) # <<>>
           /\ p = <<>> => Drop(p, t) = t
<1>1. /\ Len(p) \in Nat /\ Len(t) \in Nat /\ Len(p) <= Len(t)
      /\ SubSeq(p, 1, Len(p)) = SubSeq(t, 1, Len(p))
    BY LenProperties DEF IsPrefix
<1>2. ASSUME p = t PROVE Drop(p, t) = <<>>
    BY <1>1, <1>2, SubSeqEmpty DEF Drop
<1>3. ASSUME p # t PROVE Drop(p, t) # <<>>
  <2>1. p = SubSeq(p, 1, Len(p)) /\ t = SubSeq(t, 1, Len(t))
    BY SubSeqFull
  <2>2. Len(p) < Len(t)
    BY <1>1, <1>3, <2>1
  <2>3. Len(SubSeq(t, Len(p) + 1, Len(t))) = Len(t) - Len(p)
    BY <1>1, <2>2, SubSeqProperties
  <2>4. Len(Drop(p, t)) > 0
    BY <1>1, <2>2, <2>3 DEF Drop
  <2> QED
    BY <2>4
<1>4. ASSUME p = <<>> PROVE Drop(p, t) = t
    BY <1>1, <1>4, SubSeqFull DEF Drop
<1> QED
    BY <1>2, <1>3, <1>4

(* The url is made of what the process was started with and the path that  *)
(* came out of the frame.                                                  *)
UrlInv ==
    /\ advertise \in Texts(MaxOption)
    /\ at \in {"tunnel", "upstream"} => path \in Texts(MaxPath) /\ Rooted(path)
    /\ at = "upstream" => url = BuildUpstreamUrl(upstream, advertise, path)

LEMMA UrlInvStep == UrlInv /\ [Next]_forwardVars => UrlInv'
<1> SUFFICES ASSUME UrlInv, [Next]_forwardVars PROVE UrlInv'
    OBVIOUS
<1>1. CASE ProxyAccepts
    BY <1>1 DEF ProxyAccepts, UrlInv, options
<1>2. CASE ServeForwards
    BY <1>2 DEF ServeForwards, UrlInv, options
<1>3. CASE ServeAnswers
    BY <1>3 DEF ServeAnswers, UrlInv, options
<1>4. CASE ProxyAnswers
    BY <1>4 DEF ProxyAnswers, UrlInv, options
<1>5. CASE UNCHANGED forwardVars
    BY <1>5 DEF forwardVars, UrlInv, options
<1> QED
    BY <1>1, <1>2, <1>3, <1>4, <1>5 DEF Next

LEMMA UrlInvImplies == UrlInv => AdvertisedReachesUpstream
<1> DEFINE prefix == TrimEnd(advertise)
           wanted == Drop(prefix, path)
<1> SUFFICES ASSUME UrlInv, at = "upstream", IsPrefix(prefix, path)
             PROVE  /\ Rooted(wanted) => url = TrimEnd(upstream) \o wanted
                    /\ wanted = <<>> => url = TrimEnd(upstream) \o <<"/">>
    BY DEF AdvertisedReachesUpstream
<1>1. prefix \in Seq(Characters) /\ path \in Seq(Characters)
    BY ForwardingBounds, TextsAreSequences, TrimEndIsText DEF UrlInv
<1>2. Rooted(path)
    BY DEF UrlInv
<1>3. /\ prefix = path => wanted = <<>>
      /\ prefix # path => wanted # <<>>
      /\ prefix = <<>> => wanted = path
    BY <1>1, DropProperties
<1>4. url = IF prefix # <<>>
            THEN TrimEnd(upstream) \o (IF prefix = path THEN <<"/">> ELSE wanted)
            ELSE TrimEnd(upstream) \o path
    BY DEF UrlInv, BuildUpstreamUrl
<1> HIDE DEF prefix, wanted
<1>5. CASE prefix = <<>>
    BY <1>2, <1>3, <1>4, <1>5 DEF Rooted
<1>6. CASE prefix # <<>> /\ prefix = path
    BY <1>3, <1>4, <1>6 DEF Rooted
<1>7. CASE prefix # <<>> /\ prefix # path
    BY <1>3, <1>4, <1>7
<1> QED
    BY <1>5, <1>6, <1>7

(* With the prefix of --advertise in front of it every path of the         *)
(* upstream can be had (build_upstream_url), however long it, the prefix   *)
(* and the rows of slashes behind the options are.                         *)
THEOREM UpstreamReachable == Spec => []AdvertisedReachesUpstream
<1>1. Init => UrlInv
    BY DEF Init, UrlInv
<1>2. UrlInv /\ [Next]_forwardVars => UrlInv'
    BY UrlInvStep
<1>3. UrlInv => AdvertisedReachesUpstream
    BY UrlInvImplies
<1> QED
    BY <1>1, <1>2, <1>3, PTL DEF Spec
=============================================================================
