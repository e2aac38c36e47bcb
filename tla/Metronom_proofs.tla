-------------------------- MODULE Metronom_proofs ---------------------------
(***************************************************************************)
(* Both decoders use the offset of the segment their data belongs to,      *)
(* whatever the capacity of the fifos is and whoever puts the elements.    *)
(*                                                                         *)
(* The argument.  A fifo holds the discontinuities from the one its        *)
(* decoder has passed to the last one put, each once and in order, and     *)
(* data between them (Chain); a put, a get and a flush keep it so, because *)
(* a flush drops no control element.  So the n-th discontinuity a decoder  *)
(* reaches has number n, and the offset is that of the last one handled.   *)
(* Audio has counted every discontinuity that is handled, and is waiting   *)
(* if it has counted one more (Together).                                  *)
(***************************************************************************)
EXTENDS Metronom, TLAPS

USE WriterAssumption, CapacityAssumption, PutsAssumption

(* The discontinuities of q are lo + 1, ..., hi, in that order.            *)
Chain(q, lo, hi) ==
  /\ lo <= hi
  /\ \A i \in 1..Len(q) :
       lo <= q[i].disc /\ q[i].disc <= hi /\ (q[i].kind = "disc" => lo < q[i].disc)
  /\ \A i, j \in 1..Len(q) :
       i < j => q[i].disc <= q[j].disc /\ (q[j].kind = "disc" => q[i].disc < q[j].disc)
  /\ \A d \in lo + 1..hi : \E i \in 1..Len(q) : q[i].kind = "disc" /\ q[i].disc = d

(* The discontinuity a decoder has reached, and the last one in aq.        *)
VideoAt == IF vpc = "disc" THEN vcount + 1 ELSE vcount
AudioAt == IF apc = "disc" THEN acount + 1 ELSE acount
AudioEndsAt == IF demuxLock # NoWriter /\ pair.kind = "disc" THEN discs - 1 ELSE discs

VideoChain == Chain(vq, VideoAt, discs)
AudioChain == haveAudio => Chain(aq, AudioAt, AudioEndsAt)

Owed ==
  /\ discs <= puts
  /\ demuxLock # NoWriter => haveAudio /\ pair \in Element /\ pair.disc = discs

InHand ==
  /\ vpc \in {"decode", "disc", "asleep", "woken"} => vbuf \in Element /\ vbuf.disc = VideoAt
  /\ apc = "decode" => abuf \in Element /\ abuf.disc = AudioAt

Together ==
  /\ offset = handled
  /\ haveAudio => handled <= acount /\ (apc \notin {"asleep", "woken"} => acount <= handled)
  /\ ~haveAudio => apc = "get" /\ acount = 0

IInv == TypeOK /\ VideoChain /\ AudioChain /\ Owed /\ InHand /\ Together

-----------------------------------------------------------------------------
LEMMA ElementFacts ==
  ASSUME NEW e \in Element
  PROVE  e.disc \in 0..MaxPuts /\ e.disc \in Nat /\ e.kind \in {"disc", "end", "data"}
BY DEF Element

(* A put at the end continues the chain.                                   *)
LEMMA AppendChain ==
  ASSUME NEW q \in Seq(Element), NEW lo \in Nat, NEW hi \in Nat, NEW e \in Element,
         e.disc = IF e.kind = "disc" THEN hi + 1 ELSE hi,
         Chain(q, lo, hi)
  PROVE  Chain(Append(q, e), lo, e.disc)
<1> DEFINE r == Append(q, e)
<1>1. /\ Len(r) = Len(q) + 1 /\ r[Len(q) + 1] = e /\ Len(q) \in Nat
      /\ \A i \in 1..Len(q) : r[i] = q[i] /\ i \in 1..Len(r)
  OBVIOUS
<1>2. \A i \in 1..Len(q) : q[i] \in Element /\ q[i].disc \in Nat
  BY ElementFacts
<1>3. \A i \in 1..Len(r) : i \in 1..Len(q) \/ i = Len(q) + 1
  BY <1>1
<1>4. e.disc \in Nat /\ hi <= e.disc
  BY ElementFacts
<1> HIDE DEF r
<1>5. lo <= e.disc
  BY <1>4 DEF Chain
<1>6. ASSUME NEW i \in 1..Len(r)
      PROVE  /\ lo <= r[i].disc /\ r[i].disc <= e.disc
             /\ r[i].kind = "disc" => lo < r[i].disc
  <2>1. CASE i \in 1..Len(q) BY <2>1, <1>1, <1>2, <1>4 DEF Chain
  <2>2. CASE i = Len(q) + 1 BY <2>2, <1>1, <1>4 DEF Chain
  <2> QED BY <2>1, <2>2, <1>3
<1>7. ASSUME NEW i \in 1..Len(r), NEW j \in 1..Len(r), i < j
      PROVE  r[i].disc <= r[j].disc /\ (r[j].kind = "disc" => r[i].disc < r[j].disc)
  <2>1. i \in 1..Len(q) BY <1>7, <1>1, <1>3
  <2>2. CASE j \in 1..Len(q) BY <2>1, <2>2, <1>7, <1>1 DEF Chain
  <2>3. CASE j = Len(q) + 1 BY <2>1, <2>3, <1>1, <1>2, <1>4 DEF Chain
  <2> QED BY <2>2, <2>3, <1>3
<1>8. ASSUME NEW d \in lo + 1..e.disc
      PROVE  \E i \in 1..Len(r) : r[i].kind = "disc" /\ r[i].disc = d
  <2>1. CASE d \in lo + 1..hi
    <3>1. PICK i \in 1..Len(q) : q[i].kind = "disc" /\ q[i].disc = d
      BY <2>1 DEF Chain
    <3> QED BY <3>1, <1>1
  <2>2. CASE d \notin lo + 1..hi
    <3>1. e.kind = "disc" /\ d = e.disc BY <2>2, <1>4
    <3> QED BY <3>1, <1>1
  <2> QED BY <2>1, <2>2
<1>9. Chain(r, lo, e.disc) BY <1>5, <1>6, <1>7, <1>8 DEF Chain
<1> QED BY <1>9 DEF r

(* The first element is of the segment the chain begins with, or it is the *)
(* next discontinuity, and the rest is a chain from there.                 *)
LEMMA TailChain ==
  ASSUME NEW q \in Seq(Element), q # << >>, NEW lo \in Nat, NEW hi \in Nat,
         Chain(q, lo, hi)
  PROVE  /\ Head(q) \in Element /\ Tail(q) \in Seq(Element) /\ Len(Tail(q)) <= Len(q)
         /\ Head(q).disc = IF Head(q).kind = "disc" THEN lo + 1 ELSE lo
         /\ Chain(Tail(q), Head(q).disc, hi)
<1> DEFINE t == Tail(q) h == Head(q)
<1>1. /\ h = q[1] /\ 1 \in 1..Len(q) /\ t \in Seq(Element) /\ Len(q) \in Nat
      /\ Len(t) = Len(q) - 1
      /\ \A i \in 1..Len(t) : t[i] = q[i + 1] /\ i + 1 \in 1..Len(q)
  OBVIOUS
<1>2. \A i \in 1..Len(q) : q[i] \in Element /\ q[i].disc \in Nat
  BY ElementFacts
<1> HIDE DEF t, h
<1>3. h \in Element /\ h.disc \in Nat /\ lo <= h.disc /\ h.disc <= hi
  BY <1>1, <1>2 DEF Chain
<1>4. h.disc = IF h.kind = "disc" THEN lo + 1 ELSE lo
  <2>1. CASE h.disc = lo BY <2>1, <1>1, <1>2 DEF Chain
  <2>2. CASE h.disc # lo
    <3>1. lo + 1 \in lo + 1..hi BY <2>2, <1>3
    <3>2. PICK i \in 1..Len(q) : q[i].kind = "disc" /\ q[i].disc = lo + 1
      BY <3>1 DEF Chain
    <3>3. i = 1
      <4>1. ASSUME i # 1 PROVE FALSE
        <5>1. 1 < i BY <4>1
        <5>2. q[1].disc < q[i].disc BY <5>1, <3>2, <1>1 DEF Chain
        <5> QED BY <5>2, <3>2, <1>1, <1>3, <2>2
      <4> QED BY <4>1
    <3> QED BY <3>2, <3>3, <1>1
  <2> QED BY <2>1, <2>2
<1>5. ASSUME NEW i \in 1..Len(t)
      PROVE  /\ h.disc <= t[i].disc /\ t[i].disc <= hi
             /\ t[i].kind = "disc" => h.disc < t[i].disc
  <2>1. i + 1 \in 1..Len(q) /\ 1 < i + 1 /\ t[i] = q[i + 1] BY <1>1
  <2> QED BY <2>1, <1>1, <1>2 DEF Chain
<1>6. ASSUME NEW i \in 1..Len(t), NEW j \in 1..Len(t), i < j
      PROVE  t[i].disc <= t[j].disc /\ (t[j].kind = "disc" => t[i].disc < t[j].disc)
  <2>1. /\ i + 1 \in 1..Len(q) /\ j + 1 \in 1..Len(q) /\ i + 1 < j + 1
        /\ t[i] = q[i + 1] /\ t[j] = q[j + 1]
    BY <1>1, <1>6
  <2> QED BY <2>1 DEF Chain
<1>7. ASSUME NEW d \in h.disc + 1..hi
      PROVE  \E i \in 1..Len(t) : t[i].kind = "disc" /\ t[i].disc = d
  <2>1. d \in lo + 1..hi BY <1>3
  <2>2. PICK k \in 1..Len(q) : q[k].kind = "disc" /\ q[k].disc = d
    BY <2>1 DEF Chain
  <2>3. k # 1 BY <2>2, <1>1, <1>3
  <2>4. k - 1 \in 1..Len(t) /\ t[k - 1] = q[k] BY <2>3, <1>1
  <2> QED BY <2>2, <2>4
<1>8. Chain(t, h.disc, hi) BY <1>3, <1>5, <1>6, <1>7 DEF Chain
<1>9. Len(t) <= Len(q) BY <1>1
<1> QED BY <1>1, <1>3, <1>4, <1>8, <1>9 DEF t, h

(* A flush keeps the chain: it drops no discontinuity.                     *)
LEMMA ClearedChain ==
  ASSUME NEW q \in Seq(Element), NEW s \in Cleared(q)
  PROVE  /\ s \in Seq(Element) /\ Len(s) <= Len(q)
         /\ \A lo, hi \in Nat : Chain(q, lo, hi) => Chain(s, lo, hi)
<1>1. PICK f \in KeptPlaces(q) : s = [i \in DOMAIN f |-> q[f[i]]]
  BY DEF Cleared
<1>2. PICK n \in 0..Len(q) : f \in [1..n -> 1..Len(q)]
  BY DEF KeptPlaces
<1>3. /\ \A i, j \in 1..n : i < j => f[i] < f[j]
      /\ \A k \in 1..Len(q) : Kept(q[k]) => \E i \in 1..n : f[i] = k
  BY <1>2 DEF KeptPlaces
<1>4. /\ s = [i \in 1..n |-> q[f[i]]] /\ n \in Nat
      /\ \A i \in 1..n : f[i] \in 1..Len(q) /\ q[f[i]] \in Element
  BY <1>1, <1>2
<1>5. s \in Seq(Element) /\ Len(s) = n
  BY <1>4
<1>6. \A i \in 1..n : s[i] = q[f[i]] BY <1>4
<1> HIDE DEF KeptPlaces
<1>7. ASSUME NEW lo \in Nat, NEW hi \in Nat, Chain(q, lo, hi) PROVE Chain(s, lo, hi)
  <2>1. lo <= hi BY <1>7 DEF Chain
  <2>2. ASSUME NEW i \in 1..n
        PROVE  lo <= s[i].disc /\ s[i].disc <= hi /\ (s[i].kind = "disc" => lo < s[i].disc)
    BY <1>4, <1>6, <1>7 DEF Chain
  <2>3. ASSUME NEW i \in 1..n, NEW j \in 1..n, i < j
        PROVE  s[i].disc <= s[j].disc /\ (s[j].kind = "disc" => s[i].disc < s[j].disc)
    <3>1. f[i] < f[j] /\ f[i] \in 1..Len(q) /\ f[j] \in 1..Len(q) BY <1>3, <1>4, <2>3
    <3> QED BY <3>1, <1>6, <1>7 DEF Chain
  <2>4. ASSUME NEW d \in lo + 1..hi
        PROVE  \E i \in 1..n : s[i].kind = "disc" /\ s[i].disc = d
    <3>1. PICK k \in 1..Len(q) : q[k].kind = "disc" /\ q[k].disc = d BY <1>7 DEF Chain
    <3>2. PICK i \in 1..n : f[i] = k BY <3>1, <1>3 DEF Kept
    <3> QED BY <3>1, <3>2, <1>6
  <2> QED BY <2>1, <2>2, <2>3, <2>4, <1>5 DEF Chain
<1> QED BY <1>5, <1>7

-----------------------------------------------------------------------------
(* In the initial states nothing has been put.                             *)
LEMMA InitIInv == Init => IInv
<1> SUFFICES ASSUME Init PROVE IInv
  OBVIOUS
<1>1. Chain(<< >>, 0, 0)
  BY DEF Chain
<1>2. VideoChain /\ AudioChain
  BY <1>1 DEF Init, VideoChain, AudioChain, VideoAt, AudioAt, AudioEndsAt
<1>3. TypeOK
  <2>1. << >> \in Seq(Element) /\ Len(<< >>) = 0 OBVIOUS
  <2> QED BY <2>1 DEF Init, TypeOK
<1>4. Owed /\ InHand /\ Together
  BY DEF Init, Owed, InHand, Together
<1> QED BY <1>2, <1>3, <1>4 DEF IInv

(* What bounds the numbers.                                                *)
LEMMA Numbers ==
  ASSUME IInv
  PROVE  /\ VideoAt \in Nat /\ VideoAt <= discs
         /\ AudioAt \in Nat /\ (haveAudio => AudioAt <= discs)
         /\ discs \in Nat /\ puts \in Nat /\ discs <= puts /\ AudioEndsAt \in Int
         /\ vcount \in Nat /\ acount \in Nat /\ handled \in Nat /\ MaxPuts \in Nat
         /\ haveAudio => AudioEndsAt \in Nat /\ AudioEndsAt <= discs
BY DEF IInv, TypeOK, VideoChain, AudioChain, Chain, VideoAt, AudioAt, AudioEndsAt, Owed

(* A writer continues the chain of the video fifo and owes audio its half. *)
LEMMA PutVideoStep ==
  ASSUME IInv, NEW w \in Writers, NEW k \in {"disc", "end"}, PutVideo(w, k)
  PROVE  IInv'
<1> USE DEF PutVideo, video, audio, offs, writer
<1> DEFINE e == [kind |-> k, disc |-> discs']
<1>1. /\ discs' = (IF k = "disc" THEN discs + 1 ELSE discs)
      /\ discs' \in 0..MaxPuts /\ puts' = puts + 1 /\ puts' \in 0..MaxPuts
      /\ discs' <= puts' /\ discs' \in Nat
  BY Numbers DEF IInv, TypeOK
<1>2. e \in Element /\ e.kind = k /\ e.disc = discs'
  BY <1>1 DEF Element
<1>3. vq \in Seq(Element) /\ vq' = Append(vq, e) /\ Len(vq') <= Capacity
  <2>1. vq \in Seq(Element) /\ Len(vq) < Capacity /\ vq' = Append(vq, e)
    BY DEF IInv, TypeOK
  <2> HIDE DEF e
  <2> QED BY <2>1, <1>2
<1>4. VideoChain'
  <2>1. VideoAt' = VideoAt BY DEF VideoAt
  <2>2. Chain(vq, VideoAt, discs) BY DEF IInv, VideoChain
  <2> HIDE DEF e
  <2>3. Chain(Append(vq, e), VideoAt, e.disc)
    BY <1>1, <1>2, <1>3, <2>2, Numbers, AppendChain
  <2> QED BY <1>2, <1>3, <2>1, <2>3 DEF VideoChain
<1>5. AudioChain'
  <2>1. haveAudio => AudioEndsAt' = AudioEndsAt
    <3>1. AudioEndsAt = discs BY DEF AudioEndsAt
    <3>2. haveAudio => demuxLock' = w /\ w # NoWriter /\ pair'.kind = k
      OBVIOUS
    <3> QED BY <3>1, <3>2, <1>1, Numbers DEF AudioEndsAt
  <2>2. AudioAt' = AudioAt /\ aq' = aq /\ haveAudio' = haveAudio BY DEF AudioAt
  <2> QED BY <2>1, <2>2 DEF IInv, AudioChain
<1>6. Owed'
  <2>1. haveAudio => pair' = e
    OBVIOUS
  <2>2. ~haveAudio => demuxLock' = NoWriter
    OBVIOUS
  <2> HIDE DEF e
  <2> QED BY <1>1, <1>2, <2>1, <2>2 DEF Owed
<1>7. InHand' /\ Together'
  BY DEF IInv, InHand, Together, VideoAt, AudioAt
<1>8. TypeOK'
  <2>1. pair' \in Element \cup {Nothing} /\ demuxLock' \in Writers \cup {NoWriter}
    <3>1. pair' = e \/ pair' = pair OBVIOUS
    <3> HIDE DEF e
    <3> QED BY <3>1, <1>2 DEF IInv, TypeOK
  <2>2. vq' \in Seq(Element)
    <3> HIDE DEF e
    <3> QED BY <1>2, <1>3
  <2> HIDE DEF e
  <2> QED BY <1>1, <1>3, <2>1, <2>2 DEF IInv, TypeOK
<1> QED BY <1>4, <1>5, <1>6, <1>7, <1>8 DEF IInv

(* ... which it puts with demux_lock held.                                 *)
LEMMA PutAudioStep ==
  ASSUME IInv, NEW w \in Writers, PutAudio(w)
  PROVE  IInv'
<1> USE DEF PutAudio, video, audio, offs
<1>1. /\ haveAudio /\ pair \in Element /\ pair.disc = discs
      /\ AudioEndsAt = IF pair.kind = "disc" THEN discs - 1 ELSE discs
  BY DEF IInv, Owed, AudioEndsAt
<1>2. aq \in Seq(Element) /\ Len(aq) < Capacity /\ aq' = Append(aq, pair)
  BY DEF IInv, TypeOK
<1>3. AudioChain'
  <2>1. AudioEndsAt' = discs /\ AudioAt' = AudioAt BY DEF AudioEndsAt, AudioAt
  <2>2. Chain(aq, AudioAt, AudioEndsAt) BY <1>1 DEF IInv, AudioChain
  <2>3. AudioEndsAt \in Nat /\ AudioAt \in Nat /\ discs \in Nat BY <1>1, Numbers
  <2>4. pair.disc = IF pair.kind = "disc" THEN AudioEndsAt + 1 ELSE AudioEndsAt
    BY <1>1, <2>3
  <2>5. Chain(Append(aq, pair), AudioAt, pair.disc)
    BY <1>1, <1>2, <2>2, <2>3, <2>4, AppendChain
  <2> QED BY <1>1, <1>2, <2>1, <2>5 DEF AudioChain
<1>4. VideoChain' BY DEF IInv, VideoChain, VideoAt
<1>5. Owed' /\ InHand' /\ Together'
  BY DEF IInv, Owed, InHand, Together, VideoAt, AudioAt
<1>6. TypeOK'
  <2>1. aq' \in Seq(Element) /\ Len(aq') <= Capacity BY <1>1, <1>2
  <2> QED BY <2>1 DEF IInv, TypeOK
<1> QED BY <1>3, <1>4, <1>5, <1>6 DEF IInv

(* The demuxer's data belongs to the segment after the last discontinuity. *)
LEMMA SendStep ==
  ASSUME IInv, SendVideo \/ SendAudio
  PROVE  IInv'
<1> DEFINE e == [kind |-> "data", disc |-> discs]
<1>1. e \in Element /\ e.kind = "data" /\ e.disc = discs
  BY DEF Element, IInv, TypeOK
<1>2. discs \in Nat /\ AudioEndsAt = discs /\ puts' \in 0..MaxPuts /\ discs <= puts'
  BY Numbers DEF SendVideo, SendAudio, AudioEndsAt
<1>3. /\ discs' = discs /\ UNCHANGED <<haveAudio, demuxLock, pair>>
      /\ UNCHANGED <<vpc, vbuf, vcount, vends, apc, abuf, acount, aends, handled, offset>>
  BY DEF SendVideo, SendAudio, writer, video, audio, offs
<1>4. CASE SendVideo
  <2>1. vq \in Seq(Element) /\ Len(vq) < Capacity /\ vq' = Append(vq, e) /\ aq' = aq
    BY <1>4 DEF SendVideo, IInv, TypeOK
  <2> HIDE DEF e
  <2>2. Chain(Append(vq, e), VideoAt, discs)
    BY <1>1, <1>2, <2>1, Numbers, AppendChain DEF IInv, VideoChain
  <2>3. VideoChain' /\ AudioChain'
    BY <1>3, <2>1, <2>2
    DEF IInv, VideoChain, AudioChain, VideoAt, AudioAt, AudioEndsAt
  <2>4. vq' \in Seq(Element) /\ Len(vq') <= Capacity BY <1>1, <2>1
  <2>5. TypeOK' BY <1>2, <1>3, <2>1, <2>4 DEF IInv, TypeOK
  <2>6. Owed' /\ InHand' /\ Together'
    BY <1>2, <1>3 DEF IInv, Owed, InHand, Together, VideoAt, AudioAt
  <2> QED BY <2>3, <2>5, <2>6 DEF IInv
<1>5. CASE SendAudio
  <2>1. /\ aq \in Seq(Element) /\ Len(aq) < Capacity /\ aq' = Append(aq, e) /\ vq' = vq
        /\ haveAudio
    BY <1>5 DEF SendAudio, IInv, TypeOK
  <2> HIDE DEF e
  <2>2. Chain(Append(aq, e), AudioAt, discs)
    BY <1>1, <1>2, <2>1, Numbers, AppendChain DEF IInv, AudioChain
  <2>3. VideoChain' /\ AudioChain'
    BY <1>2, <1>3, <2>1, <2>2
    DEF IInv, VideoChain, AudioChain, VideoAt, AudioAt, AudioEndsAt
  <2>4. aq' \in Seq(Element) /\ Len(aq') <= Capacity BY <1>1, <2>1
  <2>5. TypeOK' BY <1>2, <1>3, <2>1, <2>4 DEF IInv, TypeOK
  <2>6. Owed' /\ InHand' /\ Together'
    BY <1>2, <1>3 DEF IInv, Owed, InHand, Together, VideoAt, AudioAt
  <2> QED BY <2>3, <2>5, <2>6 DEF IInv
<1> QED BY <1>4, <1>5

(* A flush drops no discontinuity.                                         *)
LEMMA FlushStep ==
  ASSUME IInv, FlushVideo \/ FlushAudio
  PROVE  IInv'
<1>1. /\ UNCHANGED <<haveAudio, demuxLock, pair, puts, discs>>
      /\ UNCHANGED <<vpc, vbuf, vcount, vends, apc, abuf, acount, aends, handled, offset>>
  BY DEF FlushVideo, FlushAudio, writer, video, audio, offs
<1>2. /\ VideoAt' = VideoAt /\ AudioAt' = AudioAt /\ AudioEndsAt' = AudioEndsAt
      /\ VideoAt \in Nat /\ AudioAt \in Nat /\ discs \in Nat
      /\ haveAudio => AudioEndsAt \in Nat
  BY <1>1, Numbers DEF VideoAt, AudioAt, AudioEndsAt
<1>3. /\ vq \in Seq(Element) /\ Len(vq) <= Capacity
      /\ aq \in Seq(Element) /\ Len(aq) <= Capacity
  BY DEF IInv, TypeOK
<1>4. /\ vq' \in Seq(Element) /\ Len(vq') <= Capacity
      /\ aq' \in Seq(Element) /\ Len(aq') <= Capacity
      /\ VideoChain' /\ AudioChain'
  <2>1. CASE FlushVideo
    <3>1. vq' \in Cleared(vq) /\ aq' = aq BY <2>1 DEF FlushVideo
    <3>2. /\ vq' \in Seq(Element) /\ Len(vq') <= Len(vq)
          /\ Chain(vq, VideoAt, discs) => Chain(vq', VideoAt, discs)
      BY <3>1, <1>2, <1>3, ClearedChain
    <3>3. Len(vq') <= Capacity BY <3>2, <1>3
    <3> QED BY <3>1, <3>2, <3>3, <1>1, <1>2, <1>3 DEF IInv, VideoChain, AudioChain
  <2>2. CASE FlushAudio
    <3>1. aq' \in Cleared(aq) /\ vq' = vq BY <2>2 DEF FlushAudio
    <3>2. /\ aq' \in Seq(Element) /\ Len(aq') <= Len(aq)
          /\ haveAudio /\ Chain(aq, AudioAt, AudioEndsAt) => Chain(aq', AudioAt, AudioEndsAt)
      BY <3>1, <1>2, <1>3, ClearedChain
    <3>3. Len(aq') <= Capacity BY <3>2, <1>3
    <3> QED BY <3>1, <3>2, <3>3, <1>1, <1>2, <1>3 DEF IInv, VideoChain, AudioChain
  <2> QED BY <2>1, <2>2
<1>5. TypeOK' BY <1>1, <1>4 DEF IInv, TypeOK
<1>6. Owed' /\ InHand' /\ Together'
  BY <1>1 DEF IInv, Owed, InHand, Together, VideoAt, AudioAt
<1> QED BY <1>4, <1>5, <1>6 DEF IInv

-----------------------------------------------------------------------------
LEMMA PlaceFacts ==
  ASSUME NEW e \in Element
  PROVE  /\ Place(e) \in {"decode", "disc", "end"}
         /\ Place(e) = "disc" <=> e.kind = "disc"
BY ElementFacts DEF Place

(* A decoder that gets an element is at the segment of that element, or at *)
(* the discontinuity that begins the next one.                             *)
LEMMA VideoGetStep ==
  ASSUME IInv, VideoGet
  PROVE  IInv'
<1> USE DEF VideoGet, audio, offs, writer
<1>1. vq \in Seq(Element) /\ vq # << >> /\ vpc = "get" /\ Len(vq) <= Capacity
  BY DEF IInv, TypeOK
<1>2. VideoAt = vcount /\ vcount \in Nat /\ discs \in Nat /\ Chain(vq, vcount, discs)
  <2>1. VideoAt = vcount BY <1>1 DEF VideoAt
  <2> QED BY <2>1, Numbers DEF IInv, VideoChain
<1>3. /\ vbuf' \in Element /\ vq' \in Seq(Element) /\ Len(vq') <= Len(vq)
      /\ vbuf'.disc = IF vbuf'.kind = "disc" THEN vcount + 1 ELSE vcount
      /\ Chain(vq', vbuf'.disc, discs)
  BY <1>1, <1>2, TailChain
<1>4. vpc' \in {"decode", "disc", "end"} /\ (vpc' = "disc" <=> vbuf'.kind = "disc")
  BY <1>3, PlaceFacts
<1>5. VideoAt' = vbuf'.disc /\ vcount' = vcount
  BY <1>3, <1>4 DEF VideoAt
<1>6. VideoChain' BY <1>3, <1>5 DEF VideoChain
<1>7. AudioChain' /\ Owed'
  BY DEF IInv, AudioChain, AudioAt, AudioEndsAt, Owed
<1>8. Together' BY DEF IInv, Together
<1>9. InHand'
  BY <1>3, <1>5 DEF IInv, InHand, AudioAt
<1>10. TypeOK'
  <2>1. Len(vq') <= Capacity BY <1>1, <1>3
  <2>2. vpc' \notin {"asleep", "woken"} /\ vpc \notin {"asleep", "woken"} BY <1>1, <1>4
  <2> QED BY <1>3, <1>4, <2>1, <2>2 DEF IInv, TypeOK
<1> QED BY <1>6, <1>7, <1>8, <1>9, <1>10 DEF IInv

LEMMA AudioGetStep ==
  ASSUME IInv, AudioGet
  PROVE  IInv'
<1> USE DEF AudioGet, video, offs, writer
<1>1. /\ aq \in Seq(Element) /\ aq # << >> /\ apc = "get" /\ Len(aq) <= Capacity
      /\ haveAudio
  BY DEF IInv, TypeOK
<1>2. AudioAt = acount /\ acount \in Nat /\ AudioEndsAt \in Nat
      /\ Chain(aq, acount, AudioEndsAt)
  <2>1. AudioAt = acount BY <1>1 DEF AudioAt
  <2> QED BY <1>1, <2>1, Numbers DEF IInv, AudioChain
<1>3. /\ abuf' \in Element /\ aq' \in Seq(Element) /\ Len(aq') <= Len(aq)
      /\ abuf'.disc = IF abuf'.kind = "disc" THEN acount + 1 ELSE acount
      /\ Chain(aq', abuf'.disc, AudioEndsAt)
  BY <1>1, <1>2, TailChain
<1>4. apc' \in {"decode", "disc", "end"} /\ (apc' = "disc" <=> abuf'.kind = "disc")
  BY <1>3, PlaceFacts
<1>5. AudioAt' = abuf'.disc /\ acount' = acount /\ AudioEndsAt' = AudioEndsAt
  BY <1>3, <1>4 DEF AudioAt, AudioEndsAt
<1>6. AudioChain' BY <1>3, <1>5 DEF AudioChain
<1>7. VideoChain' /\ Owed'
  BY DEF IInv, VideoChain, VideoAt, Owed
<1>8. Together' BY <1>1, <1>4 DEF IInv, Together
<1>9. InHand'
  BY <1>3, <1>5 DEF IInv, InHand, VideoAt
<1>10. TypeOK'
  <2>1. Len(aq') <= Capacity BY <1>1, <1>3
  <2> QED BY <1>3, <1>4, <2>1 DEF IInv, TypeOK
<1> QED BY <1>6, <1>7, <1>8, <1>9, <1>10 DEF IInv

(* Video reaches a discontinuity; it handles it only if audio has counted  *)
(* it.                                                                     *)
LEMMA VideoDiscontinuityStep ==
  ASSUME IInv, VideoDiscontinuity \/ VideoWoken
  PROVE  IInv'
<1>1. /\ UNCHANGED <<haveAudio, vq, aq, puts, discs, demuxLock, pair>>
      /\ UNCHANGED <<vends, abuf, acount, aends>>
      /\ vpc \in {"disc", "woken"} /\ vcount' = VideoAt
  BY DEF VideoDiscontinuity, VideoWoken, fifos, writer, VideoAt
<1>2. /\ vbuf \in Element /\ vbuf.disc = vcount' /\ vcount' \in Nat /\ vcount' \in 0..MaxPuts
      /\ vcount' = handled + 1 /\ handled \in Nat /\ acount \in Nat
  <2>1. vbuf \in Element /\ vbuf.disc = VideoAt BY <1>1 DEF IInv, InHand
  <2>2. VideoAt \in Nat /\ VideoAt <= discs /\ discs \in 0..MaxPuts
    BY Numbers DEF IInv, TypeOK
  <2>3. handled = VideoAt - 1
    BY <1>1 DEF IInv, TypeOK, VideoAt
  <2> QED BY <1>1, <2>1, <2>2, <2>3, Numbers
<1>3. \/ /\ vpc' = "asleep" /\ vbuf' = vbuf /\ handled' = handled /\ offset' = offset
         /\ haveAudio
      \/ /\ vpc' = "get" /\ vbuf' = Nothing /\ handled' = vcount' /\ offset' = vcount'
         /\ haveAudio => vcount' <= acount
  <2>1. \/ VideoWaits(vcount') /\ vpc' = "asleep" /\ UNCHANGED <<vbuf, offs>>
        \/ ~VideoWaits(vcount') /\ Handle
    BY Zenon DEF VideoDiscontinuity, VideoWoken
  <2>2. CASE VideoWaits(vcount') /\ vpc' = "asleep" /\ UNCHANGED <<vbuf, offs>>
    BY <2>2 DEF offs, VideoWaits
  <2>3. CASE ~VideoWaits(vcount') /\ Handle
    <3>1. /\ vpc' = "get" /\ vbuf' = Nothing /\ handled' = handled + 1
          /\ offset' = vbuf.disc
      BY <2>3 DEF Handle
    <3>2. handled' = vcount' /\ offset' = vcount' BY <1>2, <3>1
    <3>3. haveAudio => ~(acount < vcount') BY Zenon, <2>3 DEF VideoWaits
    <3>4. haveAudio => vcount' <= acount BY <3>3, <1>2
    <3> QED BY <3>1, <3>2, <3>4
  <2> QED BY <2>1, <2>2, <2>3
<1>4. apc' = apc \/ (apc = "asleep" /\ apc' = "woken")
  BY DEF VideoDiscontinuity, VideoWoken, WakeAudio
<1>5. VideoAt' = VideoAt BY <1>1, <1>3 DEF VideoAt
<1>6. AudioAt' = AudioAt /\ AudioEndsAt' = AudioEndsAt
  BY <1>1, <1>4 DEF AudioAt, AudioEndsAt
<1>7. VideoChain' /\ AudioChain'
  BY <1>1, <1>5, <1>6 DEF IInv, VideoChain, AudioChain
<1>8. Owed' BY <1>1 DEF IInv, Owed
<1>9. InHand'
  <2>1. vpc' \in {"decode", "disc", "asleep", "woken"} => vbuf' \in Element /\ vbuf'.disc = VideoAt'
    BY <1>1, <1>2, <1>3, <1>5
  <2>2. apc' = "decode" => abuf' \in Element /\ abuf'.disc = AudioAt'
    BY <1>1, <1>4, <1>6 DEF IInv, InHand
  <2> QED BY <2>1, <2>2 DEF InHand
<1>10. Together'
  <2>1. offset' = handled' BY <1>3 DEF IInv, Together
  <2>2. haveAudio => handled' <= acount /\ (apc' \notin {"asleep", "woken"} => acount <= handled')
    <3> SUFFICES ASSUME haveAudio
                 PROVE  handled' <= acount /\ (apc' \notin {"asleep", "woken"} => acount <= handled')
      OBVIOUS
    <3>1. /\ handled <= acount
          /\ apc' \notin {"asleep", "woken"} => acount <= handled
      BY <1>4 DEF IInv, Together
    <3>2. CASE handled' = handled BY <3>1, <3>2
    <3>3. CASE handled' = vcount' /\ vcount' <= acount BY <3>1, <3>3, <1>2
    <3> QED BY <1>3, <3>2, <3>3
  <2>3. ~haveAudio => apc' = "get" /\ acount' = 0
    BY <1>1, <1>4 DEF IInv, Together
  <2> QED BY <1>1, <2>1, <2>2, <2>3 DEF Together
<1>11. TypeOK'
  <2>1. /\ handled' \in {vcount' - 1, vcount'} /\ handled' >= 0
        /\ handled' = vcount' - 1 <=> vpc' \in {"asleep", "woken"}
        /\ vpc' \in {"get", "asleep"} /\ offset' \in 0..MaxPuts
        /\ vbuf' \in Element \cup {Nothing}
    <3>1. offset \in 0..MaxPuts BY DEF IInv, TypeOK
    <3>2. CASE vpc' = "asleep" /\ handled' = handled /\ offset' = offset /\ vbuf' = vbuf
      BY <3>1, <3>2, <1>2
    <3>3. CASE vpc' = "get" /\ handled' = vcount' /\ offset' = vcount' /\ vbuf' = Nothing
      BY <3>3, <1>2
    <3> QED BY <1>3, <3>2, <3>3
  <2>2. apc' \in {"get", "decode", "disc", "asleep", "woken", "end", "endWait"}
    BY <1>4 DEF IInv, TypeOK
  <2> QED BY <1>1, <1>2, <2>1, <2>2 DEF IInv, TypeOK
<1> QED BY <1>7, <1>8, <1>9, <1>10, <1>11 DEF IInv

(* Audio counts a discontinuity and goes on when it is handled.            *)
LEMMA AudioDiscontinuityStep ==
  ASSUME IInv, AudioDiscontinuity \/ AudioWoken
  PROVE  IInv'
<1>1. /\ UNCHANGED <<haveAudio, vq, aq, puts, discs, demuxLock, pair>>
      /\ UNCHANGED <<vbuf, vcount, vends, aends, handled, offset>>
      /\ apc \in {"disc", "woken"} /\ acount' = AudioAt
  BY DEF AudioDiscontinuity, AudioWoken, fifos, writer, offs, video, AudioAt
<1>2. haveAudio /\ acount' \in 0..MaxPuts /\ acount <= acount' /\ acount' \in Nat
      /\ acount \in Nat /\ handled \in Nat
  <2>1. haveAudio BY <1>1 DEF IInv, Together
  <2>2. AudioAt \in Nat /\ AudioAt <= discs /\ discs \in 0..MaxPuts
    BY <2>1, Numbers DEF IInv, TypeOK
  <2>3. acount \in Nat /\ acount <= AudioAt /\ handled \in Nat BY Numbers DEF AudioAt
  <2> QED BY <1>1, <2>1, <2>2, <2>3
<1>3. \/ apc' = "asleep" /\ abuf' = abuf
      \/ apc' = "get" /\ abuf' = Nothing /\ acount' <= handled
  <2>1. CASE AudioDiscontinuity
    BY <2>1, <1>2 DEF AudioDiscontinuity, AudioWaits
  <2>2. CASE AudioWoken
    <3>1. acount' = acount BY <2>2 DEF AudioWoken
    <3> QED BY <2>2, <3>1, <1>2 DEF AudioWoken, AudioWaits
  <2> QED BY <2>1, <2>2
<1>4. vpc' = vpc \/ (vpc = "asleep" /\ vpc' = "woken")
  BY DEF AudioDiscontinuity, AudioWoken, video
<1>5. AudioAt' = AudioAt BY <1>1, <1>3 DEF AudioAt
<1>6. VideoAt' = VideoAt /\ AudioEndsAt' = AudioEndsAt
  BY <1>1, <1>4 DEF VideoAt, AudioEndsAt
<1>7. VideoChain' /\ AudioChain'
  BY <1>1, <1>5, <1>6 DEF IInv, VideoChain, AudioChain
<1>8. Owed' BY <1>1 DEF IInv, Owed
<1>9. InHand'
  BY <1>1, <1>3, <1>4, <1>6 DEF IInv, InHand
<1>10. Together'
  BY <1>1, <1>2, <1>3 DEF IInv, Together
<1>11. TypeOK'
  <2>1. /\ vpc' \in {"get", "decode", "disc", "asleep", "woken", "end", "endWait"}
        /\ vpc' \in {"asleep", "woken"} <=> vpc \in {"asleep", "woken"}
        /\ apc' \in {"get", "asleep"} /\ abuf' \in Element \cup {Nothing}
    BY <1>3, <1>4 DEF IInv, TypeOK
  <2> QED BY <1>1, <1>2, <2>1 DEF IInv, TypeOK
<1> QED BY <1>7, <1>8, <1>9, <1>10, <1>11 DEF IInv

(* The other steps of a decoder change its place, and count its ends.      *)
LEMMA MoveStep ==
  ASSUME IInv, \/ VideoDecode \/ VideoEnd \/ VideoEndWait
               \/ AudioDecode \/ AudioEnd \/ AudioEndWait
  PROVE  IInv'
<1>1. /\ UNCHANGED <<haveAudio, vq, aq, puts, discs, demuxLock, pair>>
      /\ UNCHANGED <<vcount, acount, handled, offset>>
  BY DEF VideoDecode, VideoEnd, VideoEndWait, AudioDecode, AudioEnd, AudioEndWait,
         fifos, writer, offs, video, audio
<1>2. /\ \/ vpc' = vpc /\ vbuf' = vbuf /\ vends' = vends
         \/ /\ vpc \in {"decode", "end", "endWait"} /\ vpc' \in {"get", "endWait"}
            /\ vbuf' \in {vbuf, Nothing} /\ vends' \in {vends, vends + 1}
      /\ \/ apc' = apc /\ abuf' = abuf /\ aends' = aends
         \/ /\ apc \in {"decode", "end", "endWait"} /\ apc' \in {"get", "endWait"}
            /\ abuf' \in {abuf, Nothing} /\ aends' \in {aends, aends + 1}
  BY DEF VideoDecode, VideoEnd, VideoEndWait, AudioDecode, AudioEnd, AudioEndWait,
         video, audio
<1>3. /\ VideoAt' = VideoAt /\ AudioAt' = AudioAt /\ AudioEndsAt' = AudioEndsAt
  BY <1>1, <1>2 DEF VideoAt, AudioAt, AudioEndsAt
<1>4. VideoChain' /\ AudioChain' BY <1>1, <1>3 DEF IInv, VideoChain, AudioChain
<1>5. Owed' BY <1>1 DEF IInv, Owed
<1>6. InHand' BY <1>2, <1>3 DEF IInv, InHand
<1>7. Together' BY <1>1, <1>2 DEF IInv, Together
<1>8. TypeOK'
  <2>1. /\ vpc' \in {"get", "decode", "disc", "asleep", "woken", "end", "endWait"}
        /\ vpc' \in {"asleep", "woken"} <=> vpc \in {"asleep", "woken"}
        /\ vbuf' \in Element \cup {Nothing} /\ vends' \in Nat
    BY <1>2 DEF IInv, TypeOK
  <2>2. /\ apc' \in {"get", "decode", "disc", "asleep", "woken", "end", "endWait"}
        /\ abuf' \in Element \cup {Nothing} /\ aends' \in Nat
    BY <1>2 DEF IInv, TypeOK
  <2> QED BY <1>1, <2>1, <2>2 DEF IInv, TypeOK
<1> QED BY <1>4, <1>5, <1>6, <1>7, <1>8 DEF IInv

-----------------------------------------------------------------------------
LEMMA NextIInv == IInv /\ [Next]_vars => IInv'
<1> SUFFICES ASSUME IInv, [Next]_vars PROVE IInv'
  OBVIOUS
<1>1. CASE Write
  BY <1>1, PutVideoStep, PutAudioStep, SendStep, FlushStep DEF Write
<1>2. CASE VideoStep
  BY <1>2, VideoGetStep, VideoDiscontinuityStep, MoveStep DEF VideoStep
<1>3. CASE AudioStep
  BY <1>3, AudioGetStep, AudioDiscontinuityStep, MoveStep DEF AudioStep
<1>4. CASE UNCHANGED vars
  BY <1>4 DEF vars, fifos, writer, video, audio, offs, IInv, TypeOK, VideoChain, AudioChain,
     Owed, InHand, Together, VideoAt, AudioAt, AudioEndsAt
<1> QED BY <1>1, <1>2, <1>3, <1>4 DEF Next

LEMMA IInvAlways == Spec => []IInv
<1> QED BY InitIInv, NextIInv, PTL DEF Spec

(* What is in hand is of the segment whose offset is set.                  *)
LEMMA IInvOwnOffset == IInv => OwnOffset
<1> SUFFICES ASSUME IInv PROVE OwnOffset
  OBVIOUS
<1>1. vpc = "decode" => vbuf.disc = offset
  <2> SUFFICES ASSUME vpc = "decode" PROVE vbuf.disc = offset
    OBVIOUS
  <2>1. vbuf.disc = vcount BY DEF IInv, InHand, VideoAt
  <2>2. handled = vcount BY DEF IInv, TypeOK
  <2> QED BY <2>1, <2>2 DEF IInv, Together
<1>2. apc = "decode" => abuf.disc = offset
  <2> SUFFICES ASSUME apc = "decode" PROVE abuf.disc = offset
    OBVIOUS
  <2>1. abuf.disc = acount BY DEF IInv, InHand, AudioAt
  <2>2. haveAudio /\ handled <= acount /\ acount <= handled BY DEF IInv, Together
  <2> QED BY <2>1, <2>2, Numbers DEF IInv, Together
<1> QED BY <1>1, <1>2 DEF OwnOffset

(* Video and audio are decoded with the offset of their own segment, for   *)
(* fifos of any capacity and any number of writers                         *)
(* (metronom_handle_video_discontinuity, _audio_discontinuity).            *)
THEOREM MetronomOwnOffset == Spec => []OwnOffset
<1> QED BY IInvAlways, IInvOwnOffset, PTL

(* The counters stay within what has been put, and the fifos within their  *)
(* pools: nothing is handled that was not reached (metronom.c).            *)
THEOREM MetronomTypeCorrect == Spec => []TypeOK
<1>1. IInv => TypeOK BY DEF IInv
<1> QED BY <1>1, IInvAlways, PTL
=============================================================================
