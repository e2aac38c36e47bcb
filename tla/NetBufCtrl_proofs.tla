------------------------- MODULE NetBufCtrl_proofs --------------------------
(***************************************************************************)
(* The demuxer of a network stream never waits for an element while the    *)
(* stream buffers, whatever the sizes of the pools are and however long    *)
(* the fifos are said to be.                                               *)
(*                                                                         *)
(* The argument.  The alloc callback ends the buffering before the wait,   *)
(* so that only a get callback can begin it again.  Its own fifo is empty  *)
(* then, and a pool that has given one element to the decoder is not used  *)
(* up (Counted).  If the demuxer waits on the other fifo, the number kept  *)
(* of it is not above what is free, for nothing has been taken since the   *)
(* put that noted it (NotedBound): the callback sees a full fifo.          *)
(***************************************************************************)
EXTENDS NetBufCtrl, TLAPS

NotedBound ==
  open => \A f \in Fifos :
    cached[f] <= free[f] + (IF pcD = "put" /\ to = f THEN 1 ELSE 0)

NoWait == pcD \in Calls \cup {"wait"} /\ free[to] < 2 => ~buffering

ClosedIsQuiet == ~open => ~buffering

IInv == TypeOK /\ NotedBound /\ NoWait /\ ClosedIsQuiet

USE FifoAssumption, NobodyAssumption, PoolAssumption, MarkAssumption, SlackAssumption

-----------------------------------------------------------------------------
(* A call that pauses or resumes leaves the types alone.                   *)
LEMMA PausedKept ==
  ASSUME taken \in [Fifos -> 0..Slack], paused \subseteq Calls, NEW p \in SUBSET Calls,
         SetPaused(p) \/ UNCHANGED <<paused, taken>>
  PROVE  taken' \in [Fifos -> 0..Slack] /\ paused' \subseteq Calls
<1>1. 0 \in 0..Slack BY SlackAssumption
<1>2. CASE SetPaused(p)
  <2>1. taken' = [f \in Fifos |-> IF Stalls(f, p) THEN taken[f] ELSE 0] /\ paused' = p
    BY <1>2 DEF SetPaused
  <2>2. taken' \in [Fifos -> 0..Slack]
    <3> SUFFICES ASSUME NEW f \in Fifos
                 PROVE (IF Stalls(f, p) THEN taken[f] ELSE 0) \in 0..Slack
      BY <2>1
    <3> QED BY <1>1
  <2> QED BY <2>1, <2>2
<1>3. CASE UNCHANGED <<paused, taken>> BY <1>3
<1> QED BY <1>2, <1>3

(* In the initial states nothing is queued.                                *)
LEMMA InitIInv == Init => IInv
<1> SUFFICES ASSUME Init PROVE IInv
  OBVIOUS
<1>0. /\ queue \in [Fifos -> Seq(Kinds)]
      /\ \A f \in Fifos : free[f] = Pool /\ Len(queue[f]) = 0 /\ held[f] = Nobody
  BY DEF Init
<1>1. Shape
  <2>1. /\ cached \in [Fifos -> 0..Pool] /\ free \in [Fifos -> 0..Pool]
        /\ held \in [Fifos -> Kinds \cup {Nobody}]
        /\ taken \in [Fifos -> 0..Slack] /\ pcG \in [Fifos -> Calls \cup {"idle"}]
        /\ paused \subseteq Calls /\ has \subseteq Fifos
    BY DEF Init
  <2>2. to \in Fifos /\ kind \in Kinds /\ pcD = "idle"
    BY DEF Init, Kinds
  <2>3. open \in BOOLEAN /\ enabled \in BOOLEAN /\ buffering \in BOOLEAN
    BY DEF Init
  <2> QED BY <1>0, <2>1, <2>2, <2>3 DEF Shape
<1>2. Counted
  <2>1. pcD # "put" BY DEF Init
  <2> SUFFICES ASSUME NEW f \in Fifos PROVE free[f] + Len(queue[f]) + Out(f) = Pool
    BY DEF Counted
  <2>2. held[f] = Nobody BY DEF Init
  <2>3. Out(f) = 0 BY <2>1, <2>2 DEF Out
  <2>4. free[f] = Pool /\ Len(queue[f]) = 0 BY <1>0
  <2> QED BY <2>3, <2>4
<1>3. NotedBound /\ NoWait /\ ClosedIsQuiet
  BY DEF Init, NotedBound, NoWait, ClosedIsQuiet
<1> QED BY <1>1, <1>2, <1>3 DEF IInv, TypeOK

(* The demuxer's steps before it has an element leave the pools alone.     *)
LEMMA AskStep == IInv /\ (Begin \/ AllocTest \/ AllocClear \/ AllocNormal) => IInv'
<1> SUFFICES ASSUME IInv, Begin \/ AllocTest \/ AllocClear \/ AllocNormal PROVE IInv'
  OBVIOUS
<1> USE DEF IInv, ctrl, pool, dem
<1>1. /\ UNCHANGED <<open, enabled, cached, free, queue, held, pcG>>
      /\ pcD # "put" /\ pcD' \in Calls \cup {"alloc", "clear", "wait"}
      /\ has' \subseteq Fifos
      /\ to' \in Fifos /\ kind' \in Kinds
  BY DEF Begin, AllocTest, AllocClear, AllocNormal, Following, Calls, TypeOK, Shape
<1>2. /\ buffering' \in BOOLEAN /\ paused' \subseteq Calls /\ taken' \in [Fifos -> 0..Slack]
      /\ buffering' => buffering
  <2>1. buffering' = buffering \/ buffering' = FALSE
    BY DEF Begin, AllocTest, AllocClear, AllocNormal
  <2>2. \/ SetPaused(paused \ {pcD})
        \/ UNCHANGED <<paused, taken>>
    BY DEF Begin, AllocTest, AllocClear, AllocNormal
  <2>3. paused \ {pcD} \in SUBSET Calls BY DEF TypeOK, Shape
  <2>4. paused' \subseteq Calls /\ taken' \in [Fifos -> 0..Slack]
    BY <2>2, <2>3, PausedKept DEF TypeOK, Shape
  <2>5. buffering \in BOOLEAN BY DEF TypeOK, Shape
  <2>6. buffering' \in BOOLEAN BY <2>1, <2>5
  <2>7. buffering' => buffering BY Zenon, <2>1
  <2> QED BY <2>4, <2>6, <2>7
<1>3. Shape' BY <1>1, <1>2 DEF TypeOK, Shape
<1>4. Counted'
  <2>1. \A f \in Fifos : Out(f)' = Out(f) BY <1>1 DEF Out, Calls
  <2> QED BY <1>1, <2>1 DEF TypeOK, Counted
<1>5. NotedBound' BY <1>1 DEF NotedBound, Calls
<1>6. NoWait'
  <2>1. CASE Begin BY <2>1 DEF Begin, Calls, NoWait
  <2>2. CASE AllocTest
    BY <2>2 DEF AllocTest, Full, NoWait, ClosedIsQuiet, Calls, TypeOK, Shape
  <2>3. CASE AllocClear BY <2>3 DEF AllocClear, NoWait
  <2>4. CASE AllocNormal BY <2>4 DEF AllocNormal, NoWait
  <2> QED BY <2>1, <2>2, <2>3, <2>4
<1>7. ClosedIsQuiet' BY <1>1, <1>2 DEF ClosedIsQuiet
<1> QED BY <1>3, <1>4, <1>5, <1>6, <1>7 DEF TypeOK

(* The element that the demuxer takes is not counted as free any more.     *)
LEMMA TakeStep == IInv /\ AllocTake => IInv'
<1> SUFFICES ASSUME IInv, AllocTake PROVE IInv'
  OBVIOUS
<1> USE DEF AllocTake, IInv, ctrl, dem
<1>1. Shape' BY DEF TypeOK, Shape
<1>2. Counted' BY DEF TypeOK, Shape, Counted, Out
<1>3. NotedBound' BY DEF TypeOK, Shape, NotedBound
<1>4. NoWait' /\ ClosedIsQuiet' BY DEF NoWait, Calls, ClosedIsQuiet
<1> QED BY <1>1, <1>2, <1>3, <1>4 DEF TypeOK

(* A put moves the demuxer's element to the fifo, and notes what is free.  *)
LEMMA PutStep == IInv /\ Put => IInv'
<1> SUFFICES ASSUME IInv, Put PROVE IInv'
  OBVIOUS
<1> USE DEF IInv, TypeOK
<1>1. /\ pcD = "put" /\ pcD' \in {"idle", "alloc"} /\ to' \in Fifos /\ kind' \in Kinds
      /\ queue' = [queue EXCEPT ![to] = Append(@, kind)]
      /\ free' = free /\ held' = held /\ open' = open /\ pcG' = pcG /\ has' = has
  BY DEF Put, Shape
<1>2. \/ cached' = cached
      \/ cached' = [cached EXCEPT ![to] = free[to]]
  BY DEF Put
<1>3. /\ enabled' \in BOOLEAN /\ buffering' \in BOOLEAN /\ paused' \subseteq Calls
      /\ taken' \in [Fifos -> 0..Slack]
      /\ ~open => buffering' = buffering
  <2>1. enabled' \in BOOLEAN /\ buffering' \in BOOLEAN
    BY Zenon DEF Put, PutData, PutEnd, Shape
  <2>2. SetPaused(Calls) \/ SetPaused({}) \/ UNCHANGED <<paused, taken>>
    BY DEF Put, PutData, PutEnd, Pause, Normal
  <2>3. paused' \subseteq Calls /\ taken' \in [Fifos -> 0..Slack]
    BY <2>2, PausedKept DEF Shape
  <2>5. ~open => buffering' = buffering
    BY DEF Put
  <2> QED BY <2>1, <2>3, <2>5
<1>4. Shape'
  <2>1. queue' \in [Fifos -> Seq(Kinds)]
    <3>1. kind \in Kinds /\ queue \in [Fifos -> Seq(Kinds)] BY DEF Shape
    <3>2. Append(queue[to], kind) \in Seq(Kinds) BY <3>1 DEF Shape
    <3> QED BY <1>1, <3>1, <3>2
  <2>2. cached' \in [Fifos -> 0..Pool]
    BY <1>2 DEF Shape
  <2> QED BY <1>1, <1>3, <2>1, <2>2 DEF Shape
<1>5. Counted'
  <2> SUFFICES ASSUME NEW f \in Fifos
               PROVE free'[f] + Len(queue'[f]) + Out(f)' = Pool
    BY DEF Counted
  <2>1. free[f] \in Int /\ Len(queue[f]) \in Int
        /\ free[f] + Len(queue[f]) + Out(f) = Pool
    BY DEF Shape, Counted
  <2>2. CASE f = to
    <3>1. queue'[f] = Append(queue[f], kind) BY <1>1, <2>2 DEF Shape
    <3>2. Len(queue'[f]) = Len(queue[f]) + 1 BY <3>1 DEF Shape
    <3>3. Out(f) = (IF held[f] = Nobody THEN 0 ELSE 1) + 1
      BY <1>1, <2>2 DEF Out
    <3>4. Out(f)' = (IF held[f] = Nobody THEN 0 ELSE 1)
      BY <1>1 DEF Out
    <3> QED BY <1>1, <2>1, <3>2, <3>3, <3>4
  <2>3. CASE f # to
    <3>1. queue'[f] = queue[f] BY <1>1, <2>3 DEF Shape
    <3> QED BY <1>1, <2>1, <2>3, <3>1 DEF Out
  <2> QED BY <2>2, <2>3
<1>6. cached'[to] = free[to] \/ ~open
  BY DEF Put, Shape
<1>7. NotedBound' BY <1>1, <1>2, <1>6 DEF NotedBound, Shape
<1>8. NoWait' /\ ClosedIsQuiet' BY <1>1, <1>3 DEF NoWait, Calls, ClosedIsQuiet
<1> QED BY <1>4, <1>5, <1>7, <1>8

(* The heart of the matter: a get callback that begins to buffer finds     *)
(* room left in its own pool, and notes of a full fifo that it is full.    *)
LEMMA GetStep == ASSUME NEW f \in Fifos PROVE IInv /\ Get(f) => IInv'
<1> SUFFICES ASSUME IInv, Get(f) PROVE IInv'
  OBVIOUS
<1> USE DEF IInv, TypeOK
<1>1. /\ queue[f] # << >> /\ held[f] = Nobody
      /\ held' = [held EXCEPT ![f] = Head(queue[f])]
      /\ queue' = [queue EXCEPT ![f] = Tail(@)]
      /\ UNCHANGED <<open, enabled, has, paused, free, pcD, to, kind>>
  BY DEF Get, dem
<1>2. cached' = IF open THEN [cached EXCEPT ![f] = free[f]] ELSE cached
  BY DEF Get
<1>3. \/ buffering' = buffering
      \/ open /\ buffering' = TRUE /\ queue'[f] = << >> /\ MayPause(f)
  BY DEF Get
<1>4. Head(queue[f]) \in Kinds /\ Tail(queue[f]) \in Seq(Kinds)
      /\ Len(Tail(queue[f])) = Len(queue[f]) - 1
  BY <1>1 DEF Shape
<1>5. Shape'
  <2>1. taken' \in [Fifos -> 0..Slack]
    <3>1. CASE Stalls(f, paused) BY <3>1 DEF Get, Shape
    <3>2. CASE ~Stalls(f, paused) BY <3>2 DEF Get, Shape
    <3> QED BY <3>1, <3>2
  <2>2. pcG' \in [Fifos -> Calls \cup {"idle"}]
    <3>1. pcG' = pcG \/ pcG' = [pcG EXCEPT ![f] = "speed"] BY DEF Get
    <3> QED BY <3>1 DEF Shape, Calls
  <2>3. buffering' \in BOOLEAN
    <3>1. buffering \in BOOLEAN BY DEF Shape
    <3>2. buffering' = buffering \/ buffering' = TRUE BY <1>3
    <3> QED BY <3>1, <3>2
  <2>4. cached' \in [Fifos -> 0..Pool] BY <1>2 DEF Shape
  <2>5. queue' \in [Fifos -> Seq(Kinds)] BY <1>1, <1>4 DEF Shape
  <2>6. held' \in [Fifos -> Kinds \cup {Nobody}] BY <1>1, <1>4 DEF Shape
  <2> QED BY <1>1, <2>1, <2>2, <2>3, <2>4, <2>5, <2>6 DEF Shape
<1>6. Counted'
  <2> SUFFICES ASSUME NEW g \in Fifos
               PROVE free'[g] + Len(queue'[g]) + Out(g)' = Pool
    BY DEF Counted
  <2>1. free[g] \in Int /\ Len(queue[g]) \in Int
        /\ free[g] + Len(queue[g]) + Out(g) = Pool
    BY DEF Shape, Counted
  <2>2. CASE g = f
    <3>1. Len(queue'[g]) = Len(queue[g]) - 1 BY <1>1, <1>4, <2>2 DEF Shape
    <3>2. held'[g] # Nobody BY <1>1, <1>4, <2>2 DEF Shape, Kinds
    <3>3. Out(g)' = Out(g) + 1 BY <1>1, <2>2, <3>2 DEF Out
    <3>4. Out(g) \in Int BY DEF Out
    <3> QED BY <1>1, <2>1, <3>1, <3>3, <3>4
  <2>3. CASE g # f
    <3>1. queue'[g] = queue[g] /\ held'[g] = held[g] BY <1>1, <2>3 DEF Shape
    <3>2. Out(g)' = Out(g) BY <1>1, <3>1 DEF Out
    <3> QED BY <1>1, <2>1, <3>1, <3>2
  <2> QED BY <2>2, <2>3
<1>7. NotedBound'
  BY <1>1, <1>2 DEF NotedBound, Shape
<1>8. NoWait'
  <2>0. pcD' = pcD /\ free' = free /\ to' = to BY <1>1
  <2>1. ASSUME open, queue'[f] = << >>, MayPause(f), pcD \in Calls \cup {"wait"},
               free[to] < 2
        PROVE FALSE
    <3>1. CASE f = to
      <4>1. Len(queue'[f]) = 0 BY <2>1
      <4>2. Out(f)' <= 1 /\ Out(f)' \in Int BY <1>1, <2>1 DEF Out, Calls
      <4>3. free'[f] + 0 + Out(f)' = Pool BY <1>6, <4>1 DEF Counted
      <4> QED BY <1>1, <2>1, <3>1, <4>2, <4>3 DEF Shape
    <3>2. CASE f # to
      <4>1. PICK g \in Fifos \ {f} : cached[g] > FullMark BY <2>1 DEF MayPause
      <4>2. g = to BY <3>2, <4>1 DEF Shape
      <4>3. cached[to] <= free[to] BY <2>1 DEF NotedBound, Calls, Shape
      <4> QED BY <2>1, <4>1, <4>2, <4>3 DEF Shape
    <3> QED BY <3>1, <3>2
  <2>2. CASE buffering' = buffering BY <2>0, <2>2 DEF NoWait
  <2>3. CASE ~(pcD \in Calls \cup {"wait"} /\ free[to] < 2) BY <2>0, <2>3 DEF NoWait
  <2> QED BY <1>3, <2>1, <2>2, <2>3
<1>9. ClosedIsQuiet' BY <1>1, <1>3 DEF ClosedIsQuiet
<1> QED BY <1>5, <1>6, <1>7, <1>8, <1>9

(* A decoder that has done with an element gives it back to its pool.      *)
LEMMA ReleaseStep == ASSUME NEW f \in Fifos PROVE IInv /\ Release(f) => IInv'
<1> SUFFICES ASSUME IInv, Release(f) PROVE IInv'
  OBVIOUS
<1> USE DEF IInv, TypeOK
<1>1. /\ held[f] # Nobody
      /\ held' = [held EXCEPT ![f] = Nobody]
      /\ free' = [free EXCEPT ![f] = @ + 1]
      /\ UNCHANGED <<open, enabled, has, cached, buffering, paused, taken, queue, pcG,
                     pcD, to, kind>>
  BY DEF Release, ctrl, dem
<1>2. Counted'
  <2> SUFFICES ASSUME NEW g \in Fifos
               PROVE free'[g] + Len(queue'[g]) + Out(g)' = Pool
    BY DEF Counted
  <2>1. free[g] \in Int /\ Len(queue[g]) \in Nat
        /\ free[g] + Len(queue[g]) + Out(g) = Pool
    BY DEF Shape, Counted
  <2>2. CASE g = f
    <3>1. free'[g] = free[g] + 1 /\ held'[g] = Nobody BY <1>1, <2>2 DEF Shape
    <3>2. Out(g)' = Out(g) - 1 BY <1>1, <2>2, <3>1 DEF Out
    <3>3. Out(g) \in Int BY DEF Out
    <3> QED BY <1>1, <2>1, <3>1, <3>2, <3>3
  <2>3. CASE g # f
    <3>1. free'[g] = free[g] /\ held'[g] = held[g] BY <1>1, <2>3 DEF Shape
    <3>2. Out(g)' = Out(g) BY <1>1, <3>1 DEF Out
    <3> QED BY <1>1, <2>1, <3>1, <3>2
  <2> QED BY <2>2, <2>3
<1>3. free' \in [Fifos -> 0..Pool]
  <2>1. Len(queue[f]) \in Nat BY DEF Shape
  <2>2. Out(f) >= 1 /\ Out(f) \in Int BY <1>1 DEF Out
  <2>3. free[f] + 1 \in 0..Pool BY <2>1, <2>2 DEF Shape, Counted
  <2> QED BY <1>1, <2>3 DEF Shape
<1>4. Shape' BY <1>1, <1>3 DEF Shape
<1>5. NotedBound' BY <1>1 DEF NotedBound, Shape
<1>6. NoWait' /\ ClosedIsQuiet' BY <1>1 DEF NoWait, ClosedIsQuiet, Shape
<1> QED BY <1>2, <1>4, <1>5, <1>6

(* The late pause of the clock, and the controller's end and beginning.    *)
LEMMA ControllerStep ==
  IInv /\ ((\E f \in Fifos : GetPauses(f)) \/ Close \/ Reopen) => IInv'
<1> SUFFICES ASSUME IInv, (\E f \in Fifos : GetPauses(f)) \/ Close \/ Reopen PROVE IInv'
  OBVIOUS
<1> USE DEF IInv, TypeOK, ctrl, pool, dem
<1>1. UNCHANGED <<free, queue, held, pcD, to, kind>>
  BY DEF GetPauses, Close, Reopen
<1>2. \A f \in Fifos : Out(f)' = Out(f) BY <1>1 DEF Out
<1>3. Counted' BY <1>1, <1>2 DEF Counted
<1>4. ASSUME NEW f \in Fifos, GetPauses(f) PROVE IInv'
  <2>1. pcG[f] \in Calls /\ SetPaused(paused \cup {pcG[f]}) BY <1>4 DEF GetPauses
  <2>2. paused \cup {pcG[f]} \in SUBSET Calls BY <2>1 DEF Shape
  <2>3. taken' \in [Fifos -> 0..Slack] /\ paused' \subseteq Calls
    BY <2>1, <2>2, PausedKept DEF Shape
  <2>4. pcG' \in [Fifos -> Calls \cup {"idle"}]
    BY <1>4 DEF GetPauses, Following, Calls, Shape
  <2>5. Shape' BY <1>1, <1>4, <2>3, <2>4 DEF GetPauses, Shape
  <2> QED BY <1>3, <1>4, <2>5 DEF GetPauses, NotedBound, NoWait, ClosedIsQuiet
<1>5. CASE Close
  <2>1. SetPaused({}) \/ SetPaused(paused \ {"option"}) BY <1>5 DEF Close, Normal
  <2>2. paused \ {"option"} \in SUBSET Calls BY DEF Shape
  <2>3. taken' \in [Fifos -> 0..Slack] /\ paused' \subseteq Calls
    BY <2>1, <2>2, PausedKept DEF Shape
  <2>4. Shape' BY <1>5, <2>3 DEF Close, Shape
  <2> QED BY <1>3, <1>5, <2>4 DEF Close, NotedBound, NoWait, ClosedIsQuiet
<1>6. CASE Reopen
  <2>1. Shape'
    <3>1. cached' \in [Fifos -> 0..Pool] /\ has' = {} BY <1>6 DEF Reopen
    <3> QED BY <1>6, <3>1 DEF Reopen, Shape
  <2>2. NotedBound' BY <1>6 DEF Reopen, NotedBound, Shape
  <2> QED BY <1>3, <1>6, <2>1, <2>2 DEF Reopen, NoWait, ClosedIsQuiet
<1> QED BY <1>4, <1>5, <1>6

LEMMA StepIInv == IInv /\ [Next]_vars => IInv'
<1> SUFFICES ASSUME IInv, [Next]_vars PROVE IInv'
  OBVIOUS
<1>1. CASE UNCHANGED vars
  BY <1>1 DEF vars, ctrl, pool, dem, IInv, TypeOK, Shape, Counted, Out,
              NotedBound, NoWait, ClosedIsQuiet
<1>2. CASE Next
  BY <1>2, AskStep, TakeStep, PutStep, GetStep, ReleaseStep, ControllerStep
     DEF Next, Demuxer
<1> QED BY <1>1, <1>2

LEMMA NetBufInvariant == Spec => []IInv
  BY InitIInv, StepIInv, PTL DEF Spec

-----------------------------------------------------------------------------
(* The controller's state has its type, and every element is in one place: *)
(* its pool, its fifo, the decoder or the demuxer.                         *)
THEOREM NetBufTypeCorrect == Spec => []TypeOK
<1>1. IInv => TypeOK BY DEF IInv
<1> QED BY <1>1, NetBufInvariant, PTL

(* The demuxer never sleeps in buffer_pool_alloc while the stream buffers  *)
(* (nbc_alloc_cb, "to avoid deadlock"): the sleep would never end.         *)
THEOREM NetBufNoWaitWhileBuffering == Spec => []NoWaitWhileBuffering
<1>1. IInv => NoWaitWhileBuffering
  BY DEF IInv, NoWait, NoWaitWhileBuffering
<1> QED BY <1>1, NetBufInvariant, PTL
=============================================================================
