------------------------- MODULE FifoBuffer_proofs --------------------------
(***************************************************************************)
(* Proofs about the buffer fifo of buffer.c for every number of elements   *)
(* and threads.  The inductive invariant IInv conjoins the properties that *)
(* TLC checks with three facts about control: who owns an element, who     *)
(* holds the mutex, and what dispose may rely on.                          *)
(***************************************************************************)
EXTENDS FifoBuffer, ListOps_proofs

-----------------------------------------------------------------------------
(* Sequences: the three ways in which the list changes.                    *)

(* Unlinking the element at position i moves the ones behind it up.        *)
LEMMA RemoveAtFacts ==
  ASSUME NEW S, NEW s \in Seq(S), NEW i \in 1..Len(s)
  PROVE  /\ RemoveAt(s, i) \in Seq(S)
         /\ Len(RemoveAt(s, i)) = Len(s) - 1
         /\ \A j \in 1..Len(s) - 1 :
              RemoveAt(s, i)[j] = IF j < i THEN s[j] ELSE s[j + 1]
<1> DEFINE a == SubSeq(s, 1, i - 1)
           b == SubSeq(s, i + 1, Len(s))
<1>1. /\ Len(s) \in Nat
      /\ \A j \in 1..Len(s) : s[j] \in S
  BY LenProperties, ElementOfSeq
<1>2. /\ a \in Seq(S)
      /\ Len(a) = i - 1
      /\ \A j \in 1..i - 1 : a[j] = s[j]
  <2>1. \A j \in 1..i - 1 : s[j] \in S
    BY <1>1
  <2> QED
    BY <1>1, <2>1, SubSeqProperties
<1>3. /\ b \in Seq(S)
      /\ Len(b) = Len(s) - i
      /\ \A j \in 1..Len(s) - i : b[j] = s[i + j]
  <2>1. \A j \in i + 1..Len(s) : s[j] \in S
    BY <1>1
  <2>2. /\ b \in Seq(S)
        /\ Len(b) = IF i + 1 <= Len(s) THEN Len(s) - (i + 1) + 1 ELSE 0
        /\ \A j \in 1..Len(s) - (i + 1) + 1 : b[j] = s[i + 1 + j - 1]
    BY <1>1, <2>1, SubSeqProperties
  <2> QED
    BY <1>1, <2>2
<1> DEFINE c == a \o b
<1>4. /\ c \in Seq(S)
      /\ Len(c) = Len(a) + Len(b)
      /\ \A j \in 1..Len(a) + Len(b) :
           c[j] = IF j <= Len(a) THEN a[j] ELSE b[j - Len(a)]
  BY <1>2, <1>3, ConcatProperties
<1>5. RemoveAt(s, i) = c
  BY DEF RemoveAt
<1> HIDE DEF a, b, c
<1>6. Len(a) + Len(b) = Len(s) - 1
  BY <1>1, <1>2, <1>3
<1>7. ASSUME NEW j \in 1..Len(s) - 1, j < i
      PROVE  c[j] = s[j]
  BY <1>7, <1>1, <1>2, <1>4, <1>6
<1>8. ASSUME NEW j \in 1..Len(s) - 1, j >= i
      PROVE  c[j] = s[j + 1]
  <2>1. c[j] = b[j - (i - 1)]
    BY <1>8, <1>1, <1>2, <1>4, <1>6
  <2>2. j - (i - 1) \in 1..Len(s) - i
    BY <1>8, <1>1
  <2>3. b[j - (i - 1)] = s[i + (j - (i - 1))]
    BY <2>2, <1>3
  <2>4. i + (j - (i - 1)) = j + 1
    BY <1>1
  <2> QED
    BY <2>1, <2>3, <2>4
<1>9. \A j \in 1..Len(s) - 1 : c[j] = IF j < i THEN s[j] ELSE s[j + 1]
  BY <1>1, <1>7, <1>8
<1> QED
  BY <1>1, <1>4, <1>5, <1>6, <1>9

(* Inserting at the head moves every element down.                         *)
LEMMA RemoveAtWithout ==
  ASSUME NEW S, NEW s \in Seq(S), NEW i \in 1..Len(s)
  PROVE  RemoveAt(s, i) \in Seq(S) /\ Without(s, i, RemoveAt(s, i))
<1>1. PICK r : r = RemoveAt(s, i)
  OBVIOUS
<1>2. /\ r \in Seq(S) /\ Len(r) = Len(s) - 1
      /\ \A j \in 1..Len(s) - 1 : r[j] = IF j < i THEN s[j] ELSE s[j + 1]
  BY <1>1, RemoveAtFacts
<1>3. Without(s, i, r)
  BY <1>2 DEF Without
<1> QED BY <1>1, <1>2, <1>3

LEMMA PrependFacts ==
  ASSUME NEW S, NEW s \in Seq(S), NEW e \in S
  PROVE  /\ <<e>> \o s \in Seq(S)
         /\ Len(<<e>> \o s) = Len(s) + 1
         /\ \A j \in 1..Len(s) + 1 :
              (<<e>> \o s)[j] = IF j = 1 THEN e ELSE s[j - 1]
<1>1. <<e>> \in Seq(S) /\ Len(<<e>>) = 1 /\ <<e>>[1] = e
  OBVIOUS
<1>2. Len(s) \in Nat
  BY LenProperties
<1>3. \A j \in 1..Len(<<e>>) + Len(s) :
        (<<e>> \o s)[j] = IF j <= Len(<<e>>) THEN <<e>>[j] ELSE s[j - Len(<<e>>)]
  BY <1>1, ConcatProperties
<1>4. <<e>> \o s \in Seq(S) /\ Len(<<e>> \o s) = Len(<<e>>) + Len(s)
  BY <1>1, ConcatProperties
<1> QED
  BY <1>1, <1>2, <1>3, <1>4

-----------------------------------------------------------------------------
(* The inductive invariant.                                                *)

(* A thread holds an element exactly between getting it and giving it up.  *)
OwnInv == \A t \in Threads : held[t] # NoElem <=> pc[t] = "own"

(* Only a thread inside clear keeps the mutex from step to step.           *)
LockInv == \A t \in Threads : fifoLock = t <=> pc[t] = "clear"

(* Once dispose is called, one thread is at work; elements are destroyed   *)
(* only after its clear, and none of them is handed out again.             *)
DisposeInv ==
  /\ phase = "disposing" => \A t \in Threads :
       pc[t] \in {"ready", "clear", "disposePool", "drain", "gone"}
  /\ phase = "disposing" => \A t, u \in Threads : pc[t] # "ready" /\ pc[u] # "ready" => t = u
  /\ \A t \in Threads : pc[t] \in {"disposePool", "drain", "gone"} => phase = "disposing"
  /\ destroyed # {} => /\ phase = "disposing"
                       /\ \A t \in Threads : pc[t] \in {"ready", "drain", "gone"}
  /\ \A i \in 1..Len(fifo) : fifo[i] \notin destroyed

(* Control: what follows from the program counters alone.                  *)
ControlInv == TypeOK /\ OwnInv /\ LockInv

(* pthread_cond_signal changes the program counter of a sleeper, if any.   *)
LEMMA SignalFacts ==
  ASSUME NEW p \in [Threads -> PCs], NEW a \in PCs, NEW w \in PCs, a # w,
         NEW q \in Signal(p, a, w)
  PROVE  /\ q \in [Threads -> PCs]
         /\ \A t \in Threads : q[t] = p[t] \/ (p[t] = a /\ q[t] = w)
         /\ \/ q = p /\ \A t \in Threads : p[t] # a
            \/ \E u \in Threads : p[u] = a /\ q = [p EXCEPT ![u] = w]
  BY DEF Signal

LEMMA SignalPoolFacts ==
  ASSUME NEW p \in [Threads -> PCs], NEW q \in SignalPool(p)
  PROVE  /\ q \in [Threads -> PCs]
         /\ \A t \in Threads : q[t] = p[t] \/ (p[t] = "allocSleep" /\ q[t] = "alloc")
         /\ \/ \A t \in Threads : q[t] # "allocSleep"
            \/ \E t \in Threads : p[t] = "allocSleep" /\ q[t] = "alloc"
  BY SignalFacts DEF SignalPool, PCs

LEMMA SignalFifoFacts ==
  ASSUME NEW p \in [Threads -> PCs], NEW q \in SignalFifo(p)
  PROVE  /\ q \in [Threads -> PCs]
         /\ \A t \in Threads : q[t] = p[t] \/ (p[t] = "getSleep" /\ q[t] = "get")
         /\ \/ \A t \in Threads : q[t] # "getSleep"
            \/ \E t \in Threads : p[t] = "getSleep" /\ q[t] = "get"
  BY SignalFacts DEF SignalFifo, PCs

LEMMA ControlInit == Init => ControlInv
<1> SUFFICES ASSUME Init PROVE ControlInv
  OBVIOUS
<1>1. Cardinality(Elements) \in Nat
  BY ElementsAssumption, FS_CardinalityType
<1>2. << >> \in Seq(Elements)
  BY EmptySeq
<1>3. TypeOK
  BY <1>1, <1>2 DEF Init, TypeOK, Capacity, Kinds, PCs
<1>4. OwnInv /\ LockInv
  BY NullAssumption DEF Init, OwnInv, LockInv
<1> QED
  BY <1>3, <1>4 DEF ControlInv

(* Steps that move no element and change no count.                         *)
Quiet(t) ==
  \/ CallAlloc(t) \/ AllocSleep(t) \/ CallGet(t) \/ GetSleep(t)
  \/ ClearStart(t) \/ ClearKeep(t) \/ ClearEnd(t)
  \/ Dispose(t) \/ DisposeEnd(t) \/ SpuriousWakeup(t)

LEMMA NextSplit ==
  ASSUME Next
  PROVE  \/ Terminated
         \/ \E t \in Threads :
              \/ Quiet(t) \/ AllocTake(t) \/ TryAlloc(t)
              \/ \E k \in Kinds, s \in Sizes : Put(t, k, s)
              \/ Insert(t) \/ GetTake(t) \/ Free(t) \/ ClearDrop(t)
              \/ DisposePool(t) \/ Drain(t)
  BY DEF Next, Producing, Consuming, Inserting, Clearing, Disposing, Threads, Quiet

LEMMA ControlStep == ControlInv /\ [Next]_vars => ControlInv'
<1> SUFFICES ASSUME ControlInv, [Next]_vars PROVE ControlInv'
  OBVIOUS
<1> USE NullAssumption DEF ControlInv, TypeOK, OwnInv, LockInv, poolVars, fifoVars,
        elemVars, PCs, Kinds
<1>1. CASE UNCHANGED vars
  BY <1>1 DEF vars
<1>2. ASSUME NEW t \in Threads, CallAlloc(t) PROVE ControlInv'
  BY <1>2 DEF CallAlloc, Starts
<1>3. ASSUME NEW t \in Threads, AllocSleep(t) PROVE ControlInv'
  BY <1>3 DEF AllocSleep
<1>4. ASSUME NEW t \in Threads, AllocTake(t) PROVE ControlInv'
  BY <1>4 DEF AllocTake, TakeFromPool
<1>5. ASSUME NEW t \in Threads, TryAlloc(t) PROVE ControlInv'
  BY <1>5 DEF TryAlloc, TakeFromPool, Starts
<1>6. ASSUME NEW t \in Threads, NEW k \in Kinds, NEW s \in Sizes, Put(t, k, s)
      PROVE  ControlInv'
  <2>1. /\ held[t] \in Elements
        /\ Append(fifo, held[t]) \in Seq(Elements)
    BY <1>6, AppendProperties DEF Put
  <2>2. /\ pc' \in [Threads -> PCs]
        /\ pc'[t] = "ready"
        /\ \A u \in Threads \ {t} :
             pc'[u] = pc[u] \/ (pc[u] = "getSleep" /\ pc'[u] = "get")
    <3> DEFINE r == [pc EXCEPT ![t] = "ready"]
    <3>1. pc' \in SignalFifo(r)
      BY <1>6 DEF Put
    <3>2. r \in [Threads -> PCs] /\ r[t] = "ready" /\ \A u \in Threads \ {t} : r[u] = pc[u]
      OBVIOUS
    <3> HIDE DEF r
    <3>3. /\ pc' \in [Threads -> PCs]
          /\ \A u \in Threads : pc'[u] = r[u] \/ (r[u] = "getSleep" /\ pc'[u] = "get")
      BY <3>1, <3>2, SignalFifoFacts
    <3> QED
      BY <3>2, <3>3
  <2>3. s \in Nat
    BY SizesAssumption
  <2> QED
    <3>1. /\ kind' = [kind EXCEPT ![held[t]] = k]
          /\ size' = [size EXCEPT ![held[t]] = s]
          /\ held' = [held EXCEPT ![t] = NoElem]
          /\ fifo' = Append(fifo, held[t])
          /\ fifoSize' = fifoSize + 1
          /\ dataSize' = dataSize + size'[held[t]]
          /\ UNCHANGED <<poolVars, emergency, fifoLock, pos, phase, destroyed>>
          /\ pc[t] = "own"
      BY <1>6 DEF Put, Fill, Link, GiveUp
    <3>2. kind' \in [Elements -> Kinds] /\ size' \in [Elements -> Nat]
      BY <2>1, <2>3, <3>1
    <3>3. size'[held[t]] \in Nat
      BY <2>1, <3>2
    <3>4. TypeOK'
      BY <2>1, <2>2, <3>1, <3>2, <3>3
    <3>5. OwnInv' /\ LockInv'
      <4>1. /\ held' = [held EXCEPT ![t] = NoElem]
            /\ fifoLock' = fifoLock
            /\ pc[t] = "own"
        BY <3>1
      <4> QED
        BY <2>2, <4>1
    <3> HIDE DEF TypeOK, OwnInv, LockInv
    <3> QED
      BY <3>4, <3>5
<1>7. ASSUME NEW t \in Threads, Insert(t) PROVE ControlInv'
  <2>1. /\ held[t] \in Elements
        /\ <<held[t]>> \o fifo \in Seq(Elements)
    BY <1>7, PrependFacts DEF Insert
  <2>2. /\ pc' \in [Threads -> PCs]
        /\ pc'[t] = "ready"
        /\ \A u \in Threads \ {t} :
             pc'[u] = pc[u] \/ (pc[u] = "getSleep" /\ pc'[u] = "get")
    <3> DEFINE r == [pc EXCEPT ![t] = "ready"]
    <3>1. pc' \in SignalFifo(r)
      BY <1>7 DEF Insert
    <3>2. r \in [Threads -> PCs] /\ r[t] = "ready" /\ \A u \in Threads \ {t} : r[u] = pc[u]
      OBVIOUS
    <3> HIDE DEF r
    <3>3. /\ pc' \in [Threads -> PCs]
          /\ \A u \in Threads : pc'[u] = r[u] \/ (r[u] = "getSleep" /\ pc'[u] = "get")
      BY <3>1, <3>2, SignalFifoFacts
    <3> QED
      BY <3>2, <3>3
  <2> QED
    <3>1. /\ kind' = [kind EXCEPT ![held[t]] = "control"]
          /\ size' = [size EXCEPT ![held[t]] = 0]
          /\ held' = [held EXCEPT ![t] = NoElem]
          /\ fifo' = <<held[t]>> \o fifo
          /\ fifoSize' = fifoSize + 1
          /\ dataSize' = dataSize + size'[held[t]]
          /\ UNCHANGED <<poolVars, emergency, fifoLock, pos, phase, destroyed>>
          /\ pc[t] = "own"
      BY <1>7 DEF Insert, Fill, GiveUp
    <3>2. kind' \in [Elements -> Kinds] /\ size' \in [Elements -> Nat]
      BY <2>1, <3>1
    <3>3. size'[held[t]] \in Nat
      BY <2>1, <3>2
    <3>4. TypeOK'
      BY <2>1, <2>2, <3>1, <3>2, <3>3
    <3>5. OwnInv' /\ LockInv'
      <4>1. /\ held' = [held EXCEPT ![t] = NoElem]
            /\ fifoLock' = fifoLock
            /\ pc[t] = "own"
        BY <3>1
      <4> QED
        BY <2>2, <4>1
    <3> HIDE DEF TypeOK, OwnInv, LockInv
    <3> QED
      BY <3>4, <3>5
<1>8. ASSUME NEW t \in Threads, CallGet(t) PROVE ControlInv'
  BY <1>8 DEF CallGet, Starts
<1>9. ASSUME NEW t \in Threads, GetSleep(t) PROVE ControlInv'
  BY <1>9 DEF GetSleep
<1>10. ASSUME NEW t \in Threads, GetTake(t) PROVE ControlInv'
  <2>1. Head(fifo) \in Elements /\ Tail(fifo) \in Seq(Elements)
    BY <1>10, HeadTailProperties DEF GetTake, RemoveHead
  <2> QED
    BY <1>10, <2>1 DEF GetTake, RemoveHead
<1>11. ASSUME NEW t \in Threads, Free(t) PROVE ControlInv'
  <2>1. held[t] \in Elements
    BY <1>11 DEF Free
  <2>2. /\ pc' \in [Threads -> PCs]
        /\ pc'[t] = "ready"
        /\ \A u \in Threads \ {t} :
             pc'[u] = pc[u] \/ (pc[u] = "allocSleep" /\ pc'[u] = "alloc")
    <3> DEFINE r == [pc EXCEPT ![t] = "ready"]
    <3>1. pc' \in SignalPool(r)
      BY <1>11 DEF Free
    <3>2. r \in [Threads -> PCs] /\ r[t] = "ready" /\ \A u \in Threads \ {t} : r[u] = pc[u]
      OBVIOUS
    <3> HIDE DEF r
    <3>3. /\ pc' \in [Threads -> PCs]
          /\ \A u \in Threads : pc'[u] = r[u] \/ (r[u] = "allocSleep" /\ pc'[u] = "alloc")
      BY <3>1, <3>2, SignalPoolFacts
    <3> QED
      BY <3>2, <3>3
  <2> QED
    <3>1. /\ pool' = pool \cup {held[t]}
          /\ numFree' = numFree + 1
          /\ emergency' = emergency \ {held[t]}
          /\ held' = [held EXCEPT ![t] = NoElem]
          /\ UNCHANGED <<fifoVars, elemVars, fifoLock, pos, phase, destroyed>>
          /\ pc[t] = "own"
      BY <1>11 DEF Free, ReturnToPool, GiveUp
    <3> QED
      BY <2>1, <2>2, <3>1
<1>12. ASSUME NEW t \in Threads, ClearStart(t) PROVE ControlInv'
  BY <1>12 DEF ClearStart, Starts
<1>13. ASSUME NEW t \in Threads, ClearKeep(t) PROVE ControlInv'
  BY <1>13 DEF ClearKeep
<1>14. ASSUME NEW t \in Threads, ClearDrop(t) PROVE ControlInv'
  <2>1. Len(fifo) \in Nat
    BY LenProperties
  <2>2. CASE pos \in 1..Len(fifo)
    <3>1. fifo[pos] \in Elements /\ RemoveAt(fifo, pos) \in Seq(Elements)
      BY <2>2, ElementOfSeq, RemoveAtFacts
    <3>2. /\ pc' \in [Threads -> PCs]
          /\ \A u \in Threads : pc'[u] = pc[u] \/ (pc[u] = "allocSleep" /\ pc'[u] = "alloc")
      BY <1>14, SignalPoolFacts DEF ClearDrop
    <3> QED
      <4>1. /\ fifo' = RemoveAt(fifo, pos)
            /\ fifoSize' = fifoSize - 1
            /\ dataSize' = dataSize - size[fifo[pos]]
            /\ pool' = pool \cup {fifo[pos]}
            /\ numFree' = numFree + 1
            /\ emergency' = emergency \ {fifo[pos]}
            /\ UNCHANGED <<elemVars, held, fifoLock, pos, phase, destroyed>>
            /\ pc[t] = "clear"
        BY <1>14 DEF ClearDrop, Unlink, ReturnToPool
      <4> QED
        BY <3>1, <3>2, <4>1
  <2> QED
    BY <1>14, <2>1, <2>2 DEF ClearDrop
<1>15. ASSUME NEW t \in Threads, ClearEnd(t) PROVE ControlInv'
  BY <1>15 DEF ClearEnd
<1>16. ASSUME NEW t \in Threads, Dispose(t) PROVE ControlInv'
  BY <1>16 DEF Dispose, Starts
<1>17. ASSUME NEW t \in Threads, DisposePool(t) PROVE ControlInv'
  BY <1>17 DEF DisposePool
<1>18. ASSUME NEW t \in Threads, Drain(t) PROVE ControlInv'
  <2>1. Head(fifo) \in Elements /\ Tail(fifo) \in Seq(Elements)
    BY <1>18, HeadTailProperties DEF Drain, RemoveHead
  <2> QED
    BY <1>18, <2>1 DEF Drain, RemoveHead
<1>19. ASSUME NEW t \in Threads, DisposeEnd(t) PROVE ControlInv'
  BY <1>19 DEF DisposeEnd
<1>20. ASSUME NEW t \in Threads, SpuriousWakeup(t) PROVE ControlInv'
  BY <1>20 DEF SpuriousWakeup
<1> HIDE DEF ControlInv, TypeOK, OwnInv, LockInv, poolVars, fifoVars, elemVars, PCs,
        Kinds
<1> QED
  BY <1>1, <1>2, <1>3, <1>4, <1>5, <1>6, <1>7, <1>8, <1>9, <1>10, <1>11, <1>12,
     <1>13, <1>14, <1>15, <1>16, <1>17, <1>18, <1>19, <1>20, NextSplit
  DEF Terminated, Quiet

-----------------------------------------------------------------------------
(* Every element stays in one place: the six ways in which one moves.      *)

LEMMA PlaceInit == Init => OnePlace
  BY NullAssumption DEF Init, OnePlace, ListApart, HeldApart, NothingLost, Distinct

(* From the pool to a thread.                                              *)
LEMMA TakeMoves ==
  ASSUME ControlInv, OnePlace, NEW t \in Threads, NEW e \in pool,
         TakeFromPool(t, e), pc[t] # "own", UNCHANGED <<fifo, destroyed>>
  PROVE  OnePlace'
<1> USE NullAssumption DEF OnePlace, ListApart, HeldApart, NothingLost, Distinct
<1>1. /\ pool' = pool \ {e}
      /\ held' = [held EXCEPT ![t] = e]
      /\ held[t] = NoElem
      /\ e \in Elements
      /\ fifo' = fifo /\ destroyed' = destroyed
      /\ held \in [Threads -> Elements \cup {NoElem}]
  BY DEF TakeFromPool, ControlInv, TypeOK, OwnInv
<1>2. ListApart'
  BY <1>1
<1>3. HeldApart'
  BY <1>1
<1>4. NothingLost'
  BY <1>1
<1> QED
  BY <1>2, <1>3, <1>4

(* From a thread to the end of the list, ...                               *)
LEMMA PutMoves ==
  ASSUME ControlInv, OnePlace, NEW t \in Threads, pc[t] = "own",
         fifo' = Append(fifo, held[t]), GiveUp(t), UNCHANGED <<pool, destroyed>>
  PROVE  OnePlace'
<1> USE NullAssumption DEF OnePlace, ListApart, HeldApart, NothingLost, Distinct
<1>1. /\ held' = [held EXCEPT ![t] = NoElem]
      /\ held[t] # NoElem /\ held[t] \in Elements
      /\ pool' = pool /\ destroyed' = destroyed
      /\ held \in [Threads -> Elements \cup {NoElem}]
      /\ fifo \in Seq(Elements)
  BY DEF GiveUp, ControlInv, TypeOK, OwnInv
<1>2. /\ Len(fifo) \in Nat
      /\ Len(fifo') = Len(fifo) + 1
      /\ \A i \in 1..Len(fifo) : fifo'[i] = fifo[i]
      /\ fifo'[Len(fifo) + 1] = held[t]
  BY <1>1, AppendProperties, LenProperties
<1>3. ListApart'
  BY <1>1, <1>2
<1>4. HeldApart'
  BY <1>1, <1>2
<1>5. NothingLost'
  BY <1>1, <1>2
<1> QED
  BY <1>3, <1>4, <1>5

(* ... or to its head.                                                     *)
LEMMA InsertMoves ==
  ASSUME ControlInv, OnePlace, NEW t \in Threads, pc[t] = "own",
         fifo' = <<held[t]>> \o fifo, GiveUp(t), UNCHANGED <<pool, destroyed>>
  PROVE  OnePlace'
<1> USE NullAssumption DEF OnePlace, ListApart, HeldApart, NothingLost, Distinct
<1>1. /\ held' = [held EXCEPT ![t] = NoElem]
      /\ held[t] # NoElem /\ held[t] \in Elements
      /\ pool' = pool /\ destroyed' = destroyed
      /\ held \in [Threads -> Elements \cup {NoElem}]
      /\ fifo \in Seq(Elements)
  BY DEF GiveUp, ControlInv, TypeOK, OwnInv
<1>2. /\ Len(fifo) \in Nat
      /\ Len(fifo') = Len(fifo) + 1
      /\ \A i \in 1..Len(fifo) + 1 : fifo'[i] = IF i = 1 THEN held[t] ELSE fifo[i - 1]
  BY <1>1, PrependFacts, LenProperties
<1>3. /\ fifo'[1] = held[t]
      /\ \A i \in 1..Len(fifo) : fifo'[i + 1] = fifo[i]
      /\ \A i \in 2..Len(fifo) + 1 : fifo'[i] = fifo[i - 1]
  BY <1>2
<1>4. ListApart'
  BY <1>1, <1>2, <1>3
<1>5. HeldApart'
  BY <1>1, <1>2, <1>3
<1>6. NothingLost'
  BY <1>1, <1>2, <1>3
<1> QED
  BY <1>4, <1>5, <1>6

(* From the head of the list to a thread, ...                              *)
LEMMA GetMoves ==
  ASSUME ControlInv, OnePlace, NEW t \in Threads, pc[t] # "own", RemoveHead,
         held' = [held EXCEPT ![t] = Head(fifo)], UNCHANGED <<pool, destroyed>>
  PROVE  OnePlace'
<1> USE NullAssumption DEF OnePlace, ListApart, HeldApart, NothingLost, Distinct
<1>1. /\ held[t] = NoElem
      /\ pool' = pool /\ destroyed' = destroyed
      /\ held \in [Threads -> Elements \cup {NoElem}]
      /\ fifo \in Seq(Elements) /\ fifo # << >> /\ fifo' = Tail(fifo)
  BY DEF RemoveHead, ControlInv, TypeOK, OwnInv
<1>2. /\ Len(fifo) \in Nat \ {0}
      /\ Len(fifo') = Len(fifo) - 1
      /\ \A i \in 1..Len(fifo) - 1 : fifo'[i] = fifo[i + 1]
      /\ Head(fifo) = fifo[1] /\ fifo[1] \in Elements
  BY <1>1, HeadTailProperties, EmptySeq, ElementOfSeq
<1>3. \A i \in 2..Len(fifo) : fifo[i] = fifo'[i - 1]
  BY <1>2
<1>4. ListApart'
  BY <1>1, <1>2
<1>5. HeldApart'
  BY <1>1, <1>2
<1>6. NothingLost'
  BY <1>1, <1>2, <1>3
<1> QED
  BY <1>4, <1>5, <1>6

(* ... or to the heap, when the list is drained.                           *)
LEMMA DrainMoves ==
  ASSUME ControlInv, OnePlace, RemoveHead, destroyed' = destroyed \cup {Head(fifo)},
         UNCHANGED <<pool, held>>
  PROVE  OnePlace'
<1> USE NullAssumption DEF OnePlace, ListApart, HeldApart, NothingLost, Distinct
<1>1. /\ pool' = pool /\ held' = held
      /\ fifo \in Seq(Elements) /\ fifo # << >> /\ fifo' = Tail(fifo)
  BY DEF RemoveHead, ControlInv, TypeOK
<1>2. /\ Len(fifo) \in Nat \ {0}
      /\ Len(fifo') = Len(fifo) - 1
      /\ \A i \in 1..Len(fifo) - 1 : fifo'[i] = fifo[i + 1]
      /\ Head(fifo) = fifo[1] /\ fifo[1] \in Elements
  BY <1>1, HeadTailProperties, EmptySeq, ElementOfSeq
<1>3. \A i \in 2..Len(fifo) : fifo[i] = fifo'[i - 1]
  BY <1>2
<1>4. ListApart'
  BY <1>1, <1>2
<1>5. HeldApart'
  BY <1>1, <1>2
<1>6. NothingLost'
  <2>1. destroyed' = destroyed \cup {fifo[1]}
    BY <1>2
  <2>2. ASSUME NEW e \in Elements, NEW i \in 1..Len(fifo), fifo[i] = e
        PROVE  e \in destroyed' \/ \E k \in 1..Len(fifo') : fifo'[k] = e
    <3>1. CASE i = 1
      BY <2>1, <2>2, <3>1
    <3>2. CASE i # 1
      <4>1. i - 1 \in 1..Len(fifo') /\ fifo'[i - 1] = e
        BY <1>2, <1>3, <2>2, <3>2
      <4> QED
        BY <4>1
    <3> QED
      BY <3>1, <3>2
  <2> QED
    BY <1>1, <2>1, <2>2
<1> QED
  BY <1>4, <1>5, <1>6

(* From a thread to the pool.                                              *)
LEMMA FreeMoves ==
  ASSUME ControlInv, OnePlace, NEW t \in Threads, pc[t] = "own",
         ReturnToPool(held[t]), GiveUp(t), UNCHANGED <<fifo, destroyed>>
  PROVE  OnePlace'
<1> USE NullAssumption DEF OnePlace, ListApart, HeldApart, NothingLost, Distinct
<1>1. /\ held' = [held EXCEPT ![t] = NoElem]
      /\ held[t] # NoElem
      /\ pool' = pool \cup {held[t]}
      /\ fifo' = fifo /\ destroyed' = destroyed
      /\ held \in [Threads -> Elements \cup {NoElem}]
  BY DEF GiveUp, ReturnToPool, ControlInv, TypeOK, OwnInv
<1>2. ListApart'
  BY <1>1
<1>3. HeldApart'
  BY <1>1
<1>4. NothingLost'
  BY <1>1
<1> QED
  BY <1>2, <1>3, <1>4

(* From the middle of the list to the pool.                                *)
LEMMA UnlinkMoves ==
  ASSUME ControlInv, OnePlace, pos <= Len(fifo), fifo' = RemoveAt(fifo, pos),
         ReturnToPool(fifo[pos]), UNCHANGED <<held, destroyed>>
  PROVE  OnePlace'
<1>1. /\ pool' = pool \cup {fifo[pos]}
      /\ held' = held /\ destroyed' = destroyed
      /\ fifo \in Seq(Elements) /\ Len(fifo) \in Nat /\ pos \in 1..Len(fifo)
  BY LenProperties DEF ReturnToPool, ControlInv, TypeOK
<1>2. /\ Len(fifo') = Len(fifo) - 1
      /\ \A i \in 1..Len(fifo) - 1 : fifo'[i] = IF i < pos THEN fifo[i] ELSE fifo[i + 1]
  BY <1>1, RemoveAtFacts, Zenon
<1> USE NullAssumption DEF OnePlace, ListApart, HeldApart, NothingLost, Distinct
<1>3. /\ \A i \in 1..Len(fifo') : \E j \in 1..Len(fifo) : fifo'[i] = fifo[j]
      /\ \A i \in 1..Len(fifo) : i < pos => fifo'[i] = fifo[i] /\ i \in 1..Len(fifo')
      /\ \A i \in 1..Len(fifo) : i > pos => fifo'[i - 1] = fifo[i] /\ i - 1 \in 1..Len(fifo')
  <2>1. ASSUME NEW i \in 1..Len(fifo')
        PROVE  \E j \in 1..Len(fifo) : fifo'[i] = fifo[j]
    BY <1>1, <1>2
  <2>2. ASSUME NEW i \in 1..Len(fifo), i < pos
        PROVE  fifo'[i] = fifo[i] /\ i \in 1..Len(fifo')
    BY <1>1, <1>2, <2>2
  <2>3. ASSUME NEW i \in 1..Len(fifo), i > pos
        PROVE  fifo'[i - 1] = fifo[i] /\ i - 1 \in 1..Len(fifo')
    <3>1. i - 1 \in 1..Len(fifo) - 1 /\ ~(i - 1 < pos) /\ (i - 1) + 1 = i
      BY <1>1, <2>3
    <3> QED
      BY <1>2, <3>1
  <2> QED
    BY <2>1, <2>2, <2>3
<1>4. ListApart'
  <2>1. ASSUME NEW i \in 1..Len(fifo'), NEW j \in 1..Len(fifo'), fifo'[i] = fifo'[j]
        PROVE  i = j
    <3> DEFINE old(k) == IF k < pos THEN k ELSE k + 1
    <3>1. \A k \in 1..Len(fifo') : old(k) \in 1..Len(fifo) /\ fifo'[k] = fifo[old(k)]
      BY <1>1, <1>2
    <3>2. i \in Int /\ j \in Int /\ pos \in Int
      BY <1>1, <1>2
    <3>3. old(i) = old(j) => i = j
      BY <3>2
    <3> HIDE DEF old
    <3>4. old(i) = old(j)
      BY <2>1, <3>1
    <3> QED
      BY <3>3, <3>4
  <2>2. ASSUME NEW i \in 1..Len(fifo') PROVE fifo'[i] \notin pool'
    <3> DEFINE old == IF i < pos THEN i ELSE i + 1
    <3>1. old \in 1..Len(fifo) /\ fifo'[i] = fifo[old] /\ old # pos
      BY <1>1, <1>2
    <3> QED
      BY <1>1, <3>1
  <2> QED
    BY <2>1, <2>2
<1>5. HeldApart'
  BY <1>1, <1>2, <1>3
<1>6. NothingLost'
  <2>1. ASSUME NEW e \in Elements, NEW i \in 1..Len(fifo), fifo[i] = e
        PROVE  e \in pool' \/ \E j \in 1..Len(fifo') : fifo'[j] = e
    <3>1. CASE i = pos
      BY <1>1, <2>1, <3>1
    <3>2. CASE i < pos
      BY <1>1, <1>3, <2>1, <3>2
    <3>3. CASE i > pos
      BY <1>1, <1>3, <2>1, <3>3
    <3> QED
      BY <1>1, <3>1, <3>2, <3>3
  <2> QED
    BY <1>1, <2>1
<1> QED
  BY <1>4, <1>5, <1>6

-----------------------------------------------------------------------------
(* The steps, sorted by what they move.                                    *)

LEMMA QuietFacts ==
  ASSUME NEW t \in Threads, Quiet(t)
  PROVE  UNCHANGED <<pool, numFree, fifo, fifoSize, held, emergency, destroyed, kind>>
  BY DEF Quiet, CallAlloc, AllocSleep, CallGet, GetSleep, ClearStart, ClearKeep,
         ClearEnd, Dispose, DisposeEnd, SpuriousWakeup, poolVars, fifoVars, elemVars

LEMMA PlaceStep == ControlInv /\ DisposeInv /\ OnePlace /\ [Next]_vars => OnePlace'
<1> SUFFICES ASSUME ControlInv, DisposeInv, OnePlace, [Next]_vars PROVE OnePlace'
  OBVIOUS
<1>1. ASSUME UNCHANGED <<pool, fifo, held, destroyed>> PROVE OnePlace'
  BY <1>1 DEF OnePlace, ListApart, HeldApart, NothingLost, Distinct
<1>2. ASSUME NEW t \in Threads, Quiet(t) PROVE OnePlace'
  BY <1>1, <1>2, QuietFacts
<1>3. ASSUME NEW t \in Threads, AllocTake(t) PROVE OnePlace'
  BY <1>3, TakeMoves DEF AllocTake, fifoVars
<1>4. ASSUME NEW t \in Threads, TryAlloc(t) PROVE OnePlace'
  BY <1>4, TakeMoves DEF TryAlloc, Starts, fifoVars
<1>5. ASSUME NEW t \in Threads, NEW k \in Kinds, NEW s \in Sizes, Put(t, k, s)
      PROVE  OnePlace'
  BY <1>5, PutMoves DEF Put, Link, poolVars
<1>6. ASSUME NEW t \in Threads, Insert(t) PROVE OnePlace'
  BY <1>6, InsertMoves DEF Insert, poolVars
<1>7. ASSUME NEW t \in Threads, GetTake(t) PROVE OnePlace'
  BY <1>7, GetMoves DEF GetTake, poolVars
<1>8. ASSUME NEW t \in Threads, Free(t) PROVE OnePlace'
  BY <1>8, FreeMoves DEF Free, fifoVars
<1>9. ASSUME NEW t \in Threads, ClearDrop(t) PROVE OnePlace'
  BY <1>9, UnlinkMoves DEF ClearDrop, Unlink
<1>10. ASSUME NEW t \in Threads, DisposePool(t) PROVE OnePlace'
  <2>1. destroyed = {}
    BY <1>10 DEF DisposePool, DisposeInv
  <2> QED
    BY <1>10, <2>1 DEF DisposePool, poolVars, fifoVars, OnePlace, ListApart, HeldApart,
       NothingLost, Distinct
<1>11. ASSUME NEW t \in Threads, Drain(t) PROVE OnePlace'
  BY <1>11, DrainMoves DEF Drain, poolVars
<1>12. CASE UNCHANGED vars
  BY <1>1, <1>12 DEF vars
<1> QED
  BY <1>2, <1>3, <1>4, <1>5, <1>6, <1>7, <1>8, <1>9, <1>10, <1>11, <1>12, NextSplit
  DEF Terminated

-----------------------------------------------------------------------------
(* The counts, and the spare element.                                      *)

LEMMA CountInit == Init => PoolCounted /\ ListCounted
  BY EmptySeq DEF Init, PoolCounted, ListCounted, Capacity

LEMMA CountStep ==
  ControlInv /\ OnePlace /\ PoolCounted /\ ListCounted /\ [Next]_vars
    => PoolCounted' /\ ListCounted'
<1> SUFFICES ASSUME ControlInv, OnePlace, PoolCounted, ListCounted, [Next]_vars
             PROVE  PoolCounted' /\ ListCounted'
  OBVIOUS
<1> USE DEF PoolCounted, ListCounted
<1>1. IsFiniteSet(pool) /\ Len(fifo) \in Nat /\ fifo \in Seq(Elements)
  BY ElementsAssumption, FS_Subset, LenProperties DEF ControlInv, TypeOK
<1>2. ASSUME UNCHANGED <<pool, numFree>> PROVE PoolCounted'
  BY <1>2
<1>3. ASSUME UNCHANGED <<fifo, fifoSize>> PROVE ListCounted'
  BY <1>3
<1>4. ASSUME NEW t \in Threads, NEW e \in pool, TakeFromPool(t, e) PROVE PoolCounted'
  BY <1>1, <1>4, FS_RemoveElement DEF TakeFromPool
<1>5. ASSUME NEW e, e \notin pool, ReturnToPool(e) PROVE PoolCounted'
  BY <1>1, <1>5, FS_AddElement DEF ReturnToPool
<1>6. ASSUME RemoveHead PROVE ListCounted'
  BY <1>1, <1>6, HeadTailProperties DEF RemoveHead
<1>7. ASSUME NEW t \in Threads, Quiet(t) PROVE PoolCounted' /\ ListCounted'
  BY <1>2, <1>3, <1>7, QuietFacts
<1>8. ASSUME NEW t \in Threads, AllocTake(t) \/ TryAlloc(t)
      PROVE  PoolCounted' /\ ListCounted'
  BY <1>3, <1>4, <1>8 DEF AllocTake, TryAlloc, fifoVars
<1>9. ASSUME NEW t \in Threads, NEW k \in Kinds, NEW s \in Sizes, Put(t, k, s)
      PROVE  PoolCounted' /\ ListCounted'
  <2>1. held[t] \in Elements
    BY <1>9 DEF Put, ControlInv, TypeOK, OwnInv
  <2>2. Len(Append(fifo, held[t])) = Len(fifo) + 1
    BY <1>1, <2>1, AppendProperties
  <2>3. fifo' = Append(fifo, held[t]) /\ fifoSize' = fifoSize + 1 /\ UNCHANGED <<pool, numFree>>
    BY <1>9 DEF Put, Link, poolVars
  <2> QED
    BY <1>2, <2>2, <2>3
<1>10. ASSUME NEW t \in Threads, Insert(t) PROVE PoolCounted' /\ ListCounted'
  <2>1. held[t] \in Elements
    BY <1>10 DEF Insert, ControlInv, TypeOK, OwnInv
  <2>2. Len(<<held[t]>> \o fifo) = Len(fifo) + 1
    BY <1>1, <2>1, PrependFacts
  <2>3. fifo' = <<held[t]>> \o fifo /\ fifoSize' = fifoSize + 1 /\ UNCHANGED <<pool, numFree>>
    BY <1>10 DEF Insert, poolVars
  <2> QED
    BY <1>2, <2>2, <2>3
<1>11. ASSUME NEW t \in Threads, GetTake(t) \/ Drain(t) PROVE PoolCounted' /\ ListCounted'
  BY <1>2, <1>6, <1>11 DEF GetTake, Drain, poolVars
<1>12. ASSUME NEW t \in Threads, Free(t) PROVE PoolCounted' /\ ListCounted'
  <2>1. held[t] \notin pool
    BY <1>12 DEF Free, ControlInv, OwnInv, OnePlace, HeldApart
  <2> QED
    BY <1>3, <1>5, <1>12, <2>1 DEF Free, fifoVars
<1>13. ASSUME NEW t \in Threads, ClearDrop(t) PROVE PoolCounted' /\ ListCounted'
  <2>1. pos \in 1..Len(fifo)
    BY <1>1, <1>13 DEF ClearDrop, ControlInv, TypeOK
  <2>2. fifo[pos] \notin pool
    BY <2>1 DEF OnePlace, ListApart
  <2>3. Len(RemoveAt(fifo, pos)) = Len(fifo) - 1
    BY <1>1, <2>1, RemoveAtFacts
  <2>4. PoolCounted'
    BY <1>5, <1>13, <2>2 DEF ClearDrop
  <2> QED
    BY <1>13, <2>3, <2>4 DEF ClearDrop, Unlink
<1>14. ASSUME NEW t \in Threads, DisposePool(t) PROVE PoolCounted' /\ ListCounted'
  BY <1>2, <1>3, <1>14 DEF DisposePool, poolVars, fifoVars
<1>15. CASE UNCHANGED vars
  BY <1>2, <1>3, <1>15 DEF vars
<1> QED
  BY <1>7, <1>8, <1>9, <1>10, <1>11, <1>12, <1>13, <1>14, <1>15, NextSplit DEF Terminated

(* The bytes on the list: what put adds, get, clear and drain take away.   *)
LEMMA BytesInit == Init => BytesCounted
  BY TotalEmpty DEF Init, BytesCounted

LEMMA BytesStep == ControlInv /\ OnePlace /\ BytesCounted /\ [Next]_vars => BytesCounted'
<1> SUFFICES ASSUME ControlInv, OnePlace, BytesCounted, [Next]_vars PROVE BytesCounted'
  OBVIOUS
<1>1. /\ fifo \in Seq(Elements) /\ Len(fifo) \in Nat /\ size \in [Elements -> Nat]
      /\ pos \in Nat \ {0} /\ dataSize \in Int /\ dataSize = Total(fifo, size)
  BY LenProperties DEF ControlInv, TypeOK, BytesCounted
<1>2. ASSUME UNCHANGED <<fifo, dataSize, size>> PROVE BytesCounted'
  BY <1>2 DEF BytesCounted
<1>3. ASSUME NEW t \in Threads, Quiet(t) PROVE BytesCounted'
  BY <1>2, <1>3 DEF Quiet, CallAlloc, AllocSleep, CallGet, GetSleep, ClearStart, ClearKeep,
     ClearEnd, Dispose, DisposeEnd, SpuriousWakeup, poolVars, fifoVars, elemVars
<1>4. ASSUME NEW t \in Threads, AllocTake(t) \/ TryAlloc(t) PROVE BytesCounted'
  <2>1. PICK e \in pool : size' = [size EXCEPT ![e] = 0] /\ UNCHANGED <<fifo, dataSize>>
    BY <1>4 DEF AllocTake, TryAlloc, TakeFromPool, fifoVars
  <2>2. \A i \in 1..Len(fifo) : fifo[i] # e /\ fifo[i] \in Elements
    BY <1>1, <2>1, ElementOfSeq DEF OnePlace, ListApart
  <2>3. \A i \in 1..Len(fifo) : size[fifo[i]] = size'[fifo[i]]
    BY <1>1, <2>1, <2>2
  <2>4. Total(fifo, size) = Total(fifo, size')
    BY <1>1, <2>3, TotalSame
  <2> QED
    BY <1>1, <2>1, <2>4 DEF BytesCounted
<1>5. ASSUME NEW t \in Threads, NEW s \in Nat, held[t] \in Elements,
             size' = [size EXCEPT ![held[t]] = s],
             fifo' = Append(fifo, held[t]) \/ fifo' = <<held[t]>> \o fifo,
             dataSize' = dataSize + size'[held[t]]
      PROVE  BytesCounted'
  <2>1. size' \in [Elements -> Nat]
    BY <1>1, <1>5
  <2>2. \A i \in 1..Len(fifo) : fifo[i] # held[t] /\ fifo[i] \in Elements
    BY <1>1, <1>5, NullAssumption, ElementOfSeq DEF OnePlace, HeldApart
  <2>3. \A i \in 1..Len(fifo) : size[fifo[i]] = size'[fifo[i]]
    BY <1>1, <1>5, <2>2
  <2>4. Total(fifo, size) = Total(fifo, size')
    BY <1>1, <2>3, TotalSame
  <2>8. fifo \in Seq(Elements) /\ held[t] \in Elements /\ size' \in [Elements -> Nat]
    BY <1>1, <1>5, <2>1
  <2>7. ASSUME Total(fifo', size') = Total(fifo, size') + size'[held[t]]
        PROVE  BytesCounted'
    <3>1. dataSize' = Total(fifo, size) + size'[held[t]]
      BY <1>1, <1>5
    <3>2. dataSize' = Total(fifo', size')
      BY <3>1, <2>4, <2>7
    <3> QED
      BY <3>2 DEF BytesCounted
  <2>5. CASE fifo' = Append(fifo, held[t])
    <3>1. Total(fifo', size') = Total(fifo, size') + size'[held[t]]
      BY <2>5, <2>8, TotalAppend
    <3> QED
      BY <3>1, <2>7
  <2>6. CASE fifo' = <<held[t]>> \o fifo
    <3>1. Total(fifo', size') = Total(fifo, size') + size'[held[t]]
      BY <2>6, <2>8, TotalPrepend
    <3> QED
      BY <3>1, <2>7
  <2> QED
    BY <1>5, <2>5, <2>6
<1>6. ASSUME NEW t \in Threads, NEW k \in Kinds, NEW s \in Sizes, Put(t, k, s)
      PROVE  BytesCounted'
  <2>1. held[t] \in Elements /\ s \in Nat
    BY <1>6, SizesAssumption DEF Put, ControlInv, TypeOK, OwnInv
  <2> QED
    BY <1>5, <1>6, <2>1 DEF Put, Fill, Link
<1>7. ASSUME NEW t \in Threads, Insert(t) PROVE BytesCounted'
  <2>1. held[t] \in Elements /\ 0 \in Nat
    BY <1>7 DEF Insert, ControlInv, TypeOK, OwnInv
  <2> QED
    BY <1>5, <1>7, <2>1 DEF Insert, Fill
<1>8. ASSUME NEW t \in Threads, GetTake(t) \/ Drain(t) PROVE BytesCounted'
  <2>1. /\ fifo # << >> /\ fifo' = Tail(fifo) /\ size' = size
        /\ dataSize' = dataSize - size[Head(fifo)]
    BY <1>8 DEF GetTake, Drain, RemoveHead, elemVars
  <2>2. Head(fifo) \in Elements /\ Tail(fifo) \in Seq(Elements)
    BY <1>1, <2>1, HeadTailProperties
  <2>3. Total(fifo, size) = Total(Tail(fifo), size) + size[Head(fifo)]
    BY <1>1, <2>1, TotalTail
  <2>4. Total(Tail(fifo), size) \in Nat /\ size[Head(fifo)] \in Nat
    BY <1>1, <2>2, TotalNat
  <2> QED
    BY <1>1, <2>1, <2>3, <2>4 DEF BytesCounted
<1>9. ASSUME NEW t \in Threads, ClearDrop(t) PROVE BytesCounted'
  <2>1. /\ pos \in 1..Len(fifo) /\ fifo' = RemoveAt(fifo, pos) /\ size' = size
        /\ dataSize' = dataSize - size[fifo[pos]]
    BY <1>1, <1>9 DEF ClearDrop, Unlink, elemVars
  <2>2. RemoveAt(fifo, pos) \in Seq(Elements) /\ Without(fifo, pos, RemoveAt(fifo, pos))
    BY <1>1, <2>1, RemoveAtWithout
  <2>3. Total(fifo, size) = Total(RemoveAt(fifo, pos), size) + size[fifo[pos]]
    BY <1>1, <2>1, <2>2, TotalWithout
  <2>4. Total(RemoveAt(fifo, pos), size) \in Nat /\ size[fifo[pos]] \in Nat
    <3>1. fifo[pos] \in Elements BY <1>1, <2>1, ElementOfSeq
    <3> QED BY <1>1, <2>2, <3>1, TotalNat
  <2> QED
    BY <1>1, <2>1, <2>3, <2>4 DEF BytesCounted
<1>10. ASSUME NEW t \in Threads, Free(t) \/ DisposePool(t) PROVE BytesCounted'
  BY <1>2, <1>10 DEF Free, DisposePool, fifoVars, elemVars
<1>11. CASE UNCHANGED vars
  BY <1>2, <1>11 DEF vars
<1> QED
  BY <1>3, <1>4, <1>6, <1>7, <1>8, <1>9, <1>10, <1>11, NextSplit DEF Terminated

LEMMA SpareInit == Init => SpareForEmergency
<1>1. Cardinality(Elements) # 0
  BY ElementsAssumption
<1> QED
  BY <1>1 DEF Init, SpareForEmergency, Capacity

LEMMA SpareStep ==
  ControlInv /\ PoolCounted /\ SpareForEmergency /\ [Next]_vars => SpareForEmergency'
<1> SUFFICES ASSUME ControlInv, PoolCounted, SpareForEmergency, [Next]_vars
             PROVE  SpareForEmergency'
  OBVIOUS
<1> USE DEF SpareForEmergency
<1>1. numFree \in Nat
  BY ElementsAssumption, FS_Subset, FS_CardinalityType DEF ControlInv, TypeOK, PoolCounted
<1>2. ASSUME UNCHANGED <<numFree, emergency>> PROVE SpareForEmergency'
  BY <1>2
<1>3. ASSUME NEW t \in Threads, AllocTake(t) PROVE SpareForEmergency'
  BY <1>1, <1>3 DEF AllocTake, MayAlloc, TakeFromPool
<1>4. ASSUME NEW t \in Threads, TryAlloc(t) PROVE SpareForEmergency'
  BY <1>4 DEF TryAlloc
<1>5. ASSUME NEW e, ReturnToPool(e) PROVE SpareForEmergency'
  BY <1>1, <1>5 DEF ReturnToPool
<1>6. ASSUME NEW t \in Threads, Quiet(t) PROVE SpareForEmergency'
  BY <1>2, <1>6, QuietFacts
<1>7. ASSUME NEW t \in Threads,
             \/ \E k \in Kinds, s \in Sizes : Put(t, k, s)
             \/ Insert(t) \/ GetTake(t) \/ DisposePool(t) \/ Drain(t)
      PROVE  SpareForEmergency'
  BY <1>2, <1>7 DEF Put, Insert, GetTake, DisposePool, Drain, poolVars
<1>8. ASSUME NEW t \in Threads, Free(t) \/ ClearDrop(t) PROVE SpareForEmergency'
  BY <1>5, <1>8 DEF Free, ClearDrop
<1>9. CASE UNCHANGED vars
  BY <1>2, <1>9 DEF vars
<1> QED
  BY <1>3, <1>4, <1>6, <1>7, <1>8, <1>9, NextSplit DEF Terminated

-----------------------------------------------------------------------------
(* Disposal.                                                               *)

LEMMA DisposeInit == Init => DisposeInv
  BY EmptySeq DEF Init, DisposeInv

LEMMA DisposeStep == ControlInv /\ OnePlace /\ DisposeInv /\ [Next]_vars => DisposeInv'
<1> SUFFICES ASSUME ControlInv, OnePlace, DisposeInv, [Next]_vars PROVE DisposeInv'
  OBVIOUS
<1>1. /\ phase \in {"open", "disposing"}
      /\ pc \in [Threads -> PCs]
      /\ pool \subseteq Elements
      /\ fifo \in Seq(Elements)
  BY DEF ControlInv, TypeOK
<1>2. ASSUME phase = "open", phase' = "open", UNCHANGED destroyed,
             \A u \in Threads : pc'[u] \notin {"disposePool", "drain", "gone"}
      PROVE  DisposeInv'
  BY <1>2 DEF DisposeInv
<1>3. phase = "open" =>
        \A u \in Threads : pc[u] \notin {"disposePool", "drain", "gone"}
  BY DEF DisposeInv
<1>4. ASSUME NEW t \in Threads, CallAlloc(t) \/ CallGet(t) \/ ClearStart(t)
      PROVE  DisposeInv'
  BY <1>1, <1>2, <1>3, <1>4 DEF CallAlloc, CallGet, ClearStart, Starts, PCs
<1>5. ASSUME NEW t \in Threads,
             AllocSleep(t) \/ AllocTake(t) \/ GetSleep(t) \/ GetTake(t) \/ SpuriousWakeup(t)
      PROVE  DisposeInv'
  <2>1. pc[t] \in {"alloc", "get", "allocSleep", "getSleep"}
    BY <1>5 DEF AllocSleep, AllocTake, GetSleep, GetTake, SpuriousWakeup
  <2>2. phase = "open"
    BY <1>1, <2>1 DEF DisposeInv
  <2> QED
    BY <1>1, <1>2, <1>3, <1>5, <2>2
    DEF AllocSleep, AllocTake, GetSleep, GetTake, SpuriousWakeup, TakeFromPool
<1>6. ASSUME NEW t \in Threads, TryAlloc(t) PROVE DisposeInv'
  BY <1>1, <1>2, <1>3, <1>6 DEF TryAlloc, Starts, TakeFromPool
<1>7. ASSUME NEW t \in Threads, pc[t] = "own", UNCHANGED <<phase, destroyed>>,
             \/ pc' \in SignalPool([pc EXCEPT ![t] = "ready"])
             \/ pc' \in SignalFifo([pc EXCEPT ![t] = "ready"])
      PROVE  DisposeInv'
  <2>1. phase = "open"
    BY <1>1, <1>7 DEF DisposeInv
  <2> DEFINE r == [pc EXCEPT ![t] = "ready"]
  <2>2. /\ r \in [Threads -> PCs]
        /\ \A u \in Threads : r[u] \notin {"disposePool", "drain", "gone"}
    BY <1>1, <1>3, <2>1 DEF PCs
  <2>3. pc' \in SignalPool(r) \/ pc' \in SignalFifo(r)
    BY <1>7
  <2> HIDE DEF r
  <2>4. \A u \in Threads : pc'[u] = r[u] \/ pc'[u] \in {"alloc", "get"}
    BY <2>2, <2>3, SignalPoolFacts, SignalFifoFacts
  <2> QED
    BY <1>2, <1>7, <2>1, <2>2, <2>4
<1>8. ASSUME NEW t \in Threads,
             Free(t) \/ Insert(t) \/ \E k \in Kinds, s \in Sizes : Put(t, k, s)
      PROVE  DisposeInv'
  BY <1>7, <1>8 DEF Free, Insert, Put
<1>9. ASSUME NEW t \in Threads, ClearKeep(t) PROVE DisposeInv'
  BY <1>9 DEF ClearKeep, DisposeInv, fifoVars
<1>10. ASSUME NEW t \in Threads, ClearDrop(t) PROVE DisposeInv'
  <2>1. destroyed = {} /\ destroyed' = {} /\ phase' = phase
    BY <1>10 DEF ClearDrop, DisposeInv
  <2>2. \A u \in Threads : pc'[u] = pc[u] \/ (pc[u] = "allocSleep" /\ pc'[u] = "alloc")
    BY <1>1, <1>10, SignalPoolFacts DEF ClearDrop
  <2>3. phase = "disposing" => \A u \in Threads : pc'[u] = pc[u]
    BY <2>2 DEF DisposeInv
  <2>4. CASE phase = "open"
    BY <1>2, <1>3, <2>1, <2>2, <2>4
  <2>5. CASE phase = "disposing"
    BY <2>1, <2>3, <2>5 DEF DisposeInv
  <2> QED
    BY <1>1, <2>4, <2>5
<1>11. ASSUME NEW t \in Threads, ClearEnd(t) PROVE DisposeInv'
  <2>1. destroyed = {} /\ destroyed' = {} /\ phase' = phase /\ fifo' = fifo
    BY <1>11 DEF ClearEnd, DisposeInv, fifoVars
  <2>2. pc' = [pc EXCEPT ![t] = IF phase = "disposing" THEN "disposePool" ELSE "ready"]
    BY <1>11 DEF ClearEnd
  <2>3. pc[t] = "clear"
    BY <1>11 DEF ClearEnd
  <2> QED
    BY <1>1, <2>1, <2>2, <2>3 DEF DisposeInv
<1>12. ASSUME NEW t \in Threads, Dispose(t) PROVE DisposeInv'
  <2>1. destroyed = {} /\ destroyed' = {}
    BY <1>12 DEF Dispose, Starts, DisposeInv
  <2> QED
    BY <1>1, <1>12, <2>1 DEF Dispose, Joined, DisposeInv, fifoVars
<1>13. ASSUME NEW t \in Threads, DisposePool(t) PROVE DisposeInv'
  <2>1. /\ pc[t] = "disposePool"
        /\ pc' = [pc EXCEPT ![t] = "drain"]
        /\ destroyed' = pool /\ fifo' = fifo /\ phase' = phase
    BY <1>13 DEF DisposePool, fifoVars
  <2>2. phase = "disposing" /\ \A u \in Threads \ {t} : pc[u] = "ready"
    BY <2>1 DEF DisposeInv
  <2> QED
    BY <1>1, <2>1, <2>2 DEF DisposeInv, OnePlace, ListApart
<1>14. ASSUME NEW t \in Threads, Drain(t) PROVE DisposeInv'
  <2>1. /\ pc[t] = "drain"
        /\ pc' = pc /\ phase' = phase
        /\ destroyed' = destroyed \cup {Head(fifo)}
        /\ fifo # << >> /\ fifo' = Tail(fifo)
    BY <1>14 DEF Drain, RemoveHead
  <2>2. phase = "disposing" /\ \A u \in Threads \ {t} : pc[u] = "ready"
    BY <2>1 DEF DisposeInv
  <2>3. /\ Len(fifo) \in Nat \ {0}
        /\ Len(fifo') = Len(fifo) - 1
        /\ \A i \in 1..Len(fifo) - 1 : fifo'[i] = fifo[i + 1]
        /\ Head(fifo) = fifo[1]
    BY <1>1, <2>1, HeadTailProperties, EmptySeq
  <2>4. \A i \in 1..Len(fifo') : fifo'[i] # fifo[1]
    BY <2>3 DEF OnePlace, ListApart, Distinct
  <2>5. \A i \in 1..Len(fifo') : fifo'[i] \notin destroyed'
    BY <2>1, <2>3, <2>4 DEF DisposeInv
  <2> QED
    BY <1>1, <2>1, <2>2, <2>5 DEF DisposeInv
<1>15. ASSUME NEW t \in Threads, DisposeEnd(t) PROVE DisposeInv'
  <2>1. /\ pc[t] = "drain"
        /\ pc' = [pc EXCEPT ![t] = "gone"]
        /\ UNCHANGED <<phase, destroyed, fifo>>
    BY <1>15 DEF DisposeEnd, fifoVars
  <2>2. phase = "disposing" /\ \A u \in Threads \ {t} : pc[u] = "ready"
    BY <2>1 DEF DisposeInv
  <2> QED
    BY <1>1, <2>1, <2>2 DEF DisposeInv
<1>16. CASE UNCHANGED vars
  BY <1>16 DEF vars, DisposeInv
<1> QED
  BY <1>4, <1>5, <1>6, <1>8, <1>9, <1>10, <1>11, <1>12, <1>13, <1>14, <1>15, <1>16,
     NextSplit DEF Terminated, Quiet

-----------------------------------------------------------------------------
(* Wake-ups.  n counts what there is to be had, A are the threads about to *)
(* look; a step keeps n <= |A| by changing both alike.                     *)

LEMMA KeepAwake ==
  ASSUME NEW A, NEW B, IsFiniteSet(B), A \subseteq B,
         NEW n \in Int, NEW m \in Int, n <= Cardinality(A), m <= n
  PROVE  m <= Cardinality(B)
<1>1. /\ IsFiniteSet(A) /\ Cardinality(A) <= Cardinality(B)
      /\ Cardinality(A) \in Int /\ Cardinality(B) \in Int
  BY FS_Subset, FS_CardinalityType
<1> QED
  BY <1>1

LEMMA LoseAwake ==
  ASSUME NEW A, IsFiniteSet(A), NEW t \in A, NEW n \in Int, n <= Cardinality(A)
  PROVE  n - 1 <= Cardinality(A \ {t})
<1>1. Cardinality(A \ {t}) = Cardinality(A) - 1 /\ Cardinality(A) \in Int
  BY FS_RemoveElement, FS_CardinalityType
<1> QED
  BY <1>1

LEMMA GainAwake ==
  ASSUME NEW A, NEW B, IsFiniteSet(B), NEW u \in B, u \notin A, A \subseteq B,
         NEW n \in Int, n <= Cardinality(A)
  PROVE  n + 1 <= Cardinality(B)
<1>1. /\ IsFiniteSet(A)
      /\ IsFiniteSet(A \cup {u})
      /\ Cardinality(A \cup {u}) = Cardinality(A) + 1
      /\ Cardinality(A \cup {u}) <= Cardinality(B)
      /\ Cardinality(A) \in Int /\ Cardinality(B) \in Int
  BY FS_Subset, FS_AddElement, FS_CardinalityType
<1> QED
  BY <1>1

LEMMA AwakeFinite == \A s : IsFiniteSet(Awake(s)) /\ IsFiniteSet(Awake(s)')
  BY ThreadsAssumption, FS_Subset DEF Awake

LEMMA WakeInit == Init => NoLostWakeup
  BY DEF Init, NoLostWakeup, PoolWake, FifoWake, Awake

(* A step that offers nothing more, lets nobody go away and adds no first  *)
(* sleeper.                                                                *)
LEMMA PoolKeeps ==
  ASSUME ControlInv, ControlInv', PoolWake, numFree' <= numFree,
         \A u \in Threads : pc[u] = "alloc" => pc'[u] = "alloc",
         \A u \in Threads : pc'[u] = "allocSleep" => pc[u] = "allocSleep"
  PROVE  PoolWake'
<1>1. numFree \in Int /\ numFree' \in Int
  BY DEF ControlInv, TypeOK
<1>2. Awake("alloc") \subseteq Awake("alloc")'
  BY DEF Awake
<1>3. Awake("allocSleep")' # {} => Awake("allocSleep") # {}
  BY DEF Awake
<1> QED
  BY <1>1, <1>2, <1>3, KeepAwake, AwakeFinite DEF PoolWake

LEMMA FifoKeeps ==
  ASSUME ControlInv, ControlInv', FifoWake, fifoSize' <= fifoSize,
         \A u \in Threads : pc[u] = "get" => pc'[u] = "get",
         \A u \in Threads : pc'[u] = "getSleep" => pc[u] = "getSleep"
  PROVE  FifoWake'
<1>1. fifoSize \in Int /\ fifoSize' \in Int
  BY DEF ControlInv, TypeOK
<1>2. Awake("get") \subseteq Awake("get")'
  BY DEF Awake
<1>3. Awake("getSleep")' # {} => Awake("getSleep") # {}
  BY DEF Awake
<1> QED
  BY <1>1, <1>2, <1>3, KeepAwake, AwakeFinite DEF FifoWake

(* A step that offers one more and signals, after its thread left state p. *)
LEMMA PoolSignals ==
  ASSUME ControlInv, PoolWake, numFree' = numFree + 1,
         NEW r \in [Threads -> PCs], pc' \in SignalPool(r),
         \A u \in Threads : r[u] = "alloc" <=> pc[u] = "alloc",
         \A u \in Threads : r[u] = "allocSleep" <=> pc[u] = "allocSleep"
  PROVE  PoolWake'
<1>1. /\ pc' \in [Threads -> PCs]
      /\ \A u \in Threads : pc'[u] = r[u] \/ (r[u] = "allocSleep" /\ pc'[u] = "alloc")
      /\ \/ \A u \in Threads : pc'[u] # "allocSleep"
         \/ \E u \in Threads : r[u] = "allocSleep" /\ pc'[u] = "alloc"
  BY SignalPoolFacts
<1>2. CASE \A u \in Threads : pc'[u] # "allocSleep"
  BY <1>2 DEF PoolWake, Awake
<1>3. ASSUME NEW u \in Threads, r[u] = "allocSleep", pc'[u] = "alloc"
      PROVE  PoolWake'
  <2>1. u \in Awake("alloc")' /\ u \notin Awake("alloc") /\ u \in Awake("allocSleep")
    BY <1>3 DEF Awake
  <2>2. Awake("alloc") \subseteq Awake("alloc")'
    BY <1>1 DEF Awake
  <2>3. numFree - 1 \in Int /\ numFree - 1 <= Cardinality(Awake("alloc"))
    BY <2>1 DEF PoolWake, ControlInv, TypeOK
  <2>4. (numFree - 1) + 1 <= Cardinality(Awake("alloc")')
    BY <2>1, <2>2, <2>3, GainAwake, AwakeFinite
  <2>5. numFree' - 1 = (numFree - 1) + 1
    BY DEF ControlInv, TypeOK
  <2> QED
    BY <2>4, <2>5 DEF PoolWake, Awake
<1> QED
  BY <1>1, <1>2, <1>3

LEMMA FifoSignals ==
  ASSUME ControlInv, FifoWake, fifoSize' = fifoSize + 1,
         NEW r \in [Threads -> PCs], pc' \in SignalFifo(r),
         \A u \in Threads : r[u] = "get" <=> pc[u] = "get",
         \A u \in Threads : r[u] = "getSleep" <=> pc[u] = "getSleep"
  PROVE  FifoWake'
<1>1. /\ pc' \in [Threads -> PCs]
      /\ \A u \in Threads : pc'[u] = r[u] \/ (r[u] = "getSleep" /\ pc'[u] = "get")
      /\ \/ \A u \in Threads : pc'[u] # "getSleep"
         \/ \E u \in Threads : r[u] = "getSleep" /\ pc'[u] = "get"
  BY SignalFifoFacts
<1>2. CASE \A u \in Threads : pc'[u] # "getSleep"
  BY <1>2 DEF FifoWake, Awake
<1>3. ASSUME NEW u \in Threads, r[u] = "getSleep", pc'[u] = "get"
      PROVE  FifoWake'
  <2>1. u \in Awake("get")' /\ u \notin Awake("get") /\ u \in Awake("getSleep")
    BY <1>3 DEF Awake
  <2>2. Awake("get") \subseteq Awake("get")'
    BY <1>1 DEF Awake
  <2>3. fifoSize \in Int /\ fifoSize <= Cardinality(Awake("get"))
    BY <2>1 DEF FifoWake, ControlInv, TypeOK
  <2>4. fifoSize + 1 <= Cardinality(Awake("get")')
    BY <2>1, <2>2, <2>3, GainAwake, AwakeFinite
  <2> QED
    BY <2>4 DEF FifoWake, Awake
<1> QED
  BY <1>1, <1>2, <1>3

LEMMA PoolWakeStep ==
  ControlInv /\ ControlInv' /\ PoolWake /\ [Next]_vars => PoolWake'
<1> SUFFICES ASSUME ControlInv, ControlInv', PoolWake, [Next]_vars PROVE PoolWake'
  OBVIOUS
<1>1. numFree \in Int /\ pc \in [Threads -> PCs]
  BY DEF ControlInv, TypeOK
<1>2. ASSUME NEW t \in Threads, AllocSleep(t) PROVE PoolWake'
  <2>1. numFree' - 1 <= 0
    BY <1>1, <1>2 DEF AllocSleep, MayAlloc, poolVars
  <2>2. numFree' - 1 \in Int /\ Cardinality(Awake("alloc")') \in Nat
    BY <1>1, <1>2, AwakeFinite, FS_CardinalityType DEF AllocSleep, poolVars
  <2> QED
    BY <2>1, <2>2 DEF PoolWake
<1>3. ASSUME NEW t \in Threads, AllocTake(t) PROVE PoolWake'
  <2>1. /\ pc[t] = "alloc" /\ pc' = [pc EXCEPT ![t] = "own"]
        /\ numFree' = numFree - 1
    BY <1>3 DEF AllocTake, TakeFromPool
  <2>2. /\ Awake("alloc")' = Awake("alloc") \ {t}
        /\ Awake("allocSleep")' = Awake("allocSleep")
        /\ t \in Awake("alloc")
    BY <1>1, <2>1 DEF Awake
  <2>3. numFree - 1 \in Int /\ numFree' - 1 = (numFree - 1) - 1
    BY <1>1, <2>1
  <2> QED
    BY <2>2, <2>3, LoseAwake, AwakeFinite DEF PoolWake
<1>4. ASSUME NEW t \in Threads, Quiet(t), ~AllocSleep(t) PROVE PoolWake'
  <2>1. numFree' = numFree
    BY <1>4, QuietFacts
  <2>2. \A u \in Threads : pc[u] = "alloc" => pc'[u] = "alloc"
    BY <1>1, <1>4 DEF Quiet, CallAlloc, CallGet, GetSleep, ClearStart, ClearKeep, ClearEnd,
       Dispose, DisposeEnd, SpuriousWakeup, Starts
  <2>3. \A u \in Threads : pc'[u] = "allocSleep" => pc[u] = "allocSleep"
    BY <1>1, <1>4 DEF Quiet, CallAlloc, CallGet, GetSleep, ClearStart, ClearKeep, ClearEnd,
       Dispose, DisposeEnd, SpuriousWakeup, Starts
  <2> QED
    BY <1>1, <2>1, <2>2, <2>3, PoolKeeps
<1>5. ASSUME NEW t \in Threads, TryAlloc(t) \/ GetTake(t) \/ DisposePool(t) \/ Drain(t)
      PROVE  PoolWake'
  <2>1. numFree' <= numFree
    BY <1>1, <1>5 DEF TryAlloc, TakeFromPool, GetTake, DisposePool, Drain, poolVars
  <2>2. /\ \A u \in Threads : pc[u] = "alloc" => pc'[u] = "alloc"
        /\ \A u \in Threads : pc'[u] = "allocSleep" => pc[u] = "allocSleep"
    BY <1>1, <1>5 DEF TryAlloc, TakeFromPool, GetTake, DisposePool, Drain, Starts
  <2> QED
    BY <2>1, <2>2, PoolKeeps
<1>6. ASSUME NEW t \in Threads, Insert(t) \/ \E k \in Kinds, s \in Sizes : Put(t, k, s)
      PROVE  PoolWake'
  <2> DEFINE r == [pc EXCEPT ![t] = "ready"]
  <2>1. numFree' = numFree /\ pc' \in SignalFifo(r) /\ pc[t] = "own"
    BY <1>6 DEF Insert, Put, poolVars
  <2>2. /\ r \in [Threads -> PCs]
        /\ r[t] = "ready" /\ \A u \in Threads \ {t} : r[u] = pc[u]
    BY <1>1 DEF PCs
  <2> HIDE DEF r
  <2>3. \A u \in Threads : pc'[u] = r[u] \/ (r[u] = "getSleep" /\ pc'[u] = "get")
    BY <2>1, <2>2, SignalFifoFacts
  <2>4. /\ \A u \in Threads : pc[u] = "alloc" => pc'[u] = "alloc"
        /\ \A u \in Threads : pc'[u] = "allocSleep" => pc[u] = "allocSleep"
    BY <2>1, <2>2, <2>3
  <2> QED
    BY <1>1, <2>1, <2>4, PoolKeeps
<1>7. ASSUME NEW t \in Threads, Free(t) PROVE PoolWake'
  <2> DEFINE r == [pc EXCEPT ![t] = "ready"]
  <2>1. numFree' = numFree + 1 /\ pc' \in SignalPool(r) /\ pc[t] = "own"
    BY <1>7 DEF Free, ReturnToPool
  <2>2. /\ r \in [Threads -> PCs]
        /\ r[t] = "ready" /\ \A u \in Threads \ {t} : r[u] = pc[u]
    BY <1>1 DEF PCs
  <2> HIDE DEF r
  <2>3. /\ \A u \in Threads : r[u] = "alloc" <=> pc[u] = "alloc"
        /\ \A u \in Threads : r[u] = "allocSleep" <=> pc[u] = "allocSleep"
    BY <2>1, <2>2
  <2> QED
    BY <2>1, <2>2, <2>3, PoolSignals
<1>8. ASSUME NEW t \in Threads, ClearDrop(t) PROVE PoolWake'
  BY <1>1, <1>8, PoolSignals DEF ClearDrop, ReturnToPool
<1>9. CASE UNCHANGED vars
  BY <1>9 DEF vars, PoolWake, Awake
<1> QED
  BY <1>2, <1>3, <1>4, <1>5, <1>6, <1>7, <1>8, <1>9, NextSplit DEF Terminated

LEMMA FifoWakeStep ==
  ControlInv /\ ControlInv' /\ ListCounted /\ FifoWake /\ [Next]_vars => FifoWake'
<1> SUFFICES ASSUME ControlInv, ControlInv', ListCounted, FifoWake, [Next]_vars
             PROVE  FifoWake'
  OBVIOUS
<1>1. fifoSize \in Int /\ pc \in [Threads -> PCs]
  BY DEF ControlInv, TypeOK
<1>2. ASSUME NEW t \in Threads, GetSleep(t) PROVE FifoWake'
  <2>1. fifoSize' = 0
    BY <1>2, EmptySeq DEF GetSleep, ListCounted, fifoVars
  <2>2. Cardinality(Awake("get")') \in Nat
    BY AwakeFinite, FS_CardinalityType
  <2> QED
    BY <2>1, <2>2 DEF FifoWake
<1>3. ASSUME NEW t \in Threads, GetTake(t) PROVE FifoWake'
  <2>1. /\ pc[t] = "get" /\ pc' = [pc EXCEPT ![t] = "own"]
        /\ fifoSize' = fifoSize - 1
    BY <1>3 DEF GetTake, RemoveHead
  <2>2. /\ Awake("get")' = Awake("get") \ {t}
        /\ Awake("getSleep")' = Awake("getSleep")
        /\ t \in Awake("get")
    BY <1>1, <2>1 DEF Awake
  <2> QED
    BY <1>1, <2>1, <2>2, LoseAwake, AwakeFinite DEF FifoWake
<1>4. ASSUME NEW t \in Threads, Quiet(t), ~GetSleep(t) PROVE FifoWake'
  <2>1. fifoSize' = fifoSize
    BY <1>4, QuietFacts
  <2>2. \A u \in Threads : pc[u] = "get" => pc'[u] = "get"
    BY <1>1, <1>4 DEF Quiet, CallAlloc, CallGet, AllocSleep, ClearStart, ClearKeep, ClearEnd,
       Dispose, DisposeEnd, SpuriousWakeup, Starts
  <2>3. \A u \in Threads : pc'[u] = "getSleep" => pc[u] = "getSleep"
    BY <1>1, <1>4 DEF Quiet, CallAlloc, CallGet, AllocSleep, ClearStart, ClearKeep, ClearEnd,
       Dispose, DisposeEnd, SpuriousWakeup, Starts
  <2> QED
    BY <1>1, <2>1, <2>2, <2>3, FifoKeeps
<1>5. ASSUME NEW t \in Threads, TryAlloc(t) \/ AllocTake(t) \/ DisposePool(t) \/ Drain(t)
      PROVE  FifoWake'
  <2>1. fifoSize' <= fifoSize
    BY <1>1, <1>5 DEF TryAlloc, AllocTake, DisposePool, Drain, RemoveHead, fifoVars
  <2>2. /\ \A u \in Threads : pc[u] = "get" => pc'[u] = "get"
        /\ \A u \in Threads : pc'[u] = "getSleep" => pc[u] = "getSleep"
    BY <1>1, <1>5 DEF TryAlloc, TakeFromPool, AllocTake, DisposePool, Drain, Starts
  <2> QED
    BY <2>1, <2>2, FifoKeeps
<1>6. ASSUME NEW t \in Threads, Insert(t) \/ \E k \in Kinds, s \in Sizes : Put(t, k, s)
      PROVE  FifoWake'
  <2> DEFINE r == [pc EXCEPT ![t] = "ready"]
  <2>1. fifoSize' = fifoSize + 1 /\ pc' \in SignalFifo(r) /\ pc[t] = "own"
    BY <1>6 DEF Insert, Put
  <2>2. /\ r \in [Threads -> PCs]
        /\ r[t] = "ready" /\ \A u \in Threads \ {t} : r[u] = pc[u]
    BY <1>1 DEF PCs
  <2> HIDE DEF r
  <2>3. /\ \A u \in Threads : r[u] = "get" <=> pc[u] = "get"
        /\ \A u \in Threads : r[u] = "getSleep" <=> pc[u] = "getSleep"
    BY <2>1, <2>2
  <2> QED
    BY <2>1, <2>2, <2>3, FifoSignals
<1>7. ASSUME NEW t \in Threads, Free(t) PROVE FifoWake'
  <2> DEFINE r == [pc EXCEPT ![t] = "ready"]
  <2>1. fifoSize' = fifoSize /\ pc' \in SignalPool(r) /\ pc[t] = "own"
    BY <1>7 DEF Free, fifoVars
  <2>2. /\ r \in [Threads -> PCs]
        /\ r[t] = "ready" /\ \A u \in Threads \ {t} : r[u] = pc[u]
    BY <1>1 DEF PCs
  <2> HIDE DEF r
  <2>3. \A u \in Threads : pc'[u] = r[u] \/ (r[u] = "allocSleep" /\ pc'[u] = "alloc")
    BY <2>1, <2>2, SignalPoolFacts
  <2>4. /\ \A u \in Threads : pc[u] = "get" => pc'[u] = "get"
        /\ \A u \in Threads : pc'[u] = "getSleep" => pc[u] = "getSleep"
    BY <2>1, <2>2, <2>3
  <2> QED
    BY <1>1, <2>1, <2>4, FifoKeeps
<1>8. ASSUME NEW t \in Threads, ClearDrop(t) PROVE FifoWake'
  <2>1. fifoSize' <= fifoSize
    BY <1>1, <1>8 DEF ClearDrop
  <2>2. \A u \in Threads : pc'[u] = pc[u] \/ (pc[u] = "allocSleep" /\ pc'[u] = "alloc")
    BY <1>1, <1>8, SignalPoolFacts DEF ClearDrop
  <2>3. /\ \A u \in Threads : pc[u] = "get" => pc'[u] = "get"
        /\ \A u \in Threads : pc'[u] = "getSleep" => pc[u] = "getSleep"
    BY <2>2
  <2> QED
    BY <2>1, <2>3, FifoKeeps
<1>9. CASE UNCHANGED vars
  BY <1>9 DEF vars, FifoWake, Awake
<1> QED
  BY <1>2, <1>3, <1>4, <1>5, <1>6, <1>7, <1>8, <1>9, NextSplit DEF Terminated

-----------------------------------------------------------------------------
(* The walk of clear.                                                      *)

LEMMA ClearInit == Init => ClearProgress
  BY DEF Init, ClearProgress

LEMMA ClearStep ==
  ControlInv /\ OnePlace /\ DisposeInv /\ ClearProgress /\ [Next]_vars => ClearProgress'
<1> SUFFICES ASSUME ControlInv, OnePlace, DisposeInv, ClearProgress, [Next]_vars
             PROVE  ClearProgress'
  OBVIOUS
<1>1. /\ fifo \in Seq(Elements) /\ Len(fifo) \in Nat
      /\ pos \in Nat \ {0}
      /\ kind \in [Elements -> Kinds]
      /\ fifoLock \in Threads \cup {NoThread}
  BY LenProperties DEF ControlInv, TypeOK
<1>2. ASSUME UNCHANGED <<fifo, kind, fifoLock, pos>> PROVE ClearProgress'
  BY <1>2 DEF ClearProgress
<1>3. ASSUME fifoLock' = NoThread PROVE ClearProgress'
  BY <1>3 DEF ClearProgress
<1>4. ASSUME pos' = 1, fifo' = fifo PROVE ClearProgress'
  BY <1>1, <1>4 DEF ClearProgress
<1>5. ASSUME NEW t \in Threads,
             \/ CallAlloc(t) \/ AllocSleep(t) \/ AllocTake(t) \/ TryAlloc(t)
             \/ CallGet(t) \/ GetSleep(t) \/ Free(t) \/ DisposePool(t) \/ DisposeEnd(t)
             \/ SpuriousWakeup(t)
      PROVE  ClearProgress'
  BY <1>2, <1>5 DEF CallAlloc, AllocSleep, AllocTake, TryAlloc, CallGet, GetSleep, Free,
     DisposePool, DisposeEnd, SpuriousWakeup, fifoVars, elemVars
<1>6. ASSUME NEW t \in Threads,
             \/ \E k \in Kinds, s \in Sizes : Put(t, k, s)
             \/ Insert(t) \/ GetTake(t) \/ ClearEnd(t)
      PROVE  ClearProgress'
  BY <1>3, <1>6 DEF Put, Insert, GetTake, ClearEnd
<1>7. ASSUME NEW t \in Threads, ClearStart(t) \/ Dispose(t) PROVE ClearProgress'
  BY <1>4, <1>7 DEF ClearStart, Dispose, fifoVars
<1>8. ASSUME NEW t \in Threads, ClearKeep(t) PROVE ClearProgress'
  <2>1. /\ fifo' = fifo /\ kind' = kind /\ pos' = pos + 1
        /\ pos <= Len(fifo) /\ kind[fifo[pos]] = "control"
        /\ fifoLock = t
    BY <1>8 DEF ClearKeep, Dropped, fifoVars, elemVars, ControlInv, LockInv
  <2>2. \A i \in 1..pos - 1 : kind[fifo[i]] = "control"
    BY <2>1, NullAssumption DEF ClearProgress
  <2> QED
    BY <1>1, <2>1, <2>2 DEF ClearProgress
<1>9. ASSUME NEW t \in Threads, ClearDrop(t) PROVE ClearProgress'
  <2>1. /\ fifo' = RemoveAt(fifo, pos) /\ kind' = kind /\ pos' = pos
        /\ pos <= Len(fifo) /\ fifoLock = t
    BY <1>9 DEF ClearDrop, Unlink, elemVars, ControlInv, LockInv
  <2>2. /\ Len(fifo') = Len(fifo) - 1
        /\ \A i \in 1..Len(fifo) - 1 : fifo'[i] = IF i < pos THEN fifo[i] ELSE fifo[i + 1]
    BY <1>1, <2>1, RemoveAtFacts
  <2>3. \A i \in 1..pos - 1 : kind[fifo[i]] = "control"
    BY <2>1, NullAssumption DEF ClearProgress
  <2>4. \A i \in 1..pos - 1 : fifo'[i] = fifo[i]
    BY <1>1, <2>1, <2>2
  <2> QED
    BY <1>1, <2>1, <2>2, <2>3, <2>4 DEF ClearProgress
<1>10. ASSUME NEW t \in Threads, Drain(t) PROVE ClearProgress'
  <2>1. pc[t] = "drain" /\ fifoLock' = fifoLock
    BY <1>10 DEF Drain
  <2>2. \A u \in Threads : pc[u] # "clear"
    BY <2>1 DEF DisposeInv
  <2>3. fifoLock = NoThread
    BY <1>1, <2>2 DEF ControlInv, LockInv
  <2> QED
    BY <1>3, <2>1, <2>3
<1>11. CASE UNCHANGED vars
  BY <1>2, <1>11 DEF vars
<1> QED
  BY <1>5, <1>6, <1>7, <1>8, <1>9, <1>10, <1>11, NextSplit DEF Terminated, Quiet

-----------------------------------------------------------------------------
(* The inductive invariant, and the theorems.                              *)
IInv ==
  /\ ControlInv
  /\ OnePlace
  /\ PoolCounted
  /\ ListCounted
  /\ BytesCounted
  /\ SpareForEmergency
  /\ NoLostWakeup
  /\ ClearProgress
  /\ DisposeInv

LEMMA InductiveInvariant == Spec => []IInv
<1>1. Init => IInv
  BY ControlInit, PlaceInit, CountInit, BytesInit, SpareInit, WakeInit, ClearInit,
     DisposeInit DEF IInv
<1>2. IInv /\ [Next]_vars => IInv'
  BY ControlStep, PlaceStep, CountStep, BytesStep, SpareStep, PoolWakeStep, FifoWakeStep, ClearStep,
     DisposeStep DEF IInv, NoLostWakeup
<1> QED
  BY <1>1, <1>2, PTL DEF Spec

(* Every variable of the fifo keeps its type, whatever the threads call.   *)
THEOREM FifoTypeCorrect == Spec => []TypeOK
  BY InductiveInvariant, PTL DEF IInv, ControlInv

(* No element is lost, queued twice, or in two hands: put, insert, get,    *)
(* free, clear and dispose move it from one place to another.              *)
THEOREM FifoOnePlace == Spec => []OnePlace
  BY InductiveInvariant, PTL DEF IInv

(* The number of free elements, the length of the list and its bytes, kept *)
(* by every function of buffer.c as it links and unlinks, are those of the *)
(* lists, in the midst of clear too.                                       *)
THEOREM FifoCountersAgree == Spec => []CountersAgree
  BY InductiveInvariant, PTL DEF IInv, CountersAgree

(* The assertion in buffer_pool_free holds.                                *)
THEOREM FifoNeverTooManyFrees == Spec => []NeverTooManyFrees
<1>1. IInv => NeverTooManyFrees
  <2> SUFFICES ASSUME IInv PROVE NeverTooManyFrees
    OBVIOUS
  <2>1. pool \subseteq Elements /\ numFree = Cardinality(pool)
    BY DEF IInv, ControlInv, TypeOK, PoolCounted
  <2> QED
    BY <2>1, ElementsAssumption, FS_Subset DEF NeverTooManyFrees, Capacity
<1> QED
  BY <1>1, InductiveInvariant, PTL

(* buffer_pool_alloc leaves an element for buffer_pool_try_alloc.          *)
THEOREM FifoSpareForEmergency == Spec => []SpareForEmergency
  BY InductiveInvariant, PTL DEF IInv

(* One signal for every free and every put is enough.                      *)
THEOREM FifoNoLostWakeup == Spec => []NoLostWakeup
  BY InductiveInvariant, PTL DEF IInv

(* clear leaves behind itself nothing but control buffers.                 *)
THEOREM FifoClearProgress == Spec => []ClearProgress
  BY InductiveInvariant, PTL DEF IInv

-----------------------------------------------------------------------------
(* The refinement: what a fifo promises is MediaQueue.  While clear walks, *)
(* Promised and Unused are what its walk will leave behind.                *)
ControlElements == {e \in Elements : kind[e] = "control"}

(* Both are functions of the list, the pool, the kinds and the mutex.      *)
LEMMA SamePromise ==
  ASSUME UNCHANGED <<pool, fifo, kind, held, destroyed>>, InClear' <=> InClear
  PROVE  UNCHANGED Queue!qvars
<1>1. CASE InClear
  <2>1. Promised' = Promised /\ Unused' = Unused
    BY <1>1 DEF Promised, Unused
  <2> QED BY <2>1 DEF Queue!qvars
<1>2. CASE ~InClear
  <2>1. Promised' = Promised /\ Unused' = Unused
    BY <1>2 DEF Promised, Unused
  <2> QED BY <2>1 DEF Queue!qvars
<1> QED BY <1>1, <1>2

LEMMA InClearFacts ==
  ASSUME ControlInv
  PROVE  /\ \A t \in Threads : pc[t] = "clear" => InClear /\ fifoLock = t
         /\ (\A t \in Threads : pc[t] # "clear") => ~InClear
  BY NullAssumption DEF ControlInv, TypeOK, LockInv, InClear

LEMMA RefineInit == Init => Queue!QInit
<1> SUFFICES ASSUME Init PROVE Queue!QInit
  OBVIOUS
<1>1. ~InClear /\ Promised = << >> /\ Unused = Elements
  BY DEF Init, InClear, Promised, Unused
<1>2. kind \in [Elements -> {"control", "data"}] /\ held = [t \in Threads |-> NoElem]
  BY DEF Init
<1> QED
  BY <1>1, <1>2 DEF Queue!QInit

(* Nothing is destroyed before dispose has let everybody go.               *)
LEMMA NotDestroyed ==
  ASSUME DisposeInv, NEW t \in Threads, pc[t] \notin {"ready", "drain", "gone"} \/ phase = "open"
  PROVE  destroyed = {}
  BY DEF DisposeInv

(* alloc and try_alloc take an element nobody uses.                        *)
LEMMA TakeRefines ==
  ASSUME ControlInv, DisposeInv, OnePlace, NEW t \in Threads, AllocTake(t) \/ TryAlloc(t)
  PROVE  Queue!Take(t)
<1>1. PICK e \in pool : /\ pool' = pool \ {e} /\ held' = [held EXCEPT ![t] = e]
                        /\ UNCHANGED <<fifo, kind, fifoLock, destroyed>>
                        /\ pc[t] = "alloc" \/ (pc[t] = "ready" /\ phase = "open")
  BY DEF AllocTake, TryAlloc, TakeFromPool, fifoVars, Starts
<1>2. held[t] = NoElem /\ destroyed = {}
  BY <1>1, NotDestroyed DEF ControlInv, OwnInv
<1>3. fifo \in Seq(Elements) /\ e \notin ToSet(fifo)
  BY <1>1 DEF OnePlace, ListApart, ToSet, ControlInv, TypeOK
<1>4. e \in Unused /\ Unused' = Unused \ {e} /\ Promised' = Promised
  BY <1>1, <1>2, <1>3 DEF Unused, Promised, InClear
<1> QED
  BY <1>1, <1>2, <1>4 DEF Queue!Take

LEMMA PutRefines ==
  ASSUME ControlInv, NEW t \in Threads, NEW k \in Kinds, NEW s \in Sizes, Put(t, k, s)
  PROVE  Queue!Send(t)
<1>1. /\ pc[t] = "own" /\ fifoLock = NoThread /\ kind' = [kind EXCEPT ![held[t]] = k]
      /\ fifo' = Append(fifo, held[t]) /\ held' = [held EXCEPT ![t] = NoElem]
      /\ UNCHANGED <<pool, fifoLock, destroyed>>
  BY DEF Put, Fill, Link, GiveUp, poolVars
<1>2. held[t] # NoElem /\ k \in {"control", "data"}
  BY <1>1 DEF ControlInv, OwnInv, Kinds
<1>3. Promised' = Append(Promised, held[t]) /\ Unused' = Unused
  BY <1>1 DEF Promised, Unused, InClear
<1> QED
  BY <1>1, <1>2, <1>3 DEF Queue!Send, Queue!Release

LEMMA InsertRefines ==
  ASSUME ControlInv, NEW t \in Inserters, Insert(t)
  PROVE  Queue!Jump(t)
<1>1. /\ pc[t] = "own" /\ fifoLock = NoThread /\ kind' = [kind EXCEPT ![held[t]] = "control"]
      /\ fifo' = <<held[t]>> \o fifo /\ held' = [held EXCEPT ![t] = NoElem]
      /\ UNCHANGED <<pool, fifoLock, destroyed>>
  BY DEF Insert, Fill, GiveUp, poolVars
<1>2. held[t] # NoElem
  BY <1>1 DEF ControlInv, OwnInv, Threads
<1>3. Promised' = <<held[t]>> \o Promised /\ Unused' = Unused
  BY <1>1 DEF Promised, Unused, InClear
<1> QED
  BY <1>1, <1>2, <1>3 DEF Queue!Jump, Queue!Release

LEMMA GetRefines ==
  ASSUME ControlInv, NEW t \in Threads, GetTake(t)
  PROVE  Queue!Deliver(t)
<1>1. /\ pc[t] = "get" /\ fifoLock = NoThread /\ fifo # << >>
      /\ fifo' = Tail(fifo) /\ held' = [held EXCEPT ![t] = Head(fifo)]
      /\ UNCHANGED <<pool, kind, fifoLock, destroyed>>
  BY DEF GetTake, RemoveHead, poolVars, elemVars
<1>2. held[t] = NoElem
  BY <1>1 DEF ControlInv, OwnInv
<1>3. Promised = fifo /\ Promised' = Tail(fifo) /\ Unused' = Unused
  BY <1>1 DEF Promised, Unused, InClear
<1> QED
  BY <1>1, <1>2, <1>3 DEF Queue!Deliver

LEMMA FreeRefines ==
  ASSUME ControlInv, DisposeInv, OnePlace, NEW t \in Threads, Free(t)
  PROVE  Queue!Return(t)
<1>1. /\ pc[t] = "own" /\ pool' = pool \cup {held[t]} /\ held' = [held EXCEPT ![t] = NoElem]
      /\ UNCHANGED <<fifo, kind, fifoLock, destroyed>>
  BY DEF Free, ReturnToPool, GiveUp, fifoVars, elemVars
<1>2. held[t] # NoElem /\ destroyed = {}
  BY <1>1, NotDestroyed DEF ControlInv, OwnInv
<1>3. Promised' = Promised /\ Unused' = Unused \cup {held[t]}
  BY <1>1, <1>2 DEF Promised, Unused, InClear
<1> QED
  BY <1>1, <1>2, <1>3 DEF Queue!Return, Queue!Release

(* clear takes effect as a whole when it takes the mutex.                  *)
LEMMA ClearStartRefines ==
  ASSUME ControlInv, NEW t \in Threads, ClearStart(t) \/ Dispose(t)
  PROVE  Queue!Flush
<1>1. /\ fifoLock = NoThread /\ fifoLock' = t /\ t # NoThread
      /\ UNCHANGED <<pool, fifo, kind, held, destroyed>>
  BY NullAssumption DEF ClearStart, Dispose, poolVars, fifoVars, elemVars
<1>2. Promised = fifo /\ Unused = pool \ destroyed
  BY <1>1 DEF Promised, Unused, InClear
<1>3. Promised' = Keep(fifo, ControlElements)
  BY <1>1 DEF Promised, InClear, ControlElements
<1>4. Unused' = Unused \cup {e \in ToSet(fifo) : kind[e] # "control"}
  BY <1>1, <1>2 DEF Unused, InClear
<1>5. Queue!Control(fifo, kind) = Keep(fifo, ControlElements)
  BY DEF Queue!Control, Queue!Keep, Keep, ControlElements
<1>6. Queue!Data(fifo, kind) = {e \in ToSet(fifo) : kind[e] # "control"}
  BY DEF Queue!Data, Queue!ToSet, ToSet
<1> QED
  BY <1>1, <1>2, <1>3, <1>4, <1>5, <1>6 DEF Queue!Flush

(* The element it unlinks was given up then,  ...                          *)
LEMMA ClearDropRefines ==
  ASSUME ControlInv, DisposeInv, OnePlace, NEW t \in Threads, ClearDrop(t)
  PROVE  UNCHANGED Queue!qvars
<1>1. /\ pc[t] = "clear" /\ pos \in 1..Len(fifo) /\ kind[fifo[pos]] # "control"
      /\ fifo' = RemoveAt(fifo, pos) /\ pool' = pool \cup {fifo[pos]}
      /\ UNCHANGED <<kind, held, fifoLock, destroyed>>
  BY DEF ClearDrop, Unlink, Dropped, ReturnToPool, elemVars, ControlInv, TypeOK
<1>2. InClear /\ InClear' /\ destroyed = {} /\ destroyed' = {} /\ kind' = kind
  BY <1>1, InClearFacts, NotDestroyed DEF InClear
<1>3. /\ fifo \in Seq(Elements) /\ fifo' \in Seq(Elements)
      /\ Without(fifo, pos, fifo')
  BY <1>1, RemoveAtWithout DEF ControlInv, TypeOK
<1>4. fifo[pos] \notin ControlElements
  BY <1>1 DEF ControlElements
<1>5. Keep(fifo', ControlElements) = Keep(fifo, ControlElements)
  BY <1>1, <1>3, <1>4, KeepWithout
<1>6. Promised' = Promised
  BY <1>2, <1>5 DEF Promised, ControlElements
<1>7. ToSet(fifo) = ToSet(fifo') \cup {fifo[pos]}
  <2>1. Len(fifo) \in Nat /\ Len(fifo') = Len(fifo) - 1
    BY <1>3 DEF Without
  <2>2. ASSUME NEW e \in ToSet(fifo), e # fifo[pos] PROVE e \in ToSet(fifo')
    <3>1. PICK i \in 1..Len(fifo) : fifo[i] = e /\ i # pos
      BY <2>2 DEF ToSet
    <3>2. CASE i < pos
      <4>1. i \in 1..Len(fifo') /\ fifo'[i] = e
        BY <3>1, <3>2, <2>1, <1>1, <1>3 DEF Without
      <4> QED BY <4>1 DEF ToSet
    <3>3. CASE i > pos
      <4>1. i - 1 \in 1..Len(fifo') /\ ~(i - 1 < pos) /\ i - 1 + 1 = i
        BY <3>1, <3>3, <2>1, <1>1
      <4>2. fifo'[i - 1] = e
        BY <3>1, <4>1, <1>3 DEF Without
      <4> QED BY <4>1, <4>2 DEF ToSet
    <3> QED BY <3>1, <3>2, <3>3, <1>1, <2>1
  <2>3. ASSUME NEW e \in ToSet(fifo') PROVE e \in ToSet(fifo)
    <3>1. PICK i \in 1..Len(fifo') : fifo'[i] = e
      BY DEF ToSet
    <3>2. e = IF i < pos THEN fifo[i] ELSE fifo[i + 1]
      BY <3>1, <1>3 DEF Without
    <3>3. i \in 1..Len(fifo) /\ i + 1 \in 1..Len(fifo)
      BY <2>1
    <3> QED BY <3>2, <3>3 DEF ToSet
  <2>4. fifo[pos] \in ToSet(fifo)
    BY <1>1 DEF ToSet
  <2> QED BY <2>2, <2>3, <2>4
<1>8. Unused' = Unused
  BY <1>1, <1>2, <1>7 DEF Unused
<1> QED
  BY <1>1, <1>6, <1>8 DEF Queue!qvars

(* ... and when it is through, its walk has left what it promised.         *)
LEMMA ClearEndRefines ==
  ASSUME ControlInv, ClearProgress, NEW t \in Threads, ClearEnd(t)
  PROVE  UNCHANGED Queue!qvars
<1>1. /\ pc[t] = "clear" /\ pos > Len(fifo) /\ fifoLock' = NoThread
      /\ UNCHANGED <<pool, fifo, kind, held, destroyed>>
  BY DEF ClearEnd, poolVars, fifoVars, elemVars
<1>2. InClear /\ ~InClear' /\ fifo \in Seq(Elements) /\ Len(fifo) \in Nat /\ pos \in Nat
  BY <1>1, InClearFacts, LenProperties DEF InClear, ControlInv, TypeOK
<1>3. \A i \in 1..Len(fifo) : kind[fifo[i]] = "control" /\ fifo[i] \in Elements
  BY <1>1, <1>2, ElementOfSeq DEF ClearProgress, InClear
<1>4. \A i \in 1..Len(fifo) : fifo[i] \in ControlElements
  BY <1>3 DEF ControlElements
<1>5. Keep(fifo, ControlElements) = fifo
  BY <1>2, <1>4, KeepAll
<1>6. Promised' = Promised
  BY <1>1, <1>2, <1>5 DEF Promised, ControlElements
<1>7. {e \in ToSet(fifo) : kind[e] # "control"} = {}
  BY <1>3 DEF ToSet
<1>8. Unused' = Unused
  BY <1>1, <1>2, <1>7 DEF Unused
<1> QED
  BY <1>1, <1>6, <1>8 DEF Queue!qvars

(* dispose destroys the free elements, then the queue from its head.       *)
LEMMA DisposeRefines ==
  ASSUME ControlInv, DisposeInv, OnePlace, NEW t \in Threads, DisposePool(t) \/ Drain(t)
  PROVE  Queue!DestroyFree \/ Queue!DestroyHead
<1>1. pc[t] \in {"disposePool", "drain"} /\ UNCHANGED <<pool, kind, held, fifoLock>>
  BY DEF DisposePool, Drain, poolVars, elemVars
<1>2. phase = "disposing" /\ \A u \in Threads : pc[u] \notin {"clear", "own"}
  BY <1>1 DEF DisposeInv
<1>3. ~InClear /\ ~InClear'
  BY <1>1, <1>2, InClearFacts DEF InClear
<1>4. \A u \in Threads : held[u] = NoElem
  BY <1>2 DEF ControlInv, OwnInv
<1>5. CASE DisposePool(t)
  <2>1. destroyed' = pool /\ fifo' = fifo
    BY <1>5 DEF DisposePool, fifoVars
  <2>2. Unused' = {} /\ Promised' = Promised
    BY <1>1, <1>3, <2>1 DEF Unused, Promised
  <2> QED BY <1>1, <1>4, <2>2 DEF Queue!DestroyFree
<1>6. CASE Drain(t)
  <2>1. /\ fifo # << >> /\ fifo' = Tail(fifo) /\ destroyed' = destroyed \cup {Head(fifo)}
        /\ fifo \in Seq(Elements)
    BY <1>6 DEF Drain, RemoveHead, ControlInv, TypeOK
  <2>2. Head(fifo) = fifo[1] /\ 1 \in 1..Len(fifo)
    BY <2>1, WithoutHead
  <2>3. Head(fifo) \notin pool
    BY <2>2 DEF OnePlace, ListApart
  <2>4. Unused' = Unused /\ Promised = fifo /\ Promised' = Tail(fifo)
    BY <1>1, <1>3, <2>1, <2>3 DEF Unused, Promised
  <2> QED BY <1>1, <1>4, <2>1, <2>4 DEF Queue!DestroyHead
<1> QED BY <1>5, <1>6

LEMMA RefineStep == IInv /\ [Next]_vars => [Queue!QNext]_(Queue!qvars)
<1> SUFFICES ASSUME IInv, [Next]_vars PROVE [Queue!QNext]_(Queue!qvars)
  OBVIOUS
<1>1. ControlInv /\ DisposeInv /\ OnePlace /\ ClearProgress
  BY DEF IInv
<1>2. ASSUME NEW t \in Threads,
             \/ CallAlloc(t) \/ AllocSleep(t) \/ CallGet(t) \/ GetSleep(t)
             \/ ClearKeep(t) \/ DisposeEnd(t) \/ SpuriousWakeup(t)
      PROVE  UNCHANGED Queue!qvars
  <2>1. UNCHANGED <<pool, fifo, kind, held, destroyed, fifoLock>>
    BY <1>2 DEF CallAlloc, AllocSleep, CallGet, GetSleep, ClearKeep, DisposeEnd,
       SpuriousWakeup, poolVars, fifoVars, elemVars
  <2> QED BY <2>1, SamePromise DEF InClear
<1>3. CASE UNCHANGED vars
  <2>1. UNCHANGED <<pool, fifo, kind, held, destroyed, fifoLock>>
    BY <1>3 DEF vars
  <2> QED BY <2>1, SamePromise DEF InClear
<1>4. ASSUME NEW t \in Threads, AllocTake(t) \/ TryAlloc(t) PROVE Queue!QNext
  BY <1>1, <1>4, TakeRefines DEF Queue!QNext
<1>5. ASSUME NEW t \in Threads, \E k \in Kinds, s \in Sizes : Put(t, k, s)
      PROVE  Queue!QNext
  BY <1>1, <1>5, PutRefines DEF Queue!QNext
<1>6. ASSUME NEW t \in Inserters, Insert(t) PROVE Queue!QNext
  BY <1>1, <1>6, InsertRefines DEF Queue!QNext, Threads
<1>7. ASSUME NEW t \in Threads, GetTake(t) PROVE Queue!QNext
  BY <1>1, <1>7, GetRefines DEF Queue!QNext
<1>8. ASSUME NEW t \in Threads, Free(t) PROVE Queue!QNext
  BY <1>1, <1>8, FreeRefines DEF Queue!QNext
<1>9. ASSUME NEW t \in Threads, ClearStart(t) \/ Dispose(t) PROVE Queue!QNext
  BY <1>1, <1>9, ClearStartRefines DEF Queue!QNext
<1>10. ASSUME NEW t \in Threads, ClearDrop(t) \/ ClearEnd(t) PROVE UNCHANGED Queue!qvars
  BY <1>1, <1>10, ClearDropRefines, ClearEndRefines
<1>11. ASSUME NEW t \in Threads, DisposePool(t) \/ Drain(t) PROVE Queue!QNext
  BY <1>1, <1>11, DisposeRefines DEF Queue!QNext
<1>12. Threads = Producers \cup Consumers \cup Inserters \cup Flushers
  BY DEF Threads
<1>13. ASSUME NEW t \in Producers, Producing(t) PROVE [Queue!QNext]_(Queue!qvars)
  BY <1>2, <1>4, <1>5, <1>8, <1>12, <1>13 DEF Producing
<1>14. ASSUME NEW t \in Consumers, Consuming(t) PROVE [Queue!QNext]_(Queue!qvars)
  BY <1>2, <1>7, <1>8, <1>12, <1>14 DEF Consuming
<1>15. ASSUME NEW t \in Inserters, Inserting(t) PROVE [Queue!QNext]_(Queue!qvars)
  BY <1>4, <1>6, <1>12, <1>15 DEF Inserting
<1>16. ASSUME NEW t \in Flushers, Clearing(t) \/ Disposing(t)
       PROVE  [Queue!QNext]_(Queue!qvars)
  BY <1>2, <1>9, <1>10, <1>11, <1>12, <1>16 DEF Clearing, Disposing
<1> QED
  BY <1>2, <1>3, <1>13, <1>14, <1>15, <1>16 DEF Next, Terminated

(* buffer.c, with its waits, its counters and a clear that gives back one  *)
(* element at a time while others allocate, keeps the promises of the      *)
(* abstract queue: one owner, first in first out behind what was inserted, *)
(* a flush that is atomic and spares the control elements.                 *)
THEOREM FifoImplementsMediaQueue == Spec => ImplementsMediaQueue
  BY RefineInit, RefineStep, InductiveInvariant, PTL DEF Spec, ImplementsMediaQueue, Queue!QSpec
=============================================================================
