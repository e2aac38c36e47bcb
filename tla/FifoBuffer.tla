----------------------------- MODULE FifoBuffer -----------------------------
(***************************************************************************)
(* The buffer fifo of src/src/xine-engine/buffer.c: a pool of preallocated *)
(* elements (buffer_pool_mutex, buffer_pool_cond_not_empty) and a queue of *)
(* filled ones (mutex, not_empty) between a demuxer and a decoder.         *)
(*                                                                         *)
(* Every function of buffer.c is one critical section, hence one action,   *)
(* except for three: the two that wait on a condition variable (alloc and  *)
(* get are split into the call, the sleep and the take) and clear, which   *)
(* keeps the queue's mutex but takes and releases the pool's mutex for     *)
(* every element it frees, so that allocations happen in its midst.        *)
(***************************************************************************)
EXTENDS Integers, Sequences, FiniteSets, SequencesExt, ListOps

CONSTANTS
  Elements,    \* the elements the pool was created with (num_buffers of them)
  Producers,   \* threads that allocate and put: the demuxer, xine_* calls
  Consumers,   \* threads that get and free: the decoder loop
  Inserters,   \* threads that try_alloc and insert: video_out loop, rewiring
  Flushers,    \* threads that clear, and dispose of the fifo at the end
  Sizes,       \* the byte counts a producer may store in element->size
  NoElem,      \* the NULL element pointer
  NoThread     \* nobody holds the mutex

Threads == Producers \cup Consumers \cup Inserters \cup Flushers

(* fifo_buffer_new is given a count: the pool is finite.  An alloc needs   *)
(* two free elements, so that a smaller pool could never be used.          *)
ASSUME ElementsAssumption == IsFiniteSet(Elements) /\ Cardinality(Elements) >= 2
ASSUME ThreadsAssumption  == IsFiniteSet(Threads)
ASSUME NullAssumption     == NoElem \notin Elements /\ NoThread \notin Threads
ASSUME SizesAssumption    == Sizes \subseteq Nat

Capacity == Cardinality(Elements)

VARIABLES
  pool,       \* elements on the buffer_pool_top list
  numFree,    \* buffer_pool_num_free
  fifo,       \* the list from first to last
  fifoSize,   \* fifo_size
  dataSize,   \* fifo_data_size
  kind,       \* element->type: BUF_CONTROL_BASE or not
  size,       \* element->size
  held,       \* the element a thread allocated or got, and must give back
  emergency,  \* history: elements handed out by try_alloc, until they are freed
  pc,         \* where a thread is
  fifoLock,   \* who holds mutex over several steps (only clear does)
  pos,        \* clear's place in the list
  phase,      \* "open" until fifo_buffer_dispose is called
  destroyed   \* elements whose memory dispose gave back

poolVars == <<pool, numFree>>
fifoVars == <<fifo, fifoSize, dataSize>>
elemVars == <<kind, size>>
vars == <<pool, numFree, fifo, fifoSize, dataSize, kind, size, held, emergency,
          pc, fifoLock, pos, phase, destroyed>>

Kinds == {"control", "data"}
PCs == {"ready", "alloc", "allocSleep", "own", "get", "getSleep",
        "clear", "disposePool", "drain", "gone"}

TypeOK ==
  /\ pool \in SUBSET Elements
  /\ numFree \in Int
  /\ fifo \in Seq(Elements)
  /\ fifoSize \in Int
  /\ dataSize \in Int
  /\ kind \in [Elements -> Kinds]
  /\ size \in [Elements -> Nat]
  /\ held \in [Threads -> Elements \cup {NoElem}]
  /\ emergency \in SUBSET Elements
  /\ pc \in [Threads -> PCs]
  /\ fifoLock \in Threads \cup {NoThread}
  /\ pos \in Nat \ {0}
  /\ phase \in {"open", "disposing"}
  /\ destroyed \in SUBSET Elements

Init ==
  /\ pool = Elements
  /\ numFree = Capacity
  /\ fifo = << >>
  /\ fifoSize = 0
  /\ dataSize = 0
  /\ kind = [e \in Elements |-> "data"]
  /\ size = [e \in Elements |-> 0]
  /\ held = [t \in Threads |-> NoElem]
  /\ emergency = {}
  /\ pc = [t \in Threads |-> "ready"]
  /\ fifoLock = NoThread
  /\ pos = 1
  /\ phase = "open"
  /\ destroyed = {}

-----------------------------------------------------------------------------
(* pthread_cond_signal: the values p may take when one of the threads that *)
(* sleep, if any, is woken; it then competes for the mutex again.          *)
Signal(p, asleep, awake) ==
  LET sleepers == {t \in Threads : p[t] = asleep}
  IN  IF sleepers = {} THEN {p} ELSE {[p EXCEPT ![t] = awake] : t \in sleepers}

(* Mutants: no signal at all; a signal only for an empty list.             *)
SignalPool_Never(p) == {p}
SignalPool(p) == Signal(p, "allocSleep", "alloc")
SignalFifo_WhenEmpty(p) == IF fifo = << >> THEN Signal(p, "getSleep", "get") ELSE {p}
SignalFifo(p) == Signal(p, "getSleep", "get")

(* A step of a thread that is not inside dispose.                          *)
Starts(t, from) == pc[t] = from /\ phase = "open"

TakeFromPool(t, e) ==
  /\ pool' = pool \ {e}
  /\ numFree' = numFree - 1
  /\ size' = [size EXCEPT ![e] = 0]
  /\ held' = [held EXCEPT ![t] = e]
  /\ pc' = [pc EXCEPT ![t] = "own"]

(* buffer_pool_free, but for the wake-up.                                  *)
(* Mutant: the pointer was cleared before the element is linked.           *)
ReturnToPool_Cleared(e) ==
  /\ pool' = pool \cup {NoElem}
  /\ numFree' = numFree + 1
  /\ emergency' = emergency \ {e}

ReturnToPool(e) ==
  /\ pool' = pool \cup {e}
  /\ numFree' = numFree + 1
  /\ emergency' = emergency \ {e}

(* "we always keep one free buffer": the loop condition of alloc.  Mutant: *)
(* alloc takes the last one.                                               *)
MayAlloc_Last == numFree >= 1
MayAlloc == numFree >= 2

(* buffer_pool_alloc: the call, its wait while numFree < 2, its success.   *)
CallAlloc(t) ==
  /\ Starts(t, "ready")
  /\ pc' = [pc EXCEPT ![t] = "alloc"]
  /\ UNCHANGED <<poolVars, fifoVars, elemVars, held, emergency, fifoLock, pos,
                 phase, destroyed>>

AllocSleep(t) ==
  /\ pc[t] = "alloc"
  /\ ~MayAlloc
  /\ pc' = [pc EXCEPT ![t] = "allocSleep"]
  /\ UNCHANGED <<poolVars, fifoVars, elemVars, held, emergency, fifoLock, pos,
                 phase, destroyed>>

AllocTake(t) ==
  /\ pc[t] = "alloc"
  /\ MayAlloc
  /\ \E e \in pool : TakeFromPool(t, e)
  /\ UNCHANGED <<fifoVars, kind, emergency, fifoLock, pos, phase, destroyed>>

(* buffer_pool_try_alloc with a free element; without one it returns NULL  *)
(* and changes nothing.                                                    *)
TryAlloc(t) ==
  /\ Starts(t, "ready")
  /\ \E e \in pool : /\ TakeFromPool(t, e)
                     /\ emergency' = emergency \cup {e}
  /\ UNCHANGED <<fifoVars, kind, fifoLock, pos, phase, destroyed>>

(* The owner writes type and size, then calls put or insert.               *)
Fill(e, k, s) ==
  /\ kind' = [kind EXCEPT ![e] = k]
  /\ size' = [size EXCEPT ![e] = s]

(* The owner forgets the element.  Mutant: it goes on using it.            *)
GiveUp_Keep(t) == UNCHANGED held
GiveUp(t) == held' = [held EXCEPT ![t] = NoElem]

(* fifo_buffer_put.  Mutant: it overtakes what is queued.                  *)
Link_First(e) == <<e>> \o fifo
Link(e) == Append(fifo, e)

Put(t, k, s) ==
  /\ pc[t] = "own"
  /\ fifoLock = NoThread
  /\ Fill(held[t], k, s)
  /\ fifo' = Link(held[t])
  /\ fifoSize' = fifoSize + 1
  /\ dataSize' = dataSize + size'[held[t]]
  /\ GiveUp(t)
  /\ pc' \in SignalFifo([pc EXCEPT ![t] = "ready"])
  /\ UNCHANGED <<poolVars, emergency, fifoLock, pos, phase, destroyed>>

(* fifo_buffer_insert: its callers insert control buffers of size 0.       *)
Insert(t) ==
  /\ pc[t] = "own"
  /\ fifoLock = NoThread
  /\ Fill(held[t], "control", 0)
  /\ fifo' = <<held[t]>> \o fifo
  /\ fifoSize' = fifoSize + 1
  /\ dataSize' = dataSize + size'[held[t]]
  /\ GiveUp(t)
  /\ pc' \in SignalFifo([pc EXCEPT ![t] = "ready"])
  /\ UNCHANGED <<poolVars, emergency, fifoLock, pos, phase, destroyed>>

(* fifo_buffer_get: the call, its wait while the list is empty, its end.   *)
CallGet(t) ==
  /\ Starts(t, "ready")
  /\ pc' = [pc EXCEPT ![t] = "get"]
  /\ UNCHANGED <<poolVars, fifoVars, elemVars, held, emergency, fifoLock, pos,
                 phase, destroyed>>

GetSleep(t) ==
  /\ pc[t] = "get"
  /\ fifoLock = NoThread
  /\ fifo = << >>
  /\ pc' = [pc EXCEPT ![t] = "getSleep"]
  /\ UNCHANGED <<poolVars, fifoVars, elemVars, held, emergency, fifoLock, pos,
                 phase, destroyed>>

(* Mutant: the bytes of the element stay counted.                          *)
RemoveHead_Bytes ==
  /\ fifo # << >>
  /\ fifo' = Tail(fifo)
  /\ fifoSize' = fifoSize - 1
  /\ UNCHANGED dataSize

RemoveHead ==
  /\ fifo # << >>
  /\ fifo' = Tail(fifo)
  /\ fifoSize' = fifoSize - 1
  /\ dataSize' = dataSize - size[Head(fifo)]

GetTake(t) ==
  /\ pc[t] = "get"
  /\ fifoLock = NoThread
  /\ RemoveHead
  /\ held' = [held EXCEPT ![t] = Head(fifo)]
  /\ pc' = [pc EXCEPT ![t] = "own"]
  /\ UNCHANGED <<poolVars, elemVars, emergency, fifoLock, pos, phase, destroyed>>

(* element->free_buffer by the thread that owns it.                        *)
Free(t) ==
  /\ pc[t] = "own"
  /\ ReturnToPool(held[t])
  /\ GiveUp(t)
  /\ pc' \in SignalPool([pc EXCEPT ![t] = "ready"])
  /\ UNCHANGED <<fifoVars, elemVars, fifoLock, pos, phase, destroyed>>

-----------------------------------------------------------------------------
(* fifo_buffer_clear: walk the list under mutex, keep the control buffers, *)
(* unlink and free every other one.                                        *)
Dropped(e) == kind[e] # "control"

ClearStart(t) ==
  /\ Starts(t, "ready")
  /\ fifoLock = NoThread
  /\ fifoLock' = t
  /\ pos' = 1
  /\ pc' = [pc EXCEPT ![t] = "clear"]
  /\ UNCHANGED <<poolVars, fifoVars, elemVars, held, emergency, phase, destroyed>>

ClearKeep(t) ==
  /\ pc[t] = "clear"
  /\ pos <= Len(fifo)
  /\ ~Dropped(fifo[pos])
  /\ pos' = pos + 1
  /\ UNCHANGED <<poolVars, fifoVars, elemVars, held, emergency, pc, fifoLock,
                 phase, destroyed>>

Unlink ==
  /\ fifo' = RemoveAt(fifo, pos)
  /\ UNCHANGED pos

ClearDrop(t) ==
  /\ pc[t] = "clear"
  /\ pos <= Len(fifo)
  /\ Dropped(fifo[pos])
  /\ Unlink
  /\ fifoSize' = fifoSize - 1
  /\ dataSize' = dataSize - size[fifo[pos]]
  /\ ReturnToPool(fifo[pos])
  /\ pc' \in SignalPool(pc)
  /\ UNCHANGED <<elemVars, held, fifoLock, phase, destroyed>>

(* Mutant: the mutex is not released.                                     *)
ClearEnd_Locked(t) ==
  /\ pc[t] = "clear"
  /\ pos > Len(fifo)
  /\ pos' = 1
  /\ pc' = [pc EXCEPT ![t] = IF phase = "disposing" THEN "disposePool" ELSE "ready"]
  /\ UNCHANGED <<poolVars, fifoVars, elemVars, held, emergency, fifoLock,
                 phase, destroyed>>

ClearEnd(t) ==
  /\ pc[t] = "clear"
  /\ pos > Len(fifo)
  /\ fifoLock' = NoThread
  /\ pos' = 1
  /\ pc' = [pc EXCEPT ![t] = IF phase = "disposing" THEN "disposePool" ELSE "ready"]
  /\ UNCHANGED <<poolVars, fifoVars, elemVars, held, emergency, phase, destroyed>>

(* fifo_buffer_dispose: clear, free the pool's list, then get the elements *)
(* that are left until all of them are accounted for.  Nothing in buffer.c *)
(* keeps it from a fifo in use: its callers join the threads before        *)
(* (audio_decoder_shutdown, xine_dispose), which is assumed here.          *)
Joined == \A u \in Threads : pc[u] = "ready"

Dispose(t) ==
  /\ Starts(t, "ready")
  /\ fifoLock = NoThread
  /\ Joined
  /\ phase' = "disposing"
  /\ fifoLock' = t
  /\ pos' = 1
  /\ pc' = [pc EXCEPT ![t] = "clear"]
  /\ UNCHANGED <<poolVars, fifoVars, elemVars, held, emergency, destroyed>>

DisposePool(t) ==
  /\ pc[t] = "disposePool"
  /\ destroyed' = pool
  /\ pc' = [pc EXCEPT ![t] = "drain"]
  /\ UNCHANGED <<poolVars, fifoVars, elemVars, held, emergency, fifoLock, pos, phase>>

Drain(t) ==
  /\ pc[t] = "drain"
  /\ Cardinality(destroyed) < Capacity
  /\ RemoveHead
  /\ destroyed' = destroyed \cup {Head(fifo)}
  /\ UNCHANGED <<poolVars, elemVars, held, emergency, pc, fifoLock, pos, phase>>

DisposeEnd(t) ==
  /\ pc[t] = "drain"
  /\ Cardinality(destroyed) >= Capacity
  /\ pc' = [pc EXCEPT ![t] = "gone"]
  /\ UNCHANGED <<poolVars, fifoVars, elemVars, held, emergency, fifoLock, pos,
                 phase, destroyed>>

(* POSIX lets a thread return from pthread_cond_wait without a signal.     *)
SpuriousWakeup(t) ==
  /\ pc[t] \in {"allocSleep", "getSleep"}
  /\ pc' = [pc EXCEPT ![t] = IF pc[t] = "getSleep" THEN "get" ELSE "alloc"]
  /\ UNCHANGED <<poolVars, fifoVars, elemVars, held, emergency, fifoLock, pos,
                 phase, destroyed>>

(* The fifo is gone: nothing is left to do.                                *)
Terminated == (\E t \in Threads : pc[t] = "gone") /\ UNCHANGED vars

-----------------------------------------------------------------------------
Producing(t) == \/ CallAlloc(t) \/ AllocSleep(t) \/ AllocTake(t)
                \/ \E k \in Kinds, s \in Sizes : Put(t, k, s)
                \/ Free(t)                      \* an element it could not fill
Consuming(t) == CallGet(t) \/ GetSleep(t) \/ GetTake(t) \/ Free(t)
Inserting(t) == TryAlloc(t) \/ Insert(t)
Clearing(t)  == ClearStart(t) \/ ClearKeep(t) \/ ClearDrop(t) \/ ClearEnd(t)
Disposing(t) == Dispose(t) \/ DisposePool(t) \/ Drain(t) \/ DisposeEnd(t)

Next ==
  \/ \E t \in Producers : Producing(t)
  \/ \E t \in Consumers : Consuming(t)
  \/ \E t \in Inserters : Inserting(t)
  \/ \E t \in Flushers : Clearing(t) \/ Disposing(t)
  \/ \E t \in Threads : SpuriousWakeup(t)
  \/ Terminated

Spec == Init /\ [][Next]_vars

-----------------------------------------------------------------------------
Distinct(s) == \A i, j \in 1..Len(s) : s[i] = s[j] => i = j

(* Every element is somewhere, and in one place only: the pool, the list,  *)
(* or the hands of one thread (element->next links it into one list).      *)
ListApart == Distinct(fifo) /\ \A i \in 1..Len(fifo) : fifo[i] \notin pool
HeldApart ==
  \A t \in Threads : held[t] # NoElem =>
    /\ held[t] \notin pool
    /\ \A i \in 1..Len(fifo) : fifo[i] # held[t]
    /\ \A u \in Threads : held[u] = held[t] => u = t
NothingLost ==
  \A e \in Elements : \/ e \in pool \cup destroyed
                      \/ \E i \in 1..Len(fifo) : fifo[i] = e
                      \/ \E t \in Threads : held[t] = e
OnePlace == ListApart /\ HeldApart /\ NothingLost

(* buffer_pool_num_free, fifo_size and fifo_data_size agree with the lists *)
(* they are counted along; the last one is what the network buffer control *)
(* computes its fill level and bit rate from.                              *)
PoolCounted == numFree = Cardinality(pool)
ListCounted == fifoSize = Len(fifo)
BytesCounted == dataSize = Total(fifo, size)
CountersAgree ==
  /\ PoolCounted
  /\ ListCounted
  /\ BytesCounted

(* The assert of buffer_pool_free, TOO MANY FREE's, never fires: frees by  *)
(* decoders and by clear never return more than the pool's elements.       *)
NeverTooManyFrees == numFree <= Capacity

(* "we always keep one free buffer for emergency situations" (buffer.c:82):*)
(* the pool is empty only while an element that try_alloc handed out has   *)
(* not come back, so that one decoder flush or rewire at a time gets one.  *)
SpareForEmergency == numFree = 0 => emergency # {}

(* buffer_pool_free and put signal one waiter each, and a woken thread may *)
(* lose the race to another caller: still nobody sleeps on an element it   *)
(* could have, unless as many threads as there are such elements are about *)
(* to look.                                                                *)
Awake(s) == {t \in Threads : pc[t] = s}
PoolWake == Awake("allocSleep") # {} => numFree - 1 <= Cardinality(Awake("alloc"))
FifoWake == Awake("getSleep") # {} => fifoSize <= Cardinality(Awake("get"))
NoLostWakeup == PoolWake /\ FifoWake

(* While clear runs, what it passed is control data and nothing else       *)
(* touched the list; when it returns the list holds control buffers only.  *)
ClearProgress ==
  fifoLock # NoThread =>
    /\ pos <= Len(fifo) + 1
    /\ \A i \in 1..pos - 1 : kind[fifo[i]] = "control"

-----------------------------------------------------------------------------
(* The promise: a clear takes effect when it acquires the mutex.           *)
InClear == fifoLock # NoThread
Promised == IF InClear THEN Keep(fifo, {e \in Elements : kind[e] = "control"}) ELSE fifo
Unused   == (pool \ destroyed) \cup
              (IF InClear THEN {e \in ToSet(fifo) : kind[e] # "control"} ELSE {})
Queue == INSTANCE MediaQueue WITH queue <- Promised, free <- Unused

(* buffer.c implements the queue of MediaQueue.                            *)
ImplementsMediaQueue == Queue!QSpec

-----------------------------------------------------------------------------
(* Fairness: a runnable thread runs, and one that waits for a mutex gets   *)
(* it in the end although clear may take it again and again.  Decoders     *)
(* call get in an endless loop (video_decoder.c:109, audio_decoder.c:110), *)
(* demuxers put what they allocated.  No thread must call anything else.   *)
Fairness ==
  /\ \A t \in Producers : /\ WF_vars(AllocSleep(t)) /\ WF_vars(AllocTake(t))
                          /\ SF_vars(\E k \in Kinds, s \in Sizes : Put(t, k, s))
  /\ \A t \in Consumers : /\ WF_vars(CallGet(t)) /\ SF_vars(GetSleep(t))
                          /\ SF_vars(GetTake(t)) /\ WF_vars(Free(t))
  /\ \A t \in Inserters : SF_vars(Insert(t))
  /\ \A t \in Flushers : /\ WF_vars(ClearKeep(t) \/ ClearDrop(t) \/ ClearEnd(t))
                         /\ WF_vars(DisposePool(t) \/ Drain(t) \/ DisposeEnd(t))

FairSpec == Spec /\ Fairness

(* What is queued reaches a decoder, is cleared or is disposed of.         *)
QueuedLeaves ==
  \A e \in Elements : (e \in ToSet(fifo)) ~> (e \notin ToSet(fifo))

(* A demuxer that waits in buffer_pool_alloc gets its buffer, and dispose  *)
(* returns with every element accounted for (buffer.c:319).                *)
AllocReturns ==
  \A t \in Producers : (pc[t] \in {"alloc", "allocSleep"}) ~> (pc[t] = "own")
DisposeReturns == (phase = "disposing") ~> (destroyed = Elements)
FifoCallsReturn == AllocReturns /\ DisposeReturns
=============================================================================
