----------------------------- MODULE MediaQueue -----------------------------
(***************************************************************************)
(* What the buffer fifo of src/src/xine-engine/buffer.c promises to the    *)
(* demuxers and decoders that use it, without its mutexes, counters and    *)
(* waits: every element has one owner; elements come out in the order in   *)
(* which they were put, behind the ones that were inserted; a flush drops  *)
(* the data elements at once and keeps the control elements in order.      *)
(***************************************************************************)
EXTENDS Sequences, SequencesExt, ListOps

CONSTANTS Elements, Threads, Inserters, NoElem

VARIABLES
  free,   \* elements nobody uses
  queue,  \* elements on their way to the decoder
  kind,   \* what an element carries
  held    \* the element a thread is working on

qvars == <<free, queue, kind, held>>

Control(q, k) == Keep(q, {e \in Elements : k[e] = "control"})
Data(q, k)    == {e \in ToSet(q) : k[e] # "control"}

QInit ==
  /\ free = Elements
  /\ queue = << >>
  /\ kind \in [Elements -> {"control", "data"}]
  /\ held = [t \in Threads |-> NoElem]

(* A thread gets an element nobody uses.                                   *)
Take(t) ==
  /\ held[t] = NoElem
  /\ \E e \in free : free' = free \ {e} /\ held' = [held EXCEPT ![t] = e]
  /\ UNCHANGED <<queue, kind>>

Release(t) == held[t] # NoElem /\ held' = [held EXCEPT ![t] = NoElem]

(* It sends it behind everything else, ...                                 *)
Send(t) ==
  /\ Release(t)
  /\ queue' = Append(queue, held[t])
  /\ \E k \in {"control", "data"} : kind' = [kind EXCEPT ![held[t]] = k]
  /\ UNCHANGED free

(* ... or, if it may, a control element ahead of everything else, ...      *)
Jump(t) ==
  /\ t \in Inserters
  /\ Release(t)
  /\ queue' = <<held[t]>> \o queue
  /\ kind' = [kind EXCEPT ![held[t]] = "control"]
  /\ UNCHANGED free

(* ... or gives it back.                                                   *)
Return(t) ==
  /\ Release(t)
  /\ free' = free \cup {held[t]}
  /\ UNCHANGED <<queue, kind>>

(* A thread receives the element at the head.                              *)
Deliver(t) ==
  /\ held[t] = NoElem
  /\ queue # << >>
  /\ held' = [held EXCEPT ![t] = Head(queue)]
  /\ queue' = Tail(queue)
  /\ UNCHANGED <<free, kind>>

Flush ==
  /\ queue' = Control(queue, kind)
  /\ free' = free \cup Data(queue, kind)
  /\ UNCHANGED <<kind, held>>

(* The queue is taken down once nobody works on an element.                *)
DestroyFree ==
  /\ \A t \in Threads : held[t] = NoElem
  /\ free' = {}
  /\ UNCHANGED <<queue, kind, held>>

DestroyHead ==
  /\ \A t \in Threads : held[t] = NoElem
  /\ queue # << >>
  /\ queue' = Tail(queue)
  /\ UNCHANGED <<free, kind, held>>

QNext ==
  \/ \E t \in Threads : \/ Take(t) \/ Send(t) \/ Jump(t) \/ Return(t) \/ Deliver(t)
  \/ Flush
  \/ DestroyFree
  \/ DestroyHead

QSpec == QInit /\ [][QNext]_qvars
=============================================================================
