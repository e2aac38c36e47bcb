---------------------------- MODULE EventQueues ----------------------------
(***************************************************************************)
(* The events of a stream (src/src/xine-engine/events.c): every module     *)
(* that listens has a queue in the stream's list, a send copies the event  *)
(* into each of them, a reader polls its queue or lets a listener thread   *)
(* call it back, and dispose takes the queue off the list, tells the       *)
(* listener to quit and joins it.                                          *)
(*                                                                         *)
(* A send holds event_queues_lock over the whole list and takes the mutex  *)
(* of one queue at a time; what is done under a queue's mutex is one step. *)
(* Modules that use the queues compose these actions with their own.       *)
(***************************************************************************)
EXTENDS Integers, Sequences, FiniteSets, SequencesExt, ListOps

CONSTANTS
  Queues,     \* the queues that can exist
  Listening,  \* those with a listener thread; the others are polled
  Senders,    \* threads that send events
  None,       \* no queue, no thread, no event
  MaxSends    \* bound on the events sent

Types == {"finished", "cue"}
Event == [type : Types, number : 1..MaxSends] \cup {[type |-> "quit", number |-> 0]}
Quit  == [type |-> "quit", number |-> 0]

ASSUME ListeningAssumption == Listening \subseteq Queues
ASSUME NoneAssumption == None \notin Queues \cup Senders \cup Event
ASSUME SendsAssumption == MaxSends \in Nat

VARIABLES
  list,      \* stream->event_queues
  listLock,  \* the thread that holds event_queues_lock
  events,    \* queue->events
  life,      \* how far the owner of a queue is with it
  listener,  \* where the listener thread of a queue is
  handling,  \* the event it handles
  cursor,    \* the queue a send has reached
  sending,   \* the event it copies
  sent,      \* events sent so far; an event's number is its place among them
  last       \* the number of the last event a queue's reader has taken

queueVars == <<list, listLock, events, life, listener, handling, cursor,
               sending, sent, last>>

QueuesTypeOK ==
  /\ list \in Seq(Queues) /\ IsInjective(list)
  /\ ToSet(list) = {q \in Queues : life[q] = "open"}
  /\ listLock \in Senders \cup {None}
  /\ \A s \in Senders : sending[s] # None <=> listLock = s
  /\ events \in [Queues -> Seq(Event)]
  /\ life \in [Queues -> {"none", "open", "unlisted", "quitting", "joined", "freed"}]
  /\ listener \in [Queues -> {"none", "wait", "asleep", "callback", "exited"}]
  /\ handling \in [Queues -> Event \cup {None}]
  /\ cursor \in [Senders -> Queues \cup {None}]
  /\ sending \in [Senders -> Event \cup {None}]
  /\ sent \in 0..MaxSends
  /\ last \in [Queues -> 0..MaxSends]

QueuesInit ==
  /\ list = << >> /\ listLock = None
  /\ events = [q \in Queues |-> << >>]
  /\ life = [q \in Queues |-> "none"]
  /\ listener = [q \in Queues |-> "none"]
  /\ handling = [q \in Queues |-> None]
  /\ cursor = [s \in Senders |-> None]
  /\ sending = [s \in Senders |-> None]
  /\ sent = 0
  /\ last = [q \in Queues |-> 0]

(* pthread_cond_signal of new_event wakes the listener, the one waiter a   *)
(* queue can have.                                                         *)
Signal(q) ==
  listener' = [listener EXCEPT ![q] = IF @ = "asleep" THEN "wait" ELSE @]

(* xine_event_new_queue                                                    *)
NewQueue(q) ==
  /\ life[q] = "none" /\ listLock = None
  /\ life' = [life EXCEPT ![q] = "open"]
  /\ list' = Append(list, q)
  /\ last' = [last EXCEPT ![q] = sent]
  /\ UNCHANGED <<listLock, events, listener, handling, cursor, sending, sent>>

(* xine_event_create_listener_thread                                       *)
CreateListener(q) ==
  /\ q \in Listening /\ life[q] = "open" /\ listener[q] = "none"
  /\ listener' = [listener EXCEPT ![q] = "wait"]
  /\ UNCHANGED <<list, listLock, events, life, handling, cursor, sending, sent, last>>

(* Mutant: a send does not take the lock of the list.                      *)
Send_NoLock(s, type) ==
  /\ sending[s] = None /\ sent < MaxSends
  /\ listLock' = s
  /\ sent' = sent + 1
  /\ sending' = [sending EXCEPT ![s] = [type |-> type, number |-> sent + 1]]
  /\ cursor' = [cursor EXCEPT ![s] = IF list = << >> THEN None ELSE Head(list)]
  /\ UNCHANGED <<list, events, life, listener, handling, last>>

(* xine_event_send takes the lock of the list, ...                         *)
Send(s, type) ==
  /\ listLock = None /\ sending[s] = None /\ sent < MaxSends
  /\ listLock' = s
  /\ sent' = sent + 1
  /\ sending' = [sending EXCEPT ![s] = [type |-> type, number |-> sent + 1]]
  /\ cursor' = [cursor EXCEPT ![s] = IF list = << >> THEN None ELSE Head(list)]
  /\ UNCHANGED <<list, events, life, listener, handling, last>>

Place(q) == IF q \in ToSet(list) THEN CHOOSE i \in 1..Len(list) : list[i] = q ELSE 0
After(q) == IF Place(q) \in 1..Len(list) - 1 THEN list[Place(q) + 1] ELSE None

(* ... appends a copy to one queue after the other ...                     *)
Deliver(s) ==
  /\ cursor[s] # None
  /\ events' = [events EXCEPT ![cursor[s]] = Append(@, sending[s])]
  /\ Signal(cursor[s])
  /\ cursor' = [cursor EXCEPT ![s] = After(@)]
  /\ UNCHANGED <<list, listLock, life, handling, sending, sent, last>>

(* Mutant: the lock is not released.                                       *)
Sent_Locked(s) ==
  /\ sending[s] # None /\ cursor[s] = None
  /\ sending' = [sending EXCEPT ![s] = None]
  /\ UNCHANGED <<list, listLock, events, life, listener, handling, cursor, sent, last>>

(* ... and unlocks.                                                        *)
Sent(s) ==
  /\ sending[s] # None /\ cursor[s] = None
  /\ sending' = [sending EXCEPT ![s] = None]
  /\ listLock' = None
  /\ UNCHANGED <<list, events, life, listener, handling, cursor, sent, last>>

TakeFirst(q) ==
  /\ events' = [events EXCEPT ![q] = Tail(@)]
  /\ last' = [last EXCEPT ![q] = IF Head(events[q]) = Quit THEN @
                                 ELSE Head(events[q]).number]

(* xine_event_get by the module that polls a queue                         *)
Get(q) ==
  /\ q \notin Listening /\ life[q] = "open" /\ events[q] # << >>
  /\ TakeFirst(q)
  /\ UNCHANGED <<list, listLock, life, listener, handling, cursor, sending, sent>>

(* xine_event_wait in the listener's loop sleeps while there is no event   *)
Sleep(q) ==
  /\ listener[q] = "wait" /\ events[q] = << >>
  /\ listener' = [listener EXCEPT ![q] = "asleep"]
  /\ UNCHANGED <<list, listLock, events, life, handling, cursor, sending, sent, last>>

(* and takes the first one; the loop ends with the quit event.             *)
Take(q) ==
  /\ listener[q] = "wait" /\ events[q] # << >>
  /\ TakeFirst(q)
  /\ IF Head(events[q]) = Quit
       THEN /\ listener' = [listener EXCEPT ![q] = "exited"]
            /\ UNCHANGED handling
       ELSE /\ listener' = [listener EXCEPT ![q] = "callback"]
            /\ handling' = [handling EXCEPT ![q] = Head(events[q])]
  /\ UNCHANGED <<list, listLock, life, cursor, sending, sent>>

(* The callback returns and the listener frees the event.                  *)
Returned(q) ==
  /\ listener[q] = "callback"
  /\ listener' = [listener EXCEPT ![q] = "wait"]
  /\ handling' = [handling EXCEPT ![q] = None]
  /\ UNCHANGED <<list, listLock, events, life, cursor, sending, sent, last>>

(* xine_event_dispose_queue takes the queue off the list, ...              *)
Unlist(q) ==
  /\ life[q] = "open" /\ listLock = None
  /\ list' = Keep(list, Queues \ {q})
  /\ life' = [life EXCEPT ![q] = "unlisted"]
  /\ UNCHANGED <<listLock, events, listener, handling, cursor, sending, sent, last>>

(* ... sends it the quit event, ...                                        *)
SendQuit(q) ==
  /\ life[q] = "unlisted"
  /\ events' = [events EXCEPT ![q] = Append(@, Quit)]
  /\ Signal(q)
  /\ life' = [life EXCEPT ![q] = "quitting"]
  /\ UNCHANGED <<list, listLock, handling, cursor, sending, sent, last>>

(* Mutant: the listener is not joined.                                     *)
JoinListener_Not(q) ==
  /\ life[q] = "quitting"
  /\ life' = [life EXCEPT ![q] = "joined"]
  /\ UNCHANGED <<list, listLock, events, listener, handling, cursor, sending, sent, last>>

(* ... joins the listener, if there is one, ...                            *)
JoinListener(q) ==
  /\ life[q] = "quitting" /\ listener[q] \in {"none", "exited"}
  /\ life' = [life EXCEPT ![q] = "joined"]
  /\ UNCHANGED <<list, listLock, events, listener, handling, cursor, sending, sent, last>>

(* ... drops the events nobody has read and frees the queue.               *)
FreeQueue(q) ==
  /\ life[q] = "joined"
  /\ events' = [events EXCEPT ![q] = << >>]
  /\ life' = [life EXCEPT ![q] = "freed"]
  /\ UNCHANGED <<list, listLock, listener, handling, cursor, sending, sent, last>>

Dispose(q) == Unlist(q) \/ SendQuit(q) \/ JoinListener(q) \/ FreeQueue(q)

-----------------------------------------------------------------------------
Unread(q)  == Keep(events[q], Event \ {Quit})
Numbers(q) == [i \in 1..Len(Unread(q)) |-> Unread(q)[i].number]

(* A send in progress has not reached q yet.                               *)
Ahead(q) == \E s \in Senders : cursor[s] \in Queues /\ Place(cursor[s]) <= Place(q)

(* What a queue holds continues what its reader has taken, without a gap,  *)
(* a repetition or a change of order, up to the last event sent or, for a  *)
(* send in progress, the one before (xine_event_send copies an event to    *)
(* all queues before another thread's send begins).                        *)
EventsInOrder ==
  \A q \in Queues :
     /\ \A i \in 1..Len(Numbers(q)) : Numbers(q)[i] = last[q] + i
     /\ q \in ToSet(list) =>
          last[q] + Len(Numbers(q)) = IF Ahead(q) THEN sent - 1 ELSE sent

(* Nobody uses a queue that is freed: no send has reached it and its       *)
(* listener has ended; and dispose has nothing to drop from a queue with a *)
(* listener, which has handled every event before it ended                 *)
(* (xine_event_dispose_queue removes, then quits, then joins).             *)
QueueOutlivesUse ==
  /\ \A s \in Senders : cursor[s] # None => life[cursor[s]] = "open"
  /\ \A q \in Queues : life[q] = "freed" => listener[q] \in {"none", "exited"}
  /\ \A q \in Listening :
       life[q] = "joined" /\ listener[q] = "exited" => events[q] = << >>
=============================================================================
