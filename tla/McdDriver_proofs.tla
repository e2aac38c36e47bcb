-------------------------- MODULE McdDriver_proofs --------------------------
(***************************************************************************)
(* Proofs about the event queues of events.c and the MCI driver that uses  *)
(* one, for every number of queues, senders, events and applications.      *)
(*                                                                         *)
(* The invariant has two halves.  QInv is about the queues alone and holds *)
(* after each of their operations: a send holds the list's lock as long as *)
(* its cursor is on the list, the quit event is the last of its queue, and *)
(* an event's number is its place behind what was taken.  DInv is about    *)
(* MCI_OPEN and MCI_CLOSE, which frame everything else, and about which    *)
(* threads are gone at each step of MCI_CLOSE.                             *)
(***************************************************************************)
EXTENDS McdDriver, ListOps_proofs

-----------------------------------------------------------------------------
(* The invariant of the queues.                                            *)

(* A send has the lock, an event with the newest number, and a cursor that *)
(* is on the list.                                                         *)
SendInv ==
  \A s \in Senders :
     /\ sending[s] # None => sending[s].type \in Types /\ sending[s].number = sent
     /\ cursor[s] # None => sending[s] # None /\ cursor[s] \in ToSet(list)

(* The quit event is the last one of a queue, and the last the listener    *)
(* takes.                                                                  *)
QuitLast(q) ==
  /\ life[q] \in {"none", "freed"} => events[q] = << >>
  /\ life[q] \in {"open", "unlisted"} => \A i \in 1..Len(events[q]) : events[q][i] # Quit
  /\ life[q] \in {"quitting", "joined"} =>
       IF listener[q] = "exited" THEN events[q] = << >>
       ELSE /\ events[q] # << >>
            /\ \A i \in 1..Len(events[q]) : events[q][i] = Quit <=> i = Len(events[q])

(* The listener lives between the creation and the join.                   *)
ListenerInv(q) ==
  /\ life[q] = "none" => listener[q] = "none"
  /\ listener[q] = "exited" => life[q] \in {"quitting", "joined", "freed"}
  /\ life[q] \in {"joined", "freed"} => listener[q] \in {"none", "exited"}
  /\ listener[q] # "none" => q \in Listening

(* An event's number is its place behind what the reader has taken.        *)
OrderInv(q) ==
  /\ \A i \in 1..Len(events[q]) : events[q][i] # Quit => events[q][i].number = last[q] + i
  /\ life[q] = "open" => last[q] + Len(events[q]) = IF Ahead(q) THEN sent - 1 ELSE sent

QInv ==
  /\ QueuesTypeOK
  /\ SendInv
  /\ \A q \in Queues : QuitLast(q) /\ ListenerInv(q) /\ OrderInv(q)

-----------------------------------------------------------------------------
(* Queues whose variables a step leaves alone.                             *)
Untouched(q) ==
  /\ events'[q] = events[q] /\ life'[q] = life[q]
  /\ listener'[q] = listener[q] /\ last'[q] = last[q]

LEMMA UntouchedKept ==
  ASSUME NEW q, QuitLast(q), ListenerInv(q), Untouched(q)
  PROVE  QuitLast(q)' /\ ListenerInv(q)'
  BY DEF Untouched, QuitLast, ListenerInv

LEMMA UntouchedOrder ==
  ASSUME NEW q, OrderInv(q), Untouched(q), sent' = sent, Ahead(q)' <=> Ahead(q)
  PROVE  OrderInv(q)'
<1>1. CASE Ahead(q)
  BY <1>1 DEF Untouched, OrderInv
<1>2. CASE ~Ahead(q)
  BY <1>2 DEF Untouched, OrderInv
<1> QED BY <1>1, <1>2

LEMMA SameAhead ==
  ASSUME NEW q, UNCHANGED <<list, cursor>>
  PROVE  Ahead(q)' <=> Ahead(q)
  BY DEF Ahead, Place

(* Nobody is ahead of a queue while nobody holds the lock.                 *)
LEMMA NobodyAhead ==
  ASSUME QInv, listLock = None
  PROVE  /\ \A s \in Senders : sending[s] = None /\ cursor[s] = None
         /\ \A q : ~Ahead(q)
<1>1. \A s \in Senders : sending[s] = None /\ cursor[s] = None
  BY NoneAssumption DEF QInv, QueuesTypeOK, SendInv
<1> QED BY <1>1, NoneAssumption DEF Ahead

LEMMA ListFacts ==
  ASSUME QueuesTypeOK
  PROVE  /\ list \in Seq(Queues) /\ Len(list) \in Nat
         /\ \A i \in 1..Len(list) : list[i] \in Queues /\ list[i] \in ToSet(list)
         /\ \A i, j \in 1..Len(list) : list[i] = list[j] => i = j
         /\ \A q \in ToSet(list) : q \in Queues
         /\ \A q \in Queues : q \in ToSet(list) <=> life[q] = "open"
<1>1. list \in Seq(Queues) /\ IsInjective(list) /\ Len(list) \in Nat
  BY LenProperties DEF QueuesTypeOK
<1>2. \A i \in 1..Len(list) : list[i] \in Queues /\ list[i] \in ToSet(list)
  BY <1>1, ElementOfSeq DEF ToSet
<1>3. \A q \in ToSet(list) : q \in Queues
  BY <1>2 DEF ToSet
<1>4. \A i, j \in 1..Len(list) : list[i] = list[j] => i = j
  BY <1>1 DEF IsInjective
<1>5. \A q \in Queues : q \in ToSet(list) <=> life[q] = "open"
  BY DEF QueuesTypeOK
<1> QED BY <1>1, <1>2, <1>3, <1>4, <1>5

(* The place of a queue on the list.                                       *)
LEMMA PlaceFacts ==
  ASSUME QueuesTypeOK, NEW q \in ToSet(list)
  PROVE  /\ Place(q) \in 1..Len(list) /\ list[Place(q)] = q
         /\ \A i \in 1..Len(list) : list[i] = q => i = Place(q)
<1>1. \E i \in 1..Len(list) : list[i] = q
  BY DEF ToSet
<1>2. Place(q) = CHOOSE i \in 1..Len(list) : list[i] = q
  BY DEF Place
<1>3. Place(q) \in 1..Len(list) /\ list[Place(q)] = q
  BY <1>1, <1>2
<1> QED BY <1>3, ListFacts

LEMMA QueuesSame ==
  ASSUME QInv, UNCHANGED queueVars
  PROVE  QInv'
<1>1. UNCHANGED <<list, listLock, events, life, listener, handling, cursor, sending, sent, last>>
  BY DEF queueVars
<1>2. QueuesTypeOK' /\ SendInv'
  BY <1>1 DEF QInv, QueuesTypeOK, SendInv
<1>3. ASSUME NEW q \in Queues PROVE QuitLast(q)' /\ ListenerInv(q)' /\ OrderInv(q)'
  BY <1>1, UntouchedKept, UntouchedOrder, SameAhead DEF QInv, Untouched
<1> QED BY <1>2, <1>3 DEF QInv

LEMMA QueuesInitInv == QueuesInit => QInv
<1> SUFFICES ASSUME QueuesInit PROVE QInv
  OBVIOUS
<1>1. << >> \in Seq(Queues) /\ << >> \in Seq(Event) /\ IsInjective(<< >>) /\ ToSet(<< >>) = {}
  BY DEF IsInjective, ToSet
<1>2. QueuesTypeOK
  BY <1>1, SendsAssumption, NoneAssumption DEF QueuesInit, QueuesTypeOK
<1>3. SendInv
  BY DEF QueuesInit, SendInv
<1>4. \A q \in Queues : QuitLast(q) /\ ListenerInv(q) /\ OrderInv(q)
  BY DEF QueuesInit, QuitLast, ListenerInv, OrderInv
<1> QED BY <1>2, <1>3, <1>4 DEF QInv

-----------------------------------------------------------------------------
(* The operations of events.c, one by one.                                 *)

LEMMA NewQueueKeeps ==
  ASSUME QInv, NEW p \in Queues, NewQueue(p)
  PROVE  QInv'
<1>1. /\ life[p] = "none" /\ listLock = None /\ life' = [life EXCEPT ![p] = "open"]
      /\ list' = Append(list, p) /\ last' = [last EXCEPT ![p] = sent]
      /\ UNCHANGED <<listLock, events, listener, handling, cursor, sending, sent>>
  BY DEF NewQueue
<1>2. QueuesTypeOK /\ SendInv
  BY DEF QInv
<1>3. /\ list \in Seq(Queues) /\ Len(list) \in Nat /\ p \notin ToSet(list)
      /\ \A q \in Queues : q \in ToSet(list) <=> life[q] = "open"
      /\ life \in [Queues -> {"none", "open", "unlisted", "quitting", "joined", "freed"}]
      /\ last \in [Queues -> 0..MaxSends] /\ sent \in 0..MaxSends
  BY <1>1, <1>2, ListFacts DEF QueuesTypeOK
<1>4. /\ list' \in Seq(Queues) /\ Len(list') = Len(list) + 1 /\ list'[Len(list) + 1] = p
      /\ \A i \in 1..Len(list) : list'[i] = list[i]
  BY <1>1, <1>3
<1>5. IsInjective(list')
  <2>1. DOMAIN list' = 1..Len(list) + 1
    BY <1>3, <1>4
  <2>2. \A i \in 1..Len(list) + 1 : i \in 1..Len(list) \/ i = Len(list) + 1
    BY <1>3
  <2>3. \A i \in 1..Len(list) : list'[i] # p
    <3>1. \A i \in 1..Len(list) : list[i] \in ToSet(list)
      BY <1>2, ListFacts
    <3> QED BY <1>3, <1>4, <3>1
  <2>4. \A i, j \in 1..Len(list) : list'[i] = list'[j] => i = j
    BY <1>2, <1>4, ListFacts
  <2> SUFFICES ASSUME NEW i \in 1..Len(list) + 1, NEW j \in 1..Len(list) + 1,
                      list'[i] = list'[j]
               PROVE  i = j
    BY <2>1 DEF IsInjective
  <2>5. CASE i \in 1..Len(list) /\ j \in 1..Len(list)
    BY <2>4, <2>5
  <2>6. CASE ~(i \in 1..Len(list) /\ j \in 1..Len(list))
    BY <1>4, <2>2, <2>3, <2>6
  <2> QED BY <2>5, <2>6
<1>6. ToSet(list') = ToSet(list) \cup {p}
  <2>1. DOMAIN list' = 1..Len(list) + 1 /\ DOMAIN list = 1..Len(list)
    BY <1>3, <1>4
  <2>2. \A i \in 1..Len(list) + 1 : i \in 1..Len(list) \/ i = Len(list) + 1
    BY <1>3
  <2>3. 1..Len(list) \subseteq 1..Len(list) + 1 /\ Len(list) + 1 \in 1..Len(list) + 1
    BY <1>3
  <2> QED BY <1>4, <2>1, <2>2, <2>3 DEF ToSet
<1>7. ToSet(list') = {q \in Queues : life'[q] = "open"}
  <2>1. ASSUME NEW q \in Queues PROVE q \in ToSet(list') <=> life'[q] = "open"
    BY <1>1, <1>3, <1>6
  <2>2. ToSet(list') \subseteq Queues
    BY <1>2, <1>6, ListFacts
  <2> QED BY <2>1, <2>2
<1>8. QueuesTypeOK'
  <2>1. life' \in [Queues -> {"none", "open", "unlisted", "quitting", "joined", "freed"}]
        /\ last' \in [Queues -> 0..MaxSends]
    BY <1>1, <1>3
  <2> QED BY <1>1, <1>2, <1>4, <1>5, <1>7, <2>1 DEF QueuesTypeOK
<1>9. SendInv'
  BY <1>1, <1>2, <1>6 DEF SendInv
<1>10. ASSUME NEW q PROVE ~Ahead(q) /\ ~Ahead(q)'
  BY <1>1, NobodyAhead, NoneAssumption DEF Ahead
<1>11. ASSUME NEW q \in Queues PROVE QuitLast(q)' /\ ListenerInv(q)' /\ OrderInv(q)'
  <2>1. CASE q # p
    <3>1. Untouched(q)
      BY <1>1, <2>1 DEF Untouched
    <3> QED BY <3>1, <1>1, <1>10, UntouchedKept, UntouchedOrder DEF QInv
  <2>2. CASE q = p
    <3>1. events[p] = << >> /\ listener[p] = "none"
      BY <1>1 DEF QInv, QuitLast, ListenerInv
    <3>2. life'[p] = "open" /\ last'[p] = sent /\ events'[p] = << >> /\ listener'[p] = "none"
      BY <1>1, <1>3, <3>1
    <3>3. sent' = sent /\ sent \in Nat /\ Len(<< >>) = 0
      BY <1>1, <1>3, SendsAssumption
    <3> QED BY <2>2, <3>2, <3>3, <1>10 DEF QuitLast, ListenerInv, OrderInv
  <2> QED BY <2>1, <2>2
<1> QED BY <1>8, <1>9, <1>11 DEF QInv

LEMMA CreateListenerKeeps ==
  ASSUME QInv, NEW p \in Queues, CreateListener(p)
  PROVE  QInv'
<1>1. /\ p \in Listening /\ life[p] = "open"
      /\ listener' = [listener EXCEPT ![p] = "wait"]
      /\ UNCHANGED <<list, listLock, events, life, handling, cursor, sending, sent, last>>
  BY DEF CreateListener
<1>2. QueuesTypeOK' /\ SendInv' /\ listener'[p] = "wait"
  BY <1>1 DEF QInv, QueuesTypeOK, SendInv
<1>3. ASSUME NEW q \in Queues PROVE QuitLast(q)' /\ ListenerInv(q)' /\ OrderInv(q)'
  <2>1. OrderInv(q)'
    BY <1>1, SameAhead DEF QInv, OrderInv
  <2>2. CASE q # p
    <3>1. Untouched(q)
      BY <1>1, <2>2 DEF Untouched
    <3> QED BY <2>1, <3>1, UntouchedKept DEF QInv
  <2>3. CASE q = p
    BY <1>1, <1>2, <2>1, <2>3 DEF QInv, QuitLast, ListenerInv
  <2> QED BY <2>2, <2>3
<1> QED BY <1>2, <1>3 DEF QInv

(* The send takes the lock: all queues on the list now miss one event.     *)
LEMMA SendKeeps ==
  ASSUME QInv, NEW s \in Senders, NEW type \in Types, Send(s, type)
  PROVE  QInv'
<1> DEFINE event == [type |-> type, number |-> sent + 1]
<1>1. /\ listLock = None /\ sending[s] = None /\ sent < MaxSends
      /\ listLock' = s /\ sent' = sent + 1
      /\ sending' = [sending EXCEPT ![s] = event]
      /\ cursor' = [cursor EXCEPT ![s] = IF list = << >> THEN None ELSE Head(list)]
      /\ UNCHANGED <<list, events, life, listener, handling, last>>
  BY DEF Send
<1>2. QueuesTypeOK /\ SendInv
  BY DEF QInv
<1>3. /\ cursor \in [Senders -> Queues \cup {None}] /\ sending \in [Senders -> Event \cup {None}]
      /\ sent \in 0..MaxSends /\ sent + 1 \in 1..MaxSends /\ sent + 1 \in 0..MaxSends
  BY <1>1, <1>2, SendsAssumption DEF QueuesTypeOK
<1>4. event \in Event /\ event # None /\ event.type \in Types /\ event.number = sent'
  <2>1. event \in Event
    BY <1>3 DEF Event
  <2> QED BY <1>1, <2>1, NoneAssumption
<1> HIDE DEF event
<1>5. /\ list = << >> => cursor'[s] = None
      /\ list # << >> => /\ 1 \in 1..Len(list) /\ cursor'[s] = list[1]
                         /\ cursor'[s] \in Queues /\ cursor'[s] \in ToSet(list)
  <2>1. CASE list = << >>
    BY <1>1, <1>3, <2>1
  <2>2. CASE list # << >>
    <3>1. 1 \in 1..Len(list) /\ Head(list) = list[1]
      BY <1>2, <2>2, ListFacts
    <3> QED BY <1>1, <1>2, <1>3, <2>2, <3>1, ListFacts
  <2> QED BY <2>1, <2>2
<1>6. \A r \in Senders : sending[r] = None /\ cursor[r] = None
  BY <1>1, NobodyAhead
<1>7. \A r \in Senders \ {s} : sending'[r] = None /\ cursor'[r] = None
  BY <1>1, <1>3, <1>6
<1>8. sending'[s] = event
  BY <1>1, <1>3
<1>9. QueuesTypeOK'
  <2>1. /\ cursor' \in [Senders -> Queues \cup {None}]
        /\ sending' \in [Senders -> Event \cup {None}]
    BY <1>1, <1>3, <1>4, <1>5
  <2>2. \A r \in Senders : sending'[r] # None <=> listLock' = r
    BY <1>1, <1>4, <1>7, <1>8
  <2> QED BY <1>1, <1>2, <1>3, <2>1, <2>2 DEF QueuesTypeOK
<1>10. SendInv'
  BY <1>1, <1>4, <1>5, <1>7, <1>8 DEF SendInv
<1>11. ASSUME NEW q \in ToSet(list) PROVE Ahead(q)' /\ ~Ahead(q)
  <2>1. list # << >>
    BY <1>2, ListFacts DEF ToSet
  <2>2. cursor'[s] \in ToSet(list) /\ list[1] = cursor'[s] /\ 1 \in 1..Len(list)
    BY <1>5, <2>1
  <2>3. PICK c \in Queues : c = cursor'[s]
    BY <1>5, <2>1
  <2>4. Place(c) = 1 /\ Place(q) \in 1..Len(list)
    BY <1>2, <2>2, <2>3, PlaceFacts
  <2>5. Place(c) <= Place(q)
    BY <1>2, <2>4, ListFacts
  <2>6. Place(c)' <= Place(q)'
    <3>1. Place(c)' = Place(c) /\ Place(q)' = Place(q)
      BY <1>1 DEF Place
    <3> QED BY <2>5, <3>1
  <2>7. cursor'[s] \in Queues /\ Place(cursor[s])' <= Place(q)'
    BY <2>3, <2>6
  <2>8. Ahead(q)'
    BY <2>7 DEF Ahead
  <2> QED BY <1>1, <2>8, NobodyAhead
<1>12. ASSUME NEW q \in Queues PROVE QuitLast(q)' /\ ListenerInv(q)' /\ OrderInv(q)'
  <2>1. Untouched(q)
    BY <1>1 DEF Untouched
  <2>2. life'[q] = "open" => q \in ToSet(list)
    BY <1>1, <1>2, ListFacts
  <2>3. life'[q] = "open" => Ahead(q)' /\ ~Ahead(q) /\ sent' - 1 = sent
    BY <2>2, <1>1, <1>3, <1>11
  <2>4. OrderInv(q)'
    BY <2>1, <2>3 DEF QInv, OrderInv, Untouched
  <2> QED BY <2>1, <2>4, UntouchedKept DEF QInv
<1> QED BY <1>9, <1>10, <1>12 DEF QInv

(* An event is never the quit event, and the sender alone has the lock.    *)
LEMMA SenderFacts ==
  ASSUME QInv, NEW s \in Senders, sending[s] # None
  PROVE  /\ sending[s] \in Event /\ sending[s] # Quit /\ sending[s].number = sent
         /\ listLock = s
         /\ \A r \in Senders \ {s} : sending[r] = None /\ cursor[r] = None
<1>1. /\ sending[s] \in Event /\ listLock = s
      /\ \A r \in Senders : sending[r] # None <=> listLock = r
  BY DEF QInv, QueuesTypeOK
<1>2. sending[s].type \in Types /\ sending[s].number = sent
  BY DEF QInv, SendInv
<1>3. sending[s] # Quit
  BY <1>2 DEF Quit, Types
<1>4. \A r \in Senders \ {s} : sending[r] = None
  BY <1>1
<1>5. \A r \in Senders : cursor[r] # None => sending[r] # None
  BY DEF QInv, SendInv
<1> QED BY <1>1, <1>2, <1>3, <1>4, <1>5

(* A signal moves the listener of one queue from its sleep.                *)
LEMMA SignalKeeps ==
  ASSUME QInv, NEW p \in Queues, Signal(p)
  PROVE  /\ listener' \in [Queues -> {"none", "wait", "asleep", "callback", "exited"}]
         /\ \A q \in Queues \ {p} : listener'[q] = listener[q]
         /\ listener'[p] = listener[p] \/ (listener[p] = "asleep" /\ listener'[p] = "wait")
<1>1. listener \in [Queues -> {"none", "wait", "asleep", "callback", "exited"}]
  BY DEF QInv, QueuesTypeOK
<1> QED BY <1>1 DEF Signal

(* The send gives one queue its event and goes on to the next.             *)
LEMMA DeliverKeeps ==
  ASSUME QInv, NEW s \in Senders, Deliver(s)
  PROVE  QInv'
<1>1. QueuesTypeOK /\ SendInv
  BY DEF QInv
<1>2. PICK c : c = cursor[s]
  OBVIOUS
<1>3. PICK e : e = sending[s]
  OBVIOUS
<1>4. /\ c # None /\ events' = [events EXCEPT ![c] = Append(@, e)]
      /\ Signal(c) /\ cursor' = [cursor EXCEPT ![s] = After(c)]
      /\ UNCHANGED <<list, listLock, life, handling, sending, sent, last>>
  <2>1. cursor' = [cursor EXCEPT ![s] = After(cursor[s])]
    BY DEF Deliver
  <2> QED BY <2>1, <1>2, <1>3 DEF Deliver
<1>5. c \in ToSet(list) /\ e # None /\ c \in Queues /\ life[c] = "open"
  BY <1>1, <1>2, <1>3, <1>4, ListFacts DEF SendInv
<1>6. /\ e \in Event /\ e # Quit /\ e.number = sent
      /\ \A r \in Senders \ {s} : cursor[r] = None
  BY <1>2, <1>3, <1>5, SenderFacts
<1>7. /\ cursor \in [Senders -> Queues \cup {None}] /\ events \in [Queues -> Seq(Event)]
      /\ last \in [Queues -> 0..MaxSends] /\ sent \in 0..MaxSends
  BY <1>1 DEF QueuesTypeOK
<1>8. PICK k : k = Place(c)
  OBVIOUS
<1>9. k \in 1..Len(list) /\ list[k] = c /\ Len(list) \in Nat
  BY <1>1, <1>5, <1>8, PlaceFacts, ListFacts
<1>10. PICK d : d = After(c)
  OBVIOUS
<1>11. \/ k + 1 \in 1..Len(list) /\ d = list[k + 1]
       \/ k = Len(list) /\ d = None
  BY <1>8, <1>9, <1>10 DEF After
<1>12. /\ d # None => d \in ToSet(list) /\ d \in Queues /\ Place(d) = k + 1
       /\ d = None => k = Len(list)
  <2>1. CASE k + 1 \in 1..Len(list) /\ d = list[k + 1]
    <3>1. d \in ToSet(list) /\ d \in Queues
      BY <1>1, <2>1, ListFacts
    <3> QED BY <1>1, <2>1, <3>1, PlaceFacts, NoneAssumption
  <2>2. CASE k = Len(list) /\ d = None
    BY <2>2
  <2> QED BY <1>11, <2>1, <2>2
<1>13. /\ cursor' \in [Senders -> Queues \cup {None}] /\ cursor'[s] = d
       /\ \A r \in Senders \ {s} : cursor'[r] = None
  BY <1>4, <1>6, <1>7, <1>10, <1>12
<1>14. ASSUME NEW q \in ToSet(list)
       PROVE  /\ Ahead(q) <=> k <= Place(q)
              /\ Ahead(q)' <=> k + 1 <= Place(q)
  <2>1. Ahead(q) <=> k <= Place(q)
    BY <1>2, <1>5, <1>6, <1>8, NoneAssumption DEF Ahead
  <2>2. Place(q) \in 1..Len(list)
    BY <1>1, PlaceFacts
  <2>3. Place(q)' = Place(q) /\ Place(d)' = Place(d)
    BY <1>4 DEF Place
  <2>4. Ahead(q)' <=> d \in Queues /\ Place(d) <= Place(q)
    <3>1. Ahead(q)' <=> cursor'[s] \in Queues /\ Place(cursor[s])' <= Place(q)'
      BY <1>13, NoneAssumption DEF Ahead
    <3>2. Place(cursor[s])' = Place(d)'
      BY <1>13 DEF Place
    <3> QED BY <1>13, <2>3, <3>1, <3>2
  <2>5. CASE d # None
    BY <1>12, <2>1, <2>4, <2>5
  <2>6. CASE d = None
    <3>1. ~(k + 1 <= Place(q))
      BY <1>9, <1>12, <2>2, <2>6
    <3> QED BY <2>1, <2>4, <2>6, <3>1, NoneAssumption
  <2> QED BY <2>5, <2>6
<1>15. /\ events' \in [Queues -> Seq(Event)] /\ events'[c] = Append(events[c], e)
       /\ \A q \in Queues \ {c} : events'[q] = events[q]
  <2>1. Append(events[c], e) \in Seq(Event)
    BY <1>5, <1>6, <1>7
  <2>2. events' = [events EXCEPT ![c] = Append(events[c], e)]
    BY <1>4
  <2> QED BY <1>5, <1>7, <2>1, <2>2
<1>16. QueuesTypeOK'
  BY <1>1, <1>4, <1>5, <1>13, <1>15, SignalKeeps DEF QueuesTypeOK
<1>17. SendInv'
  <2>1. e = sending'[s] /\ e # None
    BY <1>3, <1>4, <1>5
  <2> QED BY <1>1, <1>4, <1>12, <1>13, <2>1 DEF SendInv
<1>18. ASSUME NEW q \in Queues PROVE QuitLast(q)' /\ ListenerInv(q)' /\ OrderInv(q)'
  <2>1. CASE q # c
    <3>1. Untouched(q)
      BY <1>4, <1>5, <1>15, <2>1, SignalKeeps DEF Untouched
    <3>2. ASSUME life[q] = "open" PROVE Ahead(q)' <=> Ahead(q)
      <4>1. q \in ToSet(list)
        BY <1>1, <3>2, ListFacts
      <4>2. Place(q) \in 1..Len(list) /\ Place(q) # k
        BY <1>1, <1>9, <2>1, <4>1, PlaceFacts
      <4>3. k <= Place(q) <=> k + 1 <= Place(q)
        BY <1>9, <4>2
      <4>4. Ahead(q) <=> k <= Place(q)
        BY <1>14, <4>1, Zenon
      <4>5. Ahead(q)' <=> k + 1 <= Place(q)
        BY <1>14, <4>1, Zenon
      <4> QED BY <4>3, <4>4, <4>5, Zenon
    <3>3. OrderInv(q)'
      <4>1. CASE life[q] = "open"
        BY <1>4, <3>1, <3>2, <4>1, UntouchedOrder DEF QInv
      <4>2. CASE life[q] # "open"
        BY <3>1, <4>2 DEF QInv, OrderInv, Untouched
      <4> QED BY <4>1, <4>2
    <3> QED BY <3>1, <3>3, UntouchedKept DEF QInv
  <2>2. CASE q = c
    <3>1. PICK ev \in Seq(Event) : ev = events[c]
      BY <1>5, <1>7
    <3>2. PICK ew : ew = events'[c]
      OBVIOUS
    <3>3. /\ Len(ev) \in Nat /\ Len(ew) = Len(ev) + 1 /\ ew[Len(ev) + 1] = e
          /\ \A i \in 1..Len(ev) : ew[i] = ev[i]
          /\ \A i \in 1..Len(ew) : i \in 1..Len(ev) \/ i = Len(ev) + 1
      BY <1>6, <1>15, <3>1, <3>2
    <3>4. life'[c] = "open" /\ last'[c] = last[c] /\ sent' = sent
      BY <1>4, <1>5
    <3>5. QuitLast(c)'
      <4>1. \A i \in 1..Len(ev) : ev[i] # Quit
        BY <1>5, <3>1 DEF QInv, QuitLast
      <4> QED BY <1>6, <3>2, <3>3, <3>4, <4>1 DEF QuitLast
    <3>6. ListenerInv(c)'
      <4>1. ListenerInv(c)
        BY <1>5 DEF QInv
      <4> QED BY <1>4, <1>5, <3>4, <4>1, SignalKeeps DEF ListenerInv
    <3>7. Ahead(c) /\ ~Ahead(c)'
      <4>1. k <= k /\ ~(k + 1 <= k)
        BY <1>9
      <4>2. k <= Place(c) /\ ~(k + 1 <= Place(c))
        BY <4>1, <1>8
      <4> QED BY <1>5, <1>14, <4>2
    <3>8. /\ last[c] + Len(ev) = sent - 1
          /\ \A i \in 1..Len(ev) : ev[i] # Quit => ev[i].number = last[c] + i
      BY <1>5, <3>1, <3>7 DEF QInv, OrderInv
    <3>9. last[c] + (Len(ev) + 1) = sent /\ last[c] \in Nat /\ sent \in Nat
      <4>1. last[c] \in Nat /\ sent \in Nat
        BY <1>5, <1>7, SendsAssumption
      <4>2. PICK n \in Nat, l \in Nat : n = Len(ev) /\ l = last[c]
        BY <3>3, <4>1
      <4>3. l + n = sent - 1
        BY <3>8, <4>2
      <4>4. l + (n + 1) = sent
        BY <4>1, <4>2, <4>3
      <4> QED BY <4>1, <4>2, <4>4
    <3>10. \A i \in 1..Len(ew) : ew[i] # Quit => ew[i].number = last[c] + i
      BY <1>6, <3>3, <3>8, <3>9
    <3>11. OrderInv(c)'
      BY <3>2, <3>3, <3>4, <3>7, <3>9, <3>10 DEF OrderInv
    <3> QED BY <2>2, <3>5, <3>6, <3>11
  <2> QED BY <2>1, <2>2
<1> QED BY <1>16, <1>17, <1>18 DEF QInv

(* The send unlocks: its cursor is off the list.                           *)
LEMMA SentKeeps ==
  ASSUME QInv, NEW s \in Senders, Sent(s)
  PROVE  QInv'
<1>1. /\ sending[s] # None /\ cursor[s] = None
      /\ sending' = [sending EXCEPT ![s] = None] /\ listLock' = None
      /\ UNCHANGED <<list, events, life, listener, handling, cursor, sent, last>>
  BY DEF Sent
<1>2. \A r \in Senders \ {s} : sending[r] = None /\ cursor[r] = None
  BY <1>1, SenderFacts
<1>3. sending \in [Senders -> Event \cup {None}]
  BY DEF QInv, QueuesTypeOK
<1>4. \A r \in Senders : sending'[r] = None /\ cursor'[r] = None
  BY <1>1, <1>2, <1>3
<1>5. QueuesTypeOK'
  <2>1. sending' \in [Senders -> Event \cup {None}]
    BY <1>1, <1>3
  <2>2. \A r \in Senders : sending'[r] # None <=> listLock' = r
    BY <1>1, <1>4, NoneAssumption
  <2> QED BY <1>1, <2>1, <2>2 DEF QInv, QueuesTypeOK
<1>6. SendInv'
  BY <1>4 DEF SendInv
<1>7. ASSUME NEW q \in Queues PROVE QuitLast(q)' /\ ListenerInv(q)' /\ OrderInv(q)'
  BY <1>1, UntouchedKept, UntouchedOrder, SameAhead DEF QInv, Untouched
<1> QED BY <1>5, <1>6, <1>7 DEF QInv

(* The first event of a queue, and what is left of the queue without it.   *)
LEMMA HeadFacts ==
  ASSUME NEW ev \in Seq(Event), ev # << >>
  PROVE  /\ Len(ev) \in Nat /\ 1 \in 1..Len(ev) /\ Head(ev) = ev[1] /\ Head(ev) \in Event
         /\ Tail(ev) \in Seq(Event) /\ Len(Tail(ev)) = Len(ev) - 1
         /\ \A i \in 1..Len(Tail(ev)) : i + 1 \in 1..Len(ev) /\ Tail(ev)[i] = ev[i + 1]
<1>1. Len(ev) \in Nat /\ 1 \in 1..Len(ev) /\ Head(ev) = ev[1]
  OBVIOUS
<1>2. Tail(ev) \in Seq(Event) /\ Len(Tail(ev)) = Len(ev) - 1
  OBVIOUS
<1>3. \A i \in 1..Len(ev) - 1 : i + 1 \in 1..Len(ev) /\ Tail(ev)[i] = ev[i + 1]
  BY <1>1
<1>4. Head(ev) \in Event
  BY <1>1, ElementOfSeq
<1> QED BY <1>1, <1>2, <1>3, <1>4

(* The reader takes the first event; the quit event is the last one.       *)
LEMMA TakeFirstKeeps ==
  ASSUME QInv, NEW p \in Queues, events[p] # << >>, TakeFirst(p), listener[p] # "exited",
         UNCHANGED <<list, listLock, life, cursor, sending, sent>>,
         listener' \in [Queues -> {"none", "wait", "asleep", "callback", "exited"}],
         handling' \in [Queues -> Event \cup {None}],
         \A q \in Queues \ {p} : listener'[q] = listener[q],
         ListenerInv(p)',
         listener'[p] = "exited" <=> Head(events[p]) = Quit
  PROVE  QInv'
<1>1. PICK ev \in Seq(Event) : ev = events[p] /\ ev # << >>
  BY DEF QInv, QueuesTypeOK
<1>2. PICK ew : ew = Tail(ev)
  OBVIOUS
<1>3. /\ Len(ev) \in Nat /\ 1 \in 1..Len(ev) /\ Head(ev) = ev[1] /\ Head(ev) \in Event
      /\ ew \in Seq(Event) /\ Len(ew) = Len(ev) - 1
      /\ \A i \in 1..Len(ew) : i + 1 \in 1..Len(ev) /\ ew[i] = ev[i + 1]
  BY <1>1, <1>2, HeadFacts
<1>4. /\ events \in [Queues -> Seq(Event)] /\ last \in [Queues -> 0..MaxSends]
      /\ sent \in 0..MaxSends
  BY DEF QInv, QueuesTypeOK
<1>5. /\ events' = [events EXCEPT ![p] = ew]
      /\ last' = [last EXCEPT ![p] = IF Head(ev) = Quit THEN last[p] ELSE Head(ev).number]
  <2>1. events' = [events EXCEPT ![p] = Tail(events[p])]
    BY DEF TakeFirst
  <2>2. last' = [last EXCEPT ![p] = IF Head(events[p]) = Quit THEN last[p]
                                    ELSE Head(events[p]).number]
    BY DEF TakeFirst
  <2> QED BY <1>1, <1>2, <2>1, <2>2
<1>6. /\ events' \in [Queues -> Seq(Event)] /\ events'[p] = ew
      /\ \A q \in Queues \ {p} : events'[q] = events[q]
  BY <1>3, <1>4, <1>5
<1>7. Head(ev) # Quit => Head(ev).number \in 0..MaxSends
  BY <1>3, SendsAssumption DEF Event, Quit
<1>8. /\ last' \in [Queues -> 0..MaxSends]
      /\ last'[p] = IF Head(ev) = Quit THEN last[p] ELSE Head(ev).number
      /\ \A q \in Queues \ {p} : last'[q] = last[q]
  BY <1>4, <1>5, <1>7
<1>9. QueuesTypeOK' /\ SendInv'
  BY <1>6, <1>8 DEF QInv, QueuesTypeOK, SendInv
<1>10. ASSUME NEW q \in Queues \ {p} PROVE QuitLast(q)' /\ ListenerInv(q)' /\ OrderInv(q)'
  <2>1. Untouched(q)
    BY <1>6, <1>8 DEF Untouched
  <2> QED BY <2>1, UntouchedKept, UntouchedOrder, SameAhead DEF QInv
<1>11. /\ \A i \in 1..Len(ev) : ev[i] # Quit => ev[i].number = last[p] + i
       /\ life[p] = "open" => last[p] + Len(ev) = IF Ahead(p) THEN sent - 1 ELSE sent
  BY <1>1 DEF QInv, OrderInv
<1>12. /\ life[p] \notin {"none", "freed"}
       /\ life[p] \in {"open", "unlisted"} => \A i \in 1..Len(ev) : ev[i] # Quit
       /\ life[p] \in {"quitting", "joined"} =>
            \A i \in 1..Len(ev) : ev[i] = Quit <=> i = Len(ev)
  BY <1>1 DEF QInv, QuitLast
<1>13. life[p] \in {"open", "unlisted", "quitting", "joined"} /\ life'[p] = life[p]
  BY <1>12 DEF QInv, QueuesTypeOK
<1>14. last[p] \in Nat
  BY <1>4, SendsAssumption
<1>15. CASE Head(ev) = Quit
  <2>1. life[p] \in {"quitting", "joined"} /\ Len(ev) = 1
    BY <1>3, <1>12, <1>13, <1>15
  <2>2. ew = << >> /\ Len(ew) = 0
    BY <1>3, <2>1
  <2>3. QuitLast(p)'
    BY <1>1, <1>6, <1>13, <1>15, <2>1, <2>2 DEF QuitLast
  <2>4. OrderInv(p)'
    BY <1>6, <1>13, <2>1, <2>2 DEF OrderInv
  <2> QED BY <1>9, <1>10, <2>3, <2>4 DEF QInv
<1>16. CASE Head(ev) # Quit
  <2>1. last'[p] = last[p] + 1
    BY <1>3, <1>8, <1>11, <1>16
  <2>2. ASSUME NEW i \in 1..Len(ew), ew[i] # Quit PROVE ew[i].number = last'[p] + i
    <3>1. i + 1 \in 1..Len(ev) /\ ew[i] = ev[i + 1]
      BY <1>3
    <3>2. ew[i].number = last[p] + (i + 1)
      BY <1>11, <2>2, <3>1
    <3>3. PICK l \in Nat : l = last[p]
      BY <1>14
    <3>4. l + (i + 1) = l + 1 + i
      <4>1. Len(ew) \in Int
        BY <1>3
      <4>2. i \in Int
        BY <4>1
      <4> QED BY <4>2
    <3>5. ew[i].number = l + 1 + i
      BY <3>2, <3>3, <3>4
    <3>6. last'[p] = l + 1
      BY <2>1, <3>3
    <3> QED BY <3>5, <3>6
  <2>3. last'[p] + Len(ew) = last[p] + Len(ev)
    BY <1>3, <1>14, <2>1
  <2>4. Ahead(p)' <=> Ahead(p)
    BY SameAhead
  <2>5. life[p] = "open" => last'[p] + Len(ew) = IF Ahead(p) THEN sent - 1 ELSE sent
    BY <1>11, <2>3
  <2>6. OrderInv(p)'
    <3>1. CASE Ahead(p)
      BY <1>6, <1>13, <2>2, <2>4, <2>5, <3>1 DEF OrderInv
    <3>2. CASE ~Ahead(p)
      BY <1>6, <1>13, <2>2, <2>4, <2>5, <3>2 DEF OrderInv
    <3> QED BY <3>1, <3>2
  <2>7. QuitLast(p)'
    <3>1. CASE life[p] \in {"open", "unlisted"}
      BY <1>3, <1>6, <1>12, <1>13, <3>1 DEF QuitLast
    <3>2. CASE life[p] \in {"quitting", "joined"}
      <4>1. Len(ev) # 1
        BY <1>3, <1>12, <1>16, <3>2
      <4>2. ew # << >>
        BY <1>3, <4>1
      <4>3. \A i \in 1..Len(ew) : ew[i] = Quit <=> i = Len(ew)
        BY <1>3, <1>12, <3>2
      <4>4. listener'[p] # "exited"
        BY <1>1, <1>16
      <4> QED BY <1>6, <1>13, <3>2, <4>2, <4>3, <4>4 DEF QuitLast
    <3> QED BY <1>13, <3>1, <3>2
  <2> QED BY <1>9, <1>10, <2>6, <2>7 DEF QInv
<1> QED BY <1>15, <1>16

LEMMA GetKeeps ==
  ASSUME QInv, NEW p \in Queues, Get(p)
  PROVE  QInv'
<1>1. /\ life[p] = "open" /\ events[p] # << >> /\ TakeFirst(p)
      /\ UNCHANGED <<list, listLock, life, listener, handling, cursor, sending, sent>>
  BY DEF Get
<1>2. QueuesTypeOK /\ QuitLast(p) /\ ListenerInv(p)
  BY DEF QInv
<1>3. listener[p] # "exited" /\ ListenerInv(p)'
  BY <1>1, <1>2 DEF ListenerInv
<1>4. Head(events[p]) # Quit
  <2>1. PICK ev \in Seq(Event) : ev = events[p]
    BY <1>2 DEF QueuesTypeOK
  <2> QED BY <1>1, <1>2, <2>1, HeadFacts DEF QuitLast
<1>5. /\ listener' \in [Queues -> {"none", "wait", "asleep", "callback", "exited"}]
      /\ handling' \in [Queues -> Event \cup {None}]
      /\ \A q \in Queues \ {p} : listener'[q] = listener[q]
      /\ listener'[p] = "exited" <=> Head(events[p]) = Quit
  BY <1>1, <1>2, <1>3, <1>4 DEF QueuesTypeOK
<1> QED BY <1>1, <1>3, <1>5, TakeFirstKeeps

LEMMA TakeKeeps ==
  ASSUME QInv, NEW p \in Queues, Take(p)
  PROVE  QInv'
<1>1. /\ listener[p] = "wait" /\ events[p] # << >> /\ TakeFirst(p)
      /\ UNCHANGED <<list, listLock, life, cursor, sending, sent>>
  BY DEF Take
<1>2. QueuesTypeOK /\ QuitLast(p) /\ ListenerInv(p)
  BY DEF QInv
<1>3. PICK e \in Event : e = Head(events[p])
  <2>1. PICK ev \in Seq(Event) : ev = events[p]
    BY <1>2 DEF QueuesTypeOK
  <2> QED BY <1>1, <2>1, HeadFacts
<1>4. /\ listener' = [listener EXCEPT ![p] = IF e = Quit THEN "exited" ELSE "callback"]
      /\ handling' = [handling EXCEPT ![p] = IF e = Quit THEN handling[p] ELSE e]
  <2>1. CASE e = Quit
    BY <1>2, <1>3, <2>1 DEF Take, QueuesTypeOK
  <2>2. CASE e # Quit
    BY <1>2, <1>3, <2>2 DEF Take, QueuesTypeOK
  <2> QED BY <2>1, <2>2
<1>5. /\ listener' \in [Queues -> {"none", "wait", "asleep", "callback", "exited"}]
      /\ handling' \in [Queues -> Event \cup {None}]
      /\ \A q \in Queues \ {p} : listener'[q] = listener[q]
      /\ listener'[p] = IF e = Quit THEN "exited" ELSE "callback"
  <2>1. CASE e = Quit
    BY <1>2, <1>4, <2>1 DEF QueuesTypeOK
  <2>2. CASE e # Quit
    BY <1>2, <1>3, <1>4, <2>2 DEF QueuesTypeOK
  <2> QED BY <2>1, <2>2
<1>6. life[p] \in {"open", "unlisted", "quitting"} /\ life' = life
  BY <1>1, <1>2 DEF ListenerInv, QueuesTypeOK
<1>7. e = Quit => life[p] = "quitting"
  <2>1. PICK ev \in Seq(Event) : ev = events[p] /\ ev # << >>
    BY <1>1, <1>2 DEF QueuesTypeOK
  <2>2. 1 \in 1..Len(ev) /\ e = ev[1]
    BY <1>3, <2>1, HeadFacts
  <2> QED BY <1>2, <1>6, <2>1, <2>2 DEF QuitLast
<1>8. ListenerInv(p)'
  BY <1>1, <1>2, <1>5, <1>6, <1>7 DEF ListenerInv
<1> QED BY <1>1, <1>3, <1>5, <1>8, TakeFirstKeeps

LEMMA SleepKeeps ==
  ASSUME QInv, NEW p \in Queues, Sleep(p) \/ Returned(p)
  PROVE  QInv'
<1>1. /\ listener[p] \in {"wait", "callback"}
      /\ UNCHANGED <<list, listLock, events, life, cursor, sending, sent, last>>
      /\ handling' = handling \/ handling' = [handling EXCEPT ![p] = None]
      /\ \E l \in {"asleep", "wait"} : listener' = [listener EXCEPT ![p] = l]
  BY DEF Sleep, Returned
<1>2. /\ listener' \in [Queues -> {"none", "wait", "asleep", "callback", "exited"}]
      /\ handling' \in [Queues -> Event \cup {None}]
      /\ \A q \in Queues \ {p} : listener'[q] = listener[q]
      /\ listener'[p] \in {"asleep", "wait"}
  <2>1. /\ listener \in [Queues -> {"none", "wait", "asleep", "callback", "exited"}]
        /\ handling \in [Queues -> Event \cup {None}]
    BY DEF QInv, QueuesTypeOK
  <2>2. PICK l \in {"asleep", "wait"} : listener' = [listener EXCEPT ![p] = l]
    BY <1>1
  <2>3. handling' \in [Queues -> Event \cup {None}]
    <3>1. CASE handling' = handling
      BY <2>1, <3>1
    <3>2. CASE handling' = [handling EXCEPT ![p] = None]
      BY <2>1, <3>2
    <3> QED BY <1>1, <3>1, <3>2
  <2> QED BY <2>1, <2>2, <2>3
<1>3. QueuesTypeOK' /\ SendInv'
  BY <1>1, <1>2 DEF QInv, QueuesTypeOK, SendInv
<1>4. ASSUME NEW q \in Queues PROVE QuitLast(q)' /\ ListenerInv(q)' /\ OrderInv(q)'
  <2>1. OrderInv(q)'
    BY <1>1, SameAhead DEF QInv, OrderInv
  <2>2. CASE q # p
    <3>1. Untouched(q)
      BY <1>1, <1>2, <2>2 DEF Untouched
    <3> QED BY <2>1, <3>1, UntouchedKept DEF QInv
  <2>3. CASE q = p
    BY <1>1, <1>2, <2>1, <2>3 DEF QInv, QuitLast, ListenerInv
  <2> QED BY <2>2, <2>3
<1> QED BY <1>3, <1>4 DEF QInv

(* Dispose takes the queue off the list, which nobody walks.               *)
LEMMA UnlistKeeps ==
  ASSUME QInv, NEW p \in Queues, Unlist(p)
  PROVE  QInv'
<1>1. /\ life[p] = "open" /\ listLock = None
      /\ list' = Keep(list, Queues \ {p}) /\ life' = [life EXCEPT ![p] = "unlisted"]
      /\ UNCHANGED <<listLock, events, listener, handling, cursor, sending, sent, last>>
  BY DEF Unlist
<1>2. QueuesTypeOK /\ SendInv
  BY DEF QInv
<1>3. /\ list \in Seq(Queues) /\ IsInjective(list)
      /\ life \in [Queues -> {"none", "open", "unlisted", "quitting", "joined", "freed"}]
      /\ ToSet(list) = {q \in Queues : life[q] = "open"}
  BY <1>2 DEF QueuesTypeOK
<1>4. list' \in Seq(Queues) /\ ToSet(list') = ToSet(list) \cap (Queues \ {p}) /\ IsInjective(list')
  BY <1>1, <1>3, KeepSet, KeepInjective
<1>5. life' \in [Queues -> {"none", "open", "unlisted", "quitting", "joined", "freed"}]
  BY <1>1, <1>3
<1>6. ToSet(list') = {q \in Queues : life'[q] = "open"}
  BY <1>1, <1>3, <1>4
<1>7. QueuesTypeOK'
  BY <1>1, <1>2, <1>4, <1>5, <1>6 DEF QueuesTypeOK
<1>8. \A s \in Senders : sending'[s] = None /\ cursor'[s] = None
  BY <1>1, NobodyAhead
<1>9. SendInv'
  BY <1>8 DEF SendInv
<1>10. ASSUME NEW q PROVE ~Ahead(q) /\ ~Ahead(q)'
  BY <1>1, <1>8, NobodyAhead, NoneAssumption DEF Ahead
<1>11. ASSUME NEW q \in Queues PROVE QuitLast(q)' /\ ListenerInv(q)' /\ OrderInv(q)'
  <2>1. CASE q # p
    <3>1. Untouched(q)
      BY <1>1, <2>1 DEF Untouched
    <3> QED BY <3>1, <1>1, <1>10, UntouchedKept, UntouchedOrder DEF QInv
  <2>2. CASE q = p
    <3>1. life'[p] = "unlisted"
      BY <1>1, <1>3
    <3> QED BY <1>1, <2>2, <3>1 DEF QInv, QuitLast, ListenerInv, OrderInv
  <2> QED BY <2>1, <2>2
<1> QED BY <1>7, <1>9, <1>11 DEF QInv

(* What a step that changes the owner's part of one queue has to keep.     *)
LEMMA OwnerKeeps ==
  ASSUME QInv, NEW p \in Queues,
         life[p] # "open", life'[p] # "open",
         life' = [life EXCEPT ![p] = life'[p]],
         life'[p] \in {"quitting", "joined", "freed"},
         events' \in [Queues -> Seq(Event)],
         \A q \in Queues \ {p} : events'[q] = events[q] /\ listener'[q] = listener[q],
         listener' \in [Queues -> {"none", "wait", "asleep", "callback", "exited"}],
         UNCHANGED <<list, listLock, handling, cursor, sending, sent, last>>,
         QuitLast(p)', ListenerInv(p)', OrderInv(p)'
  PROVE  QInv'
<1>1. life \in [Queues -> {"none", "open", "unlisted", "quitting", "joined", "freed"}]
  BY DEF QInv, QueuesTypeOK
<1>2. PICK l \in {"quitting", "joined", "freed"} : l = life'[p]
  OBVIOUS
<1>3. /\ life' \in [Queues -> {"none", "open", "unlisted", "quitting", "joined", "freed"}]
      /\ \A q \in Queues \ {p} : life'[q] = life[q]
  BY <1>1, <1>2
<1>4. {q \in Queues : life'[q] = "open"} = {q \in Queues : life[q] = "open"}
  BY <1>3
<1>5. QueuesTypeOK' /\ SendInv'
  BY <1>3, <1>4 DEF QInv, QueuesTypeOK, SendInv
<1>6. ASSUME NEW q \in Queues \ {p} PROVE QuitLast(q)' /\ ListenerInv(q)' /\ OrderInv(q)'
  <2>1. Untouched(q)
    BY <1>3 DEF Untouched
  <2> QED BY <2>1, UntouchedKept, UntouchedOrder, SameAhead DEF QInv
<1> QED BY <1>5, <1>6 DEF QInv

(* The quit event comes last: the queue is off the list.                   *)
LEMMA SendQuitKeeps ==
  ASSUME QInv, NEW p \in Queues, SendQuit(p)
  PROVE  QInv'
<1>1. /\ life[p] = "unlisted" /\ Signal(p)
      /\ events' = [events EXCEPT ![p] = Append(events[p], Quit)]
      /\ life' = [life EXCEPT ![p] = "quitting"]
      /\ UNCHANGED <<list, listLock, handling, cursor, sending, sent, last>>
  BY DEF SendQuit
<1>2. /\ events \in [Queues -> Seq(Event)]
      /\ life \in [Queues -> {"none", "open", "unlisted", "quitting", "joined", "freed"}]
      /\ QuitLast(p) /\ ListenerInv(p) /\ OrderInv(p)
  BY DEF QInv, QueuesTypeOK
<1>3. Quit \in Event
  BY DEF Quit, Event
<1>4. PICK ev \in Seq(Event) : ev = events[p]
  BY <1>2
<1>5. PICK ew : ew = Append(ev, Quit)
  OBVIOUS
<1>6. /\ ew \in Seq(Event) /\ Len(ev) \in Nat /\ Len(ew) = Len(ev) + 1
      /\ ew[Len(ev) + 1] = Quit /\ \A i \in 1..Len(ev) : ew[i] = ev[i]
      /\ \A i \in 1..Len(ew) : i \in 1..Len(ev) \/ i = Len(ev) + 1
  BY <1>3, <1>5
<1>7. /\ events' \in [Queues -> Seq(Event)] /\ events'[p] = ew
      /\ \A q \in Queues \ {p} : events'[q] = events[q]
      /\ life'[p] = "quitting" /\ last'[p] = last[p]
  BY <1>1, <1>2, <1>4, <1>5, <1>6
<1>8. \A i \in 1..Len(ev) : ev[i] # Quit
  BY <1>1, <1>2, <1>4 DEF QuitLast
<1>9. listener[p] # "exited" /\ listener'[p] # "exited" /\ ListenerInv(p)'
  BY <1>1, <1>2, <1>7, SignalKeeps DEF ListenerInv
<1>10. QuitLast(p)'
  <2>1. ew # << >>
    BY <1>6
  <2>2. \A i \in 1..Len(ew) : ew[i] = Quit <=> i = Len(ew)
    BY <1>6, <1>8
  <2> QED BY <1>7, <1>9, <2>1, <2>2 DEF QuitLast
<1>11. OrderInv(p)'
  <2>1. \A i \in 1..Len(ev) : ev[i] # Quit => ev[i].number = last[p] + i
    BY <1>2, <1>4 DEF OrderInv
  <2>2. \A i \in 1..Len(ew) : ew[i] # Quit => ew[i].number = last[p] + i
    BY <1>6, <2>1
  <2> QED BY <1>7, <2>2 DEF OrderInv
<1> QED BY <1>1, <1>7, <1>9, <1>10, <1>11, SignalKeeps, OwnerKeeps

LEMMA JoinListenerKeeps ==
  ASSUME QInv, NEW p \in Queues, JoinListener(p)
  PROVE  QInv'
<1>1. /\ life[p] = "quitting" /\ listener[p] \in {"none", "exited"}
      /\ life' = [life EXCEPT ![p] = "joined"]
      /\ UNCHANGED <<list, listLock, events, listener, handling, cursor, sending, sent, last>>
  BY DEF JoinListener
<1>2. QueuesTypeOK /\ QuitLast(p) /\ ListenerInv(p) /\ OrderInv(p)
  BY DEF QInv
<1>3. life'[p] = "joined"
  BY <1>1, <1>2 DEF QueuesTypeOK
<1>4. QuitLast(p)' /\ ListenerInv(p)' /\ OrderInv(p)'
  BY <1>1, <1>2, <1>3 DEF QuitLast, ListenerInv, OrderInv
<1>5. /\ events' \in [Queues -> Seq(Event)]
      /\ listener' \in [Queues -> {"none", "wait", "asleep", "callback", "exited"}]
  BY <1>1, <1>2 DEF QueuesTypeOK
<1> QED BY <1>1, <1>3, <1>4, <1>5, OwnerKeeps

LEMMA FreeQueueKeeps ==
  ASSUME QInv, NEW p \in Queues, FreeQueue(p)
  PROVE  QInv'
<1>1. /\ life[p] = "joined"
      /\ events' = [events EXCEPT ![p] = << >>]
      /\ life' = [life EXCEPT ![p] = "freed"]
      /\ UNCHANGED <<list, listLock, listener, handling, cursor, sending, sent, last>>
  BY DEF FreeQueue
<1>2. QueuesTypeOK /\ ListenerInv(p)
  BY DEF QInv
<1>3. << >> \in Seq(Event)
  OBVIOUS
<1>4. /\ life'[p] = "freed" /\ events'[p] = << >> /\ events' \in [Queues -> Seq(Event)]
      /\ \A q \in Queues \ {p} : events'[q] = events[q]
  BY <1>1, <1>2, <1>3 DEF QueuesTypeOK
<1>5. QuitLast(p)' /\ ListenerInv(p)' /\ OrderInv(p)'
  BY <1>1, <1>2, <1>4 DEF QuitLast, ListenerInv, OrderInv
<1>6. listener' \in [Queues -> {"none", "wait", "asleep", "callback", "exited"}]
  BY <1>1, <1>2 DEF QueuesTypeOK
<1> QED BY <1>1, <1>4, <1>5, <1>6, OwnerKeeps

LEMMA DisposeKeeps ==
  ASSUME QInv, NEW p \in Queues, Dispose(p)
  PROVE  QInv'
BY UnlistKeeps, SendQuitKeeps, JoinListenerKeeps, FreeQueueKeeps DEF Dispose

-----------------------------------------------------------------------------
(* The invariant of the driver: what MCI_OPEN has done at each step, ...   *)
Opening == {"listen", "sem"}

Quiet ==
  /\ status = "stop" /\ ~loaded /\ ~ending /\ ~frames
  /\ \A s \in Senders : sending[s] = None

OpenInv ==
  /\ instance = "none" =>
       /\ Quiet
       /\ events[Mcd] = << >>
       /\ \A q \in Queues \ {Mcd} : life[q] = "none"
       /\ \A a \in Apps : pc[a] \in {"idle"} \cup Opening
       /\ \A a, b \in Apps : pc[a] # "idle" /\ pc[b] # "idle" => a = b
       /\ life[Mcd] \in {"none", "open"}
       /\ listener[Mcd] \in {"none", "wait", "asleep"}
       /\ life[Mcd] = "none" => \A a \in Apps : pc[a] = "idle"
       /\ \A a \in Apps : pc[a] = "sem" => listener[Mcd] # "none"
  /\ instance # "none" =>
       /\ life[Mcd] # "none" /\ listener[Mcd] # "none" /\ playsem # "none"
       /\ \A a \in Apps : pc[a] \notin Opening

(* ... what is left of the queue at each step of MCI_CLOSE, ...            *)
CloseInv ==
  /\ \A a \in Apps : pc[a] \in Closing =>
       /\ instance = "open"
       /\ \A b \in Apps \ {a} : pc[b] \in {"idle", "asleep"}
       /\ pc[a] = "dispose" <=> life[Mcd] # "freed"
  /\ life[Mcd] \in {"unlisted", "quitting", "joined"} => \E a \in Apps : pc[a] = "dispose"
  /\ instance = "open" /\ life[Mcd] = "freed" =>
       \E a \in Apps : pc[a] \in Closing /\ pc[a] # "dispose"
  /\ instance = "freed" =>
       /\ Quiet
       /\ life[Mcd] = "freed"
       /\ \A a \in Apps : pc[a] \in {"idle", "asleep"}

(* ... which threads of the engine are gone by then, ...                   *)
GoneInv ==
  /\ \A a \in Apps : pc[a] \in {"stream", "video", "free"} => status = "stop" /\ ~loaded
  /\ \A a \in Apps : pc[a] \in {"video", "free"} => ~ending /\ sending["decoder"] = None
  /\ \A a \in Apps : pc[a] = "free" => ~frames /\ sending["output"] = None
  /\ stream = "freed" =>
       /\ instance # "none"
       /\ instance = "open" => \E a \in Apps : pc[a] \in {"video", "free"}

(* ... and where the listener is between the post and the notice.          *)
PostInv ==
  posted => /\ listener[Mcd] = "callback"
            /\ handling[Mcd] # None /\ handling[Mcd].type = "finished"

DInv == OpenInv /\ CloseInv /\ GoneInv /\ PostInv

IInv == TypeOK /\ QInv /\ DInv

Labels == {"idle", "listen", "sem", "reset", "play", "wait", "asleep"} \cup Closing

DTypeOK ==
  /\ instance \in {"none", "open", "freed"}
  /\ stream \in {"none", "open", "freed"}
  /\ frames \in BOOLEAN /\ loaded \in BOOLEAN
  /\ ending \in BOOLEAN /\ posted \in BOOLEAN
  /\ status \in {"stop", "play"}
  /\ stoppedBy \in {"none", "end", "call", "failure"}
  /\ playsem \in {"none", "reset", "posted"}
  /\ playflags \subseteq Flags
  /\ pc \in [Apps -> Labels]
  /\ calls \in 0..MaxCalls
  /\ play \in 0..MaxCalls
  /\ due \subseteq 1..MaxCalls

LEMMA TypeParts == TypeOK <=> QueuesTypeOK /\ DTypeOK
  BY DEF TypeOK, DTypeOK, Labels

LEMMA TypePartsNext == QInv' /\ DTypeOK' => TypeOK'
  BY DEF TypeOK, DTypeOK, Labels, QInv

LEMMA McdIsListening == Mcd \in Queues /\ Mcd \in Listening
  BY McdAssumption, ListeningAssumption

LEMMA Parts ==
  ASSUME IInv
  PROVE  /\ DTypeOK /\ OpenInv /\ CloseInv /\ GoneInv /\ PostInv
         /\ QInv /\ QueuesTypeOK /\ SendInv /\ ListenerInv(Mcd)
  BY TypeParts, McdIsListening DEF IInv, DInv, QInv

LEMMA InitInv == Init => IInv
<1> SUFFICES ASSUME Init PROVE IInv
  OBVIOUS
<1>1. QInv
  BY QueuesInitInv DEF Init
<1>2. DTypeOK
  <2>1. calls \in 0..MaxCalls /\ play \in 0..MaxCalls
    BY CallsAssumption DEF Init
  <2>2. pc \in [Apps -> Labels]
    BY DEF Init, Labels
  <2> QED BY <2>1, <2>2 DEF Init, DTypeOK
<1>3. Quiet /\ events[Mcd] = << >> /\ life[Mcd] = "none" /\ listener[Mcd] = "none"
  BY McdIsListening DEF Init, Quiet, QueuesInit
<1>4. OpenInv
  BY <1>3 DEF Init, OpenInv, Opening, QueuesInit
<1>5. CloseInv /\ GoneInv /\ PostInv
  BY <1>3 DEF Init, CloseInv, GoneInv, PostInv, Closing
<1> QED BY <1>1, <1>2, <1>4, <1>5, TypeParts DEF IInv, DInv, QInv

-----------------------------------------------------------------------------
(* A command at one of its steps.                                          *)
LEMMA AtStep ==
  ASSUME IInv, NEW a \in Apps
  PROVE  /\ pc[a] \in {"reset", "play", "wait"} \cup Closing => instance = "open"
         /\ pc[a] \in {"listen", "sem"} => instance = "none"
         /\ pc[a] \in Closing => /\ \A b \in Apps \ {a} : pc[b] \in {"idle", "asleep"}
                                 /\ pc[a] = "dispose" <=> life[Mcd] # "freed"
<1>1. DTypeOK /\ OpenInv /\ CloseInv
  BY Parts
<1> QED BY <1>1 DEF DTypeOK, OpenInv, CloseInv, Opening, Closing

LEMMA NotOpenQuiet ==
  ASSUME IInv
  PROVE  /\ instance # "open" => Quiet
         /\ status = "play" \/ loaded \/ ending \/ frames => instance = "open"
<1>1. DTypeOK /\ OpenInv /\ CloseInv
  BY Parts
<1> QED BY <1>1 DEF DTypeOK, OpenInv, CloseInv, Quiet

LEMMA GotoType ==
  ASSUME IInv, NEW a \in Apps, NEW l \in Labels, Goto(a, l)
  PROVE  /\ pc' \in [Apps -> Labels] /\ pc'[a] = l
         /\ \A b \in Apps \ {a} : pc'[b] = pc[b]
<1>1. pc \in [Apps -> Labels]
  BY TypeParts DEF IInv, DTypeOK
<1> QED BY <1>1 DEF Goto

(* A step of the queues alone: the driver sees only its own queue and that *)
(* no new send begins.                                                     *)
LEMMA OtherKeeps ==
  ASSUME IInv, UNCHANGED <<instance, stream, frames, loaded, status, ending, pc, playsem, posted>>,
         life'[Mcd] = life[Mcd],
         listener[Mcd] # "none" => listener'[Mcd] # "none",
         posted => listener'[Mcd] = "callback" /\ handling'[Mcd] = handling[Mcd],
         instance = "none" => /\ listener'[Mcd] \in {"none", "wait", "asleep"}
                              /\ events'[Mcd] = << >>
                              /\ \A q \in Queues : life'[q] = life[q],
         \A s \in Senders : sending'[s] \in {sending[s], None}
  PROVE  DInv'
<1>1. OpenInv /\ CloseInv /\ GoneInv /\ PostInv
  BY Parts
<1>2. instance # "open" => Quiet'
  BY NotOpenQuiet DEF Quiet
<1>3. OpenInv'
  BY <1>1, <1>2 DEF OpenInv
<1>4. CloseInv'
  BY <1>1, <1>2 DEF CloseInv
<1>5. GoneInv'
  BY <1>1, SenderAssumption DEF GoneInv
<1>6. PostInv'
  BY <1>1 DEF PostInv
<1> QED BY <1>3, <1>4, <1>5, <1>6 DEF DInv

LEMMA QueueVarsSame ==
  ASSUME UNCHANGED queueVars
  PROVE  UNCHANGED <<list, listLock, events, life, listener, handling, cursor, sending, sent, last>>
  BY DEF queueVars

-----------------------------------------------------------------------------
(* MCI_OPEN                                                                *)
LEMMA OpenKeeps ==
  ASSUME IInv, NEW a \in Apps, Open(a)
  PROVE  DTypeOK' /\ DInv'
<1>1. /\ pc[a] = "idle" /\ instance = "none" /\ life[Mcd] = "none"
      /\ stream' = "open" /\ playflags' \in SUBSET Flags
      /\ Goto(a, "listen") /\ life' = [life EXCEPT ![Mcd] = "open"]
      /\ UNCHANGED <<events, listener, handling, sending>>
      /\ UNCHANGED <<instance, frames, loaded, status, ending, stoppedBy, playsem,
                     play, due, posted, calls>>
  BY DEF Open, NewQueue
<1>2. DTypeOK /\ OpenInv /\ CloseInv /\ PostInv
      /\ life \in [Queues -> {"none", "open", "unlisted", "quitting", "joined", "freed"}]
  BY Parts DEF QueuesTypeOK
<1>3. /\ pc' \in [Apps -> Labels] /\ pc'[a] = "listen"
      /\ \A b \in Apps \ {a} : pc'[b] = pc[b]
  BY <1>1, GotoType DEF Labels
<1>4. \A b \in Apps : pc[b] = "idle"
  BY <1>1, <1>2 DEF OpenInv
<1>5. life'[Mcd] = "open" /\ \A q \in Queues \ {Mcd} : life'[q] = life[q]
  BY <1>1, <1>2, McdIsListening
<1>6. DTypeOK'
  BY <1>1, <1>2, <1>3 DEF DTypeOK
<1>7. Quiet'
  BY <1>1, <1>2 DEF OpenInv, Quiet
<1>8. OpenInv'
  BY <1>1, <1>2, <1>3, <1>4, <1>5, <1>7 DEF OpenInv, Opening
<1>9. CloseInv' /\ GoneInv' /\ PostInv'
  BY <1>1, <1>2, <1>3, <1>4, <1>5 DEF CloseInv, GoneInv, PostInv, Closing
<1> QED BY <1>6, <1>8, <1>9 DEF DInv

LEMMA OpenListenerKeeps ==
  ASSUME IInv, NEW a \in Apps, OpenListener(a)
  PROVE  DTypeOK' /\ DInv'
<1>1. /\ pc[a] = "listen" /\ life[Mcd] = "open" /\ listener' = [listener EXCEPT ![Mcd] = "wait"]
      /\ Goto(a, "sem") /\ UNCHANGED <<events, life, handling, sending>>
      /\ UNCHANGED <<instance, stream, frames, loaded, status, ending, stoppedBy, playsem,
                     playflags, play, due, posted, calls>>
      /\ listener[Mcd] = "none"
  BY DEF OpenListener, CreateListener, engineVars, playVars
<1>2. DTypeOK /\ OpenInv /\ CloseInv /\ GoneInv /\ PostInv /\ instance = "none"
  BY <1>1, Parts, AtStep
<1>3. /\ pc' \in [Apps -> Labels] /\ pc'[a] = "sem"
      /\ \A b \in Apps \ {a} : pc'[b] = pc[b]
  BY <1>1, GotoType DEF Labels
<1>4. \A b \in Apps \ {a} : pc[b] = "idle"
  BY <1>1, <1>2 DEF OpenInv
<1>5. listener'[Mcd] = "wait" /\ ~posted
  BY <1>1, <1>2, McdIsListening DEF IInv, QInv, QueuesTypeOK, PostInv
<1>6. DTypeOK'
  BY <1>1, <1>2, <1>3 DEF DTypeOK
<1>7. Quiet'
  BY <1>1, <1>2 DEF OpenInv, Quiet
<1>8. OpenInv'
  BY <1>1, <1>2, <1>3, <1>4, <1>5, <1>7 DEF OpenInv, Opening
<1>9. CloseInv' /\ GoneInv' /\ PostInv'
  BY <1>1, <1>2, <1>3, <1>4, <1>5 DEF CloseInv, GoneInv, PostInv, Closing
<1> QED BY <1>6, <1>8, <1>9 DEF DInv

LEMMA OpenSemKeeps ==
  ASSUME IInv, NEW a \in Apps, OpenSem(a)
  PROVE  DTypeOK' /\ DInv'
<1>1. /\ pc[a] = "sem" /\ playsem' = "reset" /\ loaded' \in BOOLEAN /\ instance' = "open"
      /\ Goto(a, "idle") /\ UNCHANGED <<events, life, listener, handling, sending>>
      /\ UNCHANGED <<stream, frames, status, ending, stoppedBy, playflags, play, due,
                     posted, calls>>
  BY QueueVarsSame DEF OpenSem, playVars
<1>2. DTypeOK /\ OpenInv /\ CloseInv /\ GoneInv /\ PostInv /\ instance = "none"
  BY <1>1, Parts, AtStep
<1>3. /\ pc' \in [Apps -> Labels] /\ pc'[a] = "idle"
      /\ \A b \in Apps \ {a} : pc'[b] = pc[b]
  BY <1>1, GotoType DEF Labels
<1>4. \A b \in Apps : pc'[b] = "idle"
  BY <1>1, <1>2, <1>3 DEF OpenInv
<1>5. life[Mcd] = "open" /\ listener[Mcd] # "none" /\ stream # "freed"
  BY <1>1, <1>2 DEF OpenInv, GoneInv
<1>6. DTypeOK'
  BY <1>1, <1>2, <1>3 DEF DTypeOK
<1>7. OpenInv'
  BY <1>1, <1>4, <1>5 DEF OpenInv, Opening
<1>8. CloseInv' /\ GoneInv' /\ PostInv'
  BY <1>1, <1>2, <1>4, <1>5 DEF CloseInv, GoneInv, PostInv, Closing
<1> QED BY <1>6, <1>7, <1>8 DEF DInv

-----------------------------------------------------------------------------
(* The commands between MCI_OPEN and MCI_CLOSE: nobody closes meanwhile.   *)
LEMMA CommandKeeps ==
  ASSUME IInv, NEW a \in Apps, NEW l \in {"idle", "reset", "play", "wait", "asleep"},
         instance = "open", Goto(a, l), UNCHANGED <<instance, stream, posted>>,
         UNCHANGED queueVars,
         \A b \in Apps : pc[b] \notin Closing,
         playsem' # "none"
  PROVE  DInv'
<1>1. DTypeOK /\ OpenInv /\ CloseInv /\ GoneInv /\ PostInv
  BY Parts
<1>2. /\ pc'[a] = l /\ \A b \in Apps \ {a} : pc'[b] = pc[b]
  BY GotoType DEF Labels
<1>3. UNCHANGED <<events, life, listener, handling, sending>>
  BY QueueVarsSame
<1>4. \A b \in Apps : pc[b] \notin Opening /\ pc'[b] \notin Opening /\ pc'[b] \notin Closing
  BY <1>1, <1>2 DEF OpenInv, Opening, Closing
<1>5. OpenInv'
  BY <1>1, <1>3, <1>4 DEF OpenInv
<1>6. life[Mcd] \notin {"unlisted", "quitting", "joined", "freed"} /\ stream # "freed"
  BY <1>1 DEF CloseInv, GoneInv, Closing
<1>7. CloseInv'
  BY <1>3, <1>4, <1>6 DEF CloseInv
<1>8. GoneInv' /\ PostInv'
  BY <1>1, <1>3, <1>4, <1>6 DEF GoneInv, PostInv, Closing
<1> QED BY <1>5, <1>7, <1>8 DEF DInv

(* While a command is at one of its steps no other one closes.             *)
LEMMA NobodyCloses ==
  ASSUME IInv, NEW a \in Apps, pc[a] \in {"reset", "play", "wait"}
  PROVE  instance = "open" /\ \A b \in Apps : pc[b] \notin Closing
<1>1. instance = "open" /\ CloseInv
  BY AtStep, Parts
<1>2. pc[a] \notin Closing
  BY DEF Closing
<1>3. ASSUME NEW b \in Apps \ {a} PROVE pc[b] \notin Closing
  BY <1>1 DEF CloseInv
<1> QED BY <1>1, <1>2, <1>3

LEMMA OpenHasSem == IInv /\ instance = "open" => playsem # "none"
  BY DEF IInv, DInv, OpenInv

LEMMA CountedType ==
  ASSUME IInv, Counted
  PROVE  calls' \in 0..MaxCalls /\ calls' \in 1..MaxCalls
<1>1. calls \in 0..MaxCalls /\ MaxCalls \in Nat
  BY TypeParts, CallsAssumption DEF IInv, DTypeOK
<1> QED BY <1>1 DEF Counted

LEMMA LoadKeeps ==
  ASSUME IInv, NEW a \in Apps, Load(a)
  PROVE  DTypeOK' /\ DInv'
<1>1. /\ Command(a, "idle") /\ Counted /\ StopStream /\ loaded' \in BOOLEAN
      /\ UNCHANGED <<queueVars, instance, playsem, playflags, play, due, posted>>
  BY DEF Load, playVars
<1>2. instance = "open" /\ Goto(a, "idle") /\ \A b \in Apps : pc[b] \notin Closing
  BY <1>1 DEF Command
<1>3. DTypeOK /\ pc' \in [Apps -> Labels] /\ calls' \in 0..MaxCalls
  BY <1>1, <1>2, Parts, GotoType, CountedType DEF Labels
<1>4. DTypeOK' /\ stream' = stream
  BY <1>1, <1>3 DEF DTypeOK, StopStream
<1> QED BY <1>1, <1>2, <1>4, CommandKeeps, OpenHasSem

LEMMA PlayKeeps ==
  ASSUME IInv, NEW a \in Apps, Play(a)
  PROVE  DTypeOK' /\ DInv'
<1>1. /\ Command(a, "reset") /\ Counted /\ playflags' \in SUBSET Flags
      /\ play' = calls' /\ due' \in {due, due \cup {play'}}
      /\ UNCHANGED <<queueVars, instance, stream, frames, loaded, status, ending,
                     stoppedBy, playsem, posted>>
  BY DEF Play, engineVars
<1>2. instance = "open" /\ Goto(a, "reset") /\ \A b \in Apps : pc[b] \notin Closing
  BY <1>1 DEF Command
<1>3. DTypeOK /\ pc' \in [Apps -> Labels] /\ calls' \in 0..MaxCalls /\ calls' \in 1..MaxCalls
  BY <1>1, <1>2, Parts, GotoType, CountedType DEF Labels
<1>4. DTypeOK'
  BY <1>1, <1>3 DEF DTypeOK
<1> QED BY <1>1, <1>2, <1>4, CommandKeeps, OpenHasSem

LEMMA StopKeeps ==
  ASSUME IInv, NEW a \in Apps, Stop(a)
  PROVE  DTypeOK' /\ DInv'
<1>1. /\ Command(a, "idle") /\ Counted /\ StopStream /\ Notify
      /\ UNCHANGED <<queueVars, instance, loaded, playsem, posted>>
  BY DEF Stop
<1>2. instance = "open" /\ Goto(a, "idle") /\ \A b \in Apps : pc[b] \notin Closing
  BY <1>1 DEF Command
<1>3. DTypeOK /\ pc' \in [Apps -> Labels] /\ calls' \in 0..MaxCalls
  BY <1>1, <1>2, Parts, GotoType, CountedType DEF Labels
<1>4. DTypeOK' /\ stream' = stream
  BY <1>1, <1>3 DEF DTypeOK, StopStream, Notify
<1> QED BY <1>1, <1>2, <1>4, CommandKeeps, OpenHasSem

LEMMA ResetSemKeeps ==
  ASSUME IInv, NEW a \in Apps, ResetSem(a)
  PROVE  DTypeOK' /\ DInv'
<1>1. /\ pc[a] = "reset" /\ playsem' = "reset" /\ Goto(a, "play")
      /\ UNCHANGED <<queueVars, instance, stream, frames, loaded, status, ending,
                     stoppedBy, playflags, play, due, posted, calls>>
  BY DEF ResetSem, engineVars, playVars
<1>2. DTypeOK /\ pc' \in [Apps -> Labels]
  BY <1>1, Parts, GotoType DEF Labels
<1>3. DTypeOK'
  BY <1>1, <1>2 DEF DTypeOK
<1> QED BY <1>1, <1>3, NobodyCloses, CommandKeeps

LEMMA XinePlayKeeps ==
  ASSUME IInv, NEW a \in Apps, XinePlay(a)
  PROVE  DTypeOK' /\ DInv'
<1>1. /\ pc[a] = "play" /\ Goto(a, "wait")
      /\ UNCHANGED <<queueVars, instance, stream, loaded, ending, playsem, playflags, play,
                     due, posted, calls>>
  BY DEF XinePlay, playVars
<1>2. DTypeOK /\ pc' \in [Apps -> Labels]
  BY <1>1, Parts, GotoType DEF Labels
<1>3. /\ status' \in {"stop", "play"} /\ frames' \in BOOLEAN
      /\ stoppedBy' \in {"none", "end", "call", "failure"}
  BY <1>2 DEF XinePlay, DTypeOK
<1>4. DTypeOK'
  BY <1>1, <1>2, <1>3 DEF DTypeOK
<1> QED BY <1>1, <1>4, NobodyCloses, CommandKeeps, OpenHasSem

LEMMA WaitForEndKeeps ==
  ASSUME IInv, NEW a \in Apps, WaitForEnd(a)
  PROVE  DTypeOK' /\ DInv'
<1>1. /\ pc[a] = "wait"
      /\ Goto(a, IF "wait" \in playflags /\ playsem = "reset" THEN "asleep" ELSE "idle")
      /\ UNCHANGED <<queueVars, instance, stream, frames, loaded, status, ending,
                     stoppedBy, playsem, playflags, play, due, posted, calls>>
  BY DEF WaitForEnd, engineVars, playVars
<1>2. PICK l \in {"asleep", "idle"} : Goto(a, l)
  BY <1>1
<1>3. DTypeOK /\ pc' \in [Apps -> Labels]
  BY <1>2, Parts, GotoType DEF Labels
<1>4. DTypeOK'
  BY <1>1, <1>3 DEF DTypeOK
<1> QED BY <1>1, <1>2, <1>4, NobodyCloses, CommandKeeps, OpenHasSem

-----------------------------------------------------------------------------
(* MCI_CLOSE                                                               *)
LEMMA CloseKeeps ==
  ASSUME IInv, NEW a \in Apps, Close(a)
  PROVE  DTypeOK' /\ DInv'
<1>1. /\ Command(a, "dispose") /\ \A b \in Apps : pc[b] \in {"idle", "asleep"}
      /\ UNCHANGED <<queueVars, instance, stream, frames, loaded, status, ending,
                     stoppedBy, playsem, playflags, play, due, posted, calls>>
  BY DEF Close, engineVars, playVars
<1>2. instance = "open" /\ Goto(a, "dispose")
  BY <1>1 DEF Command
<1>3. /\ DTypeOK /\ OpenInv /\ CloseInv /\ GoneInv /\ PostInv
      /\ pc' \in [Apps -> Labels] /\ pc'[a] = "dispose"
      /\ \A b \in Apps \ {a} : pc'[b] = pc[b]
  BY <1>2, Parts, GotoType DEF Labels, Closing
<1>4. DTypeOK'
  BY <1>1, <1>3 DEF DTypeOK
<1>5. life[Mcd] # "freed" /\ stream # "freed"
      /\ UNCHANGED <<events, life, listener, handling, sending>>
  BY <1>1, <1>2, <1>3, QueueVarsSame DEF CloseInv, GoneInv, Closing
<1>6. OpenInv'
  BY <1>1, <1>2, <1>3, <1>5 DEF OpenInv, Opening
<1>7. CloseInv'
  BY <1>1, <1>2, <1>3, <1>5 DEF CloseInv, Closing
<1>8. GoneInv' /\ PostInv'
  BY <1>1, <1>2, <1>3, <1>5 DEF GoneInv, PostInv
<1> QED BY <1>4, <1>6, <1>7, <1>8 DEF DInv

(* What dispose does to the driver's own queue.                            *)
LEMMA DisposeMcd ==
  ASSUME IInv, Dispose(Mcd), listener[Mcd] # "none"
  PROVE  /\ life'[Mcd] \in {"unlisted", "quitting", "joined", "freed"}
         /\ listener'[Mcd] # "none"
         /\ listener[Mcd] = "callback" => listener'[Mcd] = "callback"
         /\ UNCHANGED <<handling, sending>>
<1>1. QueuesTypeOK /\ QInv
  BY DEF IInv, QInv
<1>2. CASE Unlist(Mcd)
  BY <1>1, <1>2, McdIsListening DEF Unlist, QueuesTypeOK
<1>3. CASE SendQuit(Mcd)
  <2>1. listener'[Mcd] # "none" /\ (listener[Mcd] = "callback" => listener'[Mcd] = "callback")
    BY <1>1, <1>3, McdIsListening DEF SendQuit, Signal, QueuesTypeOK
  <2> QED BY <1>1, <1>3, <2>1, McdIsListening DEF SendQuit, QueuesTypeOK
<1>4. CASE JoinListener(Mcd)
  BY <1>1, <1>4, McdIsListening DEF JoinListener, QueuesTypeOK
<1>5. CASE FreeQueue(Mcd)
  BY <1>1, <1>5, McdIsListening DEF FreeQueue, QueuesTypeOK
<1> QED BY <1>2, <1>3, <1>4, <1>5 DEF Dispose

LEMMA CloseQueueKeeps ==
  ASSUME IInv, NEW a \in Apps, CloseQueue(a)
  PROVE  DTypeOK' /\ DInv'
<1>1. /\ pc[a] = "dispose" /\ Dispose(Mcd)
      /\ Goto(a, IF life'[Mcd] = "freed" THEN "close" ELSE "dispose")
      /\ UNCHANGED <<instance, stream, frames, loaded, status, ending, stoppedBy,
                     playsem, playflags, play, due, posted, calls>>
  BY DEF CloseQueue, engineVars, playVars
<1>2. PICK l \in {"close", "dispose"} : Goto(a, l) /\ (l = "close" <=> life'[Mcd] = "freed")
  BY <1>1
<1>3. /\ DTypeOK /\ OpenInv /\ CloseInv /\ GoneInv /\ PostInv
      /\ pc' \in [Apps -> Labels] /\ pc'[a] = l
      /\ \A b \in Apps \ {a} : pc'[b] = pc[b]
  BY <1>2, Parts, GotoType DEF Labels, Closing
<1>4. DTypeOK'
  BY <1>1, <1>3 DEF DTypeOK
<1>5. /\ instance = "open" /\ listener[Mcd] # "none" /\ life[Mcd] # "freed"
      /\ \A b \in Apps \ {a} : pc[b] \in {"idle", "asleep"}
  BY <1>1, <1>3, AtStep DEF OpenInv, CloseInv, Closing
<1>6. /\ life'[Mcd] \in {"unlisted", "quitting", "joined", "freed"} /\ listener'[Mcd] # "none"
      /\ listener[Mcd] = "callback" => listener'[Mcd] = "callback"
      /\ UNCHANGED <<handling, sending>>
  BY <1>1, <1>5, DisposeMcd
<1>7. OpenInv'
  BY <1>1, <1>2, <1>3, <1>5, <1>6 DEF OpenInv, Opening
<1>8. CloseInv'
  BY <1>1, <1>2, <1>3, <1>5, <1>6 DEF CloseInv, Closing
<1>9. stream # "freed"
  BY <1>1, <1>3, <1>5 DEF GoneInv
<1>10. GoneInv'
  BY <1>1, <1>2, <1>3, <1>5, <1>6, <1>9 DEF GoneInv
<1>11. PostInv'
  BY <1>1, <1>3, <1>6 DEF PostInv
<1> QED BY <1>4, <1>7, <1>8, <1>10, <1>11 DEF DInv

(* A step of MCI_CLOSE after the queue is gone.                            *)
LEMMA ClosingFacts ==
  ASSUME IInv, NEW a \in Apps, pc[a] \in {"close", "stream", "video", "free"}
  PROVE  /\ instance = "open" /\ life[Mcd] = "freed"
         /\ \A b \in Apps \ {a} : pc[b] \in {"idle", "asleep"}
  BY AtStep DEF Closing

LEMMA CloseStreamKeeps ==
  ASSUME IInv, NEW a \in Apps, CloseStream(a)
  PROVE  DTypeOK' /\ DInv'
<1>1. /\ pc[a] = "close" /\ StopStream /\ loaded' = FALSE /\ Goto(a, "stream")
      /\ UNCHANGED <<events, life, listener, handling, sending>>
      /\ UNCHANGED <<instance, stream, frames, ending, playsem, playflags, play, due,
                     posted, calls>>
  BY QueueVarsSame DEF CloseStream, StopStream, playVars
<1>2. /\ DTypeOK /\ OpenInv /\ CloseInv /\ GoneInv /\ PostInv
      /\ pc' \in [Apps -> Labels] /\ pc'[a] = "stream"
      /\ \A b \in Apps \ {a} : pc'[b] = pc[b]
  BY <1>1, Parts, GotoType DEF Labels, Closing
<1>3. DTypeOK'
  BY <1>1, <1>2 DEF DTypeOK, StopStream
<1>4. /\ instance = "open" /\ life[Mcd] = "freed"
      /\ \A b \in Apps \ {a} : pc[b] \in {"idle", "asleep"}
  BY <1>1, ClosingFacts
<1>5. OpenInv'
  BY <1>1, <1>2, <1>4 DEF OpenInv, Opening
<1>6. CloseInv'
  BY <1>1, <1>2, <1>4 DEF CloseInv, Closing
<1>7. stream # "freed"
  BY <1>1, <1>2, <1>4 DEF GoneInv
<1>8. GoneInv' /\ PostInv'
  BY <1>1, <1>2, <1>4, <1>7 DEF GoneInv, PostInv, StopStream
<1> QED BY <1>3, <1>5, <1>6, <1>8 DEF DInv

LEMMA DisposeStreamKeeps ==
  ASSUME IInv, NEW a \in Apps, DisposeStream(a)
  PROVE  DTypeOK' /\ DInv'
<1>1. /\ pc[a] = "stream" /\ ~ending /\ sending["decoder"] = None /\ stream' = "freed"
      /\ Goto(a, "video")
      /\ UNCHANGED <<events, life, listener, handling, sending>>
      /\ UNCHANGED <<instance, frames, loaded, status, ending, stoppedBy, playsem,
                     playflags, play, due, posted, calls>>
  BY QueueVarsSame DEF DisposeStream, playVars
<1>2. /\ DTypeOK /\ OpenInv /\ CloseInv /\ GoneInv /\ PostInv
      /\ pc' \in [Apps -> Labels] /\ pc'[a] = "video"
      /\ \A b \in Apps \ {a} : pc'[b] = pc[b]
  BY <1>1, Parts, GotoType DEF Labels, Closing
<1>3. DTypeOK'
  BY <1>1, <1>2 DEF DTypeOK
<1>4. /\ instance = "open" /\ life[Mcd] = "freed"
      /\ \A b \in Apps \ {a} : pc[b] \in {"idle", "asleep"}
  BY <1>1, ClosingFacts
<1>5. OpenInv'
  BY <1>1, <1>2, <1>4 DEF OpenInv, Opening
<1>6. CloseInv'
  BY <1>1, <1>2, <1>4 DEF CloseInv, Closing
<1>7. status = "stop" /\ ~loaded
  BY <1>1, <1>2 DEF GoneInv
<1>8. GoneInv' /\ PostInv'
  BY <1>1, <1>2, <1>4, <1>7 DEF GoneInv, PostInv
<1> QED BY <1>3, <1>5, <1>6, <1>8 DEF DInv

LEMMA CloseVideoKeeps ==
  ASSUME IInv, NEW a \in Apps, CloseVideo(a)
  PROVE  DTypeOK' /\ DInv'
<1>1. /\ pc[a] = "video" /\ sending["output"] = None /\ frames' = FALSE
      /\ Goto(a, "free")
      /\ UNCHANGED <<events, life, listener, handling, sending>>
      /\ UNCHANGED <<instance, stream, loaded, status, ending, stoppedBy, playsem,
                     playflags, play, due, posted, calls>>
  BY QueueVarsSame DEF CloseVideo, playVars
<1>2. /\ DTypeOK /\ OpenInv /\ CloseInv /\ GoneInv /\ PostInv
      /\ pc' \in [Apps -> Labels] /\ pc'[a] = "free"
      /\ \A b \in Apps \ {a} : pc'[b] = pc[b]
  BY <1>1, Parts, GotoType DEF Labels, Closing
<1>3. DTypeOK'
  BY <1>1, <1>2 DEF DTypeOK
<1>4. /\ instance = "open" /\ life[Mcd] = "freed"
      /\ \A b \in Apps \ {a} : pc[b] \in {"idle", "asleep"}
  BY <1>1, ClosingFacts
<1>5. OpenInv'
  BY <1>1, <1>2, <1>4 DEF OpenInv, Opening
<1>6. CloseInv'
  BY <1>1, <1>2, <1>4 DEF CloseInv, Closing
<1>7. status = "stop" /\ ~loaded /\ ~ending /\ sending["decoder"] = None
  BY <1>1, <1>2 DEF GoneInv
<1>8. GoneInv' /\ PostInv'
  BY <1>1, <1>2, <1>4, <1>7 DEF GoneInv, PostInv
<1> QED BY <1>3, <1>5, <1>6, <1>8 DEF DInv

LEMMA FreeInstanceKeeps ==
  ASSUME IInv, NEW a \in Apps, FreeInstance(a)
  PROVE  DTypeOK' /\ DInv'
<1>1. /\ pc[a] = "free" /\ instance' = "freed" /\ Goto(a, "idle")
      /\ UNCHANGED <<events, life, listener, handling, sending>>
      /\ UNCHANGED <<stream, frames, loaded, status, ending, stoppedBy, playsem,
                     playflags, play, due, posted, calls>>
  BY QueueVarsSame DEF FreeInstance, engineVars, playVars
<1>2. /\ DTypeOK /\ OpenInv /\ CloseInv /\ GoneInv /\ PostInv
      /\ pc' \in [Apps -> Labels] /\ pc'[a] = "idle"
      /\ \A b \in Apps \ {a} : pc'[b] = pc[b]
  BY <1>1, Parts, GotoType DEF Labels
<1>3. DTypeOK'
  BY <1>1, <1>2 DEF DTypeOK
<1>4. /\ instance = "open" /\ life[Mcd] = "freed"
      /\ \A b \in Apps \ {a} : pc[b] \in {"idle", "asleep"}
  BY <1>1, ClosingFacts
<1>5. Quiet'
  BY <1>1, <1>2, SenderAssumption DEF GoneInv, Quiet
<1>6. OpenInv'
  BY <1>1, <1>2, <1>4 DEF OpenInv, Opening
<1>7. CloseInv'
  BY <1>1, <1>2, <1>4, <1>5 DEF CloseInv, Closing
<1>8. GoneInv' /\ PostInv'
  BY <1>1, <1>2, <1>4 DEF GoneInv, PostInv
<1> QED BY <1>3, <1>6, <1>7, <1>8 DEF DInv

-----------------------------------------------------------------------------
(* The engine, its listener and the plugins.                               *)
LEMMA EngineEndsKeeps ==
  ASSUME IInv, EngineEnds
  PROVE  DTypeOK' /\ DInv'
<1>1. /\ status = "play" /\ status' = "stop" /\ stoppedBy' = "end" /\ ending' = TRUE
      /\ UNCHANGED <<events, life, listener, handling, sending>>
      /\ UNCHANGED <<instance, stream, frames, loaded, playsem, playflags, play, due,
                     posted, pc, calls>>
  BY QueueVarsSame DEF EngineEnds, playVars
<1>2. DTypeOK /\ OpenInv /\ CloseInv /\ GoneInv /\ PostInv /\ instance = "open"
  BY <1>1, Parts, NotOpenQuiet
<1>3. DTypeOK'
  BY <1>1, <1>2 DEF DTypeOK
<1>4. OpenInv' /\ CloseInv' /\ PostInv'
  BY <1>1, <1>2 DEF OpenInv, CloseInv, PostInv
<1>5. GoneInv'
  BY <1>1, <1>2 DEF GoneInv
<1> QED BY <1>3, <1>4, <1>5 DEF DInv

(* Only the sender's own sending changes when it takes the lock.           *)
LEMMA SendFrame ==
  ASSUME IInv, NEW s \in Senders, NEW type \in Types, Send(s, type)
  PROVE  /\ QInv' /\ UNCHANGED <<events, life, listener, handling>>
         /\ \A r \in Senders \ {s} : sending'[r] = sending[r]
<1>1. QueuesTypeOK
  BY Parts
<1>2. \A r \in Senders \ {s} : sending'[r] = sending[r]
  BY <1>1 DEF Send, QueuesTypeOK
<1> QED BY <1>2, SendKeeps DEF Send, IInv

LEMMA SendFinishedKeeps ==
  ASSUME IInv, SendFinished
  PROVE  QInv' /\ DTypeOK' /\ DInv'
<1>1. /\ ending /\ ending' = FALSE /\ Send("decoder", "finished")
      /\ UNCHANGED <<instance, stream, frames, loaded, playsem, playflags, play, due,
                     posted, pc, calls>>
      /\ (status' = status /\ stoppedBy' = stoppedBy) \/ (status' = "stop" /\ stoppedBy' = "end")
  BY DEF SendFinished, playVars
<1>2. /\ QInv' /\ UNCHANGED <<events, life, listener, handling>>
      /\ \A r \in Senders \ {"decoder"} : sending'[r] = sending[r]
  BY <1>1, SendFrame, SenderAssumption DEF Types
<1>3. DTypeOK /\ OpenInv /\ CloseInv /\ GoneInv /\ PostInv /\ instance = "open"
  BY <1>1, Parts, NotOpenQuiet
<1>4. DTypeOK'
  BY <1>1, <1>3 DEF DTypeOK
<1>5. OpenInv' /\ CloseInv' /\ PostInv'
  BY <1>1, <1>2, <1>3 DEF OpenInv, CloseInv, PostInv
<1>6. \A a \in Apps : pc[a] \notin {"video", "free"}
  BY <1>1, <1>3 DEF GoneInv
<1>7. GoneInv'
  BY <1>1, <1>3, <1>6 DEF GoneInv
<1> QED BY <1>2, <1>4, <1>5, <1>7 DEF DInv

LEMMA DriverVarsSame ==
  ASSUME IInv, UNCHANGED driverVars
  PROVE  /\ UNCHANGED <<instance, stream, frames, loaded, status, ending, stoppedBy, playsem,
                        playflags, play, due, posted, pc, calls>>
         /\ DTypeOK'
<1>1. UNCHANGED <<instance, stream, frames, loaded, status, ending, stoppedBy, playsem,
                  playflags, play, due, posted, pc, calls>>
  BY DEF driverVars, engineVars, playVars
<1> QED BY <1>1, TypeParts DEF IInv, DTypeOK

LEMMA SendCueKeeps ==
  ASSUME IInv, SendCue
  PROVE  QInv' /\ DTypeOK' /\ DInv'
<1>1. frames /\ Send("output", "cue") /\ UNCHANGED driverVars
  BY DEF SendCue
<1>2. /\ QInv' /\ UNCHANGED <<events, life, listener, handling>>
      /\ \A r \in Senders \ {"output"} : sending'[r] = sending[r]
  BY <1>1, SendFrame, SenderAssumption DEF Types
<1>3. UNCHANGED <<instance, stream, frames, loaded, status, ending, pc, playsem, posted>>
  BY <1>1, DriverVarsSame
<1>4. OpenInv /\ CloseInv /\ GoneInv /\ PostInv /\ instance = "open"
  BY <1>1, Parts, NotOpenQuiet
<1>5. OpenInv' /\ CloseInv' /\ PostInv'
  BY <1>2, <1>3, <1>4 DEF OpenInv, CloseInv, PostInv
<1>6. sending'["decoder"] = sending["decoder"] /\ \A a \in Apps : pc[a] # "free"
  BY <1>1, <1>2, <1>4, SenderAssumption DEF GoneInv
<1>7. GoneInv'
  BY <1>3, <1>4, <1>6 DEF GoneInv
<1> QED BY <1>1, <1>2, <1>5, <1>7, DriverVarsSame DEF DInv

LEMMA SendingKeeps ==
  ASSUME IInv, Sending
  PROVE  QInv' /\ DTypeOK' /\ DInv'
<1>1. PICK s \in Senders : (Deliver(s) \/ Sent(s)) /\ UNCHANGED driverVars
  BY DEF Sending
<1>2. QInv /\ QInv' /\ SendInv /\ QueuesTypeOK
  BY <1>1, DeliverKeeps, SentKeeps DEF IInv, QInv
<1>3. sending[s] # None
  BY <1>1, <1>2 DEF Deliver, Sent, SendInv
<1>4. instance = "open"
  BY <1>3, NotOpenQuiet DEF Quiet
<1>5. /\ life' = life /\ handling' = handling
      /\ listener[Mcd] # "none" => listener'[Mcd] # "none"
      /\ listener[Mcd] = "callback" => listener'[Mcd] = "callback"
      /\ \A r \in Senders : sending'[r] \in {sending[r], None}
  <2>1. CASE Deliver(s)
    <3>1. cursor[s] \in Queues /\ Signal(cursor[s])
          /\ UNCHANGED <<life, handling, sending>>
      BY <1>2, <2>1 DEF Deliver, QueuesTypeOK
    <3>2. /\ listener[Mcd] # "none" => listener'[Mcd] # "none"
          /\ listener[Mcd] = "callback" => listener'[Mcd] = "callback"
      BY <1>2, <3>1, McdIsListening DEF Signal, QueuesTypeOK
    <3> QED BY <3>1, <3>2
  <2>2. CASE Sent(s)
    BY <1>2, <2>2 DEF Sent, QueuesTypeOK
  <2> QED BY <1>1, <2>1, <2>2
<1>6. posted => listener[Mcd] = "callback"
  BY Parts DEF PostInv
<1> QED BY <1>1, <1>2, <1>4, <1>5, <1>6, DriverVarsSame, OtherKeeps

LEMMA ListenKeeps ==
  ASSUME IInv, Listen
  PROVE  QInv' /\ DTypeOK' /\ DInv'
<1>1. (Sleep(Mcd) \/ Take(Mcd)) /\ UNCHANGED driverVars
  BY DEF Listen
<1>2. QInv' /\ QueuesTypeOK
  BY <1>1, SleepKeeps, TakeKeeps, McdIsListening DEF IInv, QInv
<1>3. UNCHANGED <<life, sending>> /\ listener[Mcd] = "wait"
  BY <1>1 DEF Sleep, Take
<1>4. ~posted
  BY <1>3, Parts DEF PostInv
<1>5. CASE Sleep(Mcd)
  <2>1. listener'[Mcd] = "asleep" /\ events' = events
    BY <1>2, <1>5, McdIsListening DEF Sleep, QueuesTypeOK
  <2>2. instance = "none" => events'[Mcd] = << >>
    BY <2>1 DEF IInv, DInv, OpenInv
  <2> QED BY <1>1, <1>2, <1>3, <1>4, <2>1, <2>2, DriverVarsSame, OtherKeeps
<1>6. CASE Take(Mcd)
  <2>1. listener'[Mcd] # "none"
    BY <1>2, <1>6, McdIsListening DEF Take, QueuesTypeOK
  <2>2. instance # "none"
    BY <1>6 DEF Take, IInv, DInv, OpenInv
  <2> QED BY <1>1, <1>2, <1>3, <1>4, <2>1, <2>2, DriverVarsSame, OtherKeeps
<1> QED BY <1>1, <1>5, <1>6

(* The callback is called for an open instance only.                       *)
LEMMA CallbackOpen ==
  ASSUME IInv, listener[Mcd] = "callback"
  PROVE  instance = "open"
<1>1. DTypeOK /\ OpenInv /\ CloseInv /\ ListenerInv(Mcd)
  BY Parts
<1> QED BY <1>1 DEF DTypeOK, OpenInv, CloseInv, ListenerInv

LEMMA ReturnedFacts ==
  ASSUME IInv, Returned(Mcd)
  PROVE  /\ instance = "open" /\ QInv' /\ listener'[Mcd] = "wait"
         /\ UNCHANGED <<life, events, sending>>
<1>1. QueuesTypeOK /\ QInv'
  BY SleepKeeps, McdIsListening DEF IInv, QInv
<1>2. listener'[Mcd] = "wait"
  BY <1>1, McdIsListening DEF Returned, QueuesTypeOK
<1> QED BY <1>1, <1>2, CallbackOpen DEF Returned

(* The post wakes the sleepers and leaves every other command where it is. *)
LEMMA FinishedKeeps ==
  ASSUME IInv, Finished
  PROVE  QInv' /\ DTypeOK' /\ DInv'
<1>1. /\ handling[Mcd] # None /\ handling[Mcd].type = "finished"
      /\ posted' = TRUE /\ playsem' = "posted"
      /\ pc' = [a \in Apps |-> IF pc[a] = "asleep" THEN "idle" ELSE pc[a]]
      /\ UNCHANGED <<instance, stream, frames, loaded, status, ending, stoppedBy,
                     playflags, play, due, calls>>
      /\ UNCHANGED <<events, life, listener, handling, sending>>
  BY QueueVarsSame DEF Finished, engineVars, playVars
<1>2. DTypeOK /\ OpenInv /\ CloseInv /\ GoneInv /\ listener[Mcd] = "callback"
  BY <1>1, Parts DEF Finished
<1>3. instance = "open" /\ QInv'
  BY <1>2, CallbackOpen, QueuesSame DEF Finished, IInv
<1>4. pc' \in [Apps -> Labels]
  BY <1>1, <1>2 DEF DTypeOK, Labels
<1>5. DTypeOK'
  BY <1>1, <1>2, <1>4 DEF DTypeOK
<1>6. \A a \in Apps : pc'[a] = pc[a] \/ (pc[a] = "asleep" /\ pc'[a] = "idle")
  BY <1>1
<1>7. \A a \in Apps : (pc'[a] \in Closing \/ pc'[a] \in Opening) => pc'[a] = pc[a]
  BY <1>6 DEF Closing, Opening
<1>8. \A a \in Apps : pc[a] \in Closing => pc'[a] = pc[a]
  BY <1>6 DEF Closing
<1>9. OpenInv'
  BY <1>1, <1>2, <1>3, <1>7 DEF OpenInv
<1>10. CloseInv'
  <2>1. ASSUME NEW a \in Apps, pc'[a] \in Closing
        PROVE  /\ \A b \in Apps \ {a} : pc'[b] \in {"idle", "asleep"}
               /\ pc'[a] = "dispose" <=> life'[Mcd] # "freed"
    BY <1>1, <1>2, <1>3, <1>6, <1>7, <2>1 DEF CloseInv
  <2>2. life'[Mcd] \in {"unlisted", "quitting", "joined"} => \E a \in Apps : pc'[a] = "dispose"
    BY <1>1, <1>2, <1>8 DEF CloseInv, Closing
  <2>3. life'[Mcd] = "freed" => \E a \in Apps : pc'[a] \in Closing /\ pc'[a] # "dispose"
    BY <1>1, <1>2, <1>3, <1>8 DEF CloseInv
  <2> QED BY <1>1, <1>3, <2>1, <2>2, <2>3 DEF CloseInv
<1>11. GoneInv'
  BY <1>1, <1>2, <1>7, <1>8 DEF GoneInv, Closing
<1>12. PostInv'
  BY <1>1, <1>2 DEF PostInv
<1> QED BY <1>3, <1>5, <1>9, <1>10, <1>11, <1>12 DEF DInv

LEMMA NotifyFinishedKeeps ==
  ASSUME IInv, NotifyFinished
  PROVE  QInv' /\ DTypeOK' /\ DInv'
<1>1. /\ posted' = FALSE /\ Returned(Mcd) /\ Notify
      /\ UNCHANGED <<instance, stream, frames, loaded, status, ending, stoppedBy,
                     playsem, pc, calls>>
  BY DEF NotifyFinished, engineVars
<1>2. /\ instance = "open" /\ QInv' /\ listener'[Mcd] = "wait"
      /\ UNCHANGED <<life, events, sending>>
  BY <1>1, ReturnedFacts
<1>3. DTypeOK /\ OpenInv /\ CloseInv /\ GoneInv
  BY Parts
<1>4. DTypeOK'
  BY <1>1, <1>3 DEF DTypeOK, Notify
<1>5. OpenInv' /\ CloseInv' /\ GoneInv' /\ PostInv'
  BY <1>1, <1>2, <1>3 DEF OpenInv, CloseInv, GoneInv, PostInv
<1> QED BY <1>2, <1>4, <1>5 DEF DInv

LEMMA PositionChangeKeeps ==
  ASSUME IInv, PositionChange
  PROVE  QInv' /\ DTypeOK' /\ DInv'
<1>1. Returned(Mcd) /\ UNCHANGED driverVars /\ handling[Mcd].type = "cue"
  BY DEF PositionChange
<1>2. ~posted
  BY <1>1, Parts DEF PostInv
<1> QED BY <1>1, <1>2, ReturnedFacts, DriverVarsSame, OtherKeeps

(* A plugin's queue is another one than the driver's.                      *)
LEMMA PluginKeeps ==
  ASSUME IInv, Plugin
  PROVE  QInv' /\ DTypeOK' /\ DInv'
<1>1. PICK q \in Queues : PluginOpens(q) \/ PluginPolls(q) \/ PluginDispose(q)
  BY DEF Plugin
<1>2. q # Mcd /\ UNCHANGED driverVars /\ ((loaded /\ NewQueue(q)) \/ Get(q) \/ Dispose(q))
  BY <1>1 DEF PluginOpens, PluginPolls, PluginDispose
<1>3. QInv' /\ QueuesTypeOK /\ QInv
  BY <1>2, NewQueueKeeps, GetKeeps, DisposeKeeps DEF IInv, QInv
<1>4. /\ UNCHANGED <<sending, handling>>
      /\ life'[Mcd] = life[Mcd] /\ listener'[Mcd] = listener[Mcd]
  <2>1. CASE NewQueue(q)
    BY <1>2, <1>3, <2>1 DEF NewQueue, QueuesTypeOK
  <2>2. CASE Get(q)
    BY <2>2 DEF Get
  <2>3. CASE Dispose(q)
    <3>1. CASE SendQuit(q)
      BY <1>2, <1>3, <3>1, McdIsListening, SignalKeeps DEF SendQuit, QueuesTypeOK
    <3>2. CASE ~SendQuit(q)
      BY <1>2, <1>3, <2>3, <3>2, McdIsListening
      DEF Dispose, Unlist, JoinListener, FreeQueue, QueuesTypeOK
    <3> QED BY <3>1, <3>2
  <2> QED BY <1>2, <2>1, <2>2, <2>3
<1>5. instance # "none"
  <2>1. ASSUME instance = "none" PROVE FALSE
    <3>1. ~loaded /\ life[q] = "none"
      BY <1>2, <2>1 DEF IInv, DInv, OpenInv, Quiet
    <3> QED BY <1>2, <3>1 DEF Get, Dispose, Unlist, SendQuit, JoinListener, FreeQueue
  <2> QED BY <2>1
<1>6. posted => listener[Mcd] = "callback"
  BY Parts DEF PostInv
<1> QED BY <1>2, <1>3, <1>4, <1>5, <1>6, DriverVarsSame, OtherKeeps

-----------------------------------------------------------------------------
LEMMA CommandsKeep ==
  ASSUME IInv, NEW a \in Apps, Commands(a) \/ Continue(a)
  PROVE  IInv'
<1>1. CASE Open(a)
  BY <1>1, OpenKeeps, NewQueueKeeps, TypePartsNext, McdIsListening DEF Open, IInv
<1>2. CASE OpenListener(a)
  BY <1>2, OpenListenerKeeps, CreateListenerKeeps, TypePartsNext, McdIsListening
  DEF OpenListener, IInv
<1>3. CASE CloseQueue(a)
  BY <1>3, CloseQueueKeeps, DisposeKeeps, TypePartsNext, McdIsListening DEF CloseQueue, IInv
<1>4. CASE OpenSem(a) \/ ResetSem(a) \/ XinePlay(a) \/ WaitForEnd(a) \/ CloseStream(a)
           \/ DisposeStream(a) \/ CloseVideo(a) \/ FreeInstance(a)
           \/ Load(a) \/ Play(a) \/ Stop(a) \/ Close(a)
  <2>1. UNCHANGED queueVars
    BY <1>4 DEF OpenSem, ResetSem, XinePlay, WaitForEnd, CloseStream, DisposeStream,
       CloseVideo, FreeInstance, Load, Play, Stop, Close
  <2>2. QInv'
    BY <2>1, QueuesSame DEF IInv
  <2>3. DTypeOK' /\ DInv'
    BY <1>4, OpenSemKeeps, ResetSemKeeps, XinePlayKeeps, WaitForEndKeeps, CloseStreamKeeps,
       DisposeStreamKeeps, CloseVideoKeeps, FreeInstanceKeeps, LoadKeeps, PlayKeeps,
       StopKeeps, CloseKeeps
  <2> QED BY <2>2, <2>3, TypePartsNext DEF IInv
<1> QED BY <1>1, <1>2, <1>3, <1>4 DEF Commands, Continue

LEMMA StepInv == IInv /\ [Next]_vars => IInv'
<1> SUFFICES ASSUME IInv, [Next]_vars PROVE IInv'
  OBVIOUS
<1>1. CASE UNCHANGED vars
  <2>1. UNCHANGED queueVars /\ UNCHANGED driverVars
    BY <1>1 DEF vars
  <2>2. UNCHANGED <<events, life, listener, handling, sending>>
    BY <2>1, QueueVarsSame
  <2>3. instance = "none" => /\ listener[Mcd] \in {"none", "wait", "asleep"}
                             /\ events[Mcd] = << >>
    BY DEF IInv, DInv, OpenInv
  <2>4. QInv' /\ (posted => listener[Mcd] = "callback")
    BY <2>1, QueuesSame, Parts DEF IInv, PostInv
  <2>5. DTypeOK' /\ DInv'
    BY <2>1, <2>2, <2>3, <2>4, DriverVarsSame, OtherKeeps
  <2> QED BY <2>4, <2>5, TypePartsNext DEF IInv
<1>2. ASSUME NEW a \in Apps, Commands(a) \/ Continue(a) PROVE IInv'
  BY <1>2, CommandsKeep
<1>3. CASE EngineEnds
  <2>1. UNCHANGED queueVars
    BY <1>3 DEF EngineEnds
  <2> QED BY <1>3, <2>1, EngineEndsKeeps, QueuesSame, TypePartsNext DEF IInv
<1>4. CASE SendFinished \/ SendCue \/ Sending
  BY <1>4, SendFinishedKeeps, SendCueKeeps, SendingKeeps, TypePartsNext DEF IInv
<1>5. CASE Listen \/ Finished \/ NotifyFinished \/ PositionChange
  BY <1>5, ListenKeeps, FinishedKeeps, NotifyFinishedKeeps, PositionChangeKeeps,
     TypePartsNext DEF IInv
<1>6. CASE Plugin
  BY <1>6, PluginKeeps, TypePartsNext DEF IInv
<1> QED BY <1>1, <1>2, <1>3, <1>4, <1>5, <1>6 DEF Next

LEMMA Invariant == Spec => []IInv
  BY InitInv, StepInv, PTL DEF Spec

(* Every variable of the driver and of its queues keeps its type: the list *)
(* holds the open queues, each once, and a send holds the list's lock      *)
(* (event_queues_lock in events.c, mciDriverEntry in mcd.c).               *)
THEOREM McdTypeCorrect == Spec => []TypeOK
<1>1. IInv => TypeOK
  BY DEF IInv
<1> QED BY <1>1, Invariant, PTL

LEMMA NothingFreed == IInv => NothingFreedInUse
<1> SUFFICES ASSUME IInv PROVE NothingFreedInUse
  OBVIOUS
<1>1. QueuesTypeOK /\ SendInv /\ DTypeOK /\ OpenInv /\ CloseInv /\ GoneInv /\ PostInv
  BY Parts
<1>2. \A q \in Queues : QuitLast(q) /\ ListenerInv(q)
  BY DEF IInv, QInv
<1>3. \A s \in Senders : cursor[s] # None => life[cursor[s]] = "open"
  BY <1>1, ListFacts DEF SendInv
<1>4. \A q \in Queues : life[q] = "freed" => listener[q] \in {"none", "exited"}
  BY <1>2 DEF ListenerInv
<1>5. \A q \in Listening : life[q] = "joined" /\ listener[q] = "exited" => events[q] = << >>
  BY <1>2, ListeningAssumption DEF QuitLast
<1>6. QueueOutlivesUse
  BY <1>3, <1>4, <1>5 DEF QueueOutlivesUse
<1>7. instance = "freed" => /\ listener[Mcd] = "exited" /\ ~posted
                            /\ ~ending /\ ~frames /\ \A s \in Senders : sending[s] = None
  BY <1>1, <1>2, McdIsListening DEF OpenInv, CloseInv, PostInv, ListenerInv, Quiet
<1>8. stream = "freed" => ~ending /\ sending["decoder"] = None /\ status # "play"
  <2>1. CASE instance = "open"
    BY <1>1, <2>1 DEF GoneInv
  <2>2. CASE instance # "open"
    BY <2>2, NotOpenQuiet, SenderAssumption DEF Quiet
  <2> QED BY <2>1, <2>2
<1>9. listener[Mcd] = "callback" => instance = "open" /\ playsem # "none"
  BY CallbackOpen, OpenHasSem
<1> QED BY <1>6, <1>7, <1>8, <1>9 DEF NothingFreedInUse

(* MCI_CLOSE frees the queue, the stream and the instance when their       *)
(* readers, the decoder threads and the ports use them no more, whatever   *)
(* sends, plugins and callbacks are in progress (xine_event_dispose_queue, *)
(* xine_dispose, mciDriverEntry).                                          *)
THEOREM McdNothingFreedInUse == Spec => []NothingFreedInUse
  BY Invariant, NothingFreed, PTL

(* What a reader still has to see of a queue: all of it but the quit       *)
(* event, which is the last.                                               *)
LEMMA UnreadFacts ==
  ASSUME QInv, NEW q \in Queues
  PROVE  /\ Len(Unread(q)) \in Nat /\ Len(events[q]) \in Nat
         /\ Len(Unread(q)) <= Len(events[q])
         /\ \A i \in 1..Len(Unread(q)) : Unread(q)[i] = events[q][i] /\ events[q][i] # Quit
         /\ life[q] = "open" => Unread(q) = events[q]
<1>1. PICK ev \in Seq(Event) : ev = events[q]
  BY DEF QInv, QueuesTypeOK
<1>2. PICK u : u = Unread(q)
  OBVIOUS
<1>3. u = Keep(ev, Event \ {Quit}) /\ Len(ev) \in Nat
  BY <1>1, <1>2 DEF Unread
<1>4. QuitLast(q) /\ life[q] \in {"none", "open", "unlisted", "quitting", "joined", "freed"}
  BY DEF QInv, QueuesTypeOK
<1>5. \A i \in 1..Len(ev) : ev[i] \in Event
  BY ElementOfSeq
<1>9. SUFFICES /\ Len(u) \in Nat /\ Len(u) <= Len(ev)
               /\ \A i \in 1..Len(u) : u[i] = ev[i] /\ ev[i] # Quit
               /\ life[q] = "open" => u = ev
  BY <1>1, <1>2, <1>3
<1>6. CASE \A i \in 1..Len(ev) : ev[i] # Quit
  <2>1. \A i \in 1..Len(ev) : ev[i] \in Event \ {Quit}
    BY <1>5, <1>6
  <2>2. u = ev
    BY <1>3, <2>1, KeepAll
  <2>3. Len(u) = Len(ev) /\ Len(ev) <= Len(ev)
    BY <1>3, <2>2
  <2>4. \A i \in 1..Len(u) : u[i] = ev[i] /\ ev[i] # Quit
    BY <1>6, <2>2
  <2> QED BY <1>3, <2>2, <2>3, <2>4
<1>7. CASE /\ life[q] # "open" /\ ev # << >>
           /\ \A i \in 1..Len(ev) : ev[i] = Quit <=> i = Len(ev)
  <2>1. PICK n \in Nat : n = Len(ev) - 1 /\ n + 1 = Len(ev) /\ Len(ev) \in 1..Len(ev)
    BY <1>3, <1>7
  <2>2. PICK r : r = SubSeq(ev, 1, n)
    OBVIOUS
  <2>3. r \in Seq(Event) /\ Len(r) = n /\ \A i \in 1..n : r[i] = ev[i]
    BY <1>5, <2>1, <2>2
  <2>4. \A i \in 1..n : i \in 1..Len(ev) /\ i # Len(ev)
    BY <2>1
  <2>5. \A i \in 1..Len(r) : r[i] \in Event \ {Quit} /\ r[i] = ev[i] /\ ev[i] # Quit
    BY <1>5, <1>7, <2>3, <2>4
  <2>6. Without(ev, Len(ev), r)
    BY <2>1, <2>3 DEF Without
  <2>7. ev[Len(ev)] \notin Event \ {Quit}
    BY <1>7, <2>1
  <2>8. Keep(r, Event \ {Quit}) = Keep(ev, Event \ {Quit})
    BY <2>1, <2>3, <2>6, <2>7, KeepWithout
  <2>9. u = r
    BY <1>3, <2>3, <2>5, <2>8, KeepAll
  <2>10. Len(u) <= Len(ev)
    BY <2>1, <2>3, <2>9
  <2> QED BY <1>3, <1>7, <2>3, <2>5, <2>9, <2>10
<1>8. \/ \A i \in 1..Len(ev) : ev[i] # Quit
      \/ /\ life[q] # "open" /\ ev # << >>
         /\ \A i \in 1..Len(ev) : ev[i] = Quit <=> i = Len(ev)
  BY <1>1, <1>4 DEF QuitLast
<1> QED BY <1>6, <1>7, <1>8

LEMMA InOrder == IInv => EventsInOrder
<1> SUFFICES ASSUME IInv, NEW q \in Queues
             PROVE  /\ \A i \in 1..Len(Numbers(q)) : Numbers(q)[i] = last[q] + i
                    /\ q \in ToSet(list) =>
                         last[q] + Len(Numbers(q)) = IF Ahead(q) THEN sent - 1 ELSE sent
  BY DEF EventsInOrder
<1>1. QInv /\ OrderInv(q) /\ QueuesTypeOK
  BY DEF IInv, QInv
<1>2. Len(Numbers(q)) = Len(Unread(q))
  BY <1>1, UnreadFacts DEF Numbers
<1>3. ASSUME NEW i \in 1..Len(Numbers(q)) PROVE Numbers(q)[i] = last[q] + i
  <2>1. i \in 1..Len(Unread(q)) /\ i \in 1..Len(events[q])
    BY <1>1, <1>2, <1>3, UnreadFacts
  <2>2. Numbers(q)[i] = events[q][i].number /\ events[q][i] # Quit
    BY <1>1, <2>1, UnreadFacts DEF Numbers
  <2> QED BY <1>1, <2>1, <2>2 DEF OrderInv
<1>4. q \in ToSet(list) => last[q] + Len(Numbers(q)) = IF Ahead(q) THEN sent - 1 ELSE sent
  <2>1. q \in ToSet(list) => life[q] = "open"
    BY <1>1, ListFacts
  <2> QED BY <1>1, <1>2, <2>1, UnreadFacts DEF OrderInv
<1> QED BY <1>3, <1>4

(* A reader gets the events in the order they were sent, without a gap or  *)
(* a repetition, and an open queue misses at most the one event that a     *)
(* send in progress has not brought there yet (xine_event_send,            *)
(* xine_event_get).                                                        *)
THEOREM McdEventsInOrder == Spec => []EventsInOrder
  BY Invariant, InOrder, PTL
=============================================================================
