----------------------------- MODULE NetBufCtrl -----------------------------
(***************************************************************************)
(* The buffering of network streams (net_buf_ctrl.c): callbacks of the     *)
(* fifos pause the clock until enough is queued, and resume it.            *)
(*                                                                         *)
(* The put and the get callback run under the mutex of their fifo and take *)
(* the controller's; the alloc callback runs under the mutex of the pool   *)
(* and takes none, so that its steps mix with those of a get callback:     *)
(* both pause or resume the output by three calls, each a step.            *)
(* How long a fifo is, which the code estimates from bitrates or pts, is   *)
(* left open: a put may find the high water mark reached or not.           *)
(***************************************************************************)
EXTENDS Integers, Sequences

CONSTANTS
  Fifos,     \* the video and the audio fifo of the stream
  Audio,     \* the audio fifo, as a set
  Pool,      \* elements in the pool of each
  FullMark,  \* FULL_FIFO_MARK
  Slack,     \* what a decoder can still decode while the output pauses
  Nobody     \* no holder of a lock, no element

ASSUME FifoAssumption == \A f, g, h \in Fifos : f = g \/ g = h \/ f = h
ASSUME AudioAssumption == Audio \subseteq Fifos
ASSUME NobodyAssumption == Nobody \notin {"data", "end"}
ASSUME PoolAssumption == Pool \in Nat /\ Pool >= 3
ASSUME MarkAssumption == FullMark \in Nat /\ FullMark >= 1
ASSUME SlackAssumption == Slack \in Nat

VARIABLES
  open,       \* the callbacks are registered
  enabled, buffering,
  paused,     \* which of the three calls of Calls asked for a pause last
  has,        \* the fifos for which HAS_VIDEO or HAS_AUDIO is set
  cached,     \* video_fifo_free and audio_fifo_free of the controller
  free,       \* buffer_pool_num_free of each fifo
  queue,      \* the fifos
  held,       \* the element that each decoder handles
  taken,      \* elements each decoder took since its output paused
  pcG,        \* the get callback: the call of Calls it is about to make
  pcD,        \* the demuxer
  to, kind    \* the fifo and the element it puts

ctrl == <<open, enabled, cached, has>>
pool == <<free, queue, held>>
dem  == <<pcD, to, kind>>
vars == <<ctrl, buffering, paused, taken, pool, pcG, dem>>

Kinds == {"data", "end"}

(* nbc_set_speed_pause and nbc_set_speed_normal: the clock's speed, its    *)
(* CLOCK_SCR_ADJUSTABLE, and AO_PROP_PAUSED of the audio port.             *)
Calls == {"speed", "option", "port"}
Following(c) == IF c = "speed" THEN "option" ELSE "port"

Shape ==
  /\ open \in BOOLEAN /\ enabled \in BOOLEAN /\ buffering \in BOOLEAN
  /\ paused \subseteq Calls
  /\ has \subseteq Fifos
  /\ cached \in [Fifos -> 0..Pool] /\ free \in [Fifos -> 0..Pool]
  /\ queue \in [Fifos -> Seq(Kinds)] /\ held \in [Fifos -> Kinds \cup {Nobody}]
  /\ taken \in [Fifos -> 0..Slack]
  /\ pcG \in [Fifos -> Calls \cup {"idle"}]
  /\ pcD \in Calls \cup {"idle", "alloc", "clear", "wait", "put"}
  /\ to \in Fifos /\ kind \in Kinds

(* An element is in its pool, in its fifo, with the decoder or with the    *)
(* demuxer.                                                                *)
Out(f) == (IF held[f] = Nobody THEN 0 ELSE 1)
          + (IF pcD = "put" /\ to = f THEN 1 ELSE 0)
Counted == \A f \in Fifos : free[f] + Len(queue[f]) + Out(f) = Pool

TypeOK == Shape /\ Counted

(* nbc_init                                                                *)
Init ==
  /\ open = TRUE /\ enabled = FALSE /\ buffering = FALSE /\ paused = {}
  /\ has = {}
  /\ cached = [f \in Fifos |-> 0]
  /\ free = [f \in Fifos |-> Pool] /\ queue = [f \in Fifos |-> << >>]
  /\ held = [f \in Fifos |-> Nobody]
  /\ taken = [f \in Fifos |-> 0]
  /\ pcG = [f \in Fifos |-> "idle"]
  /\ pcD = "idle" /\ to \in Fifos /\ kind = "data"

(* A decoder stalls when the clock stands, the audio decoder also when the *)
(* audio port pauses.                                                      *)
Stalls(f, p) == "speed" \in p \/ (f \in Audio /\ "port" \in p)
SetPaused(p) ==
  /\ paused' = p
  /\ taken' = [f \in Fifos |-> IF Stalls(f, p) THEN taken[f] ELSE 0]

(* The three calls, by a callback that holds this->mutex while no other    *)
(* callback can be making them: nobody sees one without the others.        *)
Pause  == SetPaused(Calls)
Normal == SetPaused({})

(* this->mutex, and the mutex of the pool while the alloc callback runs    *)
Locked == \E f \in Fifos : pcG[f] # "idle"
PoolLocked(f) == pcD \in Calls \cup {"alloc", "clear"} /\ to = f

-----------------------------------------------------------------------------
(* The demuxer sends data to either fifo, or an END to all of them, and    *)
(* may have learned what the stream has.                                   *)
Begin ==
  /\ pcD = "idle"
  /\ to' \in Fifos /\ kind' \in Kinds
  /\ IF has = {} THEN has' \in SUBSET Fifos ELSE UNCHANGED has
  /\ pcD' = "alloc"
  /\ UNCHANGED <<open, enabled, cached, buffering, paused, taken, pool, pcG>>

(* Mutant: off by one, the callback finds a fifo full that has one element *)
(* less than buffer_pool_alloc needs.                                      *)
Full_Empty(f) == free[f] < 1

(* "restart playing if one fifo is full (to avoid deadlock)"               *)
Full(f) == free[f] <= 1

(* nbc_alloc_cb, called by buffer_pool_alloc before it waits               *)
AllocTest ==
  /\ pcD = "alloc"
  /\ pcD' = IF open /\ buffering /\ Full(to) THEN "clear" ELSE "wait"
  /\ UNCHANGED <<ctrl, buffering, paused, taken, pool, pcG, to, kind>>

AllocClear ==
  /\ pcD = "clear"
  /\ buffering' = FALSE
  /\ pcD' = "speed"
  /\ UNCHANGED <<ctrl, paused, taken, pool, pcG, to, kind>>

(* nbc_set_speed_normal, call by call                                      *)
AllocNormal ==
  /\ pcD \in Calls
  /\ SetPaused(paused \ {pcD})
  /\ pcD' = IF pcD = "port" THEN "wait" ELSE Following(pcD)
  /\ UNCHANGED <<ctrl, buffering, pool, pcG, to, kind>>

(* Mutant: buffer_pool_num_free is not counted down.                       *)
AllocTake_Uncounted ==
  /\ pcD = "wait" /\ free[to] >= 2
  /\ pcD' = "put"
  /\ UNCHANGED <<ctrl, buffering, paused, taken, pool, pcG, to, kind>>

(* buffer_pool_alloc leaves one element in the pool.                       *)
AllocTake ==
  /\ pcD = "wait" /\ free[to] >= 2
  /\ free' = [free EXCEPT ![to] = @ - 1]
  /\ pcD' = "put"
  /\ UNCHANGED <<ctrl, buffering, paused, taken, queue, held, pcG, to, kind>>

(* nbc_put_cb: the first data of a stream enables the controller and       *)
(* starts buffering; data may end it, once it is known what the stream     *)
(* has; an END disables the controller and ends the buffering.             *)
PutData ==
  /\ enabled' = TRUE
  /\ \/ /\ has # {} /\ buffering' = FALSE
        /\ IF buffering \/ ~enabled THEN Normal ELSE UNCHANGED <<paused, taken>>
     \/ /\ buffering' = (buffering \/ ~enabled)
        /\ IF enabled THEN UNCHANGED <<paused, taken>> ELSE Pause

PutEnd ==
  /\ enabled' = FALSE /\ buffering' = FALSE
  /\ IF buffering THEN Normal ELSE UNCHANGED <<paused, taken>>

(* fifo_buffer_put                                                         *)
Put ==
  /\ pcD = "put" /\ ~Locked
  /\ IF ~open THEN UNCHANGED <<enabled, buffering, cached, paused, taken>>
              ELSE /\ IF kind = "data" THEN PutData ELSE PutEnd
                   /\ cached' = [cached EXCEPT ![to] = free[to]]
  /\ queue' = [queue EXCEPT ![to] = Append(@, kind)]
  /\ \/ pcD' = "idle" /\ kind = "data" /\ UNCHANGED to
     \/ kind = "end" /\ \E f \in Fifos \ {to} : to' = f /\ pcD' = "alloc"
     \/ kind = "end" /\ pcD' = "idle" /\ UNCHANGED to
  /\ UNCHANGED <<open, has, free, held, pcG, kind>>

-----------------------------------------------------------------------------
(* Mutant: the pause does not care whether the other fifo is full.         *)
MayPause_Always(f) == TRUE

(* "Don't pause if the other fifo is full because the next put() will      *)
(* restart the engine": by the numbers kept from earlier callbacks, and    *)
(* never if there is no other fifo, whose number stays 0.                  *)
MayPause(f) == \E g \in Fifos \ {f} : cached[g] > FullMark

(* fifo_buffer_get and nbc_get_cb; the output is paused in later steps.    *)
Get(f) ==
  /\ held[f] = Nobody /\ queue[f] # << >> /\ ~Locked
  /\ Stalls(f, paused) => taken[f] < Slack
  /\ taken' = IF Stalls(f, paused) THEN [taken EXCEPT ![f] = @ + 1] ELSE taken
  /\ held' = [held EXCEPT ![f] = Head(queue[f])]
  /\ queue' = [queue EXCEPT ![f] = Tail(@)]
  /\ cached' = IF open THEN [cached EXCEPT ![f] = free[f]] ELSE cached
  /\ IF open /\ enabled /\ Head(queue[f]) = "data" /\
        (buffering \/ (queue'[f] = << >> /\ f \in has /\ MayPause(f)))
       THEN buffering' = TRUE /\ pcG' = [pcG EXCEPT ![f] = "speed"]
       ELSE UNCHANGED <<buffering, pcG>>
  /\ UNCHANGED <<open, enabled, has, paused, free, dem>>

(* nbc_set_speed_pause, call by call                                       *)
GetPauses(f) ==
  /\ pcG[f] \in Calls
  /\ SetPaused(paused \cup {pcG[f]})
  /\ pcG' = [pcG EXCEPT ![f] = IF @ = "port" THEN "idle" ELSE Following(@)]
  /\ UNCHANGED <<ctrl, buffering, pool, dem>>

(* free_buffer: buffer_pool_free, without a callback                       *)
Release(f) ==
  /\ held[f] # Nobody /\ pcG[f] = "idle" /\ ~PoolLocked(f)
  /\ held' = [held EXCEPT ![f] = Nobody]
  /\ free' = [free EXCEPT ![f] = @ + 1]
  /\ UNCHANGED <<ctrl, buffering, paused, taken, queue, pcG, dem>>

(* nbc_close, when the input is closed and the demuxer does not run (the   *)
(* clock is adjustable again in any case), and nbc_init of the next input. *)
Close ==
  /\ open /\ pcD = "idle" /\ ~Locked
  /\ open' = FALSE /\ buffering' = FALSE
  /\ IF buffering THEN Normal ELSE SetPaused(paused \ {"option"})
  /\ UNCHANGED <<enabled, cached, has, pool, pcG, dem>>

Reopen ==
  /\ ~open /\ pcD = "idle" /\ ~Locked
  /\ open' = TRUE /\ enabled' = FALSE
  /\ cached' = [f \in Fifos |-> 0] /\ has' = {}
  /\ UNCHANGED <<buffering, paused, taken, pool, pcG, dem>>

Demuxer == AllocTest \/ AllocClear \/ AllocNormal \/ AllocTake \/ Put

Next ==
  \/ Begin \/ Demuxer
  \/ \E f \in Fifos : Get(f) \/ GetPauses(f) \/ Release(f)
  \/ Close \/ Reopen

(* The source goes on sending, the decoders run unless they stall.         *)
Fairness ==
  /\ WF_vars(Begin) /\ WF_vars(Demuxer)
  /\ \A f \in Fifos : WF_vars(GetPauses(f)) /\ WF_vars(~Stalls(f, paused) /\ Get(f))
                      /\ WF_vars(~Stalls(f, paused) /\ Release(f))

Spec == Init /\ [][Next]_vars /\ Fairness

-----------------------------------------------------------------------------
(* "be sure that the next buffer_pool_alloc() call will not deadlock": the *)
(* demuxer never waits for an element while the stream is buffering, as    *)
(* nobody would end that.                                                  *)
NoWaitWhileBuffering == pcD = "wait" /\ free[to] < 2 => ~buffering

(* Buffering ends, whatever the lengths of the fifos are said to be, since *)
(* one of them is full at last.                                            *)
BufferingEnds == buffering ~> ~buffering

(* "Restart playing if one fifo is full": when no callback is on its way,  *)
(* the clock and the port pause only while the stream is buffering, since  *)
(* otherwise nobody resumes them.  The alloc callback, which takes no      *)
(* lock, can end the buffering and resume the clock or the port before a   *)
(* get callback that has begun pauses it.                                  *)
PausedMeansBuffering ==
  paused # {} /\ ~Locked => buffering \/ pcD \in Calls
=============================================================================
