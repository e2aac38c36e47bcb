------------------------------ MODULE VideoOut ------------------------------
(***************************************************************************)
(* The frames of one video port, src/src/xine-engine/video_out.c: a fixed  *)
(* set of frames goes from the free queue to the decoder, to the display   *)
(* queue, to the driver and back, counted by lock_counter.  Actors: the    *)
(* video output loop, one decoder, the threads that flush the engine       *)
(* (xine_play, xine_stop and xine_close do, and a demux thread may), a     *)
(* frontend that takes snapshots, and whoever sets the clock's speed.      *)
(*                                                                         *)
(* A step is a critical section, or a part of one when it holds another    *)
(* mutex inside.  Whether a frame is due or too old is the clock's choice. *)
(* The driver is external: it holds the frames it shows and the one before *)
(* (video_out_xv.c, VO_NUM_RECENT_FRAMES) and gives back the older ones.   *)
(***************************************************************************)
EXTENDS Integers, Sequences, FiniteSets, SequencesExt

CONSTANTS
  Frames,     \* the frames of the port, allocated by vo_new_port
  NoFrame,    \* the NULL pointer
  MaxHeld,    \* frames the decoder uses at once: references and the new one
  Recent,     \* frames the driver keeps
  Users,      \* threads that flush the engine
  MaxDraws,   \* bound on the frames drawn
  MaxPlays,   \* bound on the seeks
  MaxOpens,   \* bound on vo_open while the port is in use
  Pausing,    \* the clock's speed may be set to XINE_SPEED_PAUSE
  Snapshots,  \* a frontend calls xine_get_current_frame
  Quits       \* the port is closed in the end

ASSUME FramesAssumption == NoFrame \notin Frames /\ IsFiniteSet(Frames)
ASSUME UsersAssumption == IsFiniteSet(Users)
ASSUME BoundAssumption ==
  /\ {MaxHeld, Recent, MaxDraws, MaxPlays, MaxOpens} \subseteq Nat
  /\ Recent >= 1
ASSUME ModeAssumption == {Pausing, Snapshots, Quits} \subseteq BOOLEAN

VARIABLES
  free,           \* free_img_buf_queue
  lockedForRead,  \* its locked_for_read
  display,        \* display_img_buf_queue
  lock,           \* lock_counter of each frame
  isFirst,        \* is_first of each frame
  held,           \* frames the decoder has got and not freed
  drawn,          \* those of them it has drawn
  hand,           \* the frame in vo_frame_draw
  pcD,            \* where the decoder is
  pcL,            \* where the video output loop is
  img,            \* the loop's local img
  backup,         \* img_backup
  last,           \* last_frame
  shown,          \* the frames the driver holds, newest first
  redraw,         \* redraw_needed
  discard,        \* discard_frames
  pcU,            \* where each flushing thread is
  firstFlag,      \* stream->first_frame_flag
  marked,         \* history: the frame marked as first since the last seek
  copying,        \* the frame xine_get_current_frame copies from
  paused,         \* clock->speed is XINE_SPEED_PAUSE
  running,        \* video_loop_running
  draws, plays, opens   \* only to bound the model

queues  == <<free, lockedForRead, display>>
frame   == <<lock, isFirst>>
decoder == <<held, drawn, hand, pcD, draws>>
loop    == <<pcL, img, backup, last, shown, redraw>>
flushes == <<discard, pcU, opens>>
player  == <<firstFlag, marked, plays>>
world   == <<copying, paused, running>>
vars    == <<queues, frame, decoder, loop, flushes, player, world>>

LoopPC == {"top", "expire", "next", "nextNow", "dup", "release", "hold", "show",
           "wake", "check", "sleep", "pauseTest", "steal", "grab", "redraw",
           "drain", "dropBackup", "dropLast", "exited"}
UserPC == {"idle", "raised", "poll", "polled", "flushed"}

TypeOK ==
  /\ free \in Seq(Frames) /\ display \in Seq(Frames) /\ shown \in Seq(Frames)
  /\ lockedForRead \in BOOLEAN /\ paused \in BOOLEAN /\ running \in BOOLEAN
  /\ lock \in [Frames -> Int] /\ isFirst \in [Frames -> BOOLEAN]
  /\ held \subseteq Frames /\ drawn \subseteq held
  /\ {hand, img, backup, last, marked, copying} \subseteq Frames \cup {NoFrame}
  /\ pcD \in {"idle", "get", "asleep", "draw"}
  /\ pcL \in LoopPC /\ pcU \in [Users -> UserPC]
  /\ redraw \in 0..4 /\ firstFlag \in 0..2 /\ discard \in Int
  /\ draws \in 0..MaxDraws /\ plays \in 0..MaxPlays /\ opens \in 0..MaxOpens

Init ==
  /\ free = SetToSeq(Frames)
  /\ lockedForRead = FALSE /\ display = << >> /\ shown = << >>
  /\ lock = [f \in Frames |-> 0] /\ isFirst = [f \in Frames |-> FALSE]
  /\ held = {} /\ drawn = {} /\ hand = NoFrame /\ pcD = "idle"
  /\ pcL = "top" /\ img = NoFrame /\ backup = NoFrame /\ last = NoFrame
  /\ redraw = 0 /\ discard = 0 /\ pcU = [u \in Users |-> "idle"]
  /\ firstFlag = 0 /\ marked = NoFrame /\ copying = NoFrame
  /\ paused = FALSE /\ running = TRUE
  /\ draws = 0 /\ plays = 0 /\ opens = 0

(***************************************************************************)
(* Queues and the lock counter.                                            *)
(***************************************************************************)

(* The loop keeps a queue's mutex over several steps.                      *)
FreeMutexTaken    == pcL \in {"steal", "grab", "redraw"}
DisplayMutexTaken == pcL \in {"expire", "dup", "drain"}

(* Mutant: nobody signals.                                                 *)
Signal_Never == UNCHANGED pcD

(* pthread_cond_signal(not_empty) of the free queue: the decoder sleeps on *)
(* it in vo_get_frame.                                                     *)
Signal == pcD' = IF pcD = "asleep" THEN "get" ELSE pcD

(* vo_frame_dec_lock: at zero the frame goes to the free queue.            *)
Unlock(f) ==
  /\ lock' = [lock EXCEPT ![f] = @ - 1]
  /\ IF lock[f] = 1
     THEN /\ ~FreeMutexTaken
          /\ free' = Append(free, f)
          /\ Signal
     ELSE UNCHANGED <<free, pcD>>

(* The same for a pointer that may be NULL.                                *)
UnlockAny(f) ==
  IF f = NoFrame THEN UNCHANGED <<lock, free, pcD>> ELSE Unlock(f)

(* duplicate_frame: takes a free frame, never waits.  is_first of the copy *)
(* stays what the frame's last use has left.                               *)
Duplicated == Head(free)
TakeDuplicate ==
  /\ free' = Tail(free)
  /\ lock' = [lock EXCEPT ![Head(free)] = 1]

(***************************************************************************)
(* The decoder: it gets frames, draws each at most once, keeps what it     *)
(* needs as references, frees them in any order.                           *)
(***************************************************************************)
CallGet ==
  /\ pcD = "idle" /\ running
  /\ Cardinality(held) < MaxHeld /\ draws < MaxDraws
  /\ pcD' = "get"
  /\ UNCHANGED <<queues, frame, held, drawn, hand, draws, loop, flushes, player,
                 world>>

(* vo_remove_from_img_buf_queue_int: nothing to get, or the paused loop    *)
(* keeps the free frames for itself.                                       *)
MayGet == free # << >> /\ ~lockedForRead

GetSleep ==
  /\ pcD = "get" /\ ~FreeMutexTaken /\ ~MayGet
  /\ pcD' = "asleep"
  /\ UNCHANGED <<queues, frame, held, drawn, hand, draws, loop, flushes, player,
                 world>>

GetFrame ==
  /\ pcD = "get" /\ ~FreeMutexTaken /\ MayGet
  /\ free' = Tail(free)
  /\ lock' = [lock EXCEPT ![Head(free)] = 1]
  /\ held' = held \cup {Head(free)}
  /\ pcD' = "idle"
  /\ UNCHANGED <<lockedForRead, display, isFirst, drawn, hand, draws, loop,
                 flushes, player, world>>

(* vo_frame_draw up to the queue: the first frame after a seek is marked.  *)
DrawMark(f) ==
  /\ pcD = "idle" /\ f \in held \ drawn /\ draws < MaxDraws
  /\ draws' = draws + 1
  /\ isFirst' = [isFirst EXCEPT ![f] = firstFlag = 2]
  /\ firstFlag' = IF firstFlag = 2 THEN 1 ELSE firstFlag
  /\ marked' = IF firstFlag = 2 THEN f ELSE marked
  /\ hand' = f /\ pcD' = "draw"
  /\ UNCHANGED <<queues, lock, held, drawn, loop, flushes, plays, world>>

(* Mutant: the queue takes over the decoder's reference, which the decoder *)
(* gives back all the same.                                                *)
DrawAppend_NoLock ==
  /\ pcD = "draw" /\ ~DisplayMutexTaken
  /\ display' = Append(display, hand)
  /\ drawn' = drawn \cup {hand}
  /\ hand' = NoFrame /\ pcD' = "idle"
  /\ UNCHANGED <<free, lockedForRead, frame, held, draws, loop, flushes, player,
                 world>>

(* The display queue takes a reference of its own.                         *)
DrawAppend ==
  /\ pcD = "draw" /\ ~DisplayMutexTaken
  /\ lock' = [lock EXCEPT ![hand] = @ + 1]
  /\ display' = Append(display, hand)
  /\ drawn' = drawn \cup {hand}
  /\ hand' = NoFrame /\ pcD' = "idle"
  /\ UNCHANGED <<free, lockedForRead, isFirst, held, draws, loop, flushes, player,
                 world>>

(* img->free: a frame that is not drawn is one the decoder found broken.   *)
DecoderFree(f) ==
  /\ pcD = "idle" /\ f \in held
  /\ Unlock(f)
  /\ held' = held \ {f} /\ drawn' = drawn \ {f}
  /\ UNCHANGED <<lockedForRead, display, isFirst, hand, draws, loop, flushes,
                 player, world>>

(***************************************************************************)
(* expire_frames: old frames leave the display queue, all of them while    *)
(* frames are discarded, but never past the first frame after a seek.      *)
(***************************************************************************)
(* Mutant: the thread ends only if there is something to throw away.       *)
Top_ShowAll ==
  /\ pcL = "top"
  /\ pcL' = IF running \/ display = << >> THEN "expire" ELSE "drain"
  /\ UNCHANGED <<queues, frame, decoder, img, backup, last, shown, redraw, flushes,
                 player, world>>

Top ==
  /\ pcL = "top"
  /\ pcL' = IF running THEN "expire" ELSE "drain"
  /\ UNCHANGED <<queues, frame, decoder, img, backup, last, shown, redraw, flushes,
                 player, world>>

AtFirst == display # << >> /\ isFirst[Head(display)]

(* A first frame that only the queue holds is shown at once.               *)
ExpireStop ==
  /\ pcL = "expire"
  /\ display = << >> \/ AtFirst \/ discard = 0
  /\ pcL' = IF AtFirst /\ lock[Head(display)] = 1 THEN "nextNow" ELSE "next"
  /\ UNCHANGED <<queues, frame, decoder, img, backup, last, shown, redraw, flushes,
                 player, world>>

(* Mutant: the first frame after a seek is discarded like any other.       *)
ExpireDiscard_First ==
  /\ pcL = "expire" /\ discard # 0 /\ display # << >>
  /\ display' = Tail(display)
  /\ IF backup = NoFrame
     THEN backup' = Head(display) /\ UNCHANGED <<free, lock, pcD>>
     ELSE Unlock(Head(display)) /\ UNCHANGED backup
  /\ UNCHANGED <<lockedForRead, isFirst, held, drawn, hand, draws, pcL, img, last,
                 shown, redraw, flushes, player, world>>

(* While discarding, the first one is kept as backup ...                   *)
ExpireDiscard ==
  /\ pcL = "expire" /\ discard # 0
  /\ display # << >> /\ ~AtFirst
  /\ display' = Tail(display)
  /\ IF backup = NoFrame
     THEN backup' = Head(display) /\ UNCHANGED <<free, lock, pcD>>
     ELSE Unlock(Head(display)) /\ UNCHANGED backup
  /\ UNCHANGED <<lockedForRead, isFirst, held, drawn, hand, draws, pcL, img, last,
                 shown, redraw, flushes, player, world>>

(* Mutant: the old backup is overwritten and not freed.                    *)
ExpireOld_Leak ==
  /\ pcL = "expire" /\ discard = 0
  /\ display # << >> /\ ~AtFirst
  /\ display' = Tail(display)
  /\ IF Len(display) = 1
     THEN backup' = Head(display) /\ redraw' = 4 /\ UNCHANGED <<free, lock, pcD>>
     ELSE Unlock(Head(display)) /\ UNCHANGED <<backup, redraw>>
  /\ UNCHANGED <<lockedForRead, isFirst, held, drawn, hand, draws, pcL, img, last,
                 shown, flushes, player, world>>

(* ... else the last one, to be drawn again in four rounds.                *)
ExpireOld ==
  /\ pcL = "expire" /\ discard = 0
  /\ display # << >> /\ ~AtFirst
  /\ display' = Tail(display)
  /\ IF Len(display) = 1
     THEN /\ UnlockAny(backup)
          /\ backup' = Head(display) /\ redraw' = 4
     ELSE Unlock(Head(display)) /\ UNCHANGED <<backup, redraw>>
  /\ UNCHANGED <<lockedForRead, isFirst, held, drawn, hand, draws, pcL, img, last,
                 shown, flushes, player, world>>

(***************************************************************************)
(* get_next_frame.                                                         *)
(***************************************************************************)

(* No frame queued: the backup is copied as a still frame.                 *)
NextStill ==
  /\ pcL = "next" /\ display = << >>
  /\ backup # NoFrame /\ redraw = 1
  /\ IF free = << >>
     THEN pcL' = "check" /\ UNCHANGED <<free, lock, img>>
     ELSE TakeDuplicate /\ img' = Duplicated /\ pcL' = "release"
  /\ UNCHANGED <<lockedForRead, display, isFirst, decoder, backup, last, shown,
                 redraw, flushes, player, world>>

(* Mutant: redraw_needed counts below zero.                                *)
NextNone_Below ==
  /\ pcL = "next" /\ display = << >>
  /\ backup = NoFrame \/ redraw # 1
  /\ redraw' = redraw - 1
  /\ pcL' = "check"
  /\ UNCHANGED <<queues, frame, decoder, img, backup, last, shown, flushes, player,
                 world>>

NextNone ==
  /\ pcL = "next" /\ display = << >>
  /\ backup = NoFrame \/ redraw # 1
  /\ redraw' = IF redraw = 0 THEN 0 ELSE redraw - 1
  /\ pcL' = "check"
  /\ UNCHANGED <<queues, frame, decoder, img, backup, last, shown, flushes, player,
                 world>>

(* The first frame queued is not due.                                      *)
NextEarly ==
  /\ pcL = "next" /\ display # << >>
  /\ pcL' = "check"
  /\ UNCHANGED <<queues, frame, decoder, img, backup, last, shown, redraw, flushes,
                 player, world>>

(* It is due, and replaces the backup.                                     *)
NextDue ==
  /\ pcL \in {"next", "nextNow"} /\ display # << >>
  /\ UnlockAny(backup)
  /\ backup' = NoFrame
  /\ pcL' = "dup"
  /\ UNCHANGED <<lockedForRead, display, isFirst, held, drawn, hand, draws, img,
                 last, shown, redraw, flushes, player, world>>

(* A copy of the last frame queued is kept, if the stream has stills or    *)
(* its fifo is nearly empty, and if there is a frame to copy to.           *)
NextTake ==
  /\ pcL = "dup"
  /\ \/ /\ Len(display) = 1 /\ free # << >>
        /\ TakeDuplicate /\ backup' = Duplicated
     \/ UNCHANGED <<free, lock, backup>>
  /\ display' = Tail(display)
  /\ img' = Head(display)
  /\ pcL' = "release"
  /\ UNCHANGED <<lockedForRead, isFirst, decoder, last, shown, redraw, flushes,
                 player, world>>

(***************************************************************************)
(* overlay_and_display_frame: last_frame changes from the frame shown      *)
(* before to this one, the driver gets it, xine_play is woken.             *)
(***************************************************************************)
Release ==
  /\ pcL = "release"
  /\ UnlockAny(last)
  /\ pcL' = "hold"
  /\ UNCHANGED <<lockedForRead, display, isFirst, held, drawn, hand, draws, img,
                 backup, last, shown, redraw, flushes, player, world>>

(* Mutant: last_frame has no reference of its own.                         *)
Hold_NoLock ==
  /\ pcL = "hold"
  /\ last' = img
  /\ pcL' = "show"
  /\ UNCHANGED <<queues, frame, decoder, img, backup, shown, redraw, flushes, player,
                 world>>

Hold ==
  /\ pcL = "hold"
  /\ lock' = [lock EXCEPT ![img] = @ + 1]
  /\ last' = img
  /\ pcL' = "show"
  /\ UNCHANGED <<queues, isFirst, decoder, img, backup, shown, redraw, flushes,
                 player, world>>

(* display_frame: the driver frees the oldest frame it holds.              *)
Show ==
  /\ pcL = "show"
  /\ IF Len(shown) = Recent
     THEN /\ Unlock(Last(shown))
          /\ shown' = <<img>> \o Front(shown)
     ELSE /\ shown' = <<img>> \o shown
          /\ UNCHANGED <<free, lock, pcD>>
  /\ pcL' = "wake"
  /\ UNCHANGED <<lockedForRead, display, isFirst, held, drawn, hand, draws, img,
                 backup, last, redraw, flushes, player, world>>

(* Any frame with is_first set wakes xine_play.                            *)
Wake ==
  /\ pcL = "wake"
  /\ firstFlag' = IF isFirst[last] THEN 0 ELSE firstFlag
  /\ redraw' = 0
  /\ img' = NoFrame
  /\ pcL' = IF lockedForRead THEN "pauseTest" ELSE "sleep"
  /\ UNCHANGED <<queues, frame, decoder, backup, last, shown, flushes, marked, plays,
                 world>>

(* check_redraw_needed: the overlays or the window may have changed.       *)
Redraws(r) == r \in {redraw, 1}

Check ==
  /\ pcL = "check"
  /\ Redraws(redraw')
  /\ pcL' = "sleep"
  /\ UNCHANGED <<queues, frame, decoder, img, backup, last, shown, flushes, player,
                 world>>

(* Then the loop asks the decoder for frames if none came for a while (an  *)
(* insert into its fifo, see FifoBuffer) and sleeps until the next frame.  *)
Sleep ==
  /\ pcL = "sleep"
  /\ IF paused THEN pcL' = "pauseTest" /\ lockedForRead' = TRUE
               ELSE pcL' = "top" /\ UNCHANGED lockedForRead
  /\ UNCHANGED <<free, display, frame, decoder, img, backup, last, shown, redraw,
                 flushes, player, world>>

(***************************************************************************)
(* paused_loop: the decoder gets no frames, one frame is shown again and   *)
(* again.                                                                  *)
(***************************************************************************)
(* Mutant: the end of a pause wakes nobody.                                *)
PauseTest_NoSignal ==
  /\ pcL = "pauseTest"
  /\ pcL' = IF paused THEN "steal" ELSE "sleep"
  /\ lockedForRead' = (lockedForRead /\ paused)
  /\ UNCHANGED <<free, display, frame, decoder, img, backup, last, shown, redraw,
                 flushes, player, world>>

PauseTest ==
  /\ pcL = "pauseTest"
  /\ IF paused
     THEN /\ pcL' = "steal"
          /\ UNCHANGED <<lockedForRead, pcD>>
     ELSE /\ pcL' = "sleep"
          /\ lockedForRead' = FALSE
          /\ IF free # << >> THEN Signal ELSE UNCHANGED pcD
  /\ UNCHANGED <<free, display, frame, held, drawn, hand, draws, img, backup, last,
                 shown, redraw, flushes, player, world>>

(* Without a free frame one is taken from the display queue, whatever its  *)
(* lock_counter.                                                           *)
Steal ==
  /\ pcL = "steal"
  /\ IF display # << >> /\ free = << >>
     THEN free' = <<Head(display)>> /\ display' = Tail(display)
     ELSE UNCHANGED <<free, display>>
  /\ pcL' = "grab"
  /\ UNCHANGED <<lockedForRead, frame, decoder, img, backup, last, shown, redraw,
                 flushes, player, world>>

(* Without a backup the next frame of the display queue becomes it.        *)
Grab ==
  /\ pcL = "grab"
  /\ IF display # << >> /\ backup = NoFrame
     THEN backup' = Head(display) /\ display' = Tail(display) /\ redraw' = 1
     ELSE UNCHANGED <<backup, display, redraw>>
  /\ pcL' = "redraw"
  /\ UNCHANGED <<free, lockedForRead, frame, decoder, img, last, shown, flushes,
                 player, world>>

PauseShow ==
  /\ pcL = "redraw"
  /\ Redraws(redraw')
  /\ IF redraw' # 0 /\ backup # NoFrame /\ free # << >>
     THEN TakeDuplicate /\ img' = Duplicated /\ pcL' = "release"
     ELSE pcL' = "pauseTest" /\ UNCHANGED <<free, lock, img>>
  /\ UNCHANGED <<lockedForRead, display, isFirst, decoder, backup, last, shown,
                 flushes, player, world>>

(***************************************************************************)
(* The end of the thread: what the loop holds is freed.                    *)
(***************************************************************************)
Drain ==
  /\ pcL = "drain"
  /\ IF display = << >>
     THEN pcL' = "dropBackup" /\ UNCHANGED <<free, display, lock, pcD>>
     ELSE /\ Unlock(Head(display))
          /\ display' = Tail(display)
          /\ UNCHANGED pcL
  /\ UNCHANGED <<lockedForRead, isFirst, held, drawn, hand, draws, img, backup, last,
                 shown, redraw, flushes, player, world>>

DropBackup ==
  /\ pcL = "dropBackup"
  /\ UnlockAny(backup) /\ backup' = NoFrame
  /\ pcL' = "dropLast"
  /\ UNCHANGED <<lockedForRead, display, isFirst, held, drawn, hand, draws, img, last,
                 shown, redraw, flushes, player, world>>

DropLast ==
  /\ pcL = "dropLast"
  /\ UnlockAny(last) /\ last' = NoFrame
  /\ pcL' = "exited"
  /\ UNCHANGED <<lockedForRead, display, isFirst, held, drawn, hand, draws, img,
                 backup, shown, redraw, flushes, player, world>>

LoopNext ==
  \/ Top \/ ExpireStop \/ ExpireDiscard \/ ExpireOld
  \/ NextStill \/ NextNone \/ NextEarly \/ NextDue \/ NextTake
  \/ Release \/ Hold \/ Show \/ Wake \/ Check \/ Sleep
  \/ PauseTest \/ Steal \/ Grab \/ PauseShow
  \/ Drain \/ DropBackup \/ DropLast

(***************************************************************************)
(* Flushing: xine_demux_flush_engine discards frames around the flush of   *)
(* the port, which discards for itself while it waits.                     *)
(***************************************************************************)
Raise(u) ==
  /\ pcU[u] = "idle" /\ running /\ ~DisplayMutexTaken
  /\ discard' = discard + 1
  /\ pcU' = [pcU EXCEPT ![u] = "raised"]
  /\ UNCHANGED <<queues, frame, decoder, loop, opens, player, world>>

FlushBegin(u) ==
  /\ pcU[u] = "raised" /\ ~DisplayMutexTaken
  /\ discard' = discard + 1
  /\ pcU' = [pcU EXCEPT ![u] = "poll"]
  /\ UNCHANGED <<queues, frame, decoder, loop, opens, player, world>>

(* "do not try this in paused mode"                                        *)
FlushPoll(u) ==
  /\ pcU[u] = "poll"
  /\ paused \/ (~DisplayMutexTaken /\ display = << >>)
  /\ pcU' = [pcU EXCEPT ![u] = "polled"]
  /\ UNCHANGED <<queues, frame, decoder, loop, discard, opens, player, world>>

(* Mutant: discard_frames stays raised after a flush.                      *)
FlushEnd_Keep(u) ==
  /\ pcU[u] = "polled" /\ ~DisplayMutexTaken
  /\ pcU' = [pcU EXCEPT ![u] = "flushed"]
  /\ UNCHANGED <<queues, frame, decoder, loop, discard, opens, player, world>>

FlushEnd(u) ==
  /\ pcU[u] = "polled" /\ ~DisplayMutexTaken
  /\ discard' = discard - 1
  /\ pcU' = [pcU EXCEPT ![u] = "flushed"]
  /\ UNCHANGED <<queues, frame, decoder, loop, opens, player, world>>

Lower(u) ==
  /\ pcU[u] = "flushed" /\ ~DisplayMutexTaken
  /\ discard' = discard - 1
  /\ pcU' = [pcU EXCEPT ![u] = "idle"]
  /\ UNCHANGED <<queues, frame, decoder, loop, opens, player, world>>

(* vo_open, called by a decoder plugin for the first data of a stream.     *)
Open ==
  /\ running /\ opens < MaxOpens
  /\ opens' = opens + 1
  /\ discard' = 0
  /\ UNCHANGED <<queues, frame, decoder, loop, pcU, player, world>>

(***************************************************************************)
(* The frontend: xine_play waits for a frame, xine_get_current_frame       *)
(* copies one without a lock, the speed changes, vo_exit ends it all.      *)
(***************************************************************************)

(* The xine_play before has had its frame: the two seconds after which it  *)
(* gives up are not modelled.                                              *)
AwaitFirst ==
  /\ running /\ firstFlag = 0 /\ plays < MaxPlays
  /\ plays' = plays + 1
  /\ firstFlag' = 2 /\ marked' = NoFrame
  /\ UNCHANGED <<queues, frame, decoder, loop, flushes, world>>

CopyBegin ==
  /\ Snapshots /\ running
  /\ copying = NoFrame /\ last # NoFrame
  /\ copying' = last
  /\ UNCHANGED <<queues, frame, decoder, loop, flushes, player, paused, running>>

CopyEnd ==
  /\ copying # NoFrame
  /\ copying' = NoFrame
  /\ UNCHANGED <<queues, frame, decoder, loop, flushes, player, paused, running>>

SetSpeed ==
  /\ Pausing
  /\ paused' = ~paused
  /\ UNCHANGED <<queues, frame, decoder, loop, flushes, player, copying, running>>

(* The streams of the port are disposed of by then.                        *)
Exit ==
  /\ Quits /\ running
  /\ held = {} /\ pcD = "idle" /\ copying = NoFrame
  /\ \A u \in Users : pcU[u] = "idle"
  /\ running' = FALSE
  /\ UNCHANGED <<queues, frame, decoder, loop, flushes, player, copying, paused>>

DecoderNext ==
  \/ CallGet \/ GetSleep \/ GetFrame \/ DrawAppend
  \/ \E f \in Frames : DrawMark(f) \/ DecoderFree(f)

FlushNext(u) ==
  Raise(u) \/ FlushBegin(u) \/ FlushPoll(u) \/ FlushEnd(u) \/ Lower(u)

FrontNext ==
  Open \/ AwaitFirst \/ CopyBegin \/ CopyEnd \/ SetSpeed \/ Exit

Next == DecoderNext \/ LoopNext \/ (\E u \in Users : FlushNext(u)) \/ FrontNext

Spec == Init /\ [][Next]_vars

(* Every thread runs on.  A frame that stays queued becomes due; a flush   *)
(* that samples the queue now and then sees it empty if it stays empty.    *)
Fairness ==
  /\ WF_vars(GetSleep) /\ SF_vars(GetFrame) /\ WF_vars(DrawAppend)
  /\ WF_vars(LoopNext) /\ SF_vars(NextDue)
  /\ \A u \in Users :
       SF_vars(FlushBegin(u) \/ FlushPoll(u) \/ FlushEnd(u) \/ Lower(u))

FairSpec == Spec /\ Fairness

(***************************************************************************)
(* Safety.                                                                 *)
(***************************************************************************)

(* The references to f: the decoder's, the display queue's (which img takes*)
(* over), the backup's, last_frame's until it is released, the driver's.   *)
One(b) == IF b THEN 1 ELSE 0
ImgHolds == pcL \in {"release", "hold", "show"}
References(f) ==
  One(f \in held) + One(f \in Range(display)) + One(f = backup)
    + One(f = last /\ pcL # "hold") + One(f = img /\ ImgHolds)
    + One(f \in Range(shown))

(* A frame is queued once: "img already enqueue? (serious leak)", the      *)
(* assertion of vo_append_to_img_buf_queue_int.                            *)
QueuedOnce == IsInjective(free \o display)

(* lock_counter counts the references; a frame is free when there is none. *)
(* So no frame is lost and none is used by two.                            *)
RefCount ==
  \A f \in Frames :
    IF f \in Range(free) THEN References(f) = 0
    ELSE References(f) = lock[f] /\ lock[f] > 0

(* vo_frame_inc_lock and vo_frame_dec_lock account for every frame: it is  *)
(* queued once, and free exactly when nothing refers to it.                *)
FramesAccounted == QueuedOnce /\ RefCount

(* The decoder writes to no frame that is queued, shown, or kept for       *)
(* redrawing.                                                              *)
ExclusiveWrite ==
  \A f \in held \ drawn : References(f) = 1

(* The decoder does not sleep for a frame while there is one for it.       *)
NoLostWakeup == pcD = "asleep" => ~MayGet

(* "recursive discard frames setting": frames are discarded while someone  *)
(* has asked for it, and only then.                                        *)
DiscardBalanced ==
  discard = Cardinality({u \in Users : pcU[u] # "idle"})
              + Cardinality({u \in Users : pcU[u] \in {"poll", "polled"}})

(* "hold current frame for snapshot feature": the frame being copied is    *)
(* not given away.                                                         *)
SnapshotHeld == copying # NoFrame => lock[copying] > 0 /\ copying \notin held \ drawn

(***************************************************************************)
(* Action properties.                                                      *)
(***************************************************************************)

(* The first frame after a seek is shown, never thrown away, as long as    *)
(* the thread runs.                                                        *)
FirstIsShown ==
  [][\A f \in Range(display) :
       isFirst[f] /\ running /\ f \notin Range(display') => img' = f]_vars

(* "Wait until the first frame produced is displayed": xine_play is woken  *)
(* by the frame that was marked as first since.                            *)
PlayWaitsForFirst == [][firstFlag' = 0 /\ firstFlag # 0 => last = marked]_vars

(***************************************************************************)
(* Liveness.                                                               *)
(***************************************************************************)

(* The decoder gets its frame, unless playback is paused.                  *)
DecoderServed == pcD \in {"get", "asleep"} ~> (pcD = "idle" \/ paused)

(* A flush returns although first frames are not discarded.                *)
FlushReturns == \A u \in Users : pcU[u] = "raised" ~> pcU[u] = "idle"

(* The thread ends once it is told to.                                     *)
ThreadEnds == ~running ~> (pcL = "exited" \/ paused)

(* So the port can be flushed and closed (vo_flush, vo_exit).              *)
FlushAndExitReturn == FlushReturns /\ ThreadEnds
=============================================================================
