------------------------------ MODULE AudioOut ------------------------------
(***************************************************************************)
(* An audio port (audio_out.c): the output loop ao_loop, its two buffer    *)
(* fifos, the audio decoder of the stream that uses the port, the threads  *)
(* that discard and flush (xine_play, xine_stop, the demux thread), the    *)
(* user who pauses, and ao_exit.                                           *)
(*                                                                         *)
(* A step is what a thread does with a mutex held, up to a wait that gives *)
(* it up, or one access to a field that others use without a lock.         *)
(***************************************************************************)
EXTENDS Integers, Sequences, FiniteSets, SequencesExt

CONSTANTS
  Buffers,  \* the NUM_AUDIO_BUFFERS buffers of the port
  Users,    \* threads that discard and flush
  Formats,  \* bits, rate and mode of samples
  MaxFlush, \* bound on flush_audio_driver, which flushes of a paused port raise
  Nil       \* no buffer, no thread, no value, no samples

ASSUME BuffersAssumption == IsFiniteSet(Buffers)
ASSUME NilAssumption == Nil \notin Buffers /\ Nil \notin Users /\ Nil \notin Formats
ASSUME FlushAssumption == MaxFlush \in Nat \ {0}
ASSUME DecoderAssumption == "decoder" \notin Users /\ "exit" \notin Users

VARIABLES
  free, out,    \* free_fifo and out_fifo
  sleepers,     \* threads in pthread_cond_wait of free_fifo->not_empty
  loopAsleep,   \* ao_loop is in that of out_fifo->not_empty
  waiters,      \* threads in that of out_fifo->empty
  format,       \* the format of a buffer's samples, Nil if num_frames is 0
  held,         \* the buffer that a thread got from free_fifo
  running,      \* audio_loop_running
  paused,       \* audio_paused
  discard,      \* discard_buffers
  tmp,          \* what a thread read of it to count it up or down
  flushDriver,  \* flush_audio_driver
  flushLock,    \* the user that holds flush_audio_driver_lock
  driver,       \* driver_open
  input,        \* the format that the port was last set to
  opened,       \* the decoder has opened the port
  want,         \* the format it opens it with, from then on its stream's
  pcL, inBuf,   \* ao_loop and its in_buf
  pcD,          \* the decoder
  pcU, outer,   \* the users, and those that flush inside a discard
  demuxLock,    \* the user that holds demux_lock to flush
  stale,        \* ghost: buffers queued when ao_flush began, not yet freed
  pcX           \* ao_exit

fifos  == <<free, out, sleepers, loopAsleep, waiters, format>>
count  == <<discard, tmp>>
flush  == <<flushDriver, flushLock>>
port   == <<running, paused, driver, input>>
loop   == <<pcL, inBuf>>
dec    == <<pcD, opened, want>>
users  == <<pcU, outer, demuxLock>>
vars   == <<fifos, held, count, flush, port, loop, dec, users, stale, pcX>>

Threads == Users \cup {"decoder", "exit"}

(* discard_buffers is counted up by set_property(1) of an API call, by     *)
(* that of xine_demux_flush_engine and by ao_flush, and down in reverse.   *)
Change == [raiseCall |-> 1, raiseFlush |-> 1, raiseAo |-> 1,
           lowerAo |-> -1, lowerFlush |-> -1, lowerCall |-> -1]
InFlush == {"raiseAo", "reach", "getFree", "append", "timed", "lowerAo",
            "drain", "drainWait", "lowerFlush"}
UserPC == DOMAIN Change \cup InFlush \cup {"idle", "call", "engine"}

frames == {b \in Buffers : format[b] # Nil}

InOut == ToSet(out) \cup ({inBuf} \ {Nil})

(* The places where a buffer is.                                           *)
Places(b) ==
  {<<"free", i>> : i \in {j \in DOMAIN free : free[j] = b}}
  \cup {<<"out", i>> : i \in {j \in DOMAIN out : out[j] = b}}
  \cup {<<"held", t>> : t \in {u \in Threads : held[u] = b}}
  \cup {<<"loop", 1>> : x \in {inBuf} \cap {b}}

TypeOK ==
  /\ free \in Seq(Buffers) /\ out \in Seq(Buffers)
  /\ held \in [Threads -> Buffers \cup {Nil}]
  /\ inBuf \in Buffers \cup {Nil}
  /\ \A b \in Buffers : Cardinality(Places(b)) = 1
  /\ sleepers \subseteq Threads /\ waiters \subseteq Threads
  /\ loopAsleep \in BOOLEAN /\ stale \subseteq InOut
  /\ format \in [Buffers -> Formats \cup {Nil}]
  /\ input \in Formats \cup {Nil} /\ want \in Formats \cup {Nil}
  /\ running \in BOOLEAN /\ paused \in 0..2 /\ discard \in Int
  /\ tmp \in [Users -> Int \cup {Nil}]
  /\ flushDriver \in 0..MaxFlush /\ flushLock \in Users \cup {Nil}
  /\ driver \in BOOLEAN /\ opened \in BOOLEAN
  /\ pcL \in {"top", "get", "flush", "pause", "settings", "output", "done"}
  /\ pcD \in {"idle", "get", "put", "putOut", "putFree",
              "open", "openWait", "opening", "close", "closeWait", "closing"}
  /\ pcU \in [Users -> UserPC] /\ outer \subseteq Users
  /\ demuxLock \in Users \cup {Nil}
  /\ pcX \in {"no", "get", "join", "gone"}

(* ao_new_port                                                             *)
Init ==
  /\ free = SetToSeq(Buffers) /\ out = << >>
  /\ sleepers = {} /\ waiters = {} /\ loopAsleep = FALSE
  /\ format = [b \in Buffers |-> Nil] /\ input = Nil /\ want = Nil
  /\ held = [t \in Threads |-> Nil]
  /\ running = TRUE /\ paused = 0 /\ driver = FALSE /\ opened = FALSE
  /\ discard = 0 /\ tmp = [u \in Users |-> Nil]
  /\ flushDriver = 0 /\ flushLock = Nil /\ demuxLock = Nil
  /\ pcL = "top" /\ inBuf = Nil
  /\ pcD = "idle" /\ pcU = [u \in Users |-> "idle"] /\ outer = {}
  /\ stale = {} /\ pcX = "no"

-----------------------------------------------------------------------------
(* fifo_append: the signal wakes one thread that waits.                    *)
AppendFree(b) ==
  /\ free' = Append(free, b)
  /\ stale' = stale \ {b}
  /\ IF sleepers = {} THEN UNCHANGED sleepers
                      ELSE \E t \in sleepers : sleepers' = sleepers \ {t}

AppendOut(b) == out' = Append(out, b) /\ loopAsleep' = FALSE

(* fifo_remove of free_fifo, up to the wait if it is empty (nobody waits   *)
(* for that fifo to be empty) ...                                          *)
SleepFree(t) ==
  /\ free = << >> /\ t \notin sleepers
  /\ sleepers' = sleepers \cup {t}
  /\ UNCHANGED <<free, out, loopAsleep, waiters, format, held, count, flush,
                 port, loop, dec, users, stale, pcX>>

(* ... and when it is not.                                                 *)
RemoveFree(t) ==
  /\ free # << >> /\ t \notin sleepers
  /\ held' = [held EXCEPT ![t] = Head(free)]
  /\ free' = Tail(free)

(* fifo_wait_empty of out_fifo: wakes the loop and waits for its signal.   *)
WaitEmpty(t) == waiters' = waiters \cup {t} /\ loopAsleep' = FALSE

-----------------------------------------------------------------------------
(* Mutant: in_buf is not reset.                                            *)
Release_Keep == AppendFree(inBuf) /\ UNCHANGED inBuf

(* ao_loop gives its buffer back: fifo_append to free_fifo, in_buf = NULL. *)
Release == AppendFree(inBuf) /\ inBuf' = Nil

LoopTop ==
  /\ pcL = "top"
  /\ pcL' = IF ~running /\ out = << >> THEN "done"
            ELSE IF inBuf = Nil THEN "get" ELSE "flush"
  /\ IF pcL' = "done" /\ inBuf # Nil
       THEN Release
       ELSE UNCHANGED <<free, sleepers, stale, inBuf>>
  /\ UNCHANGED <<out, loopAsleep, waiters, format, held, count, flush, port,
                 dec, users, pcX>>

(* fifo_remove of out_fifo: an empty fifo is signalled to one waiter each  *)
(* time the loop is about to wait.                                         *)
LoopSleep ==
  /\ pcL = "get" /\ ~loopAsleep /\ out = << >>
  /\ loopAsleep' = TRUE
  /\ IF waiters = {} THEN UNCHANGED waiters
                     ELSE \E t \in waiters : waiters' = waiters \ {t}
  /\ UNCHANGED <<free, out, sleepers, format, held, count, flush, port, loop,
                 dec, users, stale, pcX>>

LoopGet ==
  /\ pcL = "get" /\ ~loopAsleep /\ out # << >>
  /\ inBuf' = Head(out) /\ out' = Tail(out)
  /\ pcL' = "flush"
  /\ UNCHANGED <<free, sleepers, loopAsleep, waiters, format, held, count,
                 flush, port, dec, users, stale, pcX>>

(* Mutant: a discarding loop still waits for the end of a pause.           *)
Discards_Playing == discard # 0 /\ paused = 0

(* Under flush_audio_driver_lock, which the driver's flush and the         *)
(* broadcast need; buffers are discarded whether the stream pauses or not. *)
Discards == discard # 0

LoopFlush ==
  /\ pcL = "flush" /\ flushLock = Nil
  /\ flushDriver' = IF flushDriver > 0 THEN flushDriver - 1 ELSE 0
  /\ IF Discards THEN pcL' = "top" /\ Release
                 ELSE pcL' = "pause" /\ UNCHANGED <<free, sleepers, stale, inBuf>>
  /\ UNCHANGED <<out, loopAsleep, waiters, format, held, count, flushLock,
                 port, dec, users, pcX>>

(* Paused, the loop sleeps and looks again; at another speed (audio_paused *)
(* is 1) it drops what is late.                                            *)
LoopPause ==
  /\ pcL = "pause"
  /\ IF paused = 0 \/ ~running
       THEN pcL' = "settings" /\ UNCHANGED <<free, sleepers, stale, inBuf>>
       ELSE /\ pcL' = "top"
            /\ \/ UNCHANGED <<free, sleepers, stale, inBuf>>
               \/ paused = 1 /\ Release
  /\ UNCHANGED <<out, loopAsleep, waiters, format, held, count, flush, port,
                 dec, users, pcX>>

(* ao_change_settings closes the driver and opens it anew, which may fail. *)
ChangeSettings(f) == input' = f /\ driver' \in BOOLEAN

(* Samples that find the driver closed or set to another format change it. *)
LoopSettings ==
  /\ pcL = "settings"
  /\ IF inBuf \in frames /\ (~driver \/ format[inBuf] # input)
       THEN ChangeSettings(format[inBuf])
       ELSE UNCHANGED <<driver, input>>
  /\ pcL' = "output"
  /\ UNCHANGED <<fifos, held, count, flush, running, paused, inBuf, dec, users,
                 stale, pcX>>

(* The buffer is dropped, if it is too late or has no frames, or written, *)
LoopOutput ==
  /\ pcL = "output"
  /\ Release
  /\ pcL' = "top"
  /\ UNCHANGED <<out, loopAsleep, waiters, format, held, count, flush, port,
                 dec, users, pcX>>

(* or kept, after silence has filled the gap before it or metronom has     *)
(* been adjusted.                                                          *)
LoopKeep ==
  /\ pcL = "output" /\ inBuf \in frames
  /\ pcL' = "top"
  /\ UNCHANGED <<fifos, held, count, flush, port, inBuf, dec, users, stale, pcX>>

Loop == \/ LoopTop \/ LoopSleep \/ LoopGet \/ LoopFlush \/ LoopPause
        \/ LoopSettings \/ LoopOutput \/ LoopKeep

-----------------------------------------------------------------------------
(* The decoder's calls.  While ao_flush runs it has nothing to do: it has  *)
(* handled the header element that the flush waits for, behind which       *)
(* nothing is put while demux_lock is held.                                *)
Quiet == \E u \in Users : pcU[u] \in InFlush
DecoderCalls == pcD = "idle" /\ ~Quiet /\ pcX = "no"

DecoderBegin ==
  /\ DecoderCalls
  /\ pcD' \in IF opened THEN {"get", "close"} ELSE {"open"}
  /\ opened' = (pcD' = "get")
  /\ IF opened THEN UNCHANGED want ELSE want' \in Formats
  /\ UNCHANGED <<fifos, held, count, flush, port, loop, users, stale, pcX>>

GetBuffer ==
  /\ pcD = "get"
  /\ \/ SleepFree("decoder")
     \/ /\ RemoveFree("decoder")
        /\ pcD' = "put"
        /\ UNCHANGED <<out, sleepers, loopAsleep, waiters, format, count, flush,
                       port, loop, opened, want, users, stale, pcX>>

(* ao_put_buffer: a buffer without frames goes back; one with frames gets  *)
(* the format of the stream, and discard_buffers is read before the buffer *)
(* is appended, with no lock around both.                                  *)
PutReads ==
  /\ pcD = "put"
  /\ \/ /\ pcD' = "putFree"
        /\ format' = [format EXCEPT ![held["decoder"]] = Nil]
     \/ /\ pcD' = IF discard = 0 THEN "putOut" ELSE "putFree"
        /\ format' = [format EXCEPT ![held["decoder"]] = want]
  /\ UNCHANGED <<free, out, sleepers, loopAsleep, waiters, held, count, flush,
                 port, loop, opened, want, users, stale, pcX>>

PutBuffer ==
  /\ \/ /\ pcD = "putOut" /\ AppendOut(held["decoder"])
        /\ UNCHANGED <<free, sleepers, stale>>
     \/ /\ pcD = "putFree" /\ AppendFree(held["decoder"])
        /\ UNCHANGED <<out, loopAsleep>>
  /\ held' = [held EXCEPT !["decoder"] = Nil]
  /\ pcD' = "idle"
  /\ UNCHANGED <<waiters, format, count, flush, port, loop, opened, want, users, pcX>>

(* ao_close by the last stream, and ao_open unless the driver is open and  *)
(* set to the format, wait for the loop before they touch the driver.      *)
SetAlready == pcD = "open" /\ driver /\ want = input

(* Mutant: ao_close does not wait.                                         *)
DecoderWaits_OpenOnly ==
  /\ pcD \in {"open", "close"}
  /\ IF pcD = "open" THEN pcD' = "openWait" /\ WaitEmpty("decoder")
                     ELSE pcD' = "closing" /\ UNCHANGED <<waiters, loopAsleep>>
  /\ UNCHANGED <<free, out, sleepers, format, held, count, flush, port, loop,
                 opened, want, users, stale, pcX>>

DecoderWaits ==
  /\ pcD \in {"open", "close"}
  /\ IF SetAlready
       THEN pcD' = "idle" /\ opened' = TRUE /\ UNCHANGED <<waiters, loopAsleep>>
       ELSE /\ pcD' = IF pcD = "open" THEN "openWait" ELSE "closeWait"
            /\ WaitEmpty("decoder") /\ UNCHANGED opened
  /\ UNCHANGED <<free, out, sleepers, format, held, count, flush, port, loop,
                 want, users, stale, pcX>>

DecoderWoken ==
  /\ pcD \in {"openWait", "closeWait"} /\ "decoder" \notin waiters
  /\ pcD' = IF pcD = "openWait" THEN "opening" ELSE "closing"
  /\ UNCHANGED <<fifos, held, count, flush, port, loop, opened, want, users, stale, pcX>>

(* ao_change_settings may fail, and then the decoder sends nothing.        *)
DecoderSets ==
  /\ pcD \in {"opening", "closing"}
  /\ IF pcD = "opening" THEN ChangeSettings(want)
                        ELSE driver' = FALSE /\ UNCHANGED input
  /\ opened' = driver'
  /\ pcD' = "idle"
  /\ UNCHANGED <<fifos, held, count, flush, running, paused, loop, want, users,
                 stale, pcX>>

Decoder == GetBuffer \/ PutReads \/ PutBuffer \/ DecoderWaits
           \/ DecoderWoken \/ DecoderSets

-----------------------------------------------------------------------------
(* A user begins to discard (xine_play, xine_stop), or flushes at once     *)
(* (the DVD input in the demux thread).                                    *)
Goto(u, l) == pcU' = [pcU EXCEPT ![u] = l]

BeginCall(u) ==
  /\ pcU[u] = "idle" /\ pcX = "no"
  /\ Goto(u, "raiseCall") /\ outer' = outer \cup {u}
  /\ UNCHANGED <<fifos, held, count, flush, port, loop, dec, demuxLock, stale, pcX>>

(* xine_demux_flush_engine, with demux_lock.                               *)
BeginEngine(u) ==
  /\ pcU[u] \in {"call", "idle"} /\ pcX = "no"
  /\ demuxLock = Nil /\ flushDriver < MaxFlush
  /\ demuxLock' = u /\ Goto(u, "raiseFlush")
  /\ UNCHANGED <<fifos, held, count, flush, port, loop, dec, outer, stale, pcX>>

(* xine_stop need not flush.                                               *)
EndCall(u) ==
  /\ pcU[u] = "call"
  /\ Goto(u, "lowerCall")
  /\ UNCHANGED <<fifos, held, count, flush, port, loop, dec, outer, demuxLock,
                 stale, pcX>>

(* discard_buffers++ and -- read it ...                                    *)
ChangeReads(u) ==
  /\ pcU[u] \in DOMAIN Change /\ tmp[u] = Nil
  /\ tmp' = [tmp EXCEPT ![u] = discard]
  /\ UNCHANGED <<fifos, held, discard, flush, port, loop, dec, users, stale, pcX>>

(* ... and write it; ao_flush holds flush_audio_driver_lock as it does so. *)
ChangeWrites(u) ==
  /\ tmp[u] # Nil
  /\ discard' = tmp[u] + Change[pcU[u]]
  /\ tmp' = [tmp EXCEPT ![u] = Nil]
  /\ flushDriver' = IF pcU[u] = "raiseAo" THEN flushDriver + 1 ELSE flushDriver
  /\ flushLock' = IF pcU[u] = "lowerAo" THEN Nil ELSE flushLock
  /\ Goto(u, CASE pcU[u] = "raiseCall"  -> "call"
               [] pcU[u] = "raiseFlush" -> "engine"
               [] pcU[u] = "raiseAo"    -> "reach"
               [] pcU[u] = "lowerAo"    -> "drain"
               [] pcU[u] = "lowerFlush" -> IF u \in outer THEN "lowerCall" ELSE "idle"
               [] pcU[u] = "lowerCall"  -> "idle")
  /\ demuxLock' = IF pcU[u] = "lowerFlush" THEN Nil ELSE demuxLock
  /\ outer' = IF pcU[u] = "lowerCall" THEN outer \ {u} ELSE outer
  /\ UNCHANGED <<fifos, held, port, loop, dec, stale, pcX>>

(* ao_flush                                                                *)
FlushBegins(u) ==
  /\ pcU[u] = "engine" /\ pcD = "idle" /\ flushLock = Nil
  /\ flushLock' = u /\ stale' = InOut
  /\ Goto(u, "raiseAo")
  /\ UNCHANGED <<fifos, held, count, flushDriver, port, loop, dec, outer,
                 demuxLock, pcX>>

FlushTests(u) ==
  /\ pcU[u] = "reach"
  /\ IF flushDriver > 0 /\ paused = 0
       THEN Goto(u, "getFree") /\ flushLock' = Nil
       ELSE Goto(u, "lowerAo") /\ UNCHANGED flushLock
  /\ UNCHANGED <<fifos, held, count, flushDriver, port, loop, dec, outer,
                 demuxLock, stale, pcX>>

(* It gives the loop an empty buffer, so that it comes by, ...             *)
FlushGets(u) ==
  /\ pcU[u] = "getFree"
  /\ \/ SleepFree(u)
     \/ /\ RemoveFree(u)
        /\ Goto(u, "append")
        /\ UNCHANGED <<out, sleepers, loopAsleep, waiters, format, count, flush,
                       port, loop, dec, outer, demuxLock, stale, pcX>>

FlushAppends(u) ==
  /\ pcU[u] = "append" /\ flushLock = Nil
  /\ AppendOut(held[u]) /\ format' = [format EXCEPT ![held[u]] = Nil]
  /\ held' = [held EXCEPT ![u] = Nil]
  /\ Goto(u, "timed")
  /\ UNCHANGED <<free, sleepers, waiters, count, flush, port, loop, dec, outer,
                 demuxLock, stale, pcX>>

(* ... and waits for its broadcast or for a second, whichever is first.    *)
FlushWakes(u) ==
  /\ pcU[u] = "timed" /\ flushLock = Nil
  /\ flushLock' = u
  /\ Goto(u, "reach")
  /\ UNCHANGED <<fifos, held, count, flushDriver, port, loop, dec, outer,
                 demuxLock, stale, pcX>>

(* Mutant: ao_flush does not wait for the loop.                            *)
FlushDrains_Returns(u) ==
  /\ pcU[u] = "drain"
  /\ Goto(u, "lowerFlush")
  /\ UNCHANGED <<fifos, held, count, flush, port, loop, dec, outer, demuxLock,
                 stale, pcX>>

FlushDrains(u) ==
  /\ pcU[u] = "drain"
  /\ WaitEmpty(u)
  /\ Goto(u, "drainWait")
  /\ UNCHANGED <<free, out, sleepers, format, held, count, flush, port, loop,
                 dec, outer, demuxLock, stale, pcX>>

FlushEnds(u) ==
  /\ pcU[u] = "drainWait" /\ u \notin waiters
  /\ Goto(u, "lowerFlush")
  /\ UNCHANGED <<fifos, held, count, flush, port, loop, dec, outer, demuxLock,
                 stale, pcX>>

Flush(u) == \/ FlushTests(u) \/ FlushGets(u) \/ FlushAppends(u) \/ FlushWakes(u)
            \/ FlushDrains(u) \/ FlushEnds(u)

-----------------------------------------------------------------------------
(* xine_set_speed_internal: audio_paused is 2 for a pause, 1 for another   *)
(* speed.                                                                  *)
SetSpeed ==
  /\ pcX = "no"
  /\ paused' \in 0..2
  /\ UNCHANGED <<fifos, held, count, flush, running, driver, input, loop, dec, users,
                 stale, pcX>>

(* ao_exit, when no stream uses the port any more: an empty buffer wakes   *)
(* the loop, and the thread is joined.                                     *)
ExitBegins ==
  /\ pcX = "no" /\ pcD = "idle" /\ ~opened
  /\ \A u \in Users : pcU[u] = "idle"
  /\ running' = FALSE /\ paused' = 0
  /\ pcX' = "get"
  /\ UNCHANGED <<fifos, held, count, flush, driver, input, loop, dec, users, stale>>

ExitGets ==
  /\ pcX = "get"
  /\ \/ SleepFree("exit")
     \/ /\ RemoveFree("exit")
        /\ pcX' = "join"
        /\ UNCHANGED <<out, sleepers, loopAsleep, waiters, format, count, flush,
                       port, loop, dec, users, stale>>

ExitAppends ==
  /\ pcX = "join" /\ held["exit"] # Nil
  /\ AppendOut(held["exit"]) /\ format' = [format EXCEPT ![held["exit"]] = Nil]
  /\ held' = [held EXCEPT !["exit"] = Nil]
  /\ UNCHANGED <<free, sleepers, waiters, count, flush, port, loop, dec, users,
                 stale, pcX>>

ExitJoins ==
  /\ pcX = "join" /\ held["exit"] = Nil /\ pcL = "done"
  /\ pcX' = "gone"
  /\ UNCHANGED <<fifos, held, count, flush, port, loop, dec, users, stale>>

Exit == ExitGets \/ ExitAppends \/ ExitJoins

Next ==
  \/ Loop \/ DecoderBegin \/ Decoder
  \/ \E u \in Users : \/ BeginCall(u) \/ BeginEngine(u) \/ EndCall(u)
                      \/ ChangeReads(u) \/ ChangeWrites(u)
                      \/ FlushBegins(u) \/ Flush(u)
  \/ SetSpeed \/ ExitBegins \/ Exit

Spec == Init /\ [][Next]_vars

(* The threads run, and a thread whose mutex is free now and then gets it. *)
(* A kept buffer becomes due, as the clock runs.  A flush waits until the  *)
(* decoder has handled what is queued, and a call either flushes or ends.  *)
(* Nothing makes the user end a pause.                                     *)
Fairness ==
  /\ WF_vars(Loop) /\ SF_vars(LoopFlush) /\ SF_vars(LoopOutput)
  /\ WF_vars(Decoder) /\ WF_vars(Exit)
  /\ \A u \in Users :
       /\ WF_vars(ChangeReads(u)) /\ WF_vars(ChangeWrites(u))
       /\ SF_vars(FlushBegins(u)) /\ SF_vars(Flush(u))
       /\ SF_vars(EndCall(u) \/ (BeginEngine(u) /\ pcU[u] = "call"))

FairSpec == Spec /\ Fairness

-----------------------------------------------------------------------------
(* When ao_flush returns, none of the buffers that were queued or in the   *)
(* loop when it began can be played any more: all are free again.          *)
FlushEmpties == \A u \in Users : pcU[u] = "lowerFlush" => stale = {}

(* ao_loop writes without a look at driver_open, and prepares the samples  *)
(* by this->input: neither ao_close nor ao_open nor the loop itself, when  *)
(* a change of settings fails, may leave it with samples for a driver that *)
(* is closed or set to another format ("make sure there are no more        *)
(* buffers on queue").                                                     *)
WritesToOpenDriver ==
  pcL = "output" /\ inBuf \in frames => driver /\ format[inBuf] = input

(* What is discarded for is discarded no longer: when no call that         *)
(* discards is in progress, discard_buffers is 0 again ("recursive discard *)
(* buffers setting").                                                      *)
DiscardBalanced == (\A u \in Users : pcU[u] = "idle") => discard = 0

(* Calls of the port return: a discard or flush even if the stream pauses  *)
(* for ever, the decoder's unless it pauses, ao_exit always.               *)
AudioCallsReturn ==
  /\ \A u \in Users : pcU[u] # "idle" ~> pcU[u] = "idle"
  /\ pcD # "idle" ~> pcD = "idle" \/ paused # 0
  /\ pcX # "no" ~> pcX = "gone"
=============================================================================
