# xine-lib for OS/2: a TLA+ model of the playback engine

This directory models the engine of `src/src/xine-engine`: the fifos between
demuxers and decoders (`buffer.c`), the control of playback (`xine.c`, `demux.c`,
and the loops of `video_decoder.c` and `audio_decoder.c`), the frames of a
video port (`video_out.c`), the buffers of an audio port (`audio_out.c`), the
rendezvous of the decoders at discontinuities (`metronom.c`), the events
(`events.c`) with the MCI driver that listens to them (`src/src/mcd/mcd.c`), and the
buffering of network streams (`src/src/input/net_buf_ctrl.c`). TLC checks the models
on small instances, liveness included. TLAPS proves every invariant that the passing runs
check, and the refinement of the fifo, for any number of elements, buffers, frames, threads
and calls: some under a condition on how the system is used, which section 4 names.
File names below without a directory are in `src/src/xine-engine`.

## 1. The system

A *frontend* (on OS/2 the MCI driver `src/src/mcd/mcd.c`) calls the API of one
*stream*. The stream's *demuxer thread* reads an input plugin and puts elements
into two *fifos*. A *video decoder thread* and an *audio decoder thread* take
them out. The decoders get *frames* and *audio buffers* from two *output ports*,
each with a thread that hands them to a driver when the *metronom* says so.
*Events* go to queues, on each of which a *listener thread* may run a callback.

| component | source | state | operations | others it meets |
|---|---|---|---|---|
| buffer fifo | `buffer.c` | pool, list, three counters, two mutexes, two conditions, callback tables | alloc, try_alloc, free, put, insert, get, clear, dispose, register and unregister callbacks | demuxer, decoders, rewiring, network buffer control, broadcaster |
| stream control | `xine.c`, `demux.c` | status, plugin, demuxer thread and its running and pending flags, `frontend_lock`, `demux_lock`, header and finish counts, first-frame flag | open, play, stop, close, dispose, flush_engine, headers_done, start and stop thread | everything below |
| decoder loops | `video_decoder.c`, `audio_decoder.c` | the element in hand, decoder plugin, track maps | START, END, QUIT, HEADERDONE, RESET, NEWPTS, NOP, data | fifos, control, metronom, ports |
| video output | `video_out.c` | free and display queue, lock counters, backup and last frame, discard count | get_frame, draw, free, flush, open, close, exit, the loop, the paused loop | decoders, clock, driver, overlay manager |
| audio output | `audio_out.c`, `resample.c` | free and out queue, discard and flush counts, paused flag | get_buffer, put_buffer, flush, open, close, exit, the loop | decoder, clock, driver |
| metronom, clock | `metronom.c` | vpts of both sides, vpts_offset, discontinuity counts, clock providers | got_video_frame, got_audio_samples, handle_*_discontinuity, register and unregister_scr, speed | decoders, ports |
| events, cue points | `events.c` | queues, listener threads, cue points, next cue | send, get, wait, create listener, dispose, cue point functions | everybody |
| MCI driver | `src/src/mcd/mcd.c` | play flags, semaphore, cue time | MCI_OPEN, LOAD, PLAY, STOP, CLOSE, STATUS, SEEK, ... | API, its listener |
| network buffer control | `src/src/input/net_buf_ctrl.c` | fill levels, buffering flag | put, get, alloc callbacks, close | fifos, clock speed |
| broadcaster | `broadcaster.c` | connections, lock, manager thread | accept, put callbacks, close | fifos |
| post plugins, rewiring | `post.c`, `xine.c:285-331`, `src/src/post` | ports, the rewire request | rewire_audio, rewire_video | decoder loops, fifos |
| overlay manager, OSD | `video_overlay.c`, `osd.c` | event slots, handles, overlays on show | add_event, flush_events, multiple_overlay_blend | decoders, video output |
| configuration, log, plugin catalogue | `configfile.c`, `scratch.c`, `load_plugins.c` | lists under one lock | lookup, update, scan | all at start |
| helpers | `lrb.c`, `vo_scale.c`, `tvmode.c`, `io_helper.c`, `input_rip.c`, `xine_interface.c`, `info_helper.c`, `buffer_types.c`, `src/src/xine-utils` | sequential data | | |
| input, demuxer, driver and codec plugins | `src/src/input`, `src/src/demuxers`, `src/src/video_out`, ... | their own | | external to the models |

What is hard about it, and what makes each part right:

* **Fifo.** Two mutexes, one signal per free and per put, a spare element that
  ordinary allocs never take, a flush that walks the list while the pool changes.
  Right: an element is in one place, the counters agree, nobody sleeps on an
  element it could have, a flush looks atomic, and dispose returns.
* **Control.** The frontend, the demuxer thread and the last decoder to reach an
  END all start, stop or join the demuxer thread, under two locks that are kept
  over waits. Right: no deadlock, a flush drains the decoders, the ENDs of the two
  fifos stay paired, an END means that the source has ended or the user has stopped, no
  thread is lost, a stopped stream is stopped, every call returns.
* **Video output.** A frame is used by the decoder, the queues, the loop and the
  driver at once, and counted by hand. A pause, a flush and a seek rearrange the
  queues under the loop. Right: the counter counts the references, a frame is
  queued once, nobody writes into a frame that is shown, the first frame after a
  seek is shown, the loop ends.
* **Audio output.** Waits without a predicate, a discard counter under no lock.
  Right: a flush leaves no old buffer, also while the port pauses; the driver is open
  and set to the samples' format when it is written to; every call returns.
* **Metronom.** Two decoders meet at each discontinuity without a timeout.
  Right: each decodes an element with the offset of its own segment, and neither waits
  for ever.
* **Events and the MCI driver.** A listener that is joined by whoever disposes of
  the queue; a semaphore that is reset while a late event may post it. Right: events
  arrive complete and in order, nothing freed is used, the end of an element answers
  the MCI_PLAY that waits for it. Two of these the code keeps only in part: see
  `StreamOutlivesUse` and `Superseded` below.
* **Network buffer control.** Callbacks that run under a fifo's or a pool's mutex and
  stop the clock. Right: nobody waits while the stream buffers, and buffering ends.
* **Broadcaster, rewiring.** Joins with a lock held; a wait without a test.

PROJECT.json lists the hazards one by one with their lines.

## 2. Modules and their relation to the code

| module | models | notes |
|---|---|---|
| `ListOps` | the walk of a linked list that keeps some elements, the sum of a field | used by `MediaQueue`, `FifoBuffer`, `StreamEngine`, `EventQueues` |
| `ListOps_proofs` | | lemmas about both for every list |
| `MediaQueue` | what a fifo promises | abstract: one owner per element, order, an atomic flush |
| `FifoBuffer` | `buffer.c` | one action per critical section |
| `FifoBuffer_proofs` | | the theorems about `FifoBuffer` |
| `StreamEngine` | `xine.c`, `demux.c`, decoder loops | the fifos are queues with a bounded pool |
| `StreamEngine_proofs` | | the theorems about `StreamEngine` |
| `VideoOut` | `video_out.c` | one decoder, the output loop, flushing threads, the frontend |
| `VideoOut_proofs` | | the theorems about `VideoOut` |
| `AudioOut` | `audio_out.c` | the output loop, one decoder, threads that discard and flush, pauses, `ao_exit` |
| `AudioOut_proofs` | | the theorems about `AudioOut` |
| `Metronom` | the discontinuity part of `metronom.c`, the NEWPTS and END cases of both decoder loops | the writers of pairs, both fifos, both decoders |
| `Metronom_proofs` | | the theorems about `Metronom` |
| `EventQueues` | `events.c` | actions for other modules to compose |
| `McdDriver` | `src/src/mcd/mcd.c` | `EventQueues` with the driver's commands, its listener and a plugin that polls |
| `McdDriver_proofs` | | the theorems about `EventQueues` and `McdDriver` |
| `NetBufCtrl` | `src/src/input/net_buf_ctrl.c` | the callbacks with both fifos, the demuxer and the decoders |
| `NetBufCtrl_proofs` | | the theorems about `NetBufCtrl` |
| `MC...` | | what TLC is run on, with the symmetry sets |

**FifoBuffer.** `pool`, `numFree`, `fifo`, `fifoSize`, `dataSize` are the fields
of `fifo_buffer_t`; `kind` and `size` are what the counters and `clear` look at in an
element; `pc` says where a thread is, a sleeper on a condition included; `fifoLock`
is the holder of the list's mutex when it is kept over steps, which only `clear`
does. `clear` frees element by element with the pool's mutex taken inside, so
`ClearKeep` and `ClearDrop` are steps and allocs and frees come between. A
signal wakes one sleeper of TLC's choice; a wake-up may be spurious. `emergency`
is history: the elements `buffer_pool_try_alloc` has handed out.

**StreamEngine.** Each thread has a `pc`; `ret` and `msg` are its return
address and the element it carries, so that functions called from several places
(`flush_engine`, `headers_done`, `stop_thread`, the puts) are modelled once. A step
ends where another thread can see or delay it: at a lock, an alloc, a join, or a
write others read unlocked. `demuxLock` and `counterLock` name their holder.
`frontend_lock` admits one API call at a time, so the frontend is one actor.
A plugin is one of a set: `Live` ones never end, `Flushing` ones flush the engine
in every seek (`demux_film.c:719`), `Syncing` ones flush from `send_chunk` (the DVD
input). `PlayWhen` says when the application calls `xine_play`: at any time, or
`"settled"` (section 3). `DemuxThreads` are the threads a run may create; a joined one is new again.

**VideoOut.** The steps of the loop are its critical sections. Whether a frame is
due or too old is the clock's choice. The driver is external and keeps the frame on
show and the one before. `marked` and the counters of calls are history.

**AudioOut.** A step is what a thread does with a mutex held, up to a wait that gives it
up, or one access to a field that others use unlocked: `discard_buffers++` is a read
(`tmp`) and a write. `waiters` are the threads in the wait of `fifo_wait_empty`, of
which each time the loop finds the fifo empty one is woken. `format` is that of a
buffer's samples, and `Nil` for a buffer without, of the kind that wakes the loop; `input`
is the format the driver is set to. The loop compares them before it writes and reopens
the driver if they differ, which may fail. The stream may change its format whenever it
opens the port. `stale` is history: what was queued when a flush began.

**Metronom.** An element carries the segment in which the demuxer wrote it; the ghost
`OwnOffset` compares it with the offset the metronom applies. The two discontinuity
counters and the handled counter are the code's, the condition variables are sets of
waiters.

**EventQueues, McdDriver.** `life` says how far the owner of a queue is with it, from
`xine_event_new_queue` to the `free` of dispose; an event is numbered by its send, so that
order and completeness can be told. `McdDriver` has one `pc` for each application
thread in `mciDriverEntry`, which has no lock of its own. MCI_CLOSE is a step for each of
its calls, in the order of `mcd.c:231-245`: the queue, the stream (`xine_close`, then
`xine_dispose`, which joins the decoders), the video port (which joins the output thread),
the instance. The output thread may report a cue point for as long as the port holds
`frames`, also when the stream they point to is freed. The listener posts the semaphore in
one step and reads the flags and the callback in another. `play` and `due` are history:
which MCI_PLAY's parameters the instance holds, and which are still owed a notice.
`playflags` begins as anything, for the instance comes from `malloc`. The composition
keeps the variables of both and gives each action of one the `UNCHANGED` of the other.

**NetBufCtrl.** `free` and `queue` are the pool and the list of each fifo, `cached` the
number of free elements that the controller noted in its last callback. A put may find
the high water mark reached or not: how long a fifo is, which the code estimates, is
not computed. `nbc_set_speed_pause` and `nbc_set_speed_normal` are three calls, on the
clock, on the audio option and on the audio port, which touch different state; `paused`
are the calls whose pause is in force. The get callback sets `buffering` and then makes
them one by one, as does the alloc callback, which has no mutex in common with it. The put
callbacks and `nbc_close` make them in one step: they hold the mutexes without which no
other callback can run between. `has` is what the stream is known to carry, which the get
callback looks at before it buffers (`net_buf_ctrl.c:404-406`). `taken` bounds what a
decoder still takes while an output stands (`Stalls`, `Slack`).

Definitions whose names end in `_Word` beside a definition of the code
(`MayAlloc_Last` beside `MayAlloc`) are faults a programmer could make there. No
specification uses them; each one breaks the property it was written for.

## 3. The runs

Passing runs.

| run | instance | shows |
|---|---|---|
| `fifo_safety` | 3 elements, 2 producers, 2 consumers, an inserter, a flusher | `OnePlace`, `CountersAgree`, `SpareForEmergency`, `NoLostWakeup`, and `ImplementsMediaQueue`: the refinement, with a flush taking effect when it gets the mutex |
| `fifo_live` | 3 elements, one thread of each kind | `QueuedLeaves`, `FifoCallsReturn`: alloc and dispose return |
| `engine_anytime` | a file and a live source that flush the engine in every seek, the file also from a chunk, both sought while they run, 4 calls, 2 threads, pools of 5 | `EndsPaired`, `EndsTogether`, `FlushDrains`, `FrameWaitHasWaker`, with stale and late ENDs among what happens |
| `engine_settled` | the same sources and 3 calls; the file flushes from a chunk only and is played again only when it has ended | `ThreadAccounted`, `CallsReturn`, `EndIsHandled`, and no deadlock |
| `video_safety` | 5 frames, 2 of them held, 2 flushing threads, a seek, the end | `FramesAccounted`, `ExclusiveWrite`, `NoLostWakeup`, `DiscardBalanced`, `FirstIsShown` |
| `video_paused` | 5 frames, pauses at any time, a `vo_open`, snapshots, a decoder that keeps no references | `FramesAccounted`, `NoLostWakeup` |
| `video_live` | 3 frames, a flush, a seek, the end | `DecoderServed`, `FlushAndExitReturn` |
| `mcd_driver` | 2 application threads, the driver's queue and a polling plugin's | `EventsInOrder`, `NothingFreedInUse`, `FinishIsAnswered` |
| `metronom_pairs` | 2 writers of pairs of NEWPTS and END, flushes, with and without audio | `OwnOffset`, `DecodersGoOn` |
| `audio_flush` | 2 buffers, one thread that discards and flushes, pauses, opens, closes and the exit at any time, 2 formats | `FlushEmpties`, `WritesToOpenDriver`, `AudioCallsReturn` |
| `netbuf_full` | both fifos with pools of 3, one element of slack, END and a new input at any time | `NoWaitWhileBuffering`, `BufferingEnds` |

`EndsPaired` says that every END of one fifo has its counterpart in the other: the ENDs
counted in `finished`, queued, at a decoder or half put are as many on both sides. A
decoder with an END that has no counterpart would wait for ever.
`ThreadAccounted` says that the demuxer thread's handle is kept, that who joins it holds
nothing it still wants, and that it has left its loop when the plugin is disposed of.
`FramesAccounted` says that a frame is queued once and its counter is the number of
references.

`NothingFreedInUse` says of what MCI_CLOSE frees that those it waits for have left it:
queues have no send, reader or listener any more; the stream no decoder thread that ends
it or sends on it; the instance neither a callback nor any sender. `FinishIsAnswered` says
that who waits for the end of an element is let go, and that an MCI_PLAY with notify is
answered when its element ends, unless it was stopped, closed, failed, or overwritten by a
later MCI_PLAY (`Superseded`).

**What the models refute.** `engine_settled` keeps to a discipline,
`PlayWhen = "settled"`: `xine_play` of a file is called when its
demuxer has ended and no END is under way, so that only a live source is sought while it
runs. `PlayWhen = "anytime"` drops it: any running source is sought, and `xine_play`
may meet an END that is late. `engine_anytime` checks what holds then. What does
not hold is listed here and under `findings`: one refutation, the one that needs fairness, is
kept as a run, `engine_seek_hangs`; the others are had by giving the property as the
INVARIANT, with the constants that the row names. They are all safety properties of
the modules, and TLC finds their traces within seconds.

| property | constants | what happens |
|---|---|---|
| `CallsReturn` | run `engine_seek_hangs` | `xine_play` keeps `demux_lock` (`xine.c:963`) while the plugin's seek flushes the engine and waits for the video decoder, which waits for `demux_lock` to handle an END. Nobody goes on. |
| `EndMeansFinished` | `engine_anytime` | `demux_loop` acts on a status from before it gave up the lock (`demux.c:267`): a seek succeeds, the END is sent all the same |
| `UserStops` | `engine_anytime` | the END of an old demuxer thread is handled after `xine_play` has started a new one, which is stopped with it (`xine.c:83`) though no user has stopped anything |
| `StreamOutlivesUse` | `mcd_driver` | MCI_CLOSE frees the stream (`mcd.c:235`) before it joins the output thread (`mcd.c:237`), which reports cue points to the stream of the frame it shows (`video_out.c:966`) |
| `PausedMeansBuffering` | `netbuf_full` | the alloc callback ends the buffering between a get callback's decision and its calls (`net_buf_ctrl.c:239`): the clock or the port stands and nobody resumes it |
| `StoppedIsStopped` | `engine_anytime` | `xine_stop` and `xine_close` return early on the STOP of a late END (`xine.c:156`) while the new demuxer thread runs |
| `PlayIsLive` | `engine_settled` | the status becomes PLAY after the thread was started (`xine.c:996`); a stream that ends at once leaves it there |
| `QueuedOnce` | `video_paused` with a decoder that keeps references | `paused_loop` takes a displayed frame for the free queue (`video_out.c:872`) while the decoder keeps it; it is queued twice: "img already enqueue? (serious leak)" |
| `DiscardBalanced` of `AudioOut` | `audio_flush` with two `Users` | `discard_buffers` is counted without a lock (`audio_out.c:1606`): an update is lost and audio stays discarded |

More follow from a change to one constant. With `PlayWhen = "anytime"`, TLC also refutes
`ThreadKept`: a thread that ended by itself is overwritten by the next. With
`MaxOpens = 1` in `video_safety` it refutes `DiscardBalanced`, because `vo_open` resets
a counter that flushes nest (`video_out.c:1163`); a port that a second stream opens does
that. With `Snapshots = TRUE` it refutes `SnapshotHeld`: `vo_get_last_frame` counts
nothing. With `MaxPlays = 2` it refutes `PlayWaitsForFirst`: a frame of the seek before
wakes the waiter.

**Bounds.** Fifo: 3 is the smallest pool in which one element is spare, one is queued
and one is in hand; two threads of a kind are what a lost signal needs. Engine: a pool of
5 holds a START, a RESET and a HEADERDONE with the spare one; two threads show one
that replaces another; 4 calls are open, play, a seek and a stop or close; 3, where TLC checks liveness, leave out one
of them (the invariants of `engine_settled` and the absence of deadlock hold with 4 as well, as
TLC finds when it is not asked for liveness). Video: 5
frames are backup, last, two in the driver or the decoder and one free, below which the
paused loop takes one from the display queue. `MaxCalls`, `MaxDraws`, `MaxPlays`,
`MaxOpens` are the only bounds in guards; the fifo has none. Audio: two buffers are one in
the loop and one queued or in hand, so that threads wait for a free one; two formats are one that the
driver has and one that it must be reopened for; `MaxFlush` bounds
`flush_audio_driver`, which each flush of a paused port leaves one higher. Driver:
`MaxCalls` and `MaxSends` allow a play that ends, a late event and a close. Network: a pool of
3, the least that the assumptions admit, has the spare element, one with the decoder or the
demuxer and one queued; nothing else is bounded.

**Small pools.** `headers_done` allocates with `counter_lock` held (`demux.c:132`). In
`StreamEngine`, pools of 4 or less let the demuxer and a decoder that must count an
earlier header wait for each other; `engine_settled` with `Capacity = 4` and 4 calls deadlocks. The default is 500 for
video, and `video_decoder.c:411` sets no minimum.

**Deadlock** is checked in the runs of the fifo, in `engine_settled` and in
`video_paused`; `engine_anytime` may stop as `engine_seek_hangs` shows. `Terminated` (fifo) and `Rest` (engine) are the states in which the
system may stop. `video_safety` and `video_live` leave the check out: there the port is
closed and its thread ends, and nothing is left to do; `ThreadEnds` says that it gets
so far. The audio port ends as well (`ao_exit`), the MCI driver is closed, the
metronom's input ends, and a network stream that pauses may stand still once the race
above has happened: those runs leave it out and state in liveness properties what must
not stop.

**Fairness.** Threads are scheduled: weak fairness of what a thread does on its own.
A mutex that is free again and again is granted in the end: strong fairness of the
steps that take one. For `demux_lock` this is what the code provides for: `demux_loop`
sleeps with the lock released whenever somebody asks for it (`demux.c:239-249`). For the
fifo, decoders call get for ever and a producer puts what it allocated. For the video
loop a frame that stays queued becomes due. Nothing is assumed of the frontend: it may
never call again, and nothing makes a user end a pause. For `audio_flush` a kept buffer
becomes due, as the clock runs; for `netbuf_full` the source goes on sending and
the decoders run while the clock does.

## 4. What is proved

| theorems of | state |
|---|---|
| `FifoBuffer_proofs` | `TypeOK`, `OnePlace`, `CountersAgree`, `SpareForEmergency`, `NoLostWakeup`, `NeverTooManyFrees`, `ClearProgress`, `ImplementsMediaQueue` |
| `StreamEngine_proofs` | `TypeOK`, `EndsTogether`, `EndsPaired`; with `PlayWhen = "settled"` also `FlushDrains`, `ThreadAccounted`, `FrameWaitHasWaker` |
| `McdDriver_proofs` | `TypeOK`, `NothingFreedInUse`, `EventsInOrder` |
| `NetBufCtrl_proofs` | `TypeOK`, `NoWaitWhileBuffering` |
| `VideoOut_proofs` | `TypeOK`, `NoLostWakeup`; while the clock is not paused `FramesAccounted`, `ExclusiveWrite`, `FirstIsShown`; without a `vo_open` `DiscardBalanced` |
| `AudioOut_proofs` | `TypeOK`, `WritesToOpenDriver`, `FlushEmpties` |
| `Metronom_proofs` | `TypeOK`, `OwnOffset` |

**Lists.** `ListOps_proofs` has the lemmas about walking a list that the others cite.
A recursive definition needs induction over the places in the list. The library's
induction theorem for naturals takes the formula as an operator, which the provers
cannot supply; but the theorem that inclusion is well-founded on finite sets is about sets,
and with `1..n` for `n` it gives induction in the form "a set of naturals that has 0 and
the successor of each member has them all" (`Least`, `Induction`). From it follow that the
recursions of `Keep` and `Total` define functions (`KeepWalk`, `TotalWalk`), which places of
the list `Keep` takes and in which order (`KeepPlaces`), and what both give for a list
with an element more or less (`KeepWithout`, `TotalWithout`). This is why the
models use `Keep` and `Total` where `SelectSeq` and `FoldSeq` would do for TLC: those take an
operator, and nothing could be proved about them.

**`FifoBuffer_proofs`**: for any finite set of at least two elements, any finite set of
threads and null values outside both (the ASSUMEs of `FifoBuffer`).
`NeverTooManyFrees`, the assertion in `buffer_pool_free`, and `ClearProgress` are listed
by no run, as they follow from the rest and its lemmas.
The inductive invariant is `IInv`, a conjunction of parts. `ControlInv` has the types
and says which `pc` goes with which lock, position and element in hand.
`OnePlace` needs it, since what a thread returns must be its own; it also needs
`DisposeInv`, which says that threads are at rest while dispose runs. The counters
need `OnePlace`: removing an element from the pool lowers the cardinality only if it was
there, and filling an element changes no byte that is counted only if it is not in the
list. `SpareForEmergency` and `NoLostWakeup`
count with the counters. The argument for the wake-ups: while a thread sleeps on the
pool, the threads that are awake and about to look are at least as many as the elements
beyond the spare one. A free adds one element and wakes one sleeper; an alloc takes one
of each; a thread goes to sleep only when nothing is left. Each part has one lemma
for Init and one for the step, with one case per action.

`FifoImplementsMediaQueue` is the refinement: the abstract queue is the list, or while a
clear runs what the clear will leave of it (`Promised`), and what it has still to free
counts as free already (`Unused`). A clear is the abstract `Flush` when it gets the mutex
and a stutter at every element after that: `RemoveAt` of a data element does not change
what `Keep` gives. An alloc in the midst of a clear takes from the pool an element that
the abstract queue has had free since the flush.

**`StreamEngine_proofs`**: for fifos of any capacity of at least 2, any plugins, any finite
set of demux threads and any number of calls. `Frame` holds whatever the application does.
Put, flush and stop are used by several threads and by one thread from several
places, so it says to where each caller of each has them return and what a put carries,
and with that every thread is at a place of its own (`TypeOK`). It includes
`EndsTogether`, which needs nothing but the two counts of `finished`. `EndsPaired` needs
`Frame` and `LockInv`, neither of which asks for a discipline: an END is put under
`demux_lock`, first to the video fifo and then to the audio fifo, so between the two puts
one thread is half-way (`HalfEnd`) and no other can be; a get moves an END from a fifo to its decoder, a
clear keeps it (`ClearedEnds`), and the decoder that ends the stream takes one off each count.

The other three are proved for `PlayWhen = "settled"`, the discipline of the runs: an
`xine_play` of a file begins when its demuxer has ended and no END is under way. Without it
TLC refutes `ThreadAccounted` (section 3). The other two hold without it in
`engine_anytime`, but their proof needs that one thread at a time puts elements, which only the discipline
gives. `Settledness` is inductive with `Frame`, and has five parts. `LockInv`: who has
`demux_lock` is told by where the threads are. `EndInv`: each fifo has at most one END, and
the two counts of `finished` differ by one just when one decoder has counted it and the
other has not. `OneThread`: a demux thread that exists is the one `stream->demux_thread`
names; as long as it has put no END none is anywhere, so a stop that finds it running is the
first to stop it; once it has put one, that END is on its way or the video decoder is about
to join the thread. `ThreadInv`: the flag `running`, the plugin and its source agree with
this, and a wait for the first frame has a thread to end it. `HeaderInv`: of the HEADERDONE
elements a flush waits for, each fifo has at most one, as the last element, so that a
decoder that has counted it has emptied its fifo (`Awaits`). The parts hold each other up:
the thread of a file is not started twice because no END is under way when it starts; none
is because its predecessor has been joined by whoever handled the last one or stopped the
stream; and a flush finds nothing behind its headers because nobody else has `demux_lock`.

**`McdDriver_proofs`**: for any number of application threads, queues, events and calls.
`QInv` is about the queues alone and is kept by each operation of `events.c`: a send has the
lock of the list as long as its cursor is on the list; the quit event of dispose is the
last of its queue and ends the listener, so that after the join nothing is left in it
(`QuitLast`, `ListenerInv`); an event's number is its place behind what the reader has taken
(`OrderInv`), where an open queue lacks one event if the cursor of a send in progress has
not come there yet. Taking a queue off the list leaves the others in their order, which the
lemmas about `Keep` say. `DInv` is about MCI_OPEN and MCI_CLOSE: the
driver's queue is disposed of, and with that its listener joined, before the instance is
freed; which sender is gone at which step of MCI_CLOSE (`GoneInv`): the decoder, for good,
when the stream is freed, since nothing plays any more, and the output thread, which the
port's last frames keep going until then, when the port is closed; and between the post
and the notice the listener is in its callback (`PostInv`). That the output thread leaves
the stream alone is not in it, for it does not (section 3).

**`NetBufCtrl_proofs`**: for pools of any size of at
least 3, any `FULL_FIFO_MARK` of at least 1, and one or two fifos. For
`NoWaitWhileBuffering`: the alloc callback ends the
buffering before the demuxer sleeps, so only a get callback can start it again. If it is
the get callback of the fifo the demuxer waits for, that fifo is empty and its pool, of
which the decoder has one element, has room: this needs the count in `TypeOK`. If it is
the other's, the number it has noted of the full fifo is not too high, because nothing has
been taken from that pool since the put that noted it (`NotedBound`), and the callback
finds the other fifo full. `ClosedIsQuiet` covers the time between two inputs, when no
callback notes anything.

**`VideoOut_proofs`**: `FramesAccounted`, `ExclusiveWrite` and `FirstIsShown` for any
finite set of frames and any number of references, frames kept by the driver and threads
that flush, as long as the clock is not paused (`~Pausing`: a pause breaks the count, see
`QueuedOnce` in section 3). Every step moves one frame and changes one reference, so there
is one lemma for each way the count changes (`KeepCount`, `DropCount`, `TakeCount`). To
know that a step drops one reference and not two the invariant also says that a frame in
the display queue, kept as backup, on its way to the driver or with it is only at one of
these places (`Once`), which in turn needs that a frame is drawn once: one that the decoder
has not drawn has a single reference (`Unshared`). `NoLostWakeup`, `TypeOK` (for pauses
too) and `DiscardBalanced` (without a `vo_open` in between, which sets the count to 0) have
small invariants of their own. Assumptions: finite sets of frames and threads, and a driver
that keeps at least one frame.

**`AudioOut_proofs`**: for any finite set of buffers and any number of threads that
discard and flush. `WritesToOpenDriver` and `FlushEmpties` turn on what
`fifo_wait_empty` waits for. The loop wakes a waiter when it finds `out_fifo` empty, and it
looks there only without a buffer in hand (`LoopInv`), so at that moment nothing is in the
port. Afterwards buffers may come in, but not the ones that matter: samples are put by the
decoder alone, which is itself the waiter when the driver is closed or set to another format
(`NoSamples`), so that what is in the port has the format the port is set to (`FormatInv`)
and the loop's own reopening, which may fail, is never for samples; and a
buffer that a flush found in the port is removed from its set when the loop gives it back
(`StaleInv`), while `demux_lock` keeps the next flush from starting a new set (`LockInv`).
`HoldInv` and `OpenInv` say what each thread holds and that the decoder has opened the
port whose buffers it fills. `TypeOK` says that every buffer is in one place. Its invariant
is the same fact in parts that a step can be compared with (`Spread`): both fifos have
each buffer once, they have none in common, and none that `ao_loop` or a thread has. The first two theorems
need it too: a flush empties buffers of their samples, and must not empty one elsewhere. There is
one lemma for each way a buffer moves: `MoveBack`, `MoveIn`, `MoveTake`, `MovePut`. They
need to know at which places of its code a thread has a buffer in hand (`Hands`), or one that
takes a buffer could overwrite another. `Bounded` shows that the bound on
`flush_audio_driver` is kept, which a flush looks at when it begins and reaches when it has
the lock: `demux_lock` admits one at a time.
Assumptions: finitely many buffers, null values outside, any formats, and
one decoder, a thread other than those that flush.

**`Metronom_proofs`**: for fifos of any capacity and any number
of writers. Each fifo is a chain: it holds the discontinuities from the one its decoder has
passed to the last one put, each once and in order, with the data of a segment between the
two that bound it (`Chain`). A put appends the next link, with the audio fifo one behind
while a writer has put half a pair (`AudioEndsAt`); a get takes the first link; a flush
drops data only, which is why it may not drop a control element. So the n-th discontinuity
a decoder reaches is number n. `Together` relates the two: audio has counted every
discontinuity that is handled, and sleeps if it has counted one more. A flush is written
with the places of the elements it keeps, in order, because a proof can use that where it
could not use the recursion in `SelectSeq`.

Only model-checked: liveness (`QueuedLeaves`, `FifoCallsReturn`, `CallsReturn`,
`EndIsHandled`, `FinishIsAnswered`, `DecodersGoOn`, `AudioCallsReturn`, `BufferingEnds`,
`DecoderServed`, `FlushAndExitReturn`) and the absence of deadlock, which is outside the
prover's reach together with ENABLED; and what section 3 refutes, which needs a
counterexample and no proof.

## 5. What is not modelled

Within the modelled parts: the callback tables of the fifo; master and slave
streams, rewiring, the trick modes and the two-second limit of the first-frame wait
(it may end at any time); decoder plugins, channels and track maps; grab-only mode,
blending, frame dropping statistics and the mutex of a single frame in `VideoOut`,
so the lock-order inversion at `video_out.c:891` is a hazard without a property; in
`AudioOut` grab-only ports, `AO_PROP_CLOSE_DEVICE`, which closes the driver without a wait,
and several streams on one port, of which two could wait in `fifo_wait_empty` for the same
signal or set the driver to different formats by turns; in `Metronom` the clock, its
providers and the prediction of times; in `EventQueues` the list of cue points (a cue
point is an event that may be sent at any time); in `McdDriver` the commands that query or
set values; in `NetBufCtrl` the estimate of a fifo's length.
Not modelled at all: picture, sample and drift arithmetic, file formats, sockets and
devices, configuration, rendering, the plugin loader. The reasons are in PROJECT.json.

## 6. What is left

| module | models | why it is left |
|---|---|---|
| `CuePoints` | `events.c:225-319` | arithmetic over a list; its two faults are a finding and a hazard |
| `Clock` | `metronom.c:600-770` | a list of providers read by the sync thread under a lock and changed without it |
| `Rewire`, `Broadcaster` | `xine.c:285-331`, `broadcaster.c` | need the graph of post plugins and the callback tables of several clients |
| `OverlayManager` | `video_overlay.c` | one lock around sequential lists |
| `StreamEngine_proofs` | `FlushDrains`, `FrameWaitHasWaker` without the discipline | two threads may then put elements at once, so that `HeaderInv` has to count the headers of each |
