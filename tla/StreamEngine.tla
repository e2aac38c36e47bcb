---------------------------- MODULE StreamEngine ----------------------------
(***************************************************************************)
(* Playback control of one stream: xine_open, xine_play, xine_stop,        *)
(* xine_close and xine_dispose of src/src/xine-engine/xine.c, the demux    *)
(* thread and its control functions (demux.c) and the two decoder threads  *)
(* (video_decoder.c, audio_decoder.c), around demux_lock, counter_lock and *)
(* the two fifos.                                                          *)
(*                                                                         *)
(* A step is what a thread does between two points at which another can    *)
(* see or delay it: taking a lock, an alloc that may block, a write that   *)
(* others read without a lock.  Fifos are the queues of MediaQueue with a  *)
(* bounded pool: an alloc is possible while one element stays free.        *)
(* frontend_lock admits one API call at a time: the frontend is one actor. *)
(***************************************************************************)
EXTENDS Integers, Sequences, FiniteSets, SequencesExt, ListOps

CONSTANTS
  DemuxThreads,  \* the demux threads that can exist, each created by a start
  Nobody,        \* no holder of a lock, no thread in stream->demux_thread
  HasAudio,      \* the stream has an audio fifo
  Capacity,      \* elements in the pool of each fifo
  MaxCalls,      \* bound on the frontend's calls and the demuxer's syncs
  Plugins,       \* the demuxer plugins that may be found for a source
  Live,          \* those whose source never ends
  Flushing,      \* those that flush in every seek, not only of a running demuxer
  Syncing,       \* those that may flush in send_chunk, as the DVD input does
  PlayWhen       \* when xine_play is called: "anytime" or only when "settled"

ASSUME CapacityAssumption == Capacity \in Nat /\ Capacity >= 2
ASSUME MaxCallsAssumption == MaxCalls \in Nat
ASSUME DemuxAssumption == Nobody \notin DemuxThreads /\ IsFiniteSet(DemuxThreads)
ASSUME NameAssumption ==
  {"frontend", "video", "audio"} \cap (DemuxThreads \cup {Nobody}) = {}
ASSUME PluginAssumption ==
  "none" \notin Plugins /\ Live \cup Flushing \cup Syncing \subseteq Plugins
ASSUME ModeAssumption == HasAudio \in BOOLEAN /\ PlayWhen \in {"anytime", "settled"}

F == "frontend"
V == "video"
A == "audio"
Threads == {F, V, A} \cup DemuxThreads

VARIABLES
  status,       \* stream->status
  plugin,       \* stream->demux_plugin, or "none"
  source,       \* what get_status of the plugin says: "ok" or "finished"
  running,      \* stream->demux_thread_running
  pending,      \* stream->demux_action_pending
  demuxThread,  \* stream->demux_thread
  demuxLock,    \* the thread that holds stream->demux_lock
  counterLock,  \* the thread that holds stream->counter_lock
  headers,      \* stream->header_count_video and _audio
  finished,     \* stream->finished_count_video and _audio
  firstFrame,   \* stream->first_frame_flag is set
  vq, aq,       \* video_fifo and audio_fifo, as lists of element types
  pc,           \* where each thread is
  ret,          \* where it continues after the function it is in
  msg,          \* the element it puts or handles
  seen,         \* the local `status' of a demux loop
  target,       \* header counts that headers_done waits for
  call,         \* the API call in progress
  calls         \* calls and syncs so far (only to bound the model)

fifos   == <<vq, aq>>
counts  == <<headers, finished>>
locks   == <<demuxLock, counterLock>>
demuxer == <<source, running, pending, demuxThread>>
local   == <<ret, msg, seen, target>>
api     == <<status, plugin, firstFrame, call, calls>>
vars    == <<fifos, counts, locks, demuxer, local, api, pc>>

Flag    == {"no", "yes"}
Control == {"start", "reset", "headers", "nop", "endStream", "endUser", "quit"}
Ends    == {"endStream", "endUser"}
Element == Control \cup {"data"}

Put     == {"putVideo", "putAudio"}
Headers == {"headersLock", "headersVideo", "headersAudio", "headersWait", "synced"}
Flush   == Headers \cup {"clearVideo", "clearAudio", "resetEngine", "resetAudio"}
Stop    == {"stopThread", "stopLock", "joinLock", "join", "wakePlay"}
FrontPC == Put \cup Flush \cup Stop \cup
           {"idle", "stopInternal", "stopCounts", "stopFlush", "stopped",
            "openPlugin", "opened", "playLock", "seek", "sought", "playFailed",
            "startThread", "startLock", "started", "frameWait", "returned",
            "quitAudio", "joinAudio", "quitVideo", "joinVideo", "gone"}
VideoPC == Stop \cup {"get", "headers", "end", "endWait", "streamEnd",
            "setStop", "finishedEvent", "wake", "exited"}
AudioPC == {"get", "headers", "end", "endWait", "exited"}
DemuxPC == Put \cup Flush \cup
           {"none", "loop", "test", "chunkVideo", "chunkAudio", "chunkDone",
            "yield", "drain", "sleep", "awake", "ending", "ended", "exited"}

TypeOK ==
  /\ status \in {"stop", "play", "quit"}
  /\ plugin \in Plugins \cup {"none"}
  /\ source \in {"ok", "finished"}
  /\ running \in Flag /\ pending \in Flag /\ firstFrame \in Flag
  /\ demuxThread \in DemuxThreads \cup {Nobody}
  /\ demuxLock \in Threads \cup {Nobody}
  /\ counterLock \in Threads \cup {Nobody}
  /\ headers \in [video : Nat, audio : Nat]
  /\ finished \in [video : Nat, audio : Nat]
  /\ vq \in Seq(Element) /\ aq \in Seq(Element)
  /\ pc \in [Threads -> FrontPC \cup VideoPC \cup AudioPC \cup DemuxPC]
  /\ pc[F] \in FrontPC /\ pc[V] \in VideoPC /\ pc[A] \in AudioPC
  /\ \A d \in DemuxThreads : pc[d] \in DemuxPC
  /\ ret \in [Threads -> FrontPC \cup VideoPC \cup DemuxPC]
  /\ msg \in [Threads -> Element \cup {"none"}]
  /\ seen \in [DemuxThreads -> {"ok", "finished"}]
  /\ target \in [Threads -> [video : Nat, audio : Nat]]
  /\ call \in {"none", "open", "play", "stop", "close", "dispose"}
  /\ calls \in 0..MaxCalls

Init ==
  /\ status = "stop" /\ plugin = "none" /\ source = "ok"
  /\ running = "no" /\ pending = "no" /\ firstFrame = "no"
  /\ demuxThread = Nobody /\ demuxLock = Nobody /\ counterLock = Nobody
  /\ headers = [video |-> 0, audio |-> 0]
  /\ finished = [video |-> 0, audio |-> 0]
  /\ vq = << >> /\ aq = << >>
  /\ pc = [t \in Threads |->
             IF t = F THEN "idle" ELSE IF t \in {V, A} THEN "get" ELSE "none"]
  /\ ret = [t \in Threads |-> "none"]
  /\ msg = [t \in Threads |-> "none"]
  /\ seen = [d \in DemuxThreads |-> "ok"]
  /\ target = [t \in Threads |-> [video |-> 0, audio |-> 0]]
  /\ call = "none" /\ calls = 0

-----------------------------------------------------------------------------
(* Moving a thread; calling a function that returns to `back'.             *)
At(t, l)   == pc[t] = l
Goto(t, l) == pc' = [pc EXCEPT ![t] = l]
Enter(t, l, back) == Goto(t, l) /\ ret' = [ret EXCEPT ![t] = back]
Back(t) == Enter(t, ret[t], "none")
PutBoth(t, m, back) ==
  Enter(t, "putVideo", back) /\ msg' = [msg EXCEPT ![t] = m]

(* buffer_pool_alloc succeeds: one element stays free, and the one that    *)
(* the decoder works on is not back in the pool yet.                       *)
Room(q, decoder) ==
  Len(q) + (IF pc[decoder] \in {"get", "exited"} THEN 0 ELSE 1) <= Capacity - 2
RoomV == Room(vq, V)
RoomA == Room(aq, A)

(* xine_demux_control_start, _end and _nop: alloc and put, video first.    *)
PutVideo(t) ==
  /\ At(t, "putVideo") /\ RoomV
  /\ vq' = Append(vq, msg[t])
  /\ IF HasAudio THEN Goto(t, "putAudio") /\ UNCHANGED ret ELSE Back(t)
  /\ UNCHANGED <<aq, counts, locks, demuxer, msg, seen, target, api>>

PutAudio(t) ==
  /\ At(t, "putAudio") /\ RoomA
  /\ aq' = Append(aq, msg[t])
  /\ Back(t)
  /\ UNCHANGED <<vq, counts, locks, demuxer, msg, seen, target, api>>

-----------------------------------------------------------------------------
(* xine_demux_flush_engine: clear both fifos, send both a RESET_DECODER,   *)
(* then wait in xine_demux_control_headers_done.                           *)

(* Mutant: the whole fifo is cleared, control elements included.           *)
Kept_Nothing(q) == << >>

Kept(q) == Keep(q, Control)

ClearVideo(t) ==
  /\ At(t, "clearVideo")
  /\ vq' = Kept(vq)
  /\ Goto(t, "clearAudio")
  /\ UNCHANGED <<aq, counts, locks, demuxer, local, api>>

(* The caller's return is kept in ret while the resets are put.            *)
ClearAudio(t) ==
  /\ At(t, "clearAudio")
  /\ aq' = Kept(aq)
  /\ Goto(t, "resetEngine")
  /\ UNCHANGED <<vq, counts, locks, demuxer, local, api>>

ResetVideo(t) ==
  /\ At(t, "resetEngine") /\ RoomV
  /\ vq' = Append(vq, "reset")
  /\ Goto(t, IF HasAudio THEN "resetAudio" ELSE "headersLock")
  /\ UNCHANGED <<aq, counts, locks, demuxer, local, api>>

ResetAudio(t) ==
  /\ At(t, "resetAudio") /\ RoomA
  /\ aq' = Append(aq, "reset")
  /\ Goto(t, "headersLock")
  /\ UNCHANGED <<vq, counts, locks, demuxer, local, api>>

(* Mutant: the counts to wait for are those already reached.               *)
HeadersLock_Reached(t) ==
  /\ At(t, "headersLock") /\ counterLock = Nobody
  /\ counterLock' = t
  /\ target' = [target EXCEPT ![t] = headers]
  /\ Goto(t, "headersVideo")
  /\ UNCHANGED <<fifos, counts, demuxLock, demuxer, ret, msg, seen, api>>

(* xine_demux_control_headers_done: counter_lock is held from the reading  *)
(* of the counts over both allocs to the wait, which releases it.          *)
HeadersLock(t) ==
  /\ At(t, "headersLock") /\ counterLock = Nobody
  /\ counterLock' = t
  /\ target' = [target EXCEPT ![t] =
       [video |-> headers.video + 1,
        audio |-> IF HasAudio THEN headers.audio + 1 ELSE 0]]
  /\ Goto(t, "headersVideo")
  /\ UNCHANGED <<fifos, counts, demuxLock, demuxer, ret, msg, seen, api>>

HeadersVideo(t) ==
  /\ At(t, "headersVideo") /\ RoomV
  /\ vq' = Append(vq, "headers")
  /\ Goto(t, IF HasAudio THEN "headersAudio" ELSE "headersWait")
  /\ counterLock' = IF HasAudio THEN t ELSE Nobody
  /\ UNCHANGED <<aq, counts, demuxLock, demuxer, local, api>>

HeadersAudio(t) ==
  /\ At(t, "headersAudio") /\ RoomA
  /\ aq' = Append(aq, "headers")
  /\ counterLock' = Nobody
  /\ Goto(t, "headersWait")
  /\ UNCHANGED <<vq, counts, demuxLock, demuxer, local, api>>

(* The timed waits make every change of the counters noticed.              *)
HeadersWait(t) ==
  /\ At(t, "headersWait") /\ counterLock = Nobody
  /\ headers.video >= target[t].video
  /\ headers.audio >= target[t].audio
  /\ target' = [target EXCEPT ![t] = [video |-> 0, audio |-> 0]]
  /\ Goto(t, "synced")
  /\ UNCHANGED <<fifos, counts, locks, demuxer, ret, msg, seen, api>>

(* headers_done returns; flush_engine flushes the outputs and returns.     *)
Synced(t) ==
  /\ At(t, "synced")
  /\ Back(t)
  /\ UNCHANGED <<fifos, counts, locks, demuxer, msg, seen, target, api>>

FlushStep(t) ==
  \/ ClearVideo(t) \/ ClearAudio(t) \/ ResetVideo(t) \/ ResetAudio(t)
  \/ HeadersLock(t) \/ HeadersVideo(t) \/ HeadersAudio(t)
  \/ HeadersWait(t) \/ Synced(t)

-----------------------------------------------------------------------------
(* xine_demux_stop_thread, called by the frontend and by the video decoder.*)
StopThread(t) ==
  /\ At(t, "stopThread")
  /\ pending' = "yes"
  /\ Goto(t, "stopLock")
  /\ UNCHANGED <<fifos, counts, locks, source, running, demuxThread, local, api>>

StopLock(t) ==
  /\ At(t, "stopLock") /\ demuxLock = Nobody
  /\ running' = "no" /\ pending' = "no"
  /\ Goto(t, "joinLock")
  /\ UNCHANGED <<fifos, counts, locks, source, demuxThread, local, api>>

JoinLock(t) ==
  /\ At(t, "joinLock") /\ counterLock = Nobody
  /\ counterLock' = t
  /\ Goto(t, "join")
  /\ UNCHANGED <<fifos, counts, demuxLock, demuxer, local, api>>

(* Mutant: the thread is forgotten, not joined.                            *)
Join_Detach(t) ==
  /\ At(t, "join")
  /\ Goto(t, "wakePlay")
  /\ demuxThread' = Nobody
  /\ counterLock' = Nobody
  /\ UNCHANGED <<fifos, counts, demuxLock, source, running, pending, local, api>>

(* "<join; demux_thread = 0;> must be atomic": counter_lock is held.       *)
Join(t) ==
  /\ At(t, "join")
  /\ \/ demuxThread = Nobody /\ Goto(t, "wakePlay")
     \/ /\ demuxThread # Nobody /\ pc[demuxThread] = "exited"
        /\ pc' = [pc EXCEPT ![t] = "wakePlay", ![demuxThread] = "none"]
  /\ demuxThread' = Nobody
  /\ counterLock' = Nobody
  /\ UNCHANGED <<fifos, counts, demuxLock, source, running, pending, local, api>>

WakePlay(t) ==
  /\ At(t, "wakePlay")
  /\ firstFrame' = "no"
  /\ Back(t)
  /\ UNCHANGED <<fifos, counts, locks, demuxer, msg, seen, target,
                 status, plugin, call, calls>>

StopStep(t) ==
  StopThread(t) \/ StopLock(t) \/ JoinLock(t) \/ Join(t) \/ WakePlay(t)

-----------------------------------------------------------------------------
(* demux_loop.                                                             *)
Lock(d, from, to) ==
  /\ At(d, from) /\ demuxLock = Nobody
  /\ demuxLock' = d
  /\ Goto(d, to)

LoopStart(d) ==
  /\ Lock(d, "loop", "test")
  /\ seen' = [seen EXCEPT ![d] = source]
  /\ UNCHANGED <<fifos, counts, counterLock, demuxer, ret, msg, target, api>>

(* send_chunk of the plugin: it queues data in one of the fifos, has       *)
(* nothing to queue, or flushes the engine.                                *)
SendChunk(d) ==
  /\ At(d, "test") /\ seen[d] = "ok" /\ running = "yes"
  /\ \/ \E l \in {"chunkVideo", "chunkDone"} \cup
                 (IF HasAudio THEN {"chunkAudio"} ELSE {}) :
          Goto(d, l) /\ UNCHANGED <<ret, api>>
     \/ /\ plugin \in Syncing /\ calls < MaxCalls
        /\ Enter(d, "clearVideo", "chunkDone")
        /\ calls' = calls + 1
        /\ UNCHANGED <<status, plugin, firstFrame, call>>
  /\ UNCHANGED <<fifos, counts, locks, demuxer, msg, seen, target>>

(* What get_status of the plugin may say next.                             *)
SourceStatus == IF plugin \in Live THEN {"ok"} ELSE {"ok", "finished"}

ChunkData(d) ==
  /\ \/ At(d, "chunkVideo") /\ RoomV /\ vq' = Append(vq, "data") /\ UNCHANGED aq
     \/ At(d, "chunkAudio") /\ RoomA /\ aq' = Append(aq, "data") /\ UNCHANGED vq
  /\ Goto(d, "chunkDone")
  /\ UNCHANGED <<counts, locks, demuxer, local, api>>

(* Mutant: demux_action_pending is not looked at.                          *)
ChunkDone_NoYield(d) ==
  /\ At(d, "chunkDone")
  /\ source' \in SourceStatus
  /\ seen' = [seen EXCEPT ![d] = source']
  /\ Goto(d, "test")
  /\ UNCHANGED <<fifos, counts, locks, running, pending, demuxThread,
                 ret, msg, target, api>>

(* send_chunk returns a status; "someone may want to interrupt us".        *)
ChunkDone(d) ==
  /\ At(d, "chunkDone")
  /\ source' \in SourceStatus
  /\ seen' = [seen EXCEPT ![d] = source']
  /\ demuxLock' = IF pending = "yes" THEN Nobody ELSE d
  /\ Goto(d, IF pending = "yes" THEN "yield" ELSE "test")
  /\ UNCHANGED <<fifos, counts, counterLock, running, pending, demuxThread,
                 ret, msg, target, api>>

Yield(d) ==
  /\ Lock(d, "yield", "test")
  /\ UNCHANGED <<fifos, counts, counterLock, demuxer, local, api>>

(* The inner loop ends; the NOP tells net_buf_ctrl of the end.             *)
InnerEnd(d) ==
  /\ At(d, "test") /\ ~(seen[d] = "ok" /\ running = "yes")
  /\ PutBoth(d, "nop", "drain")
  /\ UNCHANGED <<fifos, counts, locks, demuxer, seen, target, api>>

(* "wait before sending end buffers: user might want to do a new seek".    *)
Draining(d) ==
  /\ running = "yes" /\ seen[d] = "finished"
  /\ vq # << >> \/ (HasAudio /\ aq # << >>)

DrainSleep(d) ==
  /\ At(d, "drain") /\ Draining(d)
  /\ demuxLock' = Nobody
  /\ Goto(d, "sleep")
  /\ UNCHANGED <<fifos, counts, counterLock, demuxer, local, api>>

DrainWake(d) ==
  /\ Lock(d, "sleep", "drain")
  /\ seen' = [seen EXCEPT ![d] = source]
  /\ UNCHANGED <<fifos, counts, counterLock, demuxer, ret, msg, target, api>>

(* Mutant: the END is not sent.                                            *)
Drained_NoEnd(d) ==
  /\ At(d, "drain") /\ ~Draining(d)
  /\ Goto(d, "ended")
  /\ UNCHANGED <<fifos, counts, locks, demuxer, local, api>>

(* The outer loop starts over after a seek, else the END is sent.          *)
Drained(d) ==
  /\ At(d, "drain") /\ ~Draining(d)
  /\ IF seen[d] = "ok" /\ running = "yes"
     THEN /\ seen' = [seen EXCEPT ![d] = source]
          /\ Goto(d, "test")
          /\ UNCHANGED <<ret, msg>>
     ELSE /\ PutBoth(d, IF running = "yes" THEN "endStream" ELSE "endUser", "ended")
          /\ UNCHANGED seen
  /\ UNCHANGED <<fifos, counts, locks, demuxer, target, api>>

LoopEnd(d) ==
  /\ At(d, "ended")
  /\ running' = "no"
  /\ demuxLock' = Nobody
  /\ msg' = [msg EXCEPT ![d] = "none"]
  /\ Goto(d, "exited")
  /\ UNCHANGED <<fifos, counts, counterLock, source, pending, demuxThread,
                 ret, seen, target, api>>

DemuxStep(d) ==
  \/ LoopStart(d) \/ SendChunk(d) \/ ChunkData(d) \/ ChunkDone(d) \/ Yield(d)
  \/ InnerEnd(d) \/ DrainSleep(d) \/ DrainWake(d) \/ Drained(d) \/ LoopEnd(d)
  \/ PutVideo(d) \/ PutAudio(d) \/ FlushStep(d)

-----------------------------------------------------------------------------
(* video_decoder_loop and audio_decoder_loop.                              *)
Handled(m) ==
  CASE m = "headers" -> "headers"
    [] m \in Ends    -> "end"
    [] m = "quit"    -> "exited"
    [] OTHER         -> "get"   \* decoded, reset, or ignored: freed at once

VideoGet ==
  /\ At(V, "get") /\ vq # << >>
  /\ vq' = Tail(vq)
  /\ Goto(V, Handled(Head(vq)))
  /\ msg' = [msg EXCEPT ![V] = IF Head(vq) \in Ends THEN Head(vq) ELSE "none"]
  /\ UNCHANGED <<aq, counts, locks, demuxer, ret, seen, target, api>>

VideoHeaders ==
  /\ At(V, "headers") /\ counterLock = Nobody
  /\ headers' = [headers EXCEPT !.video = @ + 1]
  /\ Goto(V, "get")
  /\ UNCHANGED <<fifos, finished, locks, demuxer, local, api>>

VideoEnd ==
  /\ At(V, "end") /\ counterLock = Nobody
  /\ finished' = [finished EXCEPT !.video = @ + 1]
  /\ Goto(V, "endWait")
  /\ UNCHANGED <<fifos, headers, locks, demuxer, local, api>>

(* Mutant: an off-by-one, video waits for an END more than it has seen.    *)
VideoEndWait_OneMore ==
  /\ At(V, "endWait") /\ counterLock = Nobody
  /\ HasAudio => finished.video < finished.audio
  /\ Goto(V, "streamEnd")
  /\ UNCHANGED <<fifos, counts, locks, demuxer, local, api>>

(* "wait for audio to reach this marker, if necessary".                    *)
VideoEndWait ==
  /\ At(V, "endWait") /\ counterLock = Nobody
  /\ HasAudio => finished.video <= finished.audio
  /\ Goto(V, "streamEnd")
  /\ UNCHANGED <<fifos, counts, locks, demuxer, local, api>>

(* xine_handle_stream_end: the test, the write, stop_thread, the event.    *)
StreamEnd ==
  /\ At(V, "streamEnd")
  /\ Goto(V, IF status = "quit" THEN "wake" ELSE "setStop")
  /\ UNCHANGED <<fifos, counts, locks, demuxer, local, api>>

(* Mutant: the video decoder itself stops the stream and flushes.          *)
SetStop_Flush ==
  /\ At(V, "setStop")
  /\ status' = "stop"
  /\ Enter(V, "clearVideo", "finishedEvent")
  /\ UNCHANGED <<fifos, counts, locks, demuxer, msg, seen, target,
                 plugin, firstFrame, call, calls>>

SetStop ==
  /\ At(V, "setStop")
  /\ status' = "stop"
  /\ Enter(V, "stopThread", "finishedEvent")
  /\ UNCHANGED <<fifos, counts, locks, demuxer, msg, seen, target,
                 plugin, firstFrame, call, calls>>

(* XINE_EVENT_UI_PLAYBACK_FINISHED is sent if msg[V] is an endStream.      *)
FinishedEvent ==
  /\ At(V, "finishedEvent")
  /\ Goto(V, "wake")
  /\ UNCHANGED <<fifos, counts, locks, demuxer, local, api>>

Wake ==
  /\ At(V, "wake")
  /\ firstFrame' = "no"
  /\ msg' = [msg EXCEPT ![V] = "none"]
  /\ Goto(V, "get")
  /\ UNCHANGED <<fifos, counts, locks, demuxer, ret, seen, target,
                 status, plugin, call, calls>>

VideoStep ==
  \/ VideoGet \/ VideoHeaders \/ VideoEnd \/ VideoEndWait
  \/ StreamEnd \/ SetStop \/ FinishedEvent \/ Wake \/ StopStep(V)

AudioGet ==
  /\ At(A, "get") /\ aq # << >>
  /\ aq' = Tail(aq)
  /\ Goto(A, Handled(Head(aq)))
  /\ UNCHANGED <<vq, counts, locks, demuxer, local, api>>

AudioHeaders ==
  /\ At(A, "headers") /\ counterLock = Nobody
  /\ headers' = [headers EXCEPT !.audio = @ + 1]
  /\ Goto(A, "get")
  /\ UNCHANGED <<fifos, finished, locks, demuxer, local, api>>

(* Mutant: audio counts its END and goes on, without the wait for video.   *)
AudioEnd_GoesOn ==
  /\ At(A, "end") /\ counterLock = Nobody
  /\ finished' = [finished EXCEPT !.audio = @ + 1]
  /\ Goto(A, "get")
  /\ UNCHANGED <<fifos, headers, locks, demuxer, local, api>>

AudioEnd ==
  /\ At(A, "end") /\ counterLock = Nobody
  /\ finished' = [finished EXCEPT !.audio = @ + 1]
  /\ Goto(A, "endWait")
  /\ UNCHANGED <<fifos, headers, locks, demuxer, local, api>>

AudioEndWait ==
  /\ At(A, "endWait") /\ counterLock = Nobody
  /\ finished.audio <= finished.video
  /\ Goto(A, "get")
  /\ UNCHANGED <<fifos, counts, locks, demuxer, local, api>>

AudioStep == AudioGet \/ AudioHeaders \/ AudioEnd \/ AudioEndWait

-----------------------------------------------------------------------------
(* The frontend's calls.                                                   *)
Call(name, l) ==
  /\ At(F, "idle") /\ calls < MaxCalls
  /\ calls' = calls + 1
  /\ call' = name
  /\ Goto(F, l)

(* The demuxer has ended, and no END is on its way to the decoders or      *)
(* being handled.                                                          *)
Settled ==
  /\ running = "no" /\ At(V, "get") /\ At(A, "get")
  /\ \A i \in 1..Len(vq) : vq[i] \notin Ends
  /\ \A i \in 1..Len(aq) : aq[i] \notin Ends

(* xine.c calls for no such restraint: under "anytime" any source is       *)
(* sought while it runs.  Under "settled", a discipline of the front end,  *)
(* only a live source is (it sends no END of its own that the seek could   *)
(* meet), and a file is played again when it has ended or was stopped.     *)
CallPlay ==
  /\ Call("play", "playLock")
  /\ plugin # "none"
  /\ \E d \in DemuxThreads : pc[d] = "none"
  /\ PlayWhen = "anytime" \/ Settled \/ (plugin \in Live /\ running = "yes")
  /\ pending' = "yes"
  /\ UNCHANGED <<fifos, counts, locks, source, running, demuxThread, local,
                 status, plugin, firstFrame>>

CallStop ==
  /\ \/ Call("open", "stopInternal") \/ Call("stop", "stopInternal")
     \/ Call("close", "stopInternal")
  /\ UNCHANGED <<fifos, counts, locks, demuxer, local, status, plugin, firstFrame>>

(* xine_dispose writes the status before it takes frontend_lock.           *)
CallDispose ==
  /\ Call("dispose", "stopInternal")
  /\ status' = "quit"
  /\ UNCHANGED <<fifos, counts, locks, demuxer, local, plugin, firstFrame>>

(* xine_stop_internal.                                                     *)
StopInternal ==
  /\ At(F, "stopInternal")
  /\ Goto(F, IF status = "stop" THEN "stopped" ELSE "stopCounts")
  /\ status' = IF status = "quit" THEN "quit" ELSE "stop"
  /\ UNCHANGED <<fifos, counts, locks, demuxer, local,
                 plugin, firstFrame, call, calls>>

(* The counts it reads under counter_lock are not used ("#if 0").          *)
StopCounts ==
  /\ At(F, "stopCounts") /\ counterLock = Nobody
  /\ IF plugin # "none" THEN Enter(F, "stopThread", "stopFlush")
                        ELSE Goto(F, "stopped") /\ UNCHANGED ret
  /\ UNCHANGED <<fifos, counts, locks, demuxer, msg, seen, target, api>>

StopFlush ==
  /\ At(F, "stopFlush")
  /\ Enter(F, "clearVideo", "stopped")
  /\ UNCHANGED <<fifos, counts, locks, demuxer, msg, seen, target, api>>

(* xine_stop returns; xine_close_internal disposes of the plugin.          *)
Stopped ==
  /\ At(F, "stopped")
  /\ plugin' = IF call = "stop" THEN plugin ELSE "none"
  /\ Goto(F, CASE call = "open" -> "openPlugin"
               [] call = "dispose" -> IF HasAudio THEN "quitAudio" ELSE "quitVideo"
               [] OTHER -> "returned")
  /\ UNCHANGED <<fifos, counts, locks, demuxer, local, status, firstFrame, call, calls>>

(* xine_open_internal: the new demuxer sends its headers; or none is found *)
(* and a NOP is sent; or there is no input.  Then the headers are waited   *)
(* for, or the demuxer has failed.                                         *)
OpenPlugin ==
  /\ At(F, "openPlugin")
  /\ \/ /\ plugin' \in Plugins /\ source' = "ok" /\ status' = status
        /\ PutBoth(F, "start", "opened")
     \/ /\ plugin' = "none" /\ source' = source /\ status' = "stop"
        /\ PutBoth(F, "nop", "returned")
     \/ /\ plugin' = "none" /\ source' = source /\ status' = "stop"
        /\ Goto(F, "returned") /\ UNCHANGED <<ret, msg>>
  /\ UNCHANGED <<fifos, counts, locks, running, pending, demuxThread,
                 seen, target, firstFrame, call, calls>>

Opened ==
  /\ At(F, "opened")
  /\ \/ Enter(F, "headersLock", "returned") /\ UNCHANGED <<plugin, status>>
     \/ Goto(F, "returned") /\ plugin' = "none" /\ status' = "stop" /\ UNCHANGED ret
  /\ UNCHANGED <<fifos, counts, locks, demuxer, msg, seen, target,
                 firstFrame, call, calls>>

(* xine_play_internal.  The demuxer is suspended while demux_lock is held; *)
(* whether its seek flushes the engine depends on the plugin.              *)
PlayLock ==
  /\ Lock(F, "playLock", "seek")
  /\ UNCHANGED <<fifos, counts, counterLock, demuxer, local, api>>

Seek ==
  /\ At(F, "seek")
  /\ IF plugin \in Flushing \/ running = "yes"
     THEN Enter(F, "clearVideo", "sought")
     ELSE Goto(F, "sought") /\ UNCHANGED ret
  /\ UNCHANGED <<fifos, counts, locks, demuxer, msg, seen, target, api>>

Sought ==
  /\ At(F, "sought")
  /\ source' \in SourceStatus
  /\ pending' = "no"
  /\ firstFrame' = "yes"
  /\ demuxLock' = Nobody
  /\ Goto(F, IF source' = "ok" THEN "startThread" ELSE "playFailed")
  /\ UNCHANGED <<fifos, counts, counterLock, running, demuxThread, local,
                 status, plugin, call, calls>>

PlayFailed ==
  /\ At(F, "playFailed")
  /\ firstFrame' = "no"
  /\ Goto(F, "returned")
  /\ UNCHANGED <<fifos, counts, locks, demuxer, local, status, plugin, call, calls>>

(* xine_demux_start_thread: the pending flag, then the start under lock.   *)
StartThread ==
  /\ At(F, "startThread")
  /\ pending' = "yes"
  /\ Goto(F, "startLock")
  /\ UNCHANGED <<fifos, counts, locks, source, running, demuxThread, local, api>>

StartLock ==
  /\ At(F, "startLock") /\ demuxLock = Nobody
  /\ pending' = "no"
  /\ \/ /\ running = "yes"
        /\ Goto(F, "started")
        /\ UNCHANGED <<running, demuxThread>>
     \/ \E d \in DemuxThreads :
          /\ running = "no" /\ pc[d] = "none"
          /\ running' = "yes"
          /\ demuxThread' = d
          /\ pc' = [pc EXCEPT ![F] = "started", ![d] = "loop"]
  /\ UNCHANGED <<fifos, counts, locks, source, local, api>>

Started ==
  /\ At(F, "started")
  /\ status' = "play"
  /\ Goto(F, "frameWait")
  /\ UNCHANGED <<fifos, counts, locks, demuxer, local, plugin, firstFrame, call, calls>>

(* A frame is shown, somebody clears the flag, or two seconds have passed. *)
FrameWait ==
  /\ At(F, "frameWait")
  /\ Goto(F, "returned")
  /\ UNCHANGED <<fifos, counts, locks, demuxer, local, api>>

(* The video output shows the first frame of what is played (video_out.c). *)
FirstFrame ==
  /\ firstFrame = "yes"
  /\ firstFrame' = "no"
  /\ UNCHANGED <<fifos, counts, locks, demuxer, local, pc,
                 status, plugin, call, calls>>

Returned ==
  /\ At(F, "returned")
  /\ call' = "none"
  /\ msg' = [msg EXCEPT ![F] = "none"]
  /\ Goto(F, "idle")
  /\ UNCHANGED <<fifos, counts, locks, demuxer, ret, seen, target,
                 status, plugin, firstFrame, calls>>

(* The end of xine_dispose: the decoder threads are sent a QUIT and joined.*)
QuitAudio ==
  /\ At(F, "quitAudio") /\ RoomA
  /\ aq' = Append(aq, "quit")
  /\ Goto(F, "joinAudio")
  /\ UNCHANGED <<vq, counts, locks, demuxer, local, api>>

QuitVideo ==
  /\ At(F, "quitVideo") /\ RoomV
  /\ vq' = Append(vq, "quit")
  /\ Goto(F, "joinVideo")
  /\ UNCHANGED <<aq, counts, locks, demuxer, local, api>>

JoinDecoder ==
  /\ \/ At(F, "joinAudio") /\ At(A, "exited") /\ Goto(F, "quitVideo") /\ UNCHANGED call
     \/ At(F, "joinVideo") /\ At(V, "exited") /\ Goto(F, "gone") /\ call' = "none"
  /\ UNCHANGED <<fifos, counts, locks, demuxer, local, status, plugin, firstFrame, calls>>

FrontCall == CallPlay \/ CallStop \/ CallDispose

FrontStep ==
  \/ StopInternal \/ StopCounts \/ StopFlush \/ Stopped \/ OpenPlugin \/ Opened
  \/ PlayLock \/ Seek \/ Sought \/ PlayFailed \/ StartThread \/ StartLock
  \/ Started \/ FrameWait \/ Returned \/ QuitAudio \/ QuitVideo \/ JoinDecoder
  \/ PutVideo(F) \/ PutAudio(F) \/ FlushStep(F) \/ StopStep(F)

(* Everything has come to rest and the bound on calls is reached, or the   *)
(* stream is gone: the only way in which the system may stop.              *)
Rest ==
  /\ pc[F] \in {"idle", "gone"} /\ pc[V] \in {"get", "exited"}
  /\ pc[A] \in {"get", "exited"} /\ vq = << >> /\ aq = << >>
  /\ \A d \in DemuxThreads : pc[d] \in {"none", "exited"}
  /\ UNCHANGED vars

Next ==
  \/ FrontCall \/ FrontStep \/ VideoStep \/ AudioStep \/ FirstFrame \/ Rest
  \/ \E d \in DemuxThreads : DemuxStep(d)

Spec == Init /\ [][Next]_vars

(* Threads are scheduled; a mutex that is free again and again is granted  *)
(* (the demux loop yields or sleeps when it has released demux_lock).      *)
Granted(t) ==
  \/ StopLock(t) \/ JoinLock(t) \/ HeadersLock(t) \/ HeadersWait(t)
  \/ t = F /\ (PlayLock \/ StartLock \/ StopCounts)
  \/ t = V /\ (VideoHeaders \/ VideoEnd \/ VideoEndWait)
  \/ t = A /\ (AudioHeaders \/ AudioEnd \/ AudioEndWait)
  \/ t \in DemuxThreads /\ (LoopStart(t) \/ Yield(t) \/ DrainWake(t))

Fairness ==
  /\ WF_vars(FrontStep) /\ WF_vars(VideoStep) /\ WF_vars(AudioStep)
  /\ \A d \in DemuxThreads : WF_vars(DemuxStep(d))
  /\ \A t \in Threads : SF_vars(Granted(t))

FairSpec == Spec /\ Fairness

-----------------------------------------------------------------------------
(* Properties.                                                             *)
Looping(d) == pc[d] \in {"loop", "test", "chunkVideo", "chunkAudio", "chunkDone",
                         "yield", "sleep", "drain"} \/ pc[d] \in Flush

(* Whoever returns from headers_done finds that "everything gets           *)
(* processed": the fifos are empty and no decoder holds an old element,    *)
(* so that the outputs are not flushed too early.                          *)
FlushDrains ==
  \A t \in Threads : pc[t] = "synced" => vq = << >> /\ aq = << >>

(* A thread that joins the demux thread holds counter_lock; the thread     *)
(* that is joined never needs that lock any more, although its plugin may  *)
(* flush the engine from send_chunk.                                       *)
JoinedNeedsNoLock ==
  \A t \in {F, V} : pc[t] = "join" /\ demuxThread # Nobody
                      => pc[demuxThread] \notin Flush

(* Neither decoder leaves an END before the other has reached it too, so   *)
(* that the END ends the stream once (video_decoder_loop and               *)
(* audio_decoder_loop wait for each other's count).                        *)
EndsTogether ==
  HasAudio =>
    /\ pc[V] \notin {"endWait"} => finished.video <= finished.audio
    /\ pc[A] \notin {"endWait"} => finished.audio <= finished.video

(* The ENDs a decoder has counted, is about to count, will take from its   *)
(* fifo or is still to be sent by xine_demux_control_end.                  *)
IsEnd     == [e \in Element |-> IF e \in Ends THEN 1 ELSE 0]
EndsIn(q) == Total(q, IsEnd)
AtEnd(t)  == IF pc[t] = "end" THEN 1 ELSE 0
HalfSent  == \E d \in DemuxThreads : pc[d] = "putAudio" /\ msg[d] \in Ends
EndsOfVideo == finished.video + EndsIn(vq) + AtEnd(V)
EndsOfAudio == finished.audio + EndsIn(aq) + AtEnd(A) + (IF HalfSent THEN 1 ELSE 0)

(* Every END of one fifo has its counterpart in the other, whatever seeks, *)
(* flushes and stops come between the two puts and the two decoders        *)
(* (fifo_buffer_clear keeps control buffers): without it the decoder that  *)
(* has reached its END waits for ever.                                     *)
EndsPaired == HasAudio => EndsOfVideo = EndsOfAudio

(* "demux_thread_running is zero if demux loop has being stopped by user"  *)
(* (demux.c:280): an END of the user is sent while the user stops the      *)
(* stream.  The END of an older thread, handled late, stops the thread of  *)
(* a newer xine_play as well.                                              *)
UserStops ==
  \A d \in DemuxThreads : pc[d] \in Put /\ msg[d] = "endUser"
                            => call \in {"open", "stop", "close", "dispose"}

(* "user might want to do a new seek" (demux.c:262): the END of the stream *)
(* is sent when the source has ended, and no seek that succeeded meanwhile *)
(* is lost.  The loop decides on the status it read before it gave up the  *)
(* lock.                                                                   *)
EndMeansFinished ==
  \A d \in DemuxThreads : pc[d] \in Put /\ msg[d] = "endStream"
                            => source = "finished"

(* No thread is lost: every demux thread that was created and not joined   *)
(* is the one that stream->demux_thread names, so that it can be joined.   *)
ThreadKept == \A d \in DemuxThreads : pc[d] # "none" => demuxThread = d

(* No demux thread is in its loop, and uses the plugin, once the frontend  *)
(* has stopped the stream: xine_close then disposes of the plugin.         *)
StoppedIsStopped ==
  pc[F] = "stopped" \/ plugin = "none" => \A d \in DemuxThreads : ~Looping(d)

(* The demux thread is accounted for through starts, stops and joins: its  *)
(* handle is kept, who joins it holds nothing that it still wants, and it  *)
(* has left its loop when the frontend goes on to dispose of the plugin.   *)
ThreadAccounted == ThreadKept /\ JoinedNeedsNoLock /\ StoppedIsStopped

(* The status is PLAY only while somebody is left who will end playback.   *)
PlayIsLive ==
  status = "play" /\ pc[F] = "idle" =>
    \/ \E d \in DemuxThreads : pc[d] \notin {"none", "exited"}
    \/ \E i \in 1..Len(vq) : vq[i] \in Ends
    \/ pc[V] # "get"

(* While xine_play waits for a frame somebody will wake it at the latest   *)
(* when the stream ends.                                                   *)
FrameWaitHasWaker ==
  pc[F] = "frameWait" /\ firstFrame = "yes" =>
    \/ \E d \in DemuxThreads : pc[d] \notin {"none", "exited"}
    \/ \E i \in 1..Len(vq) : vq[i] \in Ends
    \/ pc[V] \in Stop \cup {"end", "endWait", "streamEnd", "setStop",
                             "finishedEvent", "wake"}

(* Every API call returns.                                                 *)
CallsReturn == (call # "none") ~> (call = "none")

(* An END that is queued is handled by the video decoder.                  *)
EndIsHandled ==
  (\E i \in 1..Len(vq) : vq[i] \in Ends) ~> (pc[V] = "wake")
=============================================================================
