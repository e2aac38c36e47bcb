----------------------------- MODULE McdDriver -----------------------------
(***************************************************************************)
(* The MCI driver (src/src/mcd/mcd.c): mciDriverEntry, called by threads   *)
(* of applications, and mcd_listener, called by the listener thread of its *)
(* event queue, on one instance.                                           *)
(*                                                                         *)
(* The engine is what the driver sees of it: it plays or does not, an      *)
(* element may end, the decoder thread then stops the stream and sends the *)
(* finish event (StreamEngine has the threads behind it), and the output   *)
(* thread sends cue points for the frames the video port holds, which      *)
(* point to the stream.  The queues are those of EventQueues.  The         *)
(* media device manager that calls the driver is not part of the           *)
(* repository: a command may be given at any time, MCI_CLOSE when no other *)
(* is in progress.  Positions, formats, rates and windows are data that    *)
(* decide nothing here.                                                    *)
(***************************************************************************)
EXTENDS EventQueues

CONSTANTS
  Apps,      \* the threads that give commands
  Mcd,       \* this->event_queue
  MaxCalls   \* bound on the commands between MCI_OPEN and MCI_CLOSE

ASSUME McdAssumption == Mcd \in Listening /\ None \notin Apps
ASSUME SenderAssumption == Senders = {"decoder", "output"}
ASSUME CallsAssumption == MaxCalls \in Nat

VARIABLES
  instance,   \* the tmcdxine: before MCI_OPEN, in use, or freed
  stream,     \* this->stream: the same
  frames,     \* the video port may hold frames of the stream, or a backup
  loaded,     \* an element is open
  status,     \* stream->status
  ending,     \* the decoder thread is in xine_handle_stream_end
  stoppedBy,  \* what stopped the stream: an end, a call, or nothing yet
  playsem,    \* this->playsem
  playflags,  \* this->playflags
  posted,     \* the listener has posted playsem and has yet to read playflags
  pc,         \* where a command is
  calls       \* loads, plays and stops so far (only to bound the model)

\* Auxiliary variables, read by properties only
VARIABLES
  play,       \* the MCI_PLAY whose parameters the instance holds, by its number
  due         \* the MCI_PLAYs that asked for a notice and have had none

engineVars == <<stream, frames, loaded, status, ending, stoppedBy>>
playVars   == <<playflags, play, due>>
driverVars == <<instance, engineVars, playsem, playVars, posted, pc, calls>>
vars == <<queueVars, driverVars>>

Flags   == {"wait", "notify"}
Closing == {"dispose", "close", "stream", "video", "free"}

TypeOK ==
  /\ QueuesTypeOK
  /\ instance \in {"none", "open", "freed"}
  /\ stream \in {"none", "open", "freed"}
  /\ frames \in BOOLEAN /\ loaded \in BOOLEAN
  /\ ending \in BOOLEAN /\ posted \in BOOLEAN
  /\ status \in {"stop", "play"}
  /\ stoppedBy \in {"none", "end", "call", "failure"}
  /\ playsem \in {"none", "reset", "posted"}
  /\ playflags \subseteq Flags
  /\ pc \in [Apps -> {"idle", "listen", "sem", "reset", "play", "wait", "asleep"}
                      \cup Closing]
  /\ calls \in 0..MaxCalls
  /\ play \in 0..MaxCalls
  /\ due \subseteq 1..MaxCalls

Init ==
  /\ QueuesInit
  /\ instance = "none" /\ stream = "none" /\ frames = FALSE /\ loaded = FALSE
  /\ status = "stop" /\ ending = FALSE /\ stoppedBy = "none"
  /\ playsem = "none" /\ playflags = {} /\ posted = FALSE
  /\ pc = [a \in Apps |-> "idle"] /\ calls = 0
  /\ play = 0 /\ due = {}

-----------------------------------------------------------------------------
Goto(a, l) == pc' = [pc EXCEPT ![a] = l]

(* mciDriverEntry is called by a thread with a message other than the ones *)
(* that change no state of the driver.                                     *)
Command(a, l) ==
  /\ pc[a] = "idle" /\ instance = "open"
  /\ \A b \in Apps : pc[b] \notin Closing
  /\ Goto(a, l)

Counted == calls < MaxCalls /\ calls' = calls + 1

(* MM_MCINOTIFY goes to the window of the MCI_PLAY whose parameters the    *)
(* instance holds, if the flags it holds ask for it.                       *)
Notify ==
  /\ due' = IF "notify" \in playflags THEN due \ {play} ELSE due
  /\ UNCHANGED <<playflags, play>>

(* xine_stop                                                               *)
StopStream ==
  /\ status' = "stop"
  /\ stoppedBy' = IF status = "play" THEN "call" ELSE stoppedBy
  /\ UNCHANGED <<stream, frames, ending>>

(* MCI_OPEN allocates the instance, whose playflags are what the memory    *)
(* holds, creates the stream, the queue, its listener and the semaphore,   *)
(* and may open an element.                                                *)
Open(a) ==
  /\ pc[a] = "idle" /\ instance = "none"
  /\ NewQueue(Mcd)
  /\ stream' = "open"
  /\ playflags' \in SUBSET Flags
  /\ Goto(a, "listen")
  /\ UNCHANGED <<instance, frames, loaded, status, ending, stoppedBy, playsem,
                 play, due, posted, calls>>

OpenListener(a) ==
  /\ pc[a] = "listen"
  /\ CreateListener(Mcd)
  /\ Goto(a, "sem")
  /\ UNCHANGED <<instance, engineVars, playsem, playVars, posted, calls>>

OpenSem(a) ==
  /\ pc[a] = "sem"
  /\ playsem' = "reset"
  /\ loaded' \in BOOLEAN
  /\ instance' = "open"
  /\ Goto(a, "idle")
  /\ UNCHANGED <<queueVars, stream, frames, status, ending, stoppedBy, playVars,
                 posted, calls>>

(* MCI_LOAD: xine_open closes the old element, and may fail.               *)
Load(a) ==
  /\ Command(a, "idle") /\ Counted
  /\ StopStream
  /\ loaded' \in BOOLEAN
  /\ UNCHANGED <<queueVars, instance, playsem, playVars, posted>>

(* MCI_PLAY stores what it was given in the instance, over the parameters  *)
(* of the MCI_PLAY before, ...                                             *)
Play(a) ==
  /\ Command(a, "reset") /\ Counted
  /\ playflags' \in SUBSET Flags
  /\ play' = calls'
  /\ due' = IF "notify" \in playflags' THEN due \cup {play'} ELSE due
  /\ UNCHANGED <<queueVars, instance, engineVars, playsem, posted>>

(* ... resets the semaphore, ...                                           *)
ResetSem(a) ==
  /\ pc[a] = "reset"
  /\ playsem' = "reset"
  /\ Goto(a, "play")
  /\ UNCHANGED <<queueVars, instance, engineVars, playVars, posted, calls>>

(* ... calls xine_play, whose result it ignores, ...                       *)
XinePlay(a) ==
  /\ pc[a] = "play"
  /\ \/ /\ loaded
        /\ status' = "play" /\ stoppedBy' = "none" /\ frames' = TRUE
     \/ /\ stoppedBy' = IF status = "play" THEN stoppedBy ELSE "failure"
        /\ UNCHANGED <<status, frames>>
  /\ Goto(a, "wait")
  /\ UNCHANGED <<queueVars, instance, stream, loaded, ending, playsem, playVars,
                 posted, calls>>

(* Mutant: the semaphore is reset after xine_play.                         *)
WaitForEnd_Reset(a) ==
  /\ pc[a] = "wait"
  /\ playsem' = "reset"
  /\ Goto(a, IF "wait" \in playflags THEN "asleep" ELSE "idle")
  /\ UNCHANGED <<queueVars, instance, engineVars, playVars, posted, calls>>

(* ... and waits if the flags, its own or those of a later MCI_PLAY, say so. *)
WaitForEnd(a) ==
  /\ pc[a] = "wait"
  /\ Goto(a, IF "wait" \in playflags /\ playsem = "reset" THEN "asleep" ELSE "idle")
  /\ UNCHANGED <<queueVars, instance, engineVars, playsem, playVars, posted, calls>>

(* MCI_STOP, and MCI_SEEK before it sets the position, stop the stream and *)
(* tell the window that its MCI_PLAY was aborted.                          *)
Stop(a) ==
  /\ Command(a, "idle") /\ Counted
  /\ StopStream
  /\ Notify
  /\ UNCHANGED <<queueVars, instance, loaded, playsem, posted>>

(* MCI_CLOSE disposes of the queue, ...                                    *)
Close(a) ==
  /\ Command(a, "dispose")
  /\ \A b \in Apps : pc[b] \in {"idle", "asleep"}
  /\ UNCHANGED <<queueVars, instance, engineVars, playsem, playVars, posted, calls>>

CloseQueue(a) ==
  /\ pc[a] = "dispose"
  /\ Dispose(Mcd)
  /\ Goto(a, IF life'[Mcd] = "freed" THEN "close" ELSE "dispose")
  /\ UNCHANGED <<instance, engineVars, playsem, playVars, posted, calls>>

(* ... closes the stream, ...                                              *)
CloseStream(a) ==
  /\ pc[a] = "close"
  /\ StopStream
  /\ loaded' = FALSE
  /\ Goto(a, "stream")
  /\ UNCHANGED <<queueVars, instance, playsem, playVars, posted, calls>>

(* ... frees it once the input plugin is disposed of and the decoder       *)
(* threads are joined (the output thread is not), ...                      *)
DisposeStream(a) ==
  /\ pc[a] = "stream"
  /\ \A q \in Queues \ {Mcd} : life[q] \in {"none", "freed"}
  /\ ~ending /\ sending["decoder"] = None
  /\ stream' = "freed"
  /\ Goto(a, "video")
  /\ UNCHANGED <<queueVars, instance, frames, loaded, status, ending, stoppedBy,
                 playsem, playVars, posted, calls>>

(* ... closes the video port, which joins the output thread, ...           *)
CloseVideo(a) ==
  /\ pc[a] = "video"
  /\ sending["output"] = None
  /\ frames' = FALSE
  /\ Goto(a, "free")
  /\ UNCHANGED <<queueVars, instance, stream, loaded, status, ending, stoppedBy,
                 playsem, playVars, posted, calls>>

(* ... and frees the instance.                                             *)
FreeInstance(a) ==
  /\ pc[a] = "free"
  /\ instance' = "freed"
  /\ Goto(a, "idle")
  /\ UNCHANGED <<queueVars, engineVars, playsem, playVars, posted, calls>>

-----------------------------------------------------------------------------
(* The element ends: the decoder thread sets the status, ...               *)
EngineEnds ==
  /\ status = "play" /\ ~ending /\ sending["decoder"] = None
  /\ status' = "stop" /\ stoppedBy' = "end" /\ ending' = TRUE
  /\ UNCHANGED <<queueVars, instance, stream, frames, loaded, playsem, playVars,
                 posted, pc, calls>>

(* ... stops the demux thread, be it one that was started since, and sends *)
(* the event.                                                              *)
SendFinished ==
  /\ ending /\ ending' = FALSE
  /\ Send("decoder", "finished")
  /\ \/ UNCHANGED <<status, stoppedBy>>
     \/ status = "play" /\ status' = "stop" /\ stoppedBy' = "end"
  /\ UNCHANGED <<instance, stream, frames, loaded, playsem, playVars, posted, pc,
                 calls>>

(* The output thread passes a cue point while it shows a frame, one left   *)
(* from the element or the backup included: it sends on the stream the     *)
(* frame points to, be it open, closed or freed.  On a freed stream it may *)
(* crash; here it finds the memory as it was left.                         *)
SendCue ==
  /\ frames
  /\ sent < MaxSends - MaxCalls
  /\ Send("output", "cue")
  /\ UNCHANGED driverVars

Sending == \E s \in Senders : (Deliver(s) \/ Sent(s)) /\ UNCHANGED driverVars

(* mcd_listener at the end of an element posts the semaphore, which lets   *)
(* every thread go that waits for it, ...                                  *)
Finished ==
  /\ listener[Mcd] = "callback" /\ ~posted
  /\ handling[Mcd] # None /\ handling[Mcd].type = "finished"
  /\ posted' = TRUE
  /\ playsem' = "posted"
  /\ pc' = [a \in Apps |-> IF pc[a] = "asleep" THEN "idle" ELSE pc[a]]
  /\ UNCHANGED <<queueVars, instance, engineVars, playVars, calls>>

(* ... and notifies the window with what the instance holds by then.       *)
NotifyFinished ==
  /\ posted /\ posted' = FALSE
  /\ Returned(Mcd)
  /\ Notify
  /\ UNCHANGED <<instance, engineVars, playsem, pc, calls>>

(* At a cue point it only notifies a window of the position.               *)
PositionChange ==
  /\ handling[Mcd] # None /\ handling[Mcd].type = "cue"
  /\ Returned(Mcd)
  /\ UNCHANGED driverVars

Listen == (Sleep(Mcd) \/ Take(Mcd)) /\ UNCHANGED driverVars

(* An input plugin polls a queue of its own while its element is open.     *)
PluginOpens(q)   == q # Mcd /\ loaded /\ NewQueue(q) /\ UNCHANGED driverVars
PluginPolls(q)   == q # Mcd /\ Get(q) /\ UNCHANGED driverVars
PluginDispose(q) == q # Mcd /\ Dispose(q) /\ UNCHANGED driverVars

Commands(a) ==
  \/ Open(a) \/ Load(a) \/ Play(a) \/ Stop(a) \/ Close(a)

Continue(a) ==
  \/ OpenListener(a) \/ OpenSem(a) \/ ResetSem(a) \/ XinePlay(a) \/ WaitForEnd(a)
  \/ CloseQueue(a) \/ CloseStream(a) \/ DisposeStream(a) \/ CloseVideo(a)
  \/ FreeInstance(a)

Plugin == \E q \in Queues : PluginOpens(q) \/ PluginPolls(q) \/ PluginDispose(q)

Next ==
  \/ \E a \in Apps : Commands(a) \/ Continue(a)
  \/ EngineEnds \/ SendFinished \/ SendCue \/ Sending
  \/ Listen \/ Finished \/ NotifyFinished \/ PositionChange
  \/ Plugin

(* A command that was begun goes on, elements end, threads run.            *)
Fairness ==
  /\ \A a \in Apps : WF_vars(Continue(a))
  /\ WF_vars(EngineEnds) /\ WF_vars(SendFinished) /\ WF_vars(Sending)
  /\ WF_vars(Listen) /\ WF_vars(Finished) /\ WF_vars(NotifyFinished)
  /\ WF_vars(PositionChange)
  /\ \A q \in Queues : WF_vars(PluginDispose(q))

Spec == Init /\ [][Next]_vars /\ Fairness

-----------------------------------------------------------------------------
(* What MCI_CLOSE frees is no longer used: a queue by no send, reader or   *)
(* listener; the stream by no decoder thread (xine_dispose joins them);    *)
(* the instance by neither its listener nor any sender, since the ports    *)
(* are closed by then.  And a listener that is called has an instance and  *)
(* a semaphore to work with.  The output thread's use of the stream is     *)
(* StreamOutlivesUse's.                                                    *)
NothingFreedInUse ==
  /\ QueueOutlivesUse
  /\ stream = "freed" => ~ending /\ sending["decoder"] = None /\ status # "play"
  /\ instance = "freed" =>
       /\ listener[Mcd] = "exited" /\ ~posted
       /\ ~ending /\ ~frames /\ \A s \in Senders : sending[s] = None
  /\ listener[Mcd] = "callback" => instance = "open" /\ playsem # "none"

(* Nobody works on the stream after xine_dispose, with which it is "no     *)
(* longer valid" (xine.h).  MCI_CLOSE calls it before it closes the video  *)
(* port, whose thread sends cue points on the stream of a frame it shows.  *)
StreamOutlivesUse == stream = "freed" => \A s \in Senders : sending[s] = None

(* An MCI_PLAY whose element ends by itself is answered: the thread that   *)
(* waits returns and the window is notified (the reset of the semaphore    *)
(* comes before xine_play, the listener posts it at the end).  A stop by   *)
(* another call, a xine_play that fails and an MCI_CLOSE, which takes the  *)
(* queue away before it stops the stream, end the promise: nothing posts   *)
(* the semaphore then.                                                     *)
Excused == stoppedBy \in {"call", "failure"} \/ life[Mcd] # "open"

(* A notice is promised to the last MCI_PLAY only: the next one writes     *)
(* over its flags and its window, which the listener reads after the post, *)
(* so that one whose element had ended by itself may never be answered.    *)
Superseded(n) == play > n

FinishIsAnswered ==
  /\ \A a \in Apps : pc[a] = "asleep" ~> pc[a] # "asleep" \/ Excused
  /\ \A n \in 1..MaxCalls : n \in due ~> n \notin due \/ Excused \/ Superseded(n)
=============================================================================
