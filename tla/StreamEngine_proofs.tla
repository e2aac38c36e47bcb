------------------------ MODULE StreamEngine_proofs ------------------------
(***************************************************************************)
(* Proofs about playback control, for every number of demux threads, size  *)
(* of the fifos, set of plugins and number of calls.                       *)
(*                                                                         *)
(* What holds whatever the application does is Frame: where a function     *)
(* returns to and what it puts; and that the ENDs of the two fifos are     *)
(* paired, through every seek and stop.  The rest needs an application     *)
(* that waits for the end of what it plays before it plays again (PlayWhen *)
(* is "settled"), and is proved of those.                                  *)
(***************************************************************************)
EXTENDS StreamEngine, ListOps_proofs

-----------------------------------------------------------------------------
(* Who is where.                                                           *)

(* xine_play, up to the start of the thread; a stop, up to the join; and   *)
(* what the frontend does without demux_lock once the thread has left its  *)
(* loop.                                                                   *)
Playing  == \/ pc[F] \in {"playLock", "seek", "sought", "startThread", "startLock"}
            \/ pc[F] \in Flush /\ ret[F] = "sought"
Joining  == pc[F] \in {"joinLock", "join"}
Stopping == Joining \/ pc[F] \in {"stopCounts", "stopThread", "stopLock"}
Alone    == \/ pc[F] \in {"wakePlay", "stopFlush", "stopped", "openPlugin", "opened",
                          "quitAudio", "joinAudio", "quitVideo", "joinVideo", "gone"}
            \/ pc[F] \in Put
            \/ pc[F] \in Flush /\ ret[F] # "sought"
Disposing == call = "dispose" \/ pc[F] = "gone"

(* A demux thread that is in its loop or puts elements; that has not put   *)
(* its END in any fifo; in the video fifo only; everywhere.                *)
Busy(d)   == pc[d] \notin {"none", "ended", "exited"}
Halfway(d) == pc[d] = "putAudio" /\ ret[d] = "ended"
Before(d) == Busy(d) /\ ~Halfway(d)
Past(d)   == Halfway(d) \/ pc[d] \in {"ended", "exited"}

-----------------------------------------------------------------------------
(* The frame: return addresses and messages.                               *)
FrontFrame ==
  /\ pc[F] \in Put => ret[F] \in {"opened", "returned"} /\ msg[F] \in {"start", "nop"}
  /\ pc[F] \in Flush => ret[F] \in {"stopped", "sought", "returned"}
  /\ pc[F] \in Flush /\ ret[F] = "returned" => pc[F] \in Headers
  /\ pc[F] \in Stop => ret[F] = "stopFlush"
  /\ pc[F] \in {"playFailed", "started", "frameWait"} \/ Playing => call = "play"
  /\ pc[F] \in {"stopInternal", "stopCounts", "stopFlush", "stopped"} \cup Stop
       \/ (pc[F] \in Flush /\ ret[F] = "stopped")
       => call \in {"open", "stop", "close", "dispose"}
  /\ pc[F] \in {"openPlugin", "opened"} \cup Put
       \/ (pc[F] \in Flush /\ ret[F] = "returned") => call = "open"
  /\ pc[F] \in {"quitAudio", "joinAudio", "quitVideo", "joinVideo"} => call = "dispose"
  /\ pc[F] \in {"quitAudio", "joinAudio"} => HasAudio
  /\ pc[F] = "returned" => call # "dispose"
  /\ pc[F] \in {"idle", "gone"} => call = "none"
  /\ status = "quit" => Disposing

VideoFrame == pc[V] \in Stop => ret[V] = "finishedEvent"

DemuxFrame(d) ==
  /\ pc[d] \in Put => \/ ret[d] = "drain" /\ msg[d] = "nop"
                      \/ ret[d] = "ended" /\ msg[d] \in Ends
  /\ pc[d] \in Flush => ret[d] = "chunkDone"

NoAudio == ~HasAudio =>
  /\ aq = << >> /\ pc[A] = "get"
  /\ \A t \in Threads : pc[t] \notin {"putAudio", "headersAudio", "resetAudio", "chunkAudio"}

Frame ==
  /\ TypeOK /\ FrontFrame /\ VideoFrame /\ NoAudio /\ EndsTogether
  /\ \A d \in DemuxThreads : DemuxFrame(d)

-----------------------------------------------------------------------------
(* demux_lock                                                              *)
Locked == Put \cup Flush \cup
          {"test", "chunkVideo", "chunkAudio", "chunkDone", "drain", "ended"}
LockInv ==
  /\ demuxLock \in {F, Nobody} \cup DemuxThreads
  /\ demuxLock = F <=> pc[F] \in {"seek", "sought"} \/ (pc[F] \in Flush /\ ret[F] = "sought")
  /\ \A d \in DemuxThreads : demuxLock = d <=> pc[d] \in Locked

-----------------------------------------------------------------------------
(* ENDs: there is at most one on its way in each fifo.                     *)
No(q, S)      == \A i \in 1..Len(q) : q[i] \notin S
AtMostOne(q, S) == \A i, j \in 1..Len(q) : q[i] \in S /\ q[j] \in S => i = j

EndingV == {"end", "endWait", "streamEnd", "setStop", "stopThread", "stopLock",
            "joinLock", "join"}
AfterV  == {"wakePlay", "finishedEvent", "wake"}

(* An END is on its way in the video fifo or handled, up to the join.      *)
EndInVideo == ~No(vq, Ends) \/ pc[V] \in EndingV

NoEnds ==
  /\ No(vq, Ends) /\ No(aq, Ends)
  /\ pc[V] \in {"get", "headers", "exited"} /\ pc[A] \in {"get", "headers", "exited"}

(* An END that is not counted yet.                                         *)
DueV == ~No(vq, Ends) \/ pc[V] = "end"
DueA == \/ ~No(aq, Ends) \/ pc[A] = "end"
        \/ \E d \in DemuxThreads : Halfway(d)

EndInv ==
  /\ AtMostOne(vq, Ends) /\ AtMostOne(aq, Ends)
  /\ pc[V] \in EndingV \cup AfterV => No(vq, Ends)
  /\ pc[A] = "end" => No(aq, Ends)
  /\ \A d \in DemuxThreads : Halfway(d) => No(aq, Ends) /\ pc[A] # "end"
  /\ HasAudio =>
       /\ (DueV <=> DueA) => finished.video = finished.audio
       /\ DueV /\ ~DueA => finished.audio = finished.video + 1
       /\ DueA /\ ~DueV => finished.video = finished.audio + 1
  /\ pc[V] \in (EndingV \cup AfterV) \ {"end", "endWait"} => ~DueA

-----------------------------------------------------------------------------
(* The demux thread.                                                       *)
ThreadInv ==
  /\ demuxThread # Nobody => pc[demuxThread] # "none"
  /\ running = "yes" => demuxThread # Nobody /\ pc[demuxThread] # "exited"
  /\ \A t \in {F, V} : pc[t] \in {"joinLock", "join"} => running = "no"
  /\ Playing => NoEnds /\ plugin # "none" /\ (running = "no" \/ plugin \in Live)
  /\ pc[F] = "started" => plugin # "none"
  /\ pc[F] \in Put /\ ret[F] = "returned" => plugin = "none"
  /\ plugin \in Live => source = "ok"
  /\ pc[F] \in {"started", "frameWait"} /\ firstFrame = "yes" =>
       demuxThread # Nobody \/ pc[V] = "wakePlay"

OneThread(d) ==
  /\ pc[d] # "none" => demuxThread = d
  /\ Before(d) => NoEnds
  /\ Before(d) /\ running = "no" => Joining
  /\ Past(d) => EndInVideo \/ Disposing
  /\ Busy(d) => plugin # "none" /\ ~Alone
  /\ Busy(d) /\ status = "stop" => pc[F] = "started" \/ Stopping
  /\ running = "no" => pc[d] \notin Flush \cup {"chunkVideo", "chunkAudio", "chunkDone"}
  /\ Busy(d) /\ pc[d] # "loop" /\ ~(pc[d] \in Put /\ ret[d] = "ended") => seen[d] = source
  /\ pc[d] \in Put /\ msg[d] = "endStream" => source = "finished"
  /\ pc[d] \in Put /\ msg[d] = "endUser" => Joining
  /\ Past(d) /\ running = "yes" /\ plugin \in Live => Alone /\ call = "open"

-----------------------------------------------------------------------------
(* Waiting for the headers: at most one thread puts elements, and the last *)
(* of them is the one it waits for.                                        *)
Flushers == {F} \cup DemuxThreads
Hdr == {"headers"}
NoHeaders ==
  /\ No(vq, Hdr) /\ No(aq, Hdr) /\ pc[V] # "headers" /\ pc[A] # "headers"

(* The last element is the only one of its kind.                           *)
OnlyLast(q, e) == \A i \in 1..Len(q) : q[i] = e <=> i = Len(q)

Awaits(q, p, n, goal) ==
  \/ n = goal /\ q = << >> /\ p = "get"
  \/ n + 1 = goal /\ q = << >> /\ p = "headers"
  \/ /\ n + 1 = goal /\ q # << >> /\ p # "headers"
     /\ OnlyLast(q, "headers")

HeaderInv ==
  /\ (\A t \in Flushers : pc[t] \notin {"headersAudio", "headersWait"}) => NoHeaders
  /\ \A t \in Flushers :
       /\ pc[t] = "headersVideo" =>
            target[t].video = headers.video + 1 /\ (HasAudio => target[t].audio = headers.audio + 1)
       /\ pc[t] = "headersAudio" =>
            /\ Awaits(vq, pc[V], headers.video, target[t].video)
            /\ No(aq, Hdr) /\ pc[A] # "headers" /\ target[t].audio = headers.audio + 1
       /\ pc[t] = "headersWait" =>
            /\ Awaits(vq, pc[V], headers.video, target[t].video)
            /\ HasAudio => Awaits(aq, pc[A], headers.audio, target[t].audio)
       /\ pc[t] = "synced" => vq = << >> /\ aq = << >> /\ pc[V] = "get" /\ pc[A] = "get"

Settledness ==
  /\ LockInv /\ EndInv /\ ThreadInv /\ HeaderInv
  /\ \A d \in DemuxThreads : OneThread(d)

-----------------------------------------------------------------------------
USE DEF fifos, counts, locks, demuxer, local, api, At

PcTypes ==
  /\ pc \in [Threads -> FrontPC \cup VideoPC \cup AudioPC \cup DemuxPC]
  /\ pc[F] \in FrontPC /\ pc[V] \in VideoPC /\ pc[A] \in AudioPC
  /\ \A d \in DemuxThreads : pc[d] \in DemuxPC

DataTypes ==
  /\ status \in {"stop", "play", "quit"}
  /\ plugin \in Plugins \cup {"none"}
  /\ source \in {"ok", "finished"}
  /\ running \in Flag /\ pending \in Flag /\ firstFrame \in Flag
  /\ demuxThread \in DemuxThreads \cup {Nobody}
  /\ demuxLock \in Threads \cup {Nobody}
  /\ counterLock \in Threads \cup {Nobody}
  /\ headers \in [video : Nat, audio : Nat]
  /\ finished \in [video : Nat, audio : Nat]
  /\ vq \in Seq(Element) /\ aq \in Seq(Element)
  /\ ret \in [Threads -> FrontPC \cup VideoPC \cup DemuxPC]
  /\ msg \in [Threads -> Element \cup {"none"}]
  /\ seen \in [DemuxThreads -> {"ok", "finished"}]
  /\ target \in [Threads -> [video : Nat, audio : Nat]]
  /\ call \in {"none", "open", "play", "stop", "close", "dispose"}
  /\ calls \in 0..MaxCalls

LEMMA TypeParts == TypeOK <=> PcTypes /\ DataTypes
  BY DEF TypeOK, PcTypes, DataTypes

LEMMA TypePartsNext == PcTypes' /\ DataTypes' => TypeOK'
  BY DEF TypeOK, PcTypes, DataTypes

LEMMA Names ==
  /\ F # V /\ F # A /\ V # A
  /\ F \notin DemuxThreads \cup {Nobody} /\ V \notin DemuxThreads \cup {Nobody}
  /\ A \notin DemuxThreads \cup {Nobody} /\ Nobody \notin DemuxThreads
  /\ F \in Threads /\ V \in Threads /\ A \in Threads /\ DemuxThreads \subseteq Threads
  /\ \A t \in Threads : t = F \/ t = V \/ t = A \/ t \in DemuxThreads
  BY NameAssumption, DemuxAssumption DEF F, V, A, Threads

(* A thread moves; the others stay.                                        *)
InPC(t, l) ==
  /\ t = F => l \in FrontPC
  /\ t = V => l \in VideoPC
  /\ t = A => l \in AudioPC
  /\ t \in DemuxThreads => l \in DemuxPC

LEMMA Moves ==
  ASSUME Frame, NEW t \in Threads, NEW l, Goto(t, l)
  PROVE  /\ pc'[t] = l /\ \A u \in Threads \ {t} : pc'[u] = pc[u]
         /\ InPC(t, l) => PcTypes'
<1>1. PcTypes
  BY TypeParts DEF Frame
<1>2. pc' = [pc EXCEPT ![t] = l]
  BY DEF Goto
<1>3. pc'[t] = l /\ \A u \in Threads \ {t} : pc'[u] = pc[u]
  BY <1>1, <1>2 DEF PcTypes
<1>4. ASSUME InPC(t, l) PROVE PcTypes'
  <2>1. l \in FrontPC \cup VideoPC \cup AudioPC \cup DemuxPC
    BY <1>4, Names DEF InPC
  <2>2. pc' \in [Threads -> FrontPC \cup VideoPC \cup AudioPC \cup DemuxPC]
    BY <1>1, <1>2, <2>1 DEF PcTypes
  <2> QED BY <1>1, <1>3, <1>4, <2>2, Names DEF PcTypes, InPC
<1> QED BY <1>3, <1>4

LEMMA Enters ==
  ASSUME Frame, NEW t \in Threads, NEW l, NEW back, Enter(t, l, back)
  PROVE  /\ pc'[t] = l /\ ret'[t] = back
         /\ \A u \in Threads \ {t} : pc'[u] = pc[u] /\ ret'[u] = ret[u]
         /\ InPC(t, l) => PcTypes'
         /\ back \in FrontPC \cup VideoPC \cup DemuxPC =>
              ret' \in [Threads -> FrontPC \cup VideoPC \cup DemuxPC]
<1>1. Goto(t, l) /\ ret' = [ret EXCEPT ![t] = back]
  BY DEF Enter
<1>2. ret \in [Threads -> FrontPC \cup VideoPC \cup DemuxPC]
  BY TypeParts DEF Frame, DataTypes
<1> QED BY <1>1, <1>2, Moves

(* Only thread t's own variables change.                                   *)
Own(t) == \A u \in Threads \ {t} : pc'[u] = pc[u] /\ ret'[u] = ret[u] /\ msg'[u] = msg[u]

LEMMA FrameStep ==
  ASSUME Frame, NEW t \in Threads, Own(t), PcTypes', DataTypes',
         t # F => call' = call /\ (status' = status \/ status' # "quit"),
         t = F => FrontFrame',
         t = V => VideoFrame',
         t \in DemuxThreads => DemuxFrame(t)',
         NoAudio', EndsTogether'
  PROVE  Frame'
<1>1. FrontFrame'
  <2>1. CASE t = F
    BY <2>1
  <2>2. CASE t # F
    <3>1. /\ pc'[F] = pc[F] /\ ret'[F] = ret[F] /\ msg'[F] = msg[F] /\ call' = call
          /\ status' = "quit" => status = "quit"
      BY <2>2, Names DEF Own
    <3>2. (Playing' <=> Playing) /\ (Disposing' <=> Disposing)
      BY <3>1 DEF Playing, Disposing
    <3> QED BY <3>1, <3>2 DEF Frame, FrontFrame
  <2> QED BY <2>1, <2>2
<1>2. VideoFrame'
  BY Names DEF Frame, VideoFrame, Own
<1>3. ASSUME NEW d \in DemuxThreads PROVE DemuxFrame(d)'
  <2>1. CASE t = d
    BY <2>1
  <2>2. CASE t # d
    <3>1. pc'[d] = pc[d] /\ ret'[d] = ret[d] /\ msg'[d] = msg[d]
      BY <2>2, Names DEF Own
    <3> QED BY <3>1 DEF Frame, DemuxFrame
  <2> QED BY <2>1, <2>2
<1> QED BY <1>1, <1>2, <1>3, TypePartsNext DEF Frame

LEMMA EndsSame ==
  ASSUME EndsTogether, finished' = finished, pc'[V] = pc[V], pc'[A] = pc[A]
  PROVE  EndsTogether'
  BY DEF EndsTogether

(* A thread that may put elements moves between labels of its own.         *)
LEMMA NoAudioStep ==
  ASSUME Frame, NEW t \in Threads, Own(t),
         HasAudio \/ aq' = << >>,
         HasAudio \/ pc'[t] \notin {"putAudio", "headersAudio", "resetAudio", "chunkAudio"},
         t = A => HasAudio
  PROVE  NoAudio'
  BY Names DEF Frame, NoAudio, Own

LEMMA Flushes ==
  ASSUME NEW t \in Flushers
  PROVE  /\ t \in Threads /\ t # V /\ t # A /\ (t = F \/ t \in DemuxThreads)
         /\ t = F => t \notin DemuxThreads
  BY Names DEF Flushers

LEMMA FrameParts ==
  ASSUME Frame
  PROVE  /\ PcTypes /\ DataTypes /\ FrontFrame /\ VideoFrame /\ NoAudio /\ EndsTogether
         /\ \A d \in DemuxThreads : DemuxFrame(d)
  BY TypeParts DEF Frame

(* What put or flush returns to.                                           *)
LEMMA ReturnPC ==
  ASSUME Frame, NEW t \in Flushers, pc[t] \in Put \cup Flush
  PROVE  InPC(t, ret[t])
<1>1. CASE t = F
  BY <1>1, FrameParts, Names DEF FrontFrame, InPC, FrontPC
<1>2. CASE t \in DemuxThreads
  BY <1>2, FrameParts, Names DEF DemuxFrame, InPC, DemuxPC
<1> QED BY <1>1, <1>2 DEF Flushers

LEMMA BackFrame ==
  ASSUME Frame, NEW t \in Flushers, pc[t] \in Put \cup {"synced"}, Back(t),
         msg' = msg, aq' = aq \/ HasAudio, UNCHANGED <<finished, call, status>>,
         pc[t] \in Put => HasAudio \/ pc[t] = "putVideo",
         (ret' = [ret EXCEPT ![t] = "none"]) => DataTypes'
  PROVE  Frame'
<1>1. InPC(t, ret[t])
  BY ReturnPC DEF Flush, Headers
<1>2. Enter(t, ret[t], "none")
  BY DEF Back
<1>3. /\ pc'[t] = ret[t] /\ ret'[t] = "none" /\ PcTypes' /\ Own(t)
  BY <1>1, <1>2, Enters, Flushes DEF Own
<1>4. DataTypes'
  BY <1>2 DEF Enter
<1>5. t = F => FrontFrame'
  BY <1>3, FrameParts DEF FrontFrame, Put, Stop, Flush, Headers, Playing, Disposing
<1>6. t \in DemuxThreads => DemuxFrame(t)'
  BY <1>3, FrameParts DEF DemuxFrame, Put, Flush, Headers
<1>7. pc'[t] \notin {"putAudio", "headersAudio", "resetAudio", "chunkAudio"}
  <2>1. CASE t = F
    BY <1>3, <2>1, FrameParts DEF FrontFrame, Put, Flush, Headers
  <2>2. CASE t \in DemuxThreads
    BY <1>3, <2>2, FrameParts DEF DemuxFrame, Put, Flush, Headers
  <2> QED BY <2>1, <2>2, Flushes
<1>8. NoAudio'
  <2>1. HasAudio \/ aq' = << >>
    BY FrameParts DEF NoAudio
  <2> QED BY <1>3, <1>7, <2>1, NoAudioStep, Flushes
<1>9. EndsTogether'
  BY <1>3, EndsSame, FrameParts, Flushes, Names DEF Own
<1> QED BY <1>3, <1>4, <1>5, <1>6, <1>8, <1>9, FrameStep, Flushes

LEMMA RetNone ==
  ASSUME DataTypes, NEW t \in Threads
  PROVE  [ret EXCEPT ![t] = "none"] \in [Threads -> FrontPC \cup VideoPC \cup DemuxPC]
  BY DEF DataTypes, DemuxPC

(* msg holds the element that a put appends.                               *)
LEMMA PutMsg ==
  ASSUME Frame, NEW t \in Flushers, pc[t] \in Put
  PROVE  /\ msg[t] \in Element /\ msg[t] # "headers"
         /\ t = F => msg[t] \notin Ends
         /\ t \in DemuxThreads => (msg[t] \in Ends <=> ret[t] = "ended")
<1>1. CASE t = F
  BY <1>1, FrameParts, Names DEF FrontFrame, Element, Control, Ends
<1>2. CASE t \in DemuxThreads
  BY <1>2, FrameParts, Names DEF DemuxFrame, Element, Control, Ends
<1> QED BY <1>1, <1>2 DEF Flushers

LEMMA AppendType ==
  ASSUME NEW q \in Seq(Element), NEW e \in Element
  PROVE  Append(q, e) \in Seq(Element)
  OBVIOUS

LEMMA PutVideoFrame ==
  ASSUME Frame, NEW t \in Flushers, PutVideo(t)
  PROVE  Frame'
<1>1. /\ pc[t] = "putVideo" /\ vq' = Append(vq, msg[t])
      /\ UNCHANGED <<aq, counts, locks, demuxer, msg, seen, target, api>>
  BY DEF PutVideo
<1>2. vq' \in Seq(Element)
  BY <1>1, PutMsg, FrameParts, AppendType DEF Put, DataTypes
<1>3. CASE HasAudio
  <2>1. Goto(t, "putAudio") /\ ret' = ret
    BY <1>3 DEF PutVideo
  <2>2. InPC(t, "putAudio")
    BY Flushes DEF InPC, FrontPC, DemuxPC, Put
  <2>3. pc'[t] = "putAudio" /\ PcTypes' /\ Own(t)
    BY <1>1, <2>1, <2>2, Moves, Flushes DEF Own
  <2>4. DataTypes'
    BY <1>1, <1>2, <2>1, FrameParts DEF DataTypes
  <2>5. t = F => FrontFrame'
    BY <1>1, <2>1, <2>3, FrameParts DEF FrontFrame, Put, Stop, Flush, Headers, Playing, Disposing
  <2>6. t \in DemuxThreads => DemuxFrame(t)'
    BY <1>1, <2>1, <2>3, FrameParts DEF DemuxFrame, Put, Flush, Headers
  <2>7. NoAudio' /\ EndsTogether'
    BY <1>1, <1>3, <2>3, NoAudioStep, EndsSame, FrameParts, Flushes, Names DEF Own
  <2> QED BY <1>1, <2>3, <2>4, <2>5, <2>6, <2>7, FrameStep, Flushes
<1>4. CASE ~HasAudio
  <2>1. Back(t)
    BY <1>4 DEF PutVideo
  <2>2. (ret' = [ret EXCEPT ![t] = "none"]) => DataTypes'
    BY <1>1, <1>2, FrameParts, RetNone, Flushes DEF DataTypes
  <2> QED BY <1>1, <2>1, <2>2, BackFrame DEF Put
<1> QED BY <1>3, <1>4

LEMMA PutAudioFrame ==
  ASSUME Frame, NEW t \in Flushers, PutAudio(t)
  PROVE  Frame'
<1>1. /\ pc[t] = "putAudio" /\ aq' = Append(aq, msg[t]) /\ Back(t)
      /\ UNCHANGED <<vq, counts, locks, demuxer, msg, seen, target, api>>
  BY DEF PutAudio
<1>2. aq' \in Seq(Element)
  BY <1>1, PutMsg, FrameParts, AppendType DEF Put, DataTypes
<1>3. HasAudio
  BY <1>1, FrameParts, Flushes DEF NoAudio
<1>4. (ret' = [ret EXCEPT ![t] = "none"]) => DataTypes'
  BY <1>1, <1>2, FrameParts, RetNone, Flushes DEF DataTypes
<1> QED BY <1>1, <1>3, <1>4, BackFrame DEF Put

LEMMA SyncedFrame ==
  ASSUME Frame, NEW t \in Flushers, Synced(t)
  PROVE  Frame'
<1>1. /\ pc[t] = "synced" /\ Back(t)
      /\ UNCHANGED <<fifos, counts, locks, demuxer, msg, seen, target, api>>
  BY DEF Synced
<1>2. (ret' = [ret EXCEPT ![t] = "none"]) => DataTypes'
  BY <1>1, FrameParts, RetNone, Flushes DEF DataTypes
<1> QED BY <1>1, <1>2, BackFrame DEF Put

LEMMA FlushMoveFrame ==
  ASSUME Frame, NEW t \in Flushers, pc[t] \in Flush,
         NEW l \in Flush, pc[t] \in Headers => l \in Headers, Goto(t, l),
         l \in {"headersAudio", "resetAudio"} => HasAudio, HasAudio \/ aq' = << >>,
         UNCHANGED <<ret, msg, finished, call, status>>, DataTypes'
  PROVE  Frame'
<1>1. InPC(t, l)
  BY Flushes DEF InPC, FrontPC, DemuxPC
<1>2. pc'[t] = l /\ PcTypes' /\ Own(t)
  BY <1>1, Moves, Flushes DEF Own
<1>3. t = F => FrontFrame'
  BY <1>2, FrameParts DEF FrontFrame, Put, Stop, Flush, Headers, Playing, Disposing
<1>4. t \in DemuxThreads => DemuxFrame(t)'
  BY <1>2, FrameParts DEF DemuxFrame, Put, Flush, Headers
<1>5. l \notin {"putAudio", "chunkAudio"}
  BY DEF Flush, Headers
<1>6. NoAudio' /\ EndsTogether'
  BY <1>2, <1>5, NoAudioStep, EndsSame, FrameParts, Flushes, Names DEF Own
<1> QED BY <1>2, <1>3, <1>4, <1>6, FrameStep, Flushes

(* What clearing leaves of a fifo.                                         *)
LEMMA KeptFacts ==
  ASSUME NEW q \in Seq(Element)
  PROVE  /\ Kept(q) \in Seq(Element)
         /\ ToSet(Kept(q)) = ToSet(q) \cap Control
         /\ q = << >> => Kept(q) = << >>
<1>1. Keep(q, Control) \in Seq(Element \cap Control)
  BY KeepPlaces
<1>2. Keep(q, Control) \in Seq(Element)
  BY <1>1
<1>3. ASSUME q = << >> PROVE Keep(q, Control) = q
  <2>1. Len(q) = 0 /\ 1..0 = {}
    BY <1>3
  <2> QED BY <2>1, KeepAll
<1> QED BY <1>2, <1>3, KeepSet DEF Kept

LEMMA FlushStepFrame ==
  ASSUME Frame, NEW t \in Flushers, FlushStep(t)
  PROVE  Frame'
<1> USE DEF Flush, Headers
<1>1. CASE ClearVideo(t)
  <2>1. DataTypes' BY <1>1, FrameParts, KeptFacts DEF ClearVideo, DataTypes
  <2> QED BY <1>1, <2>1, FlushMoveFrame, FrameParts DEF ClearVideo, NoAudio
<1>2. CASE ClearAudio(t)
  <2>1. aq \in Seq(Element) BY FrameParts DEF DataTypes
  <2>2. DataTypes' BY <1>2, FrameParts, KeptFacts DEF ClearAudio, DataTypes
  <2>3. HasAudio \/ aq' = << >> BY <1>2, <2>1, FrameParts, KeptFacts DEF ClearAudio, NoAudio
  <2> QED BY <1>2, <2>2, <2>3, FlushMoveFrame DEF ClearAudio
<1>3. CASE ResetVideo(t)
  <2>1. vq' \in Seq(Element)
    <3>1. vq \in Seq(Element) BY FrameParts DEF DataTypes
    <3>2. "reset" \in Element BY DEF Element, Control
    <3> QED BY <1>3, <3>1, <3>2, AppendType DEF ResetVideo
  <2>2. DataTypes' BY <1>3, <2>1, FrameParts DEF ResetVideo, DataTypes
  <2> QED BY <1>3, <2>2, FlushMoveFrame, FrameParts DEF ResetVideo, NoAudio
<1>4. CASE ResetAudio(t)
  <2>1. aq' \in Seq(Element) /\ HasAudio
    <3>1. aq \in Seq(Element) BY FrameParts DEF DataTypes
    <3>2. "reset" \in Element BY DEF Element, Control
    <3>3. HasAudio BY <1>4, FrameParts, Flushes DEF ResetAudio, NoAudio
    <3> QED BY <1>4, <3>1, <3>2, <3>3, AppendType DEF ResetAudio
  <2>2. DataTypes' BY <1>4, <2>1, FrameParts DEF ResetAudio, DataTypes
  <2> QED BY <1>4, <2>1, <2>2, FlushMoveFrame DEF ResetAudio
<1>5. CASE HeadersLock(t)
  <2>1. counterLock' \in Threads /\ target' \in [Threads -> [video : Nat, audio : Nat]]
    <3>1. headers \in [video : Nat, audio : Nat] /\ target \in [Threads -> [video : Nat, audio : Nat]]
      BY FrameParts DEF DataTypes
    <3>2. [video |-> headers.video + 1, audio |-> headers.audio + 1] \in [video : Nat, audio : Nat]
      BY <3>1
    <3> QED BY <1>5, <3>1, <3>2, Flushes DEF HeadersLock
  <2>2. DataTypes'
    BY <1>5, <2>1, FrameParts DEF HeadersLock, DataTypes
  <2> QED BY <1>5, <2>2, FlushMoveFrame, FrameParts DEF HeadersLock, NoAudio
<1>6. CASE HeadersVideo(t)
  <2>1. vq' \in Seq(Element) /\ counterLock' \in Threads \cup {Nobody}
    BY <1>6, FrameParts, AppendType, Flushes DEF HeadersVideo, DataTypes, Element, Control
  <2>2. DataTypes' BY <1>6, <2>1, FrameParts DEF HeadersVideo, DataTypes
  <2> QED BY <1>6, <2>2, FlushMoveFrame, FrameParts DEF HeadersVideo, NoAudio
<1>7. CASE HeadersAudio(t)
  <2>1. aq' \in Seq(Element) /\ HasAudio
    BY <1>7, FrameParts, AppendType, Flushes DEF HeadersAudio, DataTypes, Element, Control, NoAudio
  <2>2. DataTypes' BY <1>7, <2>1, FrameParts DEF HeadersAudio, DataTypes
  <2> QED BY <1>7, <2>1, <2>2, FlushMoveFrame DEF HeadersAudio
<1>8. CASE HeadersWait(t)
  <2>1. target' \in [Threads -> [video : Nat, audio : Nat]]
    BY <1>8, FrameParts, Flushes DEF HeadersWait, DataTypes
  <2>2. DataTypes' BY <1>8, <2>1, FrameParts DEF HeadersWait, DataTypes
  <2> QED BY <1>8, <2>2, FlushMoveFrame, FrameParts DEF HeadersWait, NoAudio
<1> QED BY <1>1, <1>2, <1>3, <1>4, <1>5, <1>6, <1>7, <1>8, SyncedFrame DEF FlushStep

-----------------------------------------------------------------------------
(* xine_demux_stop_thread, by the frontend or by the video decoder.        *)
LEMMA StopMoveFrame ==
  ASSUME Frame, NEW t \in {F, V}, pc[t] \in Stop, NEW l \in Stop, Goto(t, l),
         UNCHANGED <<ret, msg, aq, finished, call, status>>, DataTypes'
  PROVE  Frame'
<1>0. t \in Threads /\ t # A /\ t \notin DemuxThreads
  BY Names
<1>1. InPC(t, l)
  BY <1>0, Names DEF InPC, FrontPC, VideoPC
<1>2. pc'[t] = l /\ PcTypes' /\ Own(t)
  BY <1>0, <1>1, Moves DEF Own
<1>3. t = F => FrontFrame'
  BY <1>2, FrameParts DEF FrontFrame, Put, Stop, Flush, Headers, Playing, Disposing
<1>4. t = V => VideoFrame'
  BY <1>2, FrameParts DEF VideoFrame
<1>5. NoAudio'
  <2>1. l \notin {"putAudio", "headersAudio", "resetAudio", "chunkAudio"}
    BY DEF Stop
  <2> QED BY <1>0, <1>2, <2>1, NoAudioStep, FrameParts DEF NoAudio
<1>6. EndsTogether'
  <2>1. (pc[V] # "endWait" /\ l # "endWait") \/ pc'[V] = pc[V]
    BY <1>2, Names DEF Stop, Own
  <2> QED BY <1>0, <1>2, <2>1, FrameParts, Names DEF EndsTogether, Own
<1> QED BY <1>0, <1>2, <1>3, <1>4, <1>5, <1>6, FrameStep

LEMMA StopStepFrame ==
  ASSUME Frame, NEW t \in {F, V}, StopStep(t)
  PROVE  Frame'
<1>0. t \in Threads /\ t # A /\ t \notin DemuxThreads
  BY Names
<1>1. CASE StopThread(t)
  BY <1>1, StopMoveFrame, FrameParts DEF StopThread, DataTypes, Flag, Stop
<1>2. CASE StopLock(t)
  BY <1>2, StopMoveFrame, FrameParts DEF StopLock, DataTypes, Flag, Stop
<1>3. CASE JoinLock(t)
  BY <1>0, <1>3, StopMoveFrame, FrameParts DEF JoinLock, DataTypes, Stop
<1>4. CASE Join(t)
  <2>1. /\ pc[t] = "join" /\ demuxThread' = Nobody /\ counterLock' = Nobody
        /\ UNCHANGED <<fifos, counts, demuxLock, source, running, pending, local, api>>
    BY <1>4 DEF Join
  <2>2. DataTypes'
    BY <2>1, FrameParts DEF DataTypes
  <2>3. CASE demuxThread = Nobody
    <3>1. Goto(t, "wakePlay")
      BY <1>4, <2>3 DEF Join
    <3> QED BY <2>1, <2>2, <3>1, StopMoveFrame DEF Stop
  <2>4. CASE demuxThread # Nobody
    <3>1. PICK d \in DemuxThreads : d = demuxThread /\ d # t
      BY <1>0, <2>4, FrameParts DEF DataTypes
    <3>2. pc' = [pc EXCEPT ![t] = "wakePlay", ![d] = "none"]
      BY <1>4, <2>4, <3>1 DEF Join
    <3>3. /\ pc'[t] = "wakePlay" /\ pc'[d] = "none"
          /\ \A u \in Threads \ {t, d} : pc'[u] = pc[u]
      BY <1>0, <3>1, <3>2, FrameParts, Names DEF PcTypes
    <3>4. PcTypes'
      <4>1. pc' \in [Threads -> FrontPC \cup VideoPC \cup AudioPC \cup DemuxPC]
        BY <3>2, FrameParts DEF PcTypes, DemuxPC, FrontPC, Stop
      <4>2. "wakePlay" \in FrontPC /\ "wakePlay" \in VideoPC /\ "none" \in DemuxPC
        BY DEF FrontPC, VideoPC, DemuxPC, Stop
      <4> QED BY <1>0, <3>1, <3>3, <4>1, <4>2, FrameParts, Names DEF PcTypes
    <3>5. FrontFrame'
      <4>1. CASE t = F
        BY <2>1, <3>3, <4>1, FrameParts DEF FrontFrame, Put, Stop, Flush, Headers, Playing, Disposing
      <4>2. CASE t = V
        <5>1. pc'[F] = pc[F]
          BY <3>1, <3>3, <4>2, Names
        <5> QED BY <2>1, <5>1, FrameParts DEF FrontFrame, Playing, Disposing
      <4> QED BY <4>1, <4>2
    <3>6. VideoFrame'
      <4>1. pc'[V] \in Stop => pc[V] \in Stop
        BY <2>1, <3>1, <3>3, Names DEF Stop
      <4> QED BY <2>1, <4>1, FrameParts DEF VideoFrame
    <3>7. \A u \in DemuxThreads : DemuxFrame(u)'
      <4>1. ASSUME NEW u \in DemuxThreads PROVE DemuxFrame(u)'
        <5>1. pc'[u] = "none" \/ pc'[u] = pc[u]
          BY <1>0, <3>3, Names
        <5> QED BY <2>1, <5>1, FrameParts DEF DemuxFrame, Put, Flush, Headers
      <4> QED BY <4>1
    <3>8. NoAudio'
      <4>1. pc'[A] = pc[A]
        BY <1>0, <3>1, <3>3, Names
      <4> QED BY <2>1, <3>3, <4>1, FrameParts DEF NoAudio
    <3>9. EndsTogether'
      <4>1. pc'[A] = pc[A] /\ (pc'[V] = pc[V] \/ pc[V] = "join")
        BY <1>0, <2>1, <3>1, <3>3, Names
      <4> QED BY <2>1, <4>1, FrameParts DEF EndsTogether
    <3> QED BY <2>2, <3>4, <3>5, <3>6, <3>7, <3>8, <3>9, TypePartsNext DEF Frame
  <2> QED BY <2>3, <2>4
<1>5. CASE WakePlay(t)
  <2>1. /\ pc[t] = "wakePlay" /\ firstFrame' = "no" /\ Enter(t, ret[t], "none")
        /\ UNCHANGED <<fifos, counts, locks, demuxer, msg, seen, target,
                       status, plugin, call, calls>>
    BY <1>5 DEF WakePlay, Back
  <2>2. ret[t] = IF t = F THEN "stopFlush" ELSE "finishedEvent"
    BY <2>1, FrameParts, Names DEF FrontFrame, VideoFrame, Stop
  <2>3. InPC(t, ret[t]) /\ "none" \in DemuxPC
    BY <1>0, <2>2, Names DEF InPC, FrontPC, VideoPC, DemuxPC
  <2>4. pc'[t] = ret[t] /\ ret'[t] = "none" /\ PcTypes' /\ Own(t)
    BY <1>0, <2>1, <2>3, Enters DEF Own
  <2>5. DataTypes'
    <3>1. ret' \in [Threads -> FrontPC \cup VideoPC \cup DemuxPC]
      BY <1>0, <2>1, <2>3, Enters
    <3> QED BY <2>1, <3>1, FrameParts DEF DataTypes, Flag
  <2>6. t = F => FrontFrame'
    BY <2>1, <2>2, <2>4, FrameParts DEF FrontFrame, Put, Stop, Flush, Headers, Playing, Disposing
  <2>7. t = V => VideoFrame'
    BY <2>2, <2>4, Names DEF VideoFrame, Stop
  <2>8. NoAudio'
    <3>1. aq' = << >> \/ HasAudio
      BY <2>1, FrameParts DEF NoAudio
    <3>2. pc'[t] \notin {"putAudio", "headersAudio", "resetAudio", "chunkAudio"}
      BY <2>2, <2>4
    <3> QED BY <1>0, <2>4, <3>1, <3>2, NoAudioStep
  <2>9. EndsTogether'
    <3>1. pc'[A] = pc[A] /\ (pc'[V] = pc[V] \/ pc[V] = "wakePlay")
      BY <1>0, <2>1, <2>4, Names DEF Own
    <3> QED BY <2>1, <3>1, FrameParts DEF EndsTogether
  <2> QED BY <1>0, <2>1, <2>4, <2>5, <2>6, <2>7, <2>8, <2>9, FrameStep
<1> QED BY <1>1, <1>2, <1>3, <1>4, <1>5 DEF StopStep

-----------------------------------------------------------------------------
(* demux_loop                                                              *)
LEMMA LoopMoveFrame ==
  ASSUME Frame, NEW d \in DemuxThreads, NEW l \in DemuxPC \ (Put \cup Flush),
         pc[d] \notin Put \cup Flush, Goto(d, l), l = "chunkAudio" => HasAudio,
         UNCHANGED <<ret, finished, call, status>>, aq' = aq \/ HasAudio,
         \A u \in Threads \ {d} : msg'[u] = msg[u], DataTypes'
  PROVE  Frame'
<1>1. d \in Threads /\ d # F /\ d # V /\ d # A /\ InPC(d, l)
  BY Names DEF InPC
<1>2. pc'[d] = l /\ PcTypes' /\ Own(d)
  BY <1>1, Moves DEF Own
<1>3. DemuxFrame(d)'
  BY <1>2 DEF DemuxFrame
<1>4. NoAudio'
  <2>1. HasAudio \/ aq' = << >>
    BY FrameParts DEF NoAudio
  <2>2. HasAudio \/ l \notin {"putAudio", "headersAudio", "resetAudio", "chunkAudio"}
    BY DEF Put, Flush, Headers
  <2> QED BY <1>1, <1>2, <2>1, <2>2, NoAudioStep
<1>5. EndsTogether'
  BY <1>1, <1>2, EndsSame, FrameParts, Names DEF Own
<1> QED BY <1>1, <1>2, <1>3, <1>4, <1>5, FrameStep

(* A function of the loop puts elements or flushes.                        *)
LEMMA LoopEnterFrame ==
  ASSUME Frame, NEW d \in DemuxThreads, NEW l \in {"putVideo", "clearVideo"}, NEW back,
         pc[d] \notin Put \cup Flush, Enter(d, l, back),
         l = "clearVideo" => back = "chunkDone",
         l = "putVideo" => \/ back = "drain" /\ msg'[d] = "nop"
                           \/ back = "ended" /\ msg'[d] \in Ends,
         UNCHANGED <<aq, finished, call, status>>,
         \A u \in Threads \ {d} : msg'[u] = msg[u],
         ret' \in [Threads -> FrontPC \cup VideoPC \cup DemuxPC] => DataTypes'
  PROVE  Frame'
<1>1. d \in Threads /\ d # F /\ d # V /\ d # A /\ InPC(d, l)
  BY Names DEF InPC, DemuxPC, Put, Flush
<1>2. back \in DemuxPC
  BY DEF DemuxPC
<1>3. pc'[d] = l /\ ret'[d] = back /\ PcTypes' /\ Own(d) /\ DataTypes'
  BY <1>1, <1>2, Enters DEF Own
<1>4. DemuxFrame(d)'
  BY <1>3 DEF DemuxFrame, Put, Flush, Headers
<1>5. NoAudio'
  <2>1. HasAudio \/ aq' = << >>
    BY FrameParts DEF NoAudio
  <2> QED BY <1>1, <1>3, <2>1, NoAudioStep
<1>6. EndsTogether'
  BY <1>1, <1>3, EndsSame, FrameParts, Names DEF Own
<1> QED BY <1>1, <1>3, <1>4, <1>5, <1>6, FrameStep

LEMMA PutBothFacts ==
  ASSUME Frame, NEW t \in Threads, NEW m \in Element, NEW back, PutBoth(t, m, back)
  PROVE  /\ Enter(t, "putVideo", back) /\ msg'[t] = m
         /\ msg' \in [Threads -> Element \cup {"none"}]
         /\ \A u \in Threads \ {t} : msg'[u] = msg[u]
<1>1. Enter(t, "putVideo", back) /\ msg' = [msg EXCEPT ![t] = m]
  BY DEF PutBoth
<1>2. msg \in [Threads -> Element \cup {"none"}]
  BY FrameParts DEF DataTypes
<1> QED BY <1>1, <1>2

LEMMA SeenType ==
  ASSUME Frame, NEW d \in DemuxThreads, NEW s \in {"ok", "finished"},
         seen' = [seen EXCEPT ![d] = s]
  PROVE  /\ seen' \in [DemuxThreads -> {"ok", "finished"}] /\ seen'[d] = s
         /\ \A e \in DemuxThreads \ {d} : seen'[e] = seen[e]
<1>1. seen \in [DemuxThreads -> {"ok", "finished"}]
  BY FrameParts DEF DataTypes
<1> QED BY <1>1

(* The loop takes the demuxer's mutex and moves on.                        *)
LEMMA LockFrame ==
  ASSUME Frame, NEW d \in DemuxThreads, NEW k \in {"loop", "yield", "sleep"},
         NEW l \in {"test", "drain"}, Lock(d, k, l),
         UNCHANGED <<vq, aq, ret, msg, finished, call, status>>, DataTypes'
  PROVE  Frame'
<1>1. pc[d] = k /\ Goto(d, l)
  BY DEF Lock
<1>2. k \notin Put \cup Flush /\ l \in DemuxPC \ (Put \cup Flush) /\ l # "chunkAudio"
  <2>1. k \notin Put \cup Flush BY DEF Put, Flush, Headers
  <2>2. l \notin Put \cup Flush /\ l # "chunkAudio" BY DEF Put, Flush, Headers
  <2>3. l \in DemuxPC BY DEF DemuxPC
  <2> QED BY <2>1, <2>2, <2>3
<1>3. /\ pc[d] \notin Put \cup Flush /\ UNCHANGED <<ret, finished, call, status>>
      /\ aq' = aq \/ HasAudio
      /\ \A u \in Threads \ {d} : msg'[u] = msg[u]
  BY <1>1, <1>2
<1> QED BY <1>1, <1>2, <1>3, LoopMoveFrame

LEMMA LoopFrame ==
  ASSUME Frame, NEW d \in DemuxThreads,
         \/ LoopStart(d) \/ SendChunk(d) \/ ChunkData(d) \/ ChunkDone(d) \/ Yield(d)
         \/ InnerEnd(d) \/ DrainSleep(d) \/ DrainWake(d) \/ Drained(d) \/ LoopEnd(d)
  PROVE  Frame'
<1> USE DEF Put, Flush, Headers
<1>0. d \in Threads /\ DataTypes
  BY Names, FrameParts
<1>1. CASE LoopStart(d)
  <2>1. seen' \in [DemuxThreads -> {"ok", "finished"}]
    BY <1>0, <1>1, SeenType DEF LoopStart, DataTypes
  <2>2. DataTypes' BY <1>0, <1>1, <2>1 DEF LoopStart, Lock, DataTypes
  <2>3. Lock(d, "loop", "test") /\ UNCHANGED <<vq, aq, ret, msg, finished, call, status>>
    BY <1>1 DEF LoopStart
  <2> QED BY <2>2, <2>3, LockFrame
<1>2. CASE SendChunk(d)
  <2>1. /\ pc[d] = "test" /\ UNCHANGED <<fifos, counts, locks, demuxer, msg, seen, target>>
    BY <1>2 DEF SendChunk
  <2>2. ASSUME NEW l \in {"chunkVideo", "chunkDone"} \cup
                         (IF HasAudio THEN {"chunkAudio"} ELSE {}),
               Goto(d, l), UNCHANGED <<ret, api>>
        PROVE  Frame'
    <3>1. l \in {"chunkVideo", "chunkDone", "chunkAudio"} /\ (l = "chunkAudio" => HasAudio)
      BY ModeAssumption
    <3>2. DataTypes'
      BY <1>0, <2>1, <2>2 DEF DataTypes
    <3> QED BY <2>1, <2>2, <3>1, <3>2, LoopMoveFrame DEF DemuxPC
  <2>3. ASSUME calls < MaxCalls, Enter(d, "clearVideo", "chunkDone"), calls' = calls + 1,
               UNCHANGED <<status, plugin, firstFrame, call>>
        PROVE  Frame'
    <3>1. calls' \in 0..MaxCalls
      BY <1>0, <2>3, MaxCallsAssumption DEF DataTypes
    <3>2. ret' \in [Threads -> FrontPC \cup VideoPC \cup DemuxPC] => DataTypes'
      BY <1>0, <2>1, <2>3, <3>1 DEF DataTypes
    <3> QED BY <2>1, <2>3, <3>2, LoopEnterFrame
  <2> QED BY <1>2, <2>2, <2>3 DEF SendChunk
<1>3. CASE ChunkData(d)
  <2>1. /\ pc[d] \in {"chunkVideo", "chunkAudio"} /\ Goto(d, "chunkDone")
        /\ UNCHANGED <<counts, locks, demuxer, local, api>>
    BY <1>3 DEF ChunkData
  <2>2. /\ vq' = vq \/ vq' = Append(vq, "data")
        /\ aq' = aq \/ (aq' = Append(aq, "data") /\ pc[d] = "chunkAudio")
    BY <1>3 DEF ChunkData
  <2>3. vq' \in Seq(Element) /\ aq' \in Seq(Element) /\ (aq' = aq \/ HasAudio)
    <3>1. vq \in Seq(Element) /\ aq \in Seq(Element) BY FrameParts DEF DataTypes
    <3>2. "data" \in Element BY DEF Element
    <3>3. pc[d] = "chunkAudio" => HasAudio BY <1>0, FrameParts DEF NoAudio
    <3> QED BY <2>2, <3>1, <3>2, <3>3, AppendType
  <2>4. DataTypes' BY <1>0, <2>1, <2>3 DEF DataTypes
  <2> QED BY <2>1, <2>3, <2>4, LoopMoveFrame DEF DemuxPC
<1>4. CASE ChunkDone(d)
  <2>1. source' \in {"ok", "finished"}
    BY <1>4 DEF ChunkDone, SourceStatus
  <2>2. seen' \in [DemuxThreads -> {"ok", "finished"}]
    BY <1>4, <2>1, SeenType DEF ChunkDone
  <2>3. PICK l \in {"yield", "test"} : Goto(d, l)
    BY <1>4 DEF ChunkDone
  <2>4. demuxLock' \in Threads \cup {Nobody}
    BY <1>0, <1>4 DEF ChunkDone
  <2>5. DataTypes'
    BY <1>0, <1>4, <2>1, <2>2, <2>4 DEF ChunkDone, DataTypes
  <2> QED BY <1>4, <2>3, <2>5, LoopMoveFrame DEF ChunkDone, DemuxPC
<1>5. CASE Yield(d)
  <2>1. DataTypes' BY <1>0, <1>5 DEF Yield, Lock, DataTypes
  <2>3. Lock(d, "yield", "test") /\ UNCHANGED <<vq, aq, ret, msg, finished, call, status>>
    BY <1>5 DEF Yield
  <2> QED BY <2>1, <2>3, LockFrame
<1>6. CASE InnerEnd(d)
  <2>1. "nop" \in Element
    BY DEF Element, Control
  <2>2. /\ pc[d] = "test" /\ PutBoth(d, "nop", "drain")
        /\ UNCHANGED <<fifos, counts, locks, demuxer, seen, target, api>>
    BY <1>6 DEF InnerEnd
  <2>3. /\ Enter(d, "putVideo", "drain") /\ msg'[d] = "nop"
        /\ msg' \in [Threads -> Element \cup {"none"}]
        /\ \A u \in Threads \ {d} : msg'[u] = msg[u]
    BY <1>0, <2>1, <2>2, PutBothFacts
  <2>4. ret' \in [Threads -> FrontPC \cup VideoPC \cup DemuxPC] => DataTypes'
    BY <1>0, <2>2, <2>3 DEF DataTypes
  <2>5. pc[d] \notin Put \cup Flush
    BY <2>2
  <2> QED BY <2>2, <2>3, <2>4, <2>5, LoopEnterFrame
<1>7. CASE DrainSleep(d)
  <2>1. DataTypes' BY <1>0, <1>7 DEF DrainSleep, DataTypes
  <2> QED BY <1>7, <2>1, LoopMoveFrame DEF DrainSleep, DemuxPC
<1>8. CASE DrainWake(d)
  <2>1. seen' \in [DemuxThreads -> {"ok", "finished"}]
    BY <1>0, <1>8, SeenType DEF DrainWake, DataTypes
  <2>2. DataTypes' BY <1>0, <1>8, <2>1 DEF DrainWake, Lock, DataTypes
  <2>3. Lock(d, "sleep", "drain") /\ UNCHANGED <<vq, aq, ret, msg, finished, call, status>>
    BY <1>8 DEF DrainWake
  <2> QED BY <2>2, <2>3, LockFrame
<1>9. CASE Drained(d)
  <2>1. /\ pc[d] = "drain"
        /\ UNCHANGED <<fifos, counts, locks, demuxer, target, api>>
    BY <1>9 DEF Drained
  <2>2. CASE seen[d] = "ok" /\ running = "yes"
    <3>1. seen' = [seen EXCEPT ![d] = source] /\ Goto(d, "test") /\ UNCHANGED <<ret, msg>>
      BY <1>9, <2>2 DEF Drained
    <3>2. seen' \in [DemuxThreads -> {"ok", "finished"}]
      BY <1>0, <3>1, SeenType DEF DataTypes
    <3>3. DataTypes' BY <1>0, <2>1, <3>1, <3>2 DEF DataTypes
    <3> QED BY <2>1, <3>1, <3>3, LoopMoveFrame DEF DemuxPC
  <2>3. CASE ~(seen[d] = "ok" /\ running = "yes")
    <3>1. PICK m \in Ends : PutBoth(d, m, "ended") /\ seen' = seen
      BY <1>9, <2>3 DEF Drained, Ends
    <3>2. m \in Element
      BY DEF Element, Control, Ends
    <3>3. /\ Enter(d, "putVideo", "ended") /\ msg'[d] \in Ends
          /\ msg' \in [Threads -> Element \cup {"none"}]
          /\ \A u \in Threads \ {d} : msg'[u] = msg[u]
      BY <1>0, <3>1, <3>2, PutBothFacts
    <3>4. ret' \in [Threads -> FrontPC \cup VideoPC \cup DemuxPC] => DataTypes'
      BY <1>0, <2>1, <3>1, <3>3 DEF DataTypes
    <3>5. pc[d] \notin Put \cup Flush
      BY <2>1
    <3> QED BY <2>1, <3>3, <3>4, <3>5, LoopEnterFrame
  <2> QED BY <2>2, <2>3
<1>10. CASE LoopEnd(d)
  <2>1. /\ msg' \in [Threads -> Element \cup {"none"}]
        /\ \A u \in Threads \ {d} : msg'[u] = msg[u]
    BY <1>0, <1>10 DEF LoopEnd, DataTypes
  <2>2. DataTypes'
    BY <1>0, <1>10, <2>1 DEF LoopEnd, DataTypes, Flag
  <2>3. "exited" \in DemuxPC \ (Put \cup Flush) /\ "exited" # "chunkAudio"
    BY DEF DemuxPC
  <2>4. pc[d] \notin Put \cup Flush /\ Goto(d, "exited")
    BY <1>10 DEF LoopEnd
  <2> QED BY <1>10, <2>1, <2>2, <2>3, <2>4, LoopMoveFrame DEF LoopEnd
<1> QED BY <1>1, <1>2, <1>3, <1>4, <1>5, <1>6, <1>7, <1>8, <1>9, <1>10

-----------------------------------------------------------------------------
(* The decoder threads                                                     *)
LEMMA HandledFacts ==
  ASSUME NEW e \in Element
  PROVE  /\ Handled(e) \in {"headers", "end", "exited", "get"}
         /\ Handled(e) = "headers" <=> e = "headers"
         /\ Handled(e) = "end" <=> e \in Ends
         /\ Handled(e) = "exited" <=> e = "quit"
<1>1. CASE e = "headers"
  BY <1>1 DEF Handled, Ends
<1>2. CASE e \in Ends
  BY <1>2 DEF Handled, Ends
<1>3. CASE e = "quit"
  BY <1>3 DEF Handled, Ends
<1>4. CASE e # "headers" /\ e \notin Ends /\ e # "quit"
  BY <1>4 DEF Handled
<1> QED BY <1>1, <1>2, <1>3, <1>4

LEMMA TakeFacts ==
  ASSUME NEW q \in Seq(Element), q # << >>
  PROVE  /\ Tail(q) \in Seq(Element) /\ Head(q) \in Element /\ Head(q) = q[1]
         /\ Len(q) \in Nat /\ 1 \in 1..Len(q) /\ Len(Tail(q)) = Len(q) - 1
         /\ \A i \in 1..Len(Tail(q)) : i + 1 \in 1..Len(q) /\ Tail(q)[i] = q[i + 1]
<1>1. Len(q) \in Nat /\ 1 \in 1..Len(q) /\ Head(q) = q[1]
  OBVIOUS
<1>2. Tail(q) \in Seq(Element) /\ Len(Tail(q)) = Len(q) - 1
  OBVIOUS
<1>3. \A i \in 1..Len(q) - 1 : i + 1 \in 1..Len(q) /\ Tail(q)[i] = q[i + 1]
  BY <1>1
<1>4. Head(q) \in Element
  BY <1>1, ElementOfSeq
<1> QED BY <1>1, <1>2, <1>3, <1>4

LEMMA VideoMoveFrame ==
  ASSUME Frame, NEW l \in VideoPC, Goto(V, l), l \notin Stop,
         UNCHANGED <<ret, aq, call>>, status' = status,
         \A u \in Threads \ {V} : msg'[u] = msg[u], DataTypes', EndsTogether'
  PROVE  Frame'
<1>1. pc'[V] = l /\ PcTypes' /\ Own(V)
  BY Moves, Names DEF InPC, Own
<1>2. VideoFrame'
  BY <1>1 DEF VideoFrame
<1>3. NoAudio'
  <2>1. l \notin {"putAudio", "headersAudio", "resetAudio", "chunkAudio"}
    BY DEF VideoPC, Stop
  <2>2. HasAudio \/ aq' = << >>
    BY FrameParts DEF NoAudio
  <2> QED BY <1>1, <2>1, <2>2, Names, NoAudioStep
<1> QED BY <1>1, <1>2, <1>3, FrameStep, Names

LEMMA CountType ==
  ASSUME NEW n \in [video : Nat, audio : Nat]
  PROVE  /\ [n EXCEPT !.video = n.video + 1] \in [video : Nat, audio : Nat]
         /\ [n EXCEPT !.audio = n.audio + 1] \in [video : Nat, audio : Nat]
         /\ [n EXCEPT !.video = n.video + 1].video = n.video + 1
         /\ [n EXCEPT !.video = n.video + 1].audio = n.audio
         /\ [n EXCEPT !.audio = n.audio + 1].audio = n.audio + 1
         /\ [n EXCEPT !.audio = n.audio + 1].video = n.video
         /\ n.video \in Nat /\ n.audio \in Nat
  OBVIOUS

LEMMA VideoFrameStep ==
  ASSUME Frame,
         \/ VideoGet \/ VideoHeaders \/ VideoEnd \/ VideoEndWait
         \/ StreamEnd \/ SetStop \/ FinishedEvent \/ Wake
  PROVE  Frame'
<1> USE DEF VideoPC, Stop
<1>0. DataTypes /\ EndsTogether
  BY FrameParts
<1>1. CASE VideoGet
  <2>1. /\ pc[V] = "get" /\ vq # << >> /\ vq' = Tail(vq) /\ Goto(V, Handled(Head(vq)))
        /\ msg' = [msg EXCEPT ![V] = IF Head(vq) \in Ends THEN Head(vq) ELSE "none"]
        /\ UNCHANGED <<aq, counts, locks, demuxer, ret, seen, target, api>>
    BY <1>1 DEF VideoGet
  <2>2. /\ vq' \in Seq(Element) /\ Head(vq) \in Element
        /\ Handled(Head(vq)) \in {"headers", "end", "exited", "get"}
    BY <1>0, <2>1, TakeFacts, HandledFacts DEF DataTypes
  <2>3. /\ msg' \in [Threads -> Element \cup {"none"}]
        /\ \A u \in Threads \ {V} : msg'[u] = msg[u]
    BY <1>0, <2>1, <2>2, Names DEF DataTypes
  <2>4. DataTypes'
    BY <1>0, <2>1, <2>2, <2>3 DEF DataTypes
  <2>5. EndsTogether'
    <3>1. pc'[V] = Handled(Head(vq)) /\ pc'[A] = pc[A]
      BY <2>1, Moves, Names
    <3> QED BY <1>0, <2>1, <2>2, <3>1 DEF EndsTogether
  <2> QED BY <2>1, <2>2, <2>3, <2>4, <2>5, VideoMoveFrame
<1>2. CASE VideoHeaders
  <2>1. DataTypes'
    BY <1>0, <1>2, CountType DEF VideoHeaders, DataTypes
  <2>2. EndsTogether'
    <3>1. pc'[V] = "get" /\ pc'[A] = pc[A]
      BY <1>2, Moves, Names DEF VideoHeaders
    <3> QED BY <1>0, <1>2, <3>1 DEF EndsTogether, VideoHeaders
  <2> QED BY <1>2, <2>1, <2>2, VideoMoveFrame DEF VideoHeaders
<1>3. CASE VideoEnd
  <2>1. DataTypes'
    BY <1>0, <1>3, CountType DEF VideoEnd, DataTypes
  <2>2. EndsTogether'
    <3>1. pc'[V] = "endWait" /\ pc'[A] = pc[A]
      BY <1>3, Moves, Names DEF VideoEnd
    <3>2. finished'.audio = finished.audio /\ finished'.video = finished.video + 1
      BY <1>0, <1>3, CountType DEF VideoEnd, DataTypes
    <3>3. finished.audio \in Nat /\ finished.video \in Nat
      BY <1>0, CountType DEF DataTypes
    <3> QED BY <1>0, <3>1, <3>2, <3>3 DEF EndsTogether
  <2> QED BY <1>3, <2>1, <2>2, VideoMoveFrame DEF VideoEnd
<1>4. CASE VideoEndWait
  <2>1. DataTypes'
    BY <1>0, <1>4 DEF VideoEndWait, DataTypes
  <2>2. EndsTogether'
    <3>1. pc'[A] = pc[A]
      BY <1>4, Moves, Names DEF VideoEndWait
    <3> QED BY <1>0, <1>4, <3>1 DEF EndsTogether, VideoEndWait
  <2> QED BY <1>4, <2>1, <2>2, VideoMoveFrame DEF VideoEndWait
<1>5. CASE StreamEnd
  <2>1. PICK l \in {"wake", "setStop"} : Goto(V, l)
    BY <1>5 DEF StreamEnd
  <2>2. EndsTogether'
    <3>1. pc'[A] = pc[A]
      BY <2>1, Moves, Names
    <3> QED BY <1>0, <1>5, <3>1 DEF EndsTogether, StreamEnd
  <2> QED BY <1>0, <1>5, <2>1, <2>2, VideoMoveFrame DEF StreamEnd, DataTypes
<1>6. CASE SetStop
  <2>1. /\ pc[V] = "setStop" /\ status' = "stop" /\ Enter(V, "stopThread", "finishedEvent")
        /\ UNCHANGED <<fifos, counts, locks, demuxer, msg, seen, target,
                       plugin, firstFrame, call, calls>>
    BY <1>6 DEF SetStop
  <2>2. /\ pc'[V] = "stopThread" /\ ret'[V] = "finishedEvent" /\ PcTypes' /\ Own(V)
        /\ ret' \in [Threads -> FrontPC \cup VideoPC \cup DemuxPC]
    <3>1. InPC(V, "stopThread") /\ "finishedEvent" \in VideoPC
      BY Names DEF InPC
    <3> QED BY <2>1, <3>1, Enters, Names DEF Own
  <2>3. DataTypes'
    BY <1>0, <2>1, <2>2 DEF DataTypes
  <2>4. VideoFrame' /\ EndsTogether'
    BY <1>0, <2>1, <2>2, Names DEF VideoFrame, EndsTogether, Own
  <2>5. NoAudio'
    <3>1. HasAudio \/ aq' = << >>
      BY <2>1, FrameParts DEF NoAudio
    <3> QED BY <2>2, <3>1, Names, NoAudioStep
  <2> QED BY <2>1, <2>2, <2>3, <2>4, <2>5, FrameStep, Names
<1>7. CASE FinishedEvent
  <2>1. EndsTogether'
    <3>1. pc'[A] = pc[A]
      BY <1>7, Moves, Names DEF FinishedEvent
    <3> QED BY <1>0, <1>7, <3>1 DEF EndsTogether, FinishedEvent
  <2> QED BY <1>0, <1>7, <2>1, VideoMoveFrame DEF FinishedEvent, DataTypes
<1>8. CASE Wake
  <2>1. EndsTogether'
    <3>1. pc'[A] = pc[A]
      BY <1>8, Moves, Names DEF Wake
    <3> QED BY <1>0, <1>8, <3>1 DEF EndsTogether, Wake
  <2>2. /\ msg' \in [Threads -> Element \cup {"none"}]
        /\ \A u \in Threads \ {V} : msg'[u] = msg[u]
    BY <1>0, <1>8, Names DEF DataTypes, Wake
  <2>3. DataTypes'
    BY <1>0, <1>8, <2>2 DEF Wake, DataTypes, Flag
  <2> QED BY <1>8, <2>1, <2>2, <2>3, VideoMoveFrame DEF Wake
<1> QED BY <1>1, <1>2, <1>3, <1>4, <1>5, <1>6, <1>7, <1>8

LEMMA AudioMoveFrame ==
  ASSUME Frame, HasAudio, NEW l \in AudioPC, Goto(A, l), UNCHANGED <<ret, msg, call, status>>,
         DataTypes', EndsTogether'
  PROVE  Frame'
<1>1. pc'[A] = l /\ PcTypes' /\ Own(A)
  BY Moves, Names DEF InPC, Own
<1> QED BY <1>1, FrameStep, NoAudioStep, Names

LEMMA AudioFrameStep ==
  ASSUME Frame, AudioStep
  PROVE  Frame' /\ HasAudio
<1>0. DataTypes /\ EndsTogether
  BY FrameParts
<1>1. HasAudio
  BY FrameParts DEF AudioStep, AudioGet, AudioHeaders, AudioEnd, AudioEndWait, NoAudio
<1> USE DEF AudioPC
<1>3. CASE AudioGet
  <2>1. /\ pc[A] = "get" /\ aq # << >> /\ aq' = Tail(aq) /\ Goto(A, Handled(Head(aq)))
        /\ UNCHANGED <<vq, counts, locks, demuxer, local, api>>
    BY <1>3 DEF AudioGet
  <2>2. aq' \in Seq(Element) /\ Handled(Head(aq)) \in {"headers", "end", "exited", "get"}
    BY <1>0, <2>1, TakeFacts, HandledFacts DEF DataTypes
  <2>3. DataTypes'
    BY <1>0, <2>1, <2>2 DEF DataTypes
  <2>4. EndsTogether'
    <3>1. pc'[V] = pc[V] /\ pc'[A] = Handled(Head(aq))
      BY <2>1, Moves, Names
    <3> QED BY <1>0, <2>1, <2>2, <3>1 DEF EndsTogether
  <2> QED BY <1>1, <2>1, <2>2, <2>3, <2>4, AudioMoveFrame
<1>4. CASE AudioHeaders
  <2>1. DataTypes'
    BY <1>0, <1>4, CountType DEF AudioHeaders, DataTypes
  <2>2. EndsTogether'
    <3>1. pc'[V] = pc[V] /\ pc'[A] = "get"
      BY <1>4, Moves, Names DEF AudioHeaders
    <3> QED BY <1>0, <1>4, <3>1 DEF EndsTogether, AudioHeaders
  <2> QED BY <1>1, <1>4, <2>1, <2>2, AudioMoveFrame DEF AudioHeaders
<1>5. CASE AudioEnd
  <2>1. DataTypes'
    BY <1>0, <1>5, CountType DEF AudioEnd, DataTypes
  <2>2. EndsTogether'
    <3>1. pc'[V] = pc[V] /\ pc'[A] = "endWait"
      BY <1>5, Moves, Names DEF AudioEnd
    <3>2. finished'.video = finished.video /\ finished'.audio = finished.audio + 1
      BY <1>0, <1>5, CountType DEF AudioEnd, DataTypes
    <3>3. finished.audio \in Nat /\ finished.video \in Nat
      BY <1>0, CountType DEF DataTypes
    <3> QED BY <1>0, <3>1, <3>2, <3>3 DEF EndsTogether
  <2> QED BY <1>1, <1>5, <2>1, <2>2, AudioMoveFrame DEF AudioEnd
<1>6. CASE AudioEndWait
  <2>1. DataTypes'
    BY <1>0, <1>6 DEF AudioEndWait, DataTypes
  <2>2. EndsTogether'
    <3>1. pc'[V] = pc[V]
      BY <1>6, Moves, Names DEF AudioEndWait
    <3> QED BY <1>0, <1>6, <3>1 DEF EndsTogether, AudioEndWait
  <2> QED BY <1>1, <1>6, <2>1, <2>2, AudioMoveFrame DEF AudioEndWait
<1> QED BY <1>1, <1>3, <1>4, <1>5, <1>6 DEF AudioStep

-----------------------------------------------------------------------------
(* The frontend                                                            *)
PlayPC == {"playLock", "seek", "sought", "startThread", "startLock", "playFailed",
           "started", "frameWait"}
StopPC == {"stopInternal", "stopCounts", "stopFlush", "stopped"}
QuitPC == {"quitAudio", "joinAudio", "quitVideo", "joinVideo"}

LEMMA FrontMoveFrame ==
  ASSUME Frame, NEW l \in PlayPC \cup StopPC \cup QuitPC \cup
                          {"openPlugin", "opened", "returned", "idle", "gone"},
         Goto(F, l), UNCHANGED <<ret, finished>>, HasAudio \/ aq' = aq, DataTypes',
         \A u \in Threads \ {F} : msg'[u] = msg[u],
         l \in PlayPC => call' = "play",
         l \in StopPC => call' \in {"open", "stop", "close", "dispose"},
         l \in {"openPlugin", "opened"} => call' = "open",
         l \in QuitPC => call' = "dispose",
         l \in {"quitAudio", "joinAudio"} => HasAudio,
         l = "returned" => call' # "dispose",
         l \in {"idle", "gone"} => call' = "none",
         status' = "quit" => call' = "dispose" \/ l = "gone"
  PROVE  Frame'
<1>1. l \notin Put \cup Flush \cup Stop /\ l \in FrontPC
  BY DEF PlayPC, StopPC, QuitPC, Put, Flush, Headers, Stop, FrontPC
<1>2. pc'[F] = l /\ PcTypes' /\ Own(F)
  BY <1>1, Moves, Names DEF InPC, Own
<1>3. FrontFrame'
  <2>1. Playing' => l \in PlayPC
    BY <1>1, <1>2 DEF Playing, PlayPC
  <2>2. /\ l \in {"playFailed", "started", "frameWait"} => l \in PlayPC
        /\ l \in {"stopInternal", "stopCounts", "stopFlush", "stopped"} => l \in StopPC
        /\ l \in {"quitAudio", "joinAudio", "quitVideo", "joinVideo"} => l \in QuitPC
    BY DEF PlayPC, StopPC, QuitPC
  <2>3. status' = "quit" => Disposing'
    BY <1>2 DEF Disposing
  <2> QED BY <1>1, <1>2, <2>1, <2>2, <2>3 DEF FrontFrame
<1>4. NoAudio' /\ EndsTogether'
  <2>1. l \notin {"putAudio", "headersAudio", "resetAudio", "chunkAudio"}
    BY DEF PlayPC, StopPC, QuitPC
  <2>2. HasAudio \/ aq' = << >>
    BY FrameParts DEF NoAudio
  <2> QED BY <1>2, <2>1, <2>2, NoAudioStep, EndsSame, FrameParts, Names DEF Own
<1> QED BY <1>2, <1>3, <1>4, FrameStep, Names

(* The frontend calls a function.                                          *)
LEMMA FrontEnterFrame ==
  ASSUME Frame, NEW l \in {"putVideo", "clearVideo", "headersLock", "stopThread"}, NEW back,
         Enter(F, l, back), UNCHANGED <<aq, finished, call>>,
         \A u \in Threads \ {F} : msg'[u] = msg[u],
         status' = status \/ status' # "quit",
         ret' \in [Threads -> FrontPC \cup VideoPC \cup DemuxPC] => DataTypes',
         l = "putVideo" => back \in {"opened", "returned"} /\ msg'[F] \in {"start", "nop"}
                           /\ call = "open",
         l = "clearVideo" => \/ back = "sought" /\ call = "play"
                             \/ back = "stopped" /\ call \in {"open", "stop", "close", "dispose"},
         l = "headersLock" => back = "returned" /\ call = "open",
         l = "stopThread" => back = "stopFlush" /\ call \in {"open", "stop", "close", "dispose"},
         pc[F] # "gone"
  PROVE  Frame'
<1>1. InPC(F, l) /\ back \in FrontPC
  BY Names DEF InPC, FrontPC, Put, Flush, Headers, Stop
<1>2. pc'[F] = l /\ ret'[F] = back /\ PcTypes' /\ Own(F) /\ DataTypes'
  BY <1>1, Enters, Names DEF Own
<1>3. status' = "quit" => call' = "dispose"
  <2>1. status = "quit" => call = "dispose"
    BY FrameParts DEF FrontFrame, Disposing
  <2>2. CASE status' = status
    BY <2>1, <2>2
  <2>3. CASE status' # "quit"
    BY <2>3
  <2> QED BY <2>2, <2>3
<1>9. FrontFrame'
  <2>1. CASE l = "putVideo"
    <3>1. l \in Put /\ l \notin Flush \cup Stop /\ ~Playing'
      BY <1>2, <2>1 DEF Put, Flush, Headers, Stop, Playing
    <3> QED BY <1>2, <1>3, <2>1, <3>1 DEF FrontFrame, Disposing
  <2>2. CASE l = "clearVideo"
    <3>1. l \in Flush /\ l \notin Put \cup Stop /\ (Playing' <=> back = "sought")
      BY <1>2, <2>2 DEF Put, Flush, Headers, Stop, Playing
    <3> QED BY <1>2, <1>3, <2>2, <3>1 DEF FrontFrame, Disposing
  <2>3. CASE l = "headersLock"
    <3>1. l \in Flush \cap Headers /\ l \notin Put \cup Stop /\ ~Playing'
      BY <1>2, <2>3 DEF Put, Flush, Headers, Stop, Playing
    <3> QED BY <1>2, <1>3, <2>3, <3>1 DEF FrontFrame, Disposing
  <2>4. CASE l = "stopThread"
    <3>1. l \in Stop /\ l \notin Put \cup Flush /\ ~Playing'
      BY <1>2, <2>4 DEF Put, Flush, Headers, Stop, Playing
    <3> QED BY <1>2, <1>3, <2>4, <3>1 DEF FrontFrame, Disposing
  <2> QED BY <2>1, <2>2, <2>3, <2>4
<1>8. NoAudio' /\ EndsTogether'
  <2>1. HasAudio \/ aq' = << >>
    BY FrameParts DEF NoAudio
  <2> QED BY <1>2, <2>1, NoAudioStep, EndsSame, FrameParts, Names DEF Own
<1> QED BY <1>2, <1>8, <1>9, FrameStep, Names

LEMMA CallFrame ==
  ASSUME Frame, FrontCall
  PROVE  Frame'
<1> USE DEF PlayPC, StopPC, QuitPC
<1>0. DataTypes /\ FrontFrame
  BY FrameParts
<1>1. calls < MaxCalls => calls + 1 \in 0..MaxCalls
  BY <1>0, MaxCallsAssumption DEF DataTypes
<1>2. pc[F] = "idle" => status # "quit"
  BY <1>0 DEF FrontFrame, Disposing
<1>3. CASE CallPlay
  <2>1. DataTypes'
    BY <1>0, <1>1, <1>3 DEF CallPlay, Call, DataTypes, Flag
  <2>2. status' = "quit" => call' = "dispose"
    BY <1>2, <1>3 DEF CallPlay, Call
  <2> QED BY <1>3, <2>1, <2>2, FrontMoveFrame DEF CallPlay, Call
<1>4. CASE CallStop
  <2>1. DataTypes'
    BY <1>0, <1>1, <1>4 DEF CallStop, Call, DataTypes
  <2>2. status' = "quit" => call' = "dispose"
    BY <1>2, <1>4 DEF CallStop, Call
  <2> QED BY <1>4, <2>1, <2>2, FrontMoveFrame DEF CallStop, Call
<1>5. CASE CallDispose
  <2>1. DataTypes'
    BY <1>0, <1>1, <1>5 DEF CallDispose, Call, DataTypes
  <2> QED BY <1>5, <2>1, FrontMoveFrame DEF CallDispose, Call
<1> QED BY <1>3, <1>4, <1>5 DEF FrontCall

LEMMA FrontFrameStep ==
  ASSUME Frame,
         \/ StopInternal \/ StopCounts \/ StopFlush \/ Stopped \/ OpenPlugin \/ Opened
         \/ PlayLock \/ Seek \/ Sought \/ PlayFailed \/ StartThread
         \/ Started \/ FrameWait \/ Returned \/ QuitAudio \/ QuitVideo \/ JoinDecoder
  PROVE  Frame'
<1> USE DEF PlayPC, StopPC, QuitPC
<1>0. DataTypes /\ FrontFrame
  BY FrameParts
<1>1. status = "quit" => pc[F] = "gone" \/ call = "dispose"
  BY <1>0 DEF FrontFrame, Disposing
<1>2. CASE StopInternal
  <2>1. PICK l \in {"stopped", "stopCounts"} : Goto(F, l)
    BY <1>2 DEF StopInternal
  <2>2. call \in {"open", "stop", "close", "dispose"} /\ (status' = "quit" => call = "dispose")
    BY <1>0, <1>1, <1>2 DEF StopInternal, FrontFrame
  <2>3. DataTypes'
    BY <1>0, <1>2 DEF StopInternal, DataTypes
  <2> QED BY <1>2, <2>1, <2>2, <2>3, FrontMoveFrame DEF StopInternal
<1>3. CASE StopCounts
  <2>1. /\ pc[F] = "stopCounts"
        /\ UNCHANGED <<fifos, counts, locks, demuxer, msg, seen, target, api>>
    BY <1>3 DEF StopCounts
  <2>2. call \in {"open", "stop", "close", "dispose"} /\ (status = "quit" => call = "dispose")
    BY <1>0, <1>1, <2>1 DEF FrontFrame
  <2>3. CASE Enter(F, "stopThread", "stopFlush")
    <3>1. ret' \in [Threads -> FrontPC \cup VideoPC \cup DemuxPC] => DataTypes'
      BY <1>0, <2>1 DEF DataTypes
    <3> QED BY <2>1, <2>2, <2>3, <3>1, FrontEnterFrame
  <2>4. CASE Goto(F, "stopped") /\ ret' = ret
    <3>1. DataTypes'
      BY <1>0, <2>1, <2>4 DEF DataTypes
    <3> QED BY <2>1, <2>2, <2>4, <3>1, FrontMoveFrame
  <2> QED BY <1>3, <2>3, <2>4 DEF StopCounts
<1>4. CASE StopFlush
  <2>1. /\ pc[F] = "stopFlush" /\ Enter(F, "clearVideo", "stopped")
        /\ UNCHANGED <<fifos, counts, locks, demuxer, msg, seen, target, api>>
    BY <1>4 DEF StopFlush
  <2>2. call \in {"open", "stop", "close", "dispose"}
    BY <1>0, <2>1 DEF FrontFrame
  <2>3. ret' \in [Threads -> FrontPC \cup VideoPC \cup DemuxPC] => DataTypes'
    BY <1>0, <2>1 DEF DataTypes
  <2> QED BY <2>1, <2>2, <2>3, FrontEnterFrame
<1>5. CASE Stopped
  <2>1. /\ pc[F] = "stopped" /\ plugin' \in {plugin, "none"}
        /\ UNCHANGED <<fifos, counts, locks, demuxer, local, status, firstFrame, call, calls>>
    BY <1>5 DEF Stopped
  <2>2. call \in {"open", "stop", "close", "dispose"} /\ (status = "quit" => call = "dispose")
    BY <1>0, <1>1, <2>1 DEF FrontFrame
  <2>3. DataTypes'
    BY <1>0, <2>1 DEF DataTypes
  <2>4. CASE call = "open"
    <3>1. Goto(F, "openPlugin")
      BY <1>5, <2>4 DEF Stopped
    <3> QED BY <2>1, <2>2, <2>3, <2>4, <3>1, FrontMoveFrame
  <2>5. CASE call = "dispose"
    <3>1. PICK l \in {"quitAudio", "quitVideo"} : Goto(F, l) /\ (l = "quitAudio" => HasAudio)
      BY <1>5, <2>5 DEF Stopped
    <3> QED BY <2>1, <2>3, <2>5, <3>1, FrontMoveFrame
  <2>6. CASE call # "open" /\ call # "dispose"
    <3>1. Goto(F, "returned")
      BY <1>5, <2>6 DEF Stopped
    <3> QED BY <2>1, <2>2, <2>3, <2>6, <3>1, FrontMoveFrame
  <2> QED BY <2>4, <2>5, <2>6
<1>6. CASE OpenPlugin
  <2>1. /\ pc[F] = "openPlugin" /\ source' \in {source, "ok"} /\ status' \in {status, "stop"}
        /\ plugin' \in Plugins \cup {"none"}
        /\ UNCHANGED <<fifos, counts, locks, running, pending, demuxThread,
                       seen, target, firstFrame, call, calls>>
    BY <1>6 DEF OpenPlugin
  <2>2. call = "open" /\ (status' = status \/ status' # "quit") /\ status' # "quit"
    BY <1>0, <1>1, <2>1 DEF FrontFrame
  <2>3. ASSUME NEW m \in {"start", "nop"}, NEW back \in {"opened", "returned"},
               PutBoth(F, m, back)
        PROVE  Frame'
    <3>1. m \in Element /\ F \in Threads
      BY Names DEF Element, Control
    <3>2. /\ Enter(F, "putVideo", back) /\ msg'[F] = m
          /\ msg' \in [Threads -> Element \cup {"none"}]
          /\ \A u \in Threads \ {F} : msg'[u] = msg[u]
      BY <2>3, <3>1, PutBothFacts
    <3>3. ret' \in [Threads -> FrontPC \cup VideoPC \cup DemuxPC] => DataTypes'
      BY <1>0, <2>1, <3>2 DEF DataTypes
    <3> QED BY <2>1, <2>2, <3>2, <3>3, FrontEnterFrame
  <2>4. ASSUME Goto(F, "returned"), UNCHANGED <<ret, msg>>
        PROVE  Frame'
    <3>1. DataTypes'
      BY <1>0, <2>1, <2>4 DEF DataTypes
    <3> QED BY <2>1, <2>2, <2>4, <3>1, FrontMoveFrame
  <2> QED BY <1>6, <2>3, <2>4 DEF OpenPlugin
<1>7. CASE Opened
  <2>1. /\ pc[F] = "opened" /\ UNCHANGED <<fifos, counts, locks, demuxer, msg, seen, target,
                                           firstFrame, call, calls>>
    BY <1>7 DEF Opened
  <2>2. call = "open" /\ status # "quit"
    BY <1>0, <1>1, <2>1 DEF FrontFrame
  <2>3. CASE Enter(F, "headersLock", "returned") /\ UNCHANGED <<plugin, status>>
    <3>1. ret' \in [Threads -> FrontPC \cup VideoPC \cup DemuxPC] => DataTypes'
      BY <1>0, <2>1, <2>3 DEF DataTypes
    <3> QED BY <2>1, <2>2, <2>3, <3>1, FrontEnterFrame
  <2>4. CASE Goto(F, "returned") /\ plugin' = "none" /\ status' = "stop" /\ UNCHANGED ret
    <3>1. DataTypes'
      BY <1>0, <2>1, <2>4 DEF DataTypes
    <3> QED BY <2>1, <2>2, <2>4, <3>1, FrontMoveFrame
  <2> QED BY <1>7, <2>3, <2>4 DEF Opened
<1>8. CASE Seek
  <2>1. /\ pc[F] = "seek" /\ UNCHANGED <<fifos, counts, locks, demuxer, msg, seen, target, api>>
    BY <1>8 DEF Seek
  <2>2. call = "play" /\ status # "quit"
    BY <1>0, <1>1, <2>1 DEF FrontFrame, Playing
  <2>3. CASE Enter(F, "clearVideo", "sought")
    <3>1. ret' \in [Threads -> FrontPC \cup VideoPC \cup DemuxPC] => DataTypes'
      BY <1>0, <2>1, <2>3 DEF DataTypes
    <3> QED BY <2>1, <2>2, <2>3, <3>1, FrontEnterFrame
  <2>4. CASE Goto(F, "sought") /\ UNCHANGED ret
    <3>1. DataTypes'
      BY <1>0, <2>1, <2>4 DEF DataTypes
    <3> QED BY <2>1, <2>2, <2>4, <3>1, FrontMoveFrame
  <2> QED BY <1>8, <2>3, <2>4 DEF Seek
<1>9. CASE PlayLock
  <2>1. call = "play" /\ status # "quit"
    BY <1>0, <1>1, <1>9 DEF FrontFrame, Playing, PlayLock, Lock
  <2>2. DataTypes'
    BY <1>0, <1>9, Names DEF PlayLock, Lock, DataTypes
  <2> QED BY <1>9, <2>1, <2>2, FrontMoveFrame DEF PlayLock, Lock
<1>10. CASE Sought
  <2>1. call = "play" /\ status # "quit"
    BY <1>0, <1>1, <1>10 DEF FrontFrame, Playing, Sought
  <2>2. source' \in {"ok", "finished"}
    BY <1>10 DEF Sought, SourceStatus
  <2>3. DataTypes'
    BY <1>0, <1>10, <2>2 DEF Sought, DataTypes, Flag
  <2>4. PICK l \in {"startThread", "playFailed"} : Goto(F, l)
    BY <1>10 DEF Sought
  <2> QED BY <1>10, <2>1, <2>3, <2>4, FrontMoveFrame DEF Sought
<1>11. CASE PlayFailed
  <2>1. call = "play" /\ status # "quit"
    BY <1>0, <1>1, <1>11 DEF FrontFrame, PlayFailed
  <2>2. DataTypes'
    BY <1>0, <1>11 DEF PlayFailed, DataTypes, Flag
  <2> QED BY <1>11, <2>1, <2>2, FrontMoveFrame DEF PlayFailed
<1>12. CASE StartThread
  <2>1. call = "play" /\ status # "quit"
    BY <1>0, <1>1, <1>12 DEF FrontFrame, StartThread, Playing
  <2>2. DataTypes'
    BY <1>0, <1>12 DEF StartThread, DataTypes, Flag
  <2> QED BY <1>12, <2>1, <2>2, FrontMoveFrame DEF StartThread
<1>13. CASE Started
  <2>1. call = "play"
    BY <1>0, <1>13 DEF FrontFrame, Started
  <2>2. DataTypes'
    BY <1>0, <1>13 DEF Started, DataTypes
  <2> QED BY <1>13, <2>1, <2>2, FrontMoveFrame DEF Started
<1>14. CASE FrameWait
  <2>1. call = "play" /\ status # "quit"
    BY <1>0, <1>1, <1>14 DEF FrontFrame, FrameWait
  <2>2. DataTypes'
    BY <1>0, <1>14 DEF FrameWait, DataTypes
  <2> QED BY <1>14, <2>1, <2>2, FrontMoveFrame DEF FrameWait
<1>15. CASE Returned
  <2>1. status # "quit"
    BY <1>0, <1>1, <1>15 DEF FrontFrame, Returned
  <2>2. /\ msg' \in [Threads -> Element \cup {"none"}]
        /\ \A u \in Threads \ {F} : msg'[u] = msg[u]
    BY <1>0, <1>15, Names DEF DataTypes, Returned
  <2>3. DataTypes'
    BY <1>0, <1>15, <2>2 DEF Returned, DataTypes
  <2> QED BY <1>15, <2>1, <2>2, <2>3, FrontMoveFrame DEF Returned
<1>16. CASE QuitAudio
  <2>1. call = "dispose" /\ HasAudio
    BY <1>0, <1>16 DEF FrontFrame, QuitAudio
  <2>2. aq' \in Seq(Element)
    BY <1>0, <1>16, AppendType DEF QuitAudio, DataTypes, Element, Control
  <2>3. DataTypes'
    BY <1>0, <1>16, <2>2 DEF QuitAudio, DataTypes
  <2> QED BY <1>16, <2>1, <2>3, FrontMoveFrame DEF QuitAudio
<1>17. CASE QuitVideo
  <2>1. call = "dispose"
    BY <1>0, <1>17 DEF FrontFrame, QuitVideo
  <2>2. vq' \in Seq(Element)
    BY <1>0, <1>17, AppendType DEF QuitVideo, DataTypes, Element, Control
  <2>3. DataTypes'
    BY <1>0, <1>17, <2>2 DEF QuitVideo, DataTypes
  <2> QED BY <1>17, <2>1, <2>3, FrontMoveFrame DEF QuitVideo
<1>18. CASE JoinDecoder
  <2>1. call = "dispose" /\ (pc[F] = "joinAudio" => HasAudio)
    BY <1>0, <1>18 DEF FrontFrame, JoinDecoder
  <2>2. DataTypes'
    BY <1>0, <1>18 DEF JoinDecoder, DataTypes
  <2> QED BY <1>18, <2>1, <2>2, FrontMoveFrame DEF JoinDecoder
<1> QED BY <1>2, <1>3, <1>4, <1>5, <1>6, <1>7, <1>8, <1>9, <1>10, <1>11, <1>12, <1>13,
           <1>14, <1>15, <1>16, <1>17, <1>18

(* The lock of the thread is taken while it starts.                        *)
LEMMA StartLockFrame ==
  ASSUME Frame, StartLock
  PROVE  Frame'
<1>0. DataTypes /\ FrontFrame /\ PcTypes
  BY FrameParts
<1>1. /\ pc[F] = "startLock" /\ pending' = "no"
      /\ UNCHANGED <<fifos, counts, locks, source, local, api>>
  BY DEF StartLock
<1>2. call = "play" /\ status # "quit"
  BY <1>0, <1>1 DEF FrontFrame, Playing, Disposing
<1>3. CASE Goto(F, "started") /\ UNCHANGED <<running, demuxThread>>
  <2>1. DataTypes'
    BY <1>0, <1>1, <1>3 DEF DataTypes, Flag
  <2> QED BY <1>1, <1>2, <1>3, <2>1, FrontMoveFrame DEF PlayPC, StopPC, QuitPC
<1>4. ASSUME NEW d \in DemuxThreads, pc[d] = "none", running' = "yes", demuxThread' = d,
             pc' = [pc EXCEPT ![F] = "started", ![d] = "loop"]
      PROVE  Frame'
  <2>1. d \in Threads /\ d # F /\ d # V /\ d # A
    BY Names
  <2>2. pc'[F] = "started" /\ pc'[d] = "loop" /\ \A u \in Threads \ {F, d} : pc'[u] = pc[u]
    BY <1>0, <1>4, <2>1, Names DEF PcTypes
  <2>3. PcTypes'
    <3>1. "started" \in FrontPC /\ "loop" \in DemuxPC
      BY DEF FrontPC, DemuxPC
    <3>2. pc' \in [Threads -> FrontPC \cup VideoPC \cup AudioPC \cup DemuxPC]
      BY <1>0, <1>4, <3>1 DEF PcTypes
    <3>3. pc'[V] = pc[V] /\ pc'[A] = pc[A]
      BY <2>1, <2>2, Names
    <3>4. \A u \in DemuxThreads : pc'[u] \in DemuxPC
      BY <1>0, <2>2, <3>1, Names DEF PcTypes
    <3> QED BY <1>0, <2>2, <3>1, <3>2, <3>3, <3>4 DEF PcTypes
  <2>4. DataTypes'
    BY <1>0, <1>1, <1>4 DEF DataTypes, Flag
  <2>5. FrontFrame'
    BY <1>1, <1>2, <2>2 DEF FrontFrame, Put, Stop, Flush, Headers, Playing, Disposing
  <2>6. VideoFrame' /\ EndsTogether'
    <3>1. pc'[V] = pc[V] /\ pc'[A] = pc[A]
      BY <2>1, <2>2, Names
    <3> QED BY <1>1, <3>1, FrameParts DEF VideoFrame, EndsTogether
  <2>7. ASSUME NEW u \in DemuxThreads PROVE DemuxFrame(u)'
    <3>1. pc'[u] = "loop" \/ pc'[u] = pc[u]
      BY <2>2, Names
    <3> QED BY <1>1, <3>1, FrameParts DEF DemuxFrame, Put, Flush, Headers
  <2>8. NoAudio'
    <3>1. pc'[A] = pc[A]
      BY <2>1, <2>2, Names
    <3>2. \A u \in Threads : pc'[u] \in {"started", "loop", pc[u]}
      BY <2>2
    <3> QED BY <1>1, <3>1, <3>2, FrameParts DEF NoAudio
  <2> QED BY <2>3, <2>4, <2>5, <2>6, <2>7, <2>8, TypePartsNext DEF Frame
<1> QED BY <1>3, <1>4 DEF StartLock

LEMMA FirstFrameFrame ==
  ASSUME Frame, FirstFrame
  PROVE  Frame'
<1>1. DataTypes' /\ PcTypes'
  <2>1. firstFrame' \in Flag BY DEF FirstFrame, Flag
  <2>2. DataTypes' BY <2>1, FrameParts DEF FirstFrame, DataTypes
  <2>3. PcTypes' BY FrameParts DEF FirstFrame, PcTypes
  <2> QED BY <2>2, <2>3
<1>2. FrontFrame' /\ VideoFrame' /\ NoAudio' /\ EndsTogether'
  BY FrameParts
     DEF FirstFrame, FrontFrame, Playing, Disposing, VideoFrame, NoAudio, EndsTogether
<1>3. \A d \in DemuxThreads : DemuxFrame(d)'
  BY FrameParts DEF FirstFrame, DemuxFrame
<1> QED BY <1>1, <1>2, <1>3, TypePartsNext DEF Frame

LEMMA StutterFrame ==
  ASSUME Frame, UNCHANGED vars
  PROVE  Frame'
<1> USE DEF vars
<1>1. DataTypes' /\ PcTypes'
  BY FrameParts DEF DataTypes, PcTypes
<1>2. FrontFrame' /\ VideoFrame' /\ NoAudio' /\ EndsTogether'
  BY FrameParts
     DEF FrontFrame, Playing, Disposing, VideoFrame, NoAudio, EndsTogether
<1>3. \A d \in DemuxThreads : DemuxFrame(d)'
  BY FrameParts DEF DemuxFrame
<1> QED BY <1>1, <1>2, <1>3, TypePartsNext DEF Frame

LEMMA InitFrame == Init => Frame
<1> SUFFICES ASSUME Init PROVE Frame
  OBVIOUS
<1>1. pc[F] = "idle" /\ pc[V] = "get" /\ pc[A] = "get" /\ \A d \in DemuxThreads : pc[d] = "none"
  BY Names DEF Init
<1>2. PcTypes
  <2>1. "idle" \in FrontPC /\ "get" \in VideoPC \cap AudioPC /\ "none" \in DemuxPC
    BY DEF FrontPC, VideoPC, AudioPC, DemuxPC
  <2>2. pc \in [Threads -> FrontPC \cup VideoPC \cup AudioPC \cup DemuxPC]
    BY <2>1 DEF Init
  <2> QED BY <1>1, <2>1, <2>2 DEF PcTypes
<1>3. DataTypes
  <2>1. ret \in [Threads -> FrontPC \cup VideoPC \cup DemuxPC]
    BY DEF Init, DemuxPC
  <2>2. /\ msg \in [Threads -> Element \cup {"none"}]
        /\ seen \in [DemuxThreads -> {"ok", "finished"}]
        /\ target \in [Threads -> [video : Nat, audio : Nat]]
    BY DEF Init
  <2> QED BY <2>1, <2>2, MaxCallsAssumption DEF Init, DataTypes, Flag
<1>4. FrontFrame /\ VideoFrame /\ EndsTogether
  BY <1>1 DEF Init, FrontFrame, VideoFrame, EndsTogether, Put, Flush, Headers, Stop, Playing
<1>5. NoAudio /\ \A d \in DemuxThreads : DemuxFrame(d)
  <2>1. \A t \in Threads : pc[t] \in {"idle", "get", "none"}
    BY <1>1, Names
  <2> QED BY <1>1, <2>1 DEF Init, NoAudio, DemuxFrame, Put, Flush, Headers
<1> QED BY <1>2, <1>3, <1>4, <1>5, TypeParts DEF Frame

LEMMA StepFrame == Frame /\ [Next]_vars => Frame'
<1> SUFFICES ASSUME Frame, [Next]_vars PROVE Frame'
  OBVIOUS
<1>1. CASE FrontCall
  BY <1>1, CallFrame
<1>2. CASE FrontStep
  <2>1. F \in Flushers /\ F \in {F, V}
    BY DEF Flushers
  <2> QED BY <1>2, <2>1, FrontFrameStep, StartLockFrame, PutVideoFrame, PutAudioFrame,
             FlushStepFrame, StopStepFrame DEF FrontStep
<1>3. CASE VideoStep
  BY <1>3, VideoFrameStep, StopStepFrame DEF VideoStep
<1>4. CASE AudioStep
  BY <1>4, AudioFrameStep
<1>5. CASE FirstFrame
  BY <1>5, FirstFrameFrame
<1>6. CASE Rest
  BY <1>6, StutterFrame DEF Rest
<1>7. ASSUME NEW d \in DemuxThreads, DemuxStep(d) PROVE Frame'
  BY <1>7, LoopFrame, PutVideoFrame, PutAudioFrame, FlushStepFrame DEF DemuxStep, Flushers
<1>8. CASE UNCHANGED vars
  BY <1>8, StutterFrame
<1> QED BY <1>1, <1>2, <1>3, <1>4, <1>5, <1>6, <1>7, <1>8 DEF Next

LEMMA FrameAlways == Spec => []Frame
  BY InitFrame, StepFrame, PTL DEF Spec

(* Whatever the application calls and however the threads interleave,      *)
(* every variable of playback control keeps its type: each thread is at a  *)
(* place of its own, and the put, flush and stop functions, which the      *)
(* frontend, the demux loop and the video decoder share, return to the     *)
(* caller they were entered from.                                          *)
THEOREM EngineTypeCorrect == Spec => []TypeOK
<1>1. Frame => TypeOK
  BY DEF Frame
<1> QED BY <1>1, FrameAlways, PTL

(* Neither decoder leaves an END before the other has reached it too, even *)
(* when the application plays again before the END has come.               *)
THEOREM DecodersEndTogether == Spec => []EndsTogether
<1>1. Frame => EndsTogether
  BY DEF Frame
<1> QED BY <1>1, FrameAlways, PTL

-----------------------------------------------------------------------------
(* Elements of a kind in a fifo: what appending, taking and clearing do.   *)
LEMMA NoAppend ==
  ASSUME NEW q \in Seq(Element), NEW e \in Element, NEW S
  PROVE  /\ Append(q, e) \in Seq(Element) /\ Append(q, e) # << >>
         /\ No(Append(q, e), S) <=> No(q, S) /\ e \notin S
         /\ AtMostOne(q, S) /\ e \notin S => AtMostOne(Append(q, e), S)
         /\ No(q, S) => AtMostOne(Append(q, e), S)
<1> DEFINE r == Append(q, e)
           n == Len(q)
<1>1. n \in Nat /\ r \in Seq(Element) /\ Len(r) = n + 1 /\ r[n + 1] = e /\ r # << >>
  OBVIOUS
<1>2. \A i \in 1..n : r[i] = q[i]
  OBVIOUS
<1> HIDE DEF r, n
<1>3. 1..n + 1 = (1..n) \cup {n + 1}
  BY <1>1
<1>4. No(r, S) <=> No(q, S) /\ e \notin S
  BY <1>1, <1>2, <1>3 DEF No, n
<1>5. AtMostOne(q, S) /\ e \notin S => AtMostOne(r, S)
  BY <1>1, <1>2, <1>3 DEF AtMostOne, n
<1>6. No(q, S) => AtMostOne(r, S)
  BY <1>1, <1>2, <1>3 DEF No, AtMostOne, n
<1> QED BY <1>1, <1>4, <1>5, <1>6 DEF r

LEMMA NoTake ==
  ASSUME NEW q \in Seq(Element), q # << >>, NEW S
  PROVE  /\ No(q, S) <=> Head(q) \notin S /\ No(Tail(q), S)
         /\ AtMostOne(q, S) => AtMostOne(Tail(q), S) /\ (Head(q) \in S => No(Tail(q), S))
<1> DEFINE r == Tail(q)
           n == Len(q)
<1>1. /\ n \in Nat /\ 1 \in 1..n /\ Head(q) = q[1] /\ Len(r) = n - 1
      /\ \A i \in 1..n - 1 : i + 1 \in 1..n /\ r[i] = q[i + 1]
  BY TakeFacts
<1> HIDE DEF r, n
<1>2. \A i \in 1..n : i = 1 \/ \E j \in 1..n - 1 : i = j + 1
  <2>1. ASSUME NEW i \in 1..n, i # 1 PROVE i - 1 \in 1..n - 1 /\ i = (i - 1) + 1
    BY <1>1, <2>1
  <2> QED BY <2>1
<1>3. No(q, S) <=> Head(q) \notin S /\ No(r, S)
  BY <1>1, <1>2 DEF No, n
<1>4. AtMostOne(q, S) => AtMostOne(r, S)
  <2>1. \A i, j \in 1..n - 1 : i + 1 = j + 1 => i = j
    BY <1>1
  <2> QED BY <1>1, <2>1 DEF AtMostOne, n
<1>5. AtMostOne(q, S) /\ Head(q) \in S => No(r, S)
  <2>1. \A i \in 1..n - 1 : i + 1 # 1
    BY <1>1
  <2> QED BY <1>1, <2>1 DEF AtMostOne, No, n
<1> QED BY <1>3, <1>4, <1>5 DEF r

LEMMA NoKept ==
  ASSUME NEW q \in Seq(Element), NEW S, S \subseteq Control
  PROVE  /\ Kept(q) \in Seq(Element)
         /\ No(Kept(q), S) <=> No(q, S)
         /\ AtMostOne(q, S) => AtMostOne(Kept(q), S)
<1> DEFINE w == Keep(q, Control)
           n == Len(q)
           m == Len(w)
<1>1. w \in Seq(Element) /\ KeptOf(w, q, Control, n)
  BY KeepPlaces, KeptFacts DEF Kept
<1>2. PICK f : Placed(w, q, Control, n, f)
  BY <1>1 DEF KeptOf
<1>3. m \in Nat /\ n \in Nat
  BY <1>1
<1> HIDE DEF w, n, m
<1>4. /\ f \in [1..m -> 1..n] /\ \A i \in 1..m : w[i] = q[f[i]]
      /\ \A i, j \in 1..m : i < j => f[i] < f[j]
      /\ \A p \in 1..n : q[p] \in Control => \E i \in 1..m : f[i] = p
  BY <1>2 DEF Placed, m
<1>5. \A i, j \in 1..m : f[i] = f[j] => i = j
  <2>1. SUFFICES ASSUME NEW i \in 1..m, NEW j \in 1..m, f[i] = f[j], i # j PROVE FALSE
    OBVIOUS
  <2>2. i < j \/ j < i
    BY <1>3, <2>1
  <2>3. f[i] < f[j] \/ f[j] < f[i]
    BY <1>4, <2>2
  <2>4. f[i] \in 1..n /\ f[j] \in 1..n
    BY <1>4
  <2> QED BY <1>3, <2>1, <2>3, <2>4
<1>6. No(w, S) <=> No(q, S)
  <2>1. ASSUME No(q, S) PROVE No(w, S)
    <3> SUFFICES ASSUME NEW i \in 1..m PROVE w[i] \notin S
      BY DEF No, m
    <3>1. f[i] \in 1..n /\ w[i] = q[f[i]] BY <1>4
    <3> QED BY <2>1, <3>1 DEF No, n
  <2>2. ASSUME No(w, S) PROVE No(q, S)
    <3> SUFFICES ASSUME NEW p \in 1..n, q[p] \in S PROVE FALSE
      BY DEF No, n
    <3>1. PICK i \in 1..m : f[i] = p BY <1>4
    <3>2. w[i] \in S BY <1>4, <3>1
    <3> QED BY <2>2, <3>2 DEF No, m
  <2> QED BY <2>1, <2>2
<1>7. AtMostOne(q, S) => AtMostOne(w, S)
  BY <1>4, <1>5 DEF AtMostOne, n, m
<1> QED BY <1>1, <1>6, <1>7 DEF Kept, w

LEMMA LastAppend ==
  ASSUME NEW q \in Seq(Element), NEW e \in Element, No(q, {e})
  PROVE  OnlyLast(Append(q, e), e)
<1>1. Len(q) \in Nat /\ Len(Append(q, e)) = Len(q) + 1 /\ Append(q, e)[Len(q) + 1] = e
  OBVIOUS
<1>2. \A i \in 1..Len(q) : Append(q, e)[i] = q[i] /\ q[i] # e /\ i # Len(q) + 1
  BY DEF No
<1>3. \A i \in 1..Len(q) + 1 : i \in 1..Len(q) \/ i = Len(q) + 1
  BY <1>1
<1> QED BY <1>1, <1>2, <1>3 DEF OnlyLast

LEMMA LastTake ==
  ASSUME NEW q \in Seq(Element), q # << >>, NEW e, OnlyLast(q, e)
  PROVE  IF Tail(q) = << >> THEN Head(q) = e ELSE Head(q) # e /\ OnlyLast(Tail(q), e)
<1>1. /\ Len(q) \in Nat /\ 1 \in 1..Len(q) /\ Head(q) = q[1] /\ Tail(q) \in Seq(Element)
      /\ Len(Tail(q)) = Len(q) - 1
      /\ \A i \in 1..Len(q) - 1 : i + 1 \in 1..Len(q) /\ Tail(q)[i] = q[i + 1]
  BY TakeFacts
<1>2. CASE Tail(q) = << >>
  <2>1. Len(Tail(q)) = 0
    BY <1>1, <1>2, EmptySeq
  <2>2. Len(q) = 1
    <3>1. Len(q) \in Nat /\ Len(q) - 1 = 0
      BY <1>1, <2>1
    <3> QED BY <3>1
  <2> QED BY <1>1, <1>2, <2>2 DEF OnlyLast
<1>3. CASE Tail(q) # << >>
  <2>1. Len(Tail(q)) # 0
    BY <1>1, <1>3, EmptySeq
  <2>2. Len(q) # 1
    BY <1>1, <2>1
  <2>3. \A i \in 1..Len(q) - 1 : i + 1 = Len(q) <=> i = Len(q) - 1
    BY <1>1
  <2> QED BY <1>1, <1>3, <2>2, <2>3 DEF OnlyLast
<1> QED BY <1>2, <1>3

-----------------------------------------------------------------------------
(* One thread at a time puts elements.                                     *)
Producing == Put \cup Flush \cup {"chunkVideo", "chunkAudio", "quitAudio", "quitVideo"}
Counting  == {"headersVideo", "headersAudio", "headersWait", "synced"}

LEMMA Unique ==
  ASSUME Settledness, NEW d \in DemuxThreads, pc[d] # "none"
  PROVE  demuxThread = d /\ \A e \in DemuxThreads \ {d} : pc[e] = "none"
  BY DEF Settledness, OneThread

LEMMA BusyLocked ==
  ASSUME Frame, Settledness, NEW d \in DemuxThreads, pc[d] \in Producing
  PROVE  Busy(d) /\ pc[d] \in Locked /\ demuxLock = d /\ pc[F] \notin Producing
<1>1. pc[d] \in DemuxPC
  BY FrameParts DEF PcTypes
<1>2. Busy(d) /\ pc[d] \in Locked
  BY <1>1 DEF Producing, DemuxPC, Put, Flush, Headers, Busy, Locked
<1>3. demuxLock = d /\ demuxLock # F
  BY <1>2, Names DEF Settledness, LockInv
<1>4. ~Alone
  BY <1>2 DEF Settledness, OneThread
<1>5. ~(pc[F] \in Flush /\ ret[F] = "sought")
  BY <1>3 DEF Settledness, LockInv
<1>6. pc[F] \notin {"chunkVideo", "chunkAudio"}
  BY FrameParts DEF PcTypes, FrontPC, Put, Flush, Headers, Stop
<1> QED BY <1>2, <1>3, <1>4, <1>5, <1>6 DEF Alone, Producing

LEMMA OneProducer ==
  ASSUME Frame, Settledness, NEW t \in Flushers, pc[t] \in Producing
  PROVE  \A u \in Flushers \ {t} : pc[u] \notin Producing
<1>1. SUFFICES ASSUME NEW u \in Flushers \ {t}, pc[u] \in Producing PROVE FALSE
  OBVIOUS
<1>2. CASE t \in DemuxThreads /\ u \in DemuxThreads
  <2>1. pc[t] # "none" /\ pc[u] # "none"
    BY <1>1 DEF Producing, Put, Flush, Headers
  <2> QED BY <1>1, <1>2, <2>1, Unique
<1>3. CASE t = F
  BY <1>1, <1>3, BusyLocked DEF Flushers
<1>4. CASE u = F
  BY <1>1, <1>4, BusyLocked DEF Flushers
<1> QED BY <1>2, <1>3, <1>4 DEF Flushers

LEMMA QuietProducer ==
  ASSUME Frame, Settledness, NEW t \in Flushers, pc[t] \in Producing
  PROVE  /\ \A u \in Flushers \ {t} : pc[u] \notin Counting
         /\ pc[t] \notin {"headersAudio", "headersWait"} => NoHeaders
<1>1. \A u \in Flushers \ {t} : pc[u] \notin Counting
  BY OneProducer DEF Producing, Flush, Headers, Counting
<1> QED BY <1>1 DEF Settledness, HeaderInv, Counting

-----------------------------------------------------------------------------
(* demux_lock                                                              *)
Seeking == pc[F] \in {"seek", "sought"} \/ (pc[F] \in Flush /\ ret[F] = "sought")

LEMMA LockMove ==
  ASSUME LockInv, NEW t \in Threads, Own(t), demuxLock' = demuxLock,
         t = F => (Seeking' <=> Seeking),
         t \in DemuxThreads => (pc'[t] \in Locked <=> pc[t] \in Locked)
  PROVE  LockInv'
<1>1. Seeking' <=> Seeking
  <2>1. CASE t = F
    BY <2>1
  <2>2. CASE t # F
    <3>1. pc'[F] = pc[F] /\ ret'[F] = ret[F]
      BY <2>2, Names DEF Own
    <3> QED BY <3>1 DEF Seeking
  <2> QED BY <2>1, <2>2
<1>2. \A d \in DemuxThreads : pc'[d] \in Locked <=> pc[d] \in Locked
  BY Names DEF Own
<1>3. demuxLock = F <=> Seeking
  BY DEF LockInv, Seeking
<1>4. demuxLock' = F <=> Seeking'
  BY <1>1, <1>3
<1> QED BY <1>2, <1>4 DEF LockInv, Seeking

LEMMA LockTake ==
  ASSUME LockInv, NEW t \in Flushers, Own(t), demuxLock = Nobody, demuxLock' = t,
         t = F => Seeking', t \in DemuxThreads => pc'[t] \in Locked
  PROVE  LockInv'
<1>1. ~Seeking /\ \A d \in DemuxThreads : pc[d] \notin Locked
  BY Names DEF LockInv, Seeking
<1>2. CASE t = F
  <2>1. \A d \in DemuxThreads : pc'[d] = pc[d]
    BY <1>2, Names DEF Own
  <2>2. \A d \in DemuxThreads : demuxLock' # d
    BY <1>2, Names
  <2> QED BY <1>1, <1>2, <2>1, <2>2 DEF LockInv, Seeking
<1>3. CASE t \in DemuxThreads
  <2>1. pc'[F] = pc[F] /\ ret'[F] = ret[F] /\ t # F
    BY <1>3, Names DEF Own
  <2>2. ~Seeking'
    BY <1>1, <2>1 DEF Seeking
  <2>3. \A d \in DemuxThreads : demuxLock' = d <=> pc'[d] \in Locked
    BY <1>1, <1>3, Names DEF Own
  <2> QED BY <1>3, <2>1, <2>2, <2>3 DEF LockInv, Seeking
<1> QED BY <1>2, <1>3 DEF Flushers

LEMMA LockDrop ==
  ASSUME LockInv, NEW t \in Flushers, Own(t), demuxLock' = Nobody,
         t = F => Seeking /\ ~Seeking',
         t \in DemuxThreads => pc[t] \in Locked /\ pc'[t] \notin Locked
  PROVE  LockInv'
<1>1. demuxLock = t
  BY DEF LockInv, Seeking, Flushers
<1>2. CASE t = F
  <2>1. \A d \in DemuxThreads : pc'[d] = pc[d] /\ pc[d] \notin Locked
    BY <1>1, <1>2, Names DEF Own, LockInv
  <2> QED BY <1>2, <2>1, Names DEF LockInv, Seeking
<1>3. CASE t \in DemuxThreads
  <2>1. pc'[F] = pc[F] /\ ret'[F] = ret[F] /\ t # F
    BY <1>3, Names DEF Own
  <2>2. ~Seeking'
    BY <1>1, <2>1 DEF Seeking, LockInv
  <2>3. \A d \in DemuxThreads : pc'[d] \notin Locked
    BY <1>1, <1>3, Names DEF Own, LockInv
  <2> QED BY <2>1, <2>2, <2>3, Names DEF LockInv, Seeking
<1> QED BY <1>2, <1>3 DEF Flushers

-----------------------------------------------------------------------------
(* ENDs                                                                    *)
Calm  == {"get", "headers", "exited"}
LateV == EndingV \ {"end", "endWait"}

(* Moves of the video and the audio decoder that say nothing about ENDs.   *)
QuietV == \/ pc'[V] = pc[V]
          \/ pc'[V] \in Calm /\ pc[V] \in Calm \cup AfterV
          \/ pc'[V] \in AfterV /\ pc[V] \in AfterV
          \/ pc'[V] \in LateV /\ pc[V] \in LateV
QuietA == \/ pc'[A] = pc[A]
          \/ pc'[A] \in Calm /\ pc[A] \in Calm \cup {"endWait"}

(* A change of a fifo that leaves its ENDs.                                *)
QuietQ == /\ No(vq, Ends)' <=> No(vq, Ends)
          /\ AtMostOne(vq, Ends) => AtMostOne(vq, Ends)'
          /\ No(aq, Ends)' <=> No(aq, Ends)
          /\ AtMostOne(aq, Ends) => AtMostOne(aq, Ends)'

LEMMA EndSame ==
  ASSUME EndInv, QuietQ, QuietV, QuietA, finished' = finished,
         \A d \in DemuxThreads : Halfway(d)' <=> Halfway(d)
  PROVE  EndInv' /\ (NoEnds => NoEnds') /\ (EndInVideo' <=> EndInVideo)
<1>1. /\ pc'[V] \in EndingV <=> pc[V] \in EndingV
      /\ pc'[V] = "end" <=> pc[V] = "end"
      /\ pc'[V] \in EndingV \cup AfterV => pc[V] \in EndingV \cup AfterV
      /\ pc'[V] \in (EndingV \cup AfterV) \ {"end", "endWait"} =>
           pc[V] \in (EndingV \cup AfterV) \ {"end", "endWait"}
      /\ pc[V] \in Calm => pc'[V] \in Calm
  BY DEF QuietV, EndingV, AfterV, Calm, LateV
<1>2. (pc'[A] = "end" <=> pc[A] = "end") /\ (pc[A] \in Calm => pc'[A] \in Calm)
  BY DEF QuietA, Calm
<1>3. (DueV' <=> DueV) /\ (DueA' <=> DueA)
  BY <1>1, <1>2 DEF DueV, DueA, QuietQ
<1>4. EndInv'
  BY <1>1, <1>2, <1>3 DEF EndInv, QuietQ
<1>5. NoEnds => NoEnds'
  BY <1>1, <1>2 DEF NoEnds, QuietQ, Calm
<1>6. EndInVideo' <=> EndInVideo
  BY <1>1 DEF EndInVideo, QuietQ
<1> QED BY <1>4, <1>5, <1>6

LEMMA QuietSame ==
  ASSUME vq' = vq, aq' = aq
  PROVE  QuietQ
  BY DEF QuietQ, No, AtMostOne

LEMMA QuietAppend ==
  ASSUME DataTypes, NEW e \in Element \ Ends,
         \/ vq' = Append(vq, e) /\ aq' = aq
         \/ aq' = Append(aq, e) /\ vq' = vq
  PROVE  QuietQ
<1>1. vq \in Seq(Element) /\ aq \in Seq(Element)
  BY DEF DataTypes
<1>2. CASE vq' = Append(vq, e) /\ aq' = aq
  BY <1>1, <1>2, NoAppend DEF QuietQ
<1>3. CASE aq' = Append(aq, e) /\ vq' = vq
  BY <1>1, <1>3, NoAppend DEF QuietQ
<1> QED BY <1>2, <1>3

(* An END that is put in a fifo of a stream without ENDs.                  *)
LEMMA HalfwayPC ==
  ASSUME NEW d \in DemuxThreads, Halfway(d)
  PROVE  pc[d] \in Put /\ Busy(d) /\ ~Before(d) /\ Past(d)
  BY DEF Halfway, Put, Busy, Before, Past

-----------------------------------------------------------------------------
(* Waiting for headers                                                     *)
LEMMA HeadSame ==
  ASSUME HeaderInv, UNCHANGED <<vq, aq, headers, target>>,
         pc'[V] = pc[V] \/ (pc'[V] # "headers" /\ pc[V] \notin {"get", "headers"}),
         pc'[A] = pc[A] \/ (pc'[A] # "headers" /\ pc[A] \notin {"get", "headers"}),
         \A t \in Flushers : \/ pc'[t] = pc[t]
                             \/ pc'[t] \notin Counting /\ pc[t] \notin {"headersAudio", "headersWait"}
  PROVE  HeaderInv'
<1>1. NoHeaders => NoHeaders'
  BY DEF NoHeaders, No
<1>2. \A t \in Flushers : pc[t] \in {"headersAudio", "headersWait"}
                            <=> pc'[t] \in {"headersAudio", "headersWait"}
  BY DEF Counting
<1>3. \A t \in Flushers : Awaits(vq, pc[V], headers.video, target[t].video)
                            => Awaits(vq, pc[V], headers.video, target[t].video)'
  BY DEF Awaits, OnlyLast
<1>4. \A t \in Flushers : Awaits(aq, pc[A], headers.audio, target[t].audio)
                            => Awaits(aq, pc[A], headers.audio, target[t].audio)'
  BY DEF Awaits, OnlyLast
<1>5. No(aq, Hdr) => No(aq, Hdr)'
  BY DEF No
<1>6. ASSUME NEW t \in Flushers
      PROVE /\ pc'[t] = "headersVideo" =>
                 /\ target'[t].video = headers'.video + 1
                 /\ HasAudio => target'[t].audio = headers'.audio + 1
            /\ pc'[t] = "headersAudio" =>
                 /\ Awaits(vq, pc[V], headers.video, target[t].video)'
                 /\ No(aq, Hdr)' /\ pc'[A] # "headers" /\ target'[t].audio = headers'.audio + 1
            /\ pc'[t] = "headersWait" =>
                 /\ Awaits(vq, pc[V], headers.video, target[t].video)'
                 /\ HasAudio => Awaits(aq, pc[A], headers.audio, target[t].audio)'
            /\ pc'[t] = "synced" => vq' = << >> /\ aq' = << >> /\ pc'[V] = "get" /\ pc'[A] = "get"
  <2>1. CASE pc'[t] = pc[t]
    BY <1>3, <1>4, <1>5, <2>1 DEF HeaderInv
  <2>2. CASE pc'[t] \notin Counting
    BY <2>2 DEF Counting
  <2> QED BY <2>1, <2>2
<1> QED BY <1>1, <1>2, <1>6 DEF HeaderInv

LEMMA HeadQuiet ==
  ASSUME NoHeaders', \A t \in Flushers : pc'[t] \notin Counting
  PROVE  HeaderInv'
  BY DEF HeaderInv, Counting

LEMMA NoHeadersAppend ==
  ASSUME DataTypes, NoHeaders, NEW e \in Element \ Hdr,
         pc'[V] = pc[V], pc'[A] = pc[A],
         \/ vq' = Append(vq, e) /\ aq' = aq
         \/ aq' = Append(aq, e) /\ vq' = vq
  PROVE  NoHeaders'
<1>1. vq \in Seq(Element) /\ aq \in Seq(Element)
  BY DEF DataTypes
<1>2. CASE vq' = Append(vq, e) /\ aq' = aq
  BY <1>1, <1>2, NoAppend DEF NoHeaders
<1>3. CASE aq' = Append(aq, e) /\ vq' = vq
  BY <1>1, <1>3, NoAppend DEF NoHeaders
<1> QED BY <1>2, <1>3

LEMMA NoHeadersKept ==
  ASSUME DataTypes, NoHeaders, pc'[V] = pc[V], pc'[A] = pc[A],
         \/ vq' = Kept(vq) /\ aq' = aq
         \/ aq' = Kept(aq) /\ vq' = vq
  PROVE  NoHeaders'
<1>1. vq \in Seq(Element) /\ aq \in Seq(Element) /\ Hdr \subseteq Control
  BY DEF DataTypes, Hdr, Control
<1>2. CASE vq' = Kept(vq) /\ aq' = aq
  BY <1>1, <1>2, NoKept DEF NoHeaders
<1>3. CASE aq' = Kept(aq) /\ vq' = vq
  BY <1>1, <1>3, NoKept DEF NoHeaders
<1> QED BY <1>2, <1>3

LEMMA QuietKept ==
  ASSUME DataTypes,
         \/ vq' = Kept(vq) /\ aq' = aq
         \/ aq' = Kept(aq) /\ vq' = vq
  PROVE  QuietQ
<1>1. vq \in Seq(Element) /\ aq \in Seq(Element) /\ Ends \subseteq Control
  BY DEF DataTypes, Ends, Control
<1>2. CASE vq' = Kept(vq) /\ aq' = aq
  BY <1>1, <1>2, NoKept DEF QuietQ
<1>3. CASE aq' = Kept(aq) /\ vq' = vq
  BY <1>1, <1>3, NoKept DEF QuietQ
<1> QED BY <1>2, <1>3

-----------------------------------------------------------------------------
(* The flush of the engine, by the frontend or by a demux thread.          *)
LEMMA OwnOthers ==
  ASSUME NEW t \in Flushers, Own(t)
  PROVE  /\ pc'[V] = pc[V] /\ pc'[A] = pc[A]
         /\ \A u \in Flushers \ {t} : pc'[u] = pc[u] /\ ret'[u] = ret[u] /\ msg'[u] = msg[u]
  BY Names DEF Own, Flushers

LEMMA FlushMoves ==
  ASSUME Frame, NEW t \in Flushers, FlushStep(t)
  PROVE  /\ Own(t) /\ pc[t] \in Flush
         /\ \/ pc[t] # "synced" /\ pc'[t] \in Flush /\ ret'[t] = ret[t]
            \/ pc[t] = "synced" /\ pc'[t] = ret[t] /\ vq' = vq /\ aq' = aq
         /\ msg' = msg
         /\ UNCHANGED <<counts, demuxLock, demuxer, seen, api>>
<1> USE DEF Flush, Headers
<1>0. t \in Threads
  BY Flushes
<1>1. CASE Synced(t)
  <2>1. pc'[t] = ret[t] /\ \A u \in Threads \ {t} : pc'[u] = pc[u] /\ ret'[u] = ret[u]
    BY <1>0, <1>1, Enters DEF Synced, Back
  <2> QED BY <1>0, <1>1, <2>1 DEF Synced, Own
<1>2. ASSUME NEW l \in Flush, Goto(t, l), ret' = ret, msg' = msg
      PROVE  Own(t) /\ pc'[t] = l
  BY <1>0, <1>2, Moves DEF Own
<1>3. CASE ClearVideo(t)
  BY <1>2, <1>3 DEF ClearVideo
<1>4. CASE ClearAudio(t)
  BY <1>2, <1>4 DEF ClearAudio
<1>5. CASE ResetVideo(t)
  BY <1>2, <1>5 DEF ResetVideo
<1>6. CASE ResetAudio(t)
  BY <1>2, <1>6 DEF ResetAudio
<1>7. CASE HeadersLock(t)
  BY <1>2, <1>7 DEF HeadersLock
<1>8. CASE HeadersVideo(t)
  BY <1>2, <1>8 DEF HeadersVideo
<1>9. CASE HeadersAudio(t)
  BY <1>2, <1>9 DEF HeadersAudio
<1>10. CASE HeadersWait(t)
  BY <1>2, <1>10 DEF HeadersWait
<1> QED BY <1>1, <1>3, <1>4, <1>5, <1>6, <1>7, <1>8, <1>9, <1>10 DEF FlushStep

LEMMA FlushQuiet ==
  ASSUME Frame, NEW t \in Flushers, FlushStep(t)
  PROVE  QuietQ
<1>0. DataTypes
  BY FrameParts
<1>1. CASE ClearVideo(t) \/ ClearAudio(t)
  BY <1>0, <1>1, QuietKept DEF ClearVideo, ClearAudio
<1>2. CASE ResetVideo(t) \/ ResetAudio(t)
  <2>1. "reset" \in Element \ Ends
    BY DEF Element, Control, Ends
  <2> QED BY <1>0, <1>2, <2>1, QuietAppend DEF ResetVideo, ResetAudio
<1>3. CASE HeadersVideo(t) \/ HeadersAudio(t)
  <2>1. "headers" \in Element \ Ends
    BY DEF Element, Control, Ends
  <2> QED BY <1>0, <1>3, <2>1, QuietAppend DEF HeadersVideo, HeadersAudio
<1>4. CASE HeadersLock(t) \/ HeadersWait(t) \/ Synced(t)
  BY <1>4, QuietSame DEF HeadersLock, HeadersWait, Synced
<1> QED BY <1>1, <1>2, <1>3, <1>4 DEF FlushStep

(* The parts of HeaderInv about the one thread that waits.                 *)
WaitInv(t) ==
  /\ pc[t] = "headersVideo" =>
       target[t].video = headers.video + 1 /\ (HasAudio => target[t].audio = headers.audio + 1)
  /\ pc[t] = "headersAudio" =>
       /\ Awaits(vq, pc[V], headers.video, target[t].video)
       /\ No(aq, Hdr) /\ pc[A] # "headers" /\ target[t].audio = headers.audio + 1
  /\ pc[t] = "headersWait" =>
       /\ Awaits(vq, pc[V], headers.video, target[t].video)
       /\ HasAudio => Awaits(aq, pc[A], headers.audio, target[t].audio)
  /\ pc[t] = "synced" => vq = << >> /\ aq = << >> /\ pc[V] = "get" /\ pc[A] = "get"

LEMMA HeadOne ==
  ASSUME NEW t \in Flushers, \A u \in Flushers \ {t} : pc'[u] \notin Counting,
         WaitInv(t)', pc'[t] \notin {"headersAudio", "headersWait"} => NoHeaders'
  PROVE  HeaderInv'
<1>1. \A u \in Flushers : u = t \/ pc'[u] \notin Counting
  OBVIOUS
<1> QED BY <1>1 DEF HeaderInv, WaitInv, Counting

LEMMA FlushHeaders ==
  ASSUME Frame, Settledness, NEW t \in Flushers, FlushStep(t)
  PROVE  HeaderInv'
<1>1. DataTypes /\ pc[t] \in Flush /\ HeaderInv
  BY FrameParts, FlushMoves DEF Settledness
<1>2. /\ \A u \in Flushers \ {t} : pc[u] \notin Counting
      /\ pc[t] \notin {"headersAudio", "headersWait"} => NoHeaders
  BY <1>1, QuietProducer DEF Producing
<1>3. /\ pc'[V] = pc[V] /\ pc'[A] = pc[A] /\ headers' = headers
      /\ \A u \in Flushers \ {t} : pc'[u] \notin Counting
  BY <1>2, FlushMoves, OwnOthers
<1>4. vq \in Seq(Element) /\ aq \in Seq(Element) /\ headers.video \in Nat /\ headers.audio \in Nat
  BY <1>1, CountType DEF DataTypes
<1>5. CASE ClearVideo(t) \/ ClearAudio(t)
  <2>1. pc'[t] \in {"clearAudio", "resetEngine"}
    BY <1>5, Moves, Flushes DEF ClearVideo, ClearAudio
  <2>2. NoHeaders'
    <3>1. NoHeaders
      BY <1>2, <1>5 DEF ClearVideo, ClearAudio
    <3> QED BY <1>1, <1>3, <1>5, <3>1, NoHeadersKept DEF ClearVideo, ClearAudio
  <2> QED BY <1>3, <2>1, <2>2, HeadQuiet DEF Counting
<1>6. CASE ResetVideo(t) \/ ResetAudio(t)
  <2>1. pc'[t] \in {"resetAudio", "headersLock"}
    BY <1>6, Moves, Flushes DEF ResetVideo, ResetAudio
  <2>2. "reset" \in Element \ Hdr
    BY DEF Element, Control, Hdr
  <2>3. NoHeaders'
    <3>1. NoHeaders
      BY <1>2, <1>6 DEF ResetVideo, ResetAudio
    <3> QED BY <1>1, <1>3, <1>6, <2>2, <3>1, NoHeadersAppend DEF ResetVideo, ResetAudio
  <2> QED BY <1>3, <2>1, <2>3, HeadQuiet DEF Counting
<1>7. CASE HeadersLock(t)
  <2>1. pc'[t] = "headersVideo" /\ NoHeaders /\ vq' = vq /\ aq' = aq
    BY <1>2, <1>7, Moves, Flushes DEF HeadersLock
  <2>2. target'[t].video = headers'.video + 1 /\ (HasAudio => target'[t].audio = headers'.audio + 1)
    <3>1. target \in [Threads -> [video : Nat, audio : Nat]] /\ t \in Threads
      BY <1>1, Flushes DEF DataTypes
    <3> QED BY <1>3, <1>7, <3>1 DEF HeadersLock
  <2>3. NoHeaders'
    BY <1>3, <2>1 DEF NoHeaders, No
  <2> QED BY <1>3, <2>1, <2>2, <2>3, HeadOne DEF WaitInv
<1>8. CASE HeadersVideo(t)
  <2>1. /\ pc[t] = "headersVideo" /\ vq' = Append(vq, "headers") /\ aq' = aq /\ target' = target
        /\ pc'[t] = IF HasAudio THEN "headersAudio" ELSE "headersWait"
    BY <1>8, Moves, Flushes DEF HeadersVideo
  <2>2. /\ NoHeaders /\ target[t].video = headers.video + 1
        /\ HasAudio => target[t].audio = headers.audio + 1
    BY <1>1, <1>2, <2>1 DEF HeaderInv
  <2>3. Awaits(vq, pc[V], headers.video, target[t].video)'
    <3>1. "headers" \in Element /\ No(vq, {"headers"}) /\ pc[V] # "headers"
      BY <2>2 DEF Element, Control, NoHeaders, Hdr
    <3>2. OnlyLast(vq', "headers") /\ vq' # << >>
      BY <1>4, <2>1, <3>1, LastAppend, NoAppend
    <3> QED BY <1>3, <2>1, <2>2, <3>1, <3>2 DEF Awaits
  <2>4. No(aq, Hdr)' /\ pc'[A] # "headers"
    BY <1>3, <2>1, <2>2 DEF NoHeaders, No
  <2>5. WaitInv(t)'
    BY <1>3, <2>1, <2>2, <2>3, <2>4 DEF WaitInv
  <2> QED BY <1>3, <2>1, <2>5, HeadOne
<1>9. CASE HeadersAudio(t)
  <2>1. /\ pc[t] = "headersAudio" /\ aq' = Append(aq, "headers") /\ vq' = vq /\ target' = target
        /\ pc'[t] = "headersWait"
    BY <1>9, Moves, Flushes DEF HeadersAudio
  <2>2. /\ Awaits(vq, pc[V], headers.video, target[t].video)
        /\ No(aq, Hdr) /\ pc[A] # "headers" /\ target[t].audio = headers.audio + 1
    BY <1>1, <2>1 DEF HeaderInv
  <2>3. Awaits(aq, pc[A], headers.audio, target[t].audio)'
    <3>1. "headers" \in Element /\ No(aq, {"headers"})
      BY <2>2 DEF Element, Control, Hdr
    <3>2. OnlyLast(aq', "headers") /\ aq' # << >>
      BY <1>4, <2>1, <3>1, LastAppend, NoAppend
    <3> QED BY <1>3, <2>1, <2>2, <3>2 DEF Awaits
  <2>4. Awaits(vq, pc[V], headers.video, target[t].video)'
    BY <1>3, <2>1, <2>2 DEF Awaits, OnlyLast
  <2>5. WaitInv(t)'
    BY <2>1, <2>3, <2>4 DEF WaitInv
  <2> QED BY <1>3, <2>1, <2>5, HeadOne
<1>10. CASE HeadersWait(t)
  <2>1. /\ pc[t] = "headersWait" /\ vq' = vq /\ aq' = aq /\ pc'[t] = "synced"
        /\ headers.video >= target[t].video /\ headers.audio >= target[t].audio
    BY <1>10, Moves, Flushes DEF HeadersWait
  <2>2. /\ Awaits(vq, pc[V], headers.video, target[t].video)
        /\ HasAudio => Awaits(aq, pc[A], headers.audio, target[t].audio)
    BY <1>1, <2>1 DEF HeaderInv
  <2>3. target[t].video \in Nat /\ target[t].audio \in Nat
    BY <1>1, Flushes DEF DataTypes
  <2>4. headers.video + 1 # target[t].video /\ headers.audio + 1 # target[t].audio
    BY <1>4, <2>1, <2>3
  <2>5. vq = << >> /\ pc[V] = "get"
    BY <2>2, <2>4 DEF Awaits
  <2>6. aq = << >> /\ pc[A] = "get"
    BY <2>2, <2>4, FrameParts DEF Awaits, NoAudio
  <2>7. NoHeaders'
    <3>1. Len(<< >>) = 0 /\ 1..0 = {}
      OBVIOUS
    <3> QED BY <1>3, <2>1, <2>5, <2>6, <3>1 DEF NoHeaders, No
  <2>8. WaitInv(t)'
    BY <1>3, <2>1, <2>5, <2>6 DEF WaitInv
  <2> QED BY <1>3, <2>7, <2>8, HeadOne
<1>11. CASE Synced(t)
  <2>1. pc[t] = "synced" /\ pc'[t] = ret[t] /\ vq' = vq /\ aq' = aq
    BY <1>11, FlushMoves DEF Synced, Flush, Headers
  <2>2. ret[t] \notin Counting
    <3>1. CASE t = F
      BY <1>1, <3>1, FrameParts DEF FrontFrame, Counting
    <3>2. CASE t \in DemuxThreads
      BY <1>1, <3>2, FrameParts DEF DemuxFrame, Counting
    <3> QED BY <3>1, <3>2, Flushes
  <2>3. NoHeaders'
    <3>1. NoHeaders
      BY <1>2, <2>1
    <3> QED BY <1>3, <2>1, <3>1 DEF NoHeaders, No
  <2> QED BY <1>3, <2>1, <2>2, <2>3, HeadQuiet
<1> QED BY <1>5, <1>6, <1>7, <1>8, <1>9, <1>10, <1>11 DEF FlushStep

LEMMA PutHeaders ==
  ASSUME Frame, Settledness, NEW t \in Flushers, PutVideo(t) \/ PutAudio(t)
  PROVE  /\ HeaderInv' /\ Own(t) /\ pc[t] \in Put
         /\ pc'[t] = IF pc[t] = "putVideo" /\ HasAudio THEN "putAudio" ELSE ret[t]
         /\ pc'[t] = "putAudio" /\ pc[t] = "putVideo" => ret'[t] = ret[t]
<1>0. t \in Threads /\ DataTypes
  BY Flushes, FrameParts
<1>1. Own(t) /\ pc[t] \in Put /\ pc'[t] \in {"putAudio", ret[t]}
  <2>1. CASE Goto(t, "putAudio") /\ UNCHANGED <<ret, msg>> /\ pc[t] \in Put
    BY <1>0, <2>1, Moves DEF Own
  <2>2. CASE Back(t) /\ UNCHANGED msg /\ pc[t] \in Put
    BY <1>0, <2>2, Enters DEF Own, Back
  <2> QED BY <2>1, <2>2 DEF PutVideo, PutAudio, Put
<1>2. pc'[t] \notin Counting
  <2>1. ret[t] \notin Counting
    <3>1. CASE t = F
      BY <1>1, <3>1, FrameParts DEF FrontFrame, Counting
    <3>2. CASE t \in DemuxThreads
      BY <1>1, <3>2, FrameParts DEF DemuxFrame, Counting
    <3> QED BY <3>1, <3>2, Flushes
  <2> QED BY <1>1, <2>1 DEF Counting
<1>3. pc[t] \notin {"headersAudio", "headersWait"} /\ msg[t] \in Element \ Hdr
  BY <1>1, PutMsg DEF Put, Hdr
<1>4. NoHeaders /\ \A u \in Flushers \ {t} : pc[u] \notin Counting
  BY <1>1, <1>3, QuietProducer DEF Producing
<1>5. NoHeaders'
  <2>1. pc'[V] = pc[V] /\ pc'[A] = pc[A]
    BY <1>1, OwnOthers
  <2> QED BY <1>0, <1>3, <1>4, <2>1, NoHeadersAppend DEF PutVideo, PutAudio
<1>6. HeaderInv'
  <2>1. \A u \in Flushers \ {t} : pc'[u] \notin Counting
    BY <1>1, <1>4, OwnOthers
  <2> QED BY <1>2, <1>5, <2>1, HeadQuiet
<1>7. pc'[t] = IF pc[t] = "putVideo" /\ HasAudio THEN "putAudio" ELSE ret[t]
  <2>1. CASE PutVideo(t)
    BY <1>0, <2>1, Moves, Enters DEF PutVideo, Back
  <2>2. CASE PutAudio(t)
    BY <1>0, <2>2, Enters DEF PutAudio, Back
  <2> QED BY <2>1, <2>2
<1>8. pc'[t] = "putAudio" /\ pc[t] = "putVideo" => ret'[t] = ret[t]
  <2>1. ret[t] # "putAudio"
    <3>1. CASE t = F
      BY <1>1, <3>1, FrameParts DEF FrontFrame
    <3>2. CASE t \in DemuxThreads
      BY <1>1, <3>2, FrameParts DEF DemuxFrame
    <3> QED BY <3>1, <3>2, Flushes
  <2>2. ASSUME pc'[t] = "putAudio", pc[t] = "putVideo" PROVE ret'[t] = ret[t]
    <3>1. PutVideo(t) /\ HasAudio
      BY <1>7, <2>1, <2>2 DEF PutAudio
    <3> QED BY <3>1 DEF PutVideo
  <2> QED BY <2>2
<1> QED BY <1>1, <1>6, <1>7, <1>8

-----------------------------------------------------------------------------
(* A step of the frontend that neither starts nor joins a demux thread.    *)
LEMMA FrontMove ==
  ASSUME Frame, Settledness, Own(F), QuietQ, finished' = finished, LockInv', HeaderInv',
         UNCHANGED <<running, demuxThread, seen>>,
         firstFrame' = firstFrame \/ firstFrame' = "no" \/ pc'[F] \notin {"started", "frameWait"},
         plugin' \in Live => source' = "ok",
         source' = source \/ \A d \in DemuxThreads : ~Busy(d),
         Playing' => NoEnds /\ plugin' # "none" /\ (running = "no" \/ plugin' \in Live),
         pc'[F] = "started" => plugin' # "none",
         pc'[F] \in Put /\ ret'[F] = "returned" => plugin' = "none",
         pc'[F] \in {"started", "frameWait"} =>
           pc[F] \in {"started", "frameWait"} \/ running = "yes",
         Joining' => running = "no", Joining => Joining', Disposing => Disposing',
         \A d \in DemuxThreads :
           /\ Busy(d) => plugin' # "none" /\ ~Alone'
           /\ Busy(d) /\ status' = "stop" => pc'[F] = "started" \/ Stopping'
           /\ Past(d) /\ running = "yes" /\ plugin' \in Live => Alone' /\ call' = "open"
  PROVE  Settledness'
<1>1. /\ pc'[V] = pc[V] /\ pc'[A] = pc[A]
      /\ \A d \in DemuxThreads : pc'[d] = pc[d] /\ ret'[d] = ret[d] /\ msg'[d] = msg[d]
  BY OwnOthers, Names DEF Flushers
<1>2. ThreadInv /\ EndInv /\ \A d \in DemuxThreads : OneThread(d)
  BY DEF Settledness
<1>3. \A d \in DemuxThreads : /\ Busy(d)' <=> Busy(d)
                              /\ Halfway(d)' <=> Halfway(d)
                              /\ Before(d)' <=> Before(d)
                              /\ Past(d)' <=> Past(d)
  BY <1>1 DEF Busy, Halfway, Before, Past
<1>4. EndInv' /\ (NoEnds => NoEnds') /\ (EndInVideo' <=> EndInVideo)
  BY <1>1, <1>2, <1>3, EndSame DEF QuietV, QuietA
<1>5. ThreadInv'
  <2>1. demuxThread \in DemuxThreads \cup {Nobody}
    BY FrameParts DEF DataTypes
  <2>2. /\ demuxThread' # Nobody => pc'[demuxThread'] # "none"
        /\ running' = "yes" => demuxThread' # Nobody /\ pc'[demuxThread'] # "exited"
    BY <1>1, <1>2, <2>1 DEF ThreadInv
  <2>3. \A t \in {F, V} : pc'[t] \in {"joinLock", "join"} => running' = "no"
    BY <1>1, <1>2 DEF ThreadInv, Joining
  <2>4. pc'[F] \in {"started", "frameWait"} /\ firstFrame' = "yes" =>
          demuxThread' # Nobody \/ pc'[V] = "wakePlay"
    BY <1>1, <1>2 DEF ThreadInv
  <2> QED BY <1>4, <2>2, <2>3, <2>4 DEF ThreadInv
<1>6. ASSUME NEW d \in DemuxThreads PROVE OneThread(d)'
  <2>1. OneThread(d)
    BY <1>2
  <2>2. /\ pc'[d] # "none" => demuxThread' = d
        /\ Before(d)' => NoEnds'
        /\ Before(d)' /\ running' = "no" => Joining'
        /\ Past(d)' => EndInVideo' \/ Disposing'
        /\ running' = "no" => pc'[d] \notin Flush \cup {"chunkVideo", "chunkAudio", "chunkDone"}
    BY <1>1, <1>3, <1>4, <2>1 DEF OneThread
  <2>3. /\ Busy(d)' /\ pc'[d] # "loop" /\ ~(pc'[d] \in Put /\ ret'[d] = "ended") => seen'[d] = source'
    BY <1>1, <1>3, <2>1 DEF OneThread
  <2>4. /\ pc'[d] \in Put /\ msg'[d] = "endStream" => source' = "finished"
        /\ pc'[d] \in Put /\ msg'[d] = "endUser" => Joining'
    <3>1. pc[d] \in Put => Busy(d)
      BY DEF Busy, Put
    <3> QED BY <1>1, <2>1, <3>1 DEF OneThread
  <2> QED BY <1>3, <2>2, <2>3, <2>4 DEF OneThread
<1> QED BY <1>4, <1>5, <1>6 DEF Settledness

LEMMA FrontPlain ==
  ASSUME Frame, Settledness, Own(F), UNCHANGED <<vq, aq, headers, target>>,
         pc'[F] \notin Counting, pc[F] \notin {"headersAudio", "headersWait"}
  PROVE  QuietQ /\ HeaderInv'
<1>1. F \in Flushers
  BY DEF Flushers
<1>2. /\ pc'[V] = pc[V] /\ pc'[A] = pc[A]
      /\ \A t \in Flushers : pc'[t] = pc[t] \/ (t = F /\ pc'[t] \notin Counting)
  BY <1>1, OwnOthers
<1>3. HeaderInv'
  BY <1>2, HeadSame DEF Settledness
<1> QED BY <1>3, QuietSame

(* The frontend is alone: no demux thread is in its loop.                  *)
LEMMA FrontAlone ==
  ASSUME Frame, Settledness, Alone, Own(F), QuietQ, finished' = finished, LockInv', HeaderInv',
         UNCHANGED <<running, demuxThread, seen>>,
         plugin' \in Live => source' = "ok",
         ~Playing', pc'[F] \notin {"started", "frameWait"}, ~Joining', Disposing => Disposing',
         pc'[F] \in Put /\ ret'[F] = "returned" => plugin' = "none",
         \A d \in DemuxThreads :
           Past(d) /\ running = "yes" /\ plugin' \in Live => Alone' /\ call' = "open"
  PROVE  Settledness'
<1>1. \A d \in DemuxThreads : ~Busy(d)
  BY DEF Settledness, OneThread
<1>2. ~Joining
  BY DEF Alone, Joining, Put, Flush, Headers
<1> QED BY <1>1, <1>2, FrontMove

LEMMA AloneKept ==
  ASSUME Frame, Settledness, plugin' \in Live => plugin' = plugin /\ Alone' /\ call' = call
  PROVE  \A d \in DemuxThreads :
           Past(d) /\ running = "yes" /\ plugin' \in Live => Alone' /\ call' = "open"
  BY DEF Settledness, OneThread

(* When all headers were seen no END is left.                              *)
LEMMA SyncedPast ==
  ASSUME Frame, Settledness, pc[F] = "synced", ~Disposing
  PROVE  \A d \in DemuxThreads : ~Past(d)
<1>1. vq = << >> /\ pc[V] = "get"
  BY DEF Settledness, HeaderInv, Flushers
<1>2. ~EndInVideo
  <2>1. Len(<< >>) = 0 /\ 1..0 = {}
    OBVIOUS
  <2> QED BY <1>1, <2>1 DEF EndInVideo, No, EndingV
<1> QED BY <1>2 DEF Settledness, OneThread

LEMMA FrontFlush ==
  ASSUME Frame, Settledness, FlushStep(F)
  PROVE  Settledness'
<1>0. F \in Flushers /\ F \in Threads /\ F \notin DemuxThreads
  BY Names DEF Flushers
<1>1. /\ Own(F) /\ pc[F] \in Flush
      /\ \/ pc[F] # "synced" /\ pc'[F] \in Flush /\ ret'[F] = ret[F]
         \/ pc[F] = "synced" /\ pc'[F] = ret[F]
      /\ UNCHANGED <<counts, demuxLock, demuxer, seen, api>>
  BY <1>0, FlushMoves
<1>2. QuietQ /\ HeaderInv'
  BY <1>0, FlushQuiet, FlushHeaders
<1>3. /\ ret[F] \in {"stopped", "sought", "returned"} /\ (ret[F] = "returned" => call = "open")
      /\ FrontFrame
  BY <1>1, FrameParts DEF FrontFrame
<1>4. Seeking' <=> Seeking
  BY <1>1, <1>3 DEF Seeking, Flush, Headers
<1>5. LockInv'
  BY <1>0, <1>1, <1>4, LockMove DEF Settledness
<1>6. /\ (Disposing' <=> Disposing) /\ ~Joining /\ ~Joining'
      /\ pc'[F] \notin {"started", "frameWait"} \cup Put
  BY <1>1, <1>3 DEF Disposing, Joining, Flush, Headers, Put
<1>7. plugin \in Live => source = "ok"
  BY DEF Settledness, ThreadInv
<1>8. CASE ret[F] = "sought"
  <2>1. Playing /\ Playing' /\ ~Alone' /\ pc[F] # "started" /\ ~Stopping /\ pc'[F] # "started"
    BY <1>1, <1>8 DEF Playing, Alone, Stopping, Joining, Flush, Headers, Put
  <2>2. NoEnds /\ plugin # "none" /\ (running = "no" \/ plugin \in Live)
    BY <2>1 DEF Settledness, ThreadInv
  <2>3. \A d \in DemuxThreads :
          /\ Busy(d) => plugin # "none" /\ status # "stop"
          /\ ~(Past(d) /\ running = "yes" /\ plugin \in Live)
    <3>1. ~Alone
      BY <1>1, <1>8 DEF Alone, Flush, Headers, Put
    <3> QED BY <2>1, <3>1 DEF Settledness, OneThread
  <2> QED BY <1>1, <1>2, <1>5, <1>6, <1>7, <2>1, <2>2, <2>3, FrontMove
<1>9. CASE ret[F] # "sought"
  <2>1. Alone /\ ~Playing'
    BY <1>1, <1>3, <1>9 DEF Alone, Playing, Flush, Headers
  <2>2. CASE pc[F] = "synced" /\ ret[F] = "returned"
    <3>1. ~Disposing
      BY <1>3, <2>2 DEF Disposing
    <3>2. \A d \in DemuxThreads : ~Past(d)
      BY <2>2, <3>1, SyncedPast
    <3> QED BY <1>1, <1>2, <1>5, <1>6, <1>7, <2>1, <3>2, FrontAlone
  <2>3. CASE ~(pc[F] = "synced" /\ ret[F] = "returned")
    <3>1. Alone'
      BY <1>1, <1>3, <1>9, <2>3 DEF Alone
    <3> QED BY <1>1, <1>2, <1>5, <1>6, <1>7, <2>1, <3>1, AloneKept, FrontAlone
  <2> QED BY <2>2, <2>3
<1> QED BY <1>8, <1>9

LEMMA FrontPut ==
  ASSUME Frame, Settledness, PutVideo(F) \/ PutAudio(F)
  PROVE  Settledness'
<1>0. F \in Flushers /\ F \in Threads /\ F \notin DemuxThreads
  BY Names DEF Flushers
<1>1. /\ Own(F) /\ pc[F] \in Put /\ HeaderInv' /\ pc'[F] \in {"putAudio", ret[F]}
      /\ UNCHANGED <<counts, locks, demuxer, seen, api>>
  BY <1>0, PutHeaders DEF PutVideo, PutAudio
<1>2. ret[F] \in {"opened", "returned"} /\ msg[F] \in Element \ Ends /\ call = "open"
  BY <1>0, <1>1, FrameParts, PutMsg DEF FrontFrame
<1>3. QuietQ
  BY <1>2, FrameParts, QuietAppend DEF PutVideo, PutAudio
<1>4. /\ ~Seeking /\ ~Seeking' /\ ~Playing' /\ pc'[F] \notin {"started", "frameWait"} /\ ~Joining'
      /\ Alone /\ (Disposing => Disposing')
  BY <1>1, <1>2 DEF Seeking, Playing, Joining, Alone, Disposing, Put, Flush, Headers
<1>5. LockInv'
  BY <1>0, <1>1, <1>4, LockMove DEF Settledness
<1>6. plugin \in Live => source = "ok"
  BY DEF Settledness, ThreadInv
<1>7. pc'[F] \in Put /\ ret'[F] = "returned" => plugin = "none"
  BY <1>0, <1>1, <1>2, PutHeaders DEF Settledness, ThreadInv, Put
<1>8. CASE pc'[F] # "returned"
  <2>1. Alone'
    BY <1>1, <1>2, <1>8 DEF Alone, Put
  <2> QED BY <1>1, <1>3, <1>4, <1>5, <1>6, <1>7, <2>1, AloneKept, FrontAlone
<1>9. CASE pc'[F] = "returned"
  <2>1. ret[F] = "returned" /\ plugin = "none"
    BY <1>1, <1>9 DEF Settledness, ThreadInv
  <2>2. plugin' \notin Live
    BY <1>1, <2>1, PluginAssumption
  <2> QED BY <1>1, <1>3, <1>4, <1>5, <1>6, <1>7, <2>2, FrontAlone
<1> QED BY <1>8, <1>9

LEMMA AloneStep ==
  ASSUME Frame, Settledness, Alone, pc[F] \notin Flush, Own(F),
         UNCHANGED <<vq, aq, counts, demuxLock, running, demuxThread, seen, target>>,
         pc'[F] \in {"stopFlush", "clearVideo", "stopped", "openPlugin", "opened", "quitAudio",
                     "quitVideo", "returned", "gone", "putVideo", "headersLock"},
         pc'[F] \in {"clearVideo", "headersLock"} => ret'[F] \in {"stopped", "returned"},
         pc'[F] = "putVideo" /\ ret'[F] = "returned" => plugin' = "none",
         plugin' \in Live => source' = "ok",
         call' = call \/ pc'[F] = "gone", pc[F] # "gone",
         \A d \in DemuxThreads :
           Past(d) /\ running = "yes" /\ plugin' \in Live => Alone' /\ call' = "open"
  PROVE  Settledness'
<1>1. /\ ~Seeking /\ ~Seeking' /\ ~Playing' /\ ~Joining' /\ (Disposing => Disposing')
      /\ pc'[F] \notin {"started", "frameWait"} \cup Counting
      /\ pc[F] \notin {"headersAudio", "headersWait"}
      /\ pc'[F] \in Put => pc'[F] = "putVideo"
  BY DEF Seeking, Playing, Joining, Disposing, Counting, Alone, Put, Flush, Headers
<1>2. QuietQ /\ HeaderInv'
  BY <1>1, FrontPlain
<1>3. LockInv'
  BY <1>1, LockMove, Names DEF Settledness
<1> QED BY <1>1, <1>2, <1>3, FrontAlone

LEMMA AloneSteps ==
  ASSUME Frame, Settledness,
         WakePlay(F) \/ StopFlush \/ Stopped \/ OpenPlugin \/ Opened \/ JoinDecoder
  PROVE  Settledness'
<1>0. F \in Threads /\ FrontFrame /\ (plugin \in Live => source = "ok") /\ "none" \notin Live
  BY Names, FrameParts, PluginAssumption DEF Settledness, ThreadInv
<1>1. CASE WakePlay(F)
  <2>1. pc[F] = "wakePlay" /\ pc'[F] = "stopFlush" /\ Own(F)
    BY <1>0, <1>1, Enters DEF WakePlay, Back, FrontFrame, Stop, Own
  <2>2. Alone /\ Alone' /\ pc[F] \notin Flush
    BY <2>1 DEF Alone, Flush, Headers
  <2> QED BY <1>0, <1>1, <2>1, <2>2, AloneKept, AloneStep DEF WakePlay
<1>2. CASE StopFlush
  <2>1. pc[F] = "stopFlush" /\ pc'[F] = "clearVideo" /\ ret'[F] = "stopped" /\ Own(F)
    BY <1>0, <1>2, Enters DEF StopFlush, Own
  <2>2. Alone /\ Alone' /\ pc[F] \notin Flush
    BY <2>1 DEF Alone, Flush, Headers
  <2> QED BY <1>0, <1>2, <2>1, <2>2, AloneKept, AloneStep DEF StopFlush
<1>3. CASE Stopped
  <2>1. PICK l \in {"openPlugin", "quitAudio", "quitVideo", "returned"} : Goto(F, l)
    BY <1>3 DEF Stopped
  <2>2. pc[F] = "stopped" /\ pc'[F] = l /\ Own(F)
    BY <1>0, <1>3, <2>1, Moves DEF Stopped, Own
  <2>3. Alone /\ pc[F] \notin Flush
    BY <2>2 DEF Alone, Flush, Headers
  <2>4. plugin' \in Live => plugin' = plugin /\ call = "stop"
    BY <1>0, <1>3 DEF Stopped
  <2>5. \A d \in DemuxThreads : ~(Past(d) /\ running = "yes" /\ plugin' \in Live)
    BY <2>4 DEF Settledness, OneThread
  <2>6. UNCHANGED <<vq, aq, counts, demuxLock, running, demuxThread, seen, target, source, call>>
    BY <1>3 DEF Stopped
  <2> QED BY <1>0, <2>2, <2>3, <2>4, <2>5, <2>6, AloneStep
<1>4. CASE OpenPlugin
  <2>1. pc[F] = "openPlugin" /\ call' = "open" /\ call = "open"
    BY <1>0, <1>4 DEF OpenPlugin, FrontFrame
  <2>2. Alone /\ pc[F] \notin Flush
    BY <2>1 DEF Alone, Flush, Headers
  <2>3. UNCHANGED <<vq, aq, counts, demuxLock, running, demuxThread, seen, target>>
    BY <1>4 DEF OpenPlugin
  <2>4. ASSUME NEW m \in {"start", "nop"}, NEW back \in {"opened", "returned"}, PutBoth(F, m, back)
        PROVE  pc'[F] = "putVideo" /\ ret'[F] = back /\ Own(F) /\ Alone'
    <3>1. m \in Element
      BY DEF Element, Control
    <3>2. pc'[F] = "putVideo" /\ ret'[F] = back /\ Own(F)
      BY <1>0, <2>4, <3>1, PutBothFacts, Enters DEF Own
    <3> QED BY <3>2 DEF Alone, Put
  <2>5. CASE plugin' \in Plugins /\ source' = "ok" /\ PutBoth(F, "start", "opened")
    BY <2>1, <2>2, <2>3, <2>4, <2>5, AloneStep
  <2>6. CASE plugin' = "none" /\ PutBoth(F, "nop", "returned")
    BY <1>0, <2>1, <2>2, <2>3, <2>4, <2>6, AloneStep
  <2>7. CASE plugin' = "none" /\ Goto(F, "returned") /\ UNCHANGED <<ret, msg>>
    <3>1. pc'[F] = "returned" /\ Own(F)
      BY <1>0, <2>7, Moves DEF Own
    <3> QED BY <1>0, <2>1, <2>2, <2>3, <2>7, <3>1, AloneStep
  <2> QED BY <1>4, <2>5, <2>6, <2>7 DEF OpenPlugin
<1>5. CASE Opened
  <2>1. pc[F] = "opened" /\ call' = "open" /\ call = "open"
    BY <1>0, <1>5 DEF Opened, FrontFrame
  <2>2. Alone /\ pc[F] \notin Flush
    BY <2>1 DEF Alone, Flush, Headers
  <2>3. UNCHANGED <<vq, aq, counts, demuxLock, source, running, demuxThread, seen, target, msg>>
    BY <1>5 DEF Opened
  <2>4. CASE Enter(F, "headersLock", "returned") /\ plugin' = plugin
    <3>1. pc'[F] = "headersLock" /\ ret'[F] = "returned" /\ Own(F)
      BY <1>0, <2>3, <2>4, Enters DEF Own
    <3>2. Alone'
      BY <3>1 DEF Alone, Flush, Headers
    <3> QED BY <1>0, <2>1, <2>2, <2>3, <2>4, <3>1, <3>2, AloneKept, AloneStep
  <2>5. CASE Goto(F, "returned") /\ plugin' = "none" /\ ret' = ret
    <3>1. pc'[F] = "returned" /\ Own(F)
      BY <1>0, <2>3, <2>5, Moves DEF Own
    <3> QED BY <1>0, <2>1, <2>2, <2>3, <2>5, <3>1, AloneStep
  <2> QED BY <1>5, <2>4, <2>5 DEF Opened
<1>6. CASE JoinDecoder
  <2>1. PICK l \in {"quitVideo", "gone"} : Goto(F, l)
    BY <1>6 DEF JoinDecoder
  <2>2. pc[F] \in {"joinAudio", "joinVideo"} /\ pc'[F] = l /\ Own(F)
    BY <1>0, <1>6, <2>1, Moves DEF JoinDecoder, Own
  <2>3. Alone /\ pc[F] \notin Flush
    BY <2>2 DEF Alone, Flush, Headers
  <2>4. call = "dispose" /\ (call' = call \/ pc'[F] = "gone")
    BY <1>0, <1>6, <2>2, Moves DEF FrontFrame, JoinDecoder
  <2>5. UNCHANGED <<vq, aq, counts, demuxLock, source, running, demuxThread, seen, target, plugin>>
    BY <1>6 DEF JoinDecoder
  <2>6. \A d \in DemuxThreads : ~(Past(d) /\ running = "yes" /\ plugin \in Live)
    BY <2>4 DEF Settledness, OneThread
  <2> QED BY <1>0, <2>2, <2>3, <2>4, <2>5, <2>6, AloneStep
<1> QED BY <1>1, <1>2, <1>3, <1>4, <1>5, <1>6

LEMMA QuitSteps ==
  ASSUME Frame, Settledness, QuitAudio \/ QuitVideo
  PROVE  Settledness'
<1>0. F \in Threads /\ F \in Flushers /\ (plugin \in Live => source = "ok")
  BY Names DEF Settledness, ThreadInv, Flushers
<1>1. PICK l \in {"joinAudio", "joinVideo"} : Goto(F, l)
  BY DEF QuitAudio, QuitVideo
<1>2. /\ pc[F] \in {"quitAudio", "quitVideo"} /\ pc'[F] = l /\ Own(F)
      /\ UNCHANGED <<counts, demuxLock, demuxer, seen, plugin, call, status>>
  BY <1>0, <1>1, Moves DEF QuitAudio, QuitVideo, Own
<1>3. /\ Alone /\ Alone' /\ pc[F] \notin Flush /\ ~Seeking /\ ~Seeking' /\ ~Playing' /\ ~Joining'
      /\ pc'[F] \notin {"started", "frameWait"} \cup Counting \cup Put /\ (Disposing => Disposing')
  BY <1>2 DEF Alone, Seeking, Playing, Joining, Disposing, Counting, Put, Flush, Headers
<1>4. "quit" \in Element \ Ends /\ "quit" \in Element \ Hdr
  BY DEF Element, Control, Ends, Hdr
<1>5. QuietQ
  BY <1>4, FrameParts, QuietAppend DEF QuitAudio, QuitVideo
<1>6. HeaderInv'
  <2>1. NoHeaders /\ \A t \in Flushers \ {F} : pc[t] \notin Counting
    BY <1>0, <1>2, QuietProducer DEF Producing
  <2>2. pc'[V] = pc[V] /\ pc'[A] = pc[A] /\ \A t \in Flushers \ {F} : pc'[t] = pc[t]
    BY <1>0, <1>2, OwnOthers
  <2>3. NoHeaders'
    BY <1>4, <2>1, <2>2, FrameParts, NoHeadersAppend DEF QuitAudio, QuitVideo
  <2> QED BY <1>3, <2>1, <2>2, <2>3, HeadQuiet
<1>7. LockInv'
  BY <1>0, <1>2, <1>3, LockMove, Names DEF Settledness
<1> QED BY <1>0, <1>2, <1>3, <1>5, <1>6, <1>7, AloneKept, FrontAlone

LEMMA PlainMove ==
  ASSUME Frame, Settledness, ~Alone, pc[F] \notin Flush, Own(F),
         UNCHANGED <<vq, aq, counts, running, demuxThread, seen, target, plugin>>,
         LockInv', pc'[F] \notin Counting \cup Put,
         firstFrame' = firstFrame \/ firstFrame' = "no" \/ pc'[F] \notin {"started", "frameWait"},
         plugin \in Live => source' = "ok",
         source' = source \/ \A d \in DemuxThreads : ~Busy(d),
         Playing' => NoEnds /\ plugin # "none" /\ (running = "no" \/ plugin \in Live),
         pc'[F] = "started" => plugin # "none",
         pc'[F] \in {"started", "frameWait"} =>
           pc[F] \in {"started", "frameWait"} \/ running = "yes",
         Joining' => running = "no", Joining => Joining', Disposing => Disposing',
         \A d \in DemuxThreads : Busy(d) =>
           ~Alone' /\ (status' = "stop" => pc'[F] = "started" \/ Stopping')
  PROVE  Settledness'
<1>1. pc[F] \notin {"headersAudio", "headersWait"}
  BY DEF Flush, Headers
<1>2. QuietQ /\ HeaderInv'
  BY <1>1, FrontPlain
<1>3. \A d \in DemuxThreads : /\ Busy(d) => plugin # "none"
                              /\ ~(Past(d) /\ running = "yes" /\ plugin \in Live)
  BY DEF Settledness, OneThread
<1> QED BY <1>2, <1>3, FrontMove

(* A step that leaves demux_lock alone and is not about it.                *)
LEMMA FrontUnlocked ==
  ASSUME Settledness, Own(F), demuxLock' = demuxLock, ~Seeking, ~Seeking'
  PROVE  LockInv'
  BY LockMove, Names DEF Settledness

LEMMA CallSettled ==
  ASSUME PlayWhen = "settled", Frame, Settledness, FrontCall
  PROVE  Settledness'
<1>0. F \in Threads /\ (plugin \in Live => source = "ok")
  BY Names DEF Settledness, ThreadInv
<1>1. /\ pc[F] = "idle" /\ call = "none"
      /\ UNCHANGED <<vq, aq, counts, demuxLock, running, demuxThread, seen, target, plugin,
                     source, firstFrame, local>>
  BY FrameParts DEF FrontCall, CallPlay, CallStop, CallDispose, Call, FrontFrame
<1>2. PICK l \in {"playLock", "stopInternal"} : Goto(F, l)
  BY DEF FrontCall, CallPlay, CallStop, CallDispose, Call
<1>3. pc'[F] = l /\ Own(F)
  BY <1>0, <1>1, <1>2, Moves DEF Own
<1>4. /\ ~Seeking /\ ~Seeking' /\ ~Alone /\ ~Alone' /\ pc[F] \notin Flush
      /\ pc'[F] \notin Counting \cup Put \cup {"started", "frameWait"} /\ ~Joining' /\ ~Joining
      /\ ~Disposing /\ ~Stopping /\ (Playing' <=> l = "playLock")
  BY <1>1, <1>3
     DEF Seeking, Alone, Playing, Joining, Disposing, Stopping, Counting, Put, Flush, Headers
<1>5. LockInv'
  BY <1>1, <1>3, <1>4, FrontUnlocked
<1>6. \A d \in DemuxThreads : Busy(d) => status' # "stop"
  <2>1. \A d \in DemuxThreads : Busy(d) => status # "stop"
    BY <1>1, <1>4 DEF Settledness, OneThread
  <2> QED BY <2>1 DEF FrontCall, CallPlay, CallStop, CallDispose, Call
<1>7. Playing' => NoEnds /\ plugin # "none" /\ (running = "no" \/ plugin \in Live)
  <2>1. SUFFICES ASSUME Playing' PROVE NoEnds /\ plugin # "none" /\ (running = "no" \/ plugin \in Live)
    OBVIOUS
  <2>2. CallPlay
    BY <1>2, <1>3, <1>4, <2>1, <1>0, Moves DEF FrontCall, CallStop, CallDispose, Call
  <2>3. plugin # "none" /\ (Settled \/ (plugin \in Live /\ running = "yes"))
    BY <2>2 DEF CallPlay
  <2>4. CASE Settled
    BY <2>3, <2>4 DEF Settled, NoEnds, No
  <2>5. CASE plugin \in Live /\ running = "yes"
    <3>1. PICK d \in DemuxThreads : d = demuxThread /\ pc[d] \notin {"none", "exited"}
      BY <2>5, FrameParts DEF Settledness, ThreadInv, DataTypes
    <3>2. ~Past(d)
      BY <1>1, <2>5 DEF Settledness, OneThread
    <3>3. Before(d)
      BY <3>1, <3>2 DEF Before, Past, Busy
    <3> QED BY <2>3, <2>5, <3>3 DEF Settledness, OneThread
  <2> QED BY <2>3, <2>4, <2>5
<1> QED BY <1>0, <1>1, <1>3, <1>4, <1>5, <1>6, <1>7, PlainMove

LEMMA PlaySteps ==
  ASSUME Frame, Settledness, PlayLock \/ Seek \/ Sought \/ StartThread
  PROVE  Settledness'
<1>0. /\ F \in Threads /\ (plugin \in Live => source = "ok") /\ LockInv
      /\ Playing => NoEnds /\ plugin # "none" /\ (running = "no" \/ plugin \in Live)
  BY Names DEF Settledness, ThreadInv
<1>1. /\ pc[F] \in {"playLock", "seek", "sought", "startThread"}
      /\ UNCHANGED <<vq, aq, counts, running, demuxThread, seen, target, plugin, msg, call, status>>
  BY DEF PlayLock, Lock, Seek, Sought, StartThread
<1>2. PICK l \in {"seek", "sought", "clearVideo", "startThread", "playFailed", "startLock"} :
        /\ pc'[F] = l /\ Own(F)
        /\ l = "clearVideo" => ret'[F] = "sought" /\ Seek
        /\ l = "seek" => PlayLock
        /\ l = "sought" => Seek
        /\ l \in {"startThread", "playFailed"} => Sought
        /\ l = "startLock" => StartThread
  <2>1. CASE PlayLock \/ Sought \/ StartThread
    BY <1>0, <1>1, <2>1, Moves DEF PlayLock, Lock, Sought, StartThread, Own
  <2>2. CASE Seek /\ Goto(F, "sought") /\ UNCHANGED ret
    BY <1>0, <1>1, <2>2, Moves DEF Own
  <2>3. CASE Seek /\ Enter(F, "clearVideo", "sought")
    BY <1>0, <1>1, <2>3, Enters DEF Own
  <2> QED BY <2>1, <2>2, <2>3 DEF Seek
<1>3. /\ Playing /\ ~Alone /\ ~Alone' /\ pc[F] \notin Flush
      /\ pc'[F] \notin Counting \cup Put \cup {"started", "frameWait"} /\ ~Joining' /\ ~Joining
      /\ (Disposing => Disposing') /\ ~Stopping /\ pc[F] # "started"
  BY <1>1, <1>2
     DEF Alone, Playing, Joining, Disposing, Stopping, Counting, Put, Flush, Headers
<1>4. \A d \in DemuxThreads : Busy(d) => status' # "stop"
  BY <1>1, <1>3 DEF Settledness, OneThread
<1>5. (plugin \in Live => source' = "ok") /\ (source' = source \/ \A d \in DemuxThreads : ~Busy(d))
  <2>1. CASE source' = source
    BY <1>0, <2>1
  <2>2. CASE Sought
    <3>1. plugin \in Live => source' = "ok"
      BY <2>2 DEF Sought, SourceStatus
    <3>2. CASE running = "no"
      <4>1. \A d \in DemuxThreads : ~Busy(d)
        <5>1. SUFFICES ASSUME NEW d \in DemuxThreads, Busy(d) PROVE FALSE
          OBVIOUS
        <5>2. ~Before(d)
          BY <1>3, <3>2 DEF Settledness, OneThread
        <5>3. pc[d] = "putAudio"
          BY <5>1, <5>2 DEF Before, Halfway
        <5>4. demuxLock = d
          BY <1>0, <5>3 DEF LockInv, Locked, Put
        <5>5. demuxLock = F
          BY <1>0, <2>2 DEF LockInv, Sought
        <5> QED BY <5>4, <5>5, Names
      <4> QED BY <3>1, <4>1
    <3>3. CASE plugin \in Live
      BY <1>0, <3>1, <3>3
    <3> QED BY <1>0, <1>3, <3>2, <3>3
  <2> QED BY <2>1, <2>2 DEF PlayLock, Seek, StartThread
<1>6. LockInv'
  <2>1. CASE PlayLock
    <3>1. Seeking' /\ demuxLock = Nobody /\ demuxLock' = F
      BY <1>0, <2>1, Moves DEF PlayLock, Lock, Seeking
    <3> QED BY <1>0, <1>2, <3>1, LockTake, Names DEF Flushers
  <2>2. CASE Seek
    <3>1. Seeking /\ Seeking' /\ demuxLock' = demuxLock
      <4>1. pc[F] = "seek" /\ (l = "sought" \/ l = "clearVideo")
        BY <1>2, <2>2 DEF Seek, PlayLock, Lock, Sought, StartThread
      <4> QED BY <1>2, <2>2, <4>1 DEF Seek, Seeking, Flush
    <3> QED BY <1>0, <1>2, <3>1, LockMove, Names
  <2>3. CASE Sought
    <3>1. Seeking /\ demuxLock' = Nobody /\ pc[F] = "sought"
      BY <2>3 DEF Sought, Seeking
    <3>2. ~Seeking'
      BY <1>2, <3>1 DEF Seeking, PlayLock, Lock, Seek, StartThread, Flush, Headers
    <3> QED BY <1>0, <1>2, <3>1, <3>2, LockDrop, Names DEF Flushers
  <2>4. CASE StartThread
    <3>1. pc[F] = "startThread" /\ demuxLock' = demuxLock
      BY <2>4 DEF StartThread
    <3>2. ~Seeking /\ ~Seeking'
      BY <1>2, <3>1 DEF Seeking, PlayLock, Lock, Seek, Sought, Flush, Headers
    <3> QED BY <1>2, <3>1, <3>2, FrontUnlocked
  <2> QED BY <2>1, <2>2, <2>3, <2>4
<1> QED BY <1>0, <1>1, <1>2, <1>3, <1>4, <1>5, <1>6, PlainMove

LEMMA FrontPlainSteps ==
  ASSUME Frame, Settledness,
         StopInternal \/ StopCounts \/ StopThread(F) \/ JoinLock(F) \/ PlayFailed
           \/ Started \/ FrameWait \/ Returned
  PROVE  Settledness'
<1>0. F \in Threads /\ FrontFrame /\ (plugin \in Live => source = "ok")
  BY Names, FrameParts DEF Settledness, ThreadInv
<1>1. /\ pc[F] \in {"stopInternal", "stopCounts", "stopThread", "joinLock", "playFailed",
                    "started", "frameWait", "returned"}
      /\ UNCHANGED <<vq, aq, counts, demuxLock, running, demuxThread, seen, target, plugin, source>>
  BY DEF StopInternal, StopCounts, StopThread, JoinLock, PlayFailed, Started, FrameWait, Returned
<1>2. PICK l \in {"stopped", "stopCounts", "stopThread", "stopLock", "join", "returned",
                  "frameWait", "idle"} :
        /\ pc'[F] = l /\ Own(F)
        /\ l = "stopCounts" => StopInternal
        /\ l = "stopped" => \/ StopInternal /\ status = "stop"
                            \/ StopCounts /\ plugin = "none"
        /\ l = "stopThread" => StopCounts
        /\ l = "stopLock" => StopThread(F)
        /\ l = "join" => JoinLock(F)
        /\ l = "frameWait" => Started
        /\ l = "idle" => Returned
        /\ l = "returned" => PlayFailed \/ FrameWait
  <2>1. CASE StopCounts /\ Enter(F, "stopThread", "stopFlush")
    BY <1>0, <1>1, <2>1, Enters DEF Own, StopCounts
  <2>2. CASE StopCounts /\ plugin = "none" /\ Goto(F, "stopped") /\ UNCHANGED ret
    BY <1>0, <1>1, <2>2, Moves DEF Own, StopCounts
  <2>3. CASE StopInternal
    BY <1>0, <1>1, <2>3, Moves DEF Own, StopInternal
  <2>4. CASE StopThread(F) \/ JoinLock(F) \/ PlayFailed \/ Started \/ FrameWait
    BY <1>0, <1>1, <2>4, Moves DEF Own, StopThread, JoinLock, PlayFailed, Started, FrameWait
  <2>5. CASE Returned
    BY <1>0, <1>1, <2>5, Moves, FrameParts DEF Own, Returned, DataTypes
  <2> QED BY <2>1, <2>2, <2>3, <2>4, <2>5 DEF StopCounts
<1>3. /\ ~Alone /\ pc[F] \notin Flush /\ ~Seeking /\ ~Seeking' /\ ~Playing'
      /\ pc'[F] \notin Counting \cup Put \cup {"started"}
      /\ Alone' <=> l = "stopped"
  BY <1>1, <1>2
     DEF Alone, Playing, Joining, Stopping, Counting, Put, Flush, Headers, Seeking
<1>4. LockInv'
  BY <1>1, <1>2, <1>3, FrontUnlocked
<1>5. firstFrame' = firstFrame \/ firstFrame' = "no"
  BY DEF StopInternal, StopCounts, StopThread, JoinLock, PlayFailed, Started, FrameWait, Returned
<1>6. pc'[F] = "frameWait" => pc[F] \in {"started", "frameWait"}
  BY <1>2 DEF Started
<1>7. (Joining' => running = "no") /\ (Joining => Joining')
  <2>1. Joining' => JoinLock(F) /\ pc[F] = "joinLock"
    BY <1>2 DEF Joining, JoinLock
  <2>2. pc[F] = "joinLock" => running = "no"
    BY DEF Settledness, ThreadInv
  <2>3. Joining => JoinLock(F)
    BY DEF Joining, StopInternal, StopCounts, StopThread, JoinLock, PlayFailed, Started,
           FrameWait, Returned
  <2>4. JoinLock(F) => Joining'
    BY <1>0, Moves DEF JoinLock, Joining
  <2> QED BY <2>1, <2>2, <2>3, <2>4
<1>8. Disposing => Disposing'
  <2>1. Disposing => call = "dispose" /\ pc[F] # "returned"
    BY <1>0, <1>1 DEF Disposing, FrontFrame
  <2>2. pc[F] # "returned" => call' = call
    BY DEF StopInternal, StopCounts, StopThread, JoinLock, PlayFailed, Started,
           FrameWait, Returned
  <2> QED BY <2>1, <2>2 DEF Disposing
<1>9. ASSUME NEW d \in DemuxThreads, Busy(d)
      PROVE  ~Alone' /\ (status' = "stop" => pc'[F] = "started" \/ Stopping')
  <2>1. plugin # "none" /\ (status = "stop" => pc[F] = "started" \/ Stopping)
    BY <1>9 DEF Settledness, OneThread
  <2>2. l # "stopped"
    <3>1. ~(StopInternal /\ status = "stop")
      BY <2>1 DEF StopInternal, Stopping, Joining
    <3> QED BY <1>2, <2>1, <3>1
  <2>3. CASE l \in {"stopCounts", "stopThread", "stopLock", "join"}
    BY <1>2, <1>3, <2>3 DEF Stopping, Joining
  <2>4. CASE l \in {"returned", "frameWait", "idle"}
    <3>1. status' # "stop"
      <4>1. CASE Started
        BY <4>1 DEF Started
      <4>2. CASE PlayFailed \/ FrameWait \/ Returned
        BY <2>1, <4>2 DEF PlayFailed, FrameWait, Returned, Stopping, Joining
      <4> QED BY <1>2, <2>4, <4>1, <4>2
    <3> QED BY <1>3, <2>4, <3>1
  <2> QED BY <2>2, <2>3, <2>4
<1> QED BY <1>0, <1>1, <1>2, <1>3, <1>4, <1>5, <1>6, <1>7, <1>8, <1>9, PlainMove

-----------------------------------------------------------------------------
(* A step of a decoder.                                                    *)
LEMMA DecoderMove ==
  ASSUME Frame, Settledness, NEW t \in {V, A}, Own(t),
         UNCHANGED <<plugin, source, running, demuxThread, seen, call, demuxLock>>,
         status' = status \/ \A d \in DemuxThreads : ~Busy(d),
         NoEnds => NoEnds', EndInVideo => EndInVideo' \/ Disposing,
         EndInv', HeaderInv', firstFrame' \in {firstFrame, "no"},
         pc[V] = "wakePlay" => pc'[V] = "wakePlay" \/ firstFrame' = "no",
         pc'[V] \in {"joinLock", "join"} => running = "no"
  PROVE  Settledness'
<1>1. /\ pc'[F] = pc[F] /\ ret'[F] = ret[F]
      /\ \A d \in DemuxThreads : pc'[d] = pc[d] /\ ret'[d] = ret[d] /\ msg'[d] = msg[d]
      /\ t \in Threads /\ t # F /\ t \notin DemuxThreads
  BY Names DEF Own
<1>2. LockInv /\ ThreadInv /\ \A d \in DemuxThreads : OneThread(d)
  BY DEF Settledness
<1>3. LockInv'
  BY <1>1, <1>2, LockMove
<1>4. /\ Playing' <=> Playing
      /\ Joining' <=> Joining
      /\ Stopping' <=> Stopping
      /\ Alone' <=> Alone
      /\ Disposing' <=> Disposing
  BY <1>1 DEF Playing, Joining, Stopping, Alone, Disposing
<1>5. ThreadInv'
  <2>1. demuxThread \in DemuxThreads \cup {Nobody}
    BY FrameParts DEF DataTypes
  <2>2. /\ demuxThread' # Nobody => pc'[demuxThread'] # "none"
        /\ running' = "yes" => demuxThread' # Nobody /\ pc'[demuxThread'] # "exited"
    BY <1>1, <1>2, <2>1 DEF ThreadInv
  <2>3. \A u \in {F, V} : pc'[u] \in {"joinLock", "join"} => running' = "no"
    BY <1>1, <1>2 DEF ThreadInv
  <2>4. pc'[F] \in {"started", "frameWait"} /\ firstFrame' = "yes" =>
          demuxThread' # Nobody \/ pc'[V] = "wakePlay"
    BY <1>1, <1>2 DEF ThreadInv
  <2> QED BY <1>1, <1>2, <1>4, <2>2, <2>3, <2>4 DEF ThreadInv
<1>6. ASSUME NEW d \in DemuxThreads PROVE OneThread(d)'
  <2>1. /\ Busy(d)' <=> Busy(d)
        /\ Before(d)' <=> Before(d)
        /\ Past(d)' <=> Past(d)
    BY <1>1 DEF Busy, Halfway, Before, Past
  <2>2. OneThread(d)
    BY <1>2
  <2> QED BY <1>1, <1>4, <2>1, <2>2 DEF OneThread
<1> QED BY <1>3, <1>5, <1>6 DEF Settledness

LEMMA AwaitsTake ==
  ASSUME NEW q \in Seq(Element), q # << >>, NEW n, NEW goal, Awaits(q, "get", n, goal)
  PROVE  Awaits(Tail(q), Handled(Head(q)), n, goal)
<1>1. n + 1 = goal /\ OnlyLast(q, "headers")
  BY DEF Awaits
<1>2. Head(q) \in Element
  BY TakeFacts
<1> QED BY <1>1, <1>2, LastTake, HandledFacts DEF Awaits

LEMMA AwaitsSeen ==
  ASSUME NEW q, NEW n, NEW goal, Awaits(q, "headers", n, goal)
  PROVE  Awaits(q, "get", n + 1, goal)
  BY DEF Awaits

(* No demux thread has an END to put when the video decoder ends a stream. *)
LEMMA EndingAlone ==
  ASSUME Settledness, pc[V] \in LateV
  PROVE  \A d \in DemuxThreads : ~Busy(d)
<1>1. \A d \in DemuxThreads : ~Halfway(d)
  BY DEF Settledness, EndInv, DueA, LateV
<1>2. ~NoEnds
  BY DEF NoEnds, LateV, EndingV
<1> QED BY <1>1, <1>2 DEF Settledness, OneThread, Before

LEMMA VideoTakes ==
  ASSUME Frame, Settledness, VideoGet
  PROVE  Settledness'
<1>0. V \in Threads /\ DataTypes /\ EndInv /\ HeaderInv
  BY Names, FrameParts DEF Settledness
<1>1. /\ pc[V] = "get" /\ vq # << >> /\ vq' = Tail(vq) /\ Goto(V, Handled(Head(vq)))
      /\ msg' = [msg EXCEPT ![V] = IF Head(vq) \in Ends THEN Head(vq) ELSE "none"]
      /\ UNCHANGED <<aq, counts, locks, demuxer, ret, seen, target, api>>
  BY DEF VideoGet
<1>2. pc'[V] = Handled(Head(vq)) /\ Own(V)
  BY <1>0, <1>1, Moves DEF Own, DataTypes
<1>3. vq \in Seq(Element) /\ Head(vq) \in Element
  BY <1>0, <1>1, TakeFacts DEF DataTypes
<1>4. /\ pc'[A] = pc[A] /\ \A t \in Flushers : pc'[t] = pc[t]
      /\ \A d \in DemuxThreads : (Halfway(d)' <=> Halfway(d))
  BY <1>2, Names DEF Own, Flushers, Halfway
<1>5. HeaderInv'
  <2>1. NoHeaders => NoHeaders'
    BY <1>1, <1>2, <1>3, <1>4, NoTake, HandledFacts DEF NoHeaders, Hdr, No
  <2>2. ASSUME NEW t \in Flushers PROVE WaitInv(t)'
    <3>1. pc[t] # "synced"
      BY <1>0, <1>1 DEF HeaderInv
    <3>2. pc[t] \in {"headersAudio", "headersWait"} =>
            Awaits(vq, pc[V], headers.video, target[t].video)'
      <4>1. pc[t] \in {"headersAudio", "headersWait"} =>
              Awaits(vq, "get", headers.video, target[t].video)
        BY <1>0, <1>1 DEF HeaderInv
      <4>2. pc[t] \in {"headersAudio", "headersWait"} =>
              Awaits(Tail(vq), Handled(Head(vq)), headers.video, target[t].video)
        BY <1>1, <1>3, <4>1, AwaitsTake
      <4> QED BY <1>1, <1>2, <4>2
    <3>3. /\ No(aq, Hdr) => No(aq, Hdr)'
          /\ HasAudio /\ Awaits(aq, pc[A], headers.audio, target[t].audio)
               => Awaits(aq, pc[A], headers.audio, target[t].audio)'
      BY <1>1, <1>4 DEF No, Awaits, OnlyLast
    <3> QED BY <1>0, <1>1, <1>4, <3>1, <3>2, <3>3 DEF HeaderInv, WaitInv
  <2> QED BY <1>0, <1>4, <2>1, <2>2 DEF HeaderInv, WaitInv
<1>6. EndInv' /\ (NoEnds => NoEnds') /\ (EndInVideo => EndInVideo')
  <2>1. CASE Head(vq) \in Ends
    <3>1. pc'[V] = "end" /\ ~No(vq, Ends) /\ No(vq, Ends)' /\ AtMostOne(vq, Ends)'
      BY <1>0, <1>1, <1>2, <1>3, <2>1, NoTake, HandledFacts DEF EndInv
    <3>2. /\ No(aq, Ends)' <=> No(aq, Ends)
          /\ AtMostOne(aq, Ends)' <=> AtMostOne(aq, Ends)
      BY <1>1 DEF No, AtMostOne
    <3>3. (DueV' <=> DueV) /\ (DueA' <=> DueA)
      BY <1>4, <3>1, <3>2 DEF DueV, DueA
    <3>4. EndInv'
      BY <1>0, <1>1, <1>4, <3>1, <3>2, <3>3 DEF EndInv
    <3> QED BY <3>1, <3>4 DEF NoEnds, EndInVideo, EndingV
  <2>2. CASE Head(vq) \notin Ends
    <3>1. QuietQ
      BY <1>1, <1>3, <2>2, NoTake DEF QuietQ, No, AtMostOne
    <3>2. QuietV /\ QuietA
      <4>1. Handled(Head(vq)) \in Calm
        BY <1>3, <2>2, HandledFacts DEF Calm
      <4> QED BY <1>1, <1>2, <1>4, <4>1 DEF QuietV, QuietA, Calm
    <3> QED BY <1>0, <1>1, <1>4, <3>1, <3>2, EndSame
  <2> QED BY <2>1, <2>2
<1>7. pc'[V] \notin {"joinLock", "join"}
  BY <1>2, <1>3, HandledFacts
<1> QED BY <1>1, <1>2, <1>5, <1>6, <1>7, DecoderMove

LEMMA VideoCounts ==
  ASSUME Frame, Settledness, VideoHeaders \/ VideoEnd
  PROVE  Settledness'
<1>0. V \in Threads /\ DataTypes /\ EndInv /\ HeaderInv /\ A # V
  BY Names, FrameParts DEF Settledness
<1>1. UNCHANGED <<fifos, locks, demuxer, local, api>>
  BY DEF VideoHeaders, VideoEnd
<1>2. /\ Own(V) /\ pc'[V] = IF VideoHeaders THEN "get" ELSE "endWait"
      /\ pc'[A] = pc[A] /\ \A t \in Flushers : pc'[t] = pc[t]
      /\ \A d \in DemuxThreads : (Halfway(d)' <=> Halfway(d))
  <2>1. Own(V) /\ pc'[V] = IF VideoHeaders THEN "get" ELSE "endWait"
    BY <1>0, <1>1, Moves DEF Own, VideoHeaders, VideoEnd
  <2> QED BY <2>1, Names DEF Own, Flushers, Halfway
<1>3. headers.video \in Nat /\ finished.video \in Nat /\ finished.audio \in Nat
  BY <1>0, CountType DEF DataTypes
<1>4. CASE VideoHeaders
  <2>1. /\ pc[V] = "headers" /\ finished' = finished /\ pc'[V] = "get"
        /\ headers'.video = headers.video + 1 /\ headers'.audio = headers.audio
    BY <1>0, <1>2, <1>4, CountType DEF VideoHeaders, DataTypes
  <2>2. ~NoHeaders
    BY <2>1 DEF NoHeaders
  <2>3. \A t \in Flushers : pc[t] # "headersVideo"
    BY <2>2, QuietProducer DEF Producing, Flush, Headers
  <2>4. ASSUME NEW t \in Flushers PROVE WaitInv(t)'
    <3>1. pc[t] # "synced" /\ pc[t] # "headersVideo"
      BY <1>0, <2>1, <2>3 DEF HeaderInv
    <3>2. pc[t] \in {"headersAudio", "headersWait"} =>
            Awaits(vq, pc[V], headers.video, target[t].video)'
      <4>1. pc[t] \in {"headersAudio", "headersWait"} =>
              Awaits(vq, "headers", headers.video, target[t].video)
        BY <1>0, <2>1 DEF HeaderInv
      <4>2. pc[t] \in {"headersAudio", "headersWait"} =>
              Awaits(vq, "get", headers.video + 1, target[t].video)
        BY <4>1, AwaitsSeen
      <4> QED BY <1>1, <2>1, <4>2
    <3>3. /\ No(aq, Hdr) => No(aq, Hdr)'
          /\ HasAudio /\ Awaits(aq, pc[A], headers.audio, target[t].audio)
               => Awaits(aq, pc[A], headers.audio, target[t].audio)'
      BY <1>1, <1>2, <2>1 DEF No, Awaits, OnlyLast
    <3> QED BY <1>0, <1>1, <1>2, <2>1, <3>1, <3>2, <3>3 DEF HeaderInv, WaitInv
  <2>5. HeaderInv'
    BY <1>0, <1>2, <2>2, <2>4 DEF HeaderInv, WaitInv
  <2>6. QuietV /\ QuietA
    BY <1>2, <2>1 DEF QuietV, QuietA, Calm
  <2>7. EndInv' /\ (NoEnds => NoEnds') /\ (EndInVideo' <=> EndInVideo)
    BY <1>0, <1>1, <1>2, <2>1, <2>6, QuietSame, EndSame
  <2> QED BY <1>1, <1>2, <2>1, <2>5, <2>7, DecoderMove
<1>5. CASE VideoEnd
  <2>1. /\ pc[V] = "end" /\ headers' = headers /\ pc'[V] = "endWait"
        /\ finished'.video = finished.video + 1 /\ finished'.audio = finished.audio
    BY <1>0, <1>2, <1>5, CountType DEF VideoEnd, VideoHeaders, DataTypes
  <2>2. HeaderInv'
    BY <1>0, <1>1, <1>2, <2>1, HeadSame
  <2>3. /\ No(aq, Ends)' <=> No(aq, Ends)
        /\ No(vq, Ends)' <=> No(vq, Ends)
        /\ AtMostOne(aq, Ends)' <=> AtMostOne(aq, Ends)
        /\ AtMostOne(vq, Ends)' <=> AtMostOne(vq, Ends)
    BY <1>1 DEF No, AtMostOne
  <2>4. No(vq, Ends) /\ DueV /\ ~DueV' /\ (DueA' <=> DueA)
    BY <1>0, <1>2, <2>1, <2>3 DEF EndInv, DueV, DueA, EndingV
  <2>5. HasAudio =>
          /\ (DueV' <=> DueA') => finished'.video = finished'.audio
          /\ DueV' /\ ~DueA' => finished'.audio = finished'.video + 1
          /\ DueA' /\ ~DueV' => finished'.video = finished'.audio + 1
    <3>1. HasAudio => IF DueA THEN finished.video = finished.audio
                              ELSE finished.audio = finished.video + 1
      BY <1>0, <2>4 DEF EndInv
    <3> QED BY <1>3, <2>1, <2>4, <3>1
  <2>6. EndInv'
    BY <1>0, <1>1, <1>2, <2>1, <2>3, <2>4, <2>5 DEF EndInv
  <2>7. ~NoEnds /\ EndInVideo'
    BY <2>1 DEF NoEnds, EndInVideo, EndingV
  <2> QED BY <1>1, <1>2, <2>1, <2>2, <2>6, <2>7, DecoderMove
<1> QED BY <1>4, <1>5

LEMMA VideoEnds ==
  ASSUME Frame, Settledness, VideoEndWait \/ StreamEnd
  PROVE  Settledness'
<1>0. V \in Threads /\ DataTypes /\ EndInv /\ HeaderInv /\ A # V
  BY Names, FrameParts DEF Settledness
<1>1. UNCHANGED <<fifos, counts, locks, demuxer, local, api>>
  BY DEF VideoEndWait, StreamEnd
<1>2. /\ pc[V] \in {"endWait", "streamEnd"} /\ Own(V)
      /\ pc[V] = "endWait" => pc'[V] = "streamEnd" /\ VideoEndWait
      /\ pc[V] = "streamEnd" => pc'[V] = IF status = "quit" THEN "wake" ELSE "setStop"
  BY <1>0, <1>1, Moves DEF Own, VideoEndWait, StreamEnd
<1>3. /\ pc'[A] = pc[A] /\ \A t \in Flushers : pc'[t] = pc[t]
      /\ \A d \in DemuxThreads : (Halfway(d)' <=> Halfway(d))
  BY <1>2, Names DEF Own, Flushers, Halfway
<1>4. HeaderInv'
  BY <1>0, <1>1, <1>2, <1>3, HeadSame
<1>5. No(vq, Ends) /\ ~DueV
  BY <1>0, <1>2 DEF EndInv, DueV, EndingV
<1>6. ~DueA
  <2>1. CASE pc[V] = "streamEnd"
    BY <1>0, <2>1 DEF EndInv, EndingV
  <2>2. CASE pc[V] = "endWait" /\ HasAudio
    <3>1. finished.video <= finished.audio /\ finished.video \in Nat /\ finished.audio \in Nat
      BY <1>0, <1>2, <2>2, CountType DEF VideoEndWait, DataTypes
    <3>2. DueA => finished.video = finished.audio + 1
      BY <1>0, <1>5, <2>2 DEF EndInv
    <3> QED BY <3>1, <3>2
  <2>3. CASE ~HasAudio
    <3>1. aq = << >> /\ pc[A] = "get" /\ \A d \in DemuxThreads : pc[d] # "putAudio"
      BY <2>3, FrameParts, Names DEF NoAudio
    <3>2. Len(<< >>) = 0 /\ 1..0 = {}
      OBVIOUS
    <3> QED BY <3>1, <3>2 DEF DueA, No, Halfway
  <2> QED BY <1>2, <2>1, <2>2, <2>3
<1>7. /\ No(aq, Ends)' <=> No(aq, Ends)
      /\ No(vq, Ends)' <=> No(vq, Ends)
      /\ AtMostOne(aq, Ends)' <=> AtMostOne(aq, Ends)
      /\ AtMostOne(vq, Ends)' <=> AtMostOne(vq, Ends)
  BY <1>1 DEF No, AtMostOne
<1>8. EndInv'
  <2>1. ~DueV' /\ ~DueA'
    BY <1>2, <1>3, <1>5, <1>6, <1>7 DEF DueV, DueA
  <2> QED BY <1>0, <1>1, <1>2, <1>3, <1>5, <1>6, <1>7, <2>1 DEF EndInv
<1>9. EndInVideo => EndInVideo' \/ Disposing
  BY <1>2, FrameParts DEF EndInVideo, EndingV, FrontFrame
<1>10. ~NoEnds
  BY <1>2 DEF NoEnds
<1> QED BY <1>1, <1>2, <1>4, <1>8, <1>9, <1>10, DecoderMove

LEMMA VideoStops ==
  ASSUME Frame, Settledness,
         SetStop \/ FinishedEvent \/ Wake \/ StopThread(V) \/ JoinLock(V) \/ WakePlay(V)
  PROVE  Settledness'
<1>0. V \in Threads /\ DataTypes /\ EndInv /\ HeaderInv /\ A # V /\ VideoFrame
  BY Names, FrameParts DEF Settledness
<1>1. UNCHANGED <<fifos, counts, demuxLock, source, running, demuxThread, seen, target,
                  plugin, call>>
  BY DEF SetStop, FinishedEvent, Wake, StopThread, JoinLock, WakePlay
<1>2. /\ pc[V] \in LateV \cup AfterV /\ Own(V) /\ pc[V] # "streamEnd"
      /\ pc[V] \in LateV => pc'[V] \in LateV
      /\ pc[V] \in AfterV => pc'[V] \in AfterV \cup {"get"}
      /\ pc'[V] \in {"joinLock", "join"} => pc[V] = "joinLock"
  <2>1. CASE SetStop
    BY <1>0, <2>1, Enters DEF Own, SetStop, LateV, EndingV, AfterV
  <2>2. CASE FinishedEvent
    BY <1>0, <2>2, Moves DEF Own, FinishedEvent, LateV, EndingV, AfterV
  <2>3. CASE Wake
    BY <1>0, <2>3, Moves DEF Own, Wake, LateV, EndingV, AfterV, DataTypes
  <2>4. CASE StopThread(V)
    BY <1>0, <2>4, Moves DEF Own, StopThread, LateV, EndingV, AfterV
  <2>5. CASE JoinLock(V)
    BY <1>0, <2>5, Moves DEF Own, JoinLock, LateV, EndingV, AfterV
  <2>6. CASE WakePlay(V)
    <3>1. ret[V] = "finishedEvent"
      BY <1>0, <2>6 DEF WakePlay, VideoFrame, Stop
    <3> QED BY <1>0, <2>6, <3>1, Enters DEF Own, WakePlay, Back, LateV, EndingV, AfterV
  <2> QED BY <2>1, <2>2, <2>3, <2>4, <2>5, <2>6
<1>3. /\ pc'[A] = pc[A] /\ \A t \in Flushers : pc'[t] = pc[t]
      /\ \A d \in DemuxThreads : (Halfway(d)' <=> Halfway(d))
  BY <1>2, Names DEF Own, Flushers, Halfway
<1>4. QuietV /\ QuietA
  BY <1>2, <1>3 DEF QuietV, QuietA, Calm
<1>5. HeaderInv'
  <2>1. pc'[V] # "headers" /\ pc[V] \notin {"get", "headers"}
    BY <1>2 DEF LateV, EndingV, AfterV
  <2> QED BY <1>0, <1>1, <1>3, <2>1, HeadSame
<1>6. EndInv' /\ (NoEnds => NoEnds') /\ (EndInVideo' <=> EndInVideo)
  BY <1>0, <1>1, <1>3, <1>4, QuietSame, EndSame
<1>7. status' = status \/ \A d \in DemuxThreads : ~Busy(d)
  <2>1. CASE SetStop
    <3>1. pc[V] \in LateV
      BY <2>1 DEF SetStop, LateV, EndingV
    <3> QED BY <3>1, EndingAlone
  <2> QED BY <2>1 DEF FinishedEvent, Wake, StopThread, JoinLock, WakePlay
<1>8. /\ firstFrame' \in {firstFrame, "no"}
      /\ pc[V] = "wakePlay" => pc'[V] = "wakePlay" \/ firstFrame' = "no"
  BY DEF SetStop, FinishedEvent, Wake, StopThread, JoinLock, WakePlay
<1>9. pc'[V] \in {"joinLock", "join"} => running = "no"
  BY <1>2 DEF Settledness, ThreadInv
<1> QED BY <1>1, <1>2, <1>5, <1>6, <1>7, <1>8, <1>9, DecoderMove

LEMMA AudioSettled ==
  ASSUME Frame, Settledness, AudioStep
  PROVE  Settledness'
<1>0. A \in Threads /\ DataTypes /\ EndInv /\ HeaderInv /\ A # V /\ HasAudio
  BY Names, FrameParts, AudioFrameStep DEF Settledness
<1>1. /\ UNCHANGED <<vq, locks, demuxer, local, api>>
      /\ headers'.video = headers.video /\ finished'.video = finished.video
  BY <1>0, CountType DEF AudioStep, AudioGet, AudioHeaders, AudioEnd, AudioEndWait, DataTypes
<1>2. /\ Own(A) /\ pc'[V] = pc[V] /\ \A t \in Flushers : pc'[t] = pc[t]
      /\ \A d \in DemuxThreads : (Halfway(d)' <=> Halfway(d))
      /\ AudioGet => pc'[A] = Handled(Head(aq)) /\ pc[A] = "get"
      /\ AudioHeaders => pc'[A] = "get" /\ pc[A] = "headers"
      /\ AudioEnd => pc'[A] = "endWait" /\ pc[A] = "end"
      /\ AudioEndWait => pc'[A] = "get" /\ pc[A] = "endWait"
  <2>1. /\ Own(A)
        /\ AudioGet => pc'[A] = Handled(Head(aq)) /\ pc[A] = "get"
        /\ AudioHeaders => pc'[A] = "get" /\ pc[A] = "headers"
        /\ AudioEnd => pc'[A] = "endWait" /\ pc[A] = "end"
        /\ AudioEndWait => pc'[A] = "get" /\ pc[A] = "endWait"
    BY <1>0, <1>1, Moves DEF Own, AudioStep, AudioGet, AudioHeaders, AudioEnd, AudioEndWait
  <2> QED BY <2>1, Names DEF Own, Flushers, Halfway
<1>3. /\ headers.audio \in Nat /\ finished.video \in Nat /\ finished.audio \in Nat
      /\ aq \in Seq(Element)
  BY <1>0, CountType DEF DataTypes
<1>4. ASSUME EndInv', HeaderInv', NoEnds => NoEnds', EndInVideo => EndInVideo'
      PROVE  Settledness'
  <2>1. pc'[V] \in {"joinLock", "join"} => running = "no"
    BY <1>2 DEF Settledness, ThreadInv
  <2> QED BY <1>1, <1>2, <1>4, <2>1, DecoderMove
<1>5. /\ No(vq, Ends)' <=> No(vq, Ends)
      /\ AtMostOne(vq, Ends)' <=> AtMostOne(vq, Ends)
      /\ EndInVideo' <=> EndInVideo
      /\ DueV' <=> DueV
  BY <1>1, <1>2 DEF No, AtMostOne, EndInVideo, DueV
<1>6. \A t \in Flushers : Awaits(vq, pc[V], headers.video, target[t].video)
                            => Awaits(vq, pc[V], headers.video, target[t].video)'
  BY <1>1, <1>2 DEF Awaits, OnlyLast
<1>7. CASE AudioGet
  <2>1. aq # << >> /\ aq' = Tail(aq) /\ UNCHANGED counts /\ Head(aq) \in Element
    BY <1>3, <1>7, TakeFacts DEF AudioGet
  <2>2. HeaderInv'
    <3>1. No(aq, Hdr) => No(aq, Hdr)' /\ pc'[A] # "headers"
      BY <1>2, <1>3, <1>7, <2>1, NoTake, HandledFacts DEF Hdr
    <3>2. NoHeaders => NoHeaders'
      BY <1>1, <1>2, <3>1 DEF NoHeaders, No
    <3>3. ASSUME NEW t \in Flushers PROVE WaitInv(t)'
      <4>1. pc[t] # "synced"
        BY <1>0, <2>1 DEF HeaderInv
      <4>2. pc[t] = "headersWait" => Awaits(aq, pc[A], headers.audio, target[t].audio)'
        <5>1. pc[t] = "headersWait" => Awaits(aq, "get", headers.audio, target[t].audio)
          BY <1>0, <1>2, <1>7 DEF HeaderInv
        <5>2. pc[t] = "headersWait" =>
                Awaits(Tail(aq), Handled(Head(aq)), headers.audio, target[t].audio)
          BY <1>3, <2>1, <5>1, AwaitsTake
        <5> QED BY <1>1, <1>2, <1>7, <2>1, <5>2
      <4> QED BY <1>0, <1>1, <1>2, <1>6, <2>1, <3>1, <4>1, <4>2 DEF HeaderInv, WaitInv
    <3> QED BY <1>0, <1>2, <3>2, <3>3 DEF HeaderInv, WaitInv
  <2>3. EndInv' /\ (NoEnds => NoEnds')
    <3>1. CASE Head(aq) \in Ends
      <4>1. pc'[A] = "end" /\ ~No(aq, Ends) /\ No(aq, Ends)' /\ AtMostOne(aq, Ends)'
        BY <1>0, <1>2, <1>3, <1>7, <2>1, <3>1, NoTake, HandledFacts DEF EndInv
      <4>2. \A d \in DemuxThreads : ~Halfway(d)
        BY <1>0, <4>1 DEF EndInv
      <4>3. DueA' <=> DueA
        BY <1>2, <4>1 DEF DueA
      <4>4. EndInv'
        BY <1>0, <1>2, <1>5, <2>1, <4>1, <4>2, <4>3 DEF EndInv
      <4> QED BY <4>1, <4>4 DEF NoEnds
    <3>2. CASE Head(aq) \notin Ends
      <4>1. QuietQ
        BY <1>1, <1>3, <2>1, <3>2, NoTake DEF QuietQ, No, AtMostOne
      <4>2. QuietV /\ QuietA
        <5>1. Handled(Head(aq)) \in Calm
          BY <2>1, <3>2, HandledFacts DEF Calm
        <5> QED BY <1>2, <1>7, <5>1 DEF QuietV, QuietA, Calm
      <4> QED BY <1>0, <1>2, <2>1, <4>1, <4>2, EndSame
    <3> QED BY <3>1, <3>2
  <2> QED BY <1>4, <1>5, <2>2, <2>3
<1>8. CASE AudioHeaders
  <2>1. aq' = aq /\ finished' = finished /\ headers'.audio = headers.audio + 1
    BY <1>0, <1>8, CountType DEF AudioHeaders, DataTypes
  <2>2. ~NoHeaders
    BY <1>2, <1>8 DEF NoHeaders
  <2>3. \A t \in Flushers : pc[t] # "headersVideo"
    BY <2>2, QuietProducer DEF Producing, Flush, Headers
  <2>4. ASSUME NEW t \in Flushers PROVE WaitInv(t)'
    <3>1. pc[t] \notin {"synced", "headersVideo", "headersAudio"}
      BY <1>0, <1>2, <1>8, <2>3 DEF HeaderInv
    <3>2. pc[t] = "headersWait" => Awaits(aq, pc[A], headers.audio, target[t].audio)'
      <4>1. pc[t] = "headersWait" => Awaits(aq, "headers", headers.audio, target[t].audio)
        BY <1>0, <1>2, <1>8 DEF HeaderInv
      <4>2. pc[t] = "headersWait" => Awaits(aq, "get", headers.audio + 1, target[t].audio)
        BY <4>1, AwaitsSeen
      <4> QED BY <1>1, <1>2, <1>8, <2>1, <4>2
    <3> QED BY <1>0, <1>2, <1>6, <3>1, <3>2 DEF HeaderInv, WaitInv
  <2>5. HeaderInv'
    BY <1>0, <1>2, <2>2, <2>4 DEF HeaderInv, WaitInv
  <2>6. QuietV /\ QuietA
    BY <1>2, <1>8 DEF QuietV, QuietA, Calm
  <2>7. EndInv' /\ (NoEnds => NoEnds')
    BY <1>0, <1>1, <1>2, <2>1, <2>6, QuietSame, EndSame
  <2> QED BY <1>4, <1>5, <2>5, <2>7
<1>9. CASE AudioEnd
  <2>1. aq' = aq /\ headers' = headers /\ finished'.audio = finished.audio + 1
    BY <1>0, <1>9, CountType DEF AudioEnd, DataTypes
  <2>2. HeaderInv'
    BY <1>0, <1>1, <1>2, <1>9, <2>1, HeadSame
  <2>3. /\ No(aq, Ends)' <=> No(aq, Ends)
        /\ AtMostOne(aq, Ends)' <=> AtMostOne(aq, Ends)
    BY <2>1 DEF No, AtMostOne
  <2>4. No(aq, Ends) /\ DueA /\ ~DueA'
    BY <1>0, <1>2, <1>9, <2>3 DEF EndInv, DueA
  <2>5. /\ (DueV' <=> DueA') => finished'.video = finished'.audio
        /\ DueV' /\ ~DueA' => finished'.audio = finished'.video + 1
    <3>1. IF DueV THEN finished.video = finished.audio
                  ELSE finished.video = finished.audio + 1
      BY <1>0, <2>4 DEF EndInv
    <3> QED BY <1>1, <1>3, <1>5, <2>1, <2>4, <3>1
  <2>6. EndInv'
    BY <1>0, <1>2, <1>5, <1>9, <2>3, <2>4, <2>5 DEF EndInv
  <2>7. ~NoEnds
    BY <1>2, <1>9 DEF NoEnds
  <2> QED BY <1>4, <1>5, <2>2, <2>6, <2>7
<1>10. CASE AudioEndWait
  <2>1. aq' = aq /\ UNCHANGED counts
    BY <1>10 DEF AudioEndWait
  <2>2. HeaderInv'
    BY <1>0, <1>1, <1>2, <1>10, <2>1, HeadSame
  <2>3. QuietV /\ QuietA
    BY <1>2, <1>10 DEF QuietV, QuietA, Calm
  <2>4. EndInv' /\ (NoEnds => NoEnds')
    BY <1>0, <1>1, <1>2, <2>1, <2>3, QuietSame, EndSame
  <2> QED BY <1>4, <1>5, <2>2, <2>4
<1> QED BY <1>7, <1>8, <1>9, <1>10 DEF AudioStep

-----------------------------------------------------------------------------
(* Steps that change stream->demux_thread_running or the thread itself.    *)
LEMMA StopLockSettled ==
  ASSUME Frame, Settledness, NEW t \in {F, V}, StopLock(t)
  PROVE  Settledness'
<1>0. /\ t \in Threads /\ t \notin DemuxThreads /\ t # A /\ F # V /\ V \notin DemuxThreads
      /\ F \notin DemuxThreads /\ V \notin Flushers
      /\ LockInv /\ EndInv /\ HeaderInv /\ ThreadInv
  BY Names DEF Settledness, Flushers
<1>1. /\ pc[t] = "stopLock" /\ demuxLock = Nobody /\ running' = "no" /\ Goto(t, "joinLock")
      /\ UNCHANGED <<fifos, counts, locks, source, demuxThread, local, api>>
  BY DEF StopLock
<1>2. pc'[t] = "joinLock" /\ Own(t)
  BY <1>0, <1>1, Moves DEF Own
<1>3. /\ \A d \in DemuxThreads : pc'[d] = pc[d] /\ ret'[d] = ret[d] /\ msg'[d] = msg[d]
      /\ t = F => pc'[V] = pc[V]
      /\ t = V => pc'[F] = pc[F] /\ ret'[F] = ret[F]
      /\ pc'[A] = pc[A]
  BY <1>0, <1>2, Names DEF Own
<1>4. \A d \in DemuxThreads : pc[d] \notin Locked
  BY <1>0, <1>1, Names DEF LockInv
<1>5. \A d \in DemuxThreads : /\ Busy(d)' <=> Busy(d)
                              /\ Halfway(d)' <=> Halfway(d)
                              /\ Before(d)' <=> Before(d)
                              /\ Past(d)' <=> Past(d)
  BY <1>3 DEF Busy, Halfway, Before, Past
<1>6. EndInv' /\ (NoEnds => NoEnds') /\ (EndInVideo' <=> EndInVideo)
  <2>1. QuietV /\ QuietA
    BY <1>1, <1>2, <1>3 DEF QuietV, QuietA, LateV, EndingV
  <2> QED BY <1>0, <1>1, <1>5, <2>1, QuietSame, EndSame
<1>7. HeaderInv'
  <2>1. pc'[V] = pc[V] \/ (pc'[V] # "headers" /\ pc[V] \notin {"get", "headers"})
    BY <1>1, <1>2, <1>3
  <2>2. \A u \in Flushers : pc'[u] = pc[u] \/ (pc'[u] = "joinLock" /\ pc[u] = "stopLock")
    BY <1>1, <1>2, <1>3 DEF Flushers
  <2> QED BY <1>0, <1>1, <1>3, <2>1, <2>2, HeadSame DEF Counting
<1>8. LockInv'
  <2>1. t = F => ~Seeking /\ ~Seeking'
    BY <1>1, <1>2 DEF Seeking, Flush, Headers
  <2> QED BY <1>0, <1>1, <1>2, <2>1, LockMove
<1>9. t = V => \A d \in DemuxThreads : ~Busy(d)
  BY <1>1, EndingAlone DEF LateV, EndingV
<1>10. t = F => Joining' /\ Stopping' /\ ~Playing' /\ ~Alone' /\ (Disposing' <=> Disposing)
  BY <1>1, <1>2 DEF Joining, Stopping, Playing, Alone, Disposing, Put, Flush, Headers
<1>11. t = V => /\ (Playing' <=> Playing) /\ (Disposing' <=> Disposing)
                /\ (Alone' <=> Alone) /\ ~NoEnds
  BY <1>1, <1>3 DEF Playing, Disposing, Alone, NoEnds
<1>12. ThreadInv'
  <2>1. demuxThread \in DemuxThreads \cup {Nobody} /\ t \in {F, V}
    BY FrameParts DEF DataTypes
  <2>2. demuxThread' # Nobody => pc'[demuxThread'] # "none"
    BY <1>0, <1>1, <1>3, <2>1 DEF ThreadInv
  <2>3. ~Playing'
    BY <1>0, <1>10, <1>11, <2>1 DEF ThreadInv
  <2>4. /\ pc'[F] = "started" => plugin # "none"
        /\ pc'[F] \in Put /\ ret'[F] = "returned" => plugin = "none"
    BY <1>0, <1>1, <1>2, <1>3, <2>1 DEF ThreadInv, Put
  <2>5. pc'[F] \in {"started", "frameWait"} /\ firstFrame' = "yes" =>
          demuxThread' # Nobody \/ pc'[V] = "wakePlay"
    BY <1>0, <1>1, <1>2, <1>3, <2>1 DEF ThreadInv
  <2> QED BY <1>0, <1>1, <2>2, <2>3, <2>4, <2>5 DEF ThreadInv
<1>13. ASSUME NEW d \in DemuxThreads PROVE OneThread(d)'
  <2>1. OneThread(d) /\ pc[d] \notin Locked /\ t \in {F, V}
    BY <1>4 DEF Settledness
  <2>2. pc[d] \notin Put \cup Flush \cup {"chunkVideo", "chunkAudio", "chunkDone"}
    BY <2>1 DEF Locked
  <2>3. /\ pc'[d] # "none" => demuxThread' = d
        /\ Before(d)' => NoEnds'
        /\ Past(d)' => EndInVideo' \/ Disposing'
    BY <1>1, <1>3, <1>5, <1>6, <1>10, <1>11, <2>1 DEF OneThread
  <2>4. /\ Before(d)' => Joining'
        /\ Busy(d)' => plugin' # "none" /\ ~Alone'
        /\ Busy(d)' /\ status' = "stop" => pc'[F] = "started" \/ Stopping'
    <3>1. CASE t = F
      BY <1>1, <1>5, <1>10, <2>1, <3>1 DEF OneThread
    <3>2. CASE t = V
      BY <1>5, <1>9, <3>2 DEF Before
    <3> QED BY <2>1, <3>1, <3>2
  <2>5. Busy(d)' /\ pc'[d] # "loop" => seen'[d] = source'
    BY <1>1, <1>3, <1>5, <2>1, <2>2 DEF OneThread
  <2> QED BY <1>1, <1>3, <2>2, <2>3, <2>4, <2>5 DEF OneThread
<1> QED BY <1>6, <1>7, <1>8, <1>12, <1>13 DEF Settledness

LEMMA JoinMoves ==
  ASSUME Frame, Settledness, NEW t \in {F, V}, Join(t)
  PROVE  /\ pc[t] = "join" /\ pc'[t] = "wakePlay" /\ demuxThread' = Nobody
         /\ UNCHANGED <<fifos, counts, demuxLock, source, running, local, api>>
         /\ \A u \in {F, V, A} \ {t} : pc'[u] = pc[u]
         /\ \A d \in DemuxThreads : pc[d] \in {"none", "exited"} /\ pc'[d] = "none"
<1>0. t \in Threads /\ t \notin DemuxThreads \cup {A}
  BY Names
<1>1. /\ pc[t] = "join" /\ demuxThread' = Nobody
      /\ UNCHANGED <<fifos, counts, demuxLock, source, running, local, api>>
  BY DEF Join
<1>2. CASE demuxThread = Nobody
  <2>1. \A d \in DemuxThreads : pc[d] = "none"
    BY <1>2, Names DEF Settledness, OneThread
  <2>2. Goto(t, "wakePlay")
    BY <1>2 DEF Join
  <2>3. pc'[t] = "wakePlay" /\ \A u \in Threads \ {t} : pc'[u] = pc[u]
    BY <1>0, <2>2, Moves
  <2> QED BY <1>0, <1>1, <2>1, <2>3, Names
<1>3. CASE demuxThread # Nobody
  <2>1. PICK d \in DemuxThreads : d = demuxThread
    BY <1>3, FrameParts DEF DataTypes
  <2>2. pc[d] = "exited" /\ pc' = [pc EXCEPT ![t] = "wakePlay", ![d] = "none"]
    BY <1>3, <2>1 DEF Join
  <2>3. \A e \in DemuxThreads \ {d} : pc[e] = "none"
    BY <2>2, Unique
  <2>4. /\ pc'[t] = "wakePlay" /\ pc'[d] = "none"
        /\ \A u \in Threads \ {t, d} : pc'[u] = pc[u]
    BY <1>0, <2>2, FrameParts, Names DEF PcTypes
  <2>5. \A e \in DemuxThreads : pc[e] \in {"none", "exited"} /\ pc'[e] = "none"
    BY <1>0, <2>2, <2>3, <2>4, Names
  <2> QED BY <1>0, <1>1, <2>4, <2>5, Names
<1> QED BY <1>2, <1>3

LEMMA JoinSettled ==
  ASSUME Frame, Settledness, NEW t \in {F, V}, Join(t)
  PROVE  Settledness'
<1>0. /\ LockInv /\ EndInv /\ HeaderInv /\ ThreadInv /\ F # V /\ A \notin {F, V} /\ t \in {F, V}
  BY Names DEF Settledness
<1>1. /\ pc[t] = "join" /\ pc'[t] = "wakePlay" /\ demuxThread' = Nobody
      /\ UNCHANGED <<fifos, counts, demuxLock, source, running, local, api>>
      /\ pc'[A] = pc[A] /\ (t = F => pc'[V] = pc[V]) /\ (t = V => pc'[F] = pc[F])
      /\ \A d \in DemuxThreads : pc[d] \in {"none", "exited"} /\ pc'[d] = "none"
  BY <1>0, JoinMoves
<1>2. \A d \in DemuxThreads : ~Halfway(d) /\ ~Halfway(d)' /\ pc[d] \notin Locked /\ pc'[d] \notin Locked
  BY <1>1 DEF Halfway, Locked, Put, Flush, Headers
<1>3. LockInv'
  <2>1. Seeking' <=> Seeking
    BY <1>0, <1>1 DEF Seeking, Flush, Headers
  <2>2. demuxLock' = F <=> Seeking'
    BY <1>0, <1>1, <2>1 DEF LockInv, Seeking
  <2> QED BY <1>0, <1>1, <1>2, <2>2 DEF LockInv, Seeking
<1>4. HeaderInv'
  <2>1. pc'[V] = pc[V] \/ (pc'[V] # "headers" /\ pc[V] \notin {"get", "headers"})
    BY <1>0, <1>1
  <2>2. \A u \in Flushers : \/ pc'[u] = pc[u]
                            \/ pc'[u] \in {"wakePlay", "none"} /\ pc[u] \in {"join", "none", "exited"}
    BY <1>0, <1>1 DEF Flushers
  <2> QED BY <1>0, <1>1, <2>1, <2>2, HeadSame DEF Counting
<1>5. EndInv'
  <2>1. CASE t = F
    <3>1. QuietV /\ QuietA
      BY <1>1, <2>1 DEF QuietV, QuietA
    <3> QED BY <1>0, <1>1, <1>2, <3>1, QuietSame, EndSame
  <2>2. CASE t = V
    <3>1. /\ No(aq, Ends)' <=> No(aq, Ends)
          /\ No(vq, Ends)' <=> No(vq, Ends)
          /\ AtMostOne(aq, Ends)' <=> AtMostOne(aq, Ends)
          /\ AtMostOne(vq, Ends)' <=> AtMostOne(vq, Ends)
      BY <1>1 DEF No, AtMostOne
    <3>2. No(vq, Ends) /\ ~DueV /\ ~DueA
      BY <1>0, <1>1, <2>2 DEF EndInv, DueV, EndingV
    <3>3. ~DueV' /\ ~DueA'
      BY <1>1, <1>2, <2>2, <3>1, <3>2 DEF DueV, DueA
    <3> QED BY <1>0, <1>1, <1>2, <2>2, <3>1, <3>2, <3>3 DEF EndInv
  <2> QED BY <1>0, <2>1, <2>2
<1>6. ThreadInv'
  <2>1. ~Playing'
    <3>1. CASE t = F
      BY <1>1, <3>1 DEF Playing, Flush, Headers
    <3>2. CASE t = V
      <4>1. ~NoEnds
        BY <1>1, <3>2 DEF NoEnds
      <4>2. ~Playing
        BY <1>0, <4>1 DEF ThreadInv
      <4> QED BY <1>1, <3>2, <4>2 DEF Playing
    <3> QED BY <1>0, <3>1, <3>2
  <2>2. running' = "no" /\ demuxThread' = Nobody
    BY <1>0, <1>1 DEF ThreadInv
  <2>3. /\ pc'[F] = "started" => plugin # "none"
        /\ pc'[F] \in Put /\ ret'[F] = "returned" => plugin = "none"
    BY <1>0, <1>1 DEF ThreadInv, Put
  <2>4. pc'[F] \in {"started", "frameWait"} /\ firstFrame' = "yes" => pc'[V] = "wakePlay"
    BY <1>0, <1>1
  <2> QED BY <1>0, <1>1, <2>1, <2>2, <2>3, <2>4 DEF ThreadInv
<1>7. \A d \in DemuxThreads : OneThread(d)'
  BY <1>1 DEF OneThread, Before, Past, Busy, Halfway, Put, Flush, Headers
<1> QED BY <1>3, <1>4, <1>5, <1>6, <1>7 DEF Settledness

(* StartLock: a start of a thread that runs, or of a new one.              *)
LEMMA StartRuns ==
  ASSUME Frame, Settledness, StartLock, running = "yes", Goto(F, "started")
  PROVE  Settledness'
<1>0. /\ F \in Threads /\ ThreadInv /\ LockInv /\ FrontFrame /\ running # "no"
  BY Names, FrameParts DEF Settledness
<1>1. /\ pc[F] = "startLock" /\ demuxLock = Nobody
      /\ UNCHANGED <<fifos, counts, locks, source, local, api>>
  BY DEF StartLock
<1>2. pc'[F] = "started" /\ Own(F) /\ UNCHANGED <<running, demuxThread>>
  <2>1. pc'[F] = "started" /\ Own(F)
    BY <1>0, <1>1, Moves DEF Own
  <2>2. UNCHANGED <<running, demuxThread>>
    BY <1>0 DEF StartLock
  <2> QED BY <2>1, <2>2
<1>3. /\ Playing /\ ~Alone /\ ~Alone' /\ pc[F] \notin Flush /\ ~Seeking /\ ~Seeking' /\ ~Playing'
      /\ pc'[F] \notin Counting \cup Put /\ ~Joining /\ ~Joining' /\ (Disposing => Disposing')
  BY <1>1, <1>2 DEF Playing, Alone, Seeking, Joining, Disposing, Counting, Put, Flush, Headers
<1>4. plugin # "none" /\ (plugin \in Live => source = "ok")
  BY <1>0, <1>3 DEF ThreadInv
<1>5. LockInv'
  BY <1>1, <1>2, <1>3, FrontUnlocked
<1> QED BY <1>0, <1>1, <1>2, <1>3, <1>4, <1>5, PlainMove

LEMMA StartNew ==
  ASSUME Frame, Settledness, StartLock, NEW d \in DemuxThreads, running = "no", pc[d] = "none",
         running' = "yes", demuxThread' = d, pc' = [pc EXCEPT ![F] = "started", ![d] = "loop"]
  PROVE  Settledness'
<1>0. /\ F \in Threads /\ d \in Threads /\ d # F /\ d # V /\ d # A /\ F # V /\ F # A
      /\ ThreadInv /\ LockInv /\ EndInv /\ HeaderInv /\ FrontFrame
  BY Names, FrameParts DEF Settledness
<1>1. /\ pc[F] = "startLock" /\ demuxLock = Nobody
      /\ UNCHANGED <<fifos, counts, locks, source, local, api>>
  BY DEF StartLock
<1>2. pc'[F] = "started" /\ pc'[d] = "loop" /\ \A u \in Threads \ {F, d} : pc'[u] = pc[u]
  BY <1>0, FrameParts DEF PcTypes
<1>3. pc'[V] = pc[V] /\ pc'[A] = pc[A]
  BY <1>0, <1>2, Names
<1>4. Playing /\ NoEnds /\ plugin # "none" /\ call = "play" /\ ~Joining
  BY <1>0, <1>1 DEF Playing, ThreadInv, FrontFrame, Joining
<1>5. \A e \in DemuxThreads : pc[e] = "none"
  <2>1. SUFFICES ASSUME NEW e \in DemuxThreads, pc[e] # "none" PROVE FALSE
    OBVIOUS
  <2>2. ~Before(e)
    BY <1>4 DEF Settledness, OneThread
  <2>3. Past(e)
    BY <2>1, <2>2 DEF Before, Busy, Past
  <2>4. ~EndInVideo
    BY <1>4 DEF NoEnds, EndInVideo, EndingV
  <2>5. ~Disposing
    BY <1>1, <1>4 DEF Disposing
  <2> QED BY <2>3, <2>4, <2>5 DEF Settledness, OneThread
<1>6. \A e \in DemuxThreads \ {d} : pc'[e] = "none"
  BY <1>0, <1>2, <1>5, Names
<1>7. \A e \in DemuxThreads : /\ ~Halfway(e) /\ ~Halfway(e)'
                              /\ pc[e] \notin Locked /\ pc'[e] \notin Locked
  BY <1>2, <1>5, <1>6 DEF Halfway, Locked, Put, Flush, Headers
<1>8. EndInv' /\ NoEnds'
  <2>1. QuietV /\ QuietA
    BY <1>3 DEF QuietV, QuietA
  <2> QED BY <1>0, <1>1, <1>4, <1>7, <2>1, QuietSame, EndSame
<1>9. HeaderInv'
  <2>1. \A u \in Flushers : \/ pc'[u] = pc[u]
                            \/ pc'[u] \in {"started", "loop"} /\ pc[u] \in {"startLock", "none"}
    BY <1>1, <1>2, <1>5, <1>6 DEF Flushers
  <2> QED BY <1>0, <1>1, <1>3, <2>1, HeadSame DEF Counting
<1>10. LockInv'
  <2>1. ~Seeking' /\ demuxLock' = Nobody
    BY <1>1, <1>2 DEF Seeking, Flush, Headers
  <2> QED BY <1>0, <1>7, <2>1, Names DEF LockInv, Seeking
<1>11. ThreadInv'
  <2>1. ~Playing' /\ pc'[F] \notin Put
    BY <1>2 DEF Playing, Put, Flush, Headers
  <2>2. pc'[V] \notin {"joinLock", "join"}
    BY <1>3, <1>4 DEF NoEnds
  <2>3. demuxThread' # Nobody
    BY Names
  <2> QED BY <1>0, <1>1, <1>2, <1>4, <2>1, <2>2, <2>3 DEF ThreadInv
<1>12. ASSUME NEW e \in DemuxThreads PROVE OneThread(e)'
  <2>1. CASE e = d
    <3>1. Busy(d)' /\ ~Past(d)' /\ pc'[d] \notin Put \cup Flush
      BY <1>2 DEF Busy, Past, Halfway, Put, Flush, Headers
    <3>2. ~Alone'
      BY <1>2 DEF Alone, Put, Flush, Headers
    <3> QED BY <1>1, <1>2, <1>4, <1>8, <2>1, <3>1, <3>2 DEF OneThread
  <2>2. CASE e # d
    <3>1. pc'[e] = "none"
      BY <1>6, <2>2
    <3> QED BY <3>1 DEF OneThread, Before, Past, Busy, Halfway, Put, Flush, Headers
  <2> QED BY <2>1, <2>2
<1> QED BY <1>8, <1>9, <1>10, <1>11, <1>12 DEF Settledness

LEMMA StartSettled ==
  ASSUME Frame, Settledness, StartLock
  PROVE  Settledness'
<1>1. CASE running = "yes" /\ Goto(F, "started")
  BY <1>1, StartRuns
<1>2. ASSUME NEW d \in DemuxThreads, running = "no", pc[d] = "none", running' = "yes",
             demuxThread' = d, pc' = [pc EXCEPT ![F] = "started", ![d] = "loop"]
      PROVE  Settledness'
  BY <1>2, StartNew
<1> QED BY <1>1, <1>2 DEF StartLock

-----------------------------------------------------------------------------
(* The demux loop, up to the END.                                          *)
LEMMA DemuxOthers ==
  ASSUME Frame, Settledness, NEW d \in DemuxThreads, pc[d] # "none", Own(d)
  PROVE  /\ demuxThread = d /\ d \in Threads /\ d \in Flushers /\ d # Nobody
         /\ pc'[F] = pc[F] /\ ret'[F] = ret[F] /\ pc'[V] = pc[V] /\ pc'[A] = pc[A]
         /\ \A e \in DemuxThreads \ {d} : pc[e] = "none" /\ pc'[e] = "none"
         /\ \A e \in DemuxThreads \ {d} : ~Halfway(e) /\ ~Halfway(e)'
<1>1. demuxThread = d /\ \A e \in DemuxThreads \ {d} : pc[e] = "none"
  BY Unique
<1>2. /\ d \in Threads /\ d \in Flushers /\ d # Nobody
      /\ pc'[F] = pc[F] /\ ret'[F] = ret[F] /\ pc'[V] = pc[V] /\ pc'[A] = pc[A]
      /\ \A e \in DemuxThreads \ {d} : pc'[e] = pc[e]
  BY Names DEF Own, Flushers
<1> QED BY <1>1, <1>2 DEF Halfway

(* What the frontend is doing is not changed by a demux thread.            *)
LEMMA FrontKept ==
  ASSUME pc'[F] = pc[F], ret'[F] = ret[F], call' = call
  PROVE  /\ Playing' <=> Playing
         /\ Joining' <=> Joining
         /\ Stopping' <=> Stopping
         /\ Alone' <=> Alone
         /\ Disposing' <=> Disposing
         /\ Seeking' <=> Seeking
  BY DEF Playing, Joining, Stopping, Alone, Disposing, Seeking

LEMMA DemuxBefore ==
  ASSUME Frame, Settledness, NEW d \in DemuxThreads, Own(d), Before(d), Before(d)',
         QuietQ, finished' = finished, LockInv', HeaderInv',
         UNCHANGED <<running, demuxThread, plugin, status, call, firstFrame>>,
         plugin \in Live => source' = "ok",
         pc'[d] \in Flush \cup {"chunkVideo", "chunkAudio", "chunkDone"} => running = "yes",
         ~(pc'[d] \in Put /\ ret'[d] = "ended") => seen'[d] = source',
         pc'[d] \in Put /\ msg'[d] = "endStream" => source' = "finished",
         pc'[d] \in Put /\ msg'[d] = "endUser" => running = "no"
  PROVE  Settledness'
<1>0. ThreadInv /\ EndInv /\ OneThread(d) /\ pc[d] # "none" /\ Busy(d) /\ Busy(d)' /\ ~Past(d)'
  BY DEF Settledness, Before, Busy, Past
<1>1. /\ demuxThread = d /\ d # Nobody
      /\ pc'[F] = pc[F] /\ ret'[F] = ret[F] /\ pc'[V] = pc[V] /\ pc'[A] = pc[A]
      /\ \A e \in DemuxThreads \ {d} : pc'[e] = "none"
      /\ \A e \in DemuxThreads : (Halfway(e)' <=> Halfway(e))
  BY <1>0, DemuxOthers DEF Before
<1>2. /\ Playing' <=> Playing
      /\ Joining' <=> Joining
      /\ Stopping' <=> Stopping
      /\ Alone' <=> Alone
      /\ Disposing' <=> Disposing
  BY <1>1, FrontKept
<1>3. EndInv' /\ (NoEnds => NoEnds') /\ (EndInVideo' <=> EndInVideo)
  <2>1. QuietV /\ QuietA
    BY <1>1 DEF QuietV, QuietA
  <2> QED BY <1>0, <1>1, <2>1, EndSame
<1>4. pc'[d] # "none" /\ pc'[d] # "exited"
  BY <1>0 DEF Busy
<1>5. ThreadInv'
  BY <1>0, <1>1, <1>2, <1>3, <1>4 DEF ThreadInv
<1>6. running = "yes" \/ running = "no"
  BY FrameParts DEF DataTypes, Flag
<1>7. OneThread(d)'
  <2>1. /\ NoEnds' /\ (running = "no" => Joining')
        /\ plugin' # "none" /\ ~Alone'
        /\ status' = "stop" => pc'[F] = "started" \/ Stopping'
    BY <1>0, <1>1, <1>2, <1>3 DEF OneThread
  <2> QED BY <1>0, <1>1, <1>6, <2>1 DEF OneThread
<1>8. \A e \in DemuxThreads : OneThread(e)'
  <2>1. \A e \in DemuxThreads \ {d} : OneThread(e)'
    BY <1>1 DEF OneThread, Before, Past, Busy, Halfway, Put, Flush, Headers
  <2> QED BY <1>7, <2>1
<1> QED BY <1>3, <1>5, <1>8 DEF Settledness

LEMMA DemuxPlain ==
  ASSUME Frame, Settledness, NEW d \in DemuxThreads, Own(d), pc[d] # "none",
         UNCHANGED <<vq, aq, headers, target>>,
         pc'[d] \notin Counting, pc[d] \notin {"headersAudio", "headersWait"}
  PROVE  QuietQ /\ HeaderInv'
<1>1. d \in Flushers
  BY DEF Flushers
<1>2. /\ pc'[V] = pc[V] /\ pc'[A] = pc[A]
      /\ \A t \in Flushers : pc'[t] = pc[t] \/ (t = d /\ pc'[t] \notin Counting)
  BY <1>1, OwnOthers
<1>3. HeaderInv'
  BY <1>2, HeadSame DEF Settledness
<1> QED BY <1>3, QuietSame

LoopPC == {"loop", "test", "chunkVideo", "chunkAudio", "chunkDone", "yield", "sleep", "drain"}

LEMMA LoopPCs ==
  ASSUME Frame, NEW d \in DemuxThreads
  PROVE  /\ pc[d] \in LoopPC => /\ Before(d) /\ pc[d] # "none" /\ pc[d] \notin Put \cup Flush
                                /\ pc[d] \notin {"headersAudio", "headersWait"}
                                /\ pc[d] \in Locked <=> pc[d] \notin {"loop", "yield", "sleep"}
         /\ pc'[d] \in LoopPC => /\ Before(d)' /\ pc'[d] \notin Put \cup Flush \cup Counting
                                 /\ pc'[d] \in Locked <=> pc'[d] \notin {"loop", "yield", "sleep"}
         /\ pc'[d] \in {"putVideo", "clearVideo"} =>
              Before(d)' /\ pc'[d] \in Locked /\ pc'[d] \notin Counting
  BY DEF LoopPC, Before, Busy, Halfway, Locked, Put, Flush, Headers, Counting

LEMMA LoopLocks ==
  ASSUME Frame, Settledness, NEW d \in DemuxThreads,
         LoopStart(d) \/ Yield(d) \/ DrainWake(d) \/ DrainSleep(d)
  PROVE  Settledness'
<1>0. /\ d \in Threads /\ d \in Flushers /\ LockInv /\ OneThread(d)
      /\ plugin \in Live => source = "ok"
  BY Names DEF Settledness, ThreadInv, Flushers
<1>1. /\ UNCHANGED <<fifos, counts, demuxer, ret, msg, target, api>>
      /\ seen' = seen \/ seen' = [seen EXCEPT ![d] = source]
  BY DEF LoopStart, Yield, DrainWake, DrainSleep, Lock
<1>2. /\ pc[d] \in LoopPC /\ pc'[d] \in LoopPC /\ Own(d)
      /\ \/ pc[d] \in {"loop", "yield", "sleep"} /\ pc'[d] \in {"test", "drain"}
            /\ demuxLock = Nobody /\ demuxLock' = d
         \/ pc[d] = "drain" /\ pc'[d] = "sleep" /\ demuxLock' = Nobody
  BY <1>0, <1>1, Moves DEF LoopStart, Yield, DrainWake, DrainSleep, Lock, LoopPC, Own
<1>3. seen'[d] = source
  <2>1. CASE LoopStart(d) \/ DrainWake(d)
    <3>1. source \in {"ok", "finished"} /\ seen' = [seen EXCEPT ![d] = source]
      BY <2>1, FrameParts DEF LoopStart, DrainWake, DataTypes
    <3> QED BY <3>1, SeenType
  <2>2. CASE Yield(d) \/ DrainSleep(d)
    <3>1. pc[d] \in {"yield", "drain"} /\ seen' = seen
      BY <2>2 DEF Yield, DrainSleep, Lock
    <3>2. Busy(d) /\ pc[d] # "loop" /\ pc[d] \notin Put
      BY <3>1 DEF Busy, Put
    <3> QED BY <1>0, <3>1, <3>2 DEF OneThread
  <2> QED BY <2>1, <2>2
<1>4. LockInv'
  <2>1. CASE pc[d] = "drain" /\ pc'[d] = "sleep" /\ demuxLock' = Nobody
    BY <1>0, <1>2, <2>1, LoopPCs, LockDrop, Flushes
  <2>2. CASE /\ pc[d] \in {"loop", "yield", "sleep"} /\ pc'[d] \in {"test", "drain"}
             /\ demuxLock = Nobody /\ demuxLock' = d
    <3>1. pc'[d] \in Locked /\ d # F
      BY <1>2, <2>2, LoopPCs, Names
    <3> QED BY <1>0, <1>2, <2>2, <3>1, LockTake
  <2> QED BY <1>2, <2>1, <2>2
<1>5. QuietQ /\ HeaderInv'
  BY <1>1, <1>2, LoopPCs, DemuxPlain
<1>6. pc'[d] \notin Flush \cup Put \cup {"chunkVideo", "chunkAudio", "chunkDone"}
  BY <1>2, LoopPCs
<1> QED BY <1>0, <1>1, <1>2, <1>3, <1>4, <1>5, <1>6, LoopPCs, DemuxBefore

LEMMA LoopSends ==
  ASSUME Frame, Settledness, NEW d \in DemuxThreads, SendChunk(d)
  PROVE  Settledness'
<1>0. /\ d \in Threads /\ d \in Flushers /\ LockInv /\ OneThread(d) /\ d # F
      /\ plugin \in Live => source = "ok"
  BY Names DEF Settledness, ThreadInv, Flushers
<1>1. /\ pc[d] = "test" /\ running = "yes"
      /\ UNCHANGED <<fifos, counts, locks, demuxer, msg, seen, target,
                     plugin, status, call, firstFrame>>
  BY DEF SendChunk
<1>2. /\ pc[d] \in LoopPC /\ Own(d)
      /\ pc'[d] \in {"chunkVideo", "chunkAudio", "chunkDone", "clearVideo"}
  <2>1. CASE /\ UNCHANGED ret
             /\ \E l \in {"chunkVideo", "chunkDone", "chunkAudio"} : Goto(d, l)
    BY <1>0, <1>1, <2>1, Moves DEF Own, LoopPC
  <2>2. CASE Enter(d, "clearVideo", "chunkDone")
    BY <1>0, <1>1, <2>2, Enters DEF Own, LoopPC
  <2> QED BY <2>1, <2>2, ModeAssumption DEF SendChunk
<1>3. pc'[d] \in LoopPC \cup {"clearVideo"} /\ pc'[d] \notin Put
  BY <1>2 DEF LoopPC, Put
<1>4. seen'[d] = source
  <2>1. Busy(d) /\ pc[d] # "loop" /\ pc[d] \notin Put
    BY <1>1 DEF Busy, Put
  <2> QED BY <1>0, <1>1, <2>1 DEF OneThread
<1>5. pc[d] \in Locked /\ pc'[d] \in Locked /\ Before(d) /\ Before(d)' /\ pc'[d] \notin Counting
  BY <1>1, <1>2, <1>3, LoopPCs
<1>6. LockInv'
  BY <1>0, <1>1, <1>2, <1>5, LockMove
<1>7. QuietQ /\ HeaderInv'
  BY <1>1, <1>2, <1>5, LoopPCs, DemuxPlain
<1> QED BY <1>0, <1>1, <1>2, <1>3, <1>4, <1>5, <1>6, <1>7, DemuxBefore

LEMMA LoopData ==
  ASSUME Frame, Settledness, NEW d \in DemuxThreads, ChunkData(d)
  PROVE  Settledness'
<1>0. /\ d \in Threads /\ d \in Flushers /\ LockInv /\ OneThread(d) /\ d # F /\ DataTypes
      /\ plugin \in Live => source = "ok"
  BY Names, FrameParts DEF Settledness, ThreadInv, Flushers
<1>1. /\ pc[d] \in {"chunkVideo", "chunkAudio"} /\ Goto(d, "chunkDone")
      /\ \/ vq' = Append(vq, "data") /\ aq' = aq
         \/ aq' = Append(aq, "data") /\ vq' = vq
      /\ UNCHANGED <<counts, locks, demuxer, local, api>>
  BY DEF ChunkData
<1>2. pc'[d] = "chunkDone" /\ Own(d) /\ pc[d] \in LoopPC /\ pc'[d] \in LoopPC
  BY <1>0, <1>1, Moves DEF Own, LoopPC
<1>3. running = "yes"
  BY <1>0, <1>1 DEF OneThread, DataTypes, Flag
<1>4. seen[d] = source
  <2>1. Busy(d) /\ pc[d] # "loop" /\ pc[d] \notin Put
    BY <1>1 DEF Busy, Put
  <2> QED BY <1>0, <2>1 DEF OneThread
<1>5. LockInv'
  BY <1>0, <1>1, <1>2, LoopPCs, LockMove
<1>6. QuietQ
  <2>1. "data" \in Element \ Ends
    BY DEF Element, Ends
  <2> QED BY <1>0, <1>1, <2>1, QuietAppend
<1>7. HeaderInv'
  <2>1. "data" \in Element \ Hdr
    BY DEF Element, Hdr
  <2>2. NoHeaders /\ \A u \in Flushers \ {d} : pc[u] \notin Counting
    BY <1>0, <1>1, <1>2, LoopPCs, QuietProducer DEF Producing
  <2>3. pc'[V] = pc[V] /\ pc'[A] = pc[A] /\ \A u \in Flushers \ {d} : pc'[u] = pc[u]
    BY <1>0, <1>2, OwnOthers
  <2>4. NoHeaders'
    BY <1>0, <1>1, <2>1, <2>2, <2>3, NoHeadersAppend
  <2> QED BY <1>2, <2>2, <2>3, <2>4, LoopPCs, HeadQuiet
<1> QED BY <1>0, <1>1, <1>2, <1>3, <1>4, <1>5, <1>6, <1>7, LoopPCs, DemuxBefore

LEMMA LoopYields ==
  ASSUME Frame, Settledness, NEW d \in DemuxThreads, ChunkDone(d)
  PROVE  Settledness'
<1>0. d \in Threads /\ d \in Flushers /\ LockInv /\ d # F
  BY Names DEF Settledness, Flushers
<1>1. /\ pc[d] = "chunkDone" /\ source' \in SourceStatus /\ seen' = [seen EXCEPT ![d] = source']
      /\ UNCHANGED <<fifos, counts, counterLock, running, pending, demuxThread,
                     ret, msg, target, api>>
  BY DEF ChunkDone
<1>2. /\ pc[d] \in LoopPC /\ pc'[d] \in LoopPC /\ Own(d)
      /\ \/ pc'[d] = "yield" /\ demuxLock' = Nobody
         \/ pc'[d] = "test" /\ demuxLock' = d
  BY <1>0, <1>1, Moves DEF ChunkDone, LoopPC, Own
<1>3. seen'[d] = source' /\ (plugin \in Live => source' = "ok")
  <2>1. source' \in {"ok", "finished"} /\ (plugin \in Live => source' = "ok")
    BY <1>1 DEF SourceStatus
  <2> QED BY <1>1, <2>1, SeenType
<1>4. LockInv'
  <2>1. pc[d] \in Locked /\ demuxLock = d
    BY <1>0, <1>1, <1>2, LoopPCs DEF LockInv
  <2>2. CASE pc'[d] = "yield" /\ demuxLock' = Nobody
    BY <1>0, <1>2, <2>1, <2>2, LoopPCs, LockDrop
  <2>3. CASE pc'[d] = "test" /\ demuxLock' = d
    BY <1>0, <1>2, <2>1, <2>3, LoopPCs, LockMove
  <2> QED BY <1>2, <2>2, <2>3
<1>5. QuietQ /\ HeaderInv'
  BY <1>1, <1>2, LoopPCs, DemuxPlain
<1>6. pc'[d] \notin Flush \cup Put \cup {"chunkVideo", "chunkAudio", "chunkDone"}
  BY <1>2, LoopPCs
<1> QED BY <1>1, <1>2, <1>3, <1>4, <1>5, <1>6, LoopPCs, DemuxBefore

(* The NOP after the inner loop; the test after it, and the END.           *)
LEMMA LoopPuts ==
  ASSUME Frame, Settledness, NEW d \in DemuxThreads, InnerEnd(d) \/ Drained(d)
  PROVE  Settledness'
<1>0. /\ d \in Threads /\ d \in Flushers /\ LockInv /\ OneThread(d) /\ d # F /\ DataTypes
      /\ plugin \in Live => source = "ok"
  BY Names, FrameParts DEF Settledness, ThreadInv, Flushers
<1>1. /\ pc[d] \in {"test", "drain"} /\ pc[d] \in LoopPC
      /\ UNCHANGED <<fifos, counts, locks, demuxer, target, api>>
  BY DEF InnerEnd, Drained, LoopPC
<1>2. seen[d] = source
  <2>1. Busy(d) /\ pc[d] # "loop" /\ pc[d] \notin Put
    BY <1>1 DEF Busy, Put
  <2> QED BY <1>0, <2>1 DEF OneThread
<1>3. CASE seen' = [seen EXCEPT ![d] = source] /\ Goto(d, "test") /\ UNCHANGED <<ret, msg>>
  <2>1. pc'[d] = "test" /\ Own(d) /\ pc'[d] \in LoopPC
    BY <1>0, <1>3, Moves DEF Own, LoopPC
  <2>2. seen'[d] = source
    BY <1>0, <1>3, SeenType DEF DataTypes
  <2>3. LockInv'
    BY <1>0, <1>1, <2>1, LoopPCs, LockMove
  <2>4. QuietQ /\ HeaderInv'
    BY <1>1, <2>1, LoopPCs, DemuxPlain
  <2> QED BY <1>0, <1>1, <2>1, <2>2, <2>3, <2>4, LoopPCs, DemuxBefore
<1>4. ASSUME NEW m \in {"nop"} \cup Ends, NEW back, PutBoth(d, m, back), seen' = seen,
             m = "nop" => back = "drain",
             m = "endStream" => source = "finished",
             m = "endUser" => running = "no"
      PROVE  Settledness'
  <2>1. m \in Element
    BY DEF Element, Control, Ends
  <2>2. pc'[d] = "putVideo" /\ ret'[d] = back /\ msg'[d] = m /\ Own(d)
    BY <1>0, <1>4, <2>1, PutBothFacts, Enters DEF Own
  <2>3. /\ pc[d] \in Locked /\ pc'[d] \in Locked /\ Before(d) /\ Before(d)'
        /\ pc'[d] \notin Counting /\ pc'[d] \notin Flush
    BY <1>1, <2>2, LoopPCs DEF Flush, Headers
  <2>4. LockInv'
    BY <1>0, <1>1, <2>2, <2>3, LockMove
  <2>5. QuietQ /\ HeaderInv'
    BY <1>1, <2>2, <2>3, LoopPCs, DemuxPlain
  <2> QED BY <1>0, <1>1, <1>2, <1>4, <2>2, <2>3, <2>4, <2>5, DemuxBefore
<1>5. CASE InnerEnd(d)
  BY <1>4, <1>5 DEF InnerEnd
<1>6. CASE Drained(d)
  <2>1. CASE seen[d] = "ok" /\ running = "yes"
    BY <1>3, <1>6, <2>1 DEF Drained
  <2>2. CASE ~(seen[d] = "ok" /\ running = "yes")
    <3>1. seen' = seen /\ PutBoth(d, IF running = "yes" THEN "endStream" ELSE "endUser", "ended")
      BY <1>6, <2>2 DEF Drained
    <3>2. (running = "yes" \/ running = "no") /\ (running = "yes" => source = "finished")
      BY <1>0, <1>2, <2>2 DEF DataTypes, Flag
    <3> QED BY <1>4, <3>1, <3>2 DEF Ends
  <2> QED BY <2>1, <2>2
<1> QED BY <1>5, <1>6

LEMMA DemuxFlush ==
  ASSUME Frame, Settledness, NEW d \in DemuxThreads, FlushStep(d)
  PROVE  Settledness'
<1>0. /\ d \in Threads /\ d \in Flushers /\ LockInv /\ OneThread(d) /\ d # F
      /\ plugin \in Live => source = "ok"
  BY Names DEF Settledness, ThreadInv, Flushers
<1>1. /\ Own(d) /\ pc[d] \in Flush /\ msg' = msg
      /\ \/ pc'[d] \in Flush /\ ret'[d] = ret[d]
         \/ pc'[d] = ret[d]
      /\ UNCHANGED <<counts, demuxLock, demuxer, seen, api>>
  BY <1>0, FlushMoves
<1>2. ret[d] = "chunkDone"
  BY <1>1, FrameParts DEF DemuxFrame
<1>3. running = "yes"
  BY <1>0, <1>1, FrameParts DEF OneThread, DataTypes, Flag
<1>4. /\ Before(d) /\ Before(d)' /\ pc[d] \in Locked /\ pc'[d] \in Locked /\ pc'[d] \notin Put
      /\ Busy(d) /\ pc[d] # "loop" /\ pc[d] \notin Put
  BY <1>1, <1>2 DEF Before, Busy, Halfway, Locked, Put, Flush, Headers
<1>5. seen[d] = source
  BY <1>0, <1>4 DEF OneThread
<1>6. QuietQ /\ HeaderInv'
  BY <1>0, FlushQuiet, FlushHeaders
<1>7. LockInv'
  BY <1>0, <1>1, <1>4, LockMove
<1> QED BY <1>0, <1>1, <1>3, <1>4, <1>5, <1>6, <1>7, DemuxBefore

LEMMA PutNop ==
  ASSUME Frame, Settledness, NEW d \in DemuxThreads, PutVideo(d) \/ PutAudio(d), ret[d] # "ended"
  PROVE  Settledness'
<1>0. /\ d \in Threads /\ d \in Flushers /\ LockInv /\ OneThread(d) /\ d # F /\ DataTypes
      /\ plugin \in Live => source = "ok"
  BY Names, FrameParts DEF Settledness, ThreadInv, Flushers
<1>1. /\ Own(d) /\ pc[d] \in Put /\ HeaderInv'
      /\ \/ pc'[d] = "putAudio" /\ pc[d] = "putVideo" /\ ret'[d] = ret[d]
         \/ pc'[d] = ret[d]
      /\ UNCHANGED <<counts, locks, demuxer, msg, seen, api>>
  BY <1>0, PutHeaders DEF PutVideo, PutAudio
<1>2. ret[d] = "drain" /\ msg[d] = "nop"
  BY <1>1, FrameParts DEF DemuxFrame
<1>3. /\ Before(d) /\ Before(d)' /\ pc[d] \in Locked /\ pc'[d] \in Locked
      /\ pc'[d] \notin Flush \cup {"chunkVideo", "chunkAudio", "chunkDone"}
      /\ Busy(d) /\ pc[d] # "loop"
  BY <1>1, <1>2 DEF Before, Busy, Halfway, Locked, Put, Flush, Headers
<1>4. seen[d] = source
  BY <1>0, <1>2, <1>3 DEF OneThread
<1>5. QuietQ
  <2>1. msg[d] \in Element \ Ends
    BY <1>2 DEF Element, Control, Ends
  <2> QED BY <1>0, <2>1, QuietAppend DEF PutVideo, PutAudio
<1>6. LockInv'
  BY <1>0, <1>1, <1>3, LockMove
<1> QED BY <1>0, <1>1, <1>2, <1>3, <1>4, <1>5, <1>6, DemuxBefore

-----------------------------------------------------------------------------
(* The demux loop from its END on.                                         *)
LEMMA DemuxPast ==
  ASSUME Frame, Settledness, NEW d \in DemuxThreads, Own(d), pc[d] # "none", Past(d)',
         EndInv', LockInv', HeaderInv', ~Playing, EndInVideo' \/ Disposing,
         UNCHANGED <<source, demuxThread, plugin, status, call, firstFrame>>,
         running' = "no" \/ (running' = running /\ pc'[d] # "exited"),
         ~(running' = "yes" /\ plugin \in Live),
         pc'[d] \in Put => pc[d] \in Put /\ msg'[d] = msg[d] /\ running' = running
  PROVE  Settledness'
<1>0. ThreadInv /\ OneThread(d)
  BY DEF Settledness
<1>1. /\ demuxThread = d /\ d # Nobody
      /\ pc'[F] = pc[F] /\ ret'[F] = ret[F] /\ pc'[V] = pc[V] /\ pc'[A] = pc[A]
      /\ \A e \in DemuxThreads \ {d} : pc'[e] = "none"
  BY DemuxOthers
<1>2. /\ Playing' <=> Playing
      /\ Joining' <=> Joining
      /\ Stopping' <=> Stopping
      /\ Alone' <=> Alone
      /\ Disposing' <=> Disposing
  BY <1>1, FrontKept
<1>3. /\ pc'[d] # "none" /\ ~Before(d)' /\ pc'[d] \notin Flush
      /\ pc'[d] \notin {"chunkVideo", "chunkAudio", "chunkDone"}
      /\ Busy(d)' => pc'[d] \in Put /\ ret'[d] = "ended"
      /\ pc'[d] \in Put => Busy(d)
  BY DEF Past, Before, Busy, Halfway, Put, Flush, Headers
<1>4. ThreadInv'
  <2>1. \A t \in {F, V} : pc'[t] \in {"joinLock", "join"} => running' = "no"
    BY <1>0, <1>1 DEF ThreadInv
  <2>2. running' = "yes" => demuxThread' # Nobody /\ pc'[demuxThread'] # "exited"
    BY <1>0, <1>1 DEF ThreadInv
  <2> QED BY <1>0, <1>1, <1>2, <1>3, <2>1, <2>2 DEF ThreadInv
<1>5. OneThread(d)'
  BY <1>0, <1>1, <1>2, <1>3 DEF OneThread
<1>6. \A e \in DemuxThreads : OneThread(e)'
  <2>1. \A e \in DemuxThreads \ {d} : OneThread(e)'
    BY <1>1 DEF OneThread, Before, Past, Busy, Halfway, Put, Flush, Headers
  <2> QED BY <1>5, <2>1
<1> QED BY <1>4, <1>6 DEF Settledness

LEMMA LoopEnds ==
  ASSUME Frame, Settledness, NEW d \in DemuxThreads, LoopEnd(d)
  PROVE  Settledness'
<1>0. /\ d \in Threads /\ d \in Flushers /\ LockInv /\ EndInv /\ OneThread(d) /\ d # F
      /\ DataTypes /\ ThreadInv /\ FrontFrame
  BY Names, FrameParts DEF Settledness, Flushers
<1>1. /\ pc[d] = "ended" /\ running' = "no" /\ demuxLock' = Nobody
      /\ msg' = [msg EXCEPT ![d] = "none"] /\ Goto(d, "exited")
      /\ UNCHANGED <<fifos, counts, counterLock, source, pending, demuxThread,
                     ret, seen, target, api>>
  BY DEF LoopEnd
<1>2. pc'[d] = "exited" /\ Own(d)
  BY <1>0, <1>1, Moves DEF Own, DataTypes
<1>3. /\ Past(d) /\ Past(d)' /\ ~Halfway(d) /\ ~Halfway(d)' /\ pc[d] \in Locked /\ pc'[d] \notin Locked
      /\ pc'[d] \notin Counting \cup Put
  BY <1>1, <1>2 DEF Past, Halfway, Locked, Counting, Put, Flush, Headers
<1>4. LockInv'
  BY <1>0, <1>1, <1>2, <1>3, LockDrop
<1>5. QuietQ /\ HeaderInv'
  BY <1>1, <1>2, <1>3, DemuxPlain
<1>6. EndInv' /\ (EndInVideo' <=> EndInVideo)
  <2>1. QuietV /\ QuietA /\ \A e \in DemuxThreads : (Halfway(e)' <=> Halfway(e))
    BY <1>1, <1>2, <1>3, DemuxOthers DEF QuietV, QuietA
  <2> QED BY <1>0, <1>1, <1>5, <2>1, EndSame
<1>7. EndInVideo \/ Disposing
  BY <1>0, <1>3 DEF OneThread
<1>8. ~Playing
  <2>1. NoEnds => ~EndInVideo
    BY DEF NoEnds, EndInVideo, EndingV
  <2>2. Playing => ~Disposing
    BY <1>0 DEF FrontFrame, Disposing, Playing, Flush, Headers
  <2> QED BY <1>0, <1>7, <2>1, <2>2 DEF ThreadInv
<1> QED BY <1>1, <1>2, <1>3, <1>4, <1>5, <1>6, <1>7, <1>8, DemuxPast

(* Who puts an END does so while nobody plays, and has reason to.          *)
LEMMA EndReason ==
  ASSUME Frame, Settledness, NEW d \in DemuxThreads, pc[d] \in Put, ret[d] = "ended"
  PROVE  /\ msg[d] \in Ends /\ Busy(d) /\ ~Playing
         /\ ~(running = "yes" /\ plugin \in Live)
<1>0. OneThread(d) /\ ThreadInv /\ FrontFrame /\ DemuxFrame(d)
  BY FrameParts DEF Settledness
<1>1. msg[d] \in Ends /\ Busy(d)
  BY <1>0 DEF DemuxFrame, Busy, Put
<1>2. ~(running = "yes" /\ plugin \in Live)
  <2>1. CASE msg[d] = "endStream"
    BY <1>0, <2>1 DEF OneThread, ThreadInv
  <2>2. CASE msg[d] = "endUser"
    BY <1>0, <2>2 DEF OneThread, ThreadInv, Joining
  <2> QED BY <1>1, <2>1, <2>2 DEF Ends
<1>3. ~Playing
  <2>1. SUFFICES ASSUME Playing PROVE FALSE
    OBVIOUS
  <2>2. ~Joining /\ ~Disposing
    BY <1>0, <2>1 DEF Playing, Joining, Disposing, FrontFrame, Flush, Headers
  <2>3. NoEnds /\ (running = "no" \/ plugin \in Live)
    BY <1>0, <2>1 DEF ThreadInv
  <2>4. running = "yes" \/ running = "no"
    BY FrameParts DEF DataTypes, Flag
  <2>5. CASE Halfway(d)
    <3>1. ~EndInVideo
      BY <2>3 DEF NoEnds, EndInVideo, EndingV
    <3> QED BY <1>0, <2>2, <2>5, <3>1, HalfwayPC DEF OneThread
  <2>6. CASE Before(d)
    <3>1. running = "yes"
      BY <1>0, <2>2, <2>4, <2>6 DEF OneThread
    <3> QED BY <1>2, <2>3, <3>1
  <2> QED BY <1>1, <2>5, <2>6 DEF Before
<1> QED BY <1>1, <1>2, <1>3

LEMMA PutEndVideo ==
  ASSUME Frame, Settledness, NEW d \in DemuxThreads, PutVideo(d), ret[d] = "ended"
  PROVE  Settledness'
<1>0. /\ d \in Threads /\ d \in Flushers /\ LockInv /\ EndInv /\ OneThread(d) /\ d # F /\ DataTypes
      /\ vq \in Seq(Element)
  BY Names, FrameParts DEF Settledness, Flushers, DataTypes
<1>1. /\ pc[d] = "putVideo" /\ vq' = Append(vq, msg[d]) /\ aq' = aq
      /\ UNCHANGED <<counts, locks, demuxer, msg, seen, api>>
  BY DEF PutVideo
<1>2. /\ Own(d) /\ HeaderInv'
      /\ IF HasAudio THEN pc'[d] = "putAudio" /\ ret'[d] = "ended" ELSE pc'[d] = "ended"
  BY <1>0, <1>1, PutHeaders
<1>3. pc[d] \in Put /\ pc[d] \in Locked /\ pc'[d] \in Locked /\ Before(d) /\ Past(d)'
  BY <1>1, <1>2 DEF Put, Locked, Before, Past, Busy, Halfway
<1>4. msg[d] \in Ends /\ msg[d] \in Element /\ ~Playing /\ ~(running = "yes" /\ plugin \in Live)
  BY <1>0, <1>3, EndReason, PutMsg
<1>5. LockInv'
  BY <1>0, <1>1, <1>2, <1>3, LockMove
<1>6. NoEnds
  BY <1>0, <1>3 DEF OneThread
<1>7. ~No(vq, Ends)' /\ AtMostOne(vq, Ends)' /\ No(aq, Ends)' /\ AtMostOne(aq, Ends)'
  <2>1. ~No(vq', Ends) /\ AtMostOne(vq', Ends)
    BY <1>0, <1>1, <1>4, <1>6, NoAppend DEF NoEnds
  <2> QED BY <1>0, <1>1, <1>6, <2>1 DEF NoEnds, No, AtMostOne
<1>8. /\ pc'[V] \in Calm /\ pc'[A] \in Calm /\ pc[d] # "none"
      /\ \A e \in DemuxThreads \ {d} : ~Halfway(e) /\ ~Halfway(e)'
  BY <1>1, <1>2, <1>6, DemuxOthers DEF NoEnds, Calm
<1>9. EndInv'
  <2>1. DueV' /\ ~DueV
    BY <1>6, <1>7 DEF DueV, NoEnds
  <2>2. HasAudio => DueA'
    BY <1>2 DEF DueA, Halfway
  <2>3. ~DueA
    BY <1>3, <1>6, <1>8 DEF DueA, NoEnds, Before
  <2>4. HasAudio => finished.video = finished.audio
    BY <1>0, <2>1, <2>3 DEF EndInv
  <2>5. /\ pc'[V] \notin EndingV \cup AfterV /\ pc'[A] # "end"
    BY <1>8 DEF EndingV, AfterV, Calm
  <2>6. HasAudio =>
          /\ (DueV' <=> DueA') => finished'.video = finished'.audio
          /\ DueV' /\ ~DueA' => finished'.audio = finished'.video + 1
          /\ DueA' /\ ~DueV' => finished'.video = finished'.audio + 1
    BY <1>1, <2>1, <2>2, <2>4
  <2> QED BY <1>7, <2>5, <2>6 DEF EndInv
<1>10. EndInVideo'
  BY <1>7 DEF EndInVideo
<1>11. pc'[d] # "exited"
  BY <1>2
<1> QED BY <1>1, <1>2, <1>3, <1>4, <1>5, <1>8, <1>9, <1>10, <1>11, DemuxPast

LEMMA PutEndAudio ==
  ASSUME Frame, Settledness, NEW d \in DemuxThreads, PutAudio(d), ret[d] = "ended"
  PROVE  Settledness'
<1>0. /\ d \in Threads /\ d \in Flushers /\ LockInv /\ EndInv /\ OneThread(d) /\ d # F /\ DataTypes
      /\ aq \in Seq(Element)
  BY Names, FrameParts DEF Settledness, Flushers, DataTypes
<1>1. /\ pc[d] = "putAudio" /\ aq' = Append(aq, msg[d]) /\ vq' = vq
      /\ UNCHANGED <<counts, locks, demuxer, msg, seen, api>>
  BY DEF PutAudio
<1>2. Own(d) /\ HeaderInv' /\ pc'[d] = "ended"
  BY <1>0, <1>1, PutHeaders
<1>3. /\ pc[d] \in Put /\ pc[d] \in Locked /\ pc'[d] \in Locked /\ Halfway(d) /\ Past(d)
      /\ Past(d)' /\ ~Halfway(d)' /\ pc'[d] \notin Put
  BY <1>1, <1>2 DEF Put, Locked, Past, Halfway
<1>4. msg[d] \in Ends /\ msg[d] \in Element /\ ~Playing /\ ~(running = "yes" /\ plugin \in Live)
  BY <1>0, <1>3, EndReason, PutMsg
<1>5. LockInv'
  BY <1>0, <1>1, <1>2, <1>3, LockMove
<1>6. No(aq, Ends) /\ pc[A] # "end" /\ DueA
  BY <1>0, <1>3 DEF EndInv, DueA
<1>7. /\ ~No(aq, Ends)' /\ AtMostOne(aq, Ends)'
      /\ No(vq, Ends)' <=> No(vq, Ends)
      /\ AtMostOne(vq, Ends)' <=> AtMostOne(vq, Ends)
  <2>1. ~No(aq', Ends) /\ AtMostOne(aq', Ends)
    BY <1>0, <1>1, <1>4, <1>6, NoAppend
  <2> QED BY <1>1, <2>1 DEF No, AtMostOne
<1>8. /\ pc'[V] = pc[V] /\ pc'[A] = pc[A] /\ pc[d] # "none"
      /\ \A e \in DemuxThreads : ~Halfway(e)'
  BY <1>1, <1>2, <1>3, DemuxOthers
<1>9. EndInv'
  <2>1. (DueV' <=> DueV) /\ DueA'
    BY <1>7, <1>8 DEF DueV, DueA
  <2> QED BY <1>0, <1>1, <1>6, <1>7, <1>8, <2>1 DEF EndInv
<1>10. EndInVideo' \/ Disposing
  BY <1>0, <1>3, <1>7, <1>8 DEF OneThread, EndInVideo
<1>11. pc'[d] # "exited"
  BY <1>2
<1> QED BY <1>1, <1>2, <1>3, <1>4, <1>5, <1>8, <1>9, <1>10, <1>11, DemuxPast

LEMMA DemuxSettled ==
  ASSUME Frame, Settledness, NEW d \in DemuxThreads, DemuxStep(d)
  PROVE  Settledness'
  BY LoopLocks, LoopSends, LoopData, LoopYields, LoopPuts, LoopEnds, DemuxFlush,
     PutNop, PutEndVideo, PutEndAudio DEF DemuxStep

-----------------------------------------------------------------------------
(* All steps.                                                              *)
LEMMA StillSettled ==
  ASSUME Frame, Settledness,
         UNCHANGED <<vq, aq, counts, demuxLock, demuxer, ret, msg, seen, target, pc,
                     status, plugin, call>>,
         firstFrame' \in {firstFrame, "no"}
  PROVE  Settledness'
<1>0. LockInv /\ EndInv /\ ThreadInv /\ HeaderInv /\ \A d \in DemuxThreads : OneThread(d)
  BY DEF Settledness
<1>1. LockInv'
  BY <1>0 DEF LockInv
<1>2. EndInv' /\ (NoEnds => NoEnds') /\ (EndInVideo' <=> EndInVideo)
  <2>1. QuietV /\ QuietA /\ \A d \in DemuxThreads : (Halfway(d)' <=> Halfway(d))
    BY DEF QuietV, QuietA, Halfway
  <2> QED BY <1>0, <2>1, QuietSame, EndSame
<1>3. HeaderInv'
  BY <1>0, HeadSame
<1>4. /\ Playing' <=> Playing
      /\ Joining' <=> Joining
      /\ Stopping' <=> Stopping
      /\ Alone' <=> Alone
      /\ Disposing' <=> Disposing
  BY FrontKept
<1>5. ThreadInv'
  BY <1>0, <1>2, <1>4 DEF ThreadInv
<1>6. ASSUME NEW d \in DemuxThreads PROVE OneThread(d)'
  <2>1. /\ Busy(d)' <=> Busy(d)
        /\ Before(d)' <=> Before(d)
        /\ Past(d)' <=> Past(d)
    BY DEF Busy, Halfway, Before, Past
  <2> QED BY <1>0, <1>2, <1>4, <2>1 DEF OneThread
<1> QED BY <1>1, <1>2, <1>3, <1>5, <1>6 DEF Settledness

LEMMA InitSettled == Init => Settledness
<1> SUFFICES ASSUME Init PROVE Settledness
  OBVIOUS
<1>1. /\ pc[F] = "idle" /\ pc[V] = "get" /\ pc[A] = "get"
      /\ \A d \in DemuxThreads : pc[d] = "none"
      /\ \A t \in Flushers : pc[t] \in {"idle", "none"}
  BY Names DEF Init, Flushers
<1>2. vq = << >> /\ aq = << >> /\ Len(<< >>) = 0 /\ 1..0 = {}
  BY DEF Init
<1>3. \A S : No(vq, S) /\ No(aq, S) /\ AtMostOne(vq, S) /\ AtMostOne(aq, S)
  BY <1>2 DEF No, AtMostOne
<1>4. LockInv
  BY <1>1, Names DEF Init, LockInv, Locked, Put, Flush, Headers
<1>5. \A d \in DemuxThreads : ~Halfway(d) /\ ~Before(d) /\ ~Past(d) /\ ~Busy(d)
  BY <1>1 DEF Halfway, Before, Past, Busy
<1>6. EndInv
  BY <1>1, <1>3, <1>5 DEF Init, EndInv, DueV, DueA, EndingV, AfterV
<1>7. ThreadInv
  <2>1. ~Playing /\ pc[F] \notin Put
    BY <1>1 DEF Playing, Put, Flush, Headers
  <2> QED BY <1>1, <2>1 DEF Init, ThreadInv
<1>8. HeaderInv
  BY <1>1, <1>3 DEF HeaderInv, NoHeaders, Hdr
<1>9. \A d \in DemuxThreads : OneThread(d)
  BY <1>1, <1>5 DEF OneThread, Put, Flush, Headers
<1> QED BY <1>4, <1>6, <1>7, <1>8, <1>9 DEF Settledness

LEMMA StepSettled ==
  PlayWhen = "settled" /\ Frame /\ Settledness /\ [Next]_vars => Settledness'
<1> SUFFICES ASSUME PlayWhen = "settled", Frame, Settledness, [Next]_vars PROVE Settledness'
  OBVIOUS
<1>1. CASE FrontCall
  BY <1>1, CallSettled
<1>2. CASE FrontStep
  <2>1. CASE StopStep(F)
    BY <2>1, FrontPlainSteps, StopLockSettled, JoinSettled, AloneSteps DEF StopStep
  <2>2. CASE FlushStep(F) \/ PutVideo(F) \/ PutAudio(F)
    BY <2>2, FrontFlush, FrontPut
  <2>3. CASE \/ StopInternal \/ StopCounts \/ StopFlush \/ Stopped \/ OpenPlugin \/ Opened
             \/ PlayLock \/ Seek \/ Sought \/ PlayFailed \/ StartThread \/ StartLock
             \/ Started \/ FrameWait \/ Returned \/ QuitAudio \/ QuitVideo \/ JoinDecoder
    BY <2>3, FrontPlainSteps, AloneSteps, PlaySteps, StartSettled, QuitSteps
  <2> QED BY <1>2, <2>1, <2>2, <2>3 DEF FrontStep
<1>3. CASE VideoStep
  <2>1. CASE StopStep(V)
    BY <2>1, VideoStops, StopLockSettled, JoinSettled DEF StopStep
  <2> QED BY <1>3, <2>1, VideoTakes, VideoCounts, VideoEnds, VideoStops DEF VideoStep
<1>4. CASE AudioStep
  BY <1>4, AudioSettled
<1>5. CASE FirstFrame
  BY <1>5, StillSettled DEF FirstFrame
<1>6. CASE Rest \/ UNCHANGED vars
  BY <1>6, StillSettled DEF Rest, vars
<1>7. ASSUME NEW d \in DemuxThreads, DemuxStep(d) PROVE Settledness'
  BY <1>7, DemuxSettled
<1> QED BY <1>1, <1>2, <1>3, <1>4, <1>5, <1>6, <1>7 DEF Next

LEMMA SettledAlways == PlayWhen = "settled" => (Spec => [](Frame /\ Settledness))
<1> SUFFICES ASSUME PlayWhen = "settled" PROVE Spec => [](Frame /\ Settledness)
  OBVIOUS
<1>1. Init => Frame /\ Settledness
  BY InitFrame, InitSettled
<1>2. Frame /\ Settledness /\ [Next]_vars => Frame' /\ Settledness'
  BY StepFrame, StepSettled
<1> QED BY <1>1, <1>2, PTL DEF Spec

(* With an application that waits for the end of what it plays before it   *)
(* plays again, a flush of the engine drains it: whoever returns from      *)
(* xine_demux_control_headers_done finds both fifos empty, because only    *)
(* the thread that waits puts elements and the HEADERS are the last ones.  *)
THEOREM FlushLeavesNothing == PlayWhen = "settled" => (Spec => []FlushDrains)
<1> SUFFICES ASSUME PlayWhen = "settled" PROVE Spec => []FlushDrains
  OBVIOUS
<1>1. Frame /\ Settledness => FlushDrains
  <2> SUFFICES ASSUME Frame, Settledness, NEW t \in Threads, pc[t] = "synced"
               PROVE  vq = << >> /\ aq = << >>
    BY DEF FlushDrains
  <2>1. t # V /\ t # A
    BY FrameParts DEF PcTypes, VideoPC, AudioPC, Stop
  <2>2. t \in Flushers
    BY <2>1, Names DEF Flushers
  <2> QED BY <2>2 DEF Settledness, HeaderInv
<1> QED BY <1>1, SettledAlways, PTL

(* With such an application the demux thread is accounted for: the stream  *)
(* names every thread that was created and not joined, the thread that is  *)
(* joined under counter_lock is out of send_chunk for good and needs that  *)
(* lock no more, and no thread uses the plugin that xine_close disposes of.*)
THEOREM ThreadsAccounted == PlayWhen = "settled" => (Spec => []ThreadAccounted)
<1> SUFFICES ASSUME PlayWhen = "settled" PROVE Spec => []ThreadAccounted
  OBVIOUS
<1>1. Frame /\ Settledness => ThreadAccounted
  <2> SUFFICES ASSUME Frame, Settledness PROVE ThreadAccounted
    OBVIOUS
  <2>1. ThreadKept
    BY DEF ThreadKept, Settledness, OneThread
  <2>2. JoinedNeedsNoLock
    <3> SUFFICES ASSUME NEW t \in {F, V}, pc[t] = "join", demuxThread # Nobody
                 PROVE  pc[demuxThread] \notin Flush
      BY DEF JoinedNeedsNoLock
    <3>1. running = "no" /\ demuxThread \in DemuxThreads
      BY FrameParts DEF Settledness, ThreadInv, DataTypes
    <3> QED BY <3>1 DEF Settledness, OneThread
  <2>3. StoppedIsStopped
    <3>1. \A d \in DemuxThreads : Looping(d) => Busy(d)
      BY DEF Looping, Busy, Flush, Headers
    <3>2. pc[F] = "stopped" => Alone
      BY DEF Alone
    <3> QED BY <3>1, <3>2 DEF StoppedIsStopped, Settledness, OneThread
  <2> QED BY <2>1, <2>2, <2>3 DEF ThreadAccounted
<1> QED BY <1>1, SettledAlways, PTL

(* With such an application xine_play never waits for a frame that nobody  *)
(* is left to announce: a demux thread runs, or its END is on the way to   *)
(* the video decoder, which wakes the waiter when it has ended the stream. *)
THEOREM FrameWaitIsWoken == PlayWhen = "settled" => (Spec => []FrameWaitHasWaker)
<1> SUFFICES ASSUME PlayWhen = "settled" PROVE Spec => []FrameWaitHasWaker
  OBVIOUS
<1>1. Frame /\ Settledness => FrameWaitHasWaker
  <2> SUFFICES ASSUME Frame, Settledness, pc[F] = "frameWait", firstFrame = "yes",
                      \A d \in DemuxThreads : pc[d] \in {"none", "exited"},
                      pc[V] # "wakePlay"
               PROVE  ~No(vq, Ends) \/ pc[V] \in EndingV
    BY DEF FrameWaitHasWaker, No, EndingV, Stop
  <2>1. PICK d \in DemuxThreads : d = demuxThread
    BY FrameParts DEF Settledness, ThreadInv, DataTypes
  <2>2. pc[d] = "exited"
    BY <2>1, Names DEF Settledness, ThreadInv
  <2>3. ~Disposing
    BY FrameParts DEF FrontFrame, Disposing
  <2> QED BY <2>2, <2>3 DEF Settledness, OneThread, Past, EndInVideo
<1> QED BY <1>1, SettledAlways, PTL
-----------------------------------------------------------------------------
(* The ENDs of the two fifos, whatever the application does.               *)
HalfEnd(d) == pc[d] = "putAudio" /\ msg[d] \in Ends

LEMMA IsEndType == IsEnd \in [Element -> Nat] /\ \A e \in Element \ Control : IsEnd[e] = 0
  BY DEF IsEnd, Ends, Control

LEMMA EndsInAppend ==
  ASSUME NEW q \in Seq(Element), NEW e \in Element
  PROVE  EndsIn(Append(q, e)) = EndsIn(q) + IsEnd[e]
  BY TotalAppend, IsEndType DEF EndsIn

LEMMA EndsInTake ==
  ASSUME NEW q \in Seq(Element), q # << >>
  PROVE  EndsIn(q) = EndsIn(Tail(q)) + IsEnd[Head(q)]
  BY TotalTail, IsEndType DEF EndsIn

LEMMA EndsInKept ==
  ASSUME NEW q \in Seq(Element)
  PROVE  EndsIn(Kept(q)) = EndsIn(q)
  BY TotalKeep, IsEndType DEF EndsIn, Kept

LEMMA EndsInNat ==
  ASSUME NEW q \in Seq(Element)
  PROVE  EndsIn(q) \in Nat
  BY TotalNat, IsEndType DEF EndsIn

(* Numbers of what is counted.                                             *)
LEMMA PairNumbers ==
  ASSUME Frame
  PROVE  /\ vq \in Seq(Element) /\ aq \in Seq(Element)
         /\ EndsIn(vq) \in Nat /\ EndsIn(aq) \in Nat
         /\ finished.video \in Nat /\ finished.audio \in Nat
         /\ AtEnd(V) \in Nat /\ AtEnd(A) \in Nat
<1>1. vq \in Seq(Element) /\ aq \in Seq(Element) /\ finished \in [video : Nat, audio : Nat]
  BY FrameParts DEF DataTypes
<1> QED BY <1>1, EndsInNat DEF AtEnd

(* Nothing that counts has changed.                                        *)
LEMMA PairSame ==
  ASSUME EndsPaired, finished' = finished,
         EndsIn(vq') = EndsIn(vq), EndsIn(aq') = EndsIn(aq),
         pc'[V] = "end" <=> pc[V] = "end", pc'[A] = "end" <=> pc[A] = "end",
         \A d \in DemuxThreads : HalfEnd(d)' <=> HalfEnd(d)
  PROVE  EndsPaired'
<1>1. HalfSent' <=> HalfSent
  BY DEF HalfSent, HalfEnd
<1>2. AtEnd(V)' = AtEnd(V) /\ AtEnd(A)' = AtEnd(A)
  BY DEF AtEnd
<1>3. EndsIn(vq)' = EndsIn(vq) /\ EndsIn(aq)' = EndsIn(aq)
  BY DEF EndsIn
<1> QED BY <1>1, <1>2, <1>3 DEF EndsPaired, EndsOfVideo, EndsOfAudio

(* A thread moves and queues nothing.                                      *)
LEMMA PairMove ==
  ASSUME EndsPaired, NEW t \in Threads, Own(t), UNCHANGED <<vq, aq, finished>>,
         t \in {V, A} => (pc'[t] = "end" <=> pc[t] = "end"),
         t \in DemuxThreads => pc[t] # "putAudio" /\ pc'[t] # "putAudio"
  PROVE  EndsPaired'
<1>1. (pc'[V] = "end" <=> pc[V] = "end") /\ (pc'[A] = "end" <=> pc[A] = "end")
  BY Names DEF Own
<1>2. \A d \in DemuxThreads : HalfEnd(d)' <=> HalfEnd(d)
  BY Names DEF Own, HalfEnd
<1> QED BY <1>1, <1>2, PairSame

(* Steps of the frontend outside put, flush and stop.                      *)
LEMMA PairFront ==
  ASSUME LockInv, EndsPaired, Own(F), UNCHANGED <<vq, aq, finished, demuxLock>>,
         Seeking' <=> Seeking
  PROVE  LockInv' /\ EndsPaired'
<1>1. F \in Threads /\ F \notin {V, A} /\ F \notin DemuxThreads
  BY Names
<1> QED BY <1>1, LockMove, PairMove

LEMMA FrontGoes ==
  ASSUME Frame, LockInv, EndsPaired, NEW l, Goto(F, l),
         \A u \in Threads \ {F} : ret'[u] = ret[u] /\ msg'[u] = msg[u],
         UNCHANGED <<vq, aq, finished, demuxLock>>,
         (l \in {"seek", "sought"} \/ (l \in Flush /\ ret'[F] = "sought")) <=> Seeking
  PROVE  LockInv' /\ EndsPaired'
<1>1. pc'[F] = l /\ Own(F)
  BY Moves, Names DEF Own
<1>2. Seeking' <=> Seeking
  BY <1>1 DEF Seeking
<1> QED BY <1>1, <1>2, PairFront

LEMMA FrontEnters ==
  ASSUME Frame, NEW l, NEW back, Enter(F, l, back)
  PROVE  Goto(F, l) /\ ret'[F] = back /\ \A u \in Threads \ {F} : ret'[u] = ret[u]
  BY Enters, Names DEF Enter

LEMMA FrontWrites ==
  ASSUME Frame, NEW m, msg' = [msg EXCEPT ![F] = m]
  PROVE  \A u \in Threads \ {F} : msg'[u] = msg[u]
  BY FrameParts DEF DataTypes

LEMMA PairCalls ==
  ASSUME Frame, LockInv, EndsPaired, FrontCall
  PROVE  LockInv' /\ EndsPaired'
<1>1. \E l \in {"playLock", "stopInternal"} : Goto(F, l)
  BY DEF FrontCall, CallPlay, CallStop, CallDispose, Call
<1>2. UNCHANGED <<vq, aq, finished, demuxLock, ret, msg>> /\ ~Seeking
  BY DEF FrontCall, CallPlay, CallStop, CallDispose, Call, Seeking, Flush, Headers
<1> QED BY <1>1, <1>2, FrontGoes DEF Flush, Headers

LEMMA PairFrontSteps ==
  ASSUME Frame, LockInv, EndsPaired,
         \/ StopInternal \/ StopCounts \/ StopFlush \/ Stopped \/ OpenPlugin \/ Opened
         \/ Seek \/ PlayFailed \/ StartThread \/ Started \/ FrameWait \/ Returned
         \/ QuitAudio \/ QuitVideo \/ JoinDecoder
  PROVE  LockInv' /\ EndsPaired'
<1> USE DEF Seeking, Flush, Headers
<1>1. CASE StopInternal
  <2>1. \E l \in {"stopped", "stopCounts"} : Goto(F, l)
    BY <1>1 DEF StopInternal
  <2> QED BY <1>1, <2>1, FrontGoes DEF StopInternal
<1>2. CASE StopCounts
  BY <1>2, FrontGoes, FrontEnters DEF StopCounts
<1>3. CASE StopFlush
  BY <1>3, FrontGoes, FrontEnters DEF StopFlush
<1>4. CASE Stopped
  <2>1. \E l \in {"openPlugin", "quitAudio", "quitVideo", "returned"} : Goto(F, l)
    BY <1>4 DEF Stopped
  <2> QED BY <1>4, <2>1, FrontGoes DEF Stopped
<1>5. CASE OpenPlugin
  <2>1. /\ pc[F] = "openPlugin" /\ UNCHANGED <<vq, aq, finished, demuxLock>>
    BY <1>5 DEF OpenPlugin
  <2>2. ASSUME NEW m, NEW back, PutBoth(F, m, back) PROVE LockInv' /\ EndsPaired'
    <3>1. Goto(F, "putVideo") /\ \A u \in Threads \ {F} : ret'[u] = ret[u] /\ msg'[u] = msg[u]
      BY <2>2, FrontEnters, FrontWrites DEF PutBoth
    <3> QED BY <2>1, <3>1, FrontGoes
  <2>3. ASSUME Goto(F, "returned"), UNCHANGED <<ret, msg>> PROVE LockInv' /\ EndsPaired'
    BY <2>1, <2>3, FrontGoes
  <2> QED BY <1>5, <2>2, <2>3 DEF OpenPlugin
<1>6. CASE Opened
  BY <1>6, FrontGoes, FrontEnters DEF Opened
<1>7. CASE Seek
  <2>1. pc[F] = "seek" /\ UNCHANGED <<vq, aq, finished, demuxLock, msg>>
    BY <1>7 DEF Seek
  <2>2. CASE Enter(F, "clearVideo", "sought")
    BY <2>1, <2>2, FrontGoes, FrontEnters
  <2>3. CASE Goto(F, "sought") /\ ret' = ret
    BY <2>1, <2>3, FrontGoes
  <2> QED BY <1>7, <2>2, <2>3 DEF Seek
<1>8. CASE PlayFailed
  BY <1>8, FrontGoes DEF PlayFailed
<1>9. CASE StartThread
  BY <1>9, FrontGoes DEF StartThread
<1>10. CASE Started
  BY <1>10, FrontGoes DEF Started
<1>11. CASE FrameWait
  BY <1>11, FrontGoes DEF FrameWait
<1>12. CASE Returned
  BY <1>12, FrontGoes, FrontWrites DEF Returned
<1>13. ASSUME NEW q \in Seq(Element) PROVE EndsIn(Append(q, "quit")) = EndsIn(q)
  <2>1. "quit" \in Element /\ IsEnd["quit"] = 0
    BY DEF Element, Control, IsEnd, Ends
  <2>2. EndsIn(Append(q, "quit")) = EndsIn(q) + IsEnd["quit"]
    BY <2>1, EndsInAppend
  <2> QED BY <2>1, <2>2, EndsInNat
<1>14. CASE QuitAudio \/ QuitVideo
  <2>1. pc[F] \in {"quitAudio", "quitVideo"} /\ UNCHANGED <<finished, demuxLock, ret, msg>>
    BY <1>14 DEF QuitAudio, QuitVideo
  <2>2. \E l \in {"joinAudio", "joinVideo"} : Goto(F, l)
    BY <1>14 DEF QuitAudio, QuitVideo
  <2>3. EndsIn(vq') = EndsIn(vq) /\ EndsIn(aq') = EndsIn(aq)
    BY <1>13, <1>14, PairNumbers DEF QuitAudio, QuitVideo
  <2>4. pc'[F] \in {"joinAudio", "joinVideo"} /\ Own(F)
    BY <2>1, <2>2, Moves, Names DEF Own
  <2>5. LockInv'
    BY <2>1, <2>4, LockMove, Names
  <2>6. /\ pc'[V] = pc[V] /\ pc'[A] = pc[A]
        /\ \A d \in DemuxThreads : HalfEnd(d)' <=> HalfEnd(d)
    BY <2>4, Names DEF Own, HalfEnd
  <2> QED BY <2>1, <2>3, <2>5, <2>6, PairSame
<1>15. CASE JoinDecoder
  <2>1. \E l \in {"quitVideo", "gone"} : Goto(F, l)
    BY <1>15 DEF JoinDecoder
  <2> QED BY <1>15, <2>1, FrontGoes DEF JoinDecoder
<1> QED BY <1>1, <1>2, <1>3, <1>4, <1>5, <1>6, <1>7, <1>8, <1>9, <1>10, <1>11, <1>12,
           <1>14, <1>15

(* xine_play takes demux_lock, gives it up, and starts the thread.         *)
LEMMA PairPlay ==
  ASSUME Frame, LockInv, EndsPaired, PlayLock \/ Sought \/ StartLock
  PROVE  LockInv' /\ EndsPaired'
<1>0. F \in Threads /\ F \in Flushers /\ F \notin {V, A} /\ F \notin DemuxThreads
  BY Names DEF Flushers
<1>1. CASE PlayLock
  <2>1. /\ demuxLock = Nobody /\ demuxLock' = F /\ Goto(F, "seek")
        /\ UNCHANGED <<vq, aq, finished, ret, msg>>
    BY <1>1 DEF PlayLock, Lock
  <2>2. pc'[F] = "seek" /\ Own(F)
    BY <1>0, <2>1, Moves DEF Own
  <2> QED BY <1>0, <2>1, <2>2, LockTake, PairMove DEF Seeking
<1>2. CASE Sought
  <2>1. /\ pc[F] = "sought" /\ demuxLock' = Nobody /\ UNCHANGED <<vq, aq, finished, ret, msg>>
        /\ \E l \in {"startThread", "playFailed"} : Goto(F, l)
    BY <1>2 DEF Sought
  <2>2. pc'[F] \in {"startThread", "playFailed"} /\ Own(F)
    BY <1>0, <2>1, Moves DEF Own
  <2>3. Seeking /\ ~Seeking'
    BY <2>1, <2>2 DEF Seeking, Flush, Headers
  <2> QED BY <1>0, <2>1, <2>2, <2>3, LockDrop, PairMove
<1>3. CASE StartLock
  <2>1. pc[F] = "startLock" /\ UNCHANGED <<vq, aq, finished, demuxLock, ret, msg>>
    BY <1>3 DEF StartLock
  <2>2. CASE running = "yes" /\ Goto(F, "started")
    BY <2>1, <2>2, FrontGoes DEF Seeking, Flush, Headers
  <2>3. ASSUME NEW d \in DemuxThreads, pc[d] = "none",
               pc' = [pc EXCEPT ![F] = "started", ![d] = "loop"]
        PROVE  LockInv' /\ EndsPaired'
    <3>1. /\ pc'[F] = "started" /\ pc'[d] = "loop"
          /\ \A u \in Threads \ {F, d} : pc'[u] = pc[u]
      BY <1>0, <2>3, FrameParts, Names DEF PcTypes
    <3>2. pc'[V] = pc[V] /\ pc'[A] = pc[A]
      BY <3>1, Names
    <3>3. \A e \in DemuxThreads : /\ pc'[e] \in Locked <=> pc[e] \in Locked
                                  /\ HalfEnd(e)' <=> HalfEnd(e)
      BY <1>0, <2>1, <2>3, <3>1, Names DEF Locked, Put, Flush, Headers, HalfEnd
    <3>4. ~Seeking /\ ~Seeking'
      BY <2>1, <3>1 DEF Seeking, Flush, Headers
    <3>5. LockInv'
      BY <2>1, <3>3, <3>4 DEF LockInv, Seeking
    <3> QED BY <2>1, <3>2, <3>3, <3>5, PairSame
  <2> QED BY <1>3, <2>2, <2>3 DEF StartLock
<1> QED BY <1>1, <1>2, <1>3

(* xine_demux_stop_thread                                                  *)
LEMMA PairStop ==
  ASSUME Frame, LockInv, EndsPaired, NEW t \in {F, V}, StopStep(t)
  PROVE  LockInv' /\ EndsPaired'
<1>0. t \in Threads /\ t \notin DemuxThreads \cup {A}
  BY Names
<1>1. /\ pc[t] \in Stop /\ UNCHANGED <<vq, aq, finished, demuxLock, msg>>
  BY DEF StopStep, StopThread, StopLock, JoinLock, Join, WakePlay, Stop
<1>2. ~(pc[t] \in {"seek", "sought", "end"} \cup Flush)
  BY <1>1 DEF Stop, Flush, Headers
<1>3. ASSUME Own(t), pc'[t] \in {"stopLock", "joinLock", "join", "wakePlay", "stopFlush",
                                 "finishedEvent"}
      PROVE  LockInv' /\ EndsPaired'
  <2>1. pc'[t] \notin {"seek", "sought", "end"} \cup Flush
    BY <1>3 DEF Flush, Headers
  <2>2. t = F => (Seeking' <=> Seeking)
    BY <1>2, <2>1 DEF Seeking
  <2> QED BY <1>0, <1>1, <1>2, <1>3, <2>1, <2>2, LockMove, PairMove
<1>4. CASE StopThread(t) \/ StopLock(t) \/ JoinLock(t)
  <2>1. ret' = ret /\ \E l \in {"stopLock", "joinLock", "join"} : Goto(t, l)
    BY <1>4 DEF StopThread, StopLock, JoinLock
  <2>2. pc'[t] \in {"stopLock", "joinLock", "join"} /\ Own(t)
    BY <1>0, <1>1, <2>1, Moves DEF Own
  <2> QED BY <1>3, <2>2
<1>5. CASE WakePlay(t)
  <2>1. pc[t] = "wakePlay" /\ Enter(t, ret[t], "none")
    BY <1>5 DEF WakePlay, Back
  <2>2. pc'[t] = ret[t] /\ Own(t)
    BY <1>0, <1>1, <2>1, Enters DEF Own
  <2>3. ret[t] \in {"stopFlush", "finishedEvent"}
    BY <2>1, FrameParts, Names DEF FrontFrame, VideoFrame, Stop
  <2> QED BY <1>3, <2>2, <2>3
<1>6. CASE Join(t)
  <2>1. ret' = ret
    BY <1>6 DEF Join
  <2>2. CASE Goto(t, "wakePlay")
    <3>1. pc'[t] = "wakePlay" /\ Own(t)
      BY <1>0, <1>1, <2>1, <2>2, Moves DEF Own
    <3> QED BY <1>3, <3>1
  <2>3. ASSUME demuxThread # Nobody, pc[demuxThread] = "exited",
               pc' = [pc EXCEPT ![t] = "wakePlay", ![demuxThread] = "none"]
        PROVE  LockInv' /\ EndsPaired'
    <3>1. PICK d \in DemuxThreads : d = demuxThread
      BY <2>3, FrameParts DEF DataTypes
    <3>2. /\ pc'[t] = "wakePlay" /\ pc'[d] = "none"
          /\ \A u \in Threads \ {t, d} : pc'[u] = pc[u]
      BY <1>0, <2>3, <3>1, FrameParts, Names DEF PcTypes
    <3>3. (pc'[V] = "end" <=> pc[V] = "end") /\ pc'[A] = pc[A]
      BY <1>0, <1>2, <3>2, Names
    <3>4. \A e \in DemuxThreads : /\ pc'[e] \in Locked <=> pc[e] \in Locked
                                  /\ HalfEnd(e)' <=> HalfEnd(e)
      BY <1>0, <1>1, <2>3, <3>1, <3>2, Names DEF Locked, Put, Flush, Headers, HalfEnd
    <3>5. pc'[F] = pc[F] \/ (t = F /\ pc'[F] = "wakePlay")
      BY <1>0, <3>2, Names
    <3>6. Seeking' <=> Seeking
      BY <1>2, <2>1, <3>5 DEF Seeking, Flush, Headers
    <3>7. LockInv'
      BY <1>1, <3>4, <3>6 DEF LockInv, Seeking
    <3> QED BY <1>1, <3>3, <3>4, <3>7, PairSame
  <2> QED BY <1>6, <2>2, <2>3 DEF Join
<1> QED BY <1>4, <1>5, <1>6 DEF StopStep

(* The flush of the engine, by the frontend or by a demux thread.          *)
LEMMA EndsInReset ==
  ASSUME NEW q \in Seq(Element), NEW e \in {"reset", "headers", "data", "start", "nop"}
  PROVE  EndsIn(Append(q, e)) = EndsIn(q)
<1>1. e \in Element /\ IsEnd[e] = 0
  BY DEF Element, Control, IsEnd, Ends
<1>2. EndsIn(Append(q, e)) = EndsIn(q) + IsEnd[e]
  BY <1>1, EndsInAppend
<1> QED BY <1>1, <1>2, EndsInNat

LEMMA PairFlush ==
  ASSUME Frame, LockInv, EndsPaired, NEW t \in Flushers, FlushStep(t)
  PROVE  LockInv' /\ EndsPaired'
<1>0. t \in Threads /\ t \notin {V, A}
  BY Flushes
<1>1. Own(t) /\ pc[t] \in Flush /\ UNCHANGED <<msg, finished, demuxLock>>
  BY FlushMoves
<1>2. \/ pc'[t] \in Flush /\ ret'[t] = ret[t]
      \/ pc'[t] = ret[t] /\ pc[t] = "synced"
  BY FlushMoves
<1>3. t = F => (Seeking' <=> Seeking)
  <2> SUFFICES ASSUME t = F PROVE Seeking' <=> Seeking
    OBVIOUS
  <2>1. ret[F] \in {"stopped", "sought", "returned"}
    BY <1>1, FrameParts DEF FrontFrame
  <2> QED BY <1>1, <1>2, <2>1 DEF Seeking, Flush, Headers
<1>4. t \in DemuxThreads => ret[t] = "chunkDone"
  BY <1>1, FrameParts DEF DemuxFrame
<1>5. t \in DemuxThreads => /\ pc[t] \in Locked /\ pc'[t] \in Locked
                            /\ pc[t] # "putAudio" /\ pc'[t] # "putAudio"
  BY <1>1, <1>2, <1>4 DEF Locked, Flush, Headers, Put
<1>6. LockInv'
  BY <1>0, <1>1, <1>3, <1>5, LockMove
<1>7. EndsIn(vq') = EndsIn(vq) /\ EndsIn(aq') = EndsIn(aq)
  <2>1. vq' = vq \/ vq' = Kept(vq) \/ \E e \in {"reset", "headers"} : vq' = Append(vq, e)
    BY DEF FlushStep, ClearVideo, ClearAudio, ResetVideo, ResetAudio, HeadersLock,
           HeadersVideo, HeadersAudio, HeadersWait, Synced
  <2>2. aq' = aq \/ aq' = Kept(aq) \/ \E e \in {"reset", "headers"} : aq' = Append(aq, e)
    BY DEF FlushStep, ClearVideo, ClearAudio, ResetVideo, ResetAudio, HeadersLock,
           HeadersVideo, HeadersAudio, HeadersWait, Synced
  <2>3. ASSUME NEW q \in Seq(Element)
        PROVE  /\ EndsIn(Kept(q)) = EndsIn(q)
               /\ \A e \in {"reset", "headers"} : EndsIn(Append(q, e)) = EndsIn(q)
    BY EndsInKept, EndsInReset
  <2> QED BY <2>1, <2>2, <2>3, PairNumbers
<1>8. /\ pc'[V] = pc[V] /\ pc'[A] = pc[A]
      /\ \A d \in DemuxThreads : HalfEnd(d)' <=> HalfEnd(d)
  BY <1>0, <1>1, <1>5, Names DEF Own, HalfEnd
<1> QED BY <1>1, <1>6, <1>7, <1>8, PairSame

(* xine_demux_control_start, _nop and _end: an END goes to video first.    *)
LEMMA PairPutVideo ==
  ASSUME Frame, LockInv, EndsPaired, NEW t \in Flushers, PutVideo(t)
  PROVE  LockInv' /\ EndsPaired'
<1>0. t \in Threads /\ t \notin {V, A} /\ (t = F <=> t \notin DemuxThreads)
  BY Flushes
<1>1. /\ pc[t] = "putVideo" /\ vq' = Append(vq, msg[t])
      /\ UNCHANGED <<aq, finished, demuxLock, msg>>
  BY DEF PutVideo
<1>2. /\ Own(t)
      /\ HasAudio => pc'[t] = "putAudio" /\ ret' = ret
      /\ ~HasAudio => pc'[t] = ret[t]
  <2>1. CASE HasAudio
    <3>1. Goto(t, "putAudio") /\ ret' = ret
      BY <2>1 DEF PutVideo
    <3> QED BY <1>0, <1>1, <2>1, <3>1, Moves DEF Own
  <2>2. CASE ~HasAudio
    <3>1. Enter(t, ret[t], "none")
      BY <2>2 DEF PutVideo, Back
    <3> QED BY <1>0, <1>1, <2>2, <3>1, Enters DEF Own
  <2> QED BY <2>1, <2>2
<1>3. /\ t = F => ret[t] \in {"opened", "returned"}
      /\ t \in DemuxThreads => ret[t] \in {"drain", "ended"}
  BY <1>1, FrameParts DEF FrontFrame, DemuxFrame, Put
<1>4. LockInv'
  <2>1. t = F => ~Seeking /\ ~Seeking'
    BY <1>1, <1>2, <1>3, ModeAssumption DEF Seeking, Flush, Headers
  <2>2. t \in DemuxThreads => pc[t] \in Locked /\ pc'[t] \in Locked
    BY <1>1, <1>2, <1>3, ModeAssumption DEF Locked, Put
  <2> QED BY <1>0, <1>1, <1>2, <2>1, <2>2, LockMove
<1>5. ASSUME HasAudio PROVE EndsOfVideo' = EndsOfAudio'
  <2>1. EndsOfVideo = EndsOfAudio
    BY <1>5 DEF EndsPaired
  <2>2. pc'[V] = pc[V] /\ pc'[A] = pc[A] /\ pc'[t] = "putAudio"
    BY <1>0, <1>2, <1>5, Names DEF Own
  <2>3. msg[t] \in Element
    BY <1>1, PutMsg DEF Put
  <2>4. EndsIn(vq)' = EndsIn(vq) + IsEnd[msg[t]] /\ EndsIn(aq)' = EndsIn(aq)
    BY <1>1, <2>3, PairNumbers, EndsInAppend DEF EndsIn
  <2>5. AtEnd(V)' = AtEnd(V) /\ AtEnd(A)' = AtEnd(A)
    BY <2>2 DEF AtEnd
  <2>6. \/ (HalfSent' <=> HalfSent) /\ IsEnd[msg[t]] = 0
        \/ HalfSent' /\ ~HalfSent /\ IsEnd[msg[t]] = 1
    <3>1. CASE t = F
      <4>1. \A d \in DemuxThreads : HalfEnd(d)' <=> HalfEnd(d)
        BY <1>0, <1>1, <1>2, <3>1, Names DEF Own, HalfEnd
      <4>2. IsEnd[msg[t]] = 0
        BY <1>1, <2>3, <3>1, PutMsg DEF Put, IsEnd
      <4> QED BY <4>1, <4>2 DEF HalfSent, HalfEnd
    <3>2. CASE t \in DemuxThreads
      <4>1. \A d \in DemuxThreads : d # t => ~HalfEnd(d) /\ ~HalfEnd(d)'
        <5>1. demuxLock = t
          BY <1>1, <3>2 DEF LockInv, Locked, Put
        <5>2. \A d \in DemuxThreads : d # t => pc[d] \notin Locked /\ pc'[d] = pc[d]
          BY <1>2, <5>1, Names DEF LockInv, Own
        <5> QED BY <5>2 DEF Locked, Put, HalfEnd
      <4>2. ~HalfEnd(t) /\ (HalfEnd(t)' <=> msg[t] \in Ends)
        BY <1>1, <2>2 DEF HalfEnd
      <4>3. ~HalfSent /\ (HalfSent' <=> msg[t] \in Ends)
        BY <3>2, <4>1, <4>2 DEF HalfSent, HalfEnd
      <4>4. IsEnd[msg[t]] = IF msg[t] \in Ends THEN 1 ELSE 0
        BY <2>3 DEF IsEnd
      <4> QED BY <4>3, <4>4
    <3> QED BY <1>0, <3>1, <3>2
  <2>7. EndsOfVideo' = EndsOfVideo + IsEnd[msg[t]]
    BY <1>1, <2>4, <2>5, <2>6, PairNumbers DEF EndsOfVideo
  <2>8. EndsOfAudio' = EndsOfAudio + IsEnd[msg[t]]
    BY <1>1, <2>4, <2>5, <2>6, PairNumbers DEF EndsOfAudio
  <2> QED BY <2>1, <2>7, <2>8
<1> QED BY <1>4, <1>5 DEF EndsPaired

LEMMA PairPutAudio ==
  ASSUME Frame, LockInv, EndsPaired, NEW t \in Flushers, PutAudio(t)
  PROVE  LockInv' /\ EndsPaired'
<1>0. t \in Threads /\ t \notin {V, A} /\ (t = F <=> t \notin DemuxThreads)
  BY Flushes
<1>1. /\ pc[t] = "putAudio" /\ aq' = Append(aq, msg[t]) /\ Enter(t, ret[t], "none")
      /\ UNCHANGED <<vq, finished, demuxLock, msg>>
  BY DEF PutAudio, Back
<1>2. Own(t) /\ pc'[t] = ret[t]
  BY <1>0, <1>1, Enters DEF Own
<1>3. /\ t = F => ret[t] \in {"opened", "returned"}
      /\ t \in DemuxThreads => ret[t] \in {"drain", "ended"}
  BY <1>1, FrameParts DEF FrontFrame, DemuxFrame, Put
<1>4. LockInv'
  <2>1. t = F => ~Seeking /\ ~Seeking'
    BY <1>1, <1>2, <1>3 DEF Seeking, Flush, Headers
  <2>2. t \in DemuxThreads => pc[t] \in Locked /\ pc'[t] \in Locked
    BY <1>1, <1>2, <1>3 DEF Locked, Put
  <2> QED BY <1>0, <1>1, <1>2, <2>1, <2>2, LockMove
<1>5. ASSUME HasAudio PROVE EndsOfVideo' = EndsOfAudio'
  <2>1. EndsOfVideo = EndsOfAudio
    BY <1>5 DEF EndsPaired
  <2>2. pc'[V] = pc[V] /\ pc'[A] = pc[A]
    BY <1>0, <1>2, Names DEF Own
  <2>3. msg[t] \in Element
    BY <1>1, PutMsg DEF Put
  <2>4. EndsIn(vq)' = EndsIn(vq) /\ EndsIn(aq)' = EndsIn(aq) + IsEnd[msg[t]]
    BY <1>1, <2>3, PairNumbers, EndsInAppend DEF EndsIn
  <2>5. AtEnd(V)' = AtEnd(V) /\ AtEnd(A)' = AtEnd(A)
    BY <2>2 DEF AtEnd
  <2>6. \/ (HalfSent' <=> HalfSent) /\ IsEnd[msg[t]] = 0
        \/ ~HalfSent' /\ HalfSent /\ IsEnd[msg[t]] = 1
    <3>1. CASE t = F
      <4>1. \A d \in DemuxThreads : HalfEnd(d)' <=> HalfEnd(d)
        BY <1>0, <1>1, <1>2, <3>1, Names DEF Own, HalfEnd
      <4>2. IsEnd[msg[t]] = 0
        BY <1>1, <2>3, <3>1, PutMsg DEF Put, IsEnd
      <4> QED BY <4>1, <4>2 DEF HalfSent, HalfEnd
    <3>2. CASE t \in DemuxThreads
      <4>1. \A d \in DemuxThreads : d # t => ~HalfEnd(d) /\ ~HalfEnd(d)'
        <5>1. demuxLock = t
          BY <1>1, <3>2 DEF LockInv, Locked, Put
        <5>2. \A d \in DemuxThreads : d # t => pc[d] \notin Locked /\ pc'[d] = pc[d]
          BY <1>2, <5>1, Names DEF LockInv, Own
        <5> QED BY <5>2 DEF Locked, Put, HalfEnd
      <4>2. ~HalfEnd(t)' /\ (HalfEnd(t) <=> msg[t] \in Ends)
        BY <1>1, <1>2, <1>3, <3>2 DEF HalfEnd
      <4>3. ~HalfSent' /\ (HalfSent <=> msg[t] \in Ends)
        BY <3>2, <4>1, <4>2 DEF HalfSent, HalfEnd
      <4>4. IsEnd[msg[t]] = IF msg[t] \in Ends THEN 1 ELSE 0
        BY <2>3 DEF IsEnd
      <4> QED BY <4>3, <4>4
    <3> QED BY <1>0, <3>1, <3>2
  <2> QED BY <1>1, <2>1, <2>4, <2>5, <2>6, PairNumbers DEF EndsOfVideo, EndsOfAudio
<1> QED BY <1>4, <1>5 DEF EndsPaired

(* demux_loop, outside put and flush.                                      *)
LEMMA LoopGoes ==
  ASSUME Frame, LockInv, EndsPaired, NEW d \in DemuxThreads, NEW l, Goto(d, l),
         \A u \in Threads \ {d} : ret'[u] = ret[u] /\ msg'[u] = msg[u],
         pc[d] # "putAudio", l # "putAudio", UNCHANGED <<vq, aq, finished>>,
         \/ demuxLock' = demuxLock /\ (l \in Locked <=> pc[d] \in Locked)
         \/ demuxLock = Nobody /\ demuxLock' = d /\ l \in Locked
         \/ demuxLock' = Nobody /\ pc[d] \in Locked /\ l \notin Locked
  PROVE  LockInv' /\ EndsPaired'
<1>0. d \in Threads /\ d \in Flushers /\ d \notin {F, V, A}
  BY Names DEF Flushers
<1>1. pc'[d] = l /\ Own(d)
  BY <1>0, Moves DEF Own
<1>2. LockInv'
  <2>1. CASE demuxLock' = demuxLock /\ (l \in Locked <=> pc[d] \in Locked)
    BY <1>0, <1>1, <2>1, LockMove
  <2>2. CASE demuxLock = Nobody /\ demuxLock' = d /\ l \in Locked
    BY <1>0, <1>1, <2>2, LockTake
  <2>3. CASE demuxLock' = Nobody /\ pc[d] \in Locked /\ l \notin Locked
    BY <1>0, <1>1, <2>3, LockDrop
  <2> QED BY <2>1, <2>2, <2>3
<1> QED BY <1>0, <1>1, <1>2, PairMove

LEMMA DemuxEnters ==
  ASSUME Frame, NEW d \in DemuxThreads, NEW l, NEW back, Enter(d, l, back)
  PROVE  Goto(d, l) /\ \A u \in Threads \ {d} : ret'[u] = ret[u]
  BY Enters, Names DEF Enter

LEMMA DemuxWrites ==
  ASSUME Frame, NEW d \in DemuxThreads, NEW m, msg' = [msg EXCEPT ![d] = m]
  PROVE  \A u \in Threads \ {d} : msg'[u] = msg[u]
  BY FrameParts DEF DataTypes

LEMMA PairLoop ==
  ASSUME Frame, LockInv, EndsPaired, NEW d \in DemuxThreads,
         \/ LoopStart(d) \/ SendChunk(d) \/ ChunkData(d) \/ ChunkDone(d) \/ Yield(d)
         \/ InnerEnd(d) \/ DrainSleep(d) \/ DrainWake(d) \/ Drained(d) \/ LoopEnd(d)
  PROVE  LockInv' /\ EndsPaired'
<1> USE DEF Locked, Put, Flush, Headers
<1>1. ASSUME NEW from \in {"loop", "yield", "sleep"}, NEW to \in {"test", "drain"},
             Lock(d, from, to), UNCHANGED <<vq, aq, finished, ret, msg>>
      PROVE  LockInv' /\ EndsPaired'
  <2>1. pc[d] = from /\ demuxLock = Nobody /\ demuxLock' = d /\ Goto(d, to)
    BY <1>1 DEF Lock
  <2> QED BY <1>1, <2>1, LoopGoes
<1>2. CASE LoopStart(d) \/ Yield(d) \/ DrainWake(d)
  BY <1>1, <1>2 DEF LoopStart, Yield, DrainWake
<1>3. CASE SendChunk(d)
  <2>1. pc[d] = "test" /\ UNCHANGED <<vq, aq, finished, demuxLock, msg>>
    BY <1>3 DEF SendChunk
  <2>2. ASSUME NEW l \in {"chunkVideo", "chunkDone", "chunkAudio"}, Goto(d, l), ret' = ret
        PROVE  LockInv' /\ EndsPaired'
    BY <2>1, <2>2, LoopGoes
  <2>3. ASSUME Enter(d, "clearVideo", "chunkDone") PROVE LockInv' /\ EndsPaired'
    BY <2>1, <2>3, LoopGoes, DemuxEnters
  <2> QED BY <1>3, <2>2, <2>3, ModeAssumption DEF SendChunk
<1>4. CASE ChunkData(d)
  <2>1. pc[d] \in {"chunkVideo", "chunkAudio"} /\ Goto(d, "chunkDone")
        /\ UNCHANGED <<finished, demuxLock, ret, msg>>
    BY <1>4 DEF ChunkData
  <2>2. EndsIn(vq') = EndsIn(vq) /\ EndsIn(aq') = EndsIn(aq)
    BY <1>4, EndsInReset, PairNumbers DEF ChunkData
  <2>3. d \in Threads /\ pc'[d] = "chunkDone" /\ Own(d)
    BY <2>1, Moves, Names DEF Own
  <2>4. LockInv'
    BY <2>1, <2>3, LockMove, Names
  <2>5. /\ pc'[V] = pc[V] /\ pc'[A] = pc[A]
        /\ \A e \in DemuxThreads : HalfEnd(e)' <=> HalfEnd(e)
    BY <2>1, <2>3, Names DEF Own, HalfEnd
  <2> QED BY <2>1, <2>2, <2>4, <2>5, PairSame
<1>5. CASE ChunkDone(d)
  <2>1. pc[d] = "chunkDone" /\ UNCHANGED <<vq, aq, finished, ret, msg>>
    BY <1>5 DEF ChunkDone
  <2>2. CASE pending = "yes"
    <3>1. demuxLock' = Nobody /\ Goto(d, "yield")
      BY <1>5, <2>2 DEF ChunkDone
    <3> QED BY <2>1, <3>1, LoopGoes
  <2>3. CASE pending # "yes"
    <3>1. demuxLock' = demuxLock /\ Goto(d, "test")
      <4>1. demuxLock = d
        BY <2>1 DEF LockInv
      <4> QED BY <1>5, <2>3, <4>1 DEF ChunkDone
    <3> QED BY <2>1, <3>1, LoopGoes
  <2> QED BY <2>2, <2>3
<1>6. ASSUME NEW m, NEW back, PutBoth(d, m, back), pc[d] \in {"test", "drain"},
             UNCHANGED <<vq, aq, finished, demuxLock>>
      PROVE  LockInv' /\ EndsPaired'
  <2>1. Goto(d, "putVideo") /\ \A u \in Threads \ {d} : ret'[u] = ret[u] /\ msg'[u] = msg[u]
    BY <1>6, DemuxEnters, DemuxWrites DEF PutBoth
  <2> QED BY <1>6, <2>1, LoopGoes
<1>7. CASE InnerEnd(d)
  BY <1>6, <1>7 DEF InnerEnd
<1>8. CASE DrainSleep(d)
  BY <1>8, LoopGoes DEF DrainSleep
<1>9. CASE Drained(d)
  <2>1. pc[d] = "drain" /\ UNCHANGED <<vq, aq, finished, demuxLock>>
    BY <1>9 DEF Drained
  <2>2. CASE Goto(d, "test") /\ UNCHANGED <<ret, msg>>
    BY <2>1, <2>2, LoopGoes
  <2> QED BY <1>6, <1>9, <2>1, <2>2 DEF Drained
<1>10. CASE LoopEnd(d)
  BY <1>10, LoopGoes, DemuxWrites DEF LoopEnd
<1> QED BY <1>2, <1>3, <1>4, <1>5, <1>7, <1>8, <1>9, <1>10

(* The decoders: an END that is taken is about to be counted, then counted.*)
LEMMA PairDecoder ==
  ASSUME LockInv, NEW t \in {V, A}, NEW l, Frame, Goto(t, l), ret' = ret,
         demuxLock' = demuxLock, \A u \in Threads \ {t} : msg'[u] = msg[u]
  PROVE  /\ LockInv' /\ pc'[t] = l /\ \A u \in {V, A} \ {t} : pc'[u] = pc[u]
         /\ (HalfSent' <=> HalfSent) /\ \A d \in DemuxThreads : HalfEnd(d)' <=> HalfEnd(d)
<1>1. t \in Threads /\ t # F /\ t \notin DemuxThreads
  BY Names
<1>2. pc'[t] = l /\ Own(t)
  BY <1>1, Moves DEF Own
<1>3. LockInv'
  BY <1>1, <1>2, LockMove
<1>4. \A d \in DemuxThreads : HalfEnd(d)' <=> HalfEnd(d)
  BY <1>1, <1>2, Names DEF Own, HalfEnd
<1> QED BY <1>2, <1>3, <1>4, Names DEF Own, HalfSent, HalfEnd

LEMMA PairVideo ==
  ASSUME Frame, LockInv, EndsPaired,
         \/ VideoGet \/ VideoHeaders \/ VideoEnd \/ VideoEndWait
         \/ StreamEnd \/ SetStop \/ FinishedEvent \/ Wake
  PROVE  LockInv' /\ EndsPaired'
<1>0. V \in Threads /\ V # A
  BY Names
<1>1. CASE VideoGet
  <2>1. /\ pc[V] = "get" /\ vq # << >> /\ vq' = Tail(vq) /\ Goto(V, Handled(Head(vq)))
        /\ UNCHANGED <<aq, finished, demuxLock, ret>>
        /\ msg' = [msg EXCEPT ![V] = IF Head(vq) \in Ends THEN Head(vq) ELSE "none"]
    BY <1>1 DEF VideoGet
  <2>2. \A u \in Threads \ {V} : msg'[u] = msg[u]
    BY <2>1, FrameParts DEF DataTypes
  <2>3. /\ LockInv' /\ pc'[V] = Handled(Head(vq)) /\ pc'[A] = pc[A]
        /\ (HalfSent' <=> HalfSent)
    BY <1>0, <2>1, <2>2, PairDecoder
  <2>4. Head(vq) \in Element /\ Tail(vq) \in Seq(Element)
    BY <2>1, PairNumbers, TakeFacts
  <2>5. EndsIn(vq) = EndsIn(vq)' + IsEnd[Head(vq)] /\ EndsIn(vq)' \in Nat
    BY <2>1, <2>4, PairNumbers, EndsInTake, EndsInNat DEF EndsIn
  <2>6. AtEnd(V) = 0 /\ AtEnd(V)' = IsEnd[Head(vq)] /\ AtEnd(A)' = AtEnd(A)
    BY <2>1, <2>3, <2>4, HandledFacts DEF AtEnd, IsEnd
  <2>7. EndsIn(aq)' = EndsIn(aq)
    BY <2>1 DEF EndsIn
  <2>8. EndsOfVideo' = EndsOfVideo
    BY <2>1, <2>4, <2>5, <2>6, IsEndType, PairNumbers DEF EndsOfVideo
  <2>9. EndsOfAudio' = EndsOfAudio
    BY <2>1, <2>3, <2>6, <2>7 DEF EndsOfAudio
  <2> QED BY <2>3, <2>8, <2>9 DEF EndsPaired
<1>2. CASE VideoEnd
  <2>1. /\ pc[V] = "end" /\ Goto(V, "endWait") /\ UNCHANGED <<vq, aq, demuxLock, ret, msg>>
        /\ finished' = [finished EXCEPT !.video = finished.video + 1]
    BY <1>2 DEF VideoEnd
  <2>2. LockInv' /\ pc'[V] = "endWait" /\ pc'[A] = pc[A] /\ (HalfSent' <=> HalfSent)
    BY <1>0, <2>1, PairDecoder
  <2>3. finished'.video = finished.video + 1 /\ finished'.audio = finished.audio
    BY <2>1, FrameParts DEF DataTypes
  <2>4. AtEnd(V) = 1 /\ AtEnd(V)' = 0 /\ AtEnd(A)' = AtEnd(A)
    BY <2>1, <2>2 DEF AtEnd
  <2>5. EndsIn(vq)' = EndsIn(vq) /\ EndsIn(aq)' = EndsIn(aq)
    BY <2>1 DEF EndsIn
  <2>6. EndsOfVideo' = EndsOfVideo
    BY <2>3, <2>4, <2>5, PairNumbers DEF EndsOfVideo
  <2>7. EndsOfAudio' = EndsOfAudio
    BY <2>2, <2>3, <2>4, <2>5 DEF EndsOfAudio
  <2> QED BY <2>2, <2>6, <2>7 DEF EndsPaired
<1>3. ASSUME NEW l \in {"get", "streamEnd", "wake", "setStop", "stopThread"}, Goto(V, l),
             pc[V] # "end", ret' = ret \/ Enter(V, "stopThread", "finishedEvent"),
             \A u \in Threads \ {V} : msg'[u] = msg[u],
             UNCHANGED <<vq, aq, finished, demuxLock>>
      PROVE  LockInv' /\ EndsPaired'
  <2>1. \A u \in Threads \ {V} : ret'[u] = ret[u]
    BY <1>0, <1>3, Enters
  <2>2. pc'[V] = l /\ Own(V)
    BY <1>0, <1>3, <2>1, Moves DEF Own
  <2>3. l # "end" /\ V # F /\ V \notin DemuxThreads
    BY Names
  <2> QED BY <1>0, <1>3, <2>2, <2>3, LockMove, PairMove
<1>4. CASE VideoHeaders \/ VideoEndWait \/ FinishedEvent
  BY <1>3, <1>4 DEF VideoHeaders, VideoEndWait, FinishedEvent
<1>5. CASE StreamEnd
  <2>1. \E l \in {"wake", "setStop"} : Goto(V, l)
    BY <1>5 DEF StreamEnd
  <2> QED BY <1>3, <1>5, <2>1 DEF StreamEnd
<1>6. CASE SetStop
  <2>1. Goto(V, "stopThread")
    BY <1>6 DEF SetStop, Enter
  <2> QED BY <1>3, <1>6, <2>1 DEF SetStop
<1>7. CASE Wake
  <2>1. \A u \in Threads \ {V} : msg'[u] = msg[u]
    BY <1>7, FrameParts DEF Wake, DataTypes
  <2> QED BY <1>3, <1>7, <2>1 DEF Wake
<1> QED BY <1>1, <1>2, <1>4, <1>5, <1>6, <1>7

LEMMA PairAudio ==
  ASSUME Frame, LockInv, EndsPaired, AudioStep
  PROVE  LockInv' /\ EndsPaired'
<1>0. A \in Threads /\ V # A
  BY Names
<1>1. CASE AudioGet
  <2>1. /\ pc[A] = "get" /\ aq # << >> /\ aq' = Tail(aq) /\ Goto(A, Handled(Head(aq)))
        /\ UNCHANGED <<vq, finished, demuxLock, ret, msg>>
    BY <1>1 DEF AudioGet
  <2>2. /\ LockInv' /\ pc'[A] = Handled(Head(aq)) /\ pc'[V] = pc[V]
        /\ (HalfSent' <=> HalfSent)
    BY <1>0, <2>1, PairDecoder
  <2>3. Head(aq) \in Element /\ Tail(aq) \in Seq(Element)
    BY <2>1, PairNumbers, TakeFacts
  <2>4. EndsIn(aq) = EndsIn(aq)' + IsEnd[Head(aq)] /\ EndsIn(aq)' \in Nat
    BY <2>1, <2>3, PairNumbers, EndsInTake, EndsInNat DEF EndsIn
  <2>5. AtEnd(A) = 0 /\ AtEnd(A)' = IsEnd[Head(aq)] /\ AtEnd(V)' = AtEnd(V)
    BY <2>1, <2>2, <2>3, HandledFacts DEF AtEnd, IsEnd
  <2>6. EndsIn(vq)' = EndsIn(vq)
    BY <2>1 DEF EndsIn
  <2>7. EndsOfAudio' = EndsOfAudio
    BY <2>1, <2>2, <2>3, <2>4, <2>5, IsEndType, PairNumbers DEF EndsOfAudio
  <2>8. EndsOfVideo' = EndsOfVideo
    BY <2>1, <2>5, <2>6 DEF EndsOfVideo
  <2> QED BY <2>2, <2>7, <2>8 DEF EndsPaired
<1>2. CASE AudioEnd
  <2>1. /\ pc[A] = "end" /\ Goto(A, "endWait") /\ UNCHANGED <<vq, aq, demuxLock, ret, msg>>
        /\ finished' = [finished EXCEPT !.audio = finished.audio + 1]
    BY <1>2 DEF AudioEnd
  <2>2. LockInv' /\ pc'[A] = "endWait" /\ pc'[V] = pc[V] /\ (HalfSent' <=> HalfSent)
    BY <1>0, <2>1, PairDecoder
  <2>3. finished'.audio = finished.audio + 1 /\ finished'.video = finished.video
    BY <2>1, FrameParts DEF DataTypes
  <2>4. AtEnd(A) = 1 /\ AtEnd(A)' = 0 /\ AtEnd(V)' = AtEnd(V)
    BY <2>1, <2>2 DEF AtEnd
  <2>5. EndsIn(vq)' = EndsIn(vq) /\ EndsIn(aq)' = EndsIn(aq)
    BY <2>1 DEF EndsIn
  <2>6. EndsOfAudio' = EndsOfAudio
    BY <2>2, <2>3, <2>4, <2>5, PairNumbers DEF EndsOfAudio
  <2>7. EndsOfVideo' = EndsOfVideo
    BY <2>3, <2>4, <2>5 DEF EndsOfVideo
  <2> QED BY <2>2, <2>6, <2>7 DEF EndsPaired
<1>3. CASE AudioHeaders \/ AudioEndWait
  <2>1. /\ pc[A] # "end" /\ Goto(A, "get")
        /\ UNCHANGED <<vq, aq, finished, demuxLock, ret, msg>>
    BY <1>3 DEF AudioHeaders, AudioEndWait
  <2>2. pc'[A] = "get" /\ Own(A)
    BY <1>0, <2>1, Moves DEF Own
  <2>3. A # F /\ A \notin DemuxThreads
    BY Names
  <2> QED BY <1>0, <2>1, <2>2, <2>3, LockMove, PairMove
<1> QED BY <1>1, <1>2, <1>3 DEF AudioStep

LEMMA StepPaired ==
  ASSUME Frame, LockInv, EndsPaired, [Next]_vars
  PROVE  LockInv' /\ EndsPaired'
<1>1. F \in Flushers /\ F \in {F, V} /\ V \in {F, V} /\ DemuxThreads \subseteq Flushers
  BY DEF Flushers
<1>2. CASE FrontCall
  BY <1>2, PairCalls
<1>3. CASE FrontStep
  BY <1>1, <1>3, PairFrontSteps, PairPlay, PairStop, PairFlush, PairPutVideo, PairPutAudio
     DEF FrontStep
<1>4. CASE VideoStep
  BY <1>1, <1>4, PairVideo, PairStop DEF VideoStep
<1>5. CASE AudioStep
  BY <1>5, PairAudio
<1>6. ASSUME UNCHANGED <<vq, aq, finished, demuxLock, pc, ret, msg>>
      PROVE  LockInv' /\ EndsPaired'
  <2>1. LockInv'
    BY <1>6 DEF LockInv
  <2> QED BY <1>6, <2>1, PairSame DEF HalfEnd
<1>7. CASE FirstFrame \/ Rest \/ UNCHANGED vars
  BY <1>6, <1>7 DEF FirstFrame, Rest, vars
<1>8. ASSUME NEW d \in DemuxThreads, DemuxStep(d) PROVE LockInv' /\ EndsPaired'
  BY <1>1, <1>8, PairLoop, PairFlush, PairPutVideo, PairPutAudio DEF DemuxStep
<1> QED BY <1>2, <1>3, <1>4, <1>5, <1>7, <1>8 DEF Next

(* Whatever the application does, every END of one fifo has or had its     *)
(* counterpart in the other: demux_lock is held over both puts, and what   *)
(* clears the fifos keeps their control elements.  So the decoder that has *)
(* reached an END does not wait for one that was lost.                     *)
THEOREM EndsArePaired == Spec => []EndsPaired
<1>1. Init => LockInv /\ EndsPaired
  <2> SUFFICES ASSUME Init PROVE LockInv /\ EndsPaired
    OBVIOUS
  <2>1. pc[F] = "idle" /\ pc[V] = "get" /\ pc[A] = "get" /\ \A d \in DemuxThreads : pc[d] = "none"
    BY Names DEF Init
  <2>2. LockInv
    BY <2>1, Names DEF Init, LockInv, Locked, Put, Flush, Headers
  <2>3. ~HalfSent /\ AtEnd(V) = 0 /\ AtEnd(A) = 0
    BY <2>1 DEF HalfSent, AtEnd
  <2>4. vq = aq /\ finished.video = 0 /\ finished.audio = 0
    BY DEF Init
  <2>5. EndsIn(vq) = EndsIn(aq) /\ EndsIn(vq) \in Nat
    BY <2>4, InitFrame, PairNumbers
  <2>6. EndsOfVideo = EndsIn(vq) /\ EndsOfAudio = EndsIn(aq)
    BY <2>3, <2>4, <2>5 DEF EndsOfVideo, EndsOfAudio
  <2> QED BY <2>2, <2>5, <2>6 DEF EndsPaired
<1>2. Init => Frame /\ LockInv /\ EndsPaired
  BY <1>1, InitFrame
<1>3. Frame /\ LockInv /\ EndsPaired /\ [Next]_vars => (Frame /\ LockInv /\ EndsPaired)'
  BY StepFrame, StepPaired
<1>4. Spec => [](Frame /\ LockInv /\ EndsPaired)
  BY <1>2, <1>3, PTL DEF Spec
<1> QED BY <1>4, PTL
=============================================================================
