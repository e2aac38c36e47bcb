------------------------------ MODULE Metronom ------------------------------
(***************************************************************************)
(* How the two decoders of a stream pass its discontinuities together: the *)
(* rendezvous of metronom.c (handle_video_discontinuity and                *)
(* handle_audio_discontinuity), the one of video_decoder.c and             *)
(* audio_decoder.c at the end of a stream, and the writers of the fifos,   *)
(* which put every control element in both under demux_lock (demux.c).     *)
(*                                                                         *)
(* A discontinuity is abstracted to its number: the offset that metronom   *)
(* adds to every pts is named by the discontinuity that set it, and a data *)
(* element by the last discontinuity put before it.  What a thread does    *)
(* with metronom's lock held, up to a wait that gives it up, is one step.  *)
(***************************************************************************)
EXTENDS Integers, Sequences

CONSTANTS
  Writers,   \* threads that put elements: the demux thread and API calls
  NoWriter,  \* demux_lock is free
  Capacity,  \* elements in the pool of a fifo
  MaxPuts    \* bound on the elements put in the video fifo

ASSUME WriterAssumption == NoWriter \notin Writers
ASSUME CapacityAssumption == Capacity \in Nat \ {0}
ASSUME PutsAssumption == MaxPuts \in Nat

VARIABLES
  haveAudio,   \* this->have_audio: the stream has an audio port and fifo
  demuxLock,   \* the writer that holds stream->demux_lock
  pair,        \* the control element it still has to put in the audio fifo
  vq, aq,      \* video_fifo and audio_fifo
  puts,        \* elements put in vq (only to bound the model)
  discs,       \* discontinuities put
  vpc, apc,    \* where the decoder loops are
  vbuf, abuf,  \* the elements they handle
  vcount,      \* this->video_discontinuity_count
  acount,      \* this->audio_discontinuity_count
  handled,     \* this->discontinuity_handled_count
  offset,      \* this->vpts_offset, by the discontinuity that set it
  vends, aends \* stream->finished_count_video and _audio

fifos  == <<vq, aq, puts, discs>>
writer == <<demuxLock, pair>>
video  == <<vpc, vbuf, vcount, vends>>
audio  == <<apc, abuf, acount, aends>>
offs   == <<handled, offset>>
vars   == <<haveAudio, fifos, writer, video, audio, offs>>

Nothing == [kind |-> "none", disc |-> 0]
Element == [kind : {"disc", "end", "data"}, disc : 0..MaxPuts]

TypeOK ==
  /\ haveAudio \in BOOLEAN
  /\ demuxLock \in Writers \cup {NoWriter}
  /\ pair \in Element \cup {Nothing}
  /\ vq \in Seq(Element) /\ Len(vq) <= Capacity
  /\ aq \in Seq(Element) /\ Len(aq) <= Capacity
  /\ puts \in 0..MaxPuts /\ discs \in 0..MaxPuts
  /\ vpc \in {"get", "decode", "disc", "asleep", "woken", "end", "endWait"}
  /\ apc \in {"get", "decode", "disc", "asleep", "woken", "end", "endWait"}
  /\ vbuf \in Element \cup {Nothing} /\ abuf \in Element \cup {Nothing}
  /\ vcount \in 0..MaxPuts /\ acount \in 0..MaxPuts
  /\ handled \in {vcount - 1, vcount} /\ handled >= 0
  /\ handled = vcount - 1 <=> vpc \in {"asleep", "woken"}
  /\ offset \in 0..MaxPuts
  /\ vends \in Nat /\ aends \in Nat

Init ==
  /\ haveAudio \in BOOLEAN
  /\ demuxLock = NoWriter /\ pair = Nothing
  /\ vq = << >> /\ aq = << >> /\ puts = 0 /\ discs = 0
  /\ vpc = "get" /\ vbuf = Nothing /\ vcount = 0 /\ vends = 0
  /\ apc = "get" /\ abuf = Nothing /\ acount = 0 /\ aends = 0
  /\ handled = 0 /\ offset = 0

-----------------------------------------------------------------------------
(* xine_demux_control_start, _newpts and _end put an element in the video  *)
(* fifo and then, if there is one, in the audio fifo; a put waits for a    *)
(* free element.  The callers hold demux_lock.                             *)
PutVideo(w, kind) ==
  /\ demuxLock = NoWriter
  /\ puts < MaxPuts /\ Len(vq) < Capacity
  /\ discs' = IF kind = "disc" THEN discs + 1 ELSE discs
  /\ vq' = Append(vq, [kind |-> kind, disc |-> discs'])
  /\ puts' = puts + 1
  /\ IF haveAudio
       THEN demuxLock' = w /\ pair' = [kind |-> kind, disc |-> discs']
       ELSE UNCHANGED writer
  /\ UNCHANGED <<haveAudio, aq, video, audio, offs>>

PutAudio(w) ==
  /\ demuxLock = w
  /\ Len(aq) < Capacity
  /\ aq' = Append(aq, pair)
  /\ demuxLock' = NoWriter /\ pair' = Nothing
  /\ UNCHANGED <<haveAudio, vq, puts, discs, video, audio, offs>>

(* The demuxer sends data to one decoder or the other, ...                 *)
SendVideo ==
  /\ demuxLock = NoWriter
  /\ puts < MaxPuts /\ Len(vq) < Capacity
  /\ vq' = Append(vq, [kind |-> "data", disc |-> discs])
  /\ puts' = puts + 1
  /\ UNCHANGED <<haveAudio, aq, discs, writer, video, audio, offs>>

SendAudio ==
  /\ demuxLock = NoWriter /\ haveAudio
  /\ puts < MaxPuts /\ Len(aq) < Capacity
  /\ aq' = Append(aq, [kind |-> "data", disc |-> discs])
  /\ puts' = puts + 1
  /\ UNCHANGED <<haveAudio, vq, discs, writer, video, audio, offs>>

(* ... and a flush drops what data is queued and keeps the control         *)
(* elements (xine_demux_flush_engine, fifo_buffer_clear): the i-th one it  *)
(* keeps was at place f[i].                                                *)
Kept(e) == e.kind # "data"

KeptPlaces(q) ==
  {f \in UNION {[1..n -> 1..Len(q)] : n \in 0..Len(q)} :
     /\ \A i, j \in DOMAIN f : i < j => f[i] < f[j]
     /\ \A k \in 1..Len(q) : Kept(q[k]) <=> \E i \in DOMAIN f : f[i] = k}

Cleared(q) == {[i \in DOMAIN f |-> q[f[i]]] : f \in KeptPlaces(q)}

FlushVideo ==
  /\ demuxLock = NoWriter
  /\ vq' \in Cleared(vq)
  /\ UNCHANGED <<haveAudio, aq, puts, discs, writer, video, audio, offs>>

FlushAudio ==
  /\ demuxLock = NoWriter
  /\ aq' \in Cleared(aq)
  /\ UNCHANGED <<haveAudio, vq, puts, discs, writer, video, audio, offs>>

-----------------------------------------------------------------------------
Place(e) == CASE e.kind = "data" -> "decode" [] e.kind = "disc" -> "disc"
              [] e.kind = "end" -> "end"

VideoGet ==
  /\ vpc = "get" /\ vq # << >>
  /\ vbuf' = Head(vq) /\ vq' = Tail(vq)
  /\ vpc' = Place(Head(vq))
  /\ UNCHANGED <<haveAudio, aq, puts, discs, writer, vcount, vends, audio, offs>>

(* metronom_got_video_frame adds the offset to the pts of the frame.       *)
VideoDecode ==
  /\ vpc = "decode"
  /\ vpc' = "get" /\ vbuf' = Nothing
  /\ UNCHANGED <<haveAudio, fifos, writer, vcount, vends, audio, offs>>

(* pthread_cond_signal of video_discontinuity_reached                      *)
WakeAudio == apc' = IF apc = "asleep" THEN "woken" ELSE apc

(* Video waits for audio to reach the discontinuity, ...                   *)
VideoWaits(v) == haveAudio /\ acount < v

(* Mutant: the handled discontinuity is counted before it is handled.      *)
Handle_Early ==
  /\ handled' = handled + 2
  /\ offset' = vbuf.disc
  /\ vpc' = "get" /\ vbuf' = Nothing

(* ... then computes the new offset for both.                              *)
Handle ==
  /\ handled' = handled + 1
  /\ offset' = vbuf.disc
  /\ vpc' = "get" /\ vbuf' = Nothing

VideoDiscontinuity ==
  /\ vpc = "disc"
  /\ vcount' = vcount + 1
  /\ IF VideoWaits(vcount') THEN vpc' = "asleep" /\ UNCHANGED <<vbuf, offs>>
                            ELSE Handle
  /\ WakeAudio
  /\ UNCHANGED <<haveAudio, fifos, writer, vends, abuf, acount, aends>>

VideoWoken ==
  /\ vpc = "woken"
  /\ IF VideoWaits(vcount) THEN vpc' = "asleep" /\ UNCHANGED <<vbuf, offs, apc>>
                           ELSE Handle /\ WakeAudio
  /\ UNCHANGED <<haveAudio, fifos, writer, vcount, vends, abuf, acount, aends>>

AudioGet ==
  /\ haveAudio /\ apc = "get" /\ aq # << >>
  /\ abuf' = Head(aq) /\ aq' = Tail(aq)
  /\ apc' = Place(Head(aq))
  /\ UNCHANGED <<haveAudio, vq, puts, discs, writer, acount, aends, video, offs>>

(* metronom_got_audio_samples, called by ao_put_buffer, does the same.     *)
AudioDecode ==
  /\ apc = "decode"
  /\ apc' = "get" /\ abuf' = Nothing
  /\ UNCHANGED <<haveAudio, fifos, writer, acount, aends, video, offs>>

(* Mutant: audio goes on as soon as video has reached the discontinuity.   *)
AudioWaits_Reached(a) == a > vcount

(* Audio waits until video has handled the discontinuity.                  *)
AudioWaits(a) == a > handled

(* Mutant: the audio decoder does not signal that it has arrived.          *)
AudioDiscontinuity_Silent ==
  /\ apc = "disc"
  /\ acount' = acount + 1
  /\ IF AudioWaits(acount') THEN apc' = "asleep" /\ UNCHANGED abuf
                            ELSE apc' = "get" /\ abuf' = Nothing
  /\ UNCHANGED <<haveAudio, fifos, writer, vpc, vbuf, vcount, vends, aends, offs>>

(* pthread_cond_signal of audio_discontinuity_reached wakes video.         *)
AudioDiscontinuity ==
  /\ apc = "disc"
  /\ acount' = acount + 1
  /\ IF AudioWaits(acount') THEN apc' = "asleep" /\ UNCHANGED abuf
                            ELSE apc' = "get" /\ abuf' = Nothing
  /\ vpc' = IF vpc = "asleep" THEN "woken" ELSE vpc
  /\ UNCHANGED <<haveAudio, fifos, writer, vbuf, vcount, vends, aends, offs>>

AudioWoken ==
  /\ apc = "woken"
  /\ IF AudioWaits(acount) THEN apc' = "asleep" /\ UNCHANGED abuf
                           ELSE apc' = "get" /\ abuf' = Nothing
  /\ UNCHANGED <<haveAudio, fifos, writer, acount, aends, video, offs>>

(* BUF_CONTROL_END: each decoder counts its end and waits for the other's. *)
(* Both look again every second, whether they are signalled or not.        *)
VideoEnd ==
  /\ vpc = "end"
  /\ vends' = vends + 1
  /\ vpc' = "endWait"
  /\ UNCHANGED <<haveAudio, fifos, writer, vbuf, vcount, audio, offs>>

VideoEndWait ==
  /\ vpc = "endWait" /\ (haveAudio => vends <= aends)
  /\ vpc' = "get" /\ vbuf' = Nothing
  /\ UNCHANGED <<haveAudio, fifos, writer, vcount, vends, audio, offs>>

AudioEnd ==
  /\ apc = "end"
  /\ aends' = aends + 1
  /\ apc' = "endWait"
  /\ UNCHANGED <<haveAudio, fifos, writer, abuf, acount, video, offs>>

AudioEndWait ==
  /\ apc = "endWait" /\ vends >= aends
  /\ apc' = "get" /\ abuf' = Nothing
  /\ UNCHANGED <<haveAudio, fifos, writer, acount, aends, video, offs>>

-----------------------------------------------------------------------------
Write ==
  \/ \E w \in Writers : PutAudio(w) \/ \E k \in {"disc", "end"} : PutVideo(w, k)
  \/ SendVideo \/ SendAudio \/ FlushVideo \/ FlushAudio

VideoStep ==
  \/ VideoGet \/ VideoDecode \/ VideoDiscontinuity \/ VideoWoken
  \/ VideoEnd \/ VideoEndWait

AudioStep ==
  \/ AudioGet \/ AudioDecode \/ AudioDiscontinuity \/ AudioWoken
  \/ AudioEnd \/ AudioEndWait

Next == Write \/ VideoStep \/ AudioStep

(* The decoder threads run; a writer that has put half a pair goes on when *)
(* the fifo has room, although others may use it first.                    *)
Fairness ==
  /\ WF_vars(VideoStep) /\ WF_vars(AudioStep)
  /\ \A w \in Writers : WF_vars(PutAudio(w))

Spec == Init /\ [][Next]_vars /\ Fairness

-----------------------------------------------------------------------------
(* Whoever decodes data does it with the offset of its own segment: video  *)
(* does not change the offset while audio is before the discontinuity, and *)
(* audio does not go on before it is changed                               *)
(* (metronom_handle_video_discontinuity, _audio_discontinuity).            *)
OwnOffset ==
  /\ vpc = "decode" => vbuf.disc = offset
  /\ apc = "decode" => abuf.disc = offset

(* Every discontinuity and every end is passed: whatever is queued is      *)
(* decoded or flushed, and nobody waits for ever for the other decoder,    *)
(* although the waits at a discontinuity have no timeout.                  *)
DecodersGoOn ==
  /\ vq # << >> \/ vpc # "get" ~> vq = << >> /\ vpc = "get"
  /\ haveAudio /\ (aq # << >> \/ apc # "get") ~> aq = << >> /\ apc = "get"
=============================================================================
