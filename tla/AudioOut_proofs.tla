-------------------------- MODULE AudioOut_proofs ---------------------------
(***************************************************************************)
(* Three promises of the audio port, for any number of buffers and of      *)
(* threads that discard and flush: ao_loop writes samples only to an open  *)
(* driver that is set to their format, a flush that returns has left no    *)
(* old buffer behind, and every buffer is in one place.                    *)
(*                                                                         *)
(* The first two rest on what fifo_wait_empty waits for.  The loop wakes a *)
(* waiter when it finds out_fifo empty, and it looks only when it has no   *)
(* buffer: nothing is in the port then (LoopInv).  After that nothing      *)
(* comes back that matters: samples are put by the decoder alone, which is *)
(* the waiter when the driver is closed or set to another format           *)
(* (NoSamples).  So what is in the port has the port's format (FormatInv), *)
(* and ao_loop never sets the driver anew, which could fail.  A buffer     *)
(* that a flush found in the port leaves it for good (StaleInv), while     *)
(* demux_lock keeps the next flush from beginning (LockInv).               *)
(*                                                                         *)
(* The third (Spread), which the first needs too, for a flush empties the  *)
(* buffer it puts, rests on which thread has a buffer in hand at which     *)
(* place of its code (Hands): one that takes a buffer had none, and one    *)
(* that puts a buffer forgets it.                                          *)
(***************************************************************************)
EXTENDS AudioOut, FiniteSetTheorems, TLAPS

ChangePC == {"raiseCall", "raiseFlush", "raiseAo", "lowerAo", "lowerFlush", "lowerCall"}

Types ==
  /\ free \in Seq(Buffers) /\ out \in Seq(Buffers)
  /\ held \in [Threads -> Buffers \cup {Nil}]
  /\ inBuf \in Buffers \cup {Nil}
  /\ format \in [Buffers -> Formats \cup {Nil}]
  /\ input \in Formats \cup {Nil} /\ want \in Formats \cup {Nil}
  /\ driver \in BOOLEAN /\ opened \in BOOLEAN
  /\ pcU \in [Users -> UserPC]
  /\ discard \in Int /\ tmp \in [Users -> Int \cup {Nil}]

(* Where the threads are goes with what they hold.                         *)
LoopInv ==
  /\ pcL = "get" => inBuf = Nil
  /\ pcL \in {"flush", "pause", "settings", "output"} => inBuf # Nil
  /\ pcL \in {"top", "get", "flush", "pause", "settings", "output", "done"}

HoldInv ==
  /\ pcD \in {"put", "putOut", "putFree"} => held["decoder"] # Nil
  /\ \A u \in Users : pcU[u] = "append" => held[u] # Nil
  /\ \A u \in Users : tmp[u] # Nil => pcU[u] \in ChangePC

OpenInv ==
  /\ opened => driver
  /\ pcD \in {"get", "put", "putOut", "putFree"} => opened

LockInv ==
  \A u \in Users : pcU[u] \in {"raiseFlush", "engine"} \cup InFlush => demuxLock = u

(* The decoder has been told that the port is empty, or the driver is      *)
(* closed.                                                                 *)
Settled ==
  \/ ~driver
  \/ pcD \in {"opening", "closing"}
  \/ pcD \in {"openWait", "closeWait"} /\ "decoder" \notin waiters

NoSamples == Settled => InOut \cap frames = {}

(* The samples in the port have the format that it is set to: that of the  *)
(* stream that opened it.                                                  *)
FormatInv ==
  /\ opened => want = input
  /\ \A b \in InOut \cap frames : format[b] = input
  /\ pcD = "putOut" => format[held["decoder"]] = input

StaleInv ==
  /\ stale \subseteq InOut
  /\ \A u \in Users :
       \/ pcU[u] = "drainWait" /\ u \notin waiters
       \/ pcU[u] = "lowerFlush"
       => stale = {}

(* Every buffer is in one place, and who has one in hand.                  *)
Hands ==
  /\ pcD \notin {"put", "putOut", "putFree"} => held["decoder"] = Nil
  /\ \A u \in Users : pcU[u] # "append" => held[u] = Nil
  /\ pcX \in {"no", "get"} => held["exit"] = Nil

Held(b) == \E t \in Threads : held[t] = b

Spread ==
  /\ IsInjective(free) /\ IsInjective(out)
  /\ ToSet(free) \cap ToSet(out) = {}
  /\ inBuf \notin ToSet(free) \cup ToSet(out)
  /\ \A b \in Buffers : Held(b) => b \notin ToSet(free) \cup ToSet(out) \cup {inBuf}
  /\ \A t, u \in Threads : held[t] = held[u] /\ held[t] # Nil => t = u
  /\ \A b \in Buffers : b \in ToSet(free) \cup ToSet(out) \cup {inBuf} \/ Held(b)

IInv == /\ Types /\ LoopInv /\ HoldInv /\ OpenInv /\ LockInv
        /\ NoSamples /\ FormatInv /\ StaleInv

USE BuffersAssumption, NilAssumption, DecoderAssumption

-----------------------------------------------------------------------------
(* What the helpers do.                                                    *)
LEMMA ChangeFacts == DOMAIN Change = ChangePC /\ \A c \in ChangePC : Change[c] \in Int
  BY DEF Change, ChangePC

LEMMA ReleaseFacts ==
  ASSUME Types, inBuf # Nil, Release, out' = out, stale \subseteq InOut
  PROVE  /\ free' \in Seq(Buffers) /\ inBuf' = Nil
         /\ InOut' \subseteq InOut
         /\ stale' \subseteq stale /\ stale' \subseteq InOut'
<1>1. /\ free' = Append(free, inBuf) /\ stale' = stale \ {inBuf} /\ inBuf' = Nil
  BY DEF Release, AppendFree
<1>2. free' \in Seq(Buffers) BY <1>1 DEF Types
<1>3. InOut' = ToSet(out) BY <1>1 DEF InOut
<1>4. InOut = ToSet(out) \cup {inBuf} BY DEF InOut
<1> QED BY <1>1, <1>2, <1>3, <1>4

LEMMA GetFacts ==
  ASSUME out \in Seq(Buffers), out # << >>, inBuf' = Head(out), out' = Tail(out)
  PROVE  /\ inBuf' \in Buffers /\ out' \in Seq(Buffers)
         /\ InOut' = ToSet(out)
<1>1. Len(out) \in Nat /\ Len(out) >= 1 /\ DOMAIN out = 1..Len(out)
  OBVIOUS
<1>2. inBuf' = out[1] /\ inBuf' \in Buffers BY <1>1
<1>3. out' \in Seq(Buffers) /\ DOMAIN out' = 1..Len(out) - 1
      /\ \A i \in 1..Len(out) - 1 : out'[i] = out[i + 1]
  BY <1>1
<1>4. ToSet(out') \subseteq ToSet(out) /\ out[1] \in ToSet(out)
  BY <1>1, <1>3 DEF ToSet
<1>5. ToSet(out) \subseteq ToSet(out') \cup {out[1]}
  <2> SUFFICES ASSUME NEW i \in 1..Len(out) PROVE out[i] \in ToSet(out') \cup {out[1]}
    BY <1>1 DEF ToSet
  <2>1. CASE i = 1 BY <2>1
  <2>2. CASE i # 1
    <3>1. i - 1 \in 1..Len(out) - 1 /\ out'[i - 1] = out[i] BY <1>1, <1>3, <2>2
    <3> QED BY <1>3, <3>1 DEF ToSet
  <2> QED BY <2>1, <2>2
<1> QED BY <1>2, <1>3, <1>4, <1>5 DEF InOut

LEMMA AppendOutFacts ==
  ASSUME NEW b \in Buffers, out \in Seq(Buffers), AppendOut(b), inBuf' = inBuf
  PROVE  out' \in Seq(Buffers) /\ InOut' = InOut \cup {b}
<1>1. /\ out' = Append(out, b) /\ out' \in Seq(Buffers)
      /\ DOMAIN out = 1..Len(out) /\ DOMAIN out' = 1..Len(out) + 1 /\ Len(out) \in Nat
      /\ out'[Len(out) + 1] = b /\ \A i \in 1..Len(out) : out'[i] = out[i]
  BY DEF AppendOut
<1>2. ToSet(out') = ToSet(out) \cup {b} BY <1>1 DEF ToSet
<1> QED BY <1>1, <1>2 DEF InOut

LEMMA RemoveFacts ==
  ASSUME NEW t \in Threads, Types, RemoveFree(t)
  PROVE  /\ free' \in Seq(Buffers) /\ held' \in [Threads -> Buffers \cup {Nil}]
         /\ held'[t] \in Buffers
         /\ \A u \in Threads : u # t => held'[u] = held[u]
<1>1. free # << >> /\ free \in Seq(Buffers) /\ held \in [Threads -> Buffers \cup {Nil}]
  BY DEF RemoveFree, Types
<1>2. Head(free) \in Buffers /\ Tail(free) \in Seq(Buffers) BY <1>1
<1>3. held' = [held EXCEPT ![t] = Head(free)] /\ free' = Tail(free) BY DEF RemoveFree
<1> QED BY <1>1, <1>2, <1>3

(* What the invariant speaks of                                            *)
Told == <<free, out, held, inBuf, format, driver, input, opened, want, discard, tmp, waiters,
          stale, demuxLock, pcL, pcD, pcU>>

LEMMA Still == IInv /\ UNCHANGED Told => IInv'
<1> SUFFICES ASSUME IInv, UNCHANGED Told PROVE IInv'
  OBVIOUS
<1>1. InOut' = InOut /\ (Settled' <=> Settled) BY DEF InOut, Told, Settled
<1>2. Types' /\ LoopInv' BY DEF IInv, Types, LoopInv, Told
<1>3. HoldInv' /\ OpenInv' /\ LockInv' BY DEF IInv, HoldInv, OpenInv, LockInv, Told
<1>4. NoSamples' /\ FormatInv' BY <1>1 DEF IInv, NoSamples, FormatInv, frames, Told
<1>5. StaleInv' BY <1>1 DEF IInv, StaleInv, Told
<1> QED BY <1>2, <1>3, <1>4, <1>5 DEF IInv

(* Nobody changes a format, and no samples come into the port.             *)
LEMMA SamplesStay ==
  ASSUME NoSamples, FormatInv, UNCHANGED <<format, input, opened, want>>,
         InOut' \subseteq InOut, Settled' => Settled,
         pcD' = "putOut" => pcD = "putOut" /\ held'["decoder"] = held["decoder"]
  PROVE  NoSamples' /\ FormatInv'
<1>1. frames' = frames BY DEF frames
<1>2. NoSamples' BY <1>1 DEF NoSamples
<1>3. FormatInv' BY <1>1 DEF FormatInv
<1> QED BY <1>2, <1>3

(* A buffer that one of the other threads puts has no samples.             *)
LEMMA EmptyPut ==
  ASSUME Types, HoldInv, Spread, NoSamples, FormatInv, NEW t \in Threads, t # "decoder",
         held[t] \in Buffers, format' = [format EXCEPT ![held[t]] = Nil],
         held' = [held EXCEPT ![t] = Nil], InOut' = InOut \cup {held[t]},
         UNCHANGED <<input, opened, want, driver, pcD, waiters>>
  PROVE  NoSamples' /\ FormatInv' /\ format' \in [Buffers -> Formats \cup {Nil}]
<1>1. /\ format' \in [Buffers -> Formats \cup {Nil}]
      /\ \A b \in Buffers : b # held[t] => format'[b] = format[b]
      /\ format'[held[t]] = Nil
  BY DEF Types
<1>2. frames' = frames \ {held[t]} BY <1>1 DEF frames
<1>3. NoSamples' BY <1>2 DEF NoSamples, Settled
<1>4. "decoder" \in Threads /\ held'["decoder"] = held["decoder"] BY DEF Threads, Types
<1>5. held["decoder"] = held[t] => held[t] = Nil BY <1>4 DEF Spread
<1>6. held["decoder"] # held[t] BY <1>5
<1>7. \A b \in InOut' \cap frames' : b \in InOut \cap frames /\ format'[b] = format[b]
  BY <1>1, <1>2 DEF frames
<1>8. ASSUME pcD = "putOut" PROVE format'[held["decoder"]] = input
  <2>1. format[held["decoder"]] = input BY <1>8 DEF FormatInv
  <2>2. held["decoder"] \in Buffers BY <1>4, <1>8 DEF HoldInv, Types
  <2> QED BY <1>1, <1>6, <2>1, <2>2
<1>9. FormatInv' BY <1>4, <1>7, <1>8 DEF FormatInv
<1> QED BY <1>1, <1>3, <1>9
-----------------------------------------------------------------------------
(* ao_loop                                                                 *)
LEMMA LoopStep == IInv /\ Loop => IInv'
<1> SUFFICES ASSUME IInv, Loop PROVE IInv'
  OBVIOUS
<1> USE DEF IInv
<1>1. UNCHANGED <<held, format, opened, want, discard, tmp, demuxLock, pcD, pcU>>
  BY DEF Loop, LoopTop, LoopSleep, LoopGet, LoopFlush, LoopPause, LoopSettings,
         LoopOutput, LoopKeep, fifos, count, flush, port, dec, users
<1>2. HoldInv' /\ LockInv' BY <1>1 DEF HoldInv, LockInv
<1>3. stale \subseteq InOut BY DEF StaleInv
<1>4. CASE LoopSleep
  <2>1. /\ UNCHANGED <<free, out, inBuf, driver, input, stale, pcL>>
        /\ out = << >> /\ pcL = "get"
    BY <1>4 DEF LoopSleep, loop, port
  <2>2. inBuf = Nil /\ InOut = {} /\ InOut' = {}
    BY <2>1 DEF LoopInv, InOut, ToSet
  <2>3. Types' BY <1>1, <2>1 DEF Types
  <2>4. LoopInv' BY <2>1 DEF LoopInv
  <2>5. OpenInv' BY <1>1, <2>1 DEF OpenInv
  <2>6. NoSamples' /\ FormatInv' BY <1>1, <2>1, <2>2 DEF NoSamples, FormatInv, frames
  <2>7. StaleInv' BY <1>3, <2>1, <2>2 DEF StaleInv
  <2> QED BY <1>2, <2>3, <2>4, <2>5, <2>6, <2>7
<1>5. CASE LoopGet
  <2>1. /\ UNCHANGED <<free, driver, input, waiters, stale>>
        /\ out # << >> /\ inBuf' = Head(out) /\ out' = Tail(out)
        /\ pcL = "get" /\ pcL' = "flush"
    BY <1>5 DEF LoopGet, port
  <2>2. out \in Seq(Buffers) /\ inBuf = Nil BY <2>1 DEF Types, LoopInv
  <2>3. inBuf' \in Buffers /\ out' \in Seq(Buffers) /\ InOut' = ToSet(out)
    BY <2>1, <2>2, GetFacts
  <2>4. InOut' = InOut BY <2>2, <2>3 DEF InOut
  <2>5. Types' BY <1>1, <2>1, <2>3 DEF Types
  <2>6. LoopInv' BY <2>1, <2>3 DEF LoopInv
  <2>7. OpenInv' BY <1>1, <2>1 DEF OpenInv
  <2>8. NoSamples' /\ FormatInv' BY <1>1, <2>1, <2>4, SamplesStay DEF Settled
  <2>9. StaleInv' BY <1>1, <2>1, <2>4 DEF StaleInv
  <2> QED BY <1>2, <2>5, <2>6, <2>7, <2>8, <2>9
<1>6. ASSUME UNCHANGED <<out, driver, input, waiters>>,
             UNCHANGED <<free, stale, inBuf>> \/ (inBuf # Nil /\ Release),
             pcL' \in {"top", "get", "flush", "pause", "settings", "output", "done"},
             pcL' = "get" => inBuf' = Nil,
             pcL' \in {"flush", "pause", "settings", "output"} => inBuf' # Nil
      PROVE  IInv'
  <2>1. /\ free' \in Seq(Buffers) /\ inBuf' \in Buffers \cup {Nil}
        /\ InOut' \subseteq InOut /\ stale' \subseteq stale /\ stale' \subseteq InOut'
    <3>1. CASE UNCHANGED <<free, stale, inBuf>>
      BY <1>3, <1>6, <3>1 DEF Types, InOut
    <3>2. CASE inBuf # Nil /\ Release
      BY <1>3, <1>6, <3>2, ReleaseFacts
    <3> QED BY <1>6, <3>1, <3>2
  <2>2. Types' BY <1>1, <1>6, <2>1 DEF Types
  <2>3. LoopInv' BY <1>6 DEF LoopInv
  <2>4. OpenInv' BY <1>1, <1>6 DEF OpenInv
  <2>5. NoSamples' /\ FormatInv' BY <1>1, <1>6, <2>1, SamplesStay DEF Settled
  <2>6. StaleInv' BY <1>1, <1>6, <2>1 DEF StaleInv
  <2> QED BY <1>2, <2>2, <2>3, <2>4, <2>5, <2>6
<1>7. CASE LoopTop
  BY <1>6, <1>7 DEF LoopTop, port
<1>8. CASE LoopFlush
  BY <1>6, <1>8 DEF LoopFlush, port, LoopInv, Release
<1>9. CASE LoopPause
  BY <1>6, <1>9 DEF LoopPause, port, LoopInv, Release
<1>10. CASE LoopSettings
  <2>1. inBuf \in frames => driver /\ format[inBuf] = input
    <3>1. inBuf # Nil BY <1>10 DEF LoopSettings, LoopInv
    <3>2. inBuf \in InOut BY <3>1 DEF InOut
    <3> QED BY <3>2 DEF NoSamples, FormatInv, Settled
  <2> QED BY <1>6, <1>10, <2>1 DEF LoopSettings, fifos, LoopInv
<1>11. CASE LoopOutput
  BY <1>6, <1>11 DEF LoopOutput, port, LoopInv, Release
<1>12. CASE LoopKeep
  BY <1>6, <1>12 DEF LoopKeep, port, fifos, LoopInv
<1> QED BY <1>4, <1>5, <1>7, <1>8, <1>9, <1>10, <1>11, <1>12 DEF Loop
-----------------------------------------------------------------------------
(* The decoder                                                             *)
LEMMA DecoderStep == IInv /\ (DecoderBegin \/ Decoder) => IInv'
<1> SUFFICES ASSUME IInv, DecoderBegin \/ Decoder PROVE IInv'
  OBVIOUS
<1> USE DEF IInv
<1>1. UNCHANGED <<inBuf, discard, tmp, demuxLock, pcL, pcU>>
  BY DEF Decoder, DecoderBegin, GetBuffer, SleepFree, PutReads, PutBuffer, DecoderWaits,
         DecoderWoken, DecoderSets, count, loop, users
<1>2. LoopInv' /\ LockInv' BY <1>1 DEF LoopInv, LockInv
<1>3. "decoder" \in Threads /\ "decoder" \notin Users BY DEF Threads
<1>4. CASE DecoderBegin
  <2>1. UNCHANGED <<free, out, held, format, driver, input, waiters, stale>>
        /\ pcD' \in {"get", "close", "open"} /\ opened' = (pcD' = "get")
        /\ (pcD' = "get" => opened)
        /\ IF opened THEN want' = want ELSE want' \in Formats
    BY <1>4 DEF DecoderBegin, fifos, port
  <2>2. opened' \in BOOLEAN BY <2>1
  <2>3. Types' BY <1>1, <2>1, <2>2 DEF Types
  <2>4. HoldInv' BY <1>1, <2>1 DEF HoldInv
  <2>5. OpenInv' BY <2>1 DEF OpenInv
  <2>6. NoSamples' BY <1>1, <2>1 DEF NoSamples, Settled, InOut, frames
  <2>7. FormatInv' BY <1>1, <2>1 DEF FormatInv, InOut, frames
  <2>8. StaleInv' BY <1>1, <2>1 DEF StaleInv, InOut
  <2> QED BY <1>2, <2>3, <2>4, <2>5, <2>6, <2>7, <2>8
<1>5. CASE GetBuffer
  <2>1. CASE SleepFree("decoder")
    <3>1. UNCHANGED Told
      BY <2>1 DEF SleepFree, Told, count, flush, port, loop, dec, users
    <3> QED BY <3>1, Still
  <2>2. CASE ~SleepFree("decoder")
    <3>1. /\ RemoveFree("decoder") /\ pcD = "get" /\ pcD' = "put"
          /\ UNCHANGED <<out, format, driver, input, opened, want, waiters, stale>>
      BY <1>5, <2>2 DEF GetBuffer, port
    <3>2. /\ free' \in Seq(Buffers) /\ held' \in [Threads -> Buffers \cup {Nil}]
          /\ held'["decoder"] \in Buffers
          /\ \A u \in Threads : u # "decoder" => held'[u] = held[u]
      BY <1>3, <3>1, RemoveFacts
    <3>3. Types' BY <1>1, <3>1, <3>2 DEF Types
    <3>4. HoldInv' BY <1>1, <3>2 DEF HoldInv, Threads
    <3>5. OpenInv' BY <3>1 DEF OpenInv
    <3>6. NoSamples' /\ FormatInv' BY <1>1, <3>1, SamplesStay DEF Settled, InOut
    <3>7. StaleInv' BY <1>1, <3>1 DEF StaleInv, InOut
    <3> QED BY <1>2, <3>3, <3>4, <3>5, <3>6, <3>7
  <2> QED BY <2>1, <2>2
<1>6. CASE PutReads
  <2>1. /\ UNCHANGED <<free, out, held, driver, input, opened, want, waiters, stale>>
        /\ pcD = "put" /\ pcD' \in {"putOut", "putFree"}
        /\ \/ pcD' = "putFree" /\ format' = [format EXCEPT ![held["decoder"]] = Nil]
           \/ format' = [format EXCEPT ![held["decoder"]] = want]
    BY <1>6 DEF PutReads, port
  <2>2. driver /\ opened /\ want = input /\ held["decoder"] \in Buffers
    BY <1>3, <2>1 DEF OpenInv, HoldInv, FormatInv, Types
  <2>3. /\ format' \in [Buffers -> Formats \cup {Nil}]
        /\ \A b \in Buffers : b # held["decoder"] => format'[b] = format[b]
        /\ format'[held["decoder"]] \in {Nil, input}
        /\ pcD' = "putOut" => format'[held["decoder"]] = input
    BY <2>1, <2>2 DEF Types
  <2>4. Types' BY <1>1, <2>1, <2>3 DEF Types
  <2>5. HoldInv' BY <1>1, <2>1 DEF HoldInv
  <2>6. OpenInv' BY <2>1 DEF OpenInv
  <2>7. NoSamples' BY <2>1, <2>2 DEF NoSamples, Settled
  <2>8. FormatInv'
    <3>1. \A b \in InOut' \cap frames' : b \in InOut /\ format'[b] # Nil /\ b \in Buffers
      BY <1>1, <2>1 DEF InOut, frames
    <3>2. \A b \in InOut' \cap frames' : format'[b] = input
      BY <2>3, <3>1 DEF FormatInv, frames
    <3> QED BY <2>1, <2>2, <2>3, <3>2 DEF FormatInv
  <2>9. StaleInv' BY <1>1, <2>1 DEF StaleInv, InOut
  <2> QED BY <1>2, <2>4, <2>5, <2>6, <2>7, <2>8, <2>9
<1>7. CASE PutBuffer
  <2>1. /\ UNCHANGED <<format, driver, input, opened, want, waiters>>
        /\ pcD \in {"putOut", "putFree"} /\ pcD' = "idle"
        /\ held' = [held EXCEPT !["decoder"] = Nil]
        /\ \/ pcD = "putOut" /\ AppendOut(held["decoder"]) /\ UNCHANGED <<free, stale>>
           \/ AppendFree(held["decoder"]) /\ UNCHANGED out
    BY <1>7 DEF PutBuffer, port
  <2>2. driver /\ held["decoder"] \in Buffers
    BY <1>3, <2>1 DEF OpenInv, HoldInv, Types
  <2>3. /\ free' \in Seq(Buffers) /\ out' \in Seq(Buffers)
        /\ InOut \subseteq InOut' /\ stale' \subseteq stale
        /\ \/ pcD = "putOut" /\ InOut' = InOut \cup {held["decoder"]}
           \/ InOut' = InOut
    <3>1. CASE pcD = "putOut" /\ AppendOut(held["decoder"]) /\ UNCHANGED <<free, stale>>
      BY <1>1, <2>2, <3>1, AppendOutFacts DEF Types
    <3>2. CASE AppendFree(held["decoder"]) /\ UNCHANGED out
      BY <1>1, <2>2, <3>2 DEF AppendFree, Types, InOut
    <3> QED BY <2>1, <3>1, <3>2
  <2>4. Types' BY <1>1, <2>1, <2>3 DEF Types
  <2>5. HoldInv' BY <1>1, <1>3, <2>1 DEF HoldInv, Types, Threads
  <2>6. OpenInv' BY <2>1 DEF OpenInv
  <2>7. NoSamples' BY <2>1, <2>2 DEF NoSamples, Settled
  <2>8. FormatInv' BY <2>1, <2>3 DEF FormatInv, frames
  <2>9. StaleInv' BY <1>1, <2>1, <2>3 DEF StaleInv
  <2> QED BY <1>2, <2>4, <2>5, <2>6, <2>7, <2>8, <2>9
<1>8. CASE DecoderWaits
  <2>1. /\ UNCHANGED <<free, out, held, format, driver, input, want, stale>>
        /\ pcD \in {"open", "close"} /\ opened' \in BOOLEAN
        /\ \/ /\ pcD' \in {"openWait", "closeWait"} /\ opened' = opened
              /\ waiters' = waiters \cup {"decoder"}
           \/ pcD' = "idle" /\ SetAlready /\ opened' = TRUE /\ waiters' = waiters
    BY <1>8 DEF DecoderWaits, WaitEmpty, port, Types
  <2>2. Types' BY <1>1, <2>1 DEF Types
  <2>3. HoldInv' BY <1>1, <2>1 DEF HoldInv
  <2>4. OpenInv' BY <2>1 DEF OpenInv, SetAlready
  <2>5. NoSamples' BY <1>1, <2>1 DEF NoSamples, Settled, InOut, frames
  <2>6. FormatInv' BY <1>1, <2>1 DEF FormatInv, SetAlready, InOut, frames
  <2>7. StaleInv' BY <1>1, <2>1 DEF StaleInv, InOut
  <2> QED BY <1>2, <2>2, <2>3, <2>4, <2>5, <2>6, <2>7
<1>9. CASE DecoderWoken
  <2>1. /\ UNCHANGED <<free, out, held, format, driver, input, opened, want, waiters, stale>>
        /\ pcD \in {"openWait", "closeWait"} /\ "decoder" \notin waiters
        /\ pcD' \in {"opening", "closing"}
    BY <1>9 DEF DecoderWoken, fifos, port
  <2>2. Types' BY <1>1, <2>1 DEF Types
  <2>3. HoldInv' BY <1>1, <2>1 DEF HoldInv
  <2>4. OpenInv' BY <2>1 DEF OpenInv
  <2>5. NoSamples' /\ FormatInv' BY <1>1, <2>1, SamplesStay DEF Settled, InOut
  <2>6. StaleInv' BY <1>1, <2>1 DEF StaleInv, InOut
  <2> QED BY <1>2, <2>2, <2>3, <2>4, <2>5, <2>6
<1>10. CASE DecoderSets
  <2>1. /\ UNCHANGED <<free, out, held, format, want, waiters, stale>>
        /\ pcD \in {"opening", "closing"} /\ pcD' = "idle"
        /\ driver' \in BOOLEAN /\ opened' = driver'
        /\ \/ input' = want
           \/ input' = input /\ opened' = FALSE
    BY <1>10 DEF DecoderSets, ChangeSettings, fifos
  <2>2. InOut' \cap frames' = {} BY <1>1, <2>1 DEF NoSamples, Settled, InOut, frames
  <2>3. Types' BY <1>1, <2>1 DEF Types
  <2>4. HoldInv' BY <1>1, <2>1 DEF HoldInv
  <2>5. OpenInv' BY <2>1 DEF OpenInv
  <2>6. NoSamples' /\ FormatInv' BY <2>1, <2>2 DEF NoSamples, FormatInv
  <2>7. StaleInv' BY <1>1, <2>1 DEF StaleInv, InOut
  <2> QED BY <1>2, <2>3, <2>4, <2>5, <2>6, <2>7
<1> QED BY <1>4, <1>5, <1>6, <1>7, <1>8, <1>9, <1>10 DEF Decoder
-----------------------------------------------------------------------------
(* The threads that discard and flush.  Most of their steps move no buffer. *)
LEMMA UserFrame ==
  ASSUME IInv, NEW u \in Users, NEW l \in UserPC,
         UNCHANGED <<free, out, held, inBuf, format, driver, input, opened, want, stale, pcL, pcD>>,
         pcU' = [pcU EXCEPT ![u] = l], l # "append",
         waiters' = waiters \/ waiters' = waiters \cup {u},
         l = "drainWait" => u \in waiters',
         discard' \in Int, tmp' \in [Users -> Int \cup {Nil}],
         \A v \in Users : tmp'[v] # Nil => pcU'[v] \in ChangePC,
         LockInv',
         l = "lowerFlush" => stale = {}
  PROVE  IInv'
<1> USE DEF IInv
<1>1. /\ pcU' \in [Users -> UserPC] /\ pcU'[u] = l
      /\ \A v \in Users : v # u => pcU'[v] = pcU[v]
  BY DEF Types
<1>2. InOut' = InOut BY DEF InOut
<1>3. Types' BY <1>1 DEF Types
<1>4. LoopInv' /\ OpenInv' BY DEF LoopInv, OpenInv
<1>5. HoldInv' BY <1>1 DEF HoldInv
<1>6. NoSamples' /\ FormatInv'
  <2>1. "decoder" \in waiters' <=> "decoder" \in waiters OBVIOUS
  <2> QED BY <1>2, <2>1, SamplesStay DEF Settled
<1>7. StaleInv' BY <1>1, <1>2 DEF StaleInv
<1> QED BY <1>3, <1>4, <1>5, <1>6, <1>7

LEMMA UserPCs ==
  /\ ChangePC \cup InFlush \cup {"idle", "call", "engine"} = UserPC
  BY ChangeFacts DEF UserPC

LEMMA UserStep ==
  ASSUME IInv, Spread, NEW u \in Users,
         \/ BeginCall(u) \/ BeginEngine(u) \/ EndCall(u) \/ ChangeReads(u)
         \/ ChangeWrites(u) \/ FlushBegins(u) \/ Flush(u)
  PROVE  IInv'
<1> USE DEF IInv
<1>0. /\ pcU \in [Users -> UserPC] /\ discard \in Int /\ tmp \in [Users -> Int \cup {Nil}]
      /\ \A v \in Users : tmp[v] # Nil => pcU[v] \in ChangePC
      /\ u \in Threads
  BY DEF Types, HoldInv, Threads
<1>1. CASE BeginCall(u)
  <2>1. /\ UNCHANGED <<free, out, held, inBuf, format, driver, input, opened, want, stale, pcL, pcD,
                       waiters, discard, tmp, demuxLock>>
        /\ pcU' = [pcU EXCEPT ![u] = "raiseCall"]
    BY <1>1 DEF BeginCall, Goto, fifos, count, port, loop, dec
  <2>2. LockInv' BY <1>0, <2>1 DEF LockInv, InFlush
  <2>3. "raiseCall" \in UserPC BY UserPCs DEF ChangePC
  <2>4. \A v \in Users : tmp'[v] # Nil => pcU'[v] \in ChangePC
    BY <1>0, <2>1 DEF ChangePC
  <2> QED BY <1>0, <2>1, <2>2, <2>3, <2>4, UserFrame
<1>2. CASE BeginEngine(u)
  <2>1. /\ UNCHANGED <<free, out, held, inBuf, format, driver, input, opened, want, stale, pcL, pcD,
                       waiters, discard, tmp>>
        /\ demuxLock = Nil /\ demuxLock' = u
        /\ pcU' = [pcU EXCEPT ![u] = "raiseFlush"]
    BY <1>2 DEF BeginEngine, Goto, fifos, count, port, loop, dec
  <2>2. LockInv' BY <1>0, <2>1 DEF LockInv, InFlush
  <2>3. "raiseFlush" \in UserPC BY UserPCs DEF ChangePC
  <2>4. \A v \in Users : tmp'[v] # Nil => pcU'[v] \in ChangePC
    BY <1>0, <2>1 DEF ChangePC
  <2> QED BY <1>0, <2>1, <2>2, <2>3, <2>4, UserFrame
<1>3. CASE EndCall(u)
  <2>1. /\ UNCHANGED <<free, out, held, inBuf, format, driver, input, opened, want, stale, pcL, pcD,
                       waiters, discard, tmp, demuxLock>>
        /\ pcU' = [pcU EXCEPT ![u] = "lowerCall"]
    BY <1>3 DEF EndCall, Goto, fifos, count, port, loop, dec
  <2>2. LockInv' BY <1>0, <2>1 DEF LockInv, InFlush
  <2>3. "lowerCall" \in UserPC BY UserPCs DEF ChangePC
  <2>4. \A v \in Users : tmp'[v] # Nil => pcU'[v] \in ChangePC
    BY <1>0, <2>1 DEF ChangePC
  <2> QED BY <1>0, <2>1, <2>2, <2>3, <2>4, UserFrame
<1>4. CASE ChangeReads(u)
  <2>1. /\ UNCHANGED <<free, out, held, inBuf, format, driver, input, opened, want, stale, pcL, pcD,
                       waiters, discard, demuxLock, pcU>>
        /\ pcU[u] \in ChangePC
        /\ tmp' = [tmp EXCEPT ![u] = discard]
    BY <1>4, ChangeFacts DEF ChangeReads, fifos, port, loop, dec, users
  <2>2. Types' BY <1>0, <2>1 DEF Types
  <2>3. LoopInv' /\ OpenInv' /\ LockInv' BY <2>1 DEF LoopInv, OpenInv, LockInv
  <2>4. HoldInv' BY <1>0, <2>1 DEF HoldInv
  <2>5. NoSamples' /\ FormatInv' BY <2>1, SamplesStay DEF Settled, InOut
  <2>6. StaleInv' BY <2>1 DEF StaleInv, InOut
  <2> QED BY <2>2, <2>3, <2>4, <2>5, <2>6
<1>5. CASE ChangeWrites(u)
  <2> DEFINE next == CASE pcU[u] = "raiseCall"  -> "call"
                       [] pcU[u] = "raiseFlush" -> "engine"
                       [] pcU[u] = "raiseAo"    -> "reach"
                       [] pcU[u] = "lowerAo"    -> "drain"
                       [] pcU[u] = "lowerFlush" -> IF u \in outer THEN "lowerCall" ELSE "idle"
                       [] pcU[u] = "lowerCall"  -> "idle"
  <2>1. /\ UNCHANGED <<free, out, held, inBuf, format, driver, input, opened, want, stale, pcL, pcD,
                       waiters>>
        /\ tmp[u] # Nil /\ tmp' = [tmp EXCEPT ![u] = Nil]
        /\ discard' = tmp[u] + Change[pcU[u]]
        /\ demuxLock' = IF pcU[u] = "lowerFlush" THEN Nil ELSE demuxLock
        /\ pcU' = [pcU EXCEPT ![u] = next]
    BY <1>5 DEF ChangeWrites, Goto, fifos, port, loop, dec
  <2>2. pcU[u] \in ChangePC BY <1>0, <2>1
  <2>3. /\ next \in {"call", "engine", "reach", "drain", "lowerCall", "idle"}
        /\ next \in {"engine"} \cup InFlush =>
             pcU[u] \in {"raiseFlush", "raiseAo", "lowerAo"}
    BY <2>2 DEF ChangePC, InFlush
  <2> HIDE DEF next
  <2>4. next \in UserPC BY <2>3, UserPCs DEF ChangePC, InFlush
  <2>5. tmp[u] \in Int /\ Change[pcU[u]] \in Int BY <1>0, <2>1, <2>2, ChangeFacts
  <2>6. discard' \in Int /\ tmp' \in [Users -> Int \cup {Nil}]
    BY <1>0, <2>1, <2>5
  <2>7. \A v \in Users : tmp'[v] # Nil => pcU'[v] \in ChangePC BY <1>0, <2>1
  <2>8. LockInv'
    <3> SUFFICES ASSUME NEW v \in Users, pcU'[v] \in {"raiseFlush", "engine"} \cup InFlush
                 PROVE demuxLock' = v
      BY DEF LockInv
    <3>1. CASE v = u
      <4>1. pcU[u] \in {"raiseFlush", "raiseAo", "lowerAo"}
        BY <1>0, <2>1, <2>3, <3>1
      <4> QED BY <2>1, <3>1, <4>1 DEF LockInv, InFlush
    <3>2. CASE v # u
      <4>1. pcU[v] \in {"raiseFlush", "engine"} \cup InFlush /\ demuxLock = v
        BY <1>0, <2>1, <3>2 DEF LockInv
      <4>2. pcU[u] # "lowerFlush" BY <3>2, <4>1 DEF LockInv, InFlush
      <4> QED BY <2>1, <4>1, <4>2
    <3> QED BY <3>1, <3>2
  <2> QED BY <2>1, <2>3, <2>4, <2>6, <2>7, <2>8, UserFrame
<1>6. CASE FlushBegins(u)
  <2>1. /\ UNCHANGED <<free, out, held, inBuf, format, driver, input, opened, want, pcL, pcD,
                       waiters, discard, tmp, demuxLock>>
        /\ pcU[u] = "engine" /\ stale' = InOut
        /\ pcU' = [pcU EXCEPT ![u] = "raiseAo"]
    BY <1>6 DEF FlushBegins, Goto, fifos, count, port, loop, dec
  <2>2. "raiseAo" \in UserPC BY UserPCs DEF ChangePC
  <2>3. demuxLock = u BY <2>1 DEF LockInv
  <2>4. Types' BY <1>0, <2>1, <2>2 DEF Types
  <2>5. LoopInv' /\ OpenInv' BY <2>1 DEF LoopInv, OpenInv
  <2>6. LockInv' BY <1>0, <2>1, <2>3 DEF LockInv
  <2>7. HoldInv' BY <1>0, <2>1 DEF HoldInv, ChangePC
  <2>8. InOut' = InOut BY <2>1 DEF InOut
  <2>9. NoSamples' /\ FormatInv' BY <2>1, <2>8, SamplesStay DEF Settled
  <2>10. \A v \in Users : pcU'[v] \notin {"drainWait", "lowerFlush"}
    BY <1>0, <2>1, <2>3 DEF LockInv, InFlush
  <2>11. StaleInv' BY <2>1, <2>8, <2>10 DEF StaleInv
  <2> QED BY <2>4, <2>5, <2>6, <2>7, <2>9, <2>11
<1>7. ASSUME NEW l \in InFlush \cup {"lowerFlush"}, pcU[u] \in InFlush,
             UNCHANGED <<free, out, held, inBuf, format, driver, input, opened, want, stale, pcL, pcD,
                         discard, tmp, demuxLock>>,
             pcU' = [pcU EXCEPT ![u] = l], l # "append", tmp[u] = Nil \/ l \in ChangePC,
             waiters' = waiters \/ waiters' = waiters \cup {u},
             l = "drainWait" => u \in waiters', l = "lowerFlush" => stale = {}
      PROVE  IInv'
  <2>1. l \in UserPC BY UserPCs DEF ChangePC
  <2>2. \A v \in Users : tmp'[v] # Nil => pcU'[v] \in ChangePC BY <1>0, <1>7
  <2>3. LockInv' BY <1>0, <1>7 DEF LockInv, InFlush
  <2>4. discard' \in Int /\ tmp' \in [Users -> Int \cup {Nil}] BY <1>0, <1>7
  <2> QED BY <1>7, <2>1, <2>2, <2>3, <2>4, UserFrame
<1>8. CASE FlushTests(u)
  <2>1. PICK l \in {"getFree", "lowerAo"} : pcU' = [pcU EXCEPT ![u] = l]
    BY <1>8 DEF FlushTests, Goto
  <2>2. /\ UNCHANGED <<free, out, held, inBuf, format, driver, input, opened, want, stale, pcL, pcD,
                       discard, tmp, demuxLock, waiters>>
        /\ pcU[u] = "reach"
    BY <1>8 DEF FlushTests, fifos, count, port, loop, dec
  <2>3. tmp[u] = Nil BY <1>0, <2>2 DEF ChangePC
  <2> QED BY <1>7, <2>1, <2>2, <2>3 DEF InFlush
<1>9. CASE FlushGets(u)
  <2>1. CASE SleepFree(u)
    <3>1. UNCHANGED Told
      BY <2>1 DEF SleepFree, Told, count, flush, port, loop, dec, users
    <3> QED BY <3>1, Still
  <2>2. CASE ~SleepFree(u)
    <3>1. /\ RemoveFree(u) /\ pcU[u] = "getFree" /\ pcU' = [pcU EXCEPT ![u] = "append"]
          /\ UNCHANGED <<out, inBuf, format, driver, input, opened, want, waiters, stale, pcL, pcD,
                         discard, tmp, demuxLock>>
      BY <1>9, <2>2 DEF FlushGets, Goto, count, port, loop, dec
    <3>2. /\ free' \in Seq(Buffers) /\ held' \in [Threads -> Buffers \cup {Nil}]
          /\ held'[u] \in Buffers
          /\ \A v \in Threads : v # u => held'[v] = held[v]
      BY <1>0, <3>1, RemoveFacts
    <3>3. "append" \in UserPC BY UserPCs DEF InFlush
    <3>4. Types' BY <1>0, <3>1, <3>2, <3>3 DEF Types
    <3>5. LoopInv' /\ OpenInv' BY <3>1 DEF LoopInv, OpenInv
    <3>6. LockInv' BY <1>0, <3>1 DEF LockInv, InFlush
    <3>7. HoldInv'
      <4>1. "decoder" \in Threads /\ Users \subseteq Threads BY DEF Threads
      <4>2. tmp[u] = Nil BY <1>0, <3>1 DEF ChangePC
      <4> QED BY <1>0, <3>1, <3>2, <4>1, <4>2 DEF HoldInv
    <3>8. NoSamples' /\ FormatInv'
      <4>1. "decoder" \in Threads /\ "decoder" # u BY DEF Threads
      <4> QED BY <3>1, <3>2, <4>1, SamplesStay DEF Settled, InOut
    <3>9. StaleInv' BY <1>0, <3>1 DEF StaleInv, InOut
    <3> QED BY <3>4, <3>5, <3>6, <3>7, <3>8, <3>9
  <2> QED BY <2>1, <2>2
<1>10. CASE FlushAppends(u)
  <2>1. /\ UNCHANGED <<free, inBuf, driver, input, opened, want, waiters, stale, pcL, pcD,
                       discard, tmp, demuxLock>>
        /\ pcU[u] = "append" /\ pcU' = [pcU EXCEPT ![u] = "timed"]
        /\ AppendOut(held[u]) /\ format' = [format EXCEPT ![held[u]] = Nil]
        /\ held' = [held EXCEPT ![u] = Nil]
    BY <1>10 DEF FlushAppends, Goto, count, port, loop, dec
  <2>2. held[u] \in Buffers BY <1>0, <2>1 DEF HoldInv, Types
  <2>3. out' \in Seq(Buffers) /\ InOut' = InOut \cup {held[u]}
    BY <2>1, <2>2, AppendOutFacts DEF Types
  <2>4. "timed" \in UserPC BY UserPCs DEF InFlush
  <2>5. NoSamples' /\ FormatInv' /\ format' \in [Buffers -> Formats \cup {Nil}]
    <3>1. u \in Threads /\ u # "decoder" BY DEF Threads
    <3> QED BY <2>1, <2>2, <2>3, <3>1, EmptyPut
  <2>6. LoopInv' /\ OpenInv' BY <2>1 DEF LoopInv, OpenInv
  <2>7. LockInv' BY <1>0, <2>1 DEF LockInv, InFlush
  <2>8. HoldInv'
    <3>1. "decoder" \in Threads /\ Users \subseteq Threads /\ "decoder" # u BY DEF Threads
    <3>2. \A t \in Threads : t # u => held'[t] = held[t] BY <1>0, <2>1 DEF Types
    <3>3. tmp[u] = Nil BY <1>0, <2>1 DEF ChangePC
    <3> QED BY <1>0, <2>1, <3>1, <3>2, <3>3 DEF HoldInv
  <2>9. Types' BY <1>0, <2>1, <2>3, <2>4, <2>5 DEF Types
  <2>10. StaleInv' BY <1>0, <2>1, <2>3 DEF StaleInv
  <2> QED BY <2>5, <2>6, <2>7, <2>8, <2>9, <2>10
<1>11. CASE FlushWakes(u)
  <2>1. /\ UNCHANGED <<free, out, held, inBuf, format, driver, input, opened, want, stale, pcL, pcD,
                       discard, tmp, demuxLock, waiters>>
        /\ pcU[u] = "timed" /\ pcU' = [pcU EXCEPT ![u] = "reach"]
    BY <1>11 DEF FlushWakes, Goto, fifos, count, port, loop, dec
  <2>2. tmp[u] = Nil BY <1>0, <2>1 DEF ChangePC
  <2> QED BY <1>7, <2>1, <2>2 DEF InFlush
<1>12. CASE FlushDrains(u)
  <2>1. /\ UNCHANGED <<free, out, held, inBuf, format, driver, input, opened, want, stale, pcL, pcD,
                       discard, tmp, demuxLock>>
        /\ waiters' = waiters \cup {u}
        /\ pcU[u] = "drain" /\ pcU' = [pcU EXCEPT ![u] = "drainWait"]
    BY <1>12 DEF FlushDrains, WaitEmpty, Goto, count, port, loop, dec
  <2>2. tmp[u] = Nil BY <1>0, <2>1 DEF ChangePC
  <2> QED BY <1>7, <2>1, <2>2 DEF InFlush
<1>13. CASE FlushEnds(u)
  <2>1. /\ UNCHANGED <<free, out, held, inBuf, format, driver, input, opened, want, stale, pcL, pcD,
                       discard, tmp, demuxLock, waiters>>
        /\ pcU[u] = "drainWait" /\ u \notin waiters
        /\ pcU' = [pcU EXCEPT ![u] = "lowerFlush"]
    BY <1>13 DEF FlushEnds, Goto, fifos, count, port, loop, dec
  <2>2. stale = {} BY <2>1 DEF StaleInv
  <2> QED BY <1>7, <2>1, <2>2 DEF InFlush, ChangePC
<1> QED BY <1>1, <1>2, <1>3, <1>4, <1>5, <1>6, <1>8, <1>9, <1>10, <1>11, <1>12, <1>13
        DEF Flush
-----------------------------------------------------------------------------
(* The user who changes the speed, and ao_exit                             *)
LEMMA ExitStep == IInv /\ Spread /\ (SetSpeed \/ ExitBegins \/ Exit) => IInv'
<1> SUFFICES ASSUME IInv, Spread, SetSpeed \/ ExitBegins \/ Exit PROVE IInv'
  OBVIOUS
<1> USE DEF IInv
<1>1. CASE SetSpeed \/ ExitBegins \/ ExitJoins
  <2>1. UNCHANGED Told
    BY <1>1 DEF SetSpeed, ExitBegins, ExitJoins, Told, fifos, count, loop, dec, users, port
  <2> QED BY <2>1, Still
<1>2. CASE ExitGets
  <2>1. CASE SleepFree("exit")
    <3>1. UNCHANGED Told
      BY <2>1 DEF SleepFree, Told, count, flush, port, loop, dec, users
    <3> QED BY <3>1, Still
  <2>2. CASE ~SleepFree("exit")
    <3>1. /\ RemoveFree("exit")
          /\ UNCHANGED <<out, inBuf, format, driver, input, opened, want, waiters, stale, pcL, pcD, pcU,
                         discard, tmp, demuxLock>>
      BY <1>2, <2>2 DEF ExitGets, count, port, loop, dec, users
    <3>2. /\ free' \in Seq(Buffers) /\ held' \in [Threads -> Buffers \cup {Nil}]
          /\ \A v \in Threads : v # "exit" => held'[v] = held[v]
      BY <3>1, RemoveFacts DEF Threads
    <3>3. Types' BY <3>1, <3>2 DEF Types
    <3>4. LoopInv' /\ OpenInv' /\ LockInv' BY <3>1 DEF LoopInv, OpenInv, LockInv
    <3>5. HoldInv' BY <3>1, <3>2 DEF HoldInv, Threads
    <3>6. NoSamples' /\ FormatInv'
      <4>1. "decoder" \in Threads BY DEF Threads
      <4> QED BY <3>1, <3>2, <4>1, SamplesStay DEF Settled, InOut
    <3>7. StaleInv' BY <3>1 DEF InOut, StaleInv
    <3> QED BY <3>3, <3>4, <3>5, <3>6, <3>7
  <2> QED BY <2>1, <2>2
<1>3. CASE ExitAppends
  <2>1. /\ UNCHANGED <<free, inBuf, driver, input, opened, want, waiters, stale, pcL, pcD, pcU,
                       discard, tmp, demuxLock>>
        /\ held["exit"] # Nil
        /\ AppendOut(held["exit"]) /\ format' = [format EXCEPT ![held["exit"]] = Nil]
        /\ held' = [held EXCEPT !["exit"] = Nil]
    BY <1>3 DEF ExitAppends, count, port, loop, dec, users
  <2>2. held["exit"] \in Buffers BY <2>1 DEF Types, Threads
  <2>3. out' \in Seq(Buffers) /\ InOut' = InOut \cup {held["exit"]}
    BY <2>1, <2>2, AppendOutFacts DEF Types
  <2>4. NoSamples' /\ FormatInv' /\ format' \in [Buffers -> Formats \cup {Nil}]
    <3>1. "exit" \in Threads /\ "exit" # "decoder" BY DEF Threads
    <3> QED BY <2>1, <2>2, <2>3, <3>1, EmptyPut
  <2>5. LoopInv' /\ OpenInv' /\ LockInv' BY <2>1 DEF LoopInv, OpenInv, LockInv
  <2>6. HoldInv'
    <3>1. \A t \in Users \cup {"decoder"} : t # "exit" /\ t \in Threads BY DEF Threads
    <3>2. \A t \in Users \cup {"decoder"} : held'[t] = held[t]
      BY <2>1, <3>1 DEF Types
    <3> QED BY <2>1, <3>2 DEF HoldInv
  <2>7. Types' BY <2>1, <2>3, <2>4 DEF Types
  <2>8. StaleInv' BY <2>1, <2>3 DEF StaleInv
  <2> QED BY <2>4, <2>5, <2>6, <2>7, <2>8
<1> QED BY <1>1, <1>2, <1>3 DEF Exit
-----------------------------------------------------------------------------
LEMMA InitIInv == Init => IInv
<1> SUFFICES ASSUME Init PROVE IInv
  OBVIOUS
<1>1. SetToSeq(Buffers) \in Seq(Buffers)
  <2>1. PICK f \in [1..Cardinality(Buffers) -> Buffers] : IsInjective(f)
    <3>1. PICK n \in Nat : ExistsBijection(1..n, Buffers) BY FS_NatBijection
    <3>2. Cardinality(Buffers) = n BY <3>1, FS_CountingElements
    <3>3. PICK f \in Injection(1..n, Buffers) : TRUE
      BY <3>1 DEF ExistsBijection, Bijection
    <3>4. f \in [1..n -> Buffers] /\ IsInjective(f) BY <3>3 DEF Injection
    <3> QED BY <3>2, <3>4
  <2>2. SetToSeq(Buffers) \in [1..Cardinality(Buffers) -> Buffers]
    BY <2>1 DEF SetToSeq
  <2>3. Cardinality(Buffers) \in Nat BY FS_CardinalityType
  <2> QED BY <2>2, <2>3
<1>2. out = << >> /\ inBuf = Nil /\ InOut = {} BY DEF Init, InOut, ToSet
<1>3. "idle" \in UserPC BY UserPCs
<1>4. Types
  <2>1. free \in Seq(Buffers) /\ out \in Seq(Buffers) BY <1>1, <1>2 DEF Init
  <2>2. /\ held \in [Threads -> Buffers \cup {Nil}] /\ pcU \in [Users -> UserPC]
        /\ inBuf \in Buffers \cup {Nil} /\ format \in [Buffers -> Formats \cup {Nil}]
        /\ input \in Formats \cup {Nil} /\ want \in Formats \cup {Nil}
    BY <1>3 DEF Init
  <2>3. discard \in Int /\ tmp \in [Users -> Int \cup {Nil}] BY DEF Init
  <2>4. driver \in BOOLEAN /\ opened \in BOOLEAN BY DEF Init
  <2> QED BY <2>1, <2>2, <2>3, <2>4 DEF Types
<1>5. LoopInv /\ HoldInv /\ OpenInv
  BY DEF Init, LoopInv, HoldInv, OpenInv
<1>6. LockInv BY DEF Init, LockInv, InFlush
<1>7. NoSamples /\ FormatInv /\ StaleInv BY <1>2 DEF Init, NoSamples, FormatInv, StaleInv
<1> QED BY <1>4, <1>5, <1>6, <1>7 DEF IInv

LEMMA StepIInv == IInv /\ Spread /\ [Next]_vars => IInv'
<1> SUFFICES ASSUME IInv, Spread, [Next]_vars PROVE IInv'
  OBVIOUS
<1>1. CASE Loop BY <1>1, LoopStep
<1>2. CASE DecoderBegin \/ Decoder BY <1>2, DecoderStep
<1>3. CASE \E u \in Users : \/ BeginCall(u) \/ BeginEngine(u) \/ EndCall(u)
                            \/ ChangeReads(u) \/ ChangeWrites(u)
                            \/ FlushBegins(u) \/ Flush(u)
  BY <1>3, UserStep
<1>4. CASE SetSpeed \/ ExitBegins \/ Exit BY <1>4, ExitStep
<1>5. CASE UNCHANGED vars
  <2>1. UNCHANGED Told
    BY <1>5 DEF vars, Told, fifos, count, port, loop, dec, users
  <2> QED BY <2>1, Still
<1> QED BY <1>1, <1>2, <1>3, <1>4, <1>5 DEF Next
-----------------------------------------------------------------------------
(* The rest of the type invariant.                                          *)
RestTypes ==
  /\ sleepers \subseteq Threads /\ waiters \subseteq Threads /\ loopAsleep \in BOOLEAN
  /\ running \in BOOLEAN /\ paused \in 0..2
  /\ flushDriver \in 0..MaxFlush /\ flushLock \in Users \cup {Nil}
  /\ pcD \in {"idle", "get", "put", "putOut", "putFree",
              "open", "openWait", "opening", "close", "closeWait", "closing"}
  /\ outer \subseteq Users /\ demuxLock \in Users \cup {Nil}
  /\ pcX \in {"no", "get", "join", "gone"}

(* The bound is looked at with demux_lock, which one flush at a time has.  *)
Bounded ==
  \A u \in Users : pcU[u] \in {"raiseFlush", "engine", "raiseAo"} => flushDriver < MaxFlush

PlaceInv == Hands /\ Spread /\ RestTypes /\ Bounded
LEMMA AppendOnce ==
  ASSUME NEW q \in Seq(Buffers), NEW b \in Buffers, IsInjective(q), b \notin ToSet(q)
  PROVE  IsInjective(Append(q, b)) /\ ToSet(Append(q, b)) = ToSet(q) \cup {b}
<1> DEFINE r == Append(q, b)
<1>1. /\ Len(q) \in Nat /\ DOMAIN q = 1..Len(q) /\ DOMAIN r = 1..Len(q) + 1
      /\ r[Len(q) + 1] = b /\ \A i \in 1..Len(q) : r[i] = q[i]
  OBVIOUS
<1> HIDE DEF r
<1>2. ToSet(r) = ToSet(q) \cup {b} BY <1>1 DEF ToSet
<1>3. \A i \in 1..Len(q) : r[i] \in ToSet(q) BY <1>1 DEF ToSet
<1>4. \A i \in 1..Len(q) + 1 : i \in 1..Len(q) \/ i = Len(q) + 1 BY <1>1
<1>5. ASSUME NEW i \in DOMAIN r, NEW j \in DOMAIN r, r[i] = r[j] PROVE i = j
  <2>1. CASE i \in 1..Len(q) /\ j \in 1..Len(q) BY <1>1, <1>5, <2>1 DEF IsInjective
  <2>2. CASE ~(i \in 1..Len(q) /\ j \in 1..Len(q)) BY <1>1, <1>3, <1>4, <1>5, <2>2
  <2> QED BY <2>1, <2>2
<1> QED BY <1>2, <1>5 DEF IsInjective, r

LEMMA TakeOnce ==
  ASSUME NEW q \in Seq(Buffers), IsInjective(q), q # << >>
  PROVE  /\ Head(q) \in Buffers /\ Head(q) \in ToSet(q)
         /\ IsInjective(Tail(q)) /\ ToSet(Tail(q)) = ToSet(q) \ {Head(q)}
<1> DEFINE r == Tail(q)
<1>1. /\ Len(q) \in Nat /\ Len(q) >= 1 /\ DOMAIN q = 1..Len(q)
      /\ Head(q) = q[1] /\ Head(q) \in Buffers
      /\ DOMAIN r = 1..Len(q) - 1 /\ \A i \in 1..Len(q) - 1 : r[i] = q[i + 1]
  OBVIOUS
<1> HIDE DEF r
<1>2. Head(q) \in ToSet(q) BY <1>1 DEF ToSet
<1>3. ASSUME NEW i \in DOMAIN r, NEW j \in DOMAIN r, r[i] = r[j] PROVE i = j
  <2>1. i + 1 \in DOMAIN q /\ j + 1 \in DOMAIN q /\ q[i + 1] = q[j + 1] BY <1>1, <1>3
  <2>2. i + 1 = j + 1 BY <2>1 DEF IsInjective
  <2> QED BY <1>1, <2>2
<1>4. ASSUME NEW i \in DOMAIN r PROVE r[i] \in ToSet(q) \ {Head(q)}
  <2>1. i + 1 \in DOMAIN q /\ i + 1 # 1 /\ 1 \in DOMAIN q /\ r[i] = q[i + 1] BY <1>1, <1>4
  <2> QED BY <1>1, <2>1 DEF IsInjective, ToSet
<1>5. ASSUME NEW i \in DOMAIN q, q[i] # Head(q) PROVE q[i] \in ToSet(r)
  <2>1. i - 1 \in DOMAIN r /\ r[i - 1] = q[i] BY <1>1, <1>5
  <2> QED BY <2>1 DEF ToSet
<1>6. ToSet(r) \subseteq ToSet(q) \ {Head(q)} BY <1>4 DEF ToSet
<1>7. ToSet(q) \ {Head(q)} \subseteq ToSet(r) BY <1>5 DEF ToSet
<1> QED BY <1>1, <1>2, <1>3, <1>6, <1>7 DEF IsInjective, r
-----------------------------------------------------------------------------
(* How buffers move.                                                       *)
LEMMA MoveBack ==
  ASSUME Types, Spread, inBuf # Nil, Release, UNCHANGED <<out, held>>
  PROVE  Spread'
<1>1. /\ free \in Seq(Buffers) /\ inBuf \in Buffers /\ inBuf' = Nil
      /\ free' = Append(free, inBuf)
  BY DEF Types, Release, AppendFree
<1>2. IsInjective(free') /\ ToSet(free') = ToSet(free) \cup {inBuf}
  BY <1>1, AppendOnce DEF Spread
<1>3. ToSet(free') \subseteq Buffers /\ ToSet(out) \subseteq Buffers
  BY <1>1, <1>2 DEF Types, ToSet
<1> QED BY <1>1, <1>2, <1>3 DEF Spread, Held

LEMMA MoveIn ==
  ASSUME Types, Spread, inBuf = Nil, out # << >>, inBuf' = Head(out), out' = Tail(out),
         UNCHANGED <<free, held>>
  PROVE  Spread'
<1>1. /\ Head(out) \in Buffers /\ Head(out) \in ToSet(out)
      /\ IsInjective(out') /\ ToSet(out') = ToSet(out) \ {Head(out)}
  BY TakeOnce DEF Types, Spread
<1> QED BY <1>1 DEF Spread, Held

LEMMA MoveTake ==
  ASSUME Types, Spread, NEW t \in Threads, held[t] = Nil, RemoveFree(t),
         UNCHANGED <<out, inBuf>>
  PROVE  Spread'
<1>1. /\ Head(free) \in Buffers /\ Head(free) \in ToSet(free)
      /\ IsInjective(free') /\ ToSet(free') = ToSet(free) \ {Head(free)}
  BY TakeOnce DEF Types, Spread, RemoveFree
<1>2. /\ held' = [held EXCEPT ![t] = Head(free)] /\ held'[t] = Head(free)
      /\ \A u \in Threads : u # t => held'[u] = held[u]
  BY DEF RemoveFree, Types
<1>3. \A u \in Threads : held[u] # Head(free) BY <1>1 DEF Spread, Held
<1>4. \A b \in Buffers : Held(b)' <=> Held(b) \/ b = Head(free)
  BY <1>1, <1>2, <1>3 DEF Held
<1>5. \A u, v \in Threads : held'[u] = held'[v] /\ held'[u] # Nil => u = v
  BY <1>2, <1>3 DEF Spread
<1> QED BY <1>1, <1>4, <1>5 DEF Spread

LEMMA MovePut ==
  ASSUME Types, Spread, NEW t \in Threads, NEW b \in Buffers, held[t] = b,
         \/ free' = Append(free, b) /\ UNCHANGED out
         \/ out' = Append(out, b) /\ UNCHANGED free,
         held' = [held EXCEPT ![t] = Nil], UNCHANGED inBuf
  PROVE  Spread'
<1>1. /\ b \notin ToSet(free) \cup ToSet(out) \cup {inBuf}
      /\ free \in Seq(Buffers) /\ out \in Seq(Buffers)
  BY DEF Spread, Held, Types
<1>2. held'[t] = Nil /\ \A u \in Threads : u # t => held'[u] = held[u]
  BY DEF Types
<1>3. \A u \in Threads : u # t => held[u] # b BY DEF Spread
<1>4. \A c \in Buffers : Held(c)' <=> Held(c) /\ c # b
  BY <1>2, <1>3 DEF Held
<1>5. \A u, v \in Threads : held'[u] = held'[v] /\ held'[u] # Nil => u = v
  BY <1>2 DEF Spread
<1>6. CASE free' = Append(free, b) /\ UNCHANGED out
  <2>1. IsInjective(free') /\ ToSet(free') = ToSet(free) \cup {b}
    BY <1>1, <1>6, AppendOnce DEF Spread
  <2> QED BY <1>1, <1>4, <1>5, <1>6, <2>1 DEF Spread
<1>7. CASE out' = Append(out, b) /\ UNCHANGED free
  <2>1. IsInjective(out') /\ ToSet(out') = ToSet(out) \cup {b}
    BY <1>1, <1>7, AppendOnce DEF Spread
  <2> QED BY <1>1, <1>4, <1>5, <1>7, <2>1 DEF Spread
<1> QED BY <1>6, <1>7
LEMMA MoveNone == ASSUME Spread, UNCHANGED <<free, out, held, inBuf>> PROVE Spread'
  BY DEF Spread, Held

LEMMA SpreadLoop == ASSUME IInv, Spread, Loop PROVE Spread'
<1>1. Types /\ LoopInv /\ UNCHANGED held
  BY DEF IInv, Loop, LoopTop, LoopSleep, LoopGet, LoopFlush, LoopPause, LoopSettings,
         LoopOutput, LoopKeep
<1>2. CASE LoopGet BY <1>1, <1>2, MoveIn DEF LoopGet, LoopInv
<1>3. CASE ~LoopGet
  <2>1. UNCHANGED <<out, held>> /\ (UNCHANGED <<free, inBuf>> \/ (inBuf # Nil /\ Release))
    BY <1>1, <1>3 DEF LoopInv, Loop, LoopTop, LoopSleep, LoopFlush, LoopPause,
       LoopSettings, LoopOutput, LoopKeep, fifos, loop
  <2> QED BY <1>1, <2>1, MoveBack, MoveNone
<1> QED BY <1>2, <1>3

LEMMA SpreadDecoder == ASSUME IInv, Hands, Spread, DecoderBegin \/ Decoder PROVE Spread'
<1>1. Types /\ HoldInv /\ "decoder" \in Threads BY DEF IInv, Threads
<1>2. CASE GetBuffer
  BY <1>1, <1>2, MoveNone, MoveTake DEF GetBuffer, SleepFree, Hands, loop
<1>3. CASE PutBuffer
  <2>1. held["decoder"] \in Buffers BY <1>1, <1>3 DEF PutBuffer, HoldInv, Types
  <2>2. /\ \/ free' = Append(free, held["decoder"]) /\ UNCHANGED out
           \/ out' = Append(out, held["decoder"]) /\ UNCHANGED free
        /\ held' = [held EXCEPT !["decoder"] = Nil] /\ UNCHANGED inBuf
    BY <1>3 DEF PutBuffer, AppendOut, AppendFree, loop
  <2> QED BY <1>1, <2>1, <2>2, MovePut
<1>4. CASE ~GetBuffer /\ ~PutBuffer
  <2>1. UNCHANGED <<free, out, held, inBuf>>
    BY <1>4 DEF Decoder, DecoderBegin, PutReads, DecoderWaits, DecoderWoken, DecoderSets,
       fifos, loop
  <2> QED BY <2>1, MoveNone
<1> QED BY <1>2, <1>3, <1>4

LEMMA SpreadUser ==
  ASSUME IInv, Hands, Spread, NEW u \in Users,
         \/ BeginCall(u) \/ BeginEngine(u) \/ EndCall(u) \/ ChangeReads(u)
         \/ ChangeWrites(u) \/ FlushBegins(u) \/ Flush(u)
  PROVE  Spread'
<1>1. Types /\ HoldInv /\ u \in Threads BY DEF IInv, Threads
<1>2. CASE FlushGets(u)
  BY <1>1, <1>2, MoveNone, MoveTake DEF FlushGets, SleepFree, Hands, loop
<1>3. CASE FlushAppends(u)
  <2>1. held[u] \in Buffers BY <1>1, <1>3 DEF FlushAppends, HoldInv, Types
  <2>2. /\ out' = Append(out, held[u]) /\ UNCHANGED free
        /\ held' = [held EXCEPT ![u] = Nil] /\ UNCHANGED inBuf
    BY <1>3 DEF FlushAppends, AppendOut, loop
  <2> QED BY <1>1, <2>1, <2>2, MovePut
<1>4. CASE ~FlushGets(u) /\ ~FlushAppends(u)
  <2>1. UNCHANGED <<free, out, held, inBuf>>
    BY <1>4 DEF Flush, BeginCall, BeginEngine, EndCall, ChangeReads, ChangeWrites,
       FlushBegins, FlushTests, FlushWakes, FlushDrains, FlushEnds, WaitEmpty, fifos, loop
  <2> QED BY <2>1, MoveNone
<1> QED BY <1>2, <1>3, <1>4

LEMMA SpreadExit ==
  ASSUME IInv, Hands, Spread, SetSpeed \/ ExitBegins \/ Exit PROVE Spread'
<1>1. Types /\ "exit" \in Threads BY DEF IInv, Threads
<1>2. CASE ExitGets
  BY <1>1, <1>2, MoveNone, MoveTake DEF ExitGets, SleepFree, Hands, loop
<1>3. CASE ExitAppends
  <2>1. held["exit"] \in Buffers BY <1>1, <1>3 DEF ExitAppends, Types
  <2>2. /\ out' = Append(out, held["exit"]) /\ UNCHANGED free
        /\ held' = [held EXCEPT !["exit"] = Nil] /\ UNCHANGED inBuf
    BY <1>3 DEF ExitAppends, AppendOut, loop
  <2> QED BY <1>1, <2>1, <2>2, MovePut
<1>4. CASE ~ExitGets /\ ~ExitAppends
  <2>1. UNCHANGED <<free, out, held, inBuf>>
    BY <1>4 DEF Exit, SetSpeed, ExitBegins, ExitJoins, fifos, loop
  <2> QED BY <2>1, MoveNone
<1> QED BY <1>2, <1>3, <1>4

LEMMA SpreadStep == ASSUME IInv, Hands, Spread, [Next]_vars PROVE Spread'
<1>1. CASE Loop BY <1>1, SpreadLoop
<1>2. CASE DecoderBegin \/ Decoder BY <1>2, SpreadDecoder
<1>3. CASE \E u \in Users : \/ BeginCall(u) \/ BeginEngine(u) \/ EndCall(u)
                            \/ ChangeReads(u) \/ ChangeWrites(u)
                            \/ FlushBegins(u) \/ Flush(u)
  BY <1>3, SpreadUser
<1>4. CASE SetSpeed \/ ExitBegins \/ Exit BY <1>4, SpreadExit
<1>5. CASE UNCHANGED vars BY <1>5, MoveNone DEF vars, fifos, loop
<1> QED BY <1>1, <1>2, <1>3, <1>4, <1>5 DEF Next
-----------------------------------------------------------------------------
(* Who has a buffer in hand.                                               *)
LEMMA HandsStep == ASSUME IInv, Hands, [Next]_vars PROVE Hands'
<1>1. Types /\ "decoder" \in Threads /\ "exit" \in Threads /\ Users \subseteq Threads
      /\ "decoder" \notin Users /\ "exit" \notin Users /\ "exit" # "decoder"
  BY DEF IInv, Threads
<1>2. held \in [Threads -> Buffers \cup {Nil}] /\ pcU \in [Users -> UserPC]
  BY <1>1 DEF Types
<1>3. CASE UNCHANGED <<held, pcD, pcU, pcX>> BY <1>3 DEF Hands
<1>4. CASE Loop
  BY <1>3, <1>4 DEF Loop, LoopTop, LoopSleep, LoopGet, LoopFlush, LoopPause, LoopSettings,
     LoopOutput, LoopKeep, dec, users
<1>5. CASE DecoderBegin \/ Decoder
  <2>1. UNCHANGED <<pcU, pcX>>
    BY <1>5 DEF Decoder, DecoderBegin, GetBuffer, SleepFree, PutReads, PutBuffer,
       DecoderWaits, DecoderWoken, DecoderSets, users
  <2>2. \A t \in Threads : t # "decoder" => held'[t] = held[t]
    BY <1>2, <1>5 DEF Decoder, DecoderBegin, GetBuffer, SleepFree, RemoveFree, PutReads,
       PutBuffer, DecoderWaits, DecoderWoken, DecoderSets
  <2>3. pcD' \notin {"put", "putOut", "putFree"} => held'["decoder"] = Nil
    <3>1. CASE GetBuffer
      BY <1>3, <3>1 DEF GetBuffer, SleepFree, Hands, dec, users
    <3>2. CASE PutBuffer BY <1>1, <1>2, <3>2 DEF PutBuffer
    <3>3. CASE ~GetBuffer /\ ~PutBuffer
      <4>1. UNCHANGED held
        BY <1>5, <3>3 DEF Decoder, DecoderBegin, PutReads, DecoderWaits, DecoderWoken,
           DecoderSets
      <4>2. CASE DecoderBegin BY <4>1, <4>2 DEF Hands, DecoderBegin, DecoderCalls
      <4>3. CASE PutReads BY <4>3 DEF PutReads
      <4>4. CASE DecoderWaits \/ DecoderWoken \/ DecoderSets
        BY <4>1, <4>4 DEF Hands, DecoderWaits, DecoderWoken, DecoderSets
      <4> QED BY <1>5, <3>3, <4>2, <4>3, <4>4 DEF Decoder
    <3> QED BY <3>1, <3>2, <3>3
  <2> QED BY <1>1, <2>1, <2>2, <2>3 DEF Hands
<1>6. ASSUME NEW u \in Users,
             \/ BeginCall(u) \/ BeginEngine(u) \/ EndCall(u) \/ ChangeReads(u)
             \/ ChangeWrites(u) \/ FlushBegins(u) \/ Flush(u)
      PROVE  Hands'
  <2>1. UNCHANGED <<pcD, pcX>>
    BY <1>6 DEF Flush, BeginCall, BeginEngine, EndCall, ChangeReads, ChangeWrites,
       FlushBegins, FlushTests, FlushGets, SleepFree, FlushAppends, FlushWakes,
       FlushDrains, FlushEnds, dec
  <2>2. /\ \A t \in Threads : t # u => held'[t] = held[t]
        /\ \A v \in Users : v # u => pcU'[v] = pcU[v]
    BY <1>2, <1>6 DEF Flush, BeginCall, BeginEngine, EndCall, ChangeReads, ChangeWrites,
       FlushBegins, FlushTests, FlushGets, SleepFree, RemoveFree, FlushAppends, FlushWakes,
       FlushDrains, FlushEnds, Goto, users
  <2>3. pcU'[u] # "append" => held'[u] = Nil
    <3>1. CASE FlushGets(u)
      BY <1>2, <3>1 DEF FlushGets, SleepFree, Goto, Hands, users
    <3>2. CASE FlushAppends(u) BY <1>1, <1>2, <3>2 DEF FlushAppends
    <3>3. CASE ~FlushGets(u) /\ ~FlushAppends(u)
      <4>1. UNCHANGED held
        BY <1>6, <3>3 DEF Flush, BeginCall, BeginEngine, EndCall, ChangeReads,
           ChangeWrites, FlushBegins, FlushTests, FlushWakes, FlushDrains, FlushEnds
      <4>2. pcU[u] = "append" => UNCHANGED pcU
        <5>1. CASE ChangeReads(u) BY <5>1 DEF ChangeReads, users
        <5>2. CASE ChangeWrites(u)
          <6>1. pcU[u] \in ChangePC BY <5>2 DEF ChangeWrites, IInv, HoldInv
          <6> QED BY <6>1 DEF ChangePC
        <5>3. CASE ~ChangeReads(u) /\ ~ChangeWrites(u)
          BY <1>6, <3>3, <5>3 DEF Flush, BeginCall, BeginEngine, EndCall, FlushBegins,
             FlushTests, FlushWakes, FlushDrains, FlushEnds
        <5> QED BY <5>1, <5>2, <5>3
      <4> QED BY <4>1, <4>2 DEF Hands
    <3> QED BY <3>1, <3>2, <3>3
  <2> QED BY <1>1, <2>1, <2>2, <2>3 DEF Hands
<1>7. CASE SetSpeed \/ ExitBegins \/ Exit
  <2>1. UNCHANGED <<pcD, pcU>>
    BY <1>7 DEF Exit, SetSpeed, ExitBegins, ExitGets, SleepFree, ExitAppends, ExitJoins,
       dec, users
  <2>2. \A t \in Threads : t # "exit" => held'[t] = held[t]
    BY <1>2, <1>7 DEF Exit, SetSpeed, ExitBegins, ExitGets, SleepFree, RemoveFree,
       ExitAppends, ExitJoins
  <2>3. pcX' \in {"no", "get"} => held'["exit"] = Nil
    BY <1>7 DEF Hands, Exit, SetSpeed, ExitBegins, ExitGets, SleepFree, ExitAppends,
       ExitJoins
  <2> QED BY <1>1, <2>1, <2>2, <2>3 DEF Hands
<1>8. CASE UNCHANGED vars BY <1>3, <1>8 DEF vars, dec, users
<1> QED BY <1>4, <1>5, <1>6, <1>7, <1>8 DEF Next
-----------------------------------------------------------------------------
LEMMA LoopRest == ASSUME RestTypes, Loop PROVE RestTypes' /\ flushDriver' <= flushDriver
<1>0. flushDriver \in 0..MaxFlush /\ MaxFlush \in Nat BY FlushAssumption DEF RestTypes
<1>1. UNCHANGED <<running, paused, flushLock, pcD, outer, demuxLock, pcX>>
  BY DEF Loop, LoopTop, LoopSleep, LoopGet, LoopFlush, LoopPause, LoopSettings,
     LoopOutput, LoopKeep, port, dec, users, flush
<1>2. sleepers' \subseteq sleepers
  BY DEF Loop, LoopTop, LoopSleep, LoopGet, LoopFlush, LoopPause, LoopSettings,
     LoopOutput, LoopKeep, fifos, Release, AppendFree
<1>3. waiters' \subseteq waiters /\ loopAsleep' \in {loopAsleep, TRUE}
  BY DEF Loop, LoopTop, LoopSleep, LoopGet, LoopFlush, LoopPause, LoopSettings,
     LoopOutput, LoopKeep, fifos
<1>4. flushDriver' \in 0..MaxFlush /\ flushDriver' <= flushDriver
  <2>1. CASE LoopFlush BY <1>0, <2>1 DEF LoopFlush
  <2>2. CASE ~LoopFlush
    <3>1. UNCHANGED flushDriver
      BY <2>2 DEF Loop, LoopTop, LoopSleep, LoopGet, LoopPause, LoopSettings, LoopOutput,
         LoopKeep, flush
    <3> QED BY <1>0, <3>1
  <2> QED BY <2>1, <2>2
<1> QED BY <1>1, <1>2, <1>3, <1>4 DEF RestTypes

LEMMA DecoderRest ==
  ASSUME RestTypes, DecoderBegin \/ Decoder
  PROVE  RestTypes' /\ UNCHANGED <<flushDriver, pcU>>
<1>0. "decoder" \in Threads BY DEF Threads
<1>1. UNCHANGED <<running, paused, flushLock, flushDriver, pcU, outer, demuxLock, pcX>>
  BY DEF Decoder, DecoderBegin, GetBuffer, SleepFree, PutReads, PutBuffer, DecoderWaits,
     DecoderWoken, DecoderSets, port, users, flush
<1>2. sleepers' \subseteq sleepers \cup {"decoder"}
  BY DEF Decoder, DecoderBegin, GetBuffer, SleepFree, PutReads, PutBuffer, AppendFree,
     DecoderWaits, DecoderWoken, DecoderSets, fifos
<1>3. waiters' \subseteq waiters \cup {"decoder"} /\ loopAsleep' \in {loopAsleep, FALSE}
  BY DEF Decoder, DecoderBegin, GetBuffer, SleepFree, PutReads, PutBuffer, AppendOut,
     DecoderWaits, WaitEmpty, DecoderWoken, DecoderSets, fifos
<1>4. pcD' \in {"idle", "get", "put", "putOut", "putFree",
                "open", "openWait", "opening", "close", "closeWait", "closing"}
  <2>1. CASE DecoderBegin \/ PutReads BY <2>1 DEF DecoderBegin, PutReads
  <2>2. CASE GetBuffer BY <2>2 DEF GetBuffer, SleepFree, dec, RestTypes
  <2>3. CASE PutBuffer \/ DecoderWaits \/ DecoderWoken \/ DecoderSets
    BY <2>3 DEF PutBuffer, DecoderWaits, DecoderWoken, DecoderSets
  <2> QED BY <2>1, <2>2, <2>3 DEF Decoder
<1> QED BY <1>0, <1>1, <1>2, <1>3, <1>4 DEF RestTypes

LEMMA ExitRest ==
  ASSUME RestTypes, SetSpeed \/ ExitBegins \/ Exit
  PROVE  RestTypes' /\ UNCHANGED <<flushDriver, pcU>>
<1>0. "exit" \in Threads BY DEF Threads
<1>1. UNCHANGED <<flushLock, flushDriver, pcD, pcU, outer, demuxLock, waiters>>
  BY DEF Exit, SetSpeed, ExitBegins, ExitGets, SleepFree, ExitAppends, ExitJoins, dec,
     users, flush, fifos
<1>2. sleepers' \subseteq sleepers \cup {"exit"} /\ loopAsleep' \in {loopAsleep, FALSE}
  BY DEF Exit, SetSpeed, ExitBegins, ExitGets, SleepFree, ExitAppends, AppendOut,
     ExitJoins, fifos
<1>3. running' \in BOOLEAN /\ paused' \in 0..2
  <2>1. CASE SetSpeed
    <3>1. running' = running /\ paused' \in 0..2 BY <2>1 DEF SetSpeed
    <3> QED BY <3>1 DEF RestTypes
  <2>2. CASE ExitBegins
    <3>1. running' = FALSE /\ paused' = 0 BY <2>2 DEF ExitBegins
    <3>2. running' \in BOOLEAN BY <3>1
    <3>3. paused' \in 0..2 BY <3>1
    <3> QED BY <3>2, <3>3
  <2>3. CASE Exit
    <3>1. UNCHANGED <<running, paused>>
      BY <2>3 DEF Exit, ExitGets, SleepFree, ExitAppends, ExitJoins, port
    <3> QED BY <3>1 DEF RestTypes
  <2> QED BY <2>1, <2>2, <2>3
<1>4. pcX' \in {"no", "get", "join", "gone"}
  BY DEF RestTypes, Exit, SetSpeed, ExitBegins, ExitGets, SleepFree, ExitAppends,
     ExitJoins
<1> QED BY <1>0, <1>1, <1>2, <1>3, <1>4 DEF RestTypes

(* The bound on flush_audio_driver is looked at when a flush begins, and   *)
(* demux_lock keeps the next one from beginning until it has counted.      *)
LEMMA UserRest ==
  ASSUME IInv, RestTypes, Bounded, NEW u \in Users,
         \/ BeginCall(u) \/ BeginEngine(u) \/ EndCall(u) \/ ChangeReads(u)
         \/ ChangeWrites(u) \/ FlushBegins(u) \/ Flush(u)
  PROVE  RestTypes' /\ Bounded'
<1>0. /\ flushDriver \in 0..MaxFlush /\ MaxFlush \in Nat
      /\ pcU \in [Users -> UserPC] /\ u \in Threads
  BY FlushAssumption DEF RestTypes, IInv, Types, Threads
<1>1. UNCHANGED <<running, paused, pcD, pcX>>
  BY DEF Flush, BeginCall, BeginEngine, EndCall, ChangeReads, ChangeWrites, FlushBegins,
     FlushTests, FlushGets, SleepFree, FlushAppends, FlushWakes, FlushDrains, FlushEnds,
     dec, port
<1>2. sleepers' \subseteq sleepers \cup {u}
  BY DEF Flush, BeginCall, BeginEngine, EndCall, ChangeReads, ChangeWrites, FlushBegins,
     FlushTests, FlushGets, SleepFree, FlushAppends, FlushWakes, FlushDrains, FlushEnds,
     fifos
<1>3. waiters' \subseteq waiters \cup {u} /\ loopAsleep' \in {loopAsleep, FALSE}
  BY DEF Flush, BeginCall, BeginEngine, EndCall, ChangeReads, ChangeWrites, FlushBegins,
     FlushTests, FlushGets, SleepFree, FlushAppends, AppendOut, FlushWakes, FlushDrains,
     WaitEmpty, FlushEnds, fifos
<1>4. flushLock' \in {flushLock, u, Nil}
  BY DEF Flush, BeginCall, BeginEngine, EndCall, ChangeReads, ChangeWrites, FlushBegins,
     FlushTests, FlushGets, SleepFree, FlushAppends, FlushWakes, FlushDrains, FlushEnds,
     flush
<1>5. outer' \subseteq outer \cup {u} /\ demuxLock' \in {demuxLock, u, Nil}
  BY DEF Flush, BeginCall, BeginEngine, EndCall, ChangeReads, ChangeWrites, FlushBegins,
     FlushTests, FlushGets, SleepFree, FlushAppends, FlushWakes, FlushDrains, FlushEnds,
     users
<1>6. \A v \in Users : v # u => pcU'[v] = pcU[v]
  BY <1>0 DEF Flush, BeginCall, BeginEngine, EndCall, ChangeReads, ChangeWrites,
     FlushBegins, FlushTests, FlushGets, SleepFree, FlushAppends, FlushWakes, FlushDrains,
     FlushEnds, Goto, users
<1>7. flushDriver' \in 0..MaxFlush /\ Bounded'
  <2>1. CASE BeginEngine(u)
    <3>1. UNCHANGED flushDriver /\ flushDriver < MaxFlush BY <2>1 DEF BeginEngine, flush
    <3> QED BY <1>0, <1>6, <3>1 DEF Bounded
  <2>2. CASE ChangeWrites(u)
    <3>1. pcU[u] \in ChangePC BY <2>2 DEF ChangeWrites, IInv, HoldInv
    <3>2. CASE pcU[u] = "raiseAo"
      <4>1. flushDriver < MaxFlush /\ flushDriver' = flushDriver + 1 /\ pcU'[u] = "reach"
        BY <1>0, <2>2, <3>2 DEF ChangeWrites, Bounded, Goto
      <4>2. \A v \in Users : v # u => pcU[v] \notin {"raiseFlush", "engine", "raiseAo"}
        BY <3>2 DEF IInv, LockInv, InFlush
      <4>3. flushDriver' \in 0..MaxFlush BY <1>0, <4>1
      <4> QED BY <1>6, <4>1, <4>2, <4>3 DEF Bounded
    <3>3. CASE pcU[u] # "raiseAo"
      <4>1. UNCHANGED flushDriver BY <2>2, <3>3 DEF ChangeWrites
      <4>2. pcU'[u] \in {"raiseFlush", "engine", "raiseAo"} => pcU[u] = "raiseFlush"
        BY <1>0, <2>2, <3>1, <3>3 DEF ChangeWrites, Goto, ChangePC
      <4> QED BY <1>0, <1>6, <4>1, <4>2 DEF Bounded
    <3> QED BY <3>2, <3>3
  <2>3. CASE ~BeginEngine(u) /\ ~ChangeWrites(u)
    <3>1. UNCHANGED flushDriver
      BY <2>3 DEF Flush, BeginCall, EndCall, ChangeReads, FlushBegins, FlushTests,
         FlushGets, SleepFree, FlushAppends, FlushWakes, FlushDrains, FlushEnds, flush
    <3>2. pcU'[u] \in {"raiseFlush", "engine", "raiseAo"} =>
            pcU[u] \in {"raiseFlush", "engine", "raiseAo"}
      BY <1>0, <2>3 DEF Flush, BeginCall, EndCall, ChangeReads, FlushBegins, FlushTests,
         FlushGets, SleepFree, FlushAppends, FlushWakes, FlushDrains, FlushEnds, users, Goto
    <3> QED BY <1>0, <1>6, <3>1, <3>2 DEF Bounded
  <2> QED BY <2>1, <2>2, <2>3
<1> QED BY <1>0, <1>1, <1>2, <1>3, <1>4, <1>5, <1>7 DEF RestTypes

LEMMA RestStep ==
  ASSUME IInv, RestTypes, Bounded, [Next]_vars PROVE RestTypes' /\ Bounded'
<1>1. CASE Loop
  <2>1. RestTypes' /\ flushDriver' <= flushDriver BY <1>1, LoopRest
  <2>2. UNCHANGED pcU
    BY <1>1 DEF Loop, LoopTop, LoopSleep, LoopGet, LoopFlush, LoopPause, LoopSettings,
       LoopOutput, LoopKeep, users
  <2>3. flushDriver \in Int /\ flushDriver' \in Int /\ MaxFlush \in Int
    BY <2>1, FlushAssumption DEF RestTypes
  <2>4. \A u \in Users : flushDriver < MaxFlush => flushDriver' < MaxFlush BY <2>1, <2>3
  <2> QED BY <2>1, <2>2, <2>4 DEF Bounded
<1>2. CASE DecoderBegin \/ Decoder BY <1>2, DecoderRest DEF Bounded
<1>3. CASE \E u \in Users : \/ BeginCall(u) \/ BeginEngine(u) \/ EndCall(u)
                            \/ ChangeReads(u) \/ ChangeWrites(u)
                            \/ FlushBegins(u) \/ Flush(u)
  BY <1>3, UserRest
<1>4. CASE SetSpeed \/ ExitBegins \/ Exit BY <1>4, ExitRest DEF Bounded
<1>5. CASE UNCHANGED vars
  BY <1>5 DEF RestTypes, Bounded, vars, fifos, flush, port, dec, users
<1> QED BY <1>1, <1>2, <1>3, <1>4, <1>5 DEF Next
-----------------------------------------------------------------------------
(* ao_new_port puts each of its buffers into free_fifo, once.              *)
LEMMA AllFree ==
  /\ SetToSeq(Buffers) \in Seq(Buffers)
  /\ IsInjective(SetToSeq(Buffers)) /\ ToSet(SetToSeq(Buffers)) = Buffers
<1> DEFINE n == Cardinality(Buffers)
           q == SetToSeq(Buffers)
<1>1. n \in Nat /\ ExistsBijection(1..n, Buffers) BY FS_CardinalityType
<1>2. PICK f \in [1..n -> Buffers] : IsInjective(f)
  BY <1>1 DEF ExistsBijection, Bijection, Injection
<1>3. q \in [1..n -> Buffers] /\ IsInjective(q) BY <1>2 DEF SetToSeq
<1>4. q \in Injection(1..n, Buffers) BY <1>3 DEF Injection
<1>5. Cardinality(1..n) = n
  <2>1. IsFiniteSet(1..n) /\ Cardinality(1..n) = (IF 1 > n THEN 0 ELSE n - 1 + 1)
    BY <1>1, FS_Interval
  <2> QED BY <1>1, <2>1
<1> HIDE DEF n, q
<1>6. q \in Surjection(1..n, Buffers)
  <2>1. Cardinality(1..n) = Cardinality(Buffers) BY <1>5 DEF n
  <2> QED BY <1>4, <2>1, FS_Injection
<1>7. DOMAIN q = 1..n /\ \A b \in Buffers : \E i \in 1..n : q[i] = b
  BY <1>3, <1>6 DEF Surjection
<1>8. ToSet(q) = Buffers BY <1>3, <1>7 DEF ToSet
<1>9. q \in Seq(Buffers) BY <1>1, <1>3
<1> QED BY <1>3, <1>8, <1>9 DEF q

LEMMA InitPlace == Init => PlaceInv
<1> SUFFICES ASSUME Init PROVE PlaceInv
  OBVIOUS
<1>1. Hands BY DEF Init, Hands, Threads
<1>2. Spread
  <2>1. /\ free \in Seq(Buffers) /\ IsInjective(free) /\ ToSet(free) = Buffers
        /\ out = << >> /\ inBuf = Nil
    BY AllFree DEF Init
  <2>2. ToSet(out) = {} /\ IsInjective(out) BY <2>1 DEF ToSet, IsInjective
  <2>3. \A t \in Threads : held[t] = Nil BY DEF Init
  <2> QED BY <2>1, <2>2, <2>3 DEF Spread, Held
<1>3. RestTypes
  <2>1. flushDriver \in 0..MaxFlush /\ paused \in 0..2 BY FlushAssumption DEF Init
  <2>2. loopAsleep \in BOOLEAN /\ running \in BOOLEAN BY DEF Init
  <2> QED BY <2>1, <2>2 DEF Init, RestTypes
<1>4. Bounded BY DEF Init, Bounded
<1> QED BY <1>1, <1>2, <1>3, <1>4 DEF PlaceInv

LEMMA AudioPlaces == Spec => [](IInv /\ PlaceInv)
<1>1. IInv /\ PlaceInv /\ [Next]_vars => IInv' /\ PlaceInv'
  BY StepIInv, HandsStep, SpreadStep, RestStep DEF PlaceInv
<1> QED BY <1>1, InitIInv, InitPlace, PTL DEF Spec

(* ao_loop writes samples only to an open driver that is set to their      *)
(* format: ao_close and ao_open, which close and set it, first wait until  *)
(* fifo_remove has told them that the port is empty, the decoder that      *)
(* waits is the one that puts samples, and so the loop has no reason to    *)
(* set the driver itself.                                                  *)
THEOREM AudioWritesToOpenDriver == Spec => []WritesToOpenDriver
<1>1. IInv => WritesToOpenDriver
  <2> SUFFICES ASSUME IInv, pcL = "output", inBuf \in frames
               PROVE  driver /\ format[inBuf] = input
    BY DEF WritesToOpenDriver
  <2>1. inBuf \in InOut BY DEF IInv, LoopInv, InOut
  <2> QED BY <2>1 DEF IInv, NoSamples, Settled, FormatInv
<1> QED BY <1>1, AudioPlaces, PTL

(* When ao_flush has waited for the loop (fifo_wait_empty), none of the    *)
(* buffers that were in the port when it began is left there, whichever    *)
(* threads discard, flush and decode at the same time.                     *)
THEOREM AudioFlushEmpties == Spec => []FlushEmpties
<1>1. IInv => FlushEmpties BY DEF IInv, StaleInv, FlushEmpties
<1> QED BY <1>1, AudioPlaces, PTL

(* The one place of a buffer, as the type invariant counts it.             *)
LEMMA OnePlace ==
  ASSUME Types, Spread, NEW b \in Buffers PROVE Cardinality(Places(b)) = 1
<1>1. /\ \A i \in DOMAIN free : free[i] \in ToSet(free)
      /\ \A i \in DOMAIN out : out[i] \in ToSet(out)
  BY DEF ToSet
<1> DEFINE F == {<<"free", i>> : i \in {j \in DOMAIN free : free[j] = b}}
           O == {<<"out", i>> : i \in {j \in DOMAIN out : out[j] = b}}
           H == {<<"held", t>> : t \in {u \in Threads : held[u] = b}}
           L == {<<"loop", 1>> : x \in {inBuf} \cap {b}}
<1>2. Places(b) = F \cup O \cup H \cup L BY DEF Places
<1>3. b \notin ToSet(free) => F = {} BY <1>1
<1>4. b \notin ToSet(out) => O = {} BY <1>1
<1>5. ~Held(b) => H = {} BY DEF Held
<1>6. inBuf # b => L = {} OBVIOUS
<1>7. b \in ToSet(free) => \E p : F = {p}
  <2> SUFFICES ASSUME b \in ToSet(free) PROVE \E p : F = {p}
    OBVIOUS
  <2>1. PICK i \in DOMAIN free : free[i] = b BY DEF ToSet
  <2>2. \A j \in DOMAIN free : free[j] = b => j = i BY <2>1 DEF Spread, IsInjective
  <2>3. {j \in DOMAIN free : free[j] = b} = {i} BY <2>1, <2>2
  <2>4. F = {<<"free", i>>} BY <2>3
  <2> QED BY <2>4
<1>8. b \in ToSet(out) => \E p : O = {p}
  <2> SUFFICES ASSUME b \in ToSet(out) PROVE \E p : O = {p}
    OBVIOUS
  <2>1. PICK i \in DOMAIN out : out[i] = b BY DEF ToSet
  <2>2. \A j \in DOMAIN out : out[j] = b => j = i BY <2>1 DEF Spread, IsInjective
  <2>3. {j \in DOMAIN out : out[j] = b} = {i} BY <2>1, <2>2
  <2>4. O = {<<"out", i>>} BY <2>3
  <2> QED BY <2>4
<1>9. Held(b) => \E p : H = {p}
  <2> SUFFICES ASSUME Held(b) PROVE \E p : H = {p}
    OBVIOUS
  <2>1. PICK t \in Threads : held[t] = b BY DEF Held
  <2>2. \A u \in Threads : held[u] = b => u = t BY <2>1 DEF Spread
  <2>3. {u \in Threads : held[u] = b} = {t} BY <2>1, <2>2
  <2>4. H = {<<"held", t>>} BY <2>3
  <2> QED BY <2>4
<1>10. inBuf = b => \E p : L = {p}
  <2> SUFFICES ASSUME inBuf = b PROVE \E p : L = {p}
    OBVIOUS
  <2>1. L = {<<"loop", 1>>} OBVIOUS
  <2> QED BY <2>1
<1> HIDE DEF F, O, H, L
<1>11. \E p : Places(b) = {p}
  <2>1. CASE b \in ToSet(free)
    <3>1. b \notin ToSet(out) /\ inBuf # b /\ ~Held(b) BY <2>1 DEF Spread
    <3> QED BY <1>2, <1>4, <1>5, <1>6, <1>7, <2>1, <3>1
  <2>2. CASE b \in ToSet(out)
    <3>1. b \notin ToSet(free) /\ inBuf # b /\ ~Held(b) BY <2>2 DEF Spread
    <3> QED BY <1>2, <1>3, <1>5, <1>6, <1>8, <2>2, <3>1
  <2>3. CASE inBuf = b
    <3>1. b \notin ToSet(free) /\ b \notin ToSet(out) /\ ~Held(b) BY <2>3 DEF Spread
    <3> QED BY <1>2, <1>3, <1>4, <1>5, <1>10, <2>3, <3>1
  <2>4. CASE Held(b)
    <3>1. b \notin ToSet(free) /\ b \notin ToSet(out) /\ inBuf # b BY <2>4 DEF Spread
    <3> QED BY <1>2, <1>3, <1>4, <1>6, <1>9, <2>4, <3>1
  <2> QED BY <2>1, <2>2, <2>3, <2>4 DEF Spread
<1> QED BY <1>11, FS_Singleton

(* Every field has its type, and every buffer of the port is in one place: *)
(* in a fifo, with ao_loop, or with the one thread that took it by         *)
(* ao_get_buffer and not yet put it.  No interleaving of discards, flushes *)
(* and ao_exit loses a buffer or has two threads fill the same one.        *)
THEOREM AudioTypeCorrect == Spec => []TypeOK
<1>1. IInv /\ PlaceInv => TypeOK
  <2> SUFFICES ASSUME IInv, PlaceInv PROVE TypeOK
    OBVIOUS
  <2>1. Types /\ LoopInv /\ Spread /\ RestTypes /\ stale \subseteq InOut
    BY DEF IInv, PlaceInv, StaleInv
  <2>2. \A b \in Buffers : Cardinality(Places(b)) = 1 BY <2>1, OnePlace
  <2> QED BY <2>1, <2>2 DEF TypeOK, Types, LoopInv, RestTypes
<1> QED BY <1>1, AudioPlaces, PTL
=============================================================================
