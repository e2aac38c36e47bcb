-------------------------- MODULE VideoOut_proofs ---------------------------
(***************************************************************************)
(* The frames of a video port, for any number of frames and of threads     *)
(* that flush: the decoder is never left asleep beside a free frame, and,  *)
(* while the clock is not paused, lock_counter counts the references to a  *)
(* frame, no frame is queued twice, the decoder has the frame that it      *)
(* writes to for itself, and a first frame is shown.                       *)
(*                                                                         *)
(* The count follows the frames: every step moves one frame and changes    *)
(* one reference (Counted).  What has to be known besides is that a frame  *)
(* that is queued, kept as backup, on its way to the driver or with it is  *)
(* only at one of these places (Once), or a step would drop two references *)
(* and count one; this holds because a frame is drawn once (Unshared).     *)
(* A pause breaks the count: the paused loop puts a frame into the free    *)
(* queue whatever its lock_counter.                                        *)
(***************************************************************************)
EXTENDS VideoOut, FiniteSetTheorems, SequenceTheorems, TLAPS

Types ==
  /\ free \in Seq(Frames) /\ display \in Seq(Frames) /\ shown \in Seq(Frames)
  /\ lock \in [Frames -> Int]
  /\ held \subseteq Frames /\ drawn \subseteq held
  /\ {hand, img, backup, last} \subseteq Frames \cup {NoFrame}
  /\ pcL \in LoopPC
  /\ pcD \in {"idle", "get", "asleep", "draw"}

(* Where the threads are goes with what they have in hand.                 *)
HandInv ==
  /\ pcD = "draw" => hand \in held \ drawn
  /\ ImgHolds => img # NoFrame
  /\ pcL = "dup" => backup = NoFrame /\ display # << >>
  /\ pcL \in {"drain", "dropBackup", "dropLast", "exited"} => ~running

Awake == /\ ~paused /\ ~lockedForRead
         /\ pcL \notin {"pauseTest", "steal", "grab", "redraw"}

Once ==
  /\ IsInjective(free) /\ IsInjective(display) /\ IsInjective(shown)
  /\ \A f \in Range(display) : f # backup /\ f \notin Range(shown) /\ ~(ImgHolds /\ f = img)
  /\ backup \notin Range(shown)
  /\ ImgHolds => img # backup /\ img \notin Range(shown)

Counted ==
  \A f \in Frames :
    /\ f \in Range(free) => References(f) = 0
    /\ f \notin Range(free) => References(f) = lock[f] /\ lock[f] > 0

Unshared == \A f \in held \ drawn : References(f) = 1

IInv == Types /\ HandInv /\ Awake /\ Once /\ Counted /\ Unshared

USE FramesAssumption

-----------------------------------------------------------------------------
(* Sequences without repetition, by the set of their elements.             *)
LEMMA AppendSet ==
  ASSUME NEW S, NEW s \in Seq(S), NEW x \in S
  PROVE  /\ Append(s, x) \in Seq(S)
         /\ Range(Append(s, x)) = Range(s) \cup {x}
         /\ IsInjective(s) /\ x \notin Range(s) => IsInjective(Append(s, x))
<1> DEFINE t == Append(s, x)
<1>1. /\ t \in Seq(S) /\ Len(s) \in Nat /\ DOMAIN s = 1..Len(s)
      /\ DOMAIN t = 1..Len(s) + 1
      /\ t[Len(s) + 1] = x /\ \A i \in 1..Len(s) : t[i] = s[i]
  OBVIOUS
<1> HIDE DEF t
<1>2. Range(t) = Range(s) \cup {x} BY <1>1 DEF Range
<1>3. IsInjective(s) /\ x \notin Range(s) => IsInjective(t)
  BY <1>1 DEF Range, IsInjective
<1> QED BY <1>1, <1>2, <1>3 DEF t

LEMMA TailSet ==
  ASSUME NEW S, NEW s \in Seq(S), s # << >>, IsInjective(s)
  PROVE  /\ Head(s) \in S /\ Head(s) \in Range(s) /\ Tail(s) \in Seq(S)
         /\ Range(Tail(s)) = Range(s) \ {Head(s)} /\ IsInjective(Tail(s))
<1> DEFINE t == Tail(s)
<1>1. /\ Len(s) \in Nat /\ Len(s) >= 1 /\ DOMAIN s = 1..Len(s)
      /\ t \in Seq(S) /\ DOMAIN t = 1..Len(s) - 1
      /\ \A i \in 1..Len(s) - 1 : t[i] = s[i + 1]
      /\ Head(s) = s[1] /\ Head(s) \in S
  OBVIOUS
<1> HIDE DEF t
<1>2. Head(s) \in Range(s) BY <1>1 DEF Range
<1>3. IsInjective(t) BY <1>1 DEF IsInjective
<1>4. ASSUME NEW f \in Range(t) PROVE f \in Range(s) \ {Head(s)}
  <2>1. PICK i \in 1..Len(s) - 1 : f = s[i + 1] BY <1>1, <1>4 DEF Range
  <2>2. i + 1 \in DOMAIN s /\ 1 \in DOMAIN s /\ i + 1 # 1 BY <1>1
  <2> QED BY <1>1, <2>1, <2>2 DEF Range, IsInjective
<1>5. ASSUME NEW f \in Range(s), f # Head(s) PROVE f \in Range(t)
  <2>1. PICK i \in 1..Len(s) : f = s[i] BY <1>1, <1>5 DEF Range
  <2>2. i - 1 \in 1..Len(s) - 1 /\ t[i - 1] = f BY <1>1, <1>5, <2>1
  <2> QED BY <1>1, <2>2 DEF Range
<1> QED BY <1>1, <1>2, <1>3, <1>4, <1>5 DEF t

LEMMA ConsSet ==
  ASSUME NEW S, NEW s \in Seq(S), NEW x \in S
  PROVE  /\ <<x>> \o s \in Seq(S)
         /\ Range(<<x>> \o s) = Range(s) \cup {x}
         /\ IsInjective(s) /\ x \notin Range(s) => IsInjective(<<x>> \o s)
<1> DEFINE t == <<x>> \o s
<1>1. /\ t \in Seq(S) /\ Len(s) \in Nat /\ DOMAIN s = 1..Len(s)
      /\ DOMAIN t = 1..Len(s) + 1 /\ t[1] = x
      /\ \A i \in 2..Len(s) + 1 : t[i] = s[i - 1]
  <2>1. <<x>> \in Seq(S) /\ Len(<<x>>) = 1 /\ <<x>>[1] = x OBVIOUS
  <2>2. Len(s) \in Nat /\ DOMAIN s = 1..Len(s) OBVIOUS
  <2>3. /\ t \in Seq(S) /\ Len(t) = Len(s) + 1
        /\ \A i \in 1..Len(s) + 1 : t[i] = IF i <= 1 THEN <<x>>[i] ELSE s[i - 1]
    BY <2>1, <2>2, ConcatProperties
  <2>4. DOMAIN t = 1..Len(s) + 1 BY <2>2, <2>3
  <2>5. \A i \in 2..Len(s) + 1 : i \in 1..Len(s) + 1 /\ ~(i <= 1) BY <2>2
  <2> QED BY <2>1, <2>2, <2>3, <2>4, <2>5
<1> HIDE DEF t
<1>2. /\ \A i \in DOMAIN t : i # 1 => i - 1 \in DOMAIN s /\ t[i] = s[i - 1]
      /\ \A i \in DOMAIN s : i + 1 \in DOMAIN t /\ t[i + 1] = s[i]
      /\ 1 \in DOMAIN t
  <2>1. ASSUME NEW i \in DOMAIN s PROVE i + 1 \in DOMAIN t /\ t[i + 1] = s[i]
    <3>1. i + 1 \in 2..Len(s) + 1 /\ (i + 1) - 1 = i BY <1>1
    <3> QED BY <1>1, <3>1
  <2> QED BY <1>1, <2>1
<1>3. Range(t) = Range(s) \cup {x}
  <2>1. \A f \in Range(t) : f \in Range(s) \cup {x}
    BY <1>1, <1>2 DEF Range
  <2>2. \A f \in Range(s) : f \in Range(t) BY <1>2 DEF Range
  <2>3. x \in Range(t) BY <1>1, <1>2 DEF Range
  <2> QED BY <2>1, <2>2, <2>3
<1>4. IsInjective(s) /\ x \notin Range(s) => IsInjective(t)
  <2> SUFFICES ASSUME IsInjective(s), x \notin Range(s),
                      NEW i \in DOMAIN t, NEW j \in DOMAIN t, t[i] = t[j]
               PROVE  i = j
    BY DEF IsInjective
  <2>1. CASE i = 1 /\ j # 1 BY <1>1, <1>2, <2>1 DEF Range
  <2>2. CASE i # 1 /\ j = 1 BY <1>1, <1>2, <2>2 DEF Range
  <2>3. CASE i # 1 /\ j # 1
    <3>1. s[i - 1] = s[j - 1] /\ i - 1 \in DOMAIN s /\ j - 1 \in DOMAIN s
      BY <1>2, <2>3
    <3>2. i - 1 = j - 1 BY <3>1 DEF IsInjective
    <3> QED BY <1>1, <3>2
  <2> QED BY <2>1, <2>2, <2>3
<1> QED BY <1>1, <1>3, <1>4 DEF t

LEMMA FrontSet ==
  ASSUME NEW S, NEW s \in Seq(S), s # << >>, IsInjective(s)
  PROVE  /\ Last(s) \in S /\ Last(s) \in Range(s) /\ Front(s) \in Seq(S)
         /\ Range(Front(s)) = Range(s) \ {Last(s)} /\ IsInjective(Front(s))
<1> DEFINE t == Front(s)
<1>1. /\ Len(s) \in Nat /\ Len(s) >= 1 /\ DOMAIN s = 1..Len(s)
      /\ \A i \in 1..Len(s) : s[i] \in S
  OBVIOUS
<1>2. /\ t \in Seq(S) /\ DOMAIN t = 1..Len(s) - 1
      /\ \A i \in 1..Len(s) - 1 : t[i] = s[i]
  BY <1>1 DEF Front
<1>3. Last(s) = s[Len(s)] /\ Len(s) \in DOMAIN s /\ Last(s) \in S /\ Last(s) \in Range(s)
  BY <1>1 DEF Last, Range
<1> HIDE DEF t
<1>4. IsInjective(t) BY <1>1, <1>2 DEF IsInjective
<1>5. \A f \in Range(t) : f \in Range(s) \ {Last(s)}
  BY <1>1, <1>2, <1>3 DEF Range, IsInjective
<1>6. \A f \in Range(s) \ {Last(s)} : f \in Range(t)
  <2> SUFFICES ASSUME NEW i \in DOMAIN s, s[i] # Last(s) PROVE s[i] \in Range(t)
    BY DEF Range
  <2>1. i \in 1..Len(s) /\ i # Len(s) BY <1>1, <1>3
  <2>2. i \in DOMAIN t BY <1>1, <1>2, <2>1
  <2> QED BY <1>2, <2>2 DEF Range
<1> QED BY <1>1, <1>2, <1>3, <1>4, <1>5, <1>6 DEF t

-----------------------------------------------------------------------------
(* The three ways a step changes the count of references.                  *)
LEMMA ReferencesNat == \A f \in Frames : References(f) \in Nat
  BY DEF References, One

LEMMA KeepCount ==
  ASSUME Counted, UNCHANGED <<free, lock>>,
         \A f \in Frames : References(f)' = References(f)
  PROVE  Counted'
  BY DEF Counted

LEMMA DropCount ==
  ASSUME Types, IsInjective(free), Counted, NEW g \in Frames, Unlock(g),
         References(g) # 0, References(g)' = References(g) - 1,
         \A f \in Frames : f # g => References(f)' = References(f)
  PROVE  /\ Counted' /\ free' \in Seq(Frames) /\ IsInjective(free')
         /\ lock' \in [Frames -> Int]
         /\ pcD' \in {"idle", "get", "asleep", "draw"} /\ (pcD' = "draw" <=> pcD = "draw")
<1>1. /\ lock' = [lock EXCEPT ![g] = @ - 1]
      /\ lock \in [Frames -> Int] /\ free \in Seq(Frames)
  BY DEF Unlock, Types
<1>2. g \notin Range(free) /\ References(g) = lock[g] /\ lock[g] > 0 /\ lock[g] \in Int
  BY <1>1 DEF Counted
<1>3. lock'[g] = lock[g] - 1 /\ \A f \in Frames : f # g => lock'[f] = lock[f]
  BY <1>1
<1>4. CASE lock[g] = 1
  <2>1. free' = Append(free, g) /\ pcD' = (IF pcD = "asleep" THEN "get" ELSE pcD)
    BY <1>4 DEF Unlock, Signal
  <2>2. free' \in Seq(Frames) /\ Range(free') = Range(free) \cup {g} /\ IsInjective(free')
    BY <1>1, <1>2, <2>1, AppendSet
  <2>3. References(g)' = 0 BY <1>2, <1>4
  <2>4. \A f \in Frames : f # g => (f \in Range(free') <=> f \in Range(free))
    BY <2>2
  <2>5. g \in Range(free') BY <2>2
  <2>6. Counted' BY <1>3, <2>3, <2>4, <2>5 DEF Counted
  <2> QED BY <1>1, <2>1, <2>2, <2>6 DEF Types
<1>5. CASE lock[g] # 1
  <2>1. UNCHANGED <<free, pcD>> BY <1>5 DEF Unlock
  <2>2. Counted' BY <1>2, <1>3, <1>5, <2>1 DEF Counted
  <2> QED BY <1>1, <2>1, <2>2 DEF Types
<1> QED BY <1>4, <1>5

LEMMA TakeCount ==
  ASSUME Types, IsInjective(free), Counted, free # << >>, TakeDuplicate,
         NEW g \in Frames, g = Head(free), References(g)' = 1,
         \A f \in Frames : f # g => References(f)' = References(f)
  PROVE  /\ Counted' /\ free' \in Seq(Frames) /\ IsInjective(free')
         /\ lock' \in [Frames -> Int]
<1>1. /\ lock' = [lock EXCEPT ![g] = 1] /\ free' = Tail(free)
      /\ lock \in [Frames -> Int] /\ free \in Seq(Frames)
  BY DEF TakeDuplicate, Types
<1>2. free' \in Seq(Frames) /\ Range(free') = Range(free) \ {g} /\ IsInjective(free')
  BY <1>1, TailSet
<1>3. lock'[g] = 1 /\ \A f \in Frames : f # g => lock'[f] = lock[f]
  BY <1>1
<1>4. g \notin Range(free') /\ \A f \in Frames : f # g => (f \in Range(free') <=> f \in Range(free))
  BY <1>2
<1>5. Counted' BY <1>3, <1>4 DEF Counted
<1> QED BY <1>1, <1>2, <1>5

(* A free frame is nowhere else.                                           *)
LEMMA FreeHead ==
  ASSUME Types, IsInjective(free), Counted, free # << >>
  PROVE  \E g \in Frames :
           /\ g = Head(free) /\ References(g) = 0
           /\ g \notin held \cup Range(display) \cup Range(shown) \cup {backup}
           /\ ImgHolds => g # img
           /\ pcL = "hold" \/ g # last
<1>1. PICK g \in Frames : g = Head(free) /\ g \in Range(free) BY TailSet DEF Types
<1>2. References(g) = 0 BY <1>1 DEF Counted
<1> QED BY <1>1, <1>2 DEF References, One
-----------------------------------------------------------------------------
(* Steps that move no frame.                                               *)
LEMMA QuietStep ==
  ASSUME IInv, UNCHANGED <<free, display, lock, held, drawn, backup, last, shown>>,
         UNCHANGED <<pcL, img>> \/ (~ImgHolds /\ ~ImgHolds'),
         {hand, img}' \subseteq Frames \cup {NoFrame}, pcL' \in LoopPC,
         pcD' \in {"idle", "get", "asleep", "draw"},
         HandInv', Awake'
  PROVE  IInv'
<1>1. ImgHolds' = ImgHolds /\ (ImgHolds' => img' = img) /\ (pcL' = "hold" <=> pcL = "hold")
  BY DEF ImgHolds
<1>2. \A f : References(f)' = References(f) BY <1>1 DEF References
<1>3. Types' BY DEF IInv, Types
<1>4. Once' BY <1>1 DEF IInv, Once
<1>5. Counted' BY <1>2, KeepCount DEF IInv
<1>6. Unshared' BY <1>2 DEF IInv, Unshared
<1> QED BY <1>3, <1>4, <1>5, <1>6 DEF IInv
-----------------------------------------------------------------------------
(* The decoder                                                             *)
LEMMA DecoderStep == IInv /\ DecoderNext => IInv'
<1> SUFFICES ASSUME IInv, DecoderNext PROVE IInv'
  OBVIOUS
<1>0. /\ Types /\ HandInv /\ Awake /\ Once /\ Counted /\ Unshared
      /\ IsInjective(free) /\ free \in Seq(Frames) /\ display \in Seq(Frames)
  BY DEF IInv, Types, Once
<1>1. CASE CallGet \/ GetSleep
  <2>1. /\ UNCHANGED <<free, display, lock, held, drawn, backup, last, shown, pcL, img, hand,
                       running, paused, lockedForRead>>
        /\ pcD' \in {"get", "asleep"}
    BY <1>1 DEF CallGet, GetSleep, queues, frame, loop, world
  <2>2. HandInv' /\ Awake' BY <1>0, <2>1 DEF HandInv, Awake, ImgHolds
  <2> QED BY <1>0, <2>1, <2>2, QuietStep DEF Types
<1>2. CASE GetFrame
  <2>1. /\ UNCHANGED <<display, drawn, hand, backup, last, shown, pcL, img, running, paused,
                       lockedForRead>>
        /\ free # << >> /\ TakeDuplicate
        /\ held' = held \cup {Head(free)} /\ pcD' = "idle"
    BY <1>2 DEF GetFrame, MayGet, TakeDuplicate, loop, world
  <2>2. PICK g \in Frames :
          /\ g = Head(free) /\ References(g) = 0
          /\ g \notin held \cup Range(display) \cup Range(shown) \cup {backup}
          /\ ImgHolds => g # img
          /\ pcL = "hold" \/ g # last
    BY <1>0, <2>1, FreeHead
  <2>3. /\ References(g)' = 1
        /\ \A f \in Frames : f # g => References(f)' = References(f)
    BY <2>1, <2>2 DEF References, One, ImgHolds
  <2>4. /\ Counted' /\ free' \in Seq(Frames) /\ IsInjective(free')
        /\ lock' \in [Frames -> Int]
    BY <1>0, <2>1, <2>2, <2>3, TakeCount
  <2>5. Types' BY <1>0, <2>1, <2>2, <2>4 DEF Types
  <2>6. HandInv' /\ Awake' BY <1>0, <2>1 DEF HandInv, Awake, ImgHolds
  <2>7. Once' BY <1>0, <2>1, <2>4 DEF Once, ImgHolds
  <2>8. Unshared' BY <1>0, <2>1, <2>2, <2>3 DEF Unshared, Types
  <2> QED BY <2>4, <2>5, <2>6, <2>7, <2>8 DEF IInv
<1>3. CASE DrawAppend
  <2>1. /\ UNCHANGED <<free, held, backup, last, shown, pcL, img, running, paused,
                       lockedForRead>>
        /\ pcD = "draw" /\ pcD' = "idle" /\ hand' = NoFrame /\ ~DisplayMutexTaken
        /\ lock' = [lock EXCEPT ![hand] = @ + 1]
        /\ display' = Append(display, hand) /\ drawn' = drawn \cup {hand}
    BY <1>3 DEF DrawAppend, loop, world
  <2>2. PICK g \in Frames : g = hand /\ g \in held \ drawn /\ References(g) = 1
    BY <1>0, <2>1 DEF HandInv, Types, Unshared
  <2>3. /\ g \notin Range(display) \cup Range(shown) \cup {backup}
        /\ ImgHolds => g # img
    BY <2>2 DEF References, One
  <2>4. /\ display' \in Seq(Frames) /\ Range(display') = Range(display) \cup {g}
        /\ IsInjective(display')
    BY <1>0, <2>1, <2>2, <2>3, AppendSet DEF Once
  <2>5. /\ References(g)' = References(g) + 1
        /\ \A f \in Frames : f # g => References(f)' = References(f)
    BY <2>1, <2>3, <2>4 DEF References, One, ImgHolds
  <2>6. /\ lock' \in [Frames -> Int] /\ lock'[g] = lock[g] + 1
        /\ \A f \in Frames : f # g => lock'[f] = lock[f]
    BY <1>0, <2>1, <2>2 DEF Types
  <2>7. Counted'
    <3>1. g \notin Range(free) /\ lock[g] = 1 BY <1>0, <2>2 DEF Counted
    <3> QED BY <1>0, <2>1, <2>2, <2>5, <2>6, <3>1 DEF Counted
  <2>8. Types' BY <1>0, <2>1, <2>2, <2>4, <2>6 DEF Types
  <2>9. HandInv' /\ Awake'
    <3>1. pcL # "dup" BY <2>1 DEF DisplayMutexTaken
    <3> QED BY <1>0, <2>1, <3>1 DEF HandInv, Awake, ImgHolds
  <2>10. Once' BY <1>0, <2>1, <2>3, <2>4 DEF Once, ImgHolds
  <2>11. Unshared' BY <1>0, <2>1, <2>2, <2>5 DEF Unshared, Types
  <2> QED BY <2>7, <2>8, <2>9, <2>10, <2>11 DEF IInv
<1>4. ASSUME NEW f \in Frames, DrawMark(f) PROVE IInv'
  <2>1. /\ UNCHANGED <<free, display, lock, held, drawn, backup, last, shown, pcL, img,
                       running, paused, lockedForRead>>
        /\ f \in held \ drawn /\ hand' = f /\ pcD' = "draw"
    BY <1>4 DEF DrawMark, queues, loop, world
  <2>2. HandInv' /\ Awake' BY <1>0, <2>1 DEF HandInv, Awake, ImgHolds
  <2> QED BY <1>0, <2>1, <2>2, QuietStep DEF Types
<1>5. ASSUME NEW f \in Frames, DecoderFree(f) PROVE IInv'
  <2>1. /\ UNCHANGED <<display, hand, backup, last, shown, pcL, img, running, paused,
                       lockedForRead>>
        /\ f \in held /\ Unlock(f) /\ pcD = "idle"
        /\ held' = held \ {f} /\ drawn' = drawn \ {f}
    BY <1>5 DEF DecoderFree, loop, world
  <2>2. /\ References(f) # 0 /\ References(f)' = References(f) - 1
        /\ \A g \in Frames : g # f => References(g)' = References(g)
    BY <2>1 DEF References, One, ImgHolds
  <2>3. /\ Counted' /\ free' \in Seq(Frames) /\ IsInjective(free')
        /\ lock' \in [Frames -> Int]
        /\ pcD' \in {"idle", "get", "asleep", "draw"} /\ (pcD' = "draw" <=> pcD = "draw")
    BY <1>0, <2>1, <2>2, DropCount
  <2>4. Types' BY <1>0, <2>1, <2>3 DEF Types
  <2>5. HandInv' /\ Awake' BY <1>0, <2>1, <2>3 DEF HandInv, Awake, ImgHolds
  <2>6. Once' BY <1>0, <2>1, <2>3 DEF Once, ImgHolds
  <2>7. Unshared' BY <1>0, <2>1, <2>2 DEF Unshared, Types
  <2> QED BY <2>3, <2>4, <2>5, <2>6, <2>7 DEF IInv
<1> QED BY <1>1, <1>2, <1>3, <1>4, <1>5 DEF DecoderNext
-----------------------------------------------------------------------------
(* The video output loop.  What all its steps leave alone ...              *)
LoopFrame == UNCHANGED <<held, drawn, hand, running, paused, lockedForRead>>

(* ... and a step that drops the reference of one frame.                   *)
LEMMA DropStep ==
  ASSUME IInv, LoopFrame, NEW g \in Frames, Unlock(g),
         References(g) # 0, References(g)' = References(g) - 1,
         \A f \in Frames : f # g => References(f)' = References(f),
         display' \in Seq(Frames), shown' \in Seq(Frames),
         {img, backup, last}' \subseteq Frames \cup {NoFrame}, pcL' \in LoopPC,
         ImgHolds' => img' # NoFrame,
         pcL' = "dup" => backup' = NoFrame /\ display' # << >>,
         pcL' \in {"drain", "dropBackup", "dropLast", "exited"} => ~running,
         pcL' \notin {"pauseTest", "steal", "grab", "redraw"},
         IsInjective(free') => Once'
  PROVE  IInv'
<1>1. Types /\ HandInv /\ Awake /\ Once /\ Counted /\ Unshared /\ IsInjective(free)
  BY DEF IInv, Once
<1>2. /\ Counted' /\ free' \in Seq(Frames) /\ IsInjective(free')
      /\ lock' \in [Frames -> Int]
      /\ pcD' \in {"idle", "get", "asleep", "draw"} /\ (pcD' = "draw" <=> pcD = "draw")
  BY <1>1, DropCount
<1>3. Types' BY <1>1, <1>2 DEF Types, LoopFrame
<1>4. HandInv' BY <1>1, <1>2 DEF HandInv, LoopFrame
<1>5. Awake' BY <1>1 DEF Awake, LoopFrame
<1>6. Unshared'
  <2> SUFFICES ASSUME NEW f \in Frames, f \in held \ drawn PROVE References(f)' = 1
    BY <1>1 DEF Unshared, LoopFrame, Types
  <2>1. References(f) = 1 BY <1>1 DEF Unshared
  <2>2. f # g
    <3> SUFFICES ASSUME f = g PROVE FALSE
      OBVIOUS
    <3>1. References(f)' = 0 BY <2>1
    <3>2. f \in held' BY DEF LoopFrame
    <3> QED BY <3>1, <3>2 DEF References, One
  <2> QED BY <2>1, <2>2
<1> QED BY <1>2, <1>3, <1>4, <1>5, <1>6 DEF IInv

(* A step that moves frames without a change of the count.                 *)
LEMMA MoveStep ==
  ASSUME IInv, LoopFrame, UNCHANGED <<free, lock, pcD>>,
         \A f \in Frames : References(f)' = References(f),
         display' \in Seq(Frames), shown' \in Seq(Frames),
         {img, backup, last}' \subseteq Frames \cup {NoFrame}, pcL' \in LoopPC,
         ImgHolds' => img' # NoFrame,
         pcL' = "dup" => backup' = NoFrame /\ display' # << >>,
         pcL' \in {"drain", "dropBackup", "dropLast", "exited"} => ~running,
         pcL' \notin {"pauseTest", "steal", "grab", "redraw"},
         Once'
  PROVE  IInv'
<1>1. Types /\ HandInv /\ Awake /\ Once /\ Counted /\ Unshared
  BY DEF IInv
<1>2. Counted' BY <1>1, KeepCount
<1>3. Types' BY <1>1 DEF Types, LoopFrame
<1>4. HandInv' BY <1>1 DEF HandInv, LoopFrame
<1>5. Awake' BY <1>1 DEF Awake, LoopFrame
<1>6. Unshared' BY <1>1 DEF Unshared, LoopFrame, Types
<1> QED BY <1>2, <1>3, <1>4, <1>5, <1>6 DEF IInv

(* A step that takes a free frame to copy to.                              *)
LEMMA TakeStep ==
  ASSUME IInv, LoopFrame, UNCHANGED pcD, free # << >>, TakeDuplicate,
         NEW g \in Frames, g = Head(free), References(g)' = 1,
         \A f \in Frames : f # g => References(f)' = References(f),
         display' \in Seq(Frames), shown' \in Seq(Frames),
         {img, backup, last}' \subseteq Frames \cup {NoFrame}, pcL' \in LoopPC,
         ImgHolds' => img' # NoFrame,
         pcL' \notin {"dup", "drain", "dropBackup", "dropLast", "exited",
                      "pauseTest", "steal", "grab", "redraw"},
         IsInjective(free') => Once'
  PROVE  IInv'
<1>1. Types /\ HandInv /\ Awake /\ Once /\ Counted /\ Unshared /\ IsInjective(free)
  BY DEF IInv, Once
<1>2. /\ Counted' /\ free' \in Seq(Frames) /\ IsInjective(free')
      /\ lock' \in [Frames -> Int]
  BY <1>1, TakeCount
<1>3. Types' BY <1>1, <1>2 DEF Types, LoopFrame
<1>4. HandInv' BY <1>1 DEF HandInv, LoopFrame
<1>5. Awake' BY <1>1 DEF Awake, LoopFrame
<1>6. Unshared'
  <2> SUFFICES ASSUME NEW f \in Frames, f \in held \ drawn PROVE References(f)' = 1
    BY <1>1 DEF Unshared, LoopFrame, Types
  <2>1. References(f) = 1 BY <1>1 DEF Unshared
  <2> QED BY <2>1
<1> QED BY <1>2, <1>3, <1>4, <1>5, <1>6 DEF IInv

LEMMA LoopStep == IInv /\ LoopNext => IInv'
<1> SUFFICES ASSUME IInv, LoopNext PROVE IInv'
  OBVIOUS
<1>0. /\ Types /\ HandInv /\ Awake /\ Once /\ Counted /\ Unshared
      /\ IsInjective(free) /\ IsInjective(display) /\ IsInjective(shown)
      /\ free \in Seq(Frames) /\ display \in Seq(Frames) /\ shown \in Seq(Frames)
  BY DEF IInv, Types, Once
<1>1. CASE \/ Top \/ ExpireStop \/ NextNone \/ NextEarly \/ Wake \/ Check \/ Sleep
           \/ (NextStill /\ free = << >>)
  <2>1. /\ UNCHANGED <<free, display, lock, held, drawn, backup, last, shown, hand, pcD,
                       running, paused, lockedForRead>>
        /\ img' = img \/ img' = NoFrame
        /\ pcL' \in {"expire", "drain", "nextNow", "next", "check", "sleep", "top"}
        /\ pcL' = "drain" => ~running
        /\ pcL \notin {"release", "hold", "show"}
    BY <1>0, <1>1 DEF Top, ExpireStop, NextNone, NextEarly, Wake, Check, Sleep, NextStill,
         queues, frame, decoder, flushes, player, world, Awake
  <2>2. HandInv' /\ Awake' BY <1>0, <2>1 DEF HandInv, Awake, ImgHolds
  <2>3. ~ImgHolds /\ ~ImgHolds' BY <2>1 DEF ImgHolds
  <2> QED BY <1>0, <2>1, <2>2, <2>3, QuietStep DEF Types, LoopPC
<1>2. CASE ExpireDiscard \/ ExpireOld
  <2>1. /\ LoopFrame /\ UNCHANGED <<pcL, img, last, shown>> /\ pcL = "expire"
        /\ display # << >> /\ display' = Tail(display)
        /\ \/ backup = NoFrame /\ backup' = Head(display) /\ UNCHANGED <<free, lock, pcD>>
           \/ backup # NoFrame /\ backup' = Head(display) /\ Unlock(backup)
           \/ backup' = backup /\ Unlock(Head(display))
    BY <1>2 DEF ExpireDiscard, ExpireOld, UnlockAny, LoopFrame, world
  <2>2. PICK g \in Frames : g = Head(display) /\ g \in Range(display)
    BY <1>0, <2>1, TailSet
  <2>3. /\ display' \in Seq(Frames) /\ Range(display') = Range(display) \ {g}
        /\ IsInjective(display')
    BY <1>0, <2>1, <2>2, TailSet
  <2>4. /\ g # backup /\ g \notin Range(shown) /\ ~ImgHolds /\ ~ImgHolds' /\ pcL # "hold"
    BY <1>0, <2>1, <2>2 DEF Once, ImgHolds
  <2>5. /\ {img, backup, last}' \subseteq Frames \cup {NoFrame} /\ pcL' \in LoopPC
        /\ shown' \in Seq(Frames)
    BY <1>0, <2>1, <2>2 DEF Types
  <2>6. \/ backup' = g
        \/ backup' = backup
    BY <2>1, <2>2
  <2>7. IsInjective(free') => Once' BY <1>0, <2>1, <2>2, <2>3, <2>4, <2>6 DEF Once
  <2>8. CASE backup = NoFrame /\ backup' = g /\ UNCHANGED <<free, lock, pcD>>
    <3>1. \A f \in Frames : References(f)' = References(f)
      BY <2>1, <2>2, <2>3, <2>4, <2>8 DEF References, One, LoopFrame
    <3> QED BY <1>0, <2>1, <2>3, <2>4, <2>5, <2>7, <2>8, <3>1, MoveStep
  <2>9. CASE backup # NoFrame /\ backup' = g /\ Unlock(backup)
    <3>1. PICK h \in Frames : h = backup BY <1>0, <2>9 DEF Types
    <3>2. h # g /\ h \notin Range(display) /\ Unlock(h)
      BY <1>0, <2>4, <2>9, <3>1 DEF Once
    <3>3. /\ References(h) # 0 /\ References(h)' = References(h) - 1
          /\ \A f \in Frames : f # h => References(f)' = References(f)
      BY <2>1, <2>2, <2>3, <2>4, <2>9, <3>1, <3>2 DEF References, One, LoopFrame
    <3> QED BY <2>1, <2>3, <2>4, <2>5, <2>7, <3>2, <3>3, DropStep
  <2>10. CASE backup' = backup /\ Unlock(g)
    <3>1. /\ References(g) # 0 /\ References(g)' = References(g) - 1
          /\ \A f \in Frames : f # g => References(f)' = References(f)
      BY <2>1, <2>2, <2>3, <2>4, <2>10 DEF References, One, LoopFrame
    <3> QED BY <2>1, <2>3, <2>4, <2>5, <2>7, <2>10, <3>1, DropStep
  <2> QED BY <2>1, <2>2, <2>8, <2>9, <2>10
<1>3. CASE NextStill /\ free # << >>
  <2>1. /\ LoopFrame /\ UNCHANGED <<display, backup, last, shown, pcD>>
        /\ pcL = "next" /\ pcL' = "release"
        /\ TakeDuplicate /\ free # << >> /\ img' = Head(free)
    BY <1>3 DEF NextStill, LoopFrame, decoder, world, Duplicated
  <2>2. PICK g \in Frames :
          /\ g = Head(free) /\ References(g) = 0
          /\ g \notin held \cup Range(display) \cup Range(shown) \cup {backup}
          /\ ImgHolds => g # img
          /\ pcL = "hold" \/ g # last
    BY <1>0, <2>1, FreeHead
  <2>3. img' = g /\ ~ImgHolds /\ ImgHolds' BY <2>1, <2>2 DEF ImgHolds
  <2>4. /\ References(g)' = 1
        /\ \A f \in Frames : f # g => References(f)' = References(f)
    BY <2>1, <2>2, <2>3 DEF References, One, LoopFrame
  <2>5. IsInjective(free') => Once' BY <1>0, <2>1, <2>2, <2>3 DEF Once
  <2>6. /\ {img, backup, last}' \subseteq Frames \cup {NoFrame} /\ pcL' \in LoopPC
        /\ shown' \in Seq(Frames) /\ display' \in Seq(Frames) /\ img' # NoFrame
    BY <1>0, <2>1, <2>3 DEF Types, LoopPC
  <2> QED BY <2>1, <2>2, <2>4, <2>5, <2>6, TakeStep
<1>4. CASE NextDue
  <2>1. /\ LoopFrame /\ UNCHANGED <<display, img, last, shown>>
        /\ pcL \in {"next", "nextNow"} /\ pcL' = "dup" /\ display # << >>
        /\ backup' = NoFrame /\ UnlockAny(backup)
    BY <1>4 DEF NextDue, LoopFrame, world
  <2>2. ~ImgHolds /\ ~ImgHolds' /\ pcL # "hold" /\ pcL' # "hold" BY <2>1 DEF ImgHolds
  <2>3. /\ {img, backup, last}' \subseteq Frames \cup {NoFrame} /\ pcL' \in LoopPC
        /\ shown' \in Seq(Frames) /\ display' \in Seq(Frames)
    BY <1>0, <2>1 DEF Types, LoopPC
  <2>4. NoFrame \notin Range(display) /\ NoFrame \notin Range(shown)
    BY <1>0 DEF Range
  <2>5. IsInjective(free') => Once' BY <1>0, <2>1, <2>2, <2>4 DEF Once
  <2>6. CASE backup = NoFrame
    <3>1. UNCHANGED <<free, lock, pcD>> BY <2>1, <2>6 DEF UnlockAny
    <3>2. \A f \in Frames : References(f)' = References(f)
      BY <2>1, <2>2, <2>6 DEF References, One, LoopFrame
    <3> QED BY <1>0, <2>1, <2>2, <2>3, <2>5, <3>1, <3>2, MoveStep
  <2>7. CASE backup # NoFrame
    <3>1. PICK h \in Frames : h = backup BY <1>0, <2>7 DEF Types
    <3>2. Unlock(h) BY <2>1, <2>7, <3>1 DEF UnlockAny
    <3>3. /\ References(h) # 0 /\ References(h)' = References(h) - 1
          /\ \A f \in Frames : f # h => References(f)' = References(f)
      BY <2>1, <2>2, <3>1 DEF References, One, LoopFrame
    <3> QED BY <2>1, <2>2, <2>3, <2>5, <3>2, <3>3, DropStep
  <2> QED BY <2>6, <2>7
<1>5. CASE NextTake
  <2>1. /\ LoopFrame /\ UNCHANGED <<last, shown, pcD>>
        /\ pcL = "dup" /\ pcL' = "release" /\ display # << >> /\ backup = NoFrame
        /\ display' = Tail(display) /\ img' = Head(display)
        /\ \/ free # << >> /\ TakeDuplicate /\ backup' = Head(free)
           \/ UNCHANGED <<free, lock, backup>>
    BY <1>0, <1>5 DEF NextTake, LoopFrame, decoder, world, Duplicated, HandInv
  <2>2. PICK g \in Frames : g = Head(display) /\ g \in Range(display)
    BY <1>0, <2>1, TailSet
  <2>3. /\ display' \in Seq(Frames) /\ Range(display') = Range(display) \ {g}
        /\ IsInjective(display')
    BY <1>0, <2>1, <2>2, TailSet
  <2>4. /\ g \notin Range(shown) /\ ~ImgHolds /\ ImgHolds' /\ pcL # "hold" /\ pcL' # "hold"
        /\ img' = g
    BY <1>0, <2>1, <2>2 DEF Once, ImgHolds
  <2>5. NoFrame \notin Range(display) /\ NoFrame \notin Range(shown) /\ NoFrame # g
    BY <1>0 DEF Range
  <2>6. CASE UNCHANGED <<free, lock, backup>>
    <3>1. \A f \in Frames : References(f)' = References(f)
      BY <2>1, <2>2, <2>3, <2>4, <2>6 DEF References, One, LoopFrame
    <3>2. Once' BY <1>0, <2>1, <2>2, <2>3, <2>4, <2>5, <2>6 DEF Once
    <3>3. /\ {img, backup, last}' \subseteq Frames \cup {NoFrame} /\ pcL' \in LoopPC
          /\ shown' \in Seq(Frames)
      BY <1>0, <2>1, <2>4, <2>6 DEF Types, LoopPC
    <3> QED BY <1>0, <2>1, <2>3, <2>4, <2>5, <2>6, <3>1, <3>2, <3>3, MoveStep
  <2>7. CASE free # << >> /\ TakeDuplicate /\ backup' = Head(free)
    <3>1. PICK h \in Frames :
            /\ h = Head(free) /\ References(h) = 0
            /\ h \notin held \cup Range(display) \cup Range(shown) \cup {backup}
            /\ ImgHolds => h # img
            /\ pcL = "hold" \/ h # last
      BY <1>0, <2>7, FreeHead
    <3>2. backup' = h /\ h # g BY <2>2, <2>7, <3>1
    <3>3. /\ References(h)' = 1
          /\ \A f \in Frames : f # h => References(f)' = References(f)
      BY <2>1, <2>2, <2>3, <2>4, <3>1, <3>2 DEF References, One, LoopFrame
    <3>4. IsInjective(free') => Once'
      BY <1>0, <2>1, <2>2, <2>3, <2>4, <3>1, <3>2 DEF Once
    <3>5. /\ {img, backup, last}' \subseteq Frames \cup {NoFrame} /\ pcL' \in LoopPC
          /\ shown' \in Seq(Frames)
      BY <1>0, <2>1, <2>4, <3>2 DEF Types, LoopPC
    <3> QED BY <2>1, <2>3, <2>4, <2>5, <2>7, <3>1, <3>3, <3>4, <3>5, TakeStep
  <2> QED BY <2>1, <2>6, <2>7
<1>6. CASE Release
  <2>1. /\ LoopFrame /\ UNCHANGED <<display, img, backup, last, shown>>
        /\ pcL = "release" /\ pcL' = "hold" /\ UnlockAny(last)
    BY <1>6 DEF Release, LoopFrame, world
  <2>2. ImgHolds /\ ImgHolds' /\ img # NoFrame
    BY <1>0, <2>1 DEF ImgHolds, HandInv
  <2>3. /\ {img, backup, last}' \subseteq Frames \cup {NoFrame} /\ pcL' \in LoopPC
        /\ shown' \in Seq(Frames) /\ display' \in Seq(Frames)
    BY <1>0, <2>1 DEF Types, LoopPC
  <2>4. IsInjective(free') => Once' BY <1>0, <2>1, <2>2 DEF Once
  <2>5. CASE last = NoFrame
    <3>1. UNCHANGED <<free, lock, pcD>> BY <2>1, <2>5 DEF UnlockAny
    <3>2. \A f \in Frames : References(f)' = References(f)
      BY <2>1, <2>2, <2>5 DEF References, One, LoopFrame
    <3>3. Once' BY <1>0, <2>4, <3>1
    <3> QED BY <2>1, <2>2, <2>3, <3>1, <3>2, <3>3, MoveStep
  <2>6. CASE last # NoFrame
    <3>1. PICK h \in Frames : h = last BY <1>0, <2>6 DEF Types
    <3>2. Unlock(h) BY <2>1, <2>6, <3>1 DEF UnlockAny
    <3>3. /\ References(h) # 0 /\ References(h)' = References(h) - 1
          /\ \A f \in Frames : f # h => References(f)' = References(f)
      BY <2>1, <2>2, <3>1 DEF References, One, LoopFrame
    <3> QED BY <2>1, <2>2, <2>3, <2>4, <3>2, <3>3, DropStep
  <2> QED BY <2>5, <2>6
<1>7. CASE Hold
  <2>1. /\ LoopFrame /\ UNCHANGED <<free, display, img, backup, shown, pcD>>
        /\ pcL = "hold" /\ pcL' = "show" /\ last' = img
        /\ lock' = [lock EXCEPT ![img] = @ + 1]
    BY <1>7 DEF Hold, LoopFrame, world, queues, decoder
  <2>2. ImgHolds /\ ImgHolds' BY <2>1 DEF ImgHolds
  <2>3. PICK g \in Frames : g = img BY <1>0, <2>2 DEF HandInv, Types
  <2>4. /\ References(g) # 0 /\ References(g)' = References(g) + 1
        /\ \A f \in Frames : f # g => References(f)' = References(f)
    BY <2>1, <2>2, <2>3 DEF References, One, LoopFrame
  <2>5. /\ lock' \in [Frames -> Int] /\ lock'[g] = lock[g] + 1
        /\ \A f \in Frames : f # g => lock'[f] = lock[f]
    BY <1>0, <2>1, <2>3 DEF Types
  <2>6. Counted'
    <3>1. g \notin Range(free) /\ lock[g] > 0 /\ References(g) = lock[g] /\ lock[g] \in Int
      BY <1>0, <2>4 DEF Counted, Types
    <3> QED BY <1>0, <2>1, <2>4, <2>5, <3>1 DEF Counted
  <2>7. Types' BY <1>0, <2>1, <2>3, <2>5 DEF Types, LoopPC, LoopFrame
  <2>8. HandInv' /\ Awake' BY <1>0, <2>1 DEF HandInv, Awake, ImgHolds, LoopFrame
  <2>9. Once' BY <1>0, <2>1, <2>2 DEF Once
  <2>10. g \notin held \ drawn
    <3> SUFFICES ASSUME g \in held \ drawn PROVE FALSE
      OBVIOUS
    <3>1. References(g) = 1 /\ g \in held BY <1>0 DEF Unshared
    <3> QED BY <2>2, <2>3, <3>1 DEF References, One, LoopFrame
  <2>11. Unshared' BY <1>0, <2>1, <2>4, <2>10 DEF Unshared, Types, LoopFrame
  <2> QED BY <2>6, <2>7, <2>8, <2>9, <2>11 DEF IInv
<1>8. CASE Show
  <2>1. /\ LoopFrame /\ UNCHANGED <<display, img, backup, last>>
        /\ pcL = "show" /\ pcL' = "wake"
        /\ \/ /\ Len(shown) = Recent /\ Unlock(Last(shown))
              /\ shown' = <<img>> \o Front(shown)
           \/ shown' = <<img>> \o shown /\ UNCHANGED <<free, lock, pcD>>
    BY <1>8 DEF Show, LoopFrame, world
  <2>2. ImgHolds /\ ~ImgHolds' BY <2>1 DEF ImgHolds
  <2>3. PICK g \in Frames : g = img BY <1>0, <2>2 DEF HandInv, Types
  <2>4. g # backup /\ g \notin Range(shown) /\ g \notin Range(display)
    BY <1>0, <2>2, <2>3 DEF Once
  <2>5. {img, backup, last}' \subseteq Frames \cup {NoFrame} /\ pcL' \in LoopPC
        /\ display' \in Seq(Frames)
    BY <1>0, <2>1 DEF Types, LoopPC
  <2>6. CASE shown' = <<img>> \o shown /\ UNCHANGED <<free, lock, pcD>>
    <3>1. shown' \in Seq(Frames) /\ Range(shown') = Range(shown) \cup {g} /\ IsInjective(shown')
      BY <1>0, <2>3, <2>4, <2>6, ConsSet
    <3>2. \A f \in Frames : References(f)' = References(f)
      BY <2>1, <2>2, <2>3, <2>4, <3>1 DEF References, One, LoopFrame
    <3>3. Once' BY <1>0, <2>1, <2>2, <2>3, <2>4, <2>6, <3>1 DEF Once
    <3> QED BY <2>1, <2>2, <2>5, <2>6, <3>1, <3>2, <3>3, MoveStep
  <2>7. CASE /\ Len(shown) = Recent /\ Unlock(Last(shown))
             /\ shown' = <<img>> \o Front(shown)
    <3>1. shown # << >> BY <1>0, <2>7, BoundAssumption
    <3>2. PICK h \in Frames : h = Last(shown) /\ h \in Range(shown)
      BY <1>0, <3>1, FrontSet
    <3>3. /\ Front(shown) \in Seq(Frames) /\ Range(Front(shown)) = Range(shown) \ {h}
          /\ IsInjective(Front(shown))
      BY <1>0, <3>1, <3>2, FrontSet
    <3>4. /\ shown' \in Seq(Frames) /\ Range(shown') = (Range(shown) \ {h}) \cup {g}
          /\ IsInjective(shown')
      BY <2>3, <2>4, <2>7, <3>3, ConsSet
    <3>5. h # g /\ Unlock(h) BY <2>4, <2>7, <3>2
    <3>6. /\ References(h) # 0 /\ References(h)' = References(h) - 1
          /\ \A f \in Frames : f # h => References(f)' = References(f)
      BY <2>1, <2>2, <2>3, <2>4, <3>2, <3>4, <3>5 DEF References, One, LoopFrame
    <3>7. IsInjective(free') => Once'
      BY <1>0, <2>1, <2>2, <2>3, <2>4, <3>4 DEF Once
    <3> QED BY <2>1, <2>2, <2>5, <3>4, <3>5, <3>6, <3>7, DropStep
  <2> QED BY <2>1, <2>6, <2>7
<1>9. CASE Drain
  <2>1. /\ LoopFrame /\ UNCHANGED <<img, backup, last, shown>>
        /\ pcL = "drain" /\ pcL' \in {"drain", "dropBackup"} /\ ~running
        /\ \/ display = << >> /\ UNCHANGED <<free, display, lock, pcD>>
           \/ display # << >> /\ display' = Tail(display) /\ Unlock(Head(display))
    BY <1>0, <1>9 DEF Drain, LoopFrame, world, HandInv
  <2>2. ~ImgHolds /\ ~ImgHolds' /\ pcL # "hold" /\ pcL' # "hold" BY <2>1 DEF ImgHolds
  <2>3. /\ {img, backup, last}' \subseteq Frames \cup {NoFrame} /\ pcL' \in LoopPC
        /\ shown' \in Seq(Frames)
    BY <1>0, <2>1 DEF Types, LoopPC
  <2>4. CASE UNCHANGED <<free, display, lock, pcD>>
    <3>1. \A f \in Frames : References(f)' = References(f)
      BY <2>1, <2>2, <2>4 DEF References, One, LoopFrame
    <3>2. Once' /\ display' \in Seq(Frames) BY <1>0, <2>1, <2>2, <2>4 DEF Once
    <3> QED BY <2>1, <2>2, <2>3, <2>4, <3>1, <3>2, MoveStep
  <2>5. CASE display # << >> /\ display' = Tail(display) /\ Unlock(Head(display))
    <3>1. PICK g \in Frames : g = Head(display) /\ g \in Range(display)
      BY <1>0, <2>5, TailSet
    <3>2. /\ display' \in Seq(Frames) /\ Range(display') = Range(display) \ {g}
          /\ IsInjective(display')
      BY <1>0, <2>5, <3>1, TailSet
    <3>3. /\ References(g) # 0 /\ References(g)' = References(g) - 1
          /\ \A f \in Frames : f # g => References(f)' = References(f)
      BY <2>1, <2>2, <3>1, <3>2 DEF References, One, LoopFrame
    <3>4. IsInjective(free') => Once' BY <1>0, <2>1, <2>2, <3>2 DEF Once
    <3> QED BY <2>1, <2>2, <2>3, <2>5, <3>1, <3>2, <3>3, <3>4, DropStep
  <2> QED BY <2>1, <2>4, <2>5
<1>10. CASE DropBackup \/ DropLast
  <2>1. /\ LoopFrame /\ UNCHANGED <<display, img, shown>> /\ ~running
        /\ pcL \in {"dropBackup", "dropLast"} /\ pcL' \in {"dropLast", "exited"}
        /\ \/ UnlockAny(backup) /\ backup' = NoFrame /\ last' = last
           \/ UnlockAny(last) /\ last' = NoFrame /\ backup' = backup
    BY <1>0, <1>10 DEF DropBackup, DropLast, LoopFrame, world, HandInv
  <2>2. ~ImgHolds /\ ~ImgHolds' /\ pcL # "hold" /\ pcL' # "hold" BY <2>1 DEF ImgHolds
  <2>3. /\ {img, backup, last}' \subseteq Frames \cup {NoFrame} /\ pcL' \in LoopPC
        /\ shown' \in Seq(Frames) /\ display' \in Seq(Frames)
    BY <1>0, <2>1 DEF Types, LoopPC
  <2>4. NoFrame \notin Range(display) /\ NoFrame \notin Range(shown)
    BY <1>0 DEF Range
  <2>5. IsInjective(free') => Once' BY <1>0, <2>1, <2>2, <2>4 DEF Once
  <2>6. ASSUME UNCHANGED <<backup, last>>, UNCHANGED <<free, lock, pcD>> PROVE IInv'
    <3>1. \A f \in Frames : References(f)' = References(f)
      BY <2>1, <2>2, <2>6 DEF References, One, LoopFrame
    <3> QED BY <1>0, <2>1, <2>2, <2>3, <2>5, <2>6, <3>1, MoveStep
  <2>7. ASSUME NEW h \in Frames, Unlock(h),
               \/ h = backup /\ backup' = NoFrame /\ last' = last
               \/ h = last /\ last' = NoFrame /\ backup' = backup
        PROVE  IInv'
    <3>1. /\ References(h) # 0 /\ References(h)' = References(h) - 1
          /\ \A f \in Frames : f # h => References(f)' = References(f)
      BY <2>1, <2>2, <2>7 DEF References, One, LoopFrame
    <3> QED BY <2>1, <2>2, <2>3, <2>5, <2>7, <3>1, DropStep
  <2>8. CASE UnlockAny(backup) /\ backup' = NoFrame /\ last' = last
    <3>1. CASE backup = NoFrame BY <2>6, <2>8, <3>1 DEF UnlockAny
    <3>2. CASE backup # NoFrame
      <4>1. backup \in Frames /\ Unlock(backup) BY <1>0, <2>8, <3>2 DEF UnlockAny, Types
      <4> QED BY <2>7, <2>8, <4>1
    <3> QED BY <3>1, <3>2
  <2>9. CASE UnlockAny(last) /\ last' = NoFrame /\ backup' = backup
    <3>1. CASE last = NoFrame BY <2>6, <2>9, <3>1 DEF UnlockAny
    <3>2. CASE last # NoFrame
      <4>1. last \in Frames /\ Unlock(last) BY <1>0, <2>9, <3>2 DEF UnlockAny, Types
      <4> QED BY <2>7, <2>9, <4>1
    <3> QED BY <3>1, <3>2
  <2> QED BY <2>1, <2>8, <2>9
<1>11. ~(PauseTest \/ Steal \/ Grab \/ PauseShow)
  BY <1>0 DEF PauseTest, Steal, Grab, PauseShow, Awake
<1> QED BY <1>1, <1>2, <1>3, <1>4, <1>5, <1>6, <1>7, <1>8, <1>9, <1>10, <1>11
        DEF LoopNext
-----------------------------------------------------------------------------
(* The threads that flush and the frontend move no frame.                  *)
LEMMA OthersStep ==
  ASSUME IInv, ~Pausing, (\E u \in Users : FlushNext(u)) \/ FrontNext
  PROVE  IInv'
<1>1. /\ UNCHANGED <<free, display, lock, held, drawn, backup, last, shown, hand, pcD, pcL,
                     img, paused, lockedForRead>>
      /\ running' = running \/ running' = FALSE
  <2>1. CASE \E u \in Users : FlushNext(u)
    BY <2>1 DEF FlushNext, Raise, FlushBegin, FlushPoll, FlushEnd, Lower, queues, frame,
                decoder, loop, world
  <2>2. CASE FrontNext
    BY <2>2 DEF FrontNext, Open, AwaitFirst, CopyBegin, CopyEnd, SetSpeed, Exit, queues,
                frame, decoder, loop, world
  <2> QED BY <2>1, <2>2
<1>2. HandInv' /\ Awake' BY <1>1 DEF IInv, HandInv, Awake, ImgHolds
<1> QED BY <1>1, <1>2, QuietStep DEF IInv, Types

LEMMA InitIInv == Init => IInv
<1> SUFFICES ASSUME Init PROVE IInv
  OBVIOUS
<1>1. free \in Seq(Frames) /\ Range(free) = Frames /\ IsInjective(free)
  <2>1. Cardinality(Frames) \in Nat BY FS_CardinalityType
  <2> DEFINE places == 1..Cardinality(Frames)
  <2>2. PICK f \in [places -> Frames] : IsInjective(f)
    <3>1. PICK n \in Nat : ExistsBijection(1..n, Frames) BY FS_NatBijection
    <3>2. Cardinality(Frames) = n BY <3>1, FS_CountingElements
    <3>3. PICK f \in Injection(1..n, Frames) : TRUE
      BY <3>1 DEF ExistsBijection, Bijection
    <3>4. f \in [1..n -> Frames] /\ IsInjective(f) BY <3>3 DEF Injection
    <3> QED BY <3>2, <3>4
  <2>3. free \in [places -> Frames] /\ IsInjective(free)
    BY <2>2 DEF Init, SetToSeq
  <2>4. free \in Injection(places, Frames) BY <2>3 DEF Injection
  <2>5. IsFiniteSet(places) /\ Cardinality(places) = Cardinality(Frames)
    BY <2>1, FS_Interval
  <2>6. free \in Surjection(places, Frames)
    BY <2>4, <2>5, FS_Injection
  <2>7. Range(free) = Frames BY <2>3, <2>6 DEF Surjection, Range
  <2> QED BY <2>1, <2>3, <2>7
<1>2. display = << >> /\ shown = << >> /\ Range(display) = {} /\ Range(shown) = {}
      /\ IsInjective(display) /\ IsInjective(shown)
  BY DEF Init, Range, IsInjective
<1>3. ~ImgHolds /\ HandInv /\ Awake BY DEF Init, ImgHolds, HandInv, Awake
<1>4. Types BY <1>1, <1>2 DEF Init, Types, LoopPC
<1>5. Once BY <1>1, <1>2, <1>3 DEF Init, Once
<1>6. \A f \in Frames : References(f) = 0
  BY <1>2, <1>3 DEF Init, References, One
<1>7. Counted BY <1>1, <1>6 DEF Counted
<1>8. Unshared BY DEF Init, Unshared
<1> QED BY <1>3, <1>4, <1>5, <1>7, <1>8 DEF IInv

LEMMA StepIInv == ~Pausing /\ IInv /\ [Next]_vars => IInv'
<1> SUFFICES ASSUME ~Pausing, IInv, [Next]_vars PROVE IInv'
  OBVIOUS
<1>1. CASE DecoderNext BY <1>1, DecoderStep
<1>2. CASE LoopNext BY <1>2, LoopStep
<1>3. CASE (\E u \in Users : FlushNext(u)) \/ FrontNext BY <1>3, OthersStep
<1>4. CASE UNCHANGED vars
  <2>1. UNCHANGED <<free, display, lock, held, drawn, backup, last, shown, hand, pcD, pcL,
                    img, running, paused, lockedForRead>>
    BY <1>4 DEF vars, queues, frame, decoder, loop, world
  <2>2. HandInv' /\ Awake' BY <2>1 DEF IInv, HandInv, Awake, ImgHolds
  <2> QED BY <2>1, <2>2, QuietStep DEF IInv, Types
<1> QED BY <1>1, <1>2, <1>3, <1>4 DEF Next

LEMMA FramesInvariant == ~Pausing => (Spec => []IInv)
<1> SUFFICES ASSUME ~Pausing PROVE Spec => []IInv
  OBVIOUS
<1>1. IInv /\ [Next]_vars => IInv' BY StepIInv
<1> QED BY <1>1, InitIInv, PTL DEF Spec

(* vo_frame_inc_lock and vo_frame_dec_lock account for every frame of a    *)
(* port that is not paused: a frame is queued at most once, it is in the   *)
(* free queue exactly when nothing refers to it, and its lock_counter is   *)
(* the number of its references.                                           *)
THEOREM VideoFramesAccounted == ~Pausing => (Spec => []FramesAccounted)
<1> SUFFICES ASSUME ~Pausing PROVE Spec => []FramesAccounted
  OBVIOUS
<1>1. IInv => FramesAccounted
  <2> SUFFICES ASSUME IInv PROVE FramesAccounted
    OBVIOUS
  <2>1. Types /\ Once /\ Counted BY DEF IInv
  <2>2. RefCount BY <2>1 DEF Counted, RefCount
  <2>3. Range(free) \cap Range(display) = {}
    <3> SUFFICES ASSUME NEW f \in Range(free), f \in Range(display) PROVE FALSE
      OBVIOUS
    <3>1. f \in Frames BY <2>1 DEF Types, Range
    <3>2. References(f) = 0 BY <2>1, <3>1 DEF Counted
    <3> QED BY <3>2 DEF References, One
  <2>4. QueuedOnce
    <3> DEFINE both == free \o display
               n == Len(free)
               m == Len(display)
    <3>1. free \in Seq(Frames) /\ display \in Seq(Frames) BY <2>1 DEF Types
    <3>2. /\ n \in Nat /\ m \in Nat /\ DOMAIN free = 1..n /\ DOMAIN display = 1..m
      BY <3>1
    <3>3. /\ both \in Seq(Frames) /\ Len(both) = n + m
          /\ \A i \in 1..n + m : both[i] = IF i <= n THEN free[i] ELSE display[i - n]
      BY <3>1, ConcatProperties
    <3>4. DOMAIN both = 1..n + m BY <3>3
    <3> HIDE DEF both, n, m
    <3>5. /\ \A i \in 1..n + m : i <= n => i \in DOMAIN free /\ both[i] = free[i]
          /\ \A i \in 1..n + m : ~(i <= n) => i - n \in DOMAIN display /\ both[i] = display[i - n]
      BY <3>2, <3>3
    <3> SUFFICES ASSUME NEW i \in 1..n + m, NEW j \in 1..n + m, both[i] = both[j]
                 PROVE  i = j
      BY <3>4 DEF QueuedOnce, IsInjective, both
    <3>6. CASE i <= n /\ j <= n BY <2>1, <3>5, <3>6 DEF Once, IsInjective
    <3>7. CASE i <= n /\ ~(j <= n) BY <2>3, <3>5, <3>7 DEF Range
    <3>8. CASE ~(i <= n) /\ j <= n BY <2>3, <3>5, <3>8 DEF Range
    <3>9. CASE ~(i <= n) /\ ~(j <= n)
      <4>1. i - n \in DOMAIN display /\ j - n \in DOMAIN display
            /\ display[i - n] = display[j - n]
        BY <3>5, <3>9
      <4>2. i - n = j - n BY <2>1, <4>1 DEF Once, IsInjective
      <4> QED BY <3>2, <4>2
    <3> QED BY <3>6, <3>7, <3>8, <3>9
  <2> QED BY <2>2, <2>4 DEF FramesAccounted
<1> QED BY <1>1, FramesInvariant, PTL

(* Between vo_get_frame and vo_frame_draw the decoder has the only         *)
(* reference to the frame it writes to.                                    *)
THEOREM VideoExclusiveWrite == ~Pausing => (Spec => []ExclusiveWrite)
<1> SUFFICES ASSUME ~Pausing PROVE Spec => []ExclusiveWrite
  OBVIOUS
<1>1. IInv => ExclusiveWrite BY DEF IInv, Unshared, ExclusiveWrite
<1> QED BY <1>1, FramesInvariant, PTL

(* The first frame after a seek leaves the display queue only to be shown, *)
(* whatever is discarded or too old (expire_frames), until the thread ends.*)
THEOREM VideoFirstIsShown == ~Pausing => (Spec => FirstIsShown)
<1> SUFFICES ASSUME ~Pausing PROVE Spec => FirstIsShown
  OBVIOUS
<1>1. ASSUME IInv, [Next]_vars, NEW f \in Range(display), isFirst[f], running,
             f \notin Range(display')
      PROVE  img' = f
  <2>1. /\ display \in Seq(Frames) /\ IsInjective(display) /\ Awake
        /\ (pcL = "drain" => ~running)
    BY <1>1 DEF IInv, Types, Once, HandInv
  <2>2. display # << >> BY <1>1 DEF Range
  <2>3. ASSUME display' = Tail(display) PROVE f = Head(display)
    BY <1>1, <2>1, <2>2, <2>3, TailSet
  <2>4. CASE UNCHANGED display BY <1>1, <2>4
  <2>5. CASE ExpireDiscard \/ ExpireOld
    BY <1>1, <2>2, <2>3, <2>5 DEF ExpireDiscard, ExpireOld, AtFirst
  <2>6. CASE NextTake BY <2>3, <2>6 DEF NextTake
  <2>7. CASE DrawAppend
    <3>1. hand \in Frames /\ display' = Append(display, hand)
      BY <1>1, <2>7 DEF DrawAppend, IInv, HandInv, Types
    <3> QED BY <1>1, <2>1, <3>1, AppendSet
  <2>8. CASE DecoderNext /\ ~DrawAppend
    <3>1. UNCHANGED display
      BY <2>8 DEF DecoderNext, CallGet, GetSleep, GetFrame, DrawMark, DecoderFree, queues
    <3> QED BY <2>4, <3>1
  <2>9. CASE LoopNext /\ ~(ExpireDiscard \/ ExpireOld \/ NextTake)
    <3>1. UNCHANGED display
      BY <1>1, <2>1, <2>9 DEF LoopNext, Top, ExpireStop, NextStill, NextNone, NextEarly,
         NextDue, Release, Hold, Show, Wake, Check, Sleep, PauseTest, Steal, Grab,
         PauseShow, Drain, DropBackup, DropLast, Awake, queues
    <3> QED BY <2>4, <3>1
  <2>10. CASE (\E u \in Users : FlushNext(u)) \/ FrontNext \/ UNCHANGED vars
    <3>1. UNCHANGED display
      BY <2>10 DEF FlushNext, Raise, FlushBegin, FlushPoll, FlushEnd, Lower, FrontNext, Open,
         AwaitFirst, CopyBegin, CopyEnd, SetSpeed, Exit, vars, queues
    <3> QED BY <2>4, <3>1
  <2> QED BY <1>1, <2>5, <2>6, <2>7, <2>8, <2>9, <2>10 DEF Next
<1>2. IInv /\ [Next]_vars =>
        [\A f \in Range(display) :
           isFirst[f] /\ running /\ f \notin Range(display') => img' = f]_vars
  BY <1>1
<1> QED BY <1>2, FramesInvariant, PTL DEF FirstIsShown, Spec

-----------------------------------------------------------------------------
(* The wake-up of the decoder holds in a pause as well: the paused loop    *)
(* keeps the free frames to itself only while locked_for_read says so.     *)
WakeInv ==
  /\ NoLostWakeup
  /\ pcL \in {"pauseTest", "steal", "grab", "redraw"} => lockedForRead

(* A thread that gives a frame back, or that ends a pause with frames      *)
(* free, signals not_empty: vo_get_frame never sleeps beside a frame that  *)
(* it may have.                                                            *)
THEOREM VideoNoLostWakeup == Spec => []NoLostWakeup
<1>1. Init => WakeInv BY DEF Init, WakeInv, NoLostWakeup
<1>2. WakeInv /\ [Next]_vars => WakeInv'
  <2> SUFFICES ASSUME WakeInv, [Next]_vars PROVE WakeInv'
    OBVIOUS
  <2> USE DEF WakeInv, NoLostWakeup, MayGet
  <2>1. ASSUME NEW f, Unlock(f) PROVE UNCHANGED <<free, pcD>> \/ pcD' # "asleep"
    BY <2>1 DEF Unlock, Signal
  <2>2. ASSUME NEW f, UnlockAny(f) PROVE UNCHANGED <<free, pcD>> \/ pcD' # "asleep"
    BY <2>1, <2>2 DEF UnlockAny
  <2>3. CASE DecoderNext
    BY <2>1, <2>3 DEF DecoderNext, CallGet, GetSleep, GetFrame, DrawMark, DrawAppend,
                      DecoderFree, loop, queues
  <2>4. CASE Top \/ ExpireStop \/ NextNone \/ NextEarly \/ Hold \/ Wake \/ Check
    BY <2>4 DEF Top, ExpireStop, NextNone, NextEarly, Hold, Wake, Check, queues, decoder
  <2>5. CASE ExpireDiscard \/ ExpireOld
    BY <2>1, <2>2, <2>5 DEF ExpireDiscard, ExpireOld
  <2>6. CASE NextStill \/ NextTake \/ PauseShow
    BY <2>6 DEF NextStill, NextTake, PauseShow, TakeDuplicate, decoder
  <2>7. CASE NextDue \/ Release \/ Show \/ Drain \/ DropBackup \/ DropLast
    BY <2>1, <2>2, <2>7 DEF NextDue, Release, Show, Drain, DropBackup, DropLast
  <2>8. CASE Sleep \/ PauseTest
    BY <2>8 DEF Sleep, PauseTest, Signal, decoder
  <2>9. CASE Steal \/ Grab
    BY <2>9 DEF Steal, Grab, decoder
  <2>10. CASE (\E u \in Users : FlushNext(u)) \/ FrontNext \/ UNCHANGED vars
    BY <2>10 DEF FlushNext, Raise, FlushBegin, FlushPoll, FlushEnd, Lower, FrontNext, Open,
         AwaitFirst, CopyBegin, CopyEnd, SetSpeed, Exit, vars, queues, decoder, loop
  <2> QED BY <2>3, <2>4, <2>5, <2>6, <2>7, <2>8, <2>9, <2>10 DEF Next, LoopNext
<1>3. WakeInv => NoLostWakeup BY DEF WakeInv
<1> QED BY <1>1, <1>2, <1>3, PTL DEF Spec

-----------------------------------------------------------------------------
(* The threads that ask for frames to be discarded, and those that do so   *)
(* twice, inside vo_flush.                                                 *)
Asking  == {u \in Users : pcU[u] # "idle"}
Waiting == {u \in Users : pcU[u] \in {"poll", "polled"}}

DiscardInv ==
  /\ pcU \in [Users -> UserPC] /\ discard \in Int /\ opens \in Nat
  /\ DiscardBalanced

(* discard_frames is raised and lowered in pairs, by any number of threads *)
(* in any order, as long as no vo_open sets it to 0 in between.            *)
THEOREM VideoDiscardBalanced == MaxOpens = 0 => (Spec => []DiscardBalanced)
<1> SUFFICES ASSUME MaxOpens = 0 PROVE Spec => []DiscardBalanced
  OBVIOUS
<1>1. Init => DiscardInv
  <2> SUFFICES ASSUME Init PROVE DiscardInv
    OBVIOUS
  <2>1. Asking = {} /\ Waiting = {} BY DEF Init, Asking, Waiting
  <2>2. Cardinality({}) = 0 BY FS_EmptySet
  <2>3. discard = 0 /\ opens = 0 BY DEF Init
  <2>4. pcU \in [Users -> UserPC] BY DEF Init, UserPC
  <2>5. DiscardBalanced BY <2>1, <2>2, <2>3 DEF DiscardBalanced, Asking, Waiting
  <2> QED BY <2>3, <2>4, <2>5 DEF DiscardInv
<1>2. DiscardInv /\ [Next]_vars => DiscardInv'
  <2> SUFFICES ASSUME DiscardInv, [Next]_vars PROVE DiscardInv'
    OBVIOUS
  <2>1. /\ pcU \in [Users -> UserPC] /\ discard \in Int /\ opens \in Nat
        /\ discard = Cardinality(Asking) + Cardinality(Waiting)
    BY DEF DiscardInv, DiscardBalanced, Asking, Waiting
  <2>2. /\ IsFiniteSet(Asking) /\ IsFiniteSet(Waiting)
        /\ Cardinality(Asking) \in Nat /\ Cardinality(Waiting) \in Nat
    BY UsersAssumption, FS_Subset, FS_CardinalityType DEF Asking, Waiting
  <2>3. ASSUME pcU' \in [Users -> UserPC], discard' \in Int, opens' = opens,
               discard' = Cardinality(Asking') + Cardinality(Waiting')
        PROVE  DiscardInv'
    BY <2>1, <2>3 DEF DiscardInv, DiscardBalanced, Asking, Waiting
  <2>4. CASE UNCHANGED flushes
    BY <2>1, <2>3, <2>4 DEF flushes, Asking, Waiting
  <2>5. ASSUME NEW u \in Users, FlushNext(u) PROVE DiscardInv'
    <3>1. CASE Raise(u)
      <4>1. /\ pcU[u] = "idle" /\ pcU' = [pcU EXCEPT ![u] = "raised"]
            /\ discard' = discard + 1 /\ opens' = opens
        BY <3>1 DEF Raise
      <4>2. Asking' = Asking \cup {u} /\ u \notin Asking /\ Waiting' = Waiting
        BY <2>1, <4>1 DEF Asking, Waiting
      <4>3. Cardinality(Asking') = Cardinality(Asking) + 1
        BY <2>2, <4>2, FS_AddElement
      <4>4. pcU' \in [Users -> UserPC] BY <2>1, <4>1 DEF UserPC
      <4> QED BY <2>1, <2>2, <2>3, <4>1, <4>2, <4>3, <4>4
    <3>2. CASE FlushBegin(u)
      <4>1. /\ pcU[u] = "raised" /\ pcU' = [pcU EXCEPT ![u] = "poll"]
            /\ discard' = discard + 1 /\ opens' = opens
        BY <3>2 DEF FlushBegin
      <4>2. Waiting' = Waiting \cup {u} /\ u \notin Waiting /\ Asking' = Asking
        BY <2>1, <4>1 DEF Asking, Waiting
      <4>3. Cardinality(Waiting') = Cardinality(Waiting) + 1
        BY <2>2, <4>2, FS_AddElement
      <4>4. pcU' \in [Users -> UserPC] BY <2>1, <4>1 DEF UserPC
      <4> QED BY <2>1, <2>2, <2>3, <4>1, <4>2, <4>3, <4>4
    <3>3. CASE FlushPoll(u)
      <4>1. /\ pcU[u] = "poll" /\ pcU' = [pcU EXCEPT ![u] = "polled"]
            /\ discard' = discard /\ opens' = opens
        BY <3>3 DEF FlushPoll
      <4>2. Waiting' = Waiting /\ Asking' = Asking
        BY <2>1, <4>1 DEF Asking, Waiting
      <4>3. pcU' \in [Users -> UserPC] BY <2>1, <4>1 DEF UserPC
      <4> QED BY <2>1, <2>3, <4>1, <4>2, <4>3
    <3>4. CASE FlushEnd(u)
      <4>1. /\ pcU[u] = "polled" /\ pcU' = [pcU EXCEPT ![u] = "flushed"]
            /\ discard' = discard - 1 /\ opens' = opens
        BY <3>4 DEF FlushEnd
      <4>2. Waiting' = Waiting \ {u} /\ u \in Waiting /\ Asking' = Asking
        BY <2>1, <4>1 DEF Asking, Waiting
      <4>3. Cardinality(Waiting') = Cardinality(Waiting) - 1
        BY <2>2, <4>2, FS_RemoveElement
      <4>4. pcU' \in [Users -> UserPC] BY <2>1, <4>1 DEF UserPC
      <4> QED BY <2>1, <2>2, <2>3, <4>1, <4>2, <4>3, <4>4
    <3>5. CASE Lower(u)
      <4>1. /\ pcU[u] = "flushed" /\ pcU' = [pcU EXCEPT ![u] = "idle"]
            /\ discard' = discard - 1 /\ opens' = opens
        BY <3>5 DEF Lower
      <4>2. Asking' = Asking \ {u} /\ u \in Asking /\ Waiting' = Waiting
        BY <2>1, <4>1 DEF Asking, Waiting
      <4>3. Cardinality(Asking') = Cardinality(Asking) - 1
        BY <2>2, <4>2, FS_RemoveElement
      <4>4. pcU' \in [Users -> UserPC] BY <2>1, <4>1 DEF UserPC
      <4> QED BY <2>1, <2>2, <2>3, <4>1, <4>2, <4>3, <4>4
    <3> QED BY <2>5, <3>1, <3>2, <3>3, <3>4, <3>5 DEF FlushNext
  <2>6. CASE DecoderNext
    <3>1. UNCHANGED flushes
      BY <2>6 DEF DecoderNext, CallGet, GetSleep, GetFrame, DrawMark, DrawAppend, DecoderFree
    <3> QED BY <2>4, <3>1
  <2>7. CASE LoopNext
    <3>1. UNCHANGED flushes
      BY <2>7 DEF LoopNext, Top, ExpireStop, ExpireDiscard, ExpireOld, NextStill, NextNone,
         NextEarly, NextDue, NextTake, Release, Hold, Show, Wake, Check, Sleep, PauseTest,
         Steal, Grab, PauseShow, Drain, DropBackup, DropLast
    <3> QED BY <2>4, <3>1
  <2>8. CASE FrontNext \/ UNCHANGED vars
    <3>1. ~Open BY <2>1 DEF Open
    <3>2. UNCHANGED flushes
      BY <2>8, <3>1 DEF FrontNext, AwaitFirst, CopyBegin, CopyEnd, SetSpeed, Exit, vars
    <3> QED BY <2>4, <3>2
  <2> QED BY <2>5, <2>6, <2>7, <2>8 DEF Next
<1>3. DiscardInv => DiscardBalanced BY DEF DiscardInv
<1> QED BY <1>1, <1>2, <1>3, PTL DEF Spec

-----------------------------------------------------------------------------
(* Types, in a pause as well.                                              *)
TypeInv == TypeOK /\ HandInv

LEMMA UnlockTypes ==
  ASSUME TypeInv, NEW f \in Frames, Unlock(f)
  PROVE  /\ free' \in Seq(Frames) /\ lock' \in [Frames -> Int]
         /\ pcD' \in {"idle", "get", "asleep", "draw"} /\ (pcD' = "draw" <=> pcD = "draw")
<1>1. free \in Seq(Frames) /\ lock \in [Frames -> Int]
      /\ pcD \in {"idle", "get", "asleep", "draw"}
  BY DEF TypeInv, TypeOK
<1>2. lock' \in [Frames -> Int] BY <1>1 DEF Unlock
<1>3. CASE lock[f] = 1
  <2>1. free' = Append(free, f) /\ pcD' = (IF pcD = "asleep" THEN "get" ELSE pcD)
    BY <1>3 DEF Unlock, Signal
  <2>2. free' \in Seq(Frames) BY <1>1, <2>1
  <2>3. pcD' \in {"idle", "get", "asleep", "draw"} /\ (pcD' = "draw" <=> pcD = "draw")
    BY <1>1, <2>1
  <2> QED BY <1>2, <2>2, <2>3
<1>4. CASE lock[f] # 1 BY <1>1, <1>2, <1>4 DEF Unlock
<1> QED BY <1>3, <1>4

LEMMA UnlockAnyTypes ==
  ASSUME TypeInv, NEW f \in Frames \cup {NoFrame}, UnlockAny(f)
  PROVE  /\ free' \in Seq(Frames) /\ lock' \in [Frames -> Int]
         /\ pcD' \in {"idle", "get", "asleep", "draw"} /\ (pcD' = "draw" <=> pcD = "draw")
<1>1. CASE f = NoFrame BY <1>1 DEF UnlockAny, TypeInv, TypeOK
<1>2. CASE f # NoFrame BY <1>2, UnlockTypes DEF UnlockAny
<1> QED BY <1>1, <1>2

LEMMA TakeTypes ==
  ASSUME TypeInv, free # << >>, TakeDuplicate
  PROVE  Head(free) \in Frames /\ free' \in Seq(Frames) /\ lock' \in [Frames -> Int]
<1>1. free \in Seq(Frames) /\ lock \in [Frames -> Int] BY DEF TypeInv, TypeOK
<1> QED BY <1>1 DEF TakeDuplicate

LEMMA DecoderTypes == TypeInv /\ DecoderNext => TypeInv'
<1> SUFFICES ASSUME TypeInv, DecoderNext PROVE TypeInv'
  OBVIOUS
<1> USE DEF TypeInv
<1>0. pcL \in LoopPC /\ {hand, img, backup, last} \subseteq Frames \cup {NoFrame}
  BY DEF TypeOK
<1>1. CASE CallGet
  BY <1>1 DEF CallGet, TypeOK, HandInv, ImgHolds, queues, frame, loop, flushes, player, world
<1>2. CASE GetSleep
  BY <1>2 DEF GetSleep, TypeOK, HandInv, ImgHolds, queues, frame, loop, flushes, player, world
<1>3. CASE GetFrame
  <2>1. Head(free) \in Frames /\ free' \in Seq(Frames) /\ lock' \in [Frames -> Int]
    BY <1>3, TakeTypes DEF GetFrame, MayGet, TakeDuplicate
  <2> QED BY <1>3, <2>1 DEF GetFrame, TypeOK, HandInv, ImgHolds, loop, flushes, player, world
<1>4. CASE DrawAppend
  <2>1. hand \in held /\ hand \in Frames /\ pcL # "dup"
    BY <1>4 DEF DrawAppend, HandInv, TypeOK, DisplayMutexTaken
  <2>2. display' \in Seq(Frames) /\ lock' \in [Frames -> Int]
    BY <1>4, <2>1 DEF DrawAppend, TypeOK
  <2> QED BY <1>4, <2>1, <2>2 DEF DrawAppend, TypeOK, HandInv, ImgHolds, loop, flushes,
                                  player, world
<1>5. ASSUME NEW f \in Frames, DrawMark(f) PROVE TypeInv'
  <2>1. draws' \in 0..MaxDraws BY <1>5, BoundAssumption DEF DrawMark, TypeOK
  <2> QED BY <1>5, <2>1 DEF DrawMark, TypeOK, HandInv, ImgHolds, queues, loop, flushes, world
<1>6. ASSUME NEW f \in Frames, DecoderFree(f) PROVE TypeInv'
  <2>1. /\ free' \in Seq(Frames) /\ lock' \in [Frames -> Int]
        /\ pcD' \in {"idle", "get", "asleep", "draw"} /\ (pcD' = "draw" <=> pcD = "draw")
    BY <1>6, UnlockTypes DEF DecoderFree
  <2> QED BY <1>6, <2>1 DEF DecoderFree, TypeOK, HandInv, ImgHolds, loop, flushes, player,
                            world
<1> QED BY <1>1, <1>2, <1>3, <1>4, <1>5, <1>6 DEF DecoderNext

LEMMA LoopTypes == TypeInv /\ LoopNext => TypeInv'
<1> SUFFICES ASSUME TypeInv, LoopNext PROVE TypeInv'
  OBVIOUS
<1> USE DEF TypeInv
<1>0. /\ display \in Seq(Frames) /\ shown \in Seq(Frames) /\ redraw \in 0..4
      /\ {img, backup, last} \subseteq Frames \cup {NoFrame}
  BY DEF TypeOK
<1>1. CASE Top \/ ExpireStop \/ NextEarly
  <2>1. /\ UNCHANGED <<queues, frame, decoder, img, backup, last, shown, redraw, flushes,
                       player, world>>
        /\ pcL' \in {"expire", "drain", "nextNow", "next", "check"}
        /\ pcL' = "drain" => ~running
    BY <1>1 DEF Top, ExpireStop, NextEarly
  <2> QED BY <2>1 DEF TypeOK, HandInv, ImgHolds, LoopPC, queues, frame, decoder, flushes,
                      player, world
<1>2. CASE ExpireDiscard \/ ExpireOld
  <2>1. display # << >> /\ Head(display) \in Frames /\ Tail(display) \in Seq(Frames)
    BY <1>0, <1>2 DEF ExpireDiscard, ExpireOld
  <2>2. /\ free' \in Seq(Frames) /\ lock' \in [Frames -> Int]
        /\ pcD' \in {"idle", "get", "asleep", "draw"} /\ (pcD' = "draw" <=> pcD = "draw")
    <3>1. CASE UNCHANGED <<free, lock, pcD>> BY <3>1 DEF TypeOK
    <3>2. CASE Unlock(Head(display)) \/ UnlockAny(backup)
      BY <1>0, <2>1, <3>2, UnlockTypes, UnlockAnyTypes
    <3> QED BY <1>2, <3>1, <3>2 DEF ExpireDiscard, ExpireOld
  <2>3. backup' \in Frames \cup {NoFrame} /\ redraw' \in 0..4
    BY <1>0, <1>2, <2>1 DEF ExpireDiscard, ExpireOld
  <2>4. display' \in Seq(Frames) BY <1>2, <2>1 DEF ExpireDiscard, ExpireOld
  <2>5. pcL = "expire" /\ UNCHANGED <<lockedForRead, isFirst, held, drawn, hand, draws, pcL,
                                      img, last, shown, flushes, player, world>>
    BY <1>2 DEF ExpireDiscard, ExpireOld
  <2> QED BY <2>2, <2>3, <2>4, <2>5 DEF TypeOK, HandInv, ImgHolds, flushes, player, world
<1>3. CASE NextNone \/ Check
  <2>1. redraw' \in 0..4 BY <1>0, <1>3 DEF NextNone, Check, Redraws
  <2> QED BY <1>3, <2>1 DEF NextNone, Check, TypeOK, HandInv, ImgHolds, LoopPC, queues, frame,
                            decoder, flushes, player, world
<1>4. CASE NextStill
  <2>1. CASE free = << >>
    BY <1>4, <2>1 DEF NextStill, TypeOK, HandInv, ImgHolds, LoopPC, decoder, flushes, player,
                      world
  <2>2. CASE free # << >>
    <3>1. Head(free) \in Frames /\ free' \in Seq(Frames) /\ lock' \in [Frames -> Int]
      BY <1>4, <2>2, TakeTypes DEF NextStill
    <3> QED BY <1>4, <2>2, <3>1 DEF NextStill, Duplicated, TypeOK, HandInv, ImgHolds, LoopPC,
                                    decoder, flushes, player, world
  <2> QED BY <2>1, <2>2
<1>5. CASE NextDue
  <2>1. /\ free' \in Seq(Frames) /\ lock' \in [Frames -> Int]
        /\ pcD' \in {"idle", "get", "asleep", "draw"} /\ (pcD' = "draw" <=> pcD = "draw")
    BY <1>0, <1>5, UnlockAnyTypes DEF NextDue
  <2> QED BY <1>5, <2>1 DEF NextDue, TypeOK, HandInv, ImgHolds, LoopPC, flushes, player, world
<1>6. CASE NextTake
  <2>1. Head(display) \in Frames /\ Tail(display) \in Seq(Frames)
    BY <1>0, <1>6 DEF NextTake, HandInv
  <2>2. free' \in Seq(Frames) /\ lock' \in [Frames -> Int]
        /\ backup' \in Frames \cup {NoFrame}
    <3>1. CASE UNCHANGED <<free, lock, backup>> BY <3>1 DEF TypeOK
    <3>2. CASE free # << >> /\ TakeDuplicate /\ backup' = Head(free)
      BY <3>2, TakeTypes
    <3> QED BY <1>6, <3>1, <3>2 DEF NextTake, Duplicated
  <2> QED BY <1>6, <2>1, <2>2 DEF NextTake, TypeOK, HandInv, ImgHolds, LoopPC, decoder, flushes,
                                  player, world
<1>7. CASE Release
  <2>1. /\ free' \in Seq(Frames) /\ lock' \in [Frames -> Int]
        /\ pcD' \in {"idle", "get", "asleep", "draw"} /\ (pcD' = "draw" <=> pcD = "draw")
    BY <1>0, <1>7, UnlockAnyTypes DEF Release
  <2> QED BY <1>7, <2>1 DEF Release, TypeOK, HandInv, ImgHolds, LoopPC, flushes, player, world
<1>8. CASE Hold
  <2>1. lock' \in [Frames -> Int]
    <3>1. img \in Frames BY <1>0, <1>8 DEF Hold, HandInv, ImgHolds
    <3> QED BY <1>8, <3>1 DEF Hold, TypeOK
  <2> QED BY <1>8, <2>1 DEF Hold, TypeOK, HandInv, ImgHolds, LoopPC, queues, decoder, flushes,
                            player, world
<1>9. CASE Show
  <2>1. img \in Frames BY <1>0, <1>9 DEF Show, HandInv, ImgHolds
  <2>2. CASE shown' = <<img>> \o shown /\ UNCHANGED <<free, lock, pcD>>
    <3>1. shown' \in Seq(Frames) BY <1>0, <2>1, <2>2, ConsSet
    <3> QED BY <1>9, <2>2, <3>1 DEF Show, TypeOK, HandInv, ImgHolds, LoopPC, flushes, player,
                                    world
  <2>3. CASE Len(shown) = Recent /\ Unlock(Last(shown)) /\ shown' = <<img>> \o Front(shown)
    <3>1. Len(shown) \in Nat /\ Len(shown) >= 1 /\ \A i \in 1..Len(shown) : shown[i] \in Frames
      BY <1>0, <2>3, BoundAssumption
    <3>2. Last(shown) \in Frames BY <3>1 DEF Last
    <3>3. Front(shown) \in Seq(Frames) BY <3>1 DEF Front
    <3>4. shown' \in Seq(Frames) BY <2>1, <2>3, <3>3, ConsSet
    <3>5. /\ free' \in Seq(Frames) /\ lock' \in [Frames -> Int]
          /\ pcD' \in {"idle", "get", "asleep", "draw"} /\ (pcD' = "draw" <=> pcD = "draw")
      BY <2>3, <3>2, UnlockTypes
    <3> QED BY <1>9, <3>4, <3>5 DEF Show, TypeOK, HandInv, ImgHolds, LoopPC, flushes, player,
                                    world
  <2> QED BY <1>9, <2>2, <2>3 DEF Show
<1>10. CASE Wake
  <2>1. redraw' \in 0..4 /\ firstFlag' \in 0..2 BY <1>10 DEF Wake, TypeOK
  <2> QED BY <1>10, <2>1 DEF Wake, TypeOK, HandInv, ImgHolds, LoopPC, queues, frame, decoder,
                             flushes, world
<1>11. CASE Sleep
  BY <1>11 DEF Sleep, TypeOK, HandInv, ImgHolds, LoopPC, frame, decoder, flushes, player, world
<1>12. CASE PauseTest
  <2>1. pcD' \in {"idle", "get", "asleep", "draw"} /\ (pcD' = "draw" <=> pcD = "draw")
    BY <1>12 DEF PauseTest, Signal, TypeOK
  <2> QED BY <1>12, <2>1 DEF PauseTest, TypeOK, HandInv, ImgHolds, LoopPC, frame, flushes,
                             player, world
<1>13. CASE Steal
  <2>1. free' \in Seq(Frames) /\ display' \in Seq(Frames)
    <3>1. CASE UNCHANGED <<free, display>> BY <3>1 DEF TypeOK
    <3>2. CASE display # << >> /\ free' = <<Head(display)>> /\ display' = Tail(display)
      BY <1>0, <3>2
    <3> QED BY <1>13, <3>1, <3>2 DEF Steal
  <2> QED BY <1>13, <2>1 DEF Steal, TypeOK, HandInv, ImgHolds, LoopPC, frame, decoder, flushes,
                             player, world
<1>14. CASE Grab
  <2>1. /\ backup' \in Frames \cup {NoFrame} /\ display' \in Seq(Frames) /\ redraw' \in 0..4
    <3>1. CASE UNCHANGED <<backup, display, redraw>> BY <3>1 DEF TypeOK
    <3>2. CASE /\ display # << >> /\ backup' = Head(display) /\ display' = Tail(display)
               /\ redraw' = 1
      BY <1>0, <3>2
    <3> QED BY <1>14, <3>1, <3>2 DEF Grab
  <2> QED BY <1>14, <2>1 DEF Grab, TypeOK, HandInv, ImgHolds, LoopPC, frame, decoder, flushes,
                             player, world
<1>15. CASE PauseShow
  <2>1. redraw' \in 0..4 BY <1>0, <1>15 DEF PauseShow, Redraws
  <2>2. CASE UNCHANGED <<free, lock, img>> /\ pcL' = "pauseTest"
    BY <1>15, <2>1, <2>2 DEF PauseShow, TypeOK, HandInv, ImgHolds, LoopPC, decoder, flushes,
                             player, world
  <2>3. CASE /\ free # << >> /\ TakeDuplicate /\ img' = Head(free) /\ pcL' = "release"
    <3>1. Head(free) \in Frames /\ free' \in Seq(Frames) /\ lock' \in [Frames -> Int]
      BY <2>3, TakeTypes
    <3> QED BY <1>15, <2>1, <2>3, <3>1 DEF PauseShow, TypeOK, HandInv, ImgHolds, LoopPC,
                                           decoder, flushes, player, world
  <2> QED BY <1>15, <2>2, <2>3 DEF PauseShow, Duplicated
<1>16. CASE Drain
  <2>1. CASE UNCHANGED <<free, display, lock, pcD>>
    BY <1>16, <2>1 DEF Drain, TypeOK, HandInv, ImgHolds, LoopPC, flushes, player, world
  <2>2. CASE display # << >> /\ Unlock(Head(display)) /\ display' = Tail(display)
    <3>1. Head(display) \in Frames /\ Tail(display) \in Seq(Frames) BY <1>0, <2>2
    <3>2. /\ free' \in Seq(Frames) /\ lock' \in [Frames -> Int]
          /\ pcD' \in {"idle", "get", "asleep", "draw"} /\ (pcD' = "draw" <=> pcD = "draw")
      BY <2>2, <3>1, UnlockTypes
    <3> QED BY <1>16, <2>2, <3>1, <3>2 DEF Drain, TypeOK, HandInv, ImgHolds, LoopPC, flushes,
                                           player, world
  <2> QED BY <1>16, <2>1, <2>2 DEF Drain
<1>17. CASE DropBackup \/ DropLast
  <2>1. /\ free' \in Seq(Frames) /\ lock' \in [Frames -> Int]
        /\ pcD' \in {"idle", "get", "asleep", "draw"} /\ (pcD' = "draw" <=> pcD = "draw")
    BY <1>0, <1>17, UnlockAnyTypes DEF DropBackup, DropLast
  <2>2. /\ UNCHANGED <<lockedForRead, display, isFirst, held, drawn, hand, draws, img, shown,
                       redraw, flushes, player, world>>
        /\ backup' \in {backup, NoFrame} /\ last' \in {last, NoFrame}
        /\ pcL \in {"dropBackup", "dropLast"} /\ pcL' \in {"dropLast", "exited"}
    BY <1>17 DEF DropBackup, DropLast
  <2> QED BY <2>1, <2>2 DEF TypeOK, HandInv, ImgHolds, LoopPC, flushes, player, world
<1> QED BY <1>1, <1>2, <1>3, <1>4, <1>5, <1>6, <1>7, <1>8, <1>9, <1>10, <1>11, <1>12, <1>13,
           <1>14, <1>15, <1>16, <1>17
        DEF LoopNext

LEMMA OthersTypes ==
  TypeInv /\ ((\E u \in Users : FlushNext(u)) \/ FrontNext \/ UNCHANGED vars) => TypeInv'
<1> SUFFICES ASSUME TypeInv, (\E u \in Users : FlushNext(u)) \/ FrontNext \/ UNCHANGED vars
             PROVE  TypeInv'
  OBVIOUS
<1> USE DEF TypeInv
<1>1. ASSUME NEW u \in Users, FlushNext(u) PROVE TypeInv'
  <2>1. pcU' \in [Users -> UserPC] /\ discard' \in Int
    <3>1. /\ \E l \in UserPC : pcU' = [pcU EXCEPT ![u] = l]
          /\ discard' \in {discard, discard + 1, discard - 1}
      BY <1>1 DEF FlushNext, Raise, FlushBegin, FlushPoll, FlushEnd, Lower, UserPC
    <3> QED BY <3>1 DEF TypeOK
  <2>2. UNCHANGED <<queues, frame, decoder, loop, opens, player, world>>
    BY <1>1 DEF FlushNext, Raise, FlushBegin, FlushPoll, FlushEnd, Lower
  <2> QED BY <2>1, <2>2 DEF TypeOK, HandInv, ImgHolds, queues, frame, decoder, loop, player,
                            world
<1>2. CASE FrontNext
  <2>1. UNCHANGED <<queues, frame, decoder, loop, pcU>>
        /\ (running' = running \/ running' = FALSE)
    BY <1>2 DEF FrontNext, Open, AwaitFirst, CopyBegin, CopyEnd, SetSpeed, Exit, flushes, world
  <2>2. discard' \in Int /\ opens' \in 0..MaxOpens
    <3>1. UNCHANGED flushes \/ (discard' = 0 /\ opens' = opens + 1 /\ opens < MaxOpens)
      BY <1>2 DEF FrontNext, Open, AwaitFirst, CopyBegin, CopyEnd, SetSpeed, Exit
    <3> QED BY <3>1, BoundAssumption DEF flushes, TypeOK
  <2>3. firstFlag' \in 0..2 /\ plays' \in 0..MaxPlays /\ marked' \in Frames \cup {NoFrame}
    <3>1. UNCHANGED player \/ (plays' = plays + 1 /\ plays < MaxPlays /\ firstFlag' = 2
                                 /\ marked' = NoFrame)
      BY <1>2 DEF FrontNext, Open, AwaitFirst, CopyBegin, CopyEnd, SetSpeed, Exit
    <3>2. CASE UNCHANGED player BY <3>2 DEF player, TypeOK
    <3>3. CASE /\ plays' = plays + 1 /\ plays < MaxPlays /\ firstFlag' = 2
               /\ marked' = NoFrame
      BY <3>3, BoundAssumption DEF TypeOK
    <3> QED BY <3>1, <3>2, <3>3
  <2>4. copying' \in Frames \cup {NoFrame} /\ paused' \in BOOLEAN /\ running' \in BOOLEAN
    BY <1>2 DEF FrontNext, Open, AwaitFirst, CopyBegin, CopyEnd, SetSpeed, Exit, world, TypeOK
  <2> QED BY <2>1, <2>2, <2>3, <2>4 DEF TypeOK, HandInv, ImgHolds, queues, frame, decoder, loop
<1>3. CASE UNCHANGED vars
  BY <1>3 DEF vars, TypeOK, HandInv, ImgHolds, queues, frame, decoder, loop, flushes, player,
              world
<1> QED BY <1>1, <1>2, <1>3

(* The variables of the port keep their types; in particular no NULL is    *)
(* queued, counted or shown, and redraw_needed does not pass its bounds.   *)
THEOREM VideoTypeCorrect == Spec => []TypeOK
<1>1. Init => TypeInv
  <2> SUFFICES ASSUME Init PROVE TypeInv
    OBVIOUS
  <2>1. free \in Seq(Frames) BY InitIInv DEF IInv, Types
  <2>2. HandInv BY InitIInv DEF IInv
  <2>3. /\ lock \in [Frames -> Int] /\ isFirst \in [Frames -> BOOLEAN]
        /\ pcU \in [Users -> UserPC]
    BY DEF Init, UserPC
  <2>4. draws \in 0..MaxDraws /\ plays \in 0..MaxPlays /\ opens \in 0..MaxOpens
    BY BoundAssumption DEF Init
  <2>5. display \in Seq(Frames) /\ shown \in Seq(Frames) BY DEF Init
  <2>6. /\ lockedForRead \in BOOLEAN /\ paused \in BOOLEAN /\ running \in BOOLEAN
    BY DEF Init
  <2>7. /\ {hand, img, backup, last, marked, copying} \subseteq Frames \cup {NoFrame}
        /\ held \subseteq Frames /\ drawn \subseteq held
        /\ pcD \in {"idle", "get", "asleep", "draw"} /\ pcL \in LoopPC
        /\ redraw \in 0..4 /\ firstFlag \in 0..2 /\ discard \in Int
    BY DEF Init, LoopPC
  <2>8. TypeOK BY <2>1, <2>3, <2>4, <2>5, <2>6, <2>7 DEF TypeOK
  <2> QED BY <2>2, <2>8 DEF TypeInv
<1>2. TypeInv /\ [Next]_vars => TypeInv'
  BY DecoderTypes, LoopTypes, OthersTypes DEF Next
<1>3. TypeInv => TypeOK BY DEF TypeInv
<1> QED BY <1>1, <1>2, <1>3, PTL DEF Spec
=============================================================================
