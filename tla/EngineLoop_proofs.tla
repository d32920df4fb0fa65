---------------------------- MODULE EngineLoop_proofs ----------------------------
(***************************************************************************)
(* For every frame rate and every way time is spent: once the loop is      *)
(* started, and until the tick counter wraps around, it keeps its pace,    *)
(* sleeps for a frame at most, and skips no more frames than it must to    *)
(* make up for lost time.                                                  *)
(***************************************************************************)
EXTENDS EngineLoop, TLAPS

Spare == msec_per_frame_ - Usual

\* How late the loop is, and how far ahead, in each part of an iteration.
Timely ==
  /\ pc = "script" => /\ wanted_ <= clock + 2
                      /\ clock - wanted_ <= lost - skipped * Spare
  /\ pc # "script" => /\ now <= clock
                      /\ wanted_ <= now + msec_per_frame_ + 2
                      /\ now + msec_per_frame_ - wanted_ <= lost - skipped * Spare
  /\ pc = "draw" => wanted_ <= clock + 2
  /\ skipped * Spare <= lost

LoopInv == TypeOK /\ (Unwrapped /\ started => Timely)

-----------------------------------------------------------------------------
\* A word that has not wrapped around is the number it stands for.
LEMMA Small == ASSUME NEW x \in Nat, x < Word PROVE x % Word = x
BY WordAssumption

\* Words are numbers below the wrap.
LEMMA WordType == ASSUME NEW x \in Int PROVE x % Word \in 0 .. Word - 1
BY WordAssumption

\* The spare time of one more frame.
LEMMA SpareOfNext == /\ Spare \in Nat \ {0}
                     /\ \A i \in Nat : i * Spare \in Nat /\ (i + 1) * Spare = i * Spare + Spare
<1>1. Spare \in Nat \ {0}
  BY UsualAssumption, FrameAssumption DEF Spare
<1> QED
  BY <1>1

\* Before a time at which the counter has not wrapped around it has not either.
LEMMA Earlier ==
  ASSUME NEW c \in Nat, NEW d \in Nat, c <= d, d + msec_per_frame_ + 3 < Word
  PROVE  c + msec_per_frame_ + 3 < Word
BY FrameAssumption, WordAssumption

\* Such a time is a word.
LEMMA IsWord ==
  ASSUME NEW c \in Nat, c + msec_per_frame_ + 3 < Word PROVE c < Word
BY FrameAssumption, WordAssumption

\* A time is at most the usual one and the excess over it.
LEMMA ExcessBounds ==
  ASSUME NEW x \in Int PROVE Excess(x) \in Nat /\ x <= Usual + Excess(x)
BY UsualAssumption DEF Excess

\* The account of a skipped frame that began at n, was due at w and ended at c:
\* what it used over the usual time is added to the lost time l, and its spare
\* time to the time u that the skipped frames have made up for.
LEMMA SkippedFrameAccount ==
  ASSUME NEW c \in Int, NEW w \in Int, NEW n \in Int, NEW e \in Nat,
         NEW l \in Nat, NEW u \in Nat, n <= c, w < n,
         c - n <= Usual + e, n + msec_per_frame_ - w <= l - u
  PROVE  /\ c - w <= (l + e) - (u + Spare)
         /\ u + Spare <= l + e
         /\ w <= c + 2
<1>1. c - w <= (l + e) - (u + Spare)
  BY UsualAssumption, FrameAssumption DEF Spare
<1>2. c - w > 0 /\ Spare \in Int
  BY UsualAssumption, FrameAssumption DEF Spare
<1> QED
  BY <1>1, <1>2

\* Whatever wanted_ is, nothing is promised before start.
LEMMA InitLoopInv == Init => LoopInv
<1> SUFFICES ASSUME Init PROVE LoopInv
  OBVIOUS
<1>1. wanted_ \in 0 .. Word - 1 /\ 0 \in 0 .. Word - 1
  BY WordAssumption, GarbageAssumption DEF Init
<1> QED
  BY <1>1 DEF Init, LoopInv, TypeOK

\* start puts the loop on time, however late or early it was.
LEMMA StartInv == ASSUME LoopInv, start PROVE LoopInv'
<1>1. PICK c \in Costs : clock' = clock + c
  BY DEF start
<1>2. clock' \in Nat
  BY <1>1, CostsAssumption DEF LoopInv, TypeOK
<1>3. TypeOK'
  BY <1>2, WordType DEF start, LoopInv, TypeOK
<1>4. ASSUME Unwrapped' PROVE Timely'
  <2>1. wanted_' = clock'
    <3>1. clock' < Word
      <4>1. clock' + msec_per_frame_ + 3 < Word
        BY <1>4 DEF Unwrapped
      <4> QED
        BY <1>2, <4>1, IsWord
    <3> QED
      BY <1>2, <3>1, Small DEF start
  <2>2. 0 * Spare = 0
    BY SpareOfNext
  <2> QED
    BY <1>2, <2>1, <2>2 DEF start, Timely
<1> QED
  BY <1>3, <1>4 DEF LoopInv

\* What is read at the beginning of an iteration, and when the frame is due.
LEMMA BeginInv == ASSUME LoopInv, Begin PROVE LoopInv'
<1>1. PICK c \in Costs : clock' = clock + c
  BY DEF Begin
<1>2. clock' \in Nat /\ clock' >= clock
  BY <1>1, CostsAssumption DEF LoopInv, TypeOK
<1>3. TypeOK'
  BY <1>2, WordType, FrameAssumption DEF Begin, LoopInv, TypeOK, GetTicks
<1>4. ASSUME Unwrapped', started' PROVE Timely'
  <2>1. Unwrapped /\ started /\ Timely
    BY <1>2, <1>4, Earlier DEF Begin, LoopInv, Unwrapped, TypeOK
  <2>2. now' = clock
    BY <2>1, Small, FrameAssumption, WordAssumption
    DEF Begin, GetTicks, Unwrapped, LoopInv, TypeOK
  <2>3. wanted_' = wanted_ + msec_per_frame_
    <3>1. wanted_ + msec_per_frame_ \in Nat /\ wanted_ + msec_per_frame_ < Word
      BY <2>1, FrameAssumption, WordAssumption
      DEF Begin, Unwrapped, Timely, LoopInv, TypeOK
    <3> QED
      BY <3>1, Small DEF Begin
  <2>4. skipped * Spare \in Nat
    BY SpareOfNext DEF LoopInv, TypeOK
  <2> QED
    BY <1>2, <2>1, <2>2, <2>3, <2>4, FrameAssumption
    DEF Begin, Timely, LoopInv, TypeOK
<1> QED
  BY <1>3, <1>4 DEF LoopInv

\* SDL_Delay is asked for the time that is left, less a millisecond.
LEMMA SleepBounds ==
  ASSUME LoopInv, pc = "wait", Unwrapped, started
  PROVE  /\ Sleep \in Nat /\ Sleep <= msec_per_frame_ + 1
         /\ wanted_ <= clock + Sleep + 2
<1>1. now + 2 < Word /\ now + 2 \in Nat
  BY FrameAssumption, WordAssumption DEF LoopInv, Timely, Unwrapped, TypeOK
<1>2. (now + 2) % Word = now + 2
  BY <1>1, Small
<1>3. CASE Early
  <2>1. wanted_ > now + 2
    BY <1>2, <1>3 DEF Early
  <2>2. wanted_ - now - 1 \in Nat /\ wanted_ - now - 1 < Word
    BY <2>1, WordAssumption DEF LoopInv, TypeOK
  <2>3. Sleep = wanted_ - now - 1
    BY <1>3, <2>2, Small DEF Sleep
  <2> QED
    BY <2>2, <2>3, FrameAssumption DEF LoopInv, Timely, TypeOK
<1>4. CASE ~Early
  <2>1. Sleep = 0 /\ wanted_ <= now + 2
    BY <1>2, <1>4, WordAssumption DEF Early, Sleep, LoopInv, TypeOK
  <2> QED
    BY <2>1, FrameAssumption DEF LoopInv, Timely, TypeOK
<1> QED
  BY <1>3, <1>4

\* Sleeping brings the clock to when the frame is due.
LEMMA WaitInv == ASSUME LoopInv, Wait PROVE LoopInv'
<1>1. Sleep \in Nat
  BY WordType, WordAssumption DEF Sleep, LoopInv, TypeOK
<1>2. clock' \in Nat /\ clock' >= clock
  BY <1>1 DEF Wait, LoopInv, TypeOK
<1>3. TypeOK'
  BY <1>2 DEF Wait, LoopInv, TypeOK
<1>4. ASSUME Unwrapped', started' PROVE Timely'
  <2>1. Unwrapped /\ started /\ Timely
    BY <1>2, <1>4, Earlier DEF Wait, LoopInv, Unwrapped, TypeOK
  <2>2. wanted_ <= clock' + 2
    BY <2>1, SleepBounds DEF Wait
  <2> QED
    BY <1>2, <2>1, <2>2 DEF Wait, Timely, LoopInv, TypeOK
<1> QED
  BY <1>3, <1>4 DEF LoopInv

\* A frame that is drawn starts the account of lost time again.
LEMMA DrawInv == ASSUME LoopInv, Draw PROVE LoopInv'
<1>1. PICK c \in Costs : clock' = clock + c
  BY DEF Draw
<1>2. clock' \in Nat /\ clock' >= clock
  BY <1>1, CostsAssumption DEF LoopInv, TypeOK
<1>3. TypeOK'
  BY <1>2 DEF Draw, LoopInv, TypeOK
<1>4. ASSUME Unwrapped', started' PROVE Timely'
  <2>1. Unwrapped /\ started /\ Timely
    BY <1>2, <1>4, Earlier DEF Draw, LoopInv, Unwrapped, TypeOK
  <2>2. skipped' * Spare = 0
    BY SpareOfNext DEF Draw
  <2>3. wanted_ <= clock' + 2 /\ lost' >= 0 /\ clock' - wanted_ <= lost'
    BY <1>2, <2>1 DEF Draw, Timely, LoopInv, TypeOK
  <2> QED
    BY <2>2, <2>3 DEF Draw, Timely
<1> QED
  BY <1>3, <1>4 DEF LoopInv

\* A frame that is skipped was late, and makes up for its spare time.
LEMMA SkipFrameInv == ASSUME LoopInv, SkipFrame PROVE LoopInv'
<1>1. PICK c \in Costs : clock' = clock + c
  BY DEF SkipFrame
<1>2. clock' \in Nat /\ clock' >= clock
  BY <1>1, CostsAssumption DEF LoopInv, TypeOK
<1>3. /\ Excess(clock' - now) \in Nat
      /\ clock' - now <= Usual + Excess(clock' - now)
  BY <1>2, ExcessBounds, WordAssumption DEF LoopInv, TypeOK
<1>4. TypeOK'
  BY <1>2, <1>3 DEF SkipFrame, LoopInv, TypeOK
<1>5. ASSUME Unwrapped', started' PROVE Timely'
  <2> DEFINE due == skipped * Spare
  <2>1. Unwrapped /\ started /\ Timely
    BY <1>2, <1>5, Earlier DEF SkipFrame, LoopInv, Unwrapped, TypeOK
  <2>2. due \in Nat /\ skipped' * Spare = due + Spare
    BY SpareOfNext DEF SkipFrame, LoopInv, TypeOK
  <2>3. now + msec_per_frame_ - wanted_ <= lost - due /\ now > wanted_ /\ now <= clock
    BY <2>1 DEF SkipFrame, InTime, Timely, LoopInv, TypeOK
  <2>4. clock' \in Int /\ wanted_ \in Int /\ now \in Int /\ lost \in Nat /\ now <= clock'
    BY <1>2, <2>3, WordAssumption DEF LoopInv, TypeOK
  <2>5. /\ clock' - wanted_ <= (lost + Excess(clock' - now)) - (due + Spare)
        /\ due + Spare <= lost + Excess(clock' - now)
        /\ wanted_ <= clock' + 2
    BY <1>3, <2>2, <2>3, <2>4, SkippedFrameAccount
  <2>6. pc' = "script" /\ wanted_' = wanted_ /\ lost' = lost + Excess(clock' - now)
    BY DEF SkipFrame
  <2> QED
    BY <2>2, <2>5, <2>6 DEF Timely
<1> QED
  BY <1>4, <1>5 DEF LoopInv

\* The invariant holds in every state of the loop.
LEMMA LoopInvCorrect == Spec => []LoopInv
<1>1. LoopInv /\ UNCHANGED vars => LoopInv'
  BY DEF LoopInv, TypeOK, Unwrapped, Timely, vars
<1>2. LoopInv /\ [Next]_vars => LoopInv'
  BY <1>1, StartInv, BeginInv, WaitInv, DrawInv, SkipFrameInv DEF Next, Over
<1> QED
  BY <1>2, InitLoopInv, PTL DEF Spec

\* Times are words, and counts are natural numbers.
THEOREM LoopTypeCorrect == Spec => []TypeOK
<1>1. LoopInv => TypeOK
  BY DEF LoopInv
<1> QED
  BY <1>1, LoopInvCorrect, PTL

\* The loop never runs ahead of time.
THEOREM LoopIsPaced == Spec => [](Unwrapped => Paced)
<1>1. LoopInv => (Unwrapped => Paced)
  BY DEF LoopInv, Timely, Paced
<1> QED
  BY <1>1, LoopInvCorrect, PTL

\* A sleep lasts for a frame at most.
THEOREM LoopSleepsBriefly == Spec => [](Unwrapped => SleepsBriefly)
<1>1. LoopInv => (Unwrapped => SleepsBriefly)
  BY SleepBounds DEF SleepsBriefly, Unwrapped
<1> QED
  BY <1>1, LoopInvCorrect, PTL

\* No frame is skipped without time lost.
THEOREM LoopSkipsJustified == Spec => [](Unwrapped => SkipsJustified)
<1>1. LoopInv => (Unwrapped => SkipsJustified)
  BY DEF LoopInv, Timely, SkipsJustified, Spare
<1> QED
  BY <1>1, LoopInvCorrect, PTL
=============================================================================
