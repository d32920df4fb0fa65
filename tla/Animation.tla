------------------------------- MODULE Animation -------------------------------
(***************************************************************************)
(* The animation of an AnimObj (anim.cpp) under the engine loop: which     *)
(* animation is set, which of its frames is shown, and when the next one   *)
(* is due.  update_animation is called only in the iterations that draw,   *)
(* with the time read at their beginning; Set is called whenever a step of *)
(* a walk begins or a walk ends, while objects are moved or after a click. *)
(***************************************************************************)
EXTENDS EngineLoop, Sequences

CONSTANT Animations     \* for each animation how long its frames are shown

ASSUME AnimationsAssumption ==
  \A a \in DOMAIN Animations : Animations[a] \in Seq(Nat \ {0}) /\ Animations[a] # <<>>

VARIABLES
  actual_,
  frame_,
  next_frame_,
  origin,       \* history: when frame 0 was due the last time
  shown         \* history: now of the last iteration that drew

anim == <<actual_, frame_, next_frame_, origin, shown>>
animVars == <<vars, anim>>

persistence(a, i) == Animations[a][i + 1]

\* How long it takes until frame i has been shown, and all of them.
Until(a, i) ==
  LET until[j \in 0 .. Len(Animations[a]) - 1] ==
        persistence(a, j) + (IF j = 0 THEN 0 ELSE until[j - 1])
  IN  until[i]
Duration(a) == Until(a, Len(Animations[a]) - 1)

-----------------------------------------------------------------------------
\* The object has just been loaded: its first frame is due to be left at once.
AnimInit == /\ Init
            /\ actual_ \in DOMAIN Animations /\ frame_ = 0
            /\ next_frame_ = GetTicks
            /\ origin = (GetTicks - persistence(actual_, 0)) % Word
            /\ shown = GetTicks

\* Faulty variant of Set: the frame number is kept.
SetKeepingFrame(a, ticks) ==
  /\ a # actual_
  /\ actual_' = a
  /\ next_frame_' = (persistence(a, 0) + ticks) % Word
  /\ origin' = ticks
  /\ UNCHANGED <<frame_, shown>>

\* Set, of another animation than the actual one.
Set(a, ticks) ==
  /\ a # actual_
  /\ actual_' = a
  /\ frame_' = 0
  /\ next_frame_' = (persistence(a, 0) + ticks) % Word
  /\ origin' = ticks
  /\ UNCHANGED shown

\* Any calls of Set while an action of the loop is running; of those that are
\* made only the last one counts.
MaySet == \/ \E a \in DOMAIN Animations, t \in {clock, clock'} : Set(a, t % Word)
          \/ UNCHANGED anim

\* Faulty variant of NextFrame: the next frame is due from now on.
NextFrameFromNow ==
  /\ frame_' = IF frame_ + 1 >= Len(Animations[actual_]) THEN 0 ELSE frame_ + 1
  /\ next_frame_' = (now + persistence(actual_, frame_')) % Word
  /\ origin' = IF frame_' = 0 THEN (origin + Duration(actual_)) % Word ELSE origin

\* Faulty variant of NextFrame: no time is given to the first frame when it
\* comes again.
NextFrameNotAgain ==
  /\ frame_' = IF frame_ + 1 >= Len(Animations[actual_]) THEN 0 ELSE frame_ + 1
  /\ next_frame_' = IF frame_' = 0 THEN next_frame_
                    ELSE (next_frame_ + persistence(actual_, frame_')) % Word
  /\ origin' = IF frame_' = 0 THEN (origin + Duration(actual_)) % Word ELSE origin

\* The next frame is due a frame's time after this one was, not after now.
NextFrame ==
  /\ frame_' = IF frame_ + 1 >= Len(Animations[actual_]) THEN 0 ELSE frame_ + 1
  /\ next_frame_' = (next_frame_ + persistence(actual_, frame_')) % Word
  /\ origin' = IF frame_' = 0 THEN (origin + Duration(actual_)) % Word ELSE origin

update_animation ==
  /\ IF now >= next_frame_ THEN NextFrame ELSE UNCHANGED <<frame_, next_frame_, origin>>
  /\ shown' = now
  /\ UNCHANGED actual_

-----------------------------------------------------------------------------
\* Objects are moved at the beginning of an iteration; do_step may call Set.
MoveObjects == Begin /\ MaySet

\* Then the frame is drawn, and a click after it may start a walk.
DrawObjects ==
  /\ Draw
  /\ \/ update_animation
     \/ \E a \in DOMAIN Animations : Set(a, clock' % Word) /\ shown' = now

\* In a frame that is skipped nothing is updated, but events are handled.
SkipObjects == SkipFrame /\ MaySet

AnimNext == \/ MoveObjects \/ DrawObjects \/ SkipObjects
            \/ (start \/ Wait \/ Over) /\ UNCHANGED anim

AnimSpec == AnimInit /\ [][AnimNext]_animVars

-----------------------------------------------------------------------------
\* Times are words.
AnimTypeOK == /\ actual_ \in DOMAIN Animations
              /\ frame_ \in Nat
              /\ next_frame_ \in 0 .. Word - 1
              /\ origin \in 0 .. Word - 1 /\ shown \in 0 .. Word - 1

\* The frame that base_x, on_screen and blit look up exists in the animation
\* that is set, although the two change apart (anim.cpp:51,302,313,324).
FrameExists == frame_ < Len(Animations[actual_])

\* No time is lost or gained between two calls of Set: however late the
\* iterations that draw are, the next frame is due when the frames before it
\* have had their times, "time to show in msecs" (anim.h:19).
KeepsRhythm == next_frame_ = (origin + Until(actual_, frame_)) % Word

\* How late the next frame is at time t.
Behind(t, next) == IF t > next THEN t - next ELSE 0

\* After skipped frames an animation is behind and advances by one frame in
\* each drawn one.  It gets no further behind as long as frames are drawn at
\* least as often as its own frames change (anim.cpp:299-303, engine.cpp:34-47).
GetsNoFurtherBehind ==
  [][ /\ DrawObjects /\ UNCHANGED actual_
      /\ \A i \in DOMAIN Animations[actual_] :
           /\ now - shown <= Animations[actual_][i]
           /\ next_frame_ + Animations[actual_][i] < Word
      => Behind(now, next_frame_') <= Behind(shown, next_frame_) ]_animVars
=============================================================================
