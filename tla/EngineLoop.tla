------------------------------- MODULE EngineLoop -------------------------------
(***************************************************************************)
(* The timing of Engine::iteration (engine.cpp).  A script calls it again  *)
(* and again; it keeps in wanted_ when the frame is due, sleeps when it is *)
(* early and does not draw when it is late.  Until start is called wanted_ *)
(* has whatever value its memory had.                                      *)
(*                                                                         *)
(* Time is in milliseconds.  clock is the true time, SDL_GetTicks() its    *)
(* value in an unsigned int, which wraps around at Word.  wanted_ is an    *)
(* int, but every comparison in the code converts it to unsigned.          *)
(***************************************************************************)
EXTENDS Integers

CONSTANTS
  Word,             \* 2^32 in the code
  msec_per_frame_,
  Costs,            \* time a part of an iteration may take
  Garbage,          \* values the memory of wanted_ may have had before
  Usual,            \* time an iteration takes on a machine that keeps up
  MaxClock          \* bound on the time a session lasts

ASSUME WordAssumption == Word \in Nat /\ Word >= 4
ASSUME FrameAssumption == msec_per_frame_ \in Nat \ {0}
ASSUME CostsAssumption == Costs \subseteq Nat
ASSUME GarbageAssumption == Garbage \subseteq 0 .. Word - 1
ASSUME UsualAssumption == Usual \in Nat /\ Usual < msec_per_frame_
ASSUME MaxClockAssumption == MaxClock \in Nat

VARIABLES
  clock,
  wanted_,
  now,              \* time read at the beginning of the iteration
  pc,               \* part of the iteration that is next
  started,          \* history: start was called
  skipped,          \* history: frames not drawn since the last one that was
  lost              \* history: time by which iterations were longer than Usual
                    \* since the last frame, and by which that one was late

vars == <<clock, wanted_, now, pc, started, skipped, lost>>

GetTicks == clock % Word

Excess(t) == IF t > Usual THEN t - Usual ELSE 0

-----------------------------------------------------------------------------
\* The constructor does not set wanted_.
Init == /\ clock = 0 /\ now = 0 /\ pc = "script"
        /\ wanted_ \in Garbage
        /\ started = FALSE /\ skipped = 0 /\ lost = 0

\* Faulty variant of start: the frame that is due stays due.
startAgainLate == /\ pc = "script" /\ clock < MaxClock
                  /\ \E c \in Costs : clock' = clock + c
                  /\ wanted_' = IF started THEN wanted_ ELSE clock' % Word
                  /\ started' = TRUE
                  /\ skipped' = 0 /\ lost' = 0
                  /\ UNCHANGED <<now, pc>>

\* Engine::start, which a script calls after whatever takes it long.
start == /\ pc = "script" /\ clock < MaxClock
         /\ \E c \in Costs : clock' = clock + c
         /\ wanted_' = clock' % Word
         /\ started' = TRUE
         /\ skipped' = 0 /\ lost' = 0
         /\ UNCHANGED <<now, pc>>

\* The iteration begins; the objects are moved.
Begin == /\ pc = "script" /\ clock < MaxClock
         /\ now' = GetTicks
         /\ wanted_' = (wanted_ + msec_per_frame_) % Word
         /\ \E c \in Costs : clock' = clock + c
         /\ pc' = "wait"
         /\ UNCHANGED <<started, skipped, lost>>

\* Faulty variant of Early: it is never early.
EarlyNever == FALSE

Early == wanted_ > (now + 2) % Word

\* Faulty variant of Sleep: the time is not taken from the one of the frame.
SleepWhole == IF Early THEN wanted_ ELSE 0

\* The argument of SDL_Delay.
Sleep == IF Early THEN (wanted_ - now - 1) % Word ELSE 0

Wait == /\ pc = "wait"
        /\ clock' = clock + Sleep
        /\ pc' = "draw"
        /\ UNCHANGED <<wanted_, now, started, skipped, lost>>

InTime == now <= wanted_

\* The frame is drawn unless it is late; then the events are handled, and the
\* script runs until it calls iteration again.
Draw == /\ pc = "draw" /\ InTime
        /\ \E c \in Costs : clock' = clock + c
        /\ skipped' = 0
        /\ lost' = IF clock' > wanted_ THEN clock' - wanted_ ELSE 0
        /\ pc' = "script"
        /\ UNCHANGED <<wanted_, now, started>>

SkipFrame == /\ pc = "draw" /\ ~InTime
             /\ \E c \in Costs : clock' = clock + c
             /\ skipped' = skipped + 1
             /\ lost' = lost + Excess(clock' - now)
             /\ pc' = "script"
             /\ UNCHANGED <<wanted_, now, started>>

\* The session ends at the bound, between two iterations.
Over == pc = "script" /\ clock >= MaxClock /\ UNCHANGED vars

Next == start \/ Begin \/ Wait \/ Draw \/ SkipFrame \/ Over

Spec == Init /\ [][Next]_vars

-----------------------------------------------------------------------------
TypeOK == /\ clock \in Nat
          /\ wanted_ \in 0 .. Word - 1
          /\ now \in 0 .. Word - 1
          /\ pc \in {"script", "wait", "draw"}
          /\ started \in BOOLEAN
          /\ skipped \in Nat /\ lost \in Nat

\* The tick counter does not wrap around before the next frame is due.
Unwrapped == clock + msec_per_frame_ + 3 < Word

\* Once start was called, whatever wanted_ was before and however late the loop
\* had become: it does not run ahead of time by more than the two milliseconds
\* it tolerates, so there are at most 1000 / msec_per_frame_ iterations a second
\* however fast the machine is (engine.cpp:16,30).
Paced == started /\ pc = "script" => wanted_ <= clock + 2

\* "wait some time" (engine.cpp:29): never much more than one frame.
SleepsBriefly == started /\ pc = "wait" => Sleep <= msec_per_frame_ + 1

\* Frames are skipped only to make up for time that was lost: on a machine
\* where an iteration takes less than a frame the picture comes back, after at
\* most as many frames as the spare time of each needs to make up for it.
SkipsJustified == started => skipped * (msec_per_frame_ - Usual) <= lost
=============================================================================
