------------------------------ MODULE MCEngineLoop ------------------------------
(***************************************************************************)
(* The engine loop and an animated object, with frames of 5 ms and a tick  *)
(* counter that wraps around at 128: a part of an iteration takes a moment *)
(* or stalls for two frames.  The object has a standing animation of one   *)
(* frame and a walking one of three, which changes every other iteration.  *)
(***************************************************************************)
EXTENDS Animation

MCCosts == {0, 2, 11}

MCGarbage == {0, 20, 127}

MCAnimations == [a \in {"idle", "walk"} |-> IF a = "idle" THEN <<12>> ELSE <<9, 6, 8>>]
=============================================================================
