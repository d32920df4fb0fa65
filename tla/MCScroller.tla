------------------------------- MODULE MCScroller -------------------------------
(***************************************************************************)
(* Scroller on a small screen: the hero may jump anywhere, the map is      *)
(* wider than the background, and the tiles divide the screen or do not.   *)
(***************************************************************************)
EXTENDS Scroller

MCScreen == [a \in Axes |-> IF a = "x" THEN 7 ELSE 6]
MCTileSizes == { [a \in Axes |-> IF a = "x" THEN 3 ELSE 2],
                 [a \in Axes |-> IF a = "x" THEN 2 ELSE 4] }
MCHeros == { [a \in Axes |-> IF a = "x" THEN x ELSE y] : x \in {-1} \cup 4 .. 14, y \in {-1} \cup 4 .. 14 }
\* Layers that end before the screen, within it and beyond it.
MCLayerSizes == {0, 1, 3, 6, 20}
=============================================================================
