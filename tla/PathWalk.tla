------------------------------- MODULE PathWalk -------------------------------
(***************************************************************************)
(* What AnimObj::go_to and AnimObj::do_step (anim.cpp) promise to the game *)
(* about the path of an object, without saying how a path is found: a      *)
(* request is answered with a walk to the goal or with none, and the walk  *)
(* is then followed tile by tile, in order, until its end or until the     *)
(* next request.                                                           *)
(***************************************************************************)
EXTENDS MapSearchNode

CONSTANTS
  Maps,                       \* the navigation maps
  Tiles                       \* where objects may be, or be sent to

VARIABLES
  map,                        \* the navigation map
  asked,                      \* <<start, goal>> of the request, <<>> if none
  walk                        \* the tiles still to reach, the current one first

vars == <<map, asked, walk>>

\* A walk of legal moves over free tiles from start that ends at goal.
LeadsTo(w, start, goal) ==
  /\ w # <<>> /\ w[Len(w)] = goal
  /\ \A i \in DOMAIN w : /\ Walkable(map, w[i])
                         /\ Adjacent(IF i = 1 THEN start ELSE w[i - 1], w[i])

Init == asked = <<>> /\ walk = <<>>

\* A new request ends the walk in progress.
Ask == /\ asked = <<>>
       /\ asked' \in Tiles \X Tiles
       /\ walk' = <<>>
       /\ UNCHANGED map

Answer == /\ asked # <<>>
          /\ asked' = <<>>
          /\ walk' = <<>> \/ LeadsTo(walk', asked[1], asked[2])
          /\ UNCHANGED map

Advance == /\ asked = <<>> /\ walk # <<>>
           /\ walk' = Tail(walk)
           /\ UNCHANGED <<map, asked>>

\* Another map is loaded: the walk in progress goes on over it as it was
\* found, and the next request is answered on the new map.
Reload == /\ asked = <<>>
          /\ map' \in Maps
          /\ UNCHANGED <<asked, walk>>

Next == Ask \/ Answer \/ Advance \/ Reload

Spec == Init /\ [][Next]_vars
=============================================================================
