----------------------------- MODULE MapSearchNode -----------------------------
(***************************************************************************)
(* MapSearchNode of findpath.cpp: the tiles the search moves over.  A tile *)
(* is a pair <<x, y>>, a navigation map a function from the tiles of the   *)
(* map to 1 (free) or 9 (wall), as Map::build_navigation_map leaves it.    *)
(*                                                                         *)
(* The C++ fields are unsigned and the arithmetic is float: a negative     *)
(* coordinate is about 2^32 as a float, which absorbs the distances and    *)
(* the costs added to it.  Far stands for that value; it is larger than    *)
(* any cost or distance of the maps considered.                            *)
(***************************************************************************)
EXTENDS Integers, Sequences

Wall == 9
Far == 1000000

\* Map::navigation_map: everything outside of the map is wall.
navigation_map(map, tile) == IF tile \in DOMAIN map THEN map[tile] ELSE Wall

\* GetMap of a tile, which the constructor of Engine gave a map to look at, is
\* less than a wall.
Walkable(map, tile) == navigation_map(map, tile) < Wall

\* The moves GetSuccessors tries, in its order.
Moves == << <<-1, 0>>, <<0, -1>>, <<1, 0>>, <<0, 1>>,
            <<1, 1>>, <<1, -1>>, <<-1, 1>>, <<-1, -1>> >>

Neighbour(tile, k) == <<tile[1] + Moves[k][1], tile[2] + Moves[k][2]>>

Adjacent(s, t) == \E k \in DOMAIN Moves : t = Neighbour(s, k)

\* fabs((float)a - (float)b) for unsigned a and b.
AxisDistance(a, b) == IF (a < 0) # (b < 0) THEN Far
                      ELSE IF a < 0 THEN 0
                      ELSE IF a < b THEN b - a ELSE a - b

\* Sum of two floats one of which may be far.
FloatSum(a, b) == IF a >= Far \/ b >= Far THEN Far ELSE a + b

GoalDistanceEstimate(tile, goal) ==
  FloatSum(AxisDistance(tile[1], goal[1]), AxisDistance(tile[2], goal[2]))

\* The cost of a step is the map's value at the tile the step leaves.
GetCost(map, tile) == navigation_map(map, tile)
=============================================================================
