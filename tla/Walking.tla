-------------------------------- MODULE Walking --------------------------------
(***************************************************************************)
(* The arithmetic of a walk: AnimObj::set_direction and AnimObj::do_step   *)
(* (anim.cpp) for an object that follows a path of tiles.                  *)
(*                                                                         *)
(* distance_ and the microsteps are doubles, the position is two ints: the *)
(* sum of a position and a part of a microstep is truncated in every step, *)
(* while distance_ counts down what the object should have moved.          *)
(*                                                                         *)
(* A stride is what speed_ makes of the time between two steps, in 1/Unit  *)
(* pixels.  The distance of a leg is kept as its square, and the arithmetic *)
(* on it is exact: a double is the real number it is close to.  The frames *)
(* of all animations of the object have one size, and it has the animations *)
(* anim.h:12 asks for.                                                     *)
(***************************************************************************)
EXTENDS Integers, Sequences

CONSTANTS
  TileWidth,    \* tw and th
  Box,          \* offset of the base from the position, half the width and
                \* the height of the frame
  Unit,         \* parts of a pixel a stride is measured in
  Strides,      \* distances an object may be due to move in one step
  Offsets,      \* places in its tile an object may start from
  Drift,        \* how many pixels from the middle of its goal a walk may end
  Paths         \* paths the search may answer, the start tile first

ASSUME WalkingAssumption ==
  /\ TileWidth \in Nat \ {0} /\ Unit \in Nat \ {0} /\ Strides \subseteq Nat
  /\ Box \in Int \X Int /\ Offsets \subseteq Nat \X Nat /\ Drift \in Nat
ASSUME PathsAssumption ==
  Paths \subseteq Seq(Int \X Int) /\ \A way \in Paths : Len(way) > 1

VARIABLES
  pos,          \* x_, y_
  path,         \* tiles from step_ on, empty when step_ is NULL
  goal,         \* the last tile of the path, <<>> when none was found
  leg,          \* where the current step leads to from where it began, as
                \* the microsteps and the initial distance_ are made from it
  walked,       \* what was taken from distance_ since then
  actual_,      \* the animation: <<"walk" or "idle", the way it faces>>
  undefined     \* a NaN was converted to a position

vars == <<pos, path, goal, leg, walked, actual_, undefined>>

Axes == {1, 2}

base == <<pos[1] + Box[1], pos[2] + Box[2]>>

\* The quotient of the C++ operator /.
Quotient(a, b) == IF a >= 0 THEN a \div b ELSE -((-a) \div b)

TileOf(b) == <<Quotient(b[1], TileWidth), Quotient(b[2], TileWidth)>>

Centre(tile) == <<tile[1] * TileWidth + TileWidth \div 2, tile[2] * TileWidth + TileWidth \div 2>>

\* The square of a distance.
Square(d) == d[1] * d[1] + d[2] * d[2]

\* Faulty: to the corner of the tile.
LegToCorner(tile) == <<tile[1] * TileWidth - base[1], tile[2] * TileWidth - base[2]>>

\* set_direction: the leg from the base to the middle of a tile.
LegTo(tile) == <<Centre(tile)[1] - base[1], Centre(tile)[2] - base[2]>>

\* distance_ <= 0.0
LegDone == walked * walked >= Square(leg) * Unit * Unit

\* The whole pixels in the part of a stride along one axis of a leg.
WholePixels(stride, d, l) ==
  CHOOSE m \in 0 .. stride \div Unit :
    /\ m * m * Square(l) * Unit * Unit <= stride * stride * d * d
    /\ (m + 1) * (m + 1) * Square(l) * Unit * Unit > stride * stride * d * d

\* The position on an axis after a stride: the sum is truncated toward zero.
Moved(p, stride, d, l) ==
  LET down == WholePixels(stride, d, l)
      up == IF down * down * Square(l) * Unit * Unit = stride * stride * d * d
            THEN down ELSE down + 1
  IN  IF d >= 0
      THEN IF p + down >= 0 THEN p + down ELSE p + up
      ELSE IF p >= up THEN p - up ELSE p - down

\* Faulty variant of Facing: the sign of y is forgotten on the way up and right.
FacingUnsigned(l) ==
  CASE l[1] > 0 /\ l[2] > 0 -> IF l[1] > l[2] THEN "right" ELSE "down"
    [] l[1] < 0 /\ l[2] < 0 -> IF l[2] > l[1] THEN "left" ELSE "up"
    [] l[1] < 0 /\ l[2] > 0 -> IF l[1] < -l[2] THEN "left" ELSE "down"
    [] OTHER -> IF l[1] > l[2] THEN "right" ELSE "up"

\* The way the walk along a leg is shown.  The microsteps have the signs and
\* the proportions of the leg; 0.0 / 0.0 compares as the leg <<0, 0>> does.
Facing(l) ==
  CASE l[1] > 0 /\ l[2] > 0 -> IF l[1] > l[2] THEN "right" ELSE "down"
    [] l[1] < 0 /\ l[2] < 0 -> IF l[2] > l[1] THEN "left" ELSE "up"
    [] l[1] < 0 /\ l[2] > 0 -> IF l[1] < -l[2] THEN "left" ELSE "down"
    [] OTHER -> IF l[1] > -l[2] THEN "right" ELSE "up"

\* Faulty variant of FacingAtGoal: the comparison of a walk up and left is the
\* other way around.
FacingAtGoalBackward(l) ==
  IF l[1] < 0 /\ l[2] < 0 THEN IF l[2] > l[1] THEN "up" ELSE "left" ELSE Facing(l)

\* The way the object faces when it has arrived.
FacingAtGoal(l) == IF l[1] > 0 /\ l[1] = l[2] THEN "right" ELSE Facing(l)

-----------------------------------------------------------------------------
\* go_to has found a path: the object stands somewhere on its first tile, and
\* set_direction was called for the second.
Init == /\ \E way \in Paths, offset \in Offsets :
             /\ pos = << way[1][1] * TileWidth + offset[1] - Box[1],
                         way[1][2] * TileWidth + offset[2] - Box[2] >>
             /\ path = Tail(way)
             /\ goal = way[Len(way)]
             /\ leg = << Centre(way[2])[1] - way[1][1] * TileWidth - offset[1],
                         Centre(way[2])[2] - way[1][2] * TileWidth - offset[2] >>
        /\ walked = 0
        /\ actual_ = <<"walk", Facing(leg)>>
        /\ undefined = FALSE

\* A further go_to finds no path, or the object to be on its goal: the walk
\* ends where it is, and the animation is not set.  distance_, which go_to sets to
\* 0.0 in any case, is not read again before set_direction has set it.
go_to_nowhere == /\ path # <<>>
                 /\ path' = <<>> /\ goal' = <<>>
                 /\ UNCHANGED <<pos, leg, walked, actual_, undefined>>

\* The last step has ended: the object stops where it is.
Arrive == /\ path # <<>> /\ LegDone /\ Len(path) = 1
          /\ path' = <<>>
          /\ actual_' = <<"idle", FacingAtGoal(leg)>>
          /\ UNCHANGED <<pos, goal, leg, walked, undefined>>

\* Move along leg l, of which w was walked before.  Without a length to move
\* along, the microsteps are 0.0 / 0.0.
Move(stride, l, w) ==
  /\ leg' = l
  /\ walked' = w + stride
  /\ IF Square(l) = 0
     THEN undefined' = TRUE /\ UNCHANGED pos
     ELSE /\ pos' = <<Moved(pos[1], stride, l[1], l), Moved(pos[2], stride, l[2], l)>>
          /\ UNCHANGED undefined
  /\ UNCHANGED goal

\* Faulty: the step is not advanced to the next tile of the path before the
\* direction is set.
NextTileNotAdvanced(stride) == /\ path # <<>> /\ LegDone /\ Len(path) > 1 /\ ~undefined
                               /\ path' = Tail(path)
                               /\ actual_' = <<"walk", Facing(LegTo(path[1]))>>
                               /\ Move(stride, LegTo(path[1]), 0)

\* A step has ended: the next one begins where the object is.
NextTile(stride) == /\ path # <<>> /\ LegDone /\ Len(path) > 1 /\ ~undefined
                    /\ path' = Tail(path)
                    /\ actual_' = <<"walk", Facing(LegTo(path[2]))>>
                    /\ Move(stride, LegTo(path[2]), 0)

\* Faulty: the direction is set anew in every step, after distance_ was counted
\* down.
WalkAimingAgain(stride) == /\ path # <<>> /\ ~LegDone /\ ~undefined
                           /\ Move(stride, LegTo(path[1]), -stride)
                           /\ UNCHANGED <<path, actual_>>

\* On the way to the next tile.
Walk(stride) == /\ path # <<>> /\ ~LegDone /\ ~undefined
                /\ Move(stride, leg, walked)
                /\ UNCHANGED <<path, actual_>>

do_step(stride) == NextTile(stride) \/ Walk(stride)

Standing == path = <<>> \/ undefined
Stop == Standing /\ UNCHANGED vars

Next == \/ Arrive \/ (\E stride \in Strides : do_step(stride)) \/ Stop
        \/ go_to_nowhere

\* Engine::iteration calls do_step again and again, and time passes.
Spec == Init /\ [][Next]_vars
             /\ WF_vars(Arrive \/ \E stride \in Strides \ {0} : do_step(stride))

-----------------------------------------------------------------------------
\* Where a walk ends, the object stands on the last tile of its path: do_step
\* says of forcing the exact position at the end of a step that it is not needed
\* (anim.cpp:111).  It does not hold: the truncated sums stop an object short.
ArrivesOnGoal == path = <<>> /\ goal # <<>> => TileOf(base) = goal

\* The direction to the next tile is never taken from its very middle, where
\* set_direction divides zero by zero and do_step converts the quotient
\* (anim.cpp:23-25,117).
PositionDefined == ~undefined

\* A walk ends: neither a stride that ends beyond a tile nor one that moves the
\* object less than distance_ is reduced keeps do_step walking for ever
\* (anim.cpp:53-119).
WalkEnds == <>(path = <<>>)

AbsOf(d) == IF d >= 0 THEN d ELSE -d

\* However many steps a walk has, it ends within a fixed drift of the middle of its
\* goal: what truncation takes in a step is made good in the next, which is
\* directed from where the object is and not from where it should be
\* (anim.cpp:17-25,62-118).
EndsNearGoal == path = <<>> /\ goal # <<>> =>
  \A a \in Axes : AbsOf(base[a] - Centre(goal)[a]) <= Drift

\* The axis and the direction on it that the name of an animation says.
AxisOf(way) == IF way \in {"left", "right"} THEN 1 ELSE 2
SignOf(way) == IF way \in {"left", "up"} THEN -1 ELSE 1

\* An object that walks moves most along the way its animation shows, and
\* never against it, in every step up to the pixel the truncation takes from
\* one side and gives to the other.  The last branch of set_direction takes a
\* walk straight down for one to the right and straight left for one up; every
\* other is shown as it is (anim.cpp:27-50,117-118).
MovesAsShown ==
  [][\A stride \in Strides :
       /\ do_step(stride)
       /\ ~(leg'[1] = 0 /\ leg'[2] >= 0) /\ ~(leg'[1] <= 0 /\ leg'[2] = 0)
       => LET way == actual_'[2]
              moved == [a \in Axes |-> pos'[a] - pos[a]]
          IN  /\ moved[AxisOf(way)] * SignOf(way) >= 0
              /\ AbsOf(moved[AxisOf(way)]) + 1 >= AbsOf(moved[3 - AxisOf(way)])]_vars

\* A walk that ends on its goal leaves the object idle, facing along its last
\* leg; only a go_to that fails leaves it standing with a walk animation
\* (anim.cpp:72-99,165-169).
IdleAtGoal == path = <<>> /\ goal # <<>> =>
  /\ actual_[1] = "idle"
  /\ leg[1] * leg[1] # leg[2] * leg[2] => actual_[2] = Facing(leg)
=============================================================================
