-------------------------------- MODULE Scroller --------------------------------
(***************************************************************************)
(* Scroller of scroller.h: the view of the map on the screen.  The map is  *)
(* drawn on a background two tiles larger than the screen; moving the view *)
(* shows another part of the background, and only when the view leaves it  *)
(* is the map drawn again, from another tile on.                           *)
(*                                                                         *)
(* What the code does for x and for y is the same but for one omission in  *)
(* Map::render_layer, so the two coordinates are a function over Axes; a   *)
(* tile index or a pixel is a number on one axis.                          *)
(***************************************************************************)
EXTENDS Integers

CONSTANTS
  Screen,       \* width and height of the screen in pixels
  TileSizes,    \* tile sizes of the maps that are loaded
  LayerSizes,   \* widths and heights, in tiles, layers of the maps may have
  Heros,        \* where the hero may be
  MaxLoads      \* bound on the calls of load_map

Axes == {"x", "y"}

ASSUME ScreenAssumption == Screen \in [Axes -> Nat]
ASSUME TileSizesAssumption == TileSizes \subseteq [Axes -> Nat \ {0}]
ASSUME LayerSizesAssumption == LayerSizes \subseteq Nat
ASSUME HerosAssumption == Heros \subseteq [Axes -> Int]
ASSUME MaxLoadsAssumption == MaxLoads \in Nat

VARIABLES
  tile,         \* tw_, th_
  map_,         \* map_x_, map_y_: "map offset in background"
  view,         \* x_, y_
  drawn,        \* the tile the background was last drawn from
  loads,        \* maps loaded
  moved,        \* history: the view was moved since the last map was loaded
  settled       \* history: the axes on which the background is that of the map
                \* loaded last, drawn from the offset on

vars == <<tile, map_, view, drawn, loads, moved, settled>>

\* Faulty variant of Quotient: it rounds down.
QuotientDown(a, b) == a \div b

\* The quotient of the C++ operator /, which truncates toward zero.
Quotient(a, b) == IF a >= 0 THEN a \div b ELSE -((-a) \div b)

Abs(a) == IF a >= 0 THEN a ELSE -a

Least(m, n) == IF m <= n THEN m ELSE n

-----------------------------------------------------------------------------
\* Before the first map is loaded the tile size is not set and nothing drawn.
Init == /\ tile = [a \in Axes |-> 0]
        /\ map_ = [a \in Axes |-> 0]
        /\ view = [a \in Axes |-> 0]
        /\ drawn = [a \in Axes |-> 0]
        /\ loads = 0 /\ moved = FALSE
        /\ settled = [a \in Axes |-> FALSE]

\* Engine::load_map and refresh.  The view and its offset are not reset.
refresh == /\ loads < MaxLoads
           /\ tile' \in TileSizes
           /\ drawn' = [a \in Axes |-> 0]
           /\ loads' = loads + 1 /\ moved' = FALSE
           /\ settled' = [a \in Axes |-> map_[a] = 0 /\ view[a] <= 2 * tile'[a]]
           /\ UNCHANGED <<map_, view>>

\* Faulty variant of ViewOf: the view may leave the map.
ViewUnlimited(hero) == [a \in Axes |-> hero[a] - Screen[a] \div 2]

\* Where the view is put to have the hero in the middle.
ViewOf(hero) == [a \in Axes |-> LET v == hero[a] - Screen[a] \div 2
                                IN  IF v < 0 THEN 0 ELSE v]

\* Faulty variant of Leaves: the tile to the left of the offset is forgotten.
LeavesCentred(v, a) == Abs(v - map_[a]) > tile[a]

\* Does the view, moved to v, leave the background on an axis?
Leaves(v, a) == Abs(v - map_[a] - tile[a]) > tile[a]

\* The offset that has a tile to spare in front of the view.
Offset(v, a) == Quotient(v - tile[a], tile[a]) * tile[a]

\* Faulty variant of move: the axis that did not move is drawn from 0.
moveDrawingOneAxis(hero) ==
  LET v == ViewOf(hero)
      out == {a \in Axes : Leaves(v[a], a)}
  IN  /\ loads > 0
      /\ view' = v /\ moved' = TRUE
      /\ map_' = [a \in Axes |-> IF a \in out THEN Offset(v[a], a) ELSE map_[a]]
      /\ drawn' = [a \in Axes |-> IF a \in out THEN Quotient(map_'[a], tile[a])
                                  ELSE IF out # {} THEN 0 ELSE drawn[a]]
      /\ settled' = [a \in Axes |-> settled[a] \/ a \in out]
      /\ UNCHANGED <<tile, loads>>

\* move, before every frame once there is a hero.
move(hero) ==
  LET v == ViewOf(hero)
      out == {a \in Axes : Leaves(v[a], a)}
  IN  /\ loads > 0
      /\ view' = v /\ moved' = TRUE
      /\ map_' = [a \in Axes |-> IF a \in out THEN Offset(v[a], a) ELSE map_[a]]
      /\ drawn' = IF out # {} THEN [a \in Axes |-> Quotient(map_'[a], tile[a])] ELSE drawn
      /\ settled' = [a \in Axes |-> settled[a] \/ a \in out]
      /\ UNCHANGED <<tile, loads>>

Next == refresh \/ \E hero \in Heros : move(hero)

Spec == Init /\ [][Next]_vars

-----------------------------------------------------------------------------
(* What render_background and render_foreground show, as the map pixel     *)
(* that comes out at the left or upper edge of the screen.                 *)

\* render_background blits from the background, never from before its edge.
BackgroundPixel(a) == drawn[a] * tile[a] + (IF view[a] < map_[a] THEN 0 ELSE view[a] - map_[a])

\* render_foreground draws whole tiles, the first of them moved by the offset.
ForegroundPixel(a) == Quotient(map_[a], tile[a]) * tile[a] - (map_[a] - view[a])

\* Faulty variant of ForegroundEnd: the tile cut by the near edge is not counted.
ForegroundEndShort(size, a) ==
  LET offset == map_[a] - view[a]
      start == Quotient(map_[a], tile[a])
      space == IF a = "x" THEN Screen[a] - offset ELSE Screen[a]
      end == Least(size, Quotient(space, tile[a]) + start + 1)
  IN  (end - start) * tile[a] + offset

\* The pixel of the screen where the tiles of a layer end that Map::render_layer
\* draws for the foreground: it takes the offset into account for the columns
\* and not for the rows.
ForegroundEnd(size, a) ==
  LET offset == map_[a] - view[a]
      start == Quotient(map_[a], tile[a])
      space == IF a = "x" THEN Screen[a] - offset ELSE Screen[a]
      end == Least(size, Quotient(space, tile[a]) + start + 2)
  IN  (end - start) * tile[a] + offset

-----------------------------------------------------------------------------
TypeOK == /\ tile \in [Axes -> Nat]
          /\ map_ \in [Axes -> Int]
          /\ view \in [Axes -> Nat]
          /\ drawn \in [Axes -> Int]
          /\ loads \in 0 .. MaxLoads /\ moved \in BOOLEAN
          /\ settled \in [Axes -> BOOLEAN]

Loaded == loads > 0

\* The view lies inside the background, two tiles larger than the screen,
\* wherever the hero goes and however far it jumps (scroller.h:60-80).  When
\* another map is loaded this is so again once the view is moved, which is done
\* before anything is drawn.
ViewInBackground ==
  \A a \in Axes : moved \/ settled[a] => view[a] - map_[a] \in 0 .. 2 * tile[a]

\* Background and foreground show the map at the position of the view, which
\* is what the hit test of a mouse click takes for granted (engine.cpp:67),
\* even if what is drawn for one axis was needed for the other.
ShowsView ==
  \A a \in Axes : settled[a] => BackgroundPixel(a) = view[a] /\ ForegroundPixel(a) = view[a]

\* "map offset in background" (scroller.h:10): in every frame the background
\* is the one drawn from the tile at the offset.  It does not hold after
\* another map is loaded.
OffsetIsDrawn ==
  [][Loaded /\ UNCHANGED loads => \A a \in Axes : drawn'[a] * tile'[a] = map_'[a]]_vars

\* The tiles that are drawn of a foreground layer reach the far edge of the
\* screen or the end of the layer, whichever part of a tile lies before the near
\* edge; below, where the offset is not taken into account, they may stop short
\* of it by what the height of the screen has over whole tiles
\* (game_map.cpp:164-165).
ForegroundCovers ==
  \A a \in Axes, size \in LayerSizes :
    moved \/ settled[a] =>
      ForegroundEnd(size, a) + (IF a = "x" THEN 0 ELSE Screen[a] % tile[a])
        >= Least(Screen[a], size * tile[a] - ForegroundPixel(a))

\* "a tile specific to the map" (TmxLayer.h:107): drawing starts at a tile of
\* the map.  It does not hold when the view jumps back to the edge.
DrawsMapTiles == \A a \in Axes : drawn[a] >= 0

\* As long as the view moves by less than a tile drawing starts on the map.
DrawsMapTilesWalking ==
  [][ \A a \in Axes :
        /\ UNCHANGED loads /\ settled[a]
        /\ map_[a] >= 0 /\ Abs(view'[a] - view[a]) < tile[a]
        => map_'[a] >= 0 /\ drawn'[a] >= 0 ]_vars
=============================================================================
