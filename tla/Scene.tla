---------------------------------- MODULE Scene ----------------------------------
(***************************************************************************)
(* What the player sees and clicks on: Engine::load_map (engine.h) over    *)
(* the map and the scroller, the frames of objects in the view, which      *)
(* Object::on_screen and Object::lowblit (obj.cpp) cut to the screen and   *)
(* SDL_BlitSurface copies from a sheet of frames, and the tile a mouse     *)
(* click means (engine.cpp).                                               *)
(*                                                                         *)
(* Cutting is done for each axis alone: a picture is the product of a      *)
(* segment on each, so a segment is what is modelled.                      *)
(***************************************************************************)
EXTENDS Scroller, GameMap

CONSTANTS
  Sheet,        \* size of a sheet of frames
  Boxes,        \* for each axis the frames: where they begin and how long they are
  Places,       \* for each axis where objects may be
  RectWord      \* 2^16: the fields of an SDL_Rect are 16 bits wide

ASSUME SheetAssumption == Sheet \in [Axes -> Nat]
ASSUME BoxesAssumption ==
  \A a \in Axes : \A box \in Boxes[a] :
    box.from \in Nat /\ box.len \in Nat /\ box.from + box.len <= Sheet[a]
ASSUME PlacesAssumption == \A a \in Axes : Places[a] \subseteq Int
ASSUME RectWordAssumption ==
  RectWord \in Nat /\ \A a \in Axes : Screen[a] + Sheet[a] < RectWord \div 2

VARIABLE
  picture       \* the map pixel at the left and upper edge of the screen, <<>>
                \* when what is on the screen was not drawn since the last
                \* movement of the view or change of the map

sceneVars == <<vars, mapVars, picture>>

SceneInit == Init /\ GameMapInit /\ picture = <<>>

\* Faulty variant of load_map: the scroller is refreshed for the first map only.
load_mapOnce(file) ==
  /\ Load(file) /\ picture' = <<>>
  /\ IF has_error' \/ loads > 0 THEN UNCHANGED vars ELSE refresh /\ tile' = tile_size'

\* Engine::load_map: the scroller is refreshed when the map was loaded.
load_map(file) ==
  /\ Load(file) /\ picture' = <<>>
  /\ IF has_error' THEN UNCHANGED vars ELSE refresh /\ tile' = tile_size'

\* Engine::iteration moves the view to the hero, and draws it when there is time;
\* then it handles the mouse clicks, whether or not it has drawn.
iteration(hero) ==
  /\ move(hero) /\ UNCHANGED mapVars
  /\ picture' \in {<<>>, [a \in Axes |-> BackgroundPixel(a)']}

SceneNext == \/ \E file \in Files : load_map(file)
             \/ \E hero \in Heros : iteration(hero)

SceneSpec == SceneInit /\ [][SceneNext]_sceneVars

-----------------------------------------------------------------------------
\* Faulty variant of on_screen: every object is drawn.
on_screenAlways(o, box, a) == TRUE

\* Object::on_screen, on one axis, for an object at o.
on_screen(o, box, a) == ~(view[a] < o - box.len - Screen[a]) /\ ~(view[a] > o + box.len)

\* What x and y of an SDL_Rect, which are signed, keep of a number.
Signed(v) == ((v + RectWord \div 2) % RectWord) - RectWord \div 2

\* Object::lowblit, on one axis: the part of the sheet to draw, and where.
lowblit(o, box, a) ==
  LET pos == o - view[a]
  IN  CASE pos < 0 ->
             [from |-> Signed(box.from - pos), len |-> (box.len + pos) % RectWord, to |-> 0]
        [] pos >= 0 /\ pos + box.len > Screen[a] ->
             [from |-> box.from, len |-> (Screen[a] - pos) % RectWord, to |-> Signed(pos)]
        [] OTHER -> [from |-> box.from, len |-> box.len, to |-> Signed(pos)]

\* How much SDL_BlitSurface leaves of a part of the sheet that begins in it and
\* goes to a place not before the screen: it ends with the sheet and the screen.
Blitted(rect, a) == Least(Least(rect.len, Sheet[a] - rect.from), Screen[a] - rect.to)

-----------------------------------------------------------------------------
\* The pixels of an object's frame that lie in the view are drawn where they
\* belong, the others are not, and no pixel of another frame of the sheet is:
\* also for an object partly or just out of the screen, where on_screen and
\* the clipping of SDL keep the widths that wrap from being used
\* (obj.cpp:18-27,34-58).
PictureRight ==
  \A a \in Axes : \A o \in Places[a], box \in Boxes[a] :
    LET pos == o - view[a]
        rect == lowblit(o, box, a)
        Visible(p) == p \in 0 .. Screen[a] - 1 /\ p \in pos .. pos + box.len - 1
    IN  \A p \in 0 .. Screen[a] :
          IF on_screen(o, box, a)
          THEN /\ (p \in rect.to .. rect.to + Blitted(rect, a) - 1) <=> Visible(p)
               /\ Visible(p) => rect.from + p - rect.to = box.from + p - pos
          ELSE ~Visible(p)

\* A click sends the hero to the tile that is shown under the mouse: the picture
\* on the screen, the view the click is added to and the tile size go_to divides
\* by are those of one map (engine.cpp:65-68, anim.cpp:123-131, engine.h:23-29).
\* It is not so where the code loses track: in an iteration too late to draw,
\* on an axis not drawn again since a map was loaded over a moved view (see
\* OffsetIsDrawn), and after a map failed to load.
ClickHitsShownTile ==
  \A a \in Axes : picture # <<>> /\ settled[a] /\ ~has_error =>
    \A p \in 0 .. Screen[a] - 1 :
      Quotient(view[a] + p, tile_size[a]) = Quotient(picture[a] + p, tile[a])
=============================================================================
