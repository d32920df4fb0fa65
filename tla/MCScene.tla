--------------------------------- MODULE MCScene ---------------------------------
(***************************************************************************)
(* Scene on a small screen: the hero may jump anywhere, the maps are       *)
(* wider than the background, and the tiles divide the screen or do not.   *)
(* Two maps with overlapping gids and a file that cannot be read are       *)
(* loaded in any order.  Tiles are flipped in every way, among them walls. *)
(* The sheet has frames before and after the ones that are shown.          *)
(***************************************************************************)
EXTENDS Scene

OnAxes(x, y) == [a \in Axes |-> IF a = "x" THEN x ELSE y]

MCScreen == OnAxes(7, 6)
MCHeros == {OnAxes(x, y) : x \in {-1} \cup 4 .. 14, y \in {-1, 4, 5, 6, 8, 9, 11, 14}}

\* A layer given as its rows of gids.
Rows(rows) == [width |-> Len(rows[1]), height |-> Len(rows),
               gids |-> [c \in (0 .. Len(rows[1]) - 1) \X (0 .. Len(rows) - 1) |->
                           rows[c[2] + 1][c[1] + 1]]]

\* In words of 64, 32 is the gid flipped horizontally, 16 vertically, 8 diagonally.
Meadow == [readable |-> TRUE, tile |-> OnAxes(3, 2),
           tilesets |-> << [firstgid |-> 1, walls |-> {0}], [firstgid |-> 4, walls |-> {0, 1}] >>,
           layers |-> << Rows(<< <<1, 2>>, <<32 + 4, 0>> >>),
                         Rows(<< <<0, 4, 3>>, <<16 + 5, 8 + 1, 5>> >>) >>]
Cave == [readable |-> TRUE, tile |-> OnAxes(2, 4),
         tilesets |-> << [firstgid |-> 1, walls |-> {1}], [firstgid |-> 3, walls |-> {2}] >>,
         layers |-> << Rows(<< <<2>>, <<1>>, <<5>> >>) >>]
Missing == [readable |-> FALSE, tile |-> OnAxes(1, 1), tilesets |-> <<>>, layers |-> <<>>]

MCFiles == {Meadow, Cave, Missing}
MCTileSizes == {f.tile : f \in {Meadow, Cave}}

MCSheet == OnAxes(9, 8)
MCBoxes == [a \in Axes |-> {[from |-> 0, len |-> 3], [from |-> 3, len |-> 3], [from |-> 4, len |-> 4]}]
MCPlaces == [a \in Axes |-> -8 .. 22]
\* Layers that end before the screen, within it and beyond it.
MCLayerSizes == {0, 1, 3, 6, 20}
=============================================================================
