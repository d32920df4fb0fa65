----------------------------- MODULE MCAStarSearch -----------------------------
(***************************************************************************)
(* AStarSearch on two maps of 4 x 4 tiles.  Both are chosen because a      *)
(* closed node is reopened, and freed, while nodes it was the parent of    *)
(* are still open on the way to the corner, which cannot be reached; the   *)
(* other goals are the far end of the way and the start itself.            *)
(***************************************************************************)
EXTENDS AStarSearch

Picture(rows) == [t \in (0 .. Len(rows[1]) - 1) \X (0 .. Len(rows) - 1) |->
                    IF rows[t[2] + 1][t[1] + 1] = 0 THEN 1 ELSE Wall]

MCMaps == { Picture(<< <<0, 1, 1, 0>>,
                       <<1, 1, 0, 0>>,
                       <<0, 0, 1, 0>>,
                       <<0, 1, 1, 0>> >>),
            Picture(<< <<0, 1, 0, 0>>,
                       <<1, 1, 0, 0>>,
                       <<0, 0, 1, 0>>,
                       <<0, 1, 0, 0>> >>) }
\* With 19 nodes the search runs out of them and then finds a path.
ExhaustingMaps == { Picture(<< <<0, 1, 1, 0, 0>>,
                               <<0, 0, 1, 1, 0>>,
                               <<0, 1, 0, 0, 0>>,
                               <<0, 1, 0, 0, 0>>,
                               <<0, 0, 1, 1, 0>> >>) }
ExhaustingStarts == {<<0, 3>>}
ExhaustingGoals == {<<3, 0>>}

MCStarts == {<<3, 3>>}
MCGoals == {<<0, 0>>, <<0, 3>>, <<3, 3>>}
=============================================================================
