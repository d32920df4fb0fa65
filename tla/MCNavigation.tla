----------------------------- MODULE MCNavigation -----------------------------
(***************************************************************************)
(* Navigation on three kinds of maps.  On the map of 3 x 3 tiles requests  *)
(* start on the floor or on a wall and go to a reachable tile, to the      *)
(* start itself, or out of the map, and the bounds on steps and nodes are  *)
(* small enough to be met.  The maps of 3 x 8 and 4 x 6 tiles make the     *)
(* search reopen closed nodes on the way to a goal it reaches; the second  *)
(* has a way around for whoever does not squeeze through between walls.    *)
(* On the map of 4 x 4 tiles the path found is not the shortest one.       *)
(***************************************************************************)
EXTENDS Navigation

Picture(rows) == [t \in (0 .. Len(rows[1]) - 1) \X (0 .. Len(rows) - 1) |->
                    IF rows[t[2] + 1][t[1] + 1] = 0 THEN 1 ELSE Wall]

SmallMaps == { Picture(<< <<0, 0, 0>>,
                          <<0, 1, 0>>,
                          <<0, 1, 0>> >>),
               Picture(<< <<0, 1, 0>>,
                          <<0, 0, 0>>,
                          <<0, 1, 0>> >>) }
SmallStarts == {<<0, 2>>, <<1, 1>>}
SmallGoals == {<<2, 2>>, <<0, 2>>, <<-1, 0>>}

ReopeningMaps == { Picture(<< <<1, 0, 0>>,
                              <<0, 0, 1>>,
                              <<0, 1, 0>>,
                              <<1, 1, 0>>,
                              <<0, 0, 0>>,
                              <<0, 0, 0>>,
                              <<0, 1, 0>>,
                              <<0, 0, 0>> >>),
                   Picture(<< <<0, 0, 0, 0>>,
                              <<0, 1, 0, 0>>,
                              <<0, 0, 1, 1>>,
                              <<1, 0, 0, 0>>,
                              <<0, 1, 0, 1>>,
                              <<0, 0, 0, 0>> >>) }
ReopeningStarts == {<<0, 7>>, <<2, 0>>, <<0, 5>>}
ReopeningGoals == {<<2, 0>>, <<0, 7>>, <<3, 0>>}

DetourMaps == { Picture(<< <<1, 0, 0, 0>>,
                           <<0, 0, 0, 0>>,
                           <<0, 1, 0, 0>>,
                           <<0, 0, 0, 0>> >>) }
DetourStarts == {<<0, 3>>}
DetourGoals == {<<3, 1>>}
=============================================================================
