------------------------------- MODULE MCWalking -------------------------------
(***************************************************************************)
(* Walks of one step, and of two, straight, diagonal, around every corner  *)
(* but not back to their start, by objects with frames of 32 x 32 pixels   *)
(* on tiles of the same size.  Engine::iteration calls do_step every 20             *)
(* milliseconds or a little later: data/bat.xml moves 4 to 4.4 pixels      *)
(* between two calls, and data/hero.xml moves 2.  A walk starts in the     *)
(* middle, at the edges or in the corners of a tile.                       *)
(***************************************************************************)
EXTENDS Walking

MCBox == <<16, 32>>

Steps == {<<x, y>> : x \in -1 .. 1, y \in -1 .. 1} \ {<<0, 0>>}

Way(a, b) == << <<4, 4>>, <<4 + a[1], 4 + a[2]>>, <<4 + a[1] + b[1], 4 + a[2] + b[2]>> >>

OneStep == {SubSeq(Way(s, s), 1, 2) : s \in Steps}

MCPaths == OneStep \cup
  {Way(s[1], s[2]) : s \in {r \in Steps \X Steps : r[2] # <<-r[1][1], -r[1][2]>>}}

MCOffsets == {0, 16, 31} \X {0, 16, 31}

BatStrides == {40, 44}
HeroStrides == {20}
=============================================================================
