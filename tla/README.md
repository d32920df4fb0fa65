# A verification development of lpcgame

lpcgame is the base of a small tile game: a script creates characters on a map,
sends them to places, and calls the engine once per frame.  This directory
models the parts of it that carry its logic in TLA+, checks them with TLC on
small instances, and proves what can be proved for every instance with TLAPS.

1. [The system](#1-the-system)
2. [The modules](#2-the-modules)
3. [What the runs check](#3-what-the-runs-check)
4. [What is proved](#4-what-is-proved)
5. [Where the code does not do what it says](#5-where-the-code-does-not-do-what-it-says)
6. [What is not modelled](#6-what-is-not-modelled)
7. [Plan](#7-plan)

## 1. The system

The program has one thread.  A Lua script calls `Engine.iteration` in a loop;
the engine moves objects, moves the scroller after the hero, waits, draws and
handles events; a mouse click sends the hero to a place.  What is hard about it
is not concurrency but memory handled by hand (a pool of nodes with two
intrusive lists, path nodes shared by the search and the object that walks),
long loops that rewrite the lists they search, integer and float arithmetic at
the edges, and calls of a script in orders nobody tried.

| component | state | operations | correct when |
|---|---|---|---|
| Node allocator `fsa.h` | free list, used list in one block | `alloc`, `free`, `GetFirst`/`GetNext` | each element is in exactly one list, lists are well linked, `alloc` fails only when all are out |
| A* search `stlastar.h` | open and closed list, nodes with parent, child and cost, start, goal, cursor, state, cancel flag | `SetStartAndGoalStates`, `SearchStep`, `CancelSearch`, `GetSolutionStart/Next`, `FreeSolutionNodes` | no node leaks or is freed twice, one node per tile, parents lead to the start, the search ends |
| Map search node `findpath.cpp` | a tile | successors, cost, estimate | moves are legal; the estimate says something about the cost |
| Navigation `anim.cpp` | `step_`, and its search | `go_to`, the part of `do_step` at the end of a step | every request is answered, by a walk to the goal or with a reason; `step_` is never a freed node |
| Walking `anim.cpp` | position, `distance_`, microsteps | `set_direction`, `do_step` | a walk ends, at its goal |
| Animations `anim.cpp` | animation, frame, time of the next | `Set`, `update_animation` | the frame exists, no time is lost, what is shown is how the object moves |
| Game map `game_map.*` | layers, navigation map | `Load`, `build_navigation_map`, `navigation_map`, `Render` | the map loaded last has its walls, and no tile is a wall that no map has made one; drawing stays on the map |
| Scroller `scroller.h` | view, background and its offset | `refresh`, `move`, `render_*` | what is shown is the map at the view, and a click means the tile that is shown |
| Engine loop `engine.*` | due time, hero, objects | `start`, `iteration`, `load_map` | the frame rate is kept, the game does not freeze |
| Script bindings `scripting.cpp` | - | calls of Character and Engine | any order of calls is harmless |
| Objects, characters, video | position; screen | `on_screen`, `lowblit`, `blit` | exactly the visible pixels of a frame are drawn, at their place |
| Map file parser `tmxparser/` (vendored) | layers, tilesets, error | `ParseFile`, gid decoding | a gid finds the tileset of its file, whatever was parsed before |
| XML parser, Lua, SQLite (third party) | | | |

The search is written over the allocator through `AllocateNode` and `FreeNode`;
an animated object owns a search; the search reads the navigation map through
the global `MapSearchNode::RefMap`; the engine calls `do_step` of every moving
object and `move` of the scroller in each iteration; the scroller draws through
`Map::Render`.  The hazards, each at its line, are in `PROJECT.json`.

## 2. The modules

    NodePool ---- LifoPool <== FixedSizeAllocator          (<== : implements)
       |
    AStarSearch ---- MapSearchNode ---- PathWalk
       |                                   ^
       |                                  ||
    Navigation ============================/

    EngineLoop ---- Animation      Scroller ----+
                                                +---- Scene
    Walking                        GameMap -----+

* **`NodePool`** has the operators on a free list (a sequence): what `alloc`
  takes and what `free` puts back.  **`LifoPool`** makes a specification of
  them, the abstract promise of `fsa.h`.
* **`FixedSizeAllocator`** is `fsa.h` itself: `next`, `prev`, `firstFree` and
  `firstUsed` are the pointers of the block, `AllocSucceeds`, `AllocFails` and
  `Free` the code's assignments.  `held` is the set of elements the client has;
  `freeOrder` is a history of the free list's order, which serves as the
  refinement mapping to `LifoPool`.
* **`MapSearchNode`** has the moves, costs and estimate of `findpath.cpp` over a
  navigation map (a function from tiles to 1 or 9).  A negative coordinate is an
  unsigned one near 2^32 whose float absorbs what is added to it; `Far` stands
  for it.
* **`AStarSearch`** is `stlastar.h` over the operators of `NodePool`.  A node is
  an element of the pool, and freed nodes keep their fields, as memory does:
  that is what makes the dangling parent pointers of a reopened node visible.
  The loops inside a call are unfolded: `pc` names the loop, `n` and `k` its
  node and index, and `back` is the tile of the parent, which `GetSuccessors`
  copies before it allocates anything.  `SearchStep` is `GiveUp`, `ReachGoal` or `Expand`, followed
  by `AddSuccessor` for each of the eight moves, `Relax` for each successor,
  `LinkParent` back along the path, `FreeUnused...` or `FreeAll...`.  The heap is
  a set from which some node of least `f` is taken, which is what the order of a
  heap with equal keys comes down to.  The client's actions (`Start`, `Cancel`,
  `ReadSolution`, `Free`) are the protocol under which the search may be used.
* **`Navigation`** adds `AnimObj::go_to` and `do_step`: `phase` is how far the
  call of `go_to` is, and each of its lines that calls the search is an action
  that contains the action of the search.
* **`PathWalk`** is the promise of the two to the game, without a search: a
  request is answered with a walk of legal moves over free tiles from the start
  to the goal, or with none; then the walk is followed tile by tile.
* In all three a map is loaded between two requests: `LoadMap` of the search,
  `ReplaceMap` of the object (also while it walks), `Reload` of the promise.  A
  walk that has begun goes on over the map it was found on, the next request is
  answered on the new one.
* **`Walking`** is the arithmetic of `set_direction` and `do_step` on a given
  path: an int position that a fraction of a pixel is added to, and truncated,
  in every frame.  `leg` and `walked` are what `distance_` and the microsteps
  are made of; the distance is kept as a square so that all of it is exact.
  `actual_` is the animation that the branches of `set_direction` (`Facing`) and
  of the arrival (`FacingAtGoal`) choose.  `go_to_nowhere` is a request on the
  way that is not answered with a walk; that it also sets `distance_` to 0.0 is left
  out, as nothing reads it before `set_direction` sets it again.
* **`EngineLoop`** is the timing of `Engine::iteration`: `wanted_`, the tick
  counter with its wrap, the sleep and the skipped frames.  A script may call
  `start` at any time between two iterations, and iterate before it: then
  `wanted_` is what its memory had, one of `Garbage`.
* **`Animation`** adds one animated object: `update_animation` in the iterations
  that draw, `Set` wherever a step of a walk or a click may call it.  `origin` is
  a history of when frame 0 was due, against which the rhythm is stated.
* **`GameMap`** is `Map::Load` over what `Tmx::Map` keeps: a file is a record of
  its tile size, tilesets and layers of gids; one parser object appends the
  layers and tilesets of every file to those it has.  `FindTilesetIndex` and
  `MapTile` decode a gid with its flip bits as the code does, in words of `Word`.
* **`Scroller`** is `scroller.h`: `view`, `map_` (the offset of the background)
  and `drawn` (the tile the background was last drawn from), for both axes at
  once.
* **`Scene`** composes the two: `load_map` is `Load` followed by `refresh` when
  there was no error, and `iteration` moves the view and then draws it, or does not
  when it is late.  `picture` is what is on the screen, as the map pixel at its corner,
  or empty when that was not drawn since the view was last moved or a map was loaded.
  `on_screen` and `lowblit` are `obj.cpp`, with fields of 16 bits that are signed
  (`x`, `y`) or not (`w`, `h`), and `Blitted` the cutting SDL does, modelled from how
  it is called.
* The `MC...` modules give the constants their values; the `..._proofs` modules
  hold the theorems.  Operators called faulty variants are plausible mistakes in
  the action below them; `PROJECT.json` pairs each property with one that breaks
  it.

History variables are marked as such: `dropped` (the pool ran out in this
search), `spoilt` (a goal was reached after that), `started`, `skipped` and
`lost` (the account of late frames), `undefined` (a NaN was converted to a
position), `settled` (the axes on which the background is that of the map loaded
last), `moved` (the view was moved since then), `parsed` (the files), `origin` and `shown` (times of an animation).

## 3. What the runs check

| run | shows | bounds |
|---|---|---|
| `allocator` | both lists of `fsa.h` are well linked and partition the block, the used list reaches every held element, and the allocator implements `LifoPool` | 5 elements: enough for a removal at the head, in the middle and at the end of the used list with something on either side |
| `search` | nodes are accounted for, one node per tile, the chain of parents of an expanded node is sound, the loops along a path never meet NULL, reached tiles are kept | two searches in a row, the map replaced between them or not; maps on which closed nodes are reopened on the way to a goal that cannot be reached, a goal that can, the start as goal; 14 nodes, so that the pool also runs out; cancelled at every moment |
| `goto_bounds` | every `go_to` returns, gives its nodes back, answers with a walk or a justified failure, and together with `do_step` implements `PathWalk` and uses the search legally | two requests on two maps of 3 x 3 tiles, which may be exchanged between them, from floor and wall, to reachable, equal and outside goals; 5 steps and 9 nodes, so that paths are found and both bounds are met too (600 and 1000 in the code) |
| `goto_reopening` | on a map where nodes are reopened and freed on the way the path is a walk over free tiles and costs at most twice the least | maps of 3 x 8 and 4 x 6 tiles found among random maps for reopening; both directions, and ways around |
| `walk` | a walk ends, idle and no further than 26 pixels from the middle of its last tile (the bound that is proved for these strides), its direction is always defined, and the animation shows the way the object moves; a failing request on the way stops it anywhere | all 8 paths of one step and 56 of two, from nine places of the first tile; strides of 4 to 4.4 pixels, as `data/bat.xml` makes at 50 frames a second and a little late; longer paths are left to the theorem |
| `scene` | the view stays in the background, both layers show the map at the view, the foreground reaches the far edge or the end of the layer, drawing starts on the map while the hero walks; of every object exactly the visible pixels are drawn; the map loaded last has its walls and none is invented; in an iteration that drew, a click means the tile that is shown | a 7 x 6 screen; two maps, with tiles that divide it and that do not, whose gids overlap, with layers of different sizes and tiles flipped in each way, and a file that cannot be read, two loads in any order; a hero that may jump anywhere on a map wider than the background and off its edge (views at 0 to 11 in x, at eight places between in y, multiples of the tiles and their neighbours); layers of 0 to 20 tiles; objects from beyond one side of the screen to beyond the other, with three frames of a sheet; rectangles whose fields wrap at 36, gids at 64 with three bits for flipping |
| `engine_loop` | after `start` the loop is never ahead by more than 2 ms, sleeps for at most a frame, and skips frames only against lost time, whatever it did before; the frame of an animation exists, keeps its rhythm and gets no further behind while frames are drawn | frames of 5 ms, parts of an iteration that take 0, 2 or 11 ms, 36 ms in all, every combination; `wanted_` 0, 20 or 127 before `start`, a counter of 128; animations of one and of three frames |
| `goto_shortest`, `search_exhausted`, `walk_slow`, `scroller_reload`, `scroller_jump` | the disagreements of section 5 | |

Remarks on what the properties leave out, and why:

* **`spoilt`** After the pool ran out during a search that reached its goal the
  chain of parents may be broken (section 5), so `NodesAccounted`,
  `OneNodePerTile`, `ReachedTilesKept`, `MemoryFreed`, `StepIsOnPath` and
  `GoToReturns` say nothing from there on.
  `search_exhausted` shows that the exception is needed.
* **`Far`** `PoppedChainSound` is about nodes whose `f` is not saturated.  A goal
  outside of the map cannot be reached, so no path to it is ever followed.
* **`settled`** `ShowsView` and `ClickHitsShownTile` hold on an axis from the first
  map on, and again after another map was loaded once the view has left the
  background on that axis.  In between the picture is wrong and a click means another
  tile than the one under the mouse (section 5, `scroller_reload`).  What holds there
  too, `ViewInBackground` and `ForegroundCovers`, is stated for every axis once the
  view was `moved`, which `Engine::iteration` does before it draws.
* **`picture # <<>>`** `ClickHitsShownTile` is about iterations that have drawn.  One
  that is late moves the view and handles clicks without drawing
  (`engine.cpp:25-34,65-67`): such a click means what the next picture will show under
  the mouse.
* **`~has_error`** An error is never reset.  After a file that could not be read
  every later `load_map` returns false, yet its layers are appended and its tile
  size is taken, so `WallsBlock`, `WallsAreFromFiles` and `ClickHitsShownTile`
  say nothing from there on.
* **`Unflipped`** `WallsBlock` is about tiles that are not flipped.  A gid that
  is flipped horizontally is negative as an int and finds no tileset; one that is
  flipped otherwise finds the last one.  Such a wall is neither drawn nor blocks.
  `WallsAreFromFiles` is about all tiles.
* **`MovesAsShown`** leaves out walks straight down and straight left: a microstep
  of 0 falls into the last branch of `set_direction`, which shows them as walks
  to the right and up.  Straight right and up come out as they should.
* **`goal # <<>>`** `EndsNearGoal` and `IdleAtGoal` are about walks that no
  later request has stopped; such an object stays where it is with its walk
  animation.
* **`started`** Before `start` the loop sleeps for as long as the garbage in
  `wanted_` says or draws nothing.  The properties hold from `start` on, also if
  it is called again in the middle of a session.
* **`ForegroundCovers`** allows the rows to end before the lower edge of the screen
  by what its height has over whole tiles, because `render_layer` takes its offset into
  account for the columns only (`game_map.cpp:164-165`).  With 480 lines and tiles
  of 32 that is nothing; with tiles of 18 the last 12 lines may stay empty.
* **`LinkParent`** The code dereferences `nodeParent` without a test
  (`stlastar.h:210-220`).  The model has no step where it is NULL, since the program
  ends there; `NoNullFollowed` says that it does not come to that while nodes do not
  run out.
* **`Unwrapped`** The properties of the engine loop are about the first 49 days
  of a session.  When the tick counter wraps between `wanted_` and `now`,
  `wanted_ > now + 2` is true of times that are late, and the sleep is as long as
  the counter.
* **`SkipsJustified`** speaks of the time by which iterations were longer than
  usual.  On a machine on which every iteration takes longer than a frame the
  picture never comes back: the code has no other way to give up catching up.

**Fairness.** `NavSpec` has weak fairness of the steps inside `go_to`: it is one
call of a single-threaded program and nothing can stop it.  `Walking` has weak
fairness of steps with a positive stride: the engine calls `do_step` in every
iteration for every object that moves, and time passes.  All other properties
are safety properties, and their specifications state no fairness.

**Deadlock** is checked in every run; where a bound stops the client there is an
explicit stuttering action (`Done`, `NavDone`, `Over`, `Stop`) with the bound in
its guard.

## 4. What is proved

Every theorem is for all values of the constants under the named assumptions of
the modules (`MaxNodesAssumption`, `MapsAssumption`, `ScreenAssumption`, ...),
which say no more than that sizes are numbers, that a pool has room for a start
and a goal, that a map is finite and holds the values the code writes, and that a
screen and a sheet together are shorter than 2^15 pixels.
`GidsAssumption` says what map editors write: a cell has the gid 0, or one of a
tileset of its own file.  Without it a tile could belong to a tileset of another
file, and a wall be read from where no file has one.  `FarAssumption` says that
`Far`, which stands for a float near 2^32, is larger than the costs that fit into a
pool and than the distances within a map.  Two theorems on the drift of a walk state
a condition of their own, `DriftIsWithin`: the steps of a path lead to neighbouring
tiles, and the strides are neither so short that a leg takes too many nor so long
that its end is missed.  Two more are about pools that are large enough for the map.

* **`FixedSizeAllocator_proofs`** `ListInv` is the type invariant, the form of
  the free list and the links of the used list together: none of the three is
  inductive alone, since `alloc` moves the head of one list to the other and
  `free` rewrites the links of both.  From it: `TypeCorrect`,
  `FreeListCorrect`, `UsedListCorrect`, and the refinement
  `AllocatorImplementsPool`.  Links that fit do not exclude a cycle beside the
  chain; `Chained` says that the elements in use are one sequence, the used list
  from its first element to the last, to which `alloc` appends and from which
  `free` takes one out.  `UsedListIsChain` follows, with a pigeonhole argument
  for the length.
* **`AStarSearch_proofs`** `TypeInv` adds to the type invariant `NodesKnown`:
  what is known of the local node in each loop, and that a search that has begun
  has a start and a goal.  Without it a dereference in `Relax` or `LinkParent`
  could be of NULL.  From it: `SearchTypeCorrect`.  `BackInv` says that `back` is the
  tile of the parent as long as the parents of the expanded node are sound.

  `SearchInv` is the inductive invariant of the memory and of the paths: besides
  `TypeInv` and `Phases` it has, as long as no path was followed in a search that
  ran out of nodes (`~spoilt`), `Sound`.  That is `PoolInv` (the free list names
  no node twice, the count is right, and the nodes that are out are those that are
  `Held`), `ListsInv` and `TilesInv` (the lists are disjoint and their nodes stand
  for different tiles), `StartInv` and `ChildInv`, `LinkInv` and `PathInv` (how far
  a path is linked, and that it leads to the goal), and `ChainInv`.  None of these
  can be proved without the last one: what is freed after a search are the nodes
  that the child pointers lead to, these are set along the parent pointers, and a
  parent may have been freed when its tile was reopened.

  The argument of `ChainInv`: `f` falls by at most one along a step.  When a node is
  popped, all open nodes have an `f` at least as high; so while a descendant of it
  has a lower `f` than it, only nodes that cost more are popped
  (`DescendantsFirst`).  Hence the open descendants of a closed node that is
  reopened have an `f` no lower than its own, and the node that takes its place,
  which is cheaper, is popped before all of them.  When it is expanded it replaces
  the children whose parent was freed, and the argument is repeated for these:
  every node that lost its parent is going to be replaced by a cheaper one that
  comes before its descendants (`UnlinkedReplaced`).  So nothing is ever popped
  whose parents are not a sound chain.

  From `SearchInv` follow `NodesAreAccounted`, `OneNodeForATile`,
  `PoppedChainIsSound`, `TilesAreKept`, `NoNullIsFollowed` and `StartComesFirst`.
  That `nodeParent` is not NULL is no consequence of a test in the loop, which has
  none, but of `LinkInv`: the parents of the goal lead to the start.  Properties that are
  stated with the recursive functions `ParentsOf` and `ChildrenOf` are reduced to
  `Leads`, reachability along a set of links (`AlongMeets`, by a pigeonhole
  argument on the length of the walk).  `ExploredInv` says that the neighbours of
  a closed tile have been reached, without which a failure could not be justified.
  `EnoughNodesSuffice` removes the exception: with a node for every tile of a map
  and ten more no allocation fails.
* **`Navigation_proofs`** `NavInv` relates the phase of `go_to` to the state of
  its search and its count of steps.  `NavUsesSearchLegally` says that every
  step of the object is a step of the search's client protocol or none, so what
  is proved of the search holds inside the game; `NavTypeCorrect` bounds the
  steps.  `MemoryIsFreed` and `StepStaysOnPath` need nothing else but
  `SearchInv`.

  `FailuresAreJustified`: when the open list is empty, the closed tiles contain the
  start and all walkable neighbours of their own, so by induction on the number of
  moves (the `Within` lemmas) all that can be reached, and the goal is not among
  them.  `PathIsWithinTwice`: on the shortest path to the goal there is always an
  open node that costs no more than the path so far (`WayIsExplored`); the estimate
  rates a move two at most, so the node that is popped as the goal costs no more than
  twice the shortest path (`GoalWithinTwice`).  `RouteInv` carries the exact costs
  and the legality of each move over from the parent pointers to the child pointers,
  and on to the walk.  A walk, a recursive sequence in the model, is named by the
  finite sequence of its nodes (`Trail`).  `WalkIsImplemented` is the refinement of
  `PathWalk`: linking and freeing are steps that stutter, the return of `go_to` is
  the answer, and what `do_step` reads is the rest of the walk.

  The three are about requests as long as no path was followed in a search that
  ran out of nodes (`spoilt`, section 3): a chain that never meets the start is
  linked and freed in ways that nothing is known of (`search_exhausted`).  TLC
  finds the properties to hold without this exception on the maps of `goto_bounds`.
  `EnoughNodesForWalks` says when there is no such search.  The 1000 nodes of
  `stlastar.h` are enough for a map of 990 tiles; `data/outdoor.tmx` has 40000, and
  there the exception is a real one.
* **`Scroller_proofs`** `ScrollInv` says of every axis, once the view was moved,
  that the view is in front of the background's far edge by at most two tiles, and of
  a settled axis that the offset is a multiple of the tile size and the tile drawn
  from its quotient.  The lemmas on
  truncated quotients (`OffsetBounds`, `QuotientOfMultiple`) are where the
  arithmetic is.  `ScrollerTypeOK` needs none of it.
  `ForegroundReachesEdge` is what the rounded number of tiles is worth when the
  offset is a proper part of a tile, for layers of any size and on both axes, also
  where the background has not been drawn anew.
* **`Scene_proofs`** `SceneUsesScroller` says that loading and showing are steps
  of the scroller or none, so its theorems hold in the scene.  `SizesAgree`, that
  the scroller has the tile size of the map, and `PictureInv`, that a picture on the
  screen is that of the background at the view, are the invariants behind
  `ClickIsRight`; it says no more than its property, which leaves out the axes and
  iterations named in section 3.  `PictureIsRight` is arithmetic on the segment of each axis:
  no coordinate ever wraps (`SignedFits`), and where `lowblit` lets a width wrap, either `on_screen` has refused the object or
  SDL's cutting at the screen leaves what should be seen.  `WallsDoBlock` rests
  on `MapInv`: the tilesets and decoded layers of the latest file are the end of
  the two lists, so the tileset found for one of its gids is its own, whatever
  came before, and the map was built of these lists.  `WallsComeFromFiles` needs
  the converse, for every layer of every file: the tileset found for a gid is one
  of the file it is from, since the first gid of an earlier file cannot be
  greater than that of its own tileset and still be found after it.
* **`EngineLoop_proofs`** `LoopInv` has, besides types, the account of time:
  how late the frame that is due may be is bounded by the lost time less the
  spare time of each skipped frame; nothing of it is claimed before `start`.
  `LoopIsPaced`, `LoopSleepsBriefly` and `LoopSkipsJustified` follow, all until
  the counter wraps (`Unwrapped`).
* **`Animation_proofs`** `AnimUsesLoop` carries these over to a loop with an
  animated object; `AnimFrameExists` is inductive together with the type of the
  animation that is set (`FrameInv`).  `AnimCatchesUp` needs `AnimInv` besides:
  that the times of the animation are words, like those of the loop, which comes
  from `LoopTypeCorrect` through `AnimUsesLoop`.  `AnimKeepsRhythm` reduces the sum
  of the times of the frames, a recursive function, to the step from one frame to
  the next.
* **`Walking_proofs`** `Shown` says which animation goes with the leg while there
  is a path and after its end; `StandsAtGoal` follows, for any paths and strides.
  `WalksAsShown` is about the quotients with which a stride is divided between the
  axes: the axis the animation shows has the greater part of the leg and gets the
  greater part of the stride, up to one pixel of truncation.

  `DirectionIsDefined` and `StopsNearGoal` bound the drift.  `Moving` says that
  the pixels an object has moved along an axis of a leg differ from what is due by
  one for each step at most; what is due is a root, so it is bounded by comparing
  squares (`RootSum`, `StepMoves`).  `DriftInv` says that a leg took no more than
  the given number of strides so far and is no longer than a tile and the drift of
  the leg before; hence the next one begins where the leg after it is not too long
  either, and, as the drift is less than a tile, not empty.  The assumption
  `DriftIsWithin(E)` relates the tile size and the strides; `BatsStayNear` shows
  it for the constants of the run `walk`, with 26 pixels on tiles of 32, the size of
  all maps of the repository.  The bound is less than a tile, so the object stops on
  its goal or on a tile beside it; that it is the goal itself is not so
  (section 5, `walk_slow`).

Only model-checked: `GoToReturns` and `WalkEnds`.  Liveness is out of the prover's reach, as are the
induction theorems of the library, which take an operator; what can be had of
induction is the existence of a least counterexample, from `WFMin` and
`NatLessThanWellFounded`.  That is how the sums, walks and lists of recursive
functions are reasoned about here: a function that satisfies the equation exists,
so the one that is meant does, and the least argument at which it were wrong is
wrong already before.

## 5. Where the code does not do what it says

* **`goto_shortest`** The Manhattan distance overrates diagonal moves, so the path
  found need not be the shortest: from (0,3) to (3,1) the search makes four moves,
  over (0,2), (1,1) and (2,1), where three do, over (1,3) and (2,2).
  `PathWithinTwice` is what holds.
* **`search_exhausted`** When the pool runs out, `GetSuccessors` ignores that
  `AddSuccessor` failed.  If a closed node is being reopened its children are
  not replaced, and the loop that links the path from the goal may never meet
  the start.
* **`walk_slow`** At two pixels per frame (the hero at 50 frames a second) so much
  is lost to truncation that the hero stops beside its goal.  At four pixels, as the
  bats move, it is less, but one step up and right from the lower left corner of a tile
  still ends a pixel above the goal tile, so `walk` checks `EndsNearGoal` only.  An object of 60
  pixels a second does not move at all down and to the right, and stops when
  `distance_` has run out.  Walking up and left is faster than it should be.
* **`scroller_reload`** `refresh` does not reset the offset of the background.
* **`scroller_jump`** When the view jumps back to the edge of the map, drawing
  starts at tile -1.  Walking there does not: the view leaves the background
  only when it is a tile further (`DrawsMapTilesWalking`).

Further deviations met while modelling, which no comment or test of the
repository contradicts, so that no run is about them: walks straight left and
down are shown as walks up and right; walls that are flipped are lost; the walls
of all maps loaded before remain; an error of one load spoils all later ones; a
loop that is iterated before `start` may sleep for any time.  The properties
above name each of them as an exception.

## 6. What is not modelled

Most of the repository is third-party code that the game embeds: Lua and SQLite
are 130,000 of its lines, TinyXML another 6,000.  They have no state that the
game's own logic depends on and are left out, as are input and output: loading
of images, XML, base64 and zlib (`tmxparser` below `ParseFile`), scripts,
logging.  Of the game's own 2,500 lines this leaves out:

* the debug accessors of the search, `GetSolutionEnd`, `GetSolutionPrev` and
  `GetSolutionCost`, which nothing calls; `USE_FSA_MEMORY` is 1 in the source and
  the other branch is left out, and so is `SEARCH_STATE_OUT_OF_MEMORY`, which is
  reached only when `GetSuccessors` returns false: it never does;
* `SpawnPoint`, `walkable` and `dump_screen_map` of the map, the order in which
  objects are drawn, `distance` and other getters;
* `set_position` during a walk.  The leg that follows may be of any length, and
  with it the drift; none of the properties of a walk survives it, and the code
  does not say what should happen;
* a goto or a hero before the first map is loaded: tile sizes are then
  zero or not set, and the code divides by them;
* an object without animations and a tileset without its image, which the code
  takes not to exist.

Doubles in `Walking` are taken for the real numbers they are close to, and all
frames of an object for equally large.  The start of a request in `Navigation`
stands for any position of the object.

## 7. Plan

Done: allocator and its pool; search and navigation on maps that are replaced;
the walk and its animations; the timing of the loop with an animated object; the
map over several files; the scroller, objects and clicks as one scene.

The proofs of the search, of navigation and of its refinement of `PathWalk` are
done as well, and so is the drift of a walk; every safety and action property that
a passing run checks is a theorem.

Left:

1. A sharper bound on the drift of a walk, from the direction of the leg: the sum of
   what truncation takes on an axis in a leg, rather than a pixel for each step.
2. The order in which objects are drawn, once something is to be said about it.
3. `set_position` during a walk, with what would have to change for a property to
   hold.
