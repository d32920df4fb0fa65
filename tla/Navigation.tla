------------------------------ MODULE Navigation ------------------------------
(***************************************************************************)
(* How AnimObj (anim.cpp) drives its AStarSearch: go_to frees the last     *)
(* path, searches to the end within a bound on the steps, and keeps the    *)
(* first tile to walk to in step_; do_step replaces step_ by the next tile *)
(* whenever the object has arrived at the one it is walking to.            *)
(*                                                                         *)
(* phase is how far the call of go_to is: "cleared" once FreeSolutionNodes *)
(* was called, "searching" in the loop of SearchStep, "reading" between    *)
(* GetSolutionStart and GetSolutionNext, "idle" outside of go_to.  Requests *)
(* are in tiles; start stands for wherever the object's base is.           *)
(***************************************************************************)
EXTENDS AStarSearch

CONSTANT MaxSteps             \* 600 in go_to, anim.cpp:147

ASSUME MaxStepsAssumption == MaxSteps \in Nat

VARIABLES
  phase,
  request,      \* <<ns, ne>> of the last go_to with, as history, the map it was
                \* made on; <<>> before the first
  step_,        \* node of the tile the object walks to, NULL when it does not
  SearchSteps   \* calls of SearchStep in this go_to

nav == <<phase, request, step_, SearchSteps>>
navVars == <<vars, nav>>

NavInit == /\ Init
           /\ phase = "idle" /\ request = <<>> /\ step_ = NULL /\ SearchSteps = 0

-----------------------------------------------------------------------------
\* Faulty variant of GoTo: the last solution is not freed.
GoToWithoutFreeing(start, goal) ==
  /\ phase = "idle" /\ searches < MaxSearches
  /\ phase' = "cleared"
  /\ request' = <<start, goal, RefMap>>
  /\ UNCHANGED <<vars, step_, SearchSteps>>

\* go_to begins: the nodes of the last solution, if there is one, are freed.
GoTo(start, goal) ==
  /\ phase = "idle" /\ searches < MaxSearches
  /\ phase' = "cleared"
  /\ request' = <<start, goal, RefMap>>
  /\ IF mStart = NULL THEN UNCHANGED vars ELSE FreeSolutionNodes
  /\ UNCHANGED <<step_, SearchSteps>>

\* EnsureMemoryFreed asserts that the search holds no node; where it fails
\* the step cannot be taken.
BeginSearch ==
  /\ phase = "cleared" /\ pc = "ready"
  /\ count = 0
  /\ SetStartAndGoalStates(request[1], request[2])
  /\ phase' = "searching" /\ SearchSteps' = 0
  /\ UNCHANGED <<request, step_>>

\* Faulty variant of Interrupt: the search is not told.
InterruptUntold == /\ phase = "searching" /\ state = "SEARCHING"
                   /\ SearchSteps > MaxSteps /\ ~cancel
                   /\ UNCHANGED navVars

Interrupt ==
  /\ phase = "searching" /\ state = "SEARCHING"
  /\ SearchSteps > MaxSteps /\ ~cancel
  /\ CancelSearch
  /\ UNCHANGED nav

\* Faulty variant of CallSearchStep: the bound is not tested.
CallSearchStepUnbounded ==
  /\ phase = "searching"
  /\ SearchStep
  /\ SearchSteps' = SearchSteps + 1
  /\ UNCHANGED <<phase, request, step_>>

CallSearchStep ==
  /\ phase = "searching"
  /\ SearchSteps > MaxSteps => cancel
  /\ SearchStep
  /\ SearchSteps' = SearchSteps + 1
  /\ UNCHANGED <<phase, request, step_>>

\* The steps inside the calls of the search.
InCall == /\ Working \/ FreeSolutionNode
          /\ UNCHANGED nav

\* Faulty variant of FindPath: any end of the search is taken for success.
FindPathAlways ==
  /\ phase = "searching" /\ pc = "ready" /\ state \in {"SUCCEEDED", "FAILED"}
  /\ GetSolutionStart
  /\ step_' = mStart
  /\ phase' = "reading"
  /\ UNCHANGED <<request, SearchSteps>>

FindPath ==
  /\ phase = "searching" /\ pc = "ready" /\ state = "SUCCEEDED"
  /\ GetSolutionStart
  /\ step_' = mStart
  /\ phase' = "reading"
  /\ UNCHANGED <<request, SearchSteps>>

\* Faulty variant of SkipStart: the walk begins with the tile it starts on.
SkipNothing ==
  /\ phase = "reading"
  /\ phase' = "idle"
  /\ UNCHANGED <<vars, step_, request, SearchSteps>>

\* The first tile of the path is the one the object is on.
SkipStart ==
  /\ phase = "reading"
  /\ GetSolutionNext
  /\ step_' = NextOnPath
  /\ phase' = "idle"
  /\ UNCHANGED <<request, SearchSteps>>

\* Faulty variant of FindNoPath: step_ keeps pointing at the last path.
FindNoPathKeepsStep ==
  /\ phase = "searching" /\ pc = "ready" /\ state = "FAILED"
  /\ phase' = "idle"
  /\ UNCHANGED <<vars, request, step_, SearchSteps>>

FindNoPath ==
  /\ phase = "searching" /\ pc = "ready" /\ state = "FAILED"
  /\ step_' = NULL
  /\ phase' = "idle"
  /\ UNCHANGED <<vars, request, SearchSteps>>

\* do_step at the end of a step.
NextStep ==
  /\ phase = "idle" /\ step_ # NULL
  /\ GetSolutionNext
  /\ step_' = NextOnPath
  /\ UNCHANGED <<phase, request, SearchSteps>>

\* A script loads another map: not in go_to, but maybe during a walk, whose
\* nodes the search keeps.
ReplaceMap == phase = "idle" /\ LoadMap /\ UNCHANGED nav

-----------------------------------------------------------------------------
InGoTo == \/ BeginSearch \/ Interrupt \/ CallSearchStep \/ InCall
          \/ FindPath \/ SkipStart \/ FindNoPath

NavDone == /\ phase = "idle" /\ step_ = NULL /\ searches = MaxSearches
           /\ UNCHANGED navVars

NavNext == \/ \E s \in Starts, g \in Goals : GoTo(s, g)
           \/ InGoTo
           \/ NextStep
           \/ ReplaceMap
           \/ NavDone

\* go_to is one call of a single-threaded program: once entered it runs.
NavSpec == NavInit /\ [][NavNext]_navVars /\ WF_navVars(InGoTo)

-----------------------------------------------------------------------------
NavTypeOK == /\ phase \in {"idle", "cleared", "searching", "reading"}
             /\ request \in {<<>>} \cup (Starts \X Goals \X Maps)
             /\ step_ \in Pointers
             /\ SearchSteps \in 0 .. MaxSteps + 2

\* The tiles from node s to the end of the path it is on.
TilesFrom(s) ==
  LET node_[i \in 0 .. MaxNodes] ==
        IF i = 0 THEN s
        ELSE IF node_[i - 1] = NULL THEN NULL ELSE node[node_[i - 1]].child
      length == Cardinality({i \in 0 .. MaxNodes : node_[i] # NULL})
  IN  [i \in 1 .. length |-> Tile(node_[i - 1])]

\* The tiles that i moves over free tiles reach from start.
Within(map, start) ==
  LET after[i \in 0 .. Cardinality(DOMAIN map)] ==
        IF i = 0 THEN {start}
        ELSE LET before == after[i - 1]
             IN  before \cup {t \in DOMAIN map :
                               /\ Walkable(map, t)
                               /\ \E s \in before : Adjacent(s, t)}
  IN  after

Reachable(map, start, goal) == goal \in Within(map, start)[Cardinality(DOMAIN map)]

\* The least number of moves to a tile that can be reached.
Distance(map, start, goal) ==
  Cardinality({i \in 0 .. Cardinality(DOMAIN map) : goal \notin Within(map, start)[i]})

Answered == phase = "idle" /\ request # <<>>
JustFound == Answered /\ step_ # NULL /\ step_ = node[mStart].child

\* The assertion of EnsureMemoryFreed (stlastar.h:601-607), at the place where
\* go_to relies on it (anim.cpp:128-129): after any number of requests, and
\* however the last one ended, every node is back (see NodesAccounted for
\* the one exception).
MemoryFreed == phase = "cleared" /\ pc = "ready" /\ ~spoilt => count = 0

\* The object never walks to a node that the search has freed: step_ is the
\* node m_CurrentSolutionNode points at, and it is out of the pool
\* (anim.cpp:63,134-135).
StepIsOnPath ==
  phase = "idle" /\ step_ # NULL /\ ~spoilt => step_ = solution /\ step_ \in Live

\* A request fails only when there is no path, or when the search was cut
\* short by the bound on its steps or on its nodes (anim.cpp:147-166).
FailureJustified ==
  Answered /\ state = "FAILED" =>
    cancel \/ dropped \/ ~Reachable(request[3], request[1], request[2])

\* The Manhattan estimate overrates a diagonal at most by a factor of two,
\* and so is the cost of the path found (findpath.cpp:49-55).
PathWithinTwice ==
  JustFound /\ ~dropped =>
    LET first == GetCost(request[3], request[1])
        Cost(moves) == first + moves - 1
    IN  Cost(Len(TilesFrom(step_))) <= 2 * Cost(Distance(request[3], request[1], request[2]))

\* "shortest path finding using A*" (findpath.cpp:7).
ShortestPath ==
  JustFound /\ ~dropped =>
    Len(TilesFrom(step_)) = Distance(request[3], request[1], request[2])

\* go_to returns: its loops end whatever the map and the request.  Only the
\* loop that links a path found after nodes ran out may not (StartIsFirst).
GoToReturns == phase # "idle" ~> phase = "idle" \/ spoilt

\* Every use AnimObj makes of the search is one its client protocol allows.
UsesSearchLegally == Spec

\* go_to and do_step implement the walk the game relies on.
Walk == INSTANCE PathWalk WITH
          Tiles <- Starts \cup Goals,
          map <- RefMap,
          asked <- IF phase = "idle" THEN <<>> ELSE <<request[1], request[2]>>,
          walk <- IF phase = "idle" THEN TilesFrom(step_) ELSE <<>>
ImplementsPathWalk == Walk!Spec
=============================================================================
