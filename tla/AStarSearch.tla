------------------------------ MODULE AStarSearch ------------------------------
(***************************************************************************)
(* AStarSearch<MapSearchNode> of stlastar.h with its pool of nodes.        *)
(*                                                                         *)
(* A node is an element of the pool; its fields stay readable after it is  *)
(* freed, as they do in memory, until the element is allocated again.  The *)
(* loops inside the calls are unfolded: pc names the loop a call is in, n  *)
(* and k are its local node pointer and index, and one step is one         *)
(* iteration.  Between two calls pc is "ready".                            *)
(*                                                                         *)
(* Open and closed lists are sets: the heap returns some node of lowest f, *)
(* so the order among equal f is left open.  The two lists are freed in    *)
(* some fixed order, which matters only for the elements that the next     *)
(* search is given.                                                        *)
(***************************************************************************)
EXTENDS MapSearchNode, FiniteSets

CONSTANTS
  MaxNodes,     \* elements of the pool, stlastar.h:110
  Maps,         \* the navigation maps considered
  Starts,       \* tiles a search may start from
  Goals,        \* tiles a search may be sent to
  MaxSearches   \* bound on the number of searches

ASSUME MaxNodesAssumption == MaxNodes \in Nat /\ MaxNodes >= 2
ASSUME MapsAssumption == \A map \in Maps :
                           /\ IsFiniteSet(DOMAIN map)
                           /\ \A tile \in DOMAIN map :
                                tile \in Nat \X Nat /\ map[tile] \in {1, Wall}
ASSUME TilesAssumption == Starts \subseteq Int \X Int /\ Goals \subseteq Int \X Int
ASSUME MaxSearchesAssumption == MaxSearches \in Nat
\* Far is larger than any cost and any distance within a map.
ASSUME FarAssumption ==
  /\ Wall * MaxNodes < Far
  /\ \A map \in Maps, goal \in Goals : goal \in Nat \X Nat =>
       \A tile \in DOMAIN map : GoalDistanceEstimate(tile, goal) < Far

INSTANCE NodePool WITH MaxElements <- MaxNodes

Slots == Elements

VARIABLES
  RefMap,       \* MapSearchNode::RefMap, as its navigation map
  free,         \* free list of m_FixedSizeAllocator
  count,        \* m_AllocateNodeCount
  node,         \* m_UserState, parent, child and g of every element
  open,         \* m_OpenList
  closed,       \* m_ClosedList
  succ,         \* m_Successors
  state,        \* m_State
  mStart,       \* m_Start
  mGoal,        \* m_Goal
  solution,     \* m_CurrentSolutionNode
  cancel,       \* m_CancelRequest
  pc, n, k,     \* loop, and its node and index, of the call in progress
  back,         \* parent_x and parent_y of GetSuccessors
  dropped,      \* history: AddSuccessor failed in this search
  spoilt,       \* history: a goal was reached after AddSuccessor had failed
  searches      \* searches started, up to MaxSearches

pool == <<free, count>>
lists == <<open, closed, succ>>
locals == <<pc, n, k, back>>
history == <<dropped, spoilt>>
vars == <<RefMap, pool, node, lists, state, mStart, mGoal, solution, cancel,
          locals, history, searches>>

-----------------------------------------------------------------------------
\* A node as its constructor leaves it.
NewNode(tile) == [tile |-> tile, parent |-> NULL, child |-> NULL, g |-> 0]

Tile(s) == node[s].tile

\* f of a node of the open list.
f(s) == FloatSum(node[s].g, GoalDistanceEstimate(Tile(s), Tile(mGoal)))

\* IsGoal and IsSameState compare the tiles.
SameState(s, t) == Tile(s) = Tile(t)

\* Faulty variant of Found: a node that has not cost anything is not seen.
FoundIfCosted(list, tile) == IF \E s \in list : Tile(s) = tile /\ node[s].g > 1
                             THEN CHOOSE s \in list : Tile(s) = tile
                             ELSE NULL

\* The linear search of a list for the node of a tile.
Found(list, tile) == IF \E s \in list : Tile(s) = tile
                     THEN CHOOSE s \in list : Tile(s) = tile
                     ELSE NULL

\* Faulty variant of AsGood: it never is.
NeverAsGood(t, cost) == FALSE

\* Is the node t of a list, if there is one, as good as a cost?
AsGood(t, cost) == t # NULL /\ node[t].g <= cost

\* Faulty variant of Released: a replaced node is not freed.
NeverReleased(s, list) == list

\* The effect of FreeNode on the free list, for a pointer that may be NULL.
Released(s, list) == IF s = NULL THEN list ELSE AfterFree(list, s)

OneIf(s) == IF s = NULL THEN 0 ELSE 1

Some(S) == CHOOSE s \in S : TRUE

FreeNode(s) == free' = AfterFree(free, s) /\ count' = count - 1

\* parent_x and parent_y of a node without a parent.
NoTile == <<-1, -1>>

\* The locals of a call disappear when it returns.
Return == pc' = "ready" /\ n' = NULL /\ k' = 0 /\ back' = NoTile
Enter(loop, s) == pc' = loop /\ n' = s /\ k' = 1 /\ back' = NoTile

-----------------------------------------------------------------------------
Init == /\ RefMap \in Maps
        /\ free = AllFree /\ count = 0
        /\ node = [s \in Slots |-> NewNode(<<0, 0>>)]
        /\ open = {} /\ closed = {} /\ succ = <<>>
        /\ state = "NOT_INITIALISED"
        /\ mStart = NULL /\ mGoal = NULL /\ solution = NULL
        /\ cancel = FALSE
        /\ pc = "ready" /\ n = NULL /\ k = 0 /\ back = NoTile
        /\ dropped = FALSE /\ spoilt = FALSE /\ searches = 0

\* SetStartAndGoalStates.  Where its assertion that both allocations succeed
\* fails, the step cannot be taken.
SetStartAndGoalStates(start, goal) ==
  LET first == Allocated(free)
      second == Allocated(AfterAlloc(free))
  IN  /\ pc = "ready" /\ searches < MaxSearches
      /\ first # NULL /\ second # NULL
      /\ mStart' = first /\ mGoal' = second
      /\ free' = AfterAlloc(AfterAlloc(free)) /\ count' = count + 2
      /\ node' = [node EXCEPT ![first] = NewNode(start), ![second] = NewNode(goal)]
      /\ open' = open \cup {first}
      /\ state' = "SEARCHING" /\ cancel' = FALSE /\ dropped' = FALSE
      /\ searches' = searches + 1
      /\ UNCHANGED <<RefMap, closed, succ, solution, locals, spoilt>>

CancelSearch == /\ pc = "ready"
                /\ cancel' = TRUE
                /\ UNCHANGED <<RefMap, pool, node, lists, state, mStart, mGoal,
                               solution, locals, history, searches>>

-----------------------------------------------------------------------------
(* SearchStep.  It returns at once when the search is over; otherwise it   *)
(* gives up, reaches the goal, or expands the best open node.              *)

GiveUp ==
  /\ pc = "ready" /\ state = "SEARCHING"
  /\ open = {} \/ cancel
  /\ Enter("freeAll", NULL)
  /\ UNCHANGED <<RefMap, pool, node, lists, state, mStart, mGoal, solution,
                 cancel, history, searches>>

Best == {s \in open : \A t \in open : f(s) <= f(t)}

\* Faulty variant of ReachGoal: the goal node keeps the parent it was created with.
ReachGoalUnlinked(s) ==
  /\ pc = "ready" /\ state = "SEARCHING" /\ ~cancel
  /\ s \in Best /\ SameState(s, mGoal)
  /\ open' = open \ {s}
  /\ IF SameState(s, mStart)
     THEN Enter("freeUnused", NULL) /\ UNCHANGED pool
     ELSE Enter("link", mGoal) /\ FreeNode(s)
  /\ spoilt' = (spoilt \/ dropped)
  /\ UNCHANGED <<RefMap, node, closed, succ, state, mStart, mGoal, solution, cancel,
                 dropped, searches>>

\* The popped node is the goal: its parent becomes the goal node's, and the
\* node itself is freed unless it is the start node.
ReachGoal(s) ==
  /\ pc = "ready" /\ state = "SEARCHING" /\ ~cancel
  /\ s \in Best /\ SameState(s, mGoal)
  /\ open' = open \ {s}
  /\ node' = [node EXCEPT ![mGoal].parent = node[s].parent]
  /\ IF SameState(s, mStart)
     THEN Enter("freeUnused", NULL) /\ UNCHANGED pool
     ELSE Enter("link", mGoal) /\ FreeNode(s)
  /\ spoilt' = (spoilt \/ dropped)
  /\ UNCHANGED <<RefMap, closed, succ, state, mStart, mGoal, solution, cancel,
                 dropped, searches>>

\* The tile that GetSuccessors does not go back to.
ParentTile(s) == IF node[s].parent = NULL THEN NoTile ELSE Tile(node[s].parent)

\* GetSuccessors reads the tile of the parent once, when it is called.
Expand(s) ==
  /\ pc = "ready" /\ state = "SEARCHING" /\ ~cancel
  /\ s \in Best /\ ~SameState(s, mGoal)
  /\ open' = open \ {s}
  /\ succ' = <<>>
  /\ pc' = "generate" /\ n' = s /\ k' = 1 /\ back' = ParentTile(s)
  /\ UNCHANGED <<RefMap, pool, node, closed, state, mStart, mGoal, solution,
                 cancel, history, searches>>

\* Faulty variant of IsSuccessor: it skips the row and the column of the parent.
IsSuccessorOffLines(tile) ==
  Walkable(RefMap, tile) /\ back[1] # tile[1] /\ back[2] # tile[2]

\* Faulty variant of IsSuccessor: only straight moves.
IsSuccessorStraight(tile) ==
  /\ Walkable(RefMap, tile) /\ back # tile
  /\ tile[1] = Tile(n)[1] \/ tile[2] = Tile(n)[2]

\* GetSuccessors skips walls and the tile of the parent.
IsSuccessor(tile) == Walkable(RefMap, tile) /\ back # tile

\* Faulty variant of AddSuccessor: the result of AllocateNode is not tested.
AddSuccessorUntested ==
  LET tile == Neighbour(Tile(n), k)
      new == Allocated(free)
  IN  /\ pc = "generate" /\ k \in DOMAIN Moves
      /\ k' = k + 1
      /\ IF ~IsSuccessor(tile)
         THEN UNCHANGED <<pool, node, succ>>
         ELSE /\ free' = AfterAlloc(free) /\ count' = count + 1
              /\ node' = [s \in Slots |-> IF s = new THEN NewNode(tile) ELSE node[s]]
              /\ succ' = Append(succ, new)
      /\ UNCHANGED <<RefMap, open, closed, state, mStart, mGoal, solution,
                     cancel, pc, n, back, history, searches>>

\* One move of GetSuccessors with its call of AddSuccessor, whose failure to
\* allocate is ignored.
AddSuccessor ==
  LET tile == Neighbour(Tile(n), k)
      new == Allocated(free)
  IN  /\ pc = "generate" /\ k \in DOMAIN Moves
      /\ k' = k + 1
      /\ IF ~IsSuccessor(tile)
         THEN UNCHANGED <<pool, node, succ, dropped>>
         ELSE IF new = NULL
         THEN dropped' = TRUE /\ UNCHANGED <<pool, node, succ>>
         ELSE /\ free' = AfterAlloc(free) /\ count' = count + 1
              /\ node' = [node EXCEPT ![new] = NewNode(tile)]
              /\ succ' = Append(succ, new)
              /\ UNCHANGED dropped
      /\ UNCHANGED <<RefMap, open, closed, state, mStart, mGoal, solution,
                     cancel, pc, n, back, spoilt, searches>>

SuccessorsGenerated ==
  /\ pc = "generate" /\ k \notin DOMAIN Moves
  /\ Enter("relax", n)
  /\ UNCHANGED <<RefMap, pool, node, lists, state, mStart, mGoal, solution,
                 cancel, history, searches>>

\* One iteration of the loop over m_Successors: the successor is freed when
\* the open or the closed list has a node of its tile that is as good, and
\* otherwise takes the place of the node they have.
Relax ==
  LET s == succ[k]
      newg == node[n].g + GetCost(RefMap, Tile(n))
      onOpen == Found(open, Tile(s))
      onClosed == Found(closed, Tile(s))
  IN  /\ pc = "relax" /\ k \in DOMAIN succ
      /\ k' = k + 1
      /\ IF AsGood(onOpen, newg) \/ AsGood(onClosed, newg)
         THEN FreeNode(s) /\ UNCHANGED <<node, open, closed>>
         ELSE /\ node' = [node EXCEPT ![s].parent = n, ![s].g = newg]
              /\ open' = (open \ {onOpen}) \cup {s}
              /\ closed' = closed \ {onClosed}
              /\ free' = Released(onOpen, Released(onClosed, free))
              /\ count' = count - OneIf(onOpen) - OneIf(onClosed)
      /\ UNCHANGED <<RefMap, succ, state, mStart, mGoal, solution, cancel, pc,
                     n, back, history, searches>>

\* After the last successor n goes to the closed list.  m_Successors is left
\* as it is in the code, and not read before Expand clears it.
Expanded ==
  /\ pc = "relax" /\ k \notin DOMAIN succ
  /\ closed' = closed \cup {n}
  /\ succ' = <<>>
  /\ Return
  /\ UNCHANGED <<RefMap, pool, node, open, state, mStart, mGoal, solution,
                 cancel, history, searches>>

\* One iteration of the loop that sets the child pointers from the goal node
\* back to the start node: n is nodeChild, its parent is nodeParent.  The code
\* follows nodeParent untested: NULL would end the program, so that there is no
\* step then.  NoNullFollowed says that it is not NULL.
LinkParent ==
  LET parent == node[n].parent
  IN  /\ pc = "link" /\ parent # NULL
      /\ node' = [node EXCEPT ![parent].child = n]
      /\ Enter(IF parent = mStart THEN "freeUnused" ELSE "link", parent)
      /\ UNCHANGED <<RefMap, pool, lists, state, mStart, mGoal, solution,
                     cancel, history, searches>>

\* FreeUnusedNodes keeps the nodes that have a child; then the search has
\* succeeded.
FreeUnusedOpen ==
  /\ pc = "freeUnused" /\ open # {}
  /\ open' = open \ {Some(open)}
  /\ IF node[Some(open)].child = NULL THEN FreeNode(Some(open)) ELSE UNCHANGED pool
  /\ UNCHANGED <<RefMap, node, closed, succ, state, mStart, mGoal, solution,
                 cancel, locals, history, searches>>

FreeUnusedClosed ==
  /\ pc = "freeUnused" /\ open = {} /\ closed # {}
  /\ closed' = closed \ {Some(closed)}
  /\ IF node[Some(closed)].child = NULL THEN FreeNode(Some(closed)) ELSE UNCHANGED pool
  /\ UNCHANGED <<RefMap, node, open, succ, state, mStart, mGoal, solution,
                 cancel, locals, history, searches>>

Succeed ==
  /\ pc = "freeUnused" /\ open = {} /\ closed = {}
  /\ state' = "SUCCEEDED"
  /\ Return
  /\ UNCHANGED <<RefMap, pool, node, lists, mStart, mGoal, solution, cancel,
                 history, searches>>

\* FreeAllNodes: the open list, the closed list, then the goal node.
FreeAllListed ==
  LET s == Some(IF open # {} THEN open ELSE closed)
  IN  /\ pc = "freeAll" /\ open \cup closed # {}
      /\ open' = open \ {s}
      /\ closed' = IF open # {} THEN closed ELSE closed \ {s}
      /\ FreeNode(s)
      /\ UNCHANGED <<RefMap, node, succ, state, mStart, mGoal, solution, cancel,
                     locals, history, searches>>

Fail ==
  /\ pc = "freeAll" /\ open = {} /\ closed = {}
  /\ FreeNode(mGoal)
  /\ mStart' = NULL
  /\ state' = "FAILED"
  /\ Return
  /\ UNCHANGED <<RefMap, node, lists, mGoal, solution, cancel, history, searches>>

Working ==  \* the steps inside a call
  \/ AddSuccessor \/ SuccessorsGenerated \/ Relax \/ Expanded
  \/ LinkParent \/ FreeUnusedOpen \/ FreeUnusedClosed \/ Succeed
  \/ FreeAllListed \/ Fail

SearchStep == GiveUp \/ \E s \in Slots : ReachGoal(s) \/ Expand(s)

-----------------------------------------------------------------------------
(* FreeSolutionNodes frees the nodes from the start node along the child   *)
(* pointers to the goal node; without a solution it returns at once.       *)

FreeSolutionNodes ==
  /\ pc = "ready" /\ mStart # NULL
  /\ IF node[mStart].child # NULL
     THEN Enter("freeSolution", mStart) /\ UNCHANGED <<pool, mStart>>
     ELSE /\ free' = AfterFree(AfterFree(free, mStart), mGoal)
          /\ count' = count - 2
          /\ mStart' = NULL
          /\ UNCHANGED locals
  /\ UNCHANGED <<RefMap, node, lists, state, mGoal, solution, cancel, history,
                 searches>>

FreeSolutionNode ==
  /\ pc = "freeSolution" /\ n # NULL
  /\ FreeNode(n)
  /\ IF n = mGoal
     THEN mStart' = NULL /\ Return
     ELSE n' = node[n].child /\ UNCHANGED <<mStart, pc, k, back>>
  /\ UNCHANGED <<RefMap, node, lists, state, mGoal, solution, cancel, history,
                 searches>>

\* GetSolutionStart and GetSolutionNext move m_CurrentSolutionNode; Next
\* returns NULL, and does not move, at the end of the path.
GetSolutionStart ==
  /\ pc = "ready"
  /\ solution' = mStart
  /\ UNCHANGED <<RefMap, pool, node, lists, state, mStart, mGoal, cancel,
                 locals, history, searches>>

NextOnPath == IF solution = NULL THEN NULL ELSE node[solution].child

GetSolutionNext ==
  /\ pc = "ready"
  /\ solution' = IF NextOnPath = NULL THEN solution ELSE NextOnPath
  /\ UNCHANGED <<RefMap, pool, node, lists, state, mStart, mGoal, cancel,
                 locals, history, searches>>

-----------------------------------------------------------------------------
(* The calls a client may make and when: a search is started when no       *)
(* search and no solution is left, cancelled at any time, and its solution *)
(* is read and freed after it succeeded.                                   *)

HasSolution == state = "SUCCEEDED" /\ mStart # NULL

Start == /\ state # "SEARCHING" /\ mStart = NULL
         /\ \E s \in Starts, g \in Goals : SetStartAndGoalStates(s, g)

Cancel == state = "SEARCHING" /\ ~cancel /\ CancelSearch

ReadSolution == HasSolution /\ (GetSolutionStart \/ GetSolutionNext)

Free == HasSolution /\ FreeSolutionNodes

\* Engine::load_map puts another map under RefMap, and tells the search nothing.
LoadMap == /\ pc = "ready" /\ state # "SEARCHING" /\ searches < MaxSearches
           /\ RefMap' \in Maps \ {RefMap}
           /\ UNCHANGED <<pool, node, lists, state, mStart, mGoal, solution, cancel,
                          locals, history, searches>>

\* The bound on the number of searches stops the client, nothing else does.
Done == /\ pc = "ready" /\ state # "SEARCHING" /\ searches = MaxSearches
        /\ UNCHANGED vars

Next == \/ Start \/ Cancel \/ SearchStep \/ Working
        \/ ReadSolution \/ Free \/ FreeSolutionNode
        \/ LoadMap
        \/ Done

Spec == Init /\ [][Next]_vars

-----------------------------------------------------------------------------
States == {"NOT_INITIALISED", "SEARCHING", "SUCCEEDED", "FAILED"}
Loops == {"ready", "generate", "relax", "link", "freeUnused", "freeAll", "freeSolution"}
Pointers == Slots \cup {NULL}
Nodes == [tile : Int \X Int, parent : Pointers, child : Pointers, g : Nat]

\* Every pointer is an element of the pool or NULL, every list holds elements.
TypeOK ==
  /\ RefMap \in Maps
  /\ free \in Seq(Slots) /\ count \in Int
  /\ node \in [Slots -> Nodes]
  /\ open \subseteq Slots /\ closed \subseteq Slots /\ succ \in Seq(Slots)
  /\ state \in States
  /\ mStart \in Pointers /\ mGoal \in Pointers /\ solution \in Pointers
  /\ cancel \in BOOLEAN /\ dropped \in BOOLEAN /\ spoilt \in BOOLEAN
  /\ pc \in Loops /\ n \in Pointers /\ k \in Nat /\ back \in Int \X Int
  /\ searches \in 0 .. MaxSearches

Live == Slots \ Listed(free)

\* The node s and the nodes its parent pointers lead to.
ParentsOf(s) == LET up[i \in 0 .. MaxNodes] ==
                      IF i = 0 THEN s
                      ELSE IF up[i - 1] = NULL THEN NULL ELSE node[up[i - 1]].parent
                IN  {up[i] : i \in 0 .. MaxNodes} \ {NULL}

\* The nodes of a found path, from s along the child pointers.
ChildrenOf(s) == LET down[i \in 0 .. MaxNodes] ==
                       IF i = 0 THEN s
                       ELSE IF down[i - 1] = NULL THEN NULL ELSE node[down[i - 1]].child
                 IN  {down[i] : i \in 0 .. MaxNodes} \ {NULL}

Pending == IF pc = "generate" THEN {succ[i] : i \in DOMAIN succ}
           ELSE IF pc = "relax" THEN {succ[i] : i \in k .. Len(succ)}
           ELSE {}

Current == IF pc \in {"generate", "relax"} THEN {n} ELSE {}

\* The nodes a search in progress or a kept solution still answers for.
Owned == IF pc = "freeSolution" THEN ChildrenOf(n)
         ELSE IF HasSolution \/ pc = "freeUnused"
         THEN open \cup closed \cup ChildrenOf(mStart) \cup {mGoal}
         ELSE IF state = "SEARCHING"
         THEN open \cup closed \cup Pending \cup Current \cup {mGoal}
         ELSE {}

\* No node leaks and none is freed twice (stlastar.h:602-719): the nodes that
\* are out of the pool are exactly those that some list, the expansion in
\* progress or the solution will free, the free list names each other
\* element once, and m_AllocateNodeCount counts them.  It holds until a path
\* is followed in a search that ran out of nodes: see StartIsFirst.
NodesAccounted ==
  ~spoilt => /\ Live = Owned
             /\ Len(free) = Cardinality(Listed(free))
             /\ count = Cardinality(Live)

\* Opened, closed and expanded nodes stand for different tiles, so the linear
\* searches of SearchStep (stlastar.h:275-323) find the only node of a tile.
OneNodePerTile ==
  \A s, t \in open \cup closed \cup Current :
    SameState(s, t) /\ state = "SEARCHING" /\ ~spoilt => s = t

\* When a node is popped, its parent pointers lead to the start node through
\* closed nodes, by legal moves and with exact costs, although reopening a
\* closed node (stlastar.h:335-347) frees a node that children point to: the
\* reopened tile is popped again before any of those children, and each of
\* them is then replaced.  With a goal so far that f no longer grows with g
\* the order is lost, but such a goal is outside of the map and no path to it
\* is followed; when nodes run out the replacement is lost.
PoppedChainSound ==
  pc \in {"generate", "relax"} /\ f(n) < Far /\ ~dropped /\ ~spoilt =>
    /\ ParentsOf(n) \ {n} \subseteq closed
    /\ mStart \in ParentsOf(n)
    /\ \A s \in ParentsOf(n) \ {mStart} :
         LET p == node[s].parent
         IN  /\ p # NULL
             /\ Adjacent(Tile(p), Tile(s)) /\ Walkable(RefMap, Tile(s))
             /\ node[s].g = node[p].g + GetCost(RefMap, Tile(p))

\* "Start is always the first node by definition" (stlastar.h:220): the parent
\* pointers of the goal lead to the start node.  It does not hold when nodes
\* run out, since the failure of AddSuccessor is ignored.
StartIsFirst == pc = "link" => mStart \in ParentsOf(n)

\* The loops that follow the pointers of a path, which test none of them, never
\* come to NULL before the node they end at: nodeParent before the start node
\* (stlastar.h:210-220), n before the goal node (stlastar.h:411-420).
NoNullFollowed == ~spoilt => /\ pc = "link" => node[n].parent # NULL
                             /\ pc = "freeSolution" => n # NULL

\* A tile that was reached is never lost, and its cost never grows, until the
\* search ends: the lists are updated in the middle of an expansion
\* (stlastar.h:265-374).
Reached == open \cup closed \cup Current
ReachedTilesKept ==
  [][ /\ state = "SEARCHING" /\ pc \in {"ready", "generate", "relax"}
      /\ pc' \in {"ready", "generate", "relax"} /\ ~spoilt
      => \A s \in Reached : \E t \in Reached' :
           node'[t].tile = Tile(s) /\ node'[t].g <= node[s].g ]_vars
=============================================================================
