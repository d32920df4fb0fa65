-------------------------- MODULE AStarSearch_proofs --------------------------
(***************************************************************************)
(* For every pool size, map, and set of requests: the search only follows  *)
(* and stores pointers that are NULL or elements of its pool; it gives     *)
(* back to the pool, once, every node that it took; it never has two nodes *)
(* for a tile; and the parents of the node it expands are a path from the  *)
(* start, with the cost it claims, as long as AddSuccessor has not failed. *)
(*                                                                         *)
(* SearchInv is the inductive invariant.  Its last part, ChainInv, says    *)
(* why a freed parent is never followed: a node that lost its parent is    *)
(* going to be replaced by a cheaper one, and that one is popped before    *)
(* any descendant of the node it replaces.                                 *)
(***************************************************************************)
EXTENDS AStarSearch, TLAPS, FiniteSetTheorems, SequenceTheorems, WellFoundedInduction

\* What the type invariant needs to be inductive: once a search was started
\* there is a goal node, and the loops that use it have a node.
NodesKnown ==
  /\ state = "NOT_INITIALISED" => mStart = NULL /\ pc = "ready"
  /\ state # "NOT_INITIALISED" => mGoal \in Slots
  /\ pc \in {"generate", "relax", "link"} => n \in Slots
  /\ pc \in {"generate", "relax", "link", "freeUnused", "freeAll"} => state = "SEARCHING"

TypeInv == TypeOK /\ NodesKnown

-----------------------------------------------------------------------------
(* The operators the actions are built from.                               *)

\* Costs are natural numbers.
LEMMA CostType ==
  ASSUME NEW map \in Maps, NEW tile PROVE GetCost(map, tile) \in Nat
BY MapsAssumption DEF GetCost, navigation_map, Wall

\* The neighbour of a tile is a tile.
LEMMA NeighbourType ==
  ASSUME NEW tile \in Int \X Int, NEW i \in DOMAIN Moves
  PROVE  Neighbour(tile, i) \in Int \X Int
<1>1. i \in 1 .. 8
  BY DEF Moves
<1>2. Moves[i][1] \in Int /\ Moves[i][2] \in Int
  BY <1>1 DEF Moves
<1> QED
  BY <1>2 DEF Neighbour

\* A new node is a node.
LEMMA NewNodeType ==
  ASSUME NEW tile \in Int \X Int PROVE NewNode(tile) \in Nodes
BY DEF NewNode, Nodes, Pointers, NULL

\* The search of a list of elements returns one of them or NULL.
LEMMA FoundType ==
  ASSUME NEW list \in SUBSET Slots, NEW tile PROVE Found(list, tile) \in Pointers
<1>1. CASE \E s \in list : Tile(s) = tile
  BY <1>1 DEF Found, Pointers
<1>2. CASE ~ \E s \in list : Tile(s) = tile
  BY <1>2 DEF Found, Pointers
<1> QED
  BY <1>1, <1>2

\* Freeing an element, or NULL, keeps a free list a list of elements.
LEMMA ReleasedType ==
  ASSUME NEW list \in Seq(Slots), NEW s \in Pointers PROVE Released(s, list) \in Seq(Slots)
BY DEF Released, AfterFree, Pointers

\* Freeing an element keeps a free list a list of elements.
LEMMA AfterFreeType ==
  ASSUME NEW list \in Seq(Slots), NEW s \in Slots PROVE AfterFree(list, s) \in Seq(Slots)
BY DEF AfterFree

\* Taking the head of a free list gives an element and a free list.
LEMMA AllocType ==
  ASSUME NEW list \in Seq(Slots)
  PROVE  /\ Allocated(list) \in Pointers
         /\ AfterAlloc(list) \in Seq(Slots)
BY DEF Allocated, AfterAlloc, Pointers

\* The tile that stands for no parent is a pair of integers.
LEMMA NoTileType == NoTile \in Int \X Int
BY DEF NoTile

\* Some element of a set is in the set.
LEMMA SomeType == ASSUME NEW S, S # {} PROVE Some(S) \in S
BY DEF Some

-----------------------------------------------------------------------------
\* The constructor establishes the invariant.
LEMMA InitTypeInv == Init => TypeInv
<1> SUFFICES ASSUME Init PROVE TypeInv
  OBVIOUS
<1>1. \A s \in Slots : NewNode(<<0, 0>>) \in Nodes
  BY NewNodeType
<1>2. AllFree \in Seq(Slots)
  BY MaxNodesAssumption DEF AllFree, Slots, Elements
<1>3. node \in [Slots -> Nodes]
  BY <1>1 DEF Init
<1>4. free \in Seq(Slots) /\ count \in Int /\ searches \in 0 .. MaxSearches
  BY <1>2, MaxSearchesAssumption DEF Init
<1>5. /\ open \subseteq Slots /\ closed \subseteq Slots /\ succ \in Seq(Slots)
      /\ mStart \in Pointers /\ mGoal \in Pointers /\ solution \in Pointers
      /\ n \in Pointers /\ k \in Nat /\ back \in Int \X Int
  BY NoTileType DEF Init, Pointers
<1>6. /\ RefMap \in Maps /\ state \in States /\ pc \in Loops
      /\ cancel \in BOOLEAN /\ dropped \in BOOLEAN /\ spoilt \in BOOLEAN
  BY DEF Init, States, Loops
<1>7. TypeOK
  BY <1>3, <1>4, <1>5, <1>6 DEF TypeOK
<1> QED
  BY <1>7 DEF Init, TypeInv, NodesKnown

\* The steps of a client: starting, cancelling, reading and freeing.
LEMMA ClientTypeInv ==
  ASSUME TypeInv, Start \/ Cancel \/ ReadSolution \/ Free \/ FreeSolutionNode
  PROVE  TypeInv'
<1> USE DEF TypeInv, TypeOK, NodesKnown, States, Loops, pool, lists, locals, history,
            Return, Enter, FreeNode
<1>1. CASE Start
  <2> PICK start \in Starts, goal \in Goals : SetStartAndGoalStates(start, goal)
    BY <1>1 DEF Start
  <2> DEFINE first == Allocated(free)
             second == Allocated(AfterAlloc(free))
  <2>0. /\ first \in Pointers /\ AfterAlloc(free) \in Seq(Slots)
        /\ second \in Pointers /\ AfterAlloc(AfterAlloc(free)) \in Seq(Slots)
    BY AllocType
  <2>1. first \in Slots /\ second \in Slots
    BY <2>0 DEF SetStartAndGoalStates, Pointers
  <2>2. NewNode(start) \in Nodes /\ NewNode(goal) \in Nodes
    BY NewNodeType, TilesAssumption
  <2>3. node' \in [Slots -> Nodes]
    BY <2>1, <2>2 DEF SetStartAndGoalStates
  <2>4. searches' \in 0 .. MaxSearches
    BY MaxSearchesAssumption DEF SetStartAndGoalStates
  <2>5. /\ mStart' \in Pointers /\ mGoal' \in Slots /\ mGoal' \in Pointers
        /\ free' \in Seq(Slots) /\ count' \in Int /\ open' \subseteq Slots
    BY <2>0, <2>1 DEF SetStartAndGoalStates, Pointers
  <2>6. state' = "SEARCHING" /\ cancel' = FALSE /\ dropped' = FALSE /\ pc' = "ready"
    BY DEF SetStartAndGoalStates
  <2>7. UNCHANGED <<RefMap, closed, succ, solution, pc, n, k, back, spoilt>>
    BY DEF SetStartAndGoalStates
  <2>8. TypeOK'
    BY <2>3, <2>4, <2>5, <2>6, <2>7
  <2> QED
    BY <2>5, <2>6, <2>8
<1>2. CASE Cancel
  BY <1>2 DEF Cancel, CancelSearch
<1>3. CASE ReadSolution
  <2>1. NextOnPath \in Pointers
    BY DEF NextOnPath, Nodes, Pointers
  <2> QED
    BY <1>3, <2>1 DEF ReadSolution, HasSolution, GetSolutionStart, GetSolutionNext
<1>4. CASE Free
  <2>1. mStart \in Slots /\ mGoal \in Slots
    BY <1>4 DEF Free, FreeSolutionNodes, HasSolution, Pointers
  <2>2. AfterFree(AfterFree(free, mStart), mGoal) \in Seq(Slots)
    BY <2>1, AfterFreeType
  <2> QED
    BY <1>4, <2>1, <2>2, NoTileType DEF Free, FreeSolutionNodes, HasSolution, Pointers
<1>5. CASE FreeSolutionNode
  <2>1. n \in Slots /\ AfterFree(free, n) \in Seq(Slots)
    BY <1>5, AfterFreeType DEF FreeSolutionNode, Pointers
  <2>2. node[n].child \in Pointers
    BY <2>1 DEF Nodes
  <2> QED
    BY <1>5, <2>1, <2>2, NoTileType DEF FreeSolutionNode, Pointers
<1> QED
  BY <1>1, <1>2, <1>3, <1>4, <1>5

\* The steps that begin a call of SearchStep.
LEMMA SearchStepTypeInv ==
  ASSUME TypeInv, SearchStep
  PROVE  TypeInv'
<1> USE DEF TypeInv, TypeOK, NodesKnown, States, Loops, pool, lists, locals, history,
            Return, Enter, FreeNode
<1>1. CASE GiveUp
  BY <1>1, NoTileType DEF GiveUp, Pointers
<1>2. ASSUME NEW s \in Slots, ReachGoal(s) PROVE TypeInv'
  <2>1. mGoal \in Slots /\ node[s].parent \in Pointers
    BY <1>2 DEF ReachGoal, Nodes
  <2>2. AfterFree(free, s) \in Seq(Slots)
    BY AfterFreeType
  <2>3. node' \in [Slots -> Nodes]
    BY <1>2, <2>1 DEF ReachGoal, Nodes
  <2> QED
    BY <1>2, <2>1, <2>2, <2>3, NoTileType DEF ReachGoal, Pointers
<1>3. ASSUME NEW s \in Slots, Expand(s) PROVE TypeInv'
  <2>1. ParentTile(s) \in Int \X Int
    <3>1. node[s].parent # NULL => node[s].parent \in Slots
      BY DEF Nodes, Pointers
    <3> QED
      BY <3>1, NoTileType DEF ParentTile, Tile, Nodes
  <2> QED
    BY <1>3, <2>1 DEF Expand, Pointers
<1> QED
  BY <1>1, <1>2, <1>3 DEF SearchStep

\* The steps inside a call.
LEMMA WorkingTypeInv ==
  ASSUME TypeInv, Working
  PROVE  TypeInv'
<1> USE DEF TypeInv, TypeOK, NodesKnown, States, Loops, pool, lists, locals, history,
            Return, Enter, FreeNode
<1>1. CASE AddSuccessor
  <2> DEFINE tile == Neighbour(Tile(n), k)
             new == Allocated(free)
  <2>1. n \in Slots /\ k \in DOMAIN Moves
    BY <1>1 DEF AddSuccessor
  <2>2. tile \in Int \X Int
    BY <2>1, NeighbourType DEF Tile, Nodes
  <2>3. NewNode(tile) \in Nodes
    BY <2>2, NewNodeType
  <2>4. new \in Pointers /\ AfterAlloc(free) \in Seq(Slots)
    BY AllocType
  <2>5. CASE ~IsSuccessor(tile)
    BY <1>1, <2>5 DEF AddSuccessor
  <2>6. CASE IsSuccessor(tile) /\ new = NULL
    BY <1>1, <2>6 DEF AddSuccessor
  <2>7. CASE IsSuccessor(tile) /\ new # NULL
    <3>1. new \in Slots
      BY <2>4, <2>7 DEF Pointers
    <3>2. Append(succ, new) \in Seq(Slots)
      BY <3>1
    <3>3. [node EXCEPT ![new] = NewNode(tile)] \in [Slots -> Nodes]
      BY <3>1, <2>3
    <3> QED
      <4>1. /\ free' = AfterAlloc(free) /\ count' = count + 1
            /\ node' = [node EXCEPT ![new] = NewNode(tile)]
            /\ succ' = Append(succ, new)
        BY <1>1, <2>7 DEF AddSuccessor
      <4>2. k' \in Nat /\ dropped' \in BOOLEAN
        BY <1>1, <2>7 DEF AddSuccessor
      <4>3. UNCHANGED <<RefMap, open, closed, state, mStart, mGoal, solution,
                        cancel, pc, n, back, spoilt, searches>>
        BY <1>1 DEF AddSuccessor
      <4>4. /\ free' \in Seq(Slots) /\ count' \in Int
            /\ node' \in [Slots -> Nodes] /\ succ' \in Seq(Slots)
        BY <4>1, <2>4, <3>2, <3>3
      <4> QED
        BY <4>2, <4>3, <4>4
  <2> QED
    BY <2>5, <2>6, <2>7
<1>2. CASE SuccessorsGenerated
  BY <1>2, NoTileType DEF SuccessorsGenerated
<1>3. CASE Relax
  <2> DEFINE s == succ[k]
             newg == node[n].g + GetCost(RefMap, Tile(n))
             onOpen == Found(open, Tile(s))
             onClosed == Found(closed, Tile(s))
  <2>1. n \in Slots /\ s \in Slots
    BY <1>3 DEF Relax
  <2>2. newg \in Nat
    <3>1. node[n].g \in Nat /\ GetCost(RefMap, Tile(n)) \in Nat
      BY <2>1, CostType DEF Nodes
    <3> QED
      BY <3>1
  <2>3. onOpen \in Pointers /\ onClosed \in Pointers
    BY FoundType
  <2>4. CASE AsGood(onOpen, newg) \/ AsGood(onClosed, newg)
    <3>1. AfterFree(free, s) \in Seq(Slots)
      BY <2>1, AfterFreeType
    <3> QED
      BY <1>3, <2>4, <3>1 DEF Relax
  <2>5. CASE ~(AsGood(onOpen, newg) \/ AsGood(onClosed, newg))
    <3>1. Released(onOpen, Released(onClosed, free)) \in Seq(Slots)
      BY <2>3, ReleasedType
    <3>2. OneIf(onOpen) \in Int /\ OneIf(onClosed) \in Int
      BY DEF OneIf
    <3>3. [node EXCEPT ![s].parent = n, ![s].g = newg] \in [Slots -> Nodes]
      BY <2>1, <2>2 DEF Nodes, Pointers
    <3>4. (open \ {onOpen}) \cup {s} \subseteq Slots /\ closed \ {onClosed} \subseteq Slots
      BY <2>1
    <3> QED
      <4>0. /\ free' = Released(onOpen, Released(onClosed, free))
            /\ count' = count - OneIf(onOpen) - OneIf(onClosed)
            /\ node' = [node EXCEPT ![s].parent = n, ![s].g = newg]
        BY <1>3, <2>5 DEF Relax
      <4>1. free' \in Seq(Slots) /\ count' \in Int /\ node' \in [Slots -> Nodes]
        BY <4>0, <3>1, <3>2, <3>3
      <4>2. open' \subseteq Slots /\ closed' \subseteq Slots /\ k' \in Nat
        BY <1>3, <2>5, <3>4 DEF Relax
      <4>3. UNCHANGED <<RefMap, succ, state, mStart, mGoal, solution, cancel, pc,
                        n, back, history, searches>>
        BY <1>3 DEF Relax
      <4> QED
        BY <4>1, <4>2, <4>3
  <2> QED
    BY <2>4, <2>5
<1>4. CASE Expanded
  BY <1>4, NoTileType DEF Expanded, Pointers
<1>5. CASE LinkParent
  <2>1. n \in Slots /\ node[n].parent \in Slots
    BY <1>5 DEF LinkParent, Nodes, Pointers
  <2>2. node' \in [Slots -> Nodes]
    BY <1>5, <2>1 DEF LinkParent, Nodes, Pointers
  <2> QED
    BY <1>5, <2>1, <2>2, NoTileType DEF LinkParent, Pointers
<1>6. CASE FreeUnusedOpen
  <2>1. Some(open) \in Slots
    BY <1>6, SomeType DEF FreeUnusedOpen
  <2>2. AfterFree(free, Some(open)) \in Seq(Slots)
    BY <2>1, AfterFreeType
  <2> QED
    BY <1>6, <2>2 DEF FreeUnusedOpen
<1>7. CASE FreeUnusedClosed
  <2>1. Some(closed) \in Slots
    BY <1>7, SomeType DEF FreeUnusedClosed
  <2>2. AfterFree(free, Some(closed)) \in Seq(Slots)
    BY <2>1, AfterFreeType
  <2> QED
    BY <1>7, <2>2 DEF FreeUnusedClosed
<1>8. CASE Succeed
  BY <1>8, NoTileType DEF Succeed, Pointers
<1>9. CASE FreeAllListed
  <2> DEFINE s == Some(IF open # {} THEN open ELSE closed)
  <2>1. s \in Slots
    BY <1>9, SomeType DEF FreeAllListed
  <2>2. AfterFree(free, s) \in Seq(Slots)
    BY <2>1, AfterFreeType
  <2> QED
    BY <1>9, <2>2 DEF FreeAllListed
<1>10. CASE Fail
  <2>1. AfterFree(free, mGoal) \in Seq(Slots)
    BY <1>10, AfterFreeType DEF Fail
  <2> QED
    BY <1>10, <2>1, NoTileType DEF Fail, Pointers
<1> QED
  BY <1>1, <1>2, <1>3, <1>4, <1>5, <1>6, <1>7, <1>8, <1>9, <1>10 DEF Working

\* Every step, and stuttering, keeps the invariant.
LEMMA NextTypeInv == TypeInv /\ [Next]_vars => TypeInv'
<1> SUFFICES ASSUME TypeInv, [Next]_vars PROVE TypeInv'
  OBVIOUS
<1>1. CASE UNCHANGED vars
  BY <1>1 DEF TypeInv, TypeOK, NodesKnown, vars, pool, lists, locals, history
<1>2. CASE LoadMap
  BY <1>2 DEF LoadMap, TypeInv, TypeOK, NodesKnown, pool, lists, locals, history
<1> QED
  BY <1>1, <1>2, ClientTypeInv, SearchStepTypeInv, WorkingTypeInv DEF Next, Done

\* The invariant holds in every state of the search.
LEMMA TypeInvCorrect == Spec => []TypeInv
  BY InitTypeInv, NextTypeInv, PTL DEF Spec

\* Every pointer the search stores is an element of its pool or NULL.
THEOREM SearchTypeCorrect == Spec => []TypeOK
<1>1. TypeInv => TypeOK
  BY DEF TypeInv
<1> QED
  BY <1>1, TypeInvCorrect, PTL

-----------------------------------------------------------------------------
(* Where a set of links leads.                                             *)

\* c is reached from d along the links L: it is in every set of nodes that has
\* d and is left by no link.
Leads(L, d, c) ==
  \A S \in SUBSET Slots :
    d \in S /\ (\A x, y \in Slots : x \in S /\ <<x, y>> \in L => y \in S) => c \in S

\* A node reaches itself, and only nodes.
LEMMA LeadsSelf ==
  ASSUME NEW L, NEW d \in Slots
  PROVE  Leads(L, d, d) /\ \A c : Leads(L, d, c) => c \in Slots
<1>1. Leads(L, d, d)
  BY DEF Leads
<1>2. ASSUME NEW c, Leads(L, d, c) PROVE c \in Slots
  BY <1>2 DEF Leads
<1> QED
  BY <1>1, <1>2

\* A node that is reached can be left by a further link.
LEMMA LeadsFurther ==
  ASSUME NEW L, NEW d \in Slots, NEW c \in Slots, NEW e \in Slots,
         Leads(L, d, c), <<c, e>> \in L
  PROVE  Leads(L, d, e)
BY DEF Leads

\* What is reached from a node that is reached is reached.
LEMMA LeadsOn ==
  ASSUME NEW L, NEW d \in Slots, NEW c \in Slots, NEW e \in Slots,
         Leads(L, d, c), Leads(L, c, e)
  PROVE  Leads(L, d, e)
BY DEF Leads

\* Another node is reached through the only link that leaves a node.
LEMMA LeadsFirst ==
  ASSUME NEW L, NEW d \in Slots, NEW c, NEW p, c # d, Leads(L, d, c),
         \A y \in Slots : <<d, y>> \in L => y = p
  PROVE  p \in Slots /\ <<d, p>> \in L /\ Leads(L, p, c)
<1>1. \E y \in Slots : <<d, y>> \in L
  <2> SUFFICES ASSUME \A y \in Slots : <<d, y>> \notin L PROVE FALSE
    OBVIOUS
  <2>1. {d} \in SUBSET Slots /\ c \notin {d}
    OBVIOUS
  <2>2. \A x, y \in Slots : x \in {d} /\ <<x, y>> \in L => y \in {d}
    OBVIOUS
  <2> QED
    BY <2>1, <2>2 DEF Leads
<1>2. p \in Slots /\ <<d, p>> \in L
  BY <1>1
<1>3. ASSUME NEW S \in SUBSET Slots, p \in S,
             \A x, y \in Slots : x \in S /\ <<x, y>> \in L => y \in S
      PROVE  c \in S
  <2>1. S \cup {d} \in SUBSET Slots /\ d \in S \cup {d}
    OBVIOUS
  <2>2. \A x, y \in Slots : x \in S \cup {d} /\ <<x, y>> \in L => y \in S \cup {d}
    BY <1>3
  <2>3. c \in S \cup {d}
    BY <2>1, <2>2 DEF Leads
  <2> QED
    BY <2>3
<1> QED
  BY <1>2, <1>3 DEF Leads

\* Fewer links lead to fewer nodes.
LEMMA LeadsLess ==
  ASSUME NEW L, NEW M, NEW d, NEW c, Leads(M, d, c),
         \A x, y \in Slots : <<x, y>> \in M => <<x, y>> \in L
  PROVE  Leads(L, d, c)
BY DEF Leads

\* With a link to p as the only one of a node m, to which no link leads, what p
\* reaches is reached from m, and other nodes reach nothing new.
LEMMA LeadsFromNew ==
  ASSUME NEW L, NEW M, NEW m \in Slots, NEW p \in Slots, NEW d \in Slots, NEW c \in Slots,
         Leads(M, d, c),
         \A x, y \in Slots : <<x, y>> \in M => y # m,
         \A x, y \in Slots : <<x, y>> \in M =>
           (x = m /\ y = p) \/ (x # m /\ <<x, y>> \in L)
  PROVE  /\ d # m => Leads(L, d, c)
         /\ d = m => c = m \/ Leads(L, p, c)
<1>1. ASSUME d # m, NEW S \in SUBSET Slots, d \in S,
             \A x, y \in Slots : x \in S /\ <<x, y>> \in L => y \in S
      PROVE  c \in S
  <2>1. S \ {m} \in SUBSET Slots /\ d \in S \ {m}
    BY <1>1
  <2>2. \A x, y \in Slots : x \in S \ {m} /\ <<x, y>> \in M => y \in S \ {m}
    BY <1>1
  <2>3. c \in S \ {m}
    BY <2>1, <2>2 DEF Leads
  <2> QED
    BY <2>3
<1>2. ASSUME d = m, c # m, NEW S \in SUBSET Slots, p \in S,
             \A x, y \in Slots : x \in S /\ <<x, y>> \in L => y \in S
      PROVE  c \in S
  <2>1. S \cup {m} \in SUBSET Slots /\ d \in S \cup {m}
    BY <1>2
  <2>2. \A x, y \in Slots : x \in S \cup {m} /\ <<x, y>> \in M => y \in S \cup {m}
    BY <1>2
  <2>3. c \in S \cup {m}
    BY <2>1, <2>2 DEF Leads
  <2> QED
    BY <1>2, <2>3
<1> QED
  BY <1>1, <1>2 DEF Leads

\* With new links to a node p, only what p reaches is reached besides.
LEMMA LeadsToNew ==
  ASSUME NEW L, NEW M, NEW p \in Slots, NEW d \in Slots, NEW c \in Slots,
         Leads(M, d, c),
         \A x, y \in Slots : <<x, y>> \in M => <<x, y>> \in L \/ y = p
  PROVE  Leads(L, d, c) \/ Leads(L, p, c)
<1> DEFINE S == {x \in Slots : Leads(L, d, x) \/ Leads(L, p, x)}
<1>1. S \in SUBSET Slots /\ d \in S /\ p \in S
  BY LeadsSelf
<1>2. ASSUME NEW x \in Slots, NEW y \in Slots, x \in S, <<x, y>> \in M PROVE y \in S
  BY <1>1, <1>2, LeadsFurther
<1> HIDE DEF S
<1>3. c \in S
  BY <1>1, <1>2 DEF Leads
<1> QED
  BY <1>3 DEF S

\* A measure that every link lowers is lower at the end.
LEMMA LeadsDown ==
  ASSUME NEW L, NEW h \in [Slots -> Nat], NEW d \in Slots, NEW c \in Slots, Leads(L, d, c),
         \A x, y \in Slots : <<x, y>> \in L => h[y] < h[x]
  PROVE  c = d \/ h[c] < h[d]
<1> DEFINE S == {x \in Slots : x = d \/ h[x] < h[d]}
<1>1. S \in SUBSET Slots /\ d \in S
  OBVIOUS
<1>2. ASSUME NEW x \in Slots, NEW y \in Slots, x \in S, <<x, y>> \in L PROVE y \in S
  <2>1. h[x] \in Nat /\ h[y] \in Nat /\ h[d] \in Nat /\ h[y] < h[x]
    BY <1>2
  <2>2. x = d \/ h[x] < h[d]
    BY <1>2
  <2> QED
    BY <2>1, <2>2
<1> HIDE DEF S
<1>3. c \in S
  BY <1>1, <1>2 DEF Leads
<1> QED
  BY <1>3 DEF S

-----------------------------------------------------------------------------
(* Walks along pointers, which the recursive functions of AStarSearch do.  *)

\* A set of natural numbers that has a number has a least one.
LEMMA LeastNumber ==
  ASSUME NEW T, T \subseteq Nat, T # {} PROVE \E x \in T : \A y \in T : x <= y
<1>1. IsWellFoundedOn({p \in Nat \X Nat : p[1] < p[2]}, Nat)
  BY NatLessThanWellFounded DEF OpToRel
<1>2. PICK x \in T : \A y \in T : <<y, x>> \notin {p \in Nat \X Nat : p[1] < p[2]}
  BY <1>1, WFMin
<1>3. ASSUME NEW y \in T PROVE x <= y
  <2>1. ~(y < x)
    BY <1>2
  <2> QED
    BY <2>1
<1> QED
  BY <1>3

\* The links of pointers, and the node at the i-th place of the walk w along them.
Arrows(next) == {e \in Slots \X Slots : next[e[1]] = e[2]}
Place(next, s, w, i) == IF i = 0 THEN s
                        ELSE IF w[i - 1] = NULL THEN NULL ELSE next[w[i - 1]]
Walks(next, s, w, m) == w = [i \in 0 .. m |-> Place(next, s, w, i)]

\* There is a walk of any length.
LEMMA WalkExists ==
  ASSUME NEW next, NEW s
  PROVE  \E w : Walks(next, s, w, MaxNodes)
<1> DEFINE Bad == {m \in Nat : ~ \E w : Walks(next, s, w, m)}
<1>1. Bad = {}
  <2> SUFFICES ASSUME Bad # {} PROVE FALSE
    OBVIOUS
  <2>1. PICK m \in Bad : \A j \in Bad : m <= j
    <3>1. Bad \in SUBSET Nat
      OBVIOUS
    <3> HIDE DEF Bad
    <3> QED
      BY <3>1, LeastNumber
  <2>2. m \in Nat /\ ~ \E w : Walks(next, s, w, m)
    BY <2>1
  <2>3. CASE m = 0
    <3> DEFINE w == [i \in 0 .. 0 |-> s]
    <3>1. w = [i \in 0 .. 0 |-> Place(next, s, w, i)]
      BY DEF Place
    <3> QED
      BY <2>2, <2>3, <3>1 DEF Walks
  <2>4. CASE m # 0
    <3>1. m - 1 \in Nat /\ ~(m <= m - 1)
      BY <2>2, <2>4
    <3>2. m - 1 \notin Bad
      BY <2>1, <3>1
    <3>3. PICK v : Walks(next, s, v, m - 1)
      BY <3>1, <3>2
    <3> DEFINE w == [i \in 0 .. m |-> IF i < m THEN v[i] ELSE Place(next, s, v, m)]
    <3>4. \A i \in 0 .. m - 1 : v[i] = Place(next, s, v, i)
      <4> DEFINE u == [i \in 0 .. m - 1 |-> Place(next, s, v, i)]
      <4>1. v = u
        BY <3>3 DEF Walks
      <4>2. \A i \in 0 .. m - 1 : u[i] = Place(next, s, v, i)
        OBVIOUS
      <4> HIDE DEF u
      <4> QED
        BY <4>1, <4>2
    <3>5. ASSUME NEW i \in 0 .. m PROVE w[i] = Place(next, s, w, i)
      <4>1. CASE i = 0
        BY <2>2, <2>4, <3>1, <3>4, <4>1 DEF Place
      <4>2. CASE i # 0
        <5>1. i - 1 \in 0 .. m /\ i - 1 < m
          BY <2>2, <4>2
        <5>2. w[i - 1] = v[i - 1]
          BY <5>1
        <5>3. Place(next, s, w, i) = Place(next, s, v, i)
          BY <5>2 DEF Place
        <5>4. CASE i < m
          <6>1. i \in 0 .. m - 1 /\ w[i] = v[i]
            BY <2>2, <5>4
          <6> QED
            BY <3>4, <5>3, <6>1
        <5>5. CASE ~(i < m)
          <6>1. i = m
            BY <2>2, <5>5
          <6>2. w[m] = Place(next, s, v, m)
            BY <2>2
          <6> QED
            BY <5>3, <6>1, <6>2
        <5> QED
          BY <5>4, <5>5
      <4> QED
        BY <4>1, <4>2
    <3>6. w = [i \in 0 .. m |-> Place(next, s, w, i)]
      <4> DEFINE u == [i \in 0 .. m |-> Place(next, s, w, i)]
      <4>1. \A i \in 0 .. m : w[i] = u[i]
        BY <3>5
      <4> QED
        BY <4>1
    <3> HIDE DEF w
    <3> QED
      BY <2>2, <3>6 DEF Walks
  <2> QED
    BY <2>3, <2>4
<1> QED
  BY <1>1, MaxNodesAssumption

\* A walk that has somewhere to end meets the nodes the arrows lead to, and ends
\* before it has made as many steps as there are nodes.
LEMMA WalkMeets ==
  ASSUME NEW next \in [Slots -> Pointers], NEW s \in Slots,
         NEW w, Walks(next, s, w, MaxNodes),
         NEW e \in Slots, Leads(Arrows(next), s, e), next[e] = NULL
  PROVE  /\ \E i \in 0 .. MaxNodes : w[i] = NULL
         /\ {w[i] : i \in 0 .. MaxNodes} \ {NULL} = {x \in Slots : Leads(Arrows(next), s, x)}
<1> DEFINE P == {x \in Slots : Leads(Arrows(next), s, x)}
           D == {w[i] : i \in 0 .. MaxNodes} \ {NULL}
<1>0. MaxNodes \in Nat /\ NULL \notin Slots
  BY MaxNodesAssumption DEF Slots, Elements, NULL
<1>1. \A i \in 0 .. MaxNodes : w[i] = Place(next, s, w, i)
  <2> DEFINE u == [i \in 0 .. MaxNodes |-> Place(next, s, w, i)]
  <2>1. w = u
    BY DEF Walks
  <2>2. \A i \in 0 .. MaxNodes : u[i] = Place(next, s, w, i)
    OBVIOUS
  <2> HIDE DEF u
  <2> QED
    BY <2>1, <2>2
<1>2. \A i \in 0 .. MaxNodes : w[i] \in P \cup {NULL}
  <2> DEFINE Bad == {i \in 0 .. MaxNodes : w[i] \notin P \cup {NULL}}
  <2> SUFFICES ASSUME Bad # {} PROVE FALSE
    OBVIOUS
  <2>1. PICK i \in Bad : \A j \in Bad : i <= j
    <3>1. Bad \in SUBSET Nat
      OBVIOUS
    <3> HIDE DEF Bad
    <3> QED
      BY <3>1, LeastNumber
  <2>2. i \in 0 .. MaxNodes /\ w[i] \notin P \cup {NULL}
    BY <2>1
  <2>3. CASE i = 0
    <3>1. w[i] = s
      BY <1>1, <2>2, <2>3 DEF Place
    <3> QED
      BY <2>2, <3>1, LeadsSelf
  <2>4. CASE i # 0
    <3>1. i - 1 \in 0 .. MaxNodes /\ ~(i <= i - 1)
      BY <1>0, <2>2, <2>4
    <3>2. w[i - 1] \in P \cup {NULL}
      BY <2>1, <3>1
    <3>3. w[i] = IF w[i - 1] = NULL THEN NULL ELSE next[w[i - 1]]
      BY <1>1, <2>2, <2>4 DEF Place
    <3>4. w[i - 1] \in P /\ w[i] = next[w[i - 1]] /\ w[i] # NULL
      BY <2>2, <3>2, <3>3
    <3>5. w[i] \in Slots /\ <<w[i - 1], w[i]>> \in Arrows(next)
      BY <3>4 DEF Pointers, Arrows
    <3> QED
      BY <2>2, <3>4, <3>5, LeadsFurther
  <2> QED
    BY <2>3, <2>4
<1> HIDE DEF P
\* a set of nodes along the walk that the arrows do not leave is all of P
<1>3. ASSUME NEW T \in SUBSET Slots, s \in T,
             \A x \in T : next[x] # NULL => next[x] \in T
      PROVE  P \subseteq T
  <2>1. \A x, y \in Slots : x \in T /\ <<x, y>> \in Arrows(next) => y \in T
    BY <1>0, <1>3 DEF Arrows
  <2> QED
    BY <1>3, <2>1 DEF P, Leads
<1>4. \E i \in 0 .. MaxNodes : w[i] = NULL
  <2>0. SUFFICES ASSUME \A i \in 0 .. MaxNodes : w[i] # NULL PROVE FALSE
    OBVIOUS
  <2>1. \A i \in 0 .. MaxNodes : w[i] \in Slots
    BY <1>2, <2>0 DEF P
  <2> DEFINE v == [i \in 0 .. MaxNodes |-> w[i]]
  <2>2. v \in [0 .. MaxNodes -> Slots]
    BY <2>1
  <2>3. /\ IsFiniteSet(0 .. MaxNodes) /\ Cardinality(0 .. MaxNodes) = MaxNodes + 1
        /\ IsFiniteSet(Slots) /\ Cardinality(Slots) = MaxNodes
    BY <1>0, FS_Interval DEF Slots, Elements
  <2>4. PICK i \in 0 .. MaxNodes : \E j \in 0 .. MaxNodes : i # j /\ v[i] = v[j]
    <3> HIDE DEF v
    <3> QED
      BY <1>0, <2>2, <2>3, FS_PigeonHole
  <2>5. PICK j \in 0 .. MaxNodes : i # j /\ w[i] = w[j]
    BY <2>4
  <2>6. PICK a \in 0 .. MaxNodes : \E b \in 0 .. MaxNodes : a < b /\ w[a] = w[b]
    BY <1>0, <2>5
  <2>7. PICK b \in 0 .. MaxNodes : a < b /\ w[a] = w[b]
    BY <2>6
  <2> DEFINE T == {w[m] : m \in 0 .. b - 1}
  <2>8. T \in SUBSET Slots /\ s \in T
    <3>1. 0 \in 0 .. b - 1 /\ w[0] = s
      BY <1>0, <1>1, <2>7 DEF Place
    <3> QED
      BY <1>0, <2>1, <3>1
  <2>9. ASSUME NEW x \in T PROVE next[x] # NULL /\ next[x] \in T
    <3>1. PICK m \in 0 .. b - 1 : x = w[m]
      OBVIOUS
    <3>0. \A q \in 0 .. b - 1 : w[q] \in T
      OBVIOUS
    <3> HIDE DEF T, v
    <3>2. m + 1 \in 0 .. MaxNodes /\ m + 1 - 1 = m /\ m + 1 # 0
      BY <1>0, <3>1
    <3>3. w[m + 1] = next[x]
      <4>1. w[m + 1] = Place(next, s, w, m + 1) /\ w[m] # NULL
        BY <1>0, <1>1, <2>0, <3>1, <3>2
      <4> QED
        BY <3>1, <3>2, <4>1 DEF Place
    <3>4. CASE m + 1 <= b - 1
      <4>1. m + 1 \in 0 .. b - 1
        BY <1>0, <3>2, <3>4
      <4> QED
        BY <2>0, <3>0, <3>2, <3>3, <4>1
    <3>5. CASE ~(m + 1 <= b - 1)
      <4>1. m + 1 = b /\ a \in 0 .. b - 1
        BY <1>0, <2>7, <3>1, <3>5
      <4> QED
        BY <2>0, <2>7, <3>0, <3>2, <3>3, <4>1
    <3> QED
      BY <3>4, <3>5
  <2>10. e \in T
    <3>1. e \in P
      BY DEF P
    <3> HIDE DEF T
    <3> QED
      BY <1>3, <2>8, <2>9, <3>1
  <2> QED
    BY <2>9, <2>10
<1>5. P \subseteq D
  <2>1. PICK z \in 0 .. MaxNodes : w[z] = NULL
    BY <1>4
  <2> DEFINE Ends == {i \in 0 .. MaxNodes : w[i] = NULL}
  <2>2. PICK l \in Ends : \A j \in Ends : l <= j
    <3>1. Ends \in SUBSET Nat /\ Ends # {}
      BY <2>1
    <3> HIDE DEF Ends
    <3> QED
      BY <3>1, LeastNumber
  <2>3. l \in 0 .. MaxNodes /\ w[l] = NULL /\ \A i \in 0 .. MaxNodes : w[i] = NULL => l <= i
    BY <2>2
  <2> DEFINE T == {w[m] : m \in 0 .. l - 1}
  <2>4. w[0] = s /\ l # 0
    BY <1>0, <1>1, <2>3 DEF Place
  <2>5. \A m \in 0 .. l - 1 : m \in 0 .. MaxNodes /\ w[m] # NULL /\ w[m] \in Slots
    <3> SUFFICES ASSUME NEW m \in 0 .. l - 1
                 PROVE  m \in 0 .. MaxNodes /\ w[m] # NULL /\ w[m] \in Slots
      OBVIOUS
    <3>1. m \in 0 .. MaxNodes /\ ~(l <= m)
      BY <1>0, <2>3
    <3>2. w[m] # NULL
      BY <2>3, <3>1
    <3> QED
      BY <1>2, <3>1, <3>2 DEF P
  <2>6. T \in SUBSET Slots /\ s \in T
    <3>1. 0 \in 0 .. l - 1
      BY <1>0, <2>3, <2>4
    <3> QED
      BY <2>4, <2>5, <3>1
  <2>7. ASSUME NEW x \in T, next[x] # NULL PROVE next[x] \in T
    <3>1. PICK m \in 0 .. l - 1 : x = w[m]
      OBVIOUS
    <3>2. m + 1 \in 0 .. MaxNodes /\ m + 1 - 1 = m /\ m + 1 # 0
      BY <1>0, <2>3, <3>1
    <3>3. w[m + 1] = next[x]
      BY <1>1, <2>5, <3>1, <3>2 DEF Place
    <3>4. m + 1 # l
      BY <2>3, <2>7, <3>3
    <3>5. m + 1 \in 0 .. l - 1
      BY <1>0, <2>3, <3>1, <3>2, <3>4
    <3> QED
      BY <3>3, <3>5
  <2>8. P \subseteq T
    <3> HIDE DEF T
    <3> QED
      BY <1>3, <2>6, <2>7
  <2>9. T \subseteq D
    BY <2>5
  <2> QED
    BY <2>8, <2>9
<1>6. D \subseteq P
  BY <1>2
<1> QED
  BY <1>4, <1>5, <1>6 DEF P

-----------------------------------------------------------------------------
(* The pool: what taking and giving back an element does to the free list. *)

\* No element is on the list twice.
Distinct(list) == \A i, j \in DOMAIN list : list[i] = list[j] => i = j

\* A node taken from the list is off it, and the rest is on it.
LEMMA TakenFromPool ==
  ASSUME NEW list \in Seq(Slots), Distinct(list), Allocated(list) # NULL
  PROVE  /\ Allocated(list) \in Listed(list)
         /\ Listed(AfterAlloc(list)) = Listed(list) \ {Allocated(list)}
         /\ Distinct(AfterAlloc(list))
         /\ Len(list) \in Nat /\ Len(AfterAlloc(list)) = Len(list) - 1
<1>1. list # <<>>
  BY DEF Allocated
<1> DEFINE l == Len(list)
           rest == Tail(list)
<1>2. /\ l \in Nat /\ l # 0 /\ DOMAIN list = 1 .. l
      /\ rest \in Seq(Slots) /\ Len(rest) = l - 1 /\ DOMAIN rest = 1 .. l - 1
      /\ Head(list) = list[1]
  BY <1>1, HeadTailProperties, EmptySeq, LenProperties
<1>3. \A i \in 1 .. l - 1 : rest[i] = list[i + 1]
  BY <1>1, <1>2, HeadTailProperties
<1>4. Allocated(list) = list[1] /\ AfterAlloc(list) = rest
  BY <1>1, <1>2 DEF Allocated, AfterAlloc
<1> HIDE DEF rest, l
<1>5. \A i \in 1 .. l - 1 : i + 1 \in 1 .. l /\ i + 1 # 1
  BY <1>2
<1>6. 1 \in 1 .. l /\ \A i \in 1 .. l : i # 1 => i - 1 \in 1 .. l - 1 /\ i - 1 + 1 = i
  BY <1>2
<1>7. Distinct(rest)
  <2>1. ASSUME NEW i \in 1 .. l - 1, NEW j \in 1 .. l - 1, rest[i] = rest[j] PROVE i = j
    <3>1. i + 1 = j + 1
      BY <1>2, <1>3, <1>5, <2>1 DEF Distinct
    <3> QED
      BY <1>2, <3>1
  <2> QED
    BY <1>2, <2>1 DEF Distinct
<1>8. \A x : x \in Listed(rest) <=> x \in Listed(list) /\ x # list[1]
  <2>1. ASSUME NEW i \in 1 .. l - 1
        PROVE  rest[i] \in Listed(list) /\ rest[i] # list[1]
    BY <1>2, <1>3, <1>5, <1>6 DEF Distinct, Listed
  <2>2. ASSUME NEW i \in 1 .. l, list[i] # list[1] PROVE list[i] \in Listed(rest)
    <3>1. i - 1 \in 1 .. l - 1 /\ rest[i - 1] = list[i]
      BY <1>3, <1>6, <2>2
    <3> QED
      BY <1>2, <3>1 DEF Listed
  <2> QED
    BY <1>2, <2>1, <2>2 DEF Listed
<1>9. list[1] \in Listed(list)
  BY <1>2, <1>6 DEF Listed
<1> QED
  <2>1. Listed(rest) = Listed(list) \ {list[1]}
    BY <1>8
  <2>2. Len(list) = l /\ Len(rest) = l - 1
    BY <1>2 DEF l
  <2> QED
    BY <1>2, <1>4, <1>7, <1>9, <2>1, <2>2

\* A node given back is on the list.
LEMMA GivenToPool ==
  ASSUME NEW list \in Seq(Slots), Distinct(list), NEW s \in Slots, s \notin Listed(list)
  PROVE  /\ Listed(AfterFree(list, s)) = Listed(list) \cup {s}
         /\ Distinct(AfterFree(list, s))
         /\ Len(list) \in Nat /\ Len(AfterFree(list, s)) = Len(list) + 1
<1> DEFINE l == Len(list)
           more == <<s>> \o list
<1>1. l \in Nat /\ DOMAIN list = 1 .. l
  BY LenProperties
<1>2. <<s>> \in Seq(Slots) /\ Len(<<s>>) = 1 /\ <<s>>[1] = s
  OBVIOUS
<1>3. more \in Seq(Slots) /\ Len(more) = 1 + l /\ DOMAIN more = 1 .. 1 + l
  BY <1>2, ConcatProperties, LenProperties
<1>4. more[1] = s /\ \A i \in 1 .. l : more[i + 1] = list[i]
  BY <1>1, <1>2
<1> HIDE DEF more, l
<1>5. 1 \in 1 .. 1 + l /\ \A i \in 1 .. l : i + 1 \in 1 .. 1 + l
  BY <1>1
<1>6. \A i \in 1 .. 1 + l : i # 1 => i - 1 \in 1 .. l /\ more[i] = list[i - 1]
  <2> SUFFICES ASSUME NEW i \in 1 .. 1 + l, i # 1
               PROVE  i - 1 \in 1 .. l /\ more[i] = list[i - 1]
    OBVIOUS
  <2>1. i - 1 \in 1 .. l /\ i - 1 + 1 = i
    BY <1>1
  <2> QED
    BY <1>4, <2>1
<1>7. \A i \in 1 .. l : list[i] \in Listed(list)
  BY <1>1 DEF Listed
<1>8. Distinct(more)
  <2>1. ASSUME NEW i \in 1 .. 1 + l, NEW j \in 1 .. 1 + l, more[i] = more[j] PROVE i = j
    <3>1. CASE i = 1 \/ j = 1
      BY <1>4, <1>6, <1>7, <2>1, <3>1
    <3>2. CASE i # 1 /\ j # 1
      <4>1. i - 1 = j - 1
        BY <1>1, <1>6, <2>1, <3>2 DEF Distinct
      <4> QED
        BY <1>1, <4>1
    <3> QED
      BY <3>1, <3>2
  <2> QED
    BY <1>3, <2>1 DEF Distinct
<1>9. Listed(more) = Listed(list) \cup {s}
  <2>1. ASSUME NEW i \in 1 .. 1 + l PROVE more[i] \in Listed(list) \cup {s}
    BY <1>4, <1>6, <1>7
  <2>2. ASSUME NEW i \in 1 .. l PROVE list[i] \in Listed(more)
    <3>1. i + 1 \in DOMAIN more /\ more[i + 1] = list[i]
      BY <1>3, <1>4, <1>5
    <3> QED
      BY <3>1 DEF Listed
  <2>3. s \in Listed(more)
    BY <1>3, <1>4, <1>5 DEF Listed
  <2> QED
    BY <1>1, <1>3, <2>1, <2>2, <2>3 DEF Listed
<1> QED
  <2>1. Len(more) = l + 1 /\ Len(list) = l
    BY <1>1, <1>3 DEF l
  <2> QED
    BY <1>1, <1>8, <1>9, <2>1 DEF AfterFree, more

\* As many nodes are out as are not on the list.
LEMMA OutOfPool ==
  ASSUME NEW list \in Seq(Slots), Distinct(list)
  PROVE  /\ Len(list) = Cardinality(Listed(list))
         /\ Cardinality(Slots \ Listed(list)) = MaxNodes - Len(list)
<1> DEFINE l == Len(list)
<1>1. l \in Nat /\ DOMAIN list = 1 .. l /\ list \in [1 .. l -> Slots]
  BY LenProperties
<1>2. Listed(list) = {list[i] : i \in 1 .. l} /\ Listed(list) \subseteq Slots
  BY <1>1 DEF Listed
<1>3. IsFiniteSet(1 .. l) /\ Cardinality(1 .. l) = l
  BY <1>1, FS_Interval
<1>4. list \in Bijection(1 .. l, Listed(list))
  <2>1. list \in [1 .. l -> Listed(list)]
    BY <1>1, <1>2
  <2>2. \A i, j \in 1 .. l : list[i] = list[j] => i = j
    BY <1>1 DEF Distinct
  <2>3. \A x \in Listed(list) : \E i \in 1 .. l : list[i] = x
    BY <1>2
  <2> HIDE DEF l
  <2> QED
    BY <2>1, <2>2, <2>3 DEF Bijection, Injection, Surjection, IsInjective
<1>5. ExistsBijection(1 .. l, Listed(list))
  BY <1>4 DEF ExistsBijection
<1>6. IsFiniteSet(Listed(list)) /\ Cardinality(Listed(list)) = l
  <2> HIDE DEF l
  <2> QED
    BY <1>3, <1>5, FS_Bijection
<1>7. IsFiniteSet(Slots) /\ Cardinality(Slots) = MaxNodes
  BY MaxNodesAssumption, FS_Interval DEF Slots, Elements
<1>8. Cardinality(Slots \ Listed(list)) = Cardinality(Slots) - Cardinality(Slots \cap Listed(list))
  BY <1>7, FS_Difference
<1>9. Slots \cap Listed(list) = Listed(list)
  BY <1>2
<1> QED
  BY <1>6, <1>7, <1>8, <1>9

\* At first every node is free.
LEMMA AllOfPool == Distinct(AllFree) /\ Listed(AllFree) = Slots /\ Len(AllFree) = MaxNodes
<1>1. DOMAIN AllFree = Slots /\ \A i \in Slots : AllFree[i] = i
  BY DEF AllFree, Slots, Elements
<1>2. Len(AllFree) = MaxNodes
  BY MaxNodesAssumption DEF AllFree, Elements
<1>3. Listed(AllFree) = Slots
  BY <1>1 DEF Listed
<1> QED
  BY <1>1, <1>2, <1>3 DEF Distinct

-----------------------------------------------------------------------------
(* The invariant of a search.                                              *)

\* Between the steps of a search that neither has ended nor is ending.
Searching == state = "SEARCHING" /\ pc \in {"ready", "generate", "relax"}

\* The nodes that may be a parent, and those that may still be followed.
Inner == closed \cup Current
Front == open \cup Current

StepCost(s) == GetCost(RefMap, Tile(s))

\* The parent of s is one, a legal move away, and the cost of s is exact.
Linked(s) == LET p == node[s].parent
             IN  /\ p \in Inner
                 /\ Adjacent(Tile(p), Tile(s))
                 /\ node[s].g = node[p].g + StepCost(p)
Links == {e \in Slots \X Slots : Linked(e[1]) /\ node[e[1]].parent = e[2]}

\* d is a descendant of c, or c itself.
Under(d, c) == Leads(Links, d, c)

\* The indices of m_Successors that are still to be relaxed.
Waiting == IF pc = "generate" THEN DOMAIN succ
           ELSE IF pc = "relax" THEN k .. Len(succ) ELSE {}

\* The nodes of a path from s along the child pointers.
Kids == Arrows([s \in Slots |-> node[s].child])
Kin(s) == {x \in Slots : Leads(Kids, s, x)}

\* They lead to the goal node, and never together or back to s.
Path(s) ==
  /\ mGoal \in Kin(s) /\ node[mGoal].child = NULL
  /\ \A x \in Kin(s) : /\ x # mGoal => node[x].child # NULL
                       /\ node[x].child # s
                       /\ \A y \in Kin(s) : node[x].child = node[y].child /\ x # y
                                            => node[x].child = NULL

\* The nodes that are out of the pool.
Held == IF pc = "freeSolution" THEN Kin(n)
        ELSE IF HasSolution THEN Kin(mStart) \cup {mGoal}
        ELSE IF pc = "freeUnused" THEN open \cup closed \cup Kin(mStart) \cup {mGoal}
        ELSE IF state = "SEARCHING" THEN open \cup closed \cup Pending \cup Current \cup {mGoal}
        ELSE {}

Phases ==
  /\ state \in {"NOT_INITIALISED", "FAILED"} => mStart = NULL /\ pc = "ready"
  /\ state = "SUCCEEDED" => pc \in {"ready", "freeSolution"}
  /\ state = "SEARCHING" => mStart \in Slots /\ mGoal \in Slots /\ pc # "freeSolution"
  /\ pc = "freeSolution" => mStart \in Slots
  /\ pc \in {"generate", "relax"} => k >= 1

PoolInv == Distinct(free) /\ count + Len(free) = MaxNodes /\ Live = Held

ListsInv ==
  /\ state # "SEARCHING" => open = {} /\ closed = {}
  /\ open \cap closed = {} /\ Current \cap (open \cup closed) = {}
  /\ Pending \cap Reached = {}
  /\ state = "SEARCHING" => mGoal \notin Reached \cup Pending
  /\ mStart # NULL => mStart # mGoal
  /\ \A i, j \in Waiting : succ[i] = succ[j] => i = j

TilesInv ==
  /\ state = "SEARCHING" => /\ Tile(mGoal) \in Goals
                            /\ \A s, t \in Reached : Tile(s) = Tile(t) => s = t
  /\ \A s \in Pending : /\ Walkable(RefMap, Tile(s))
                        /\ Adjacent(Tile(n), Tile(s))
                        /\ node[s].parent = NULL

StartInv == Searching =>
  /\ mStart \in Reached /\ node[mStart].parent = NULL /\ node[mStart].g = 0
  /\ \A s \in Reached \ {mStart} : node[s].g > 0 /\ Walkable(RefMap, Tile(s))
  /\ mStart \in open => open = {mStart} /\ closed = {} /\ pc = "ready"

ChildInv == Searching => \A s \in Reached \cup Pending \cup {mGoal} : node[s].child = NULL

\* While a path is followed back from the goal the nodes before n are linked, and
\* those from n on are its path.
LinkInv == pc = "link" =>
  /\ node[n].parent \in closed
  /\ \A e \in Slots : Under(node[n].parent, e) =>
       /\ e = mStart \/ Linked(e)
       /\ node[e].child = NULL
  /\ Path(n) /\ Kin(n) \ {mGoal} \subseteq closed
  /\ \A x \in open \cup closed : node[x].child # NULL <=> x \in Kin(n)

PathInv ==
  /\ pc = "freeUnused" =>
       /\ Path(mStart) \/ (node[mStart].child = NULL /\ open = {} /\ closed = {})
       /\ \A x \in open \cup closed : node[x].child # NULL <=> x \in Kin(mStart)
  /\ HasSolution => Path(mStart) \/ node[mStart].child = NULL
  /\ pc = "freeSolution" => n \in Slots /\ Path(n)

\* The goal is within the map, and no node is missing.
Ordered == /\ Searching /\ ~dropped
           /\ \A tile \in DOMAIN RefMap : GoalDistanceEstimate(tile, Tile(mGoal)) < Far

CostsBounded == \A s \in Reached : node[s].g <= Wall * MaxNodes

\* While a descendant of c has a lower f than c, only nodes that cost more than c
\* are popped.
DescendantsFirst ==
  \A c \in Inner : (\E d \in Front : Under(d, c) /\ f(d) < f(c)) =>
    \A x \in Front : f(x) >= f(c) \/ node[x].g > node[c].g

\* Of the open nodes only children of the current one may have a lower f.
CurrentIsBest ==
  pc # "ready" => \A x \in open : f(x) >= f(n) \/ (Linked(x) /\ node[x].parent = n)

CurrentIsLinked ==
  pc # "ready" => \A e \in Slots : Under(n, e) => e = mStart \/ Linked(e)

\* A successor of the tile is still to come.
Coming(tile) ==
  \/ pc = "generate" /\ \E j \in DOMAIN Moves : j >= k /\ tile = Neighbour(Tile(n), j)
  \/ \E s \in Pending : Tile(s) = tile

\* x will replace e by a cheaper node.
Replaces(x, e) ==
  /\ Adjacent(Tile(x), Tile(e)) /\ node[x].g + StepCost(x) < node[e].g
  /\ x \in open \/ (x \in Current /\ Coming(Tile(e)))

\* A node without its parent will be replaced, before any of its descendants is
\* popped.
UnlinkedReplaced ==
  \A e \in Reached \ {mStart} : Linked(e) \/
    \E x \in Front : Replaces(x, e) /\ \A d \in open : Under(d, e) => f(x) < f(d)

ChainInv == Ordered => /\ CostsBounded /\ DescendantsFirst /\ CurrentIsBest
                       /\ CurrentIsLinked /\ UnlinkedReplaced

-----------------------------------------------------------------------------
(* Costs, tiles and links.                                                 *)

\* A step costs something, and no more than a wall.
LEMMA StepCostType ==
  ASSUME TypeInv, NEW s PROVE StepCost(s) \in 1 .. Wall
<1>1. RefMap \in Maps
  BY DEF TypeInv, TypeOK
<1> QED
  BY <1>1, MapsAssumption DEF StepCost, GetCost, navigation_map, Wall

\* The fields of a node.
LEMMA NodeType ==
  ASSUME TypeInv, NEW s \in Slots
  PROVE  /\ Tile(s) \in Int \X Int /\ node[s].g \in Nat
         /\ node[s].parent \in Pointers /\ node[s].child \in Pointers
BY DEF TypeInv, TypeOK, Nodes, Tile

\* Far is a number.
LEMMA FarType == Far \in Nat
BY SMT DEF Far

\* An estimate is a number.
LEMMA EstimateType ==
  ASSUME NEW s \in Int \X Int, NEW t \in Int \X Int
  PROVE  GoalDistanceEstimate(s, t) \in Nat
<1>1. \A a, b \in Int : AxisDistance(a, b) \in Nat
  BY FarType DEF AxisDistance
<1>2. s[1] \in Int /\ s[2] \in Int /\ t[1] \in Int /\ t[2] \in Int
  OBVIOUS
<1>3. \A a, b \in Nat : FloatSum(a, b) \in Nat
  BY FarType DEF FloatSum
<1>4. AxisDistance(s[1], t[1]) \in Nat /\ AxisDistance(s[2], t[2]) \in Nat
  BY <1>1, <1>2
<1> QED
  BY <1>3, <1>4 DEF GoalDistanceEstimate

\* f is a number.
LEMMA TotalType ==
  ASSUME TypeInv, mGoal \in Slots, NEW s \in Slots PROVE f(s) \in Nat
<1>1. Tile(s) \in Int \X Int /\ Tile(mGoal) \in Int \X Int /\ node[s].g \in Nat
  BY NodeType
<1>2. GoalDistanceEstimate(Tile(s), Tile(mGoal)) \in Nat
  BY <1>1, EstimateType
<1> QED
  BY <1>1, <1>2, FarType DEF f, FloatSum

\* Where the estimate is not far, a smaller cost makes a smaller sum.
LEMMA SumLess ==
  ASSUME NEW a \in Nat, NEW b \in Nat, NEW h \in Nat, a < b, b < Far, h < Far
  PROVE  FloatSum(a, h) < FloatSum(b, h)
BY FarType DEF FloatSum

\* A tile that can be walked on is on the map.
LEMMA WalkableOnMap ==
  ASSUME NEW tile, Walkable(RefMap, tile) PROVE tile \in DOMAIN RefMap
BY DEF Walkable, navigation_map, Wall

\* A neighbouring tile is another tile.
LEMMA AdjacentDiffers ==
  ASSUME NEW t \in Int \X Int PROVE ~Adjacent(t, t)
<1> SUFFICES ASSUME NEW i \in DOMAIN Moves, t = Neighbour(t, i) PROVE FALSE
  BY DEF Adjacent
<1>1. i \in 1 .. 8
  BY DEF Moves
<1>2. /\ Moves[i][1] \in Int /\ Moves[i][2] \in Int
      /\ Moves[i][1] # 0 \/ Moves[i][2] # 0
  BY <1>1 DEF Moves
<1>3. t[1] = t[1] + Moves[i][1] /\ t[2] = t[2] + Moves[i][2]
  <2>1. Neighbour(t, i)[1] = t[1] + Moves[i][1] /\ Neighbour(t, i)[2] = t[2] + Moves[i][2]
    BY DEF Neighbour
  <2> QED
    BY <2>1
<1>4. t[1] \in Int /\ t[2] \in Int
  OBVIOUS
<1> QED
  BY <1>2, <1>3, <1>4

\* The parent of a linked node is a node, which costs less.
LEMMA LinkedParent ==
  ASSUME TypeInv, NEW s \in Slots, Linked(s)
  PROVE  LET p == node[s].parent
         IN  p \in Slots /\ node[p].g < node[s].g /\ <<s, p>> \in Links /\ Under(s, p)
<1> DEFINE p == node[s].parent
<1>1. p \in Slots
  BY DEF Linked, Inner, Current, TypeInv, TypeOK, NodesKnown
<1>2. node[p].g < node[s].g
  <2>1. node[p].g \in Nat /\ StepCost(p) \in 1 .. Wall
    BY <1>1, NodeType, StepCostType
  <2>2. node[s].g = node[p].g + StepCost(p)
    BY DEF Linked
  <2> QED
    BY <2>1, <2>2
<1>3. <<s, p>> \in Links
  BY <1>1 DEF Links
<1> QED
  BY <1>1, <1>2, <1>3, LeadsSelf, LeadsFurther DEF Under

\* The link that leaves a node is the one to its parent.
LEMMA LinksAre ==
  ASSUME NEW x \in Slots, NEW y \in Slots
  PROVE  <<x, y>> \in Links <=> Linked(x) /\ node[x].parent = y
<1>1. <<x, y>> \in Slots \X Slots /\ <<x, y>>[1] = x /\ <<x, y>>[2] = y
  OBVIOUS
<1> QED
  BY <1>1 DEF Links

\* A descendant costs more, and is linked.
LEMMA UnderIs ==
  ASSUME TypeInv, NEW d \in Slots, NEW c, Under(d, c)
  PROVE  /\ c \in Slots
         /\ c = d \/ node[c].g < node[d].g
         /\ c # d => /\ c \in Inner /\ Linked(d) /\ node[d].parent \in Slots
                     /\ Under(node[d].parent, c)
<1>1. c \in Slots
  BY LeadsSelf DEF Under
<1>2. c = d \/ node[c].g < node[d].g
  <2> DEFINE h == [s \in Slots |-> node[s].g]
  <2>1. h \in [Slots -> Nat]
    BY NodeType
  <2>2. ASSUME NEW x \in Slots, NEW y \in Slots, <<x, y>> \in Links PROVE h[y] < h[x]
    BY <2>2, LinksAre, LinkedParent
  <2>3. c = d \/ h[c] < h[d]
    <3> HIDE DEF h
    <3> QED
      BY <1>1, <2>1, <2>2, LeadsDown DEF Under
  <2> QED
    BY <1>1, <2>3
<1>3. ASSUME c # d
      PROVE  Linked(d) /\ node[d].parent \in Slots /\ Under(node[d].parent, c)
  <2>1. \A y \in Slots : <<d, y>> \in Links => y = node[d].parent
    BY LinksAre
  <2>2. /\ node[d].parent \in Slots /\ <<d, node[d].parent>> \in Links
        /\ Leads(Links, node[d].parent, c)
    BY <1>1, <1>3, <2>1, LeadsFirst DEF Under
  <2> QED
    BY <2>2, LinksAre DEF Under
<1>4. ASSUME c # d PROVE c \in Inner
  <2> DEFINE S == {x \in Slots : x = d \/ x \in Inner}
  <2>1. S \in SUBSET Slots /\ d \in S
    OBVIOUS
  <2>2. ASSUME NEW x \in Slots, NEW y \in Slots, x \in S, <<x, y>> \in Links PROVE y \in S
    BY <2>2, LinksAre DEF Linked
  <2> HIDE DEF S
  <2>3. c \in S
    BY <1>1, <2>1, <2>2 DEF Under, Leads
  <2> QED
    BY <1>4, <2>3 DEF S
<1> QED
  BY <1>1, <1>2, <1>3, <1>4

\* A linked node is under what its parent is under.
LEMMA UnderThrough ==
  ASSUME TypeInv, NEW d \in Slots, NEW c \in Slots, NEW e \in Slots,
         Under(d, c), Under(c, e)
  PROVE  Under(d, e)
BY LeadsOn DEF Under

\* Every node is under itself.
LEMMA UnderSelf == ASSUME NEW d \in Slots PROVE Under(d, d)
BY LeadsSelf DEF Under

-----------------------------------------------------------------------------
(* Paths along the child pointers.                                         *)

\* The links of a path are its child pointers.
LEMMA KidsAre ==
  ASSUME NEW x \in Slots, NEW y \in Slots
  PROVE  <<x, y>> \in Kids <=> node[x].child = y
<1>1. <<x, y>> \in Slots \X Slots /\ <<x, y>>[1] = x /\ <<x, y>>[2] = y
  OBVIOUS
<1> QED
  BY <1>1 DEF Kids, Arrows

\* A path begins with its node and goes on along its pointers.
LEMMA KinGoesOn ==
  ASSUME NEW s \in Slots
  PROVE  /\ s \in Kin(s) /\ Kin(s) \subseteq Slots
         /\ \A x \in Kin(s) : node[x].child \in Slots => node[x].child \in Kin(s)
<1>1. s \in Kin(s) /\ Kin(s) \subseteq Slots
  BY LeadsSelf DEF Kin
<1>2. ASSUME NEW x \in Kin(s), node[x].child \in Slots PROVE node[x].child \in Kin(s)
  <2>1. x \in Slots /\ <<x, node[x].child>> \in Kids /\ Leads(Kids, s, x)
    BY <1>2, KidsAre DEF Kin
  <2> QED
    BY <1>2, <2>1, LeadsFurther DEF Kin
<1> QED
  BY <1>1, <1>2

\* It has no other nodes.
LEMMA KinWithin ==
  ASSUME NEW s \in Slots, NEW S \in SUBSET Slots, s \in S,
         \A x \in S : node[x].child \in Slots => node[x].child \in S
  PROVE  Kin(s) \subseteq S
<1>1. \A x, y \in Slots : x \in S /\ <<x, y>> \in Kids => y \in S
  BY KidsAre
<1> QED
  BY <1>1 DEF Kin, Leads

\* A node without a child is a path of its own.
LEMMA KinAlone ==
  ASSUME NEW s \in Slots, node[s].child = NULL PROVE Kin(s) = {s}
<1>1. NULL \notin Slots
  BY DEF Slots, Elements, NULL
<1>2. Kin(s) \subseteq {s}
  BY <1>1, KinWithin
<1> QED
  BY <1>2, KinGoesOn

\* The rest of a path is the path from the child of its first node.
LEMMA PathRest ==
  ASSUME TypeInv, mGoal \in Slots, NEW s \in Slots, Path(s), s # mGoal
  PROVE  LET c == node[s].child
         IN  c \in Slots /\ Path(c) /\ s \in Kin(s) /\ Kin(c) = Kin(s) \ {s}
<1> DEFINE c == node[s].child
<1>1. s \in Kin(s) /\ Kin(s) \subseteq Slots
  BY KinGoesOn
<1>2. c # NULL /\ c # s
  BY <1>1 DEF Path
<1>3. c \in Slots
  BY <1>2, NodeType DEF Pointers
<1>4. c \in Kin(s)
  BY <1>1, <1>3, KinGoesOn
<1>5. Kin(c) \subseteq Kin(s) \ {s}
  <2>1. Kin(s) \ {s} \in SUBSET Slots /\ c \in Kin(s) \ {s}
    BY <1>1, <1>2, <1>4
  <2>2. \A x \in Kin(s) \ {s} : node[x].child \in Slots => node[x].child \in Kin(s) \ {s}
    BY KinGoesOn DEF Path
  <2> QED
    BY <1>3, <2>1, <2>2, KinWithin
<1>6. Kin(s) \subseteq Kin(c) \cup {s}
  <2>1. c \in Kin(c) /\ Kin(c) \subseteq Slots
    BY <1>3, KinGoesOn
  <2>2. \A x \in Kin(c) \cup {s} : node[x].child \in Slots => node[x].child \in Kin(c) \cup {s}
    BY <1>3, <2>1, KinGoesOn
  <2>3. Kin(c) \cup {s} \in SUBSET Slots /\ s \in Kin(c) \cup {s}
    BY <2>1
  <2> QED
    BY <2>2, <2>3, KinWithin
<1>7. Kin(c) = Kin(s) \ {s}
  BY <1>5, <1>6
<1>8. Path(c)
  <2>1. mGoal \in Kin(c) /\ node[mGoal].child = NULL
    BY <1>7 DEF Path
  <2>2. \A x \in Kin(c) : node[x].child # c
    <3>1. \A x \in Kin(c) : x \in Kin(s) /\ x # s
      BY <1>7
    <3> QED
      BY <1>1, <1>2, <3>1 DEF Path
  <2>3. \A x \in Kin(c) : /\ x # mGoal => node[x].child # NULL
                          /\ \A y \in Kin(c) : node[x].child = node[y].child /\ x # y
                                               => node[x].child = NULL
    BY <1>7 DEF Path
  <2> QED
    BY <2>1, <2>2, <2>3 DEF Path
<1> QED
  BY <1>1, <1>3, <1>7, <1>8

\* The pointers of all nodes, and a walk along them as AStarSearch writes it.
Pointer(field) == [x \in Slots |-> node[x][field]]
Along(field, s, w) ==
  w = [i \in 0 .. MaxNodes |-> IF i = 0 THEN s
                               ELSE IF w[i - 1] = NULL THEN NULL ELSE node[w[i - 1]][field]]

\* Pointers point to nodes, or nowhere.
LEMMA PointerType ==
  ASSUME TypeInv, NEW field \in {"child", "parent"}
  PROVE  /\ Pointer(field) \in [Slots -> Pointers]
         /\ \A x \in Slots : node[x][field] \in Pointers
<1>1. \A x \in Slots : node[x]["child"] \in Pointers /\ node[x]["parent"] \in Pointers
  <2> TAKE x \in Slots
  <2>1. node[x].child \in Pointers /\ node[x].parent \in Pointers
    BY NodeType
  <2>2. node[x].child = node[x]["child"] /\ node[x].parent = node[x]["parent"]
    BY SMT
  <2> QED
    BY <2>1, <2>2
<1> QED
  BY <1>1 DEF Pointer

\* The two ways to write a walk agree.
LEMMA AlongIsWalk ==
  ASSUME TypeInv, NEW field \in {"child", "parent"}, NEW s \in Slots, NEW w
  PROVE  Along(field, s, w) <=> Walks(Pointer(field), s, w, MaxNodes)
<1> DEFINE Step(i) == IF i = 0 THEN s
                      ELSE IF w[i - 1] = NULL THEN NULL ELSE node[w[i - 1]][field]
           next == Pointer(field)
<1>0. MaxNodes \in Nat
  BY MaxNodesAssumption
<1>1. ASSUME NEW i \in 0 .. MaxNodes, i # 0 => w[i - 1] \in Pointers
      PROVE  Step(i) = Place(next, s, w, i) /\ Step(i) \in Pointers
  <2>1. CASE i = 0
    BY <2>1 DEF Place, Pointers
  <2>2. CASE i # 0 /\ w[i - 1] = NULL
    BY <2>2 DEF Place, Pointers
  <2>3. CASE i # 0 /\ w[i - 1] # NULL
    <3>1. w[i - 1] \in Slots
      BY <1>1, <2>3 DEF Pointers
    <3>2. next[w[i - 1]] = node[w[i - 1]][field] /\ node[w[i - 1]][field] \in Pointers
      BY <3>1, PointerType DEF Pointer
    <3> HIDE DEF next
    <3> QED
      BY <2>3, <3>2 DEF Place
  <2> QED
    BY <2>1, <2>2, <2>3
<1>2. ASSUME \A i \in 0 .. MaxNodes : w[i] \in {Step(i), Place(next, s, w, i)}
      PROVE  \A i \in 0 .. MaxNodes : w[i] \in Pointers
  <2> DEFINE Bad == {i \in 0 .. MaxNodes : w[i] \notin Pointers}
  <2> SUFFICES ASSUME Bad # {} PROVE FALSE
    OBVIOUS
  <2>1. PICK i \in Bad : \A j \in Bad : i <= j
    <3>1. Bad \subseteq Nat
      OBVIOUS
    <3> HIDE DEF Bad
    <3> QED
      BY <3>1, LeastNumber
  <2>2. i \in 0 .. MaxNodes /\ w[i] \notin Pointers
    BY <2>1
  <2>3. i # 0 => w[i - 1] \in Pointers
    <3> SUFFICES ASSUME i # 0 PROVE w[i - 1] \in Pointers
      OBVIOUS
    <3>1. i - 1 \in 0 .. MaxNodes /\ ~(i <= i - 1)
      BY <1>0, <2>2
    <3> QED
      BY <2>1, <3>1
  <2> HIDE DEF Step, next
  <2> QED
    BY <1>1, <1>2, <2>2, <2>3
<1>3. ASSUME \A i \in 0 .. MaxNodes : w[i] \in {Step(i), Place(next, s, w, i)}
      PROVE  \A i \in 0 .. MaxNodes : Step(i) = Place(next, s, w, i)
  <2>1. \A i \in 0 .. MaxNodes : i # 0 => i - 1 \in 0 .. MaxNodes
    BY <1>0
  <2> HIDE DEF Step, next
  <2> QED
    BY <1>1, <1>2, <1>3, <2>1
<1> DEFINE a == [i \in 0 .. MaxNodes |-> Step(i)]
           b == [i \in 0 .. MaxNodes |-> Place(next, s, w, i)]
<1>4. (w = a \/ w = b) => \A i \in 0 .. MaxNodes : w[i] \in {Step(i), Place(next, s, w, i)}
  <2>1. \A i \in 0 .. MaxNodes : a[i] = Step(i) /\ b[i] = Place(next, s, w, i)
    <3> HIDE DEF Step, next
    <3> QED
      OBVIOUS
  <2> HIDE DEF Step, next, a, b
  <2> QED
    BY <2>1
<1>5. (w = a \/ w = b) => a = b
  <2> SUFFICES ASSUME w = a \/ w = b PROVE a = b
    OBVIOUS
  <2>1. \A i \in 0 .. MaxNodes : Step(i) = Place(next, s, w, i)
    <3> HIDE DEF Step, next, a, b
    <3> QED
      BY <1>3, <1>4
  <2> HIDE DEF Step, next
  <2> QED
    BY <2>1
<1>6. w = a <=> w = b
  <2> HIDE DEF a, b
  <2> QED
    BY <1>5
<1> QED
  BY <1>6 DEF Along, Walks

\* The nodes such a walk meets.
Met(w) == {w[i] : i \in 0 .. MaxNodes} \ {NULL}

\* A walk from s meets the nodes the pointers lead to, if one of them is NULL.
LEMMA AlongMeets ==
  ASSUME TypeInv, NEW field \in {"child", "parent"}, NEW s \in Slots,
         NEW e \in Slots, Leads(Arrows(Pointer(field)), s, e), node[e][field] = NULL
  PROVE  /\ \E w : Along(field, s, w)
         /\ \A w : Along(field, s, w) =>
              /\ \E i \in 0 .. MaxNodes : w[i] = NULL
              /\ Met(w) = {x \in Slots : Leads(Arrows(Pointer(field)), s, x)}
<1>1. Pointer(field) \in [Slots -> Pointers]
  BY PointerType
<1>2. Pointer(field)[e] = NULL
  BY DEF Pointer
<1>3. \E w : Along(field, s, w)
  BY WalkExists, AlongIsWalk
<1>4. ASSUME NEW w, Along(field, s, w)
      PROVE  /\ \E i \in 0 .. MaxNodes : w[i] = NULL
             /\ Met(w) = {x \in Slots : Leads(Arrows(Pointer(field)), s, x)}
  <2>1. Walks(Pointer(field), s, w, MaxNodes)
    BY <1>4, AlongIsWalk
  <2> QED
    BY <1>1, <1>2, <2>1, WalkMeets DEF Met
<1> QED
  BY <1>3, <1>4

\* The nodes that ChildrenOf finds are those of the path.
LEMMA ChildrenAreKin ==
  ASSUME TypeInv, NEW s \in Slots, Path(s) \/ node[s].child = NULL, mGoal \in Slots
  PROVE  ChildrenOf(s) = Kin(s)
<1> DEFINE Walk(w) ==
      w = [i \in 0 .. MaxNodes |-> IF i = 0 THEN s
                                   ELSE IF w[i - 1] = NULL THEN NULL ELSE node[w[i - 1]].child]
<1>1. \A x : node[x].child = node[x]["child"]
  BY SMT
<1>2. \A w : Walk(w) <=> Along("child", s, w)
  BY <1>1 DEF Along
<1>3. Pointer("child") = [x \in Slots |-> node[x].child]
  BY <1>1 DEF Pointer
<1>4. Kids = Arrows(Pointer("child"))
  BY <1>3 DEF Kids
<1>5. \E e \in Slots : Leads(Kids, s, e) /\ node[e].child = NULL
  <2>1. CASE Path(s)
    BY <2>1 DEF Path, Kin
  <2>2. CASE node[s].child = NULL
    BY <2>2, KinGoesOn DEF Kin
  <2> QED
    BY <2>1, <2>2
<1> HIDE DEF Walk
<1>6. /\ \E w : Walk(w)
      /\ \A w : Walk(w) => Met(w) = Kin(s)
  <2>1. PICK e \in Slots : Leads(Kids, s, e) /\ node[e]["child"] = NULL
    BY <1>1, <1>5
  <2> QED
    BY <1>2, <1>4, <2>1, AlongMeets DEF Kin
<1> DEFINE w == CHOOSE v : Walk(v)
<1>7. Met(w) = Kin(s)
  BY <1>6
<1>8. ChildrenOf(s) = Met(w)
  BY DEF ChildrenOf, Met, Walk
<1> QED
  BY <1>7, <1>8

\* All that holds as long as no path was followed with a node missing.
Sound == /\ PoolInv /\ ListsInv /\ TilesInv /\ StartInv /\ ChildInv
         /\ LinkInv /\ PathInv /\ ChainInv

\* GetSuccessors goes on skipping the tile of the parent of n: the parent is not
\* freed and given another tile in the meantime.
BackInv == Ordered /\ pc = "generate" => back = ParentTile(n)

SearchInv == TypeInv /\ Phases /\ (~spoilt => Sound /\ BackInv)

\* The parts that are about a call in progress say nothing between two calls.
LEMMA NoCall ==
  ASSUME pc \notin {"generate", "relax"}
  PROVE  Pending = {} /\ Current = {} /\ Waiting = {} /\ Reached = open \cup closed
         /\ Inner = closed /\ Front = open
BY DEF Pending, Current, Waiting, Reached, Inner, Front

\* The phases of a request are entered and left as they should be.
LEMMA NextPhases == TypeInv /\ Phases /\ [Next]_vars => Phases'
<1> SUFFICES ASSUME TypeInv, Phases, [Next]_vars PROVE Phases'
  OBVIOUS
<1> USE DEF Phases
<1>1. CASE UNCHANGED vars
  BY <1>1 DEF vars, locals
<1>2. CASE Start
  <2> PICK start \in Starts, goal \in Goals : SetStartAndGoalStates(start, goal)
    BY <1>2 DEF Start
  <2>1. mStart' \in Slots /\ mGoal' \in Slots
    <3>1. free \in Seq(Slots)
      BY DEF TypeInv, TypeOK
    <3>2. Allocated(free) \in Pointers /\ Allocated(AfterAlloc(free)) \in Pointers
      BY <3>1, AllocType
    <3> QED
      BY <3>2 DEF SetStartAndGoalStates, Pointers
  <2> QED
    BY <2>1 DEF SetStartAndGoalStates, locals
<1>3. CASE Cancel \/ ReadSolution \/ LoadMap
  BY <1>3 DEF Cancel, CancelSearch, ReadSolution, GetSolutionStart, GetSolutionNext,
              LoadMap, locals
<1>4. CASE Free
  BY <1>4 DEF Free, FreeSolutionNodes, HasSolution, Enter, locals, TypeInv, TypeOK, Pointers
<1>5. CASE FreeSolutionNode
  <2>1. n \in Slots /\ node[n].child \in Pointers /\ pc = "freeSolution"
    BY <1>5, NodeType DEF FreeSolutionNode, TypeInv, TypeOK, Pointers
  <2>2. state = "SUCCEEDED" /\ state' = state /\ mStart \in Slots
    BY <1>5, <2>1 DEF FreeSolutionNode, TypeInv, TypeOK, States, NULL, Slots, Elements
  <2>3. CASE n = mGoal
    BY <1>5, <2>2, <2>3 DEF FreeSolutionNode, Return
  <2>4. CASE n # mGoal
    BY <1>5, <2>1, <2>2, <2>4 DEF FreeSolutionNode
  <2> QED
    BY <2>3, <2>4
<1>6. CASE GiveUp
  BY <1>6 DEF GiveUp, Enter
<1>7. ASSUME NEW s \in Slots, ReachGoal(s) PROVE Phases'
  BY <1>7 DEF ReachGoal, Enter
<1>8. ASSUME NEW s \in Slots, Expand(s) PROVE Phases'
  BY <1>8 DEF Expand, Enter
<1>9. CASE AddSuccessor
  BY <1>9 DEF AddSuccessor, TypeInv, TypeOK
<1>10. CASE SuccessorsGenerated
  BY <1>10 DEF SuccessorsGenerated, Enter
<1>11. CASE Relax
  BY <1>11 DEF Relax, TypeInv, TypeOK
<1>12. CASE Expanded
  BY <1>12 DEF Expanded, Return, TypeInv, NodesKnown
<1>13. CASE LinkParent
  BY <1>13 DEF LinkParent, Enter, TypeInv, NodesKnown
<1>14. CASE FreeUnusedOpen \/ FreeUnusedClosed
  BY <1>14 DEF FreeUnusedOpen, FreeUnusedClosed, locals
<1>15. CASE Succeed
  BY <1>15 DEF Succeed, Return
<1>16. CASE FreeAllListed
  BY <1>16 DEF FreeAllListed, locals
<1>17. CASE Fail
  BY <1>17 DEF Fail, Return
<1> QED
  BY <1>1, <1>2, <1>3, <1>4, <1>5, <1>6, <1>7, <1>8, <1>9, <1>10, <1>11, <1>12, <1>13,
     <1>14, <1>15, <1>16, <1>17 DEF Next, SearchStep, Working, Done

-----------------------------------------------------------------------------
(* The pool under the steps.                                               *)

\* What a step does to the set H of nodes that are out, next to the free list.
PoolAfter(H) == Distinct(free') /\ count' + Len(free') = MaxNodes /\ Live' = H

\* A step that leaves the pool alone.
LEMMA PoolKept ==
  ASSUME PoolInv, UNCHANGED <<free, count>> PROVE PoolAfter(Held)
BY DEF PoolInv, PoolAfter, Live

\* A node that is out is given back to a list of free nodes.
LEMMA PoolReturned ==
  ASSUME NEW list \in Seq(Slots), NEW c \in Int, Distinct(list),
         c + Len(list) = MaxNodes, NEW s \in Slots, s \notin Listed(list)
  PROVE  /\ Distinct(AfterFree(list, s)) /\ AfterFree(list, s) \in Seq(Slots)
         /\ (c - 1) + Len(AfterFree(list, s)) = MaxNodes
         /\ Listed(AfterFree(list, s)) = Listed(list) \cup {s}
<1>1. AfterFree(list, s) \in Seq(Slots)
  BY AfterFreeType
<1>2. /\ Listed(AfterFree(list, s)) = Listed(list) \cup {s}
      /\ Distinct(AfterFree(list, s))
      /\ Len(list) \in Nat /\ Len(AfterFree(list, s)) = Len(list) + 1
  BY GivenToPool
<1>3. (c - 1) + Len(AfterFree(list, s)) = MaxNodes
  <2>1. \A m \in Nat : c + m = MaxNodes => (c - 1) + (m + 1) = MaxNodes
    BY MaxNodesAssumption
  <2> QED
    BY <1>2, <2>1
<1> QED
  BY <1>1, <1>2, <1>3

\* A step that frees a node that is out.
LEMMA PoolGiven ==
  ASSUME TypeInv, PoolInv, NEW s \in Slots, s \in Held, FreeNode(s)
  PROVE  PoolAfter(Held \ {s})
<1>1. /\ free \in Seq(Slots) /\ count \in Int /\ Distinct(free)
      /\ count + Len(free) = MaxNodes /\ Slots \ Listed(free) = Held
  BY DEF TypeInv, TypeOK, PoolInv, Live
<1>2. free' = AfterFree(free, s) /\ count' = count - 1
  BY DEF FreeNode
<1>3. s \notin Listed(free)
  BY <1>1
<1>4. /\ Distinct(free') /\ (count - 1) + Len(free') = MaxNodes
      /\ Listed(free') = Listed(free) \cup {s}
  BY <1>1, <1>2, <1>3, PoolReturned
<1> QED
  BY <1>1, <1>2, <1>4 DEF PoolAfter, Live

\* A node is taken from a list of free nodes; another may have been before.
LEMMA PoolTaken ==
  ASSUME NEW list \in Seq(Slots), NEW c \in Int, NEW H, Distinct(list),
         c + Len(list) = MaxNodes, Slots \ Listed(list) = H, Allocated(list) # NULL
  PROVE  /\ Allocated(list) \in Slots \ H
         /\ Distinct(AfterAlloc(list)) /\ AfterAlloc(list) \in Seq(Slots)
         /\ (c + 1) + Len(AfterAlloc(list)) = MaxNodes
         /\ Slots \ Listed(AfterAlloc(list)) = H \cup {Allocated(list)}
<1>1. Allocated(list) \in Slots /\ AfterAlloc(list) \in Seq(Slots)
  BY AllocType DEF Pointers
<1>2. /\ Allocated(list) \in Listed(list)
      /\ Listed(AfterAlloc(list)) = Listed(list) \ {Allocated(list)}
      /\ Distinct(AfterAlloc(list))
      /\ Len(list) \in Nat /\ Len(AfterAlloc(list)) = Len(list) - 1
  BY TakenFromPool
<1>3. (c + 1) + Len(AfterAlloc(list)) = MaxNodes
  <2>1. \A m \in Nat : c + m = MaxNodes => (c + 1) + (m - 1) = MaxNodes
    BY MaxNodesAssumption
  <2> QED
    BY <1>2, <2>1
<1> QED
  BY <1>1, <1>2, <1>3

\* Outside of the expansions little is claimed.
LEMMA NotSearching == ~Searching => StartInv /\ ChildInv /\ ChainInv
BY DEF StartInv, ChildInv, ChainInv, Ordered

-----------------------------------------------------------------------------
(* Between requests.                                                       *)

\* Nothing is searched or kept, and every node is free.
Idle == /\ state # "SEARCHING" /\ mStart = NULL /\ pc = "ready"
        /\ open = {} /\ closed = {}
        /\ Distinct(free) /\ count + Len(free) = MaxNodes /\ Live = {}

\* Then all that is claimed of a search holds.
LEMMA IdleIsSound == Idle => Sound
<1> SUFFICES ASSUME Idle PROVE Sound
  OBVIOUS
<1>1. /\ Pending = {} /\ Current = {} /\ Waiting = {} /\ Reached = {} /\ Inner = {} /\ Front = {}
  BY NoCall DEF Idle
<1>2. Held = {} /\ ~HasSolution
  BY DEF Held, HasSolution, Idle
<1>3. PoolInv
  BY <1>2 DEF Idle, PoolInv
<1>4. ListsInv /\ TilesInv
  BY <1>1 DEF Idle, ListsInv, TilesInv
<1>5. StartInv /\ ChildInv /\ LinkInv /\ PathInv /\ ChainInv
  BY <1>2 DEF Idle, StartInv, ChildInv, LinkInv, PathInv, ChainInv, Ordered, Searching
<1> QED
  BY <1>3, <1>4, <1>5 DEF Sound

\* At first nothing is searched.
LEMMA InitIdle == Init => Idle /\ Phases
<1> SUFFICES ASSUME Init PROVE Idle /\ Phases
  OBVIOUS
<1>1. Idle
  <2>1. Distinct(free) /\ Listed(free) = Slots /\ Len(free) = MaxNodes /\ count = 0
    BY AllOfPool DEF Init
  <2>2. Live = {} /\ count + Len(free) = MaxNodes
    BY <2>1, MaxNodesAssumption DEF Live
  <2> QED
    BY <2>1, <2>2 DEF Init, Idle
<1>2. Phases
  BY DEF Init, Phases
<1> QED
  BY <1>1, <1>2

\* A search starts with its start node in the open list, and a goal node.
LEMMA StartSound ==
  ASSUME TypeInv, Phases, Sound, Start
  PROVE  Sound'
<1> PICK start \in Starts, goal \in Goals : SetStartAndGoalStates(start, goal)
  BY DEF Start
<1> DEFINE first == Allocated(free)
           rest == AfterAlloc(free)
           second == Allocated(rest)
<1>1. /\ pc = "ready" /\ state # "SEARCHING" /\ mStart = NULL
      /\ open = {} /\ closed = {}
      /\ Live = {}
  <2>1. Held = {}
    BY DEF Start, SetStartAndGoalStates, Held, HasSolution
  <2> QED
    BY <2>1 DEF Start, SetStartAndGoalStates, Sound, ListsInv, PoolInv
<1>2. /\ first \in Slots \ {} /\ Distinct(rest) /\ rest \in Seq(Slots)
      /\ (count + 1) + Len(rest) = MaxNodes
      /\ Slots \ Listed(rest) = {} \cup {first}
  <2>1. free \in Seq(Slots) /\ count \in Int /\ Distinct(free) /\ count + Len(free) = MaxNodes
        /\ Slots \ Listed(free) = {} /\ Allocated(free) # NULL
    BY <1>1 DEF TypeInv, TypeOK, Sound, PoolInv, Live, SetStartAndGoalStates
  <2> QED
    BY <2>1, PoolTaken
<1>3. /\ second \in Slots \ {first} /\ Distinct(AfterAlloc(rest))
      /\ (count + 1 + 1) + Len(AfterAlloc(rest)) = MaxNodes
      /\ Slots \ Listed(AfterAlloc(rest)) = {first} \cup {second}
  <2>1. count + 1 \in Int /\ second # NULL /\ Slots \ Listed(rest) = {first}
    BY <1>2 DEF TypeInv, TypeOK, SetStartAndGoalStates
  <2> HIDE DEF first, second, rest
  <2>2. second = Allocated(rest)
    BY DEF second
  <2> QED
    BY <1>2, <2>1, <2>2, PoolTaken
<1>4. /\ mStart' = first /\ mGoal' = second /\ free' = AfterAlloc(rest)
      /\ count' = count + 2 /\ open' = {first} /\ closed' = {}
      /\ state' = "SEARCHING" /\ pc' = "ready" /\ RefMap' = RefMap
  BY <1>1 DEF SetStartAndGoalStates, locals
<1>5. node'[first] = NewNode(start) /\ node'[second] = NewNode(goal)
  <2>1. node' = [node EXCEPT ![first] = NewNode(start), ![second] = NewNode(goal)]
    BY DEF SetStartAndGoalStates
  <2>2. node \in [Slots -> Nodes]
    BY DEF TypeInv, TypeOK
  <2> HIDE DEF first, second, rest
  <2> QED
    BY <1>2, <1>3, <2>1, <2>2
<1> HIDE DEF first, second, rest
<1>6. /\ node'[first].tile = start /\ node'[first].parent = NULL
      /\ node'[first].child = NULL /\ node'[first].g = 0
      /\ node'[second].tile = goal /\ node'[second].child = NULL
  BY <1>5 DEF NewNode
<1>7. /\ Pending' = {} /\ Current' = {} /\ Waiting' = {} /\ Reached' = {first}
      /\ Inner' = {} /\ Front' = {first}
  BY <1>4 DEF Pending, Current, Waiting, Reached, Inner, Front
<1>8. Held' = {first, second} /\ ~HasSolution'
  BY <1>4, <1>7 DEF Held, HasSolution
<1>9. PoolInv'
  <2>1. count' + Len(free') = MaxNodes
    <3>1. count \in Int
      BY DEF TypeInv, TypeOK
    <3>2. count + 1 + 1 = count + 2
      BY <3>1
    <3> QED
      BY <1>3, <1>4, <3>2
  <2> QED
    BY <1>3, <1>4, <1>8, <2>1 DEF PoolInv, Live
<1>10. ListsInv'
  BY <1>2, <1>3, <1>4, <1>7 DEF ListsInv
<1>11. TilesInv'
  BY <1>4, <1>6, <1>7 DEF TilesInv, Tile
<1>12. StartInv'
  BY <1>4, <1>6, <1>7 DEF StartInv
<1>13. ChildInv'
  BY <1>4, <1>6, <1>7 DEF ChildInv
<1>14. LinkInv' /\ PathInv'
  BY <1>4, <1>8 DEF LinkInv, PathInv
<1>15. ChainInv'
  <2>1. CostsBounded'
    <3>1. 0 <= Wall * MaxNodes
      BY MaxNodesAssumption DEF Wall
    <3> QED
      BY <1>6, <1>7, <3>1 DEF CostsBounded
  <2>2. DescendantsFirst'
    BY <1>7 DEF DescendantsFirst
  <2>3. CurrentIsBest' /\ CurrentIsLinked'
    BY <1>4 DEF CurrentIsBest, CurrentIsLinked
  <2>4. UnlinkedReplaced'
    BY <1>4, <1>7 DEF UnlinkedReplaced
  <2> QED
    BY <2>1, <2>2, <2>3, <2>4 DEF ChainInv
<1> QED
  BY <1>9, <1>10, <1>11, <1>12, <1>13, <1>14, <1>15 DEF Sound

-----------------------------------------------------------------------------
(* The end of a search.                                                    *)

\* A step that changes none of the variables the invariant is about.
LEMMA UnchangedSound ==
  ASSUME Sound, UNCHANGED <<RefMap, pool, node, lists, state, mStart, mGoal, locals, dropped>>
  PROVE  Sound'
<1> USE DEF pool, lists, locals
<1>1. /\ Live' = Live /\ Held' = Held /\ Pending' = Pending /\ Current' = Current
      /\ Reached' = Reached /\ Waiting' = Waiting /\ HasSolution' = HasSolution
      /\ Searching' = Searching /\ Inner' = Inner /\ Front' = Front /\ Ordered' = Ordered
  BY DEF Live, Held, Pending, Current, Reached, Waiting, HasSolution, Searching, Kin, Kids,
         Inner, Front, Ordered, Tile
<1>2. Links' = Links
  BY <1>1 DEF Links, Linked, StepCost, Tile
<1>3. PoolInv' /\ ListsInv' /\ StartInv' /\ ChildInv'
  <2>1. PoolInv'
    BY <1>1 DEF Sound, PoolInv
  <2>2. ListsInv'
    BY <1>1 DEF Sound, ListsInv
  <2>3. CASE ~Searching
    BY <1>1, <2>1, <2>2, <2>3 DEF StartInv, ChildInv
  <2>4. CASE Searching
    <3>1. StartInv'
      BY <1>1, <2>4 DEF Sound, StartInv, Tile
    <3>2. ChildInv'
      BY <1>1, <2>4 DEF Sound, ChildInv
    <3> QED
      BY <2>1, <2>2, <3>1, <3>2
  <2> QED
    BY <2>3, <2>4
<1>4. TilesInv'
  BY <1>1 DEF Sound, TilesInv, Tile
<1>5. LinkInv'
  BY <1>1, <1>2 DEF Sound, LinkInv, Path, Kin, Kids, Under, Linked, StepCost, Tile
<1>6. PathInv'
  BY <1>1 DEF Sound, PathInv, Path, Kin, Kids
<1>7. ChainInv'
  <2>1. CASE ~Ordered
    BY <1>1, <2>1 DEF ChainInv
  <2>2. CASE Ordered
    <3>1. /\ CostsBounded /\ DescendantsFirst /\ CurrentIsBest
          /\ CurrentIsLinked /\ UnlinkedReplaced
      BY <2>2 DEF Sound, ChainInv
    <3>2. CostsBounded' /\ DescendantsFirst'
      BY <1>1, <1>2, <3>1 DEF CostsBounded, DescendantsFirst, Under, f, Tile
    <3>3. CurrentIsBest' /\ CurrentIsLinked'
      BY <1>1, <1>2, <3>1 DEF CurrentIsBest, CurrentIsLinked, Under, Linked, StepCost, f, Tile
    <3>4. UnlinkedReplaced'
      BY <1>1, <1>2, <3>1 DEF UnlinkedReplaced, Replaces, Coming, Under, Linked, StepCost, f, Tile
    <3> QED
      BY <3>2, <3>3, <3>4 DEF ChainInv
  <2> QED
    BY <2>1, <2>2
<1> QED
  BY <1>3, <1>4, <1>5, <1>6, <1>7 DEF Sound

\* Cancelling and reading change nothing of it.
LEMMA ReadingSound ==
  ASSUME Sound, Cancel \/ ReadSolution PROVE Sound'
<1>1. UNCHANGED <<RefMap, pool, node, lists, state, mStart, mGoal, locals, dropped>>
  BY DEF Cancel, CancelSearch, ReadSolution, GetSolutionStart, GetSolutionNext, history
<1> QED
  BY <1>1, UnchangedSound

\* Another map is put under a kept solution.
LEMMA LoadMapSound ==
  ASSUME Sound, LoadMap PROVE Sound'
<1> USE DEF pool, lists, locals, history
<1>1. /\ pc = "ready" /\ state # "SEARCHING"
      /\ UNCHANGED <<pool, node, lists, state, mStart, mGoal, locals, dropped>>
  BY DEF LoadMap
<1>2. /\ Live' = Live /\ Held' = Held /\ HasSolution' = HasSolution
      /\ Reached' = Reached /\ Waiting' = Waiting /\ Pending' = {} /\ Pending = {}
      /\ Current' = Current
  BY <1>1 DEF Live, Held, Pending, Current, Reached, Waiting, HasSolution, Kin, Kids
<1>3. PoolInv' /\ ListsInv' /\ TilesInv'
  BY <1>1, <1>2 DEF Sound, PoolInv, ListsInv, TilesInv
<1>4. StartInv' /\ ChildInv' /\ ChainInv' /\ LinkInv'
  BY <1>1 DEF StartInv, ChildInv, ChainInv, Ordered, Searching, LinkInv
<1>5. PathInv'
  BY <1>1, <1>2 DEF Sound, PathInv, Path, Kin, Kids
<1> QED
  BY <1>3, <1>4, <1>5 DEF Sound

\* Giving up starts to free all nodes.
LEMMA GiveUpSound ==
  ASSUME Phases, Sound, GiveUp PROVE Sound'
<1> USE DEF pool, lists, locals, history
<1>1. /\ pc = "ready" /\ state = "SEARCHING" /\ pc' = "freeAll"
      /\ UNCHANGED <<pool, node, lists, state, mStart, mGoal>>
  BY DEF GiveUp, Enter
<1>2. /\ Pending = {} /\ Current = {} /\ Waiting = {} /\ Reached = open \cup closed
      /\ Pending' = {} /\ Current' = {} /\ Waiting' = {} /\ Reached' = open \cup closed
  BY <1>1 DEF Pending, Current, Reached, Waiting
<1>3. /\ Held = open \cup closed \cup {mGoal} /\ Held' = open \cup closed \cup {mGoal}
      /\ ~HasSolution'
  BY <1>1, <1>2 DEF Held, HasSolution
<1>4. PoolInv'
  BY <1>1, <1>3 DEF Sound, PoolInv, Live
<1>5. ListsInv' /\ TilesInv'
  BY <1>1, <1>2 DEF Sound, ListsInv, TilesInv, Tile
<1>6. StartInv' /\ ChildInv' /\ ChainInv' /\ LinkInv' /\ PathInv'
  BY <1>1, <1>3 DEF StartInv, ChildInv, ChainInv, Ordered, Searching, LinkInv, PathInv
<1> QED
  BY <1>4, <1>5, <1>6 DEF Sound

\* The nodes of the lists are freed one by one.
LEMMA FreeAllListedSound ==
  ASSUME TypeInv, Phases, Sound, FreeAllListed PROVE Sound'
<1> USE DEF pool, lists, locals, history
<1> DEFINE s == Some(IF open # {} THEN open ELSE closed)
<1>1. /\ pc = "freeAll" /\ state = "SEARCHING"
      /\ open' = open \ {s} /\ closed' = IF open # {} THEN closed ELSE closed \ {s}
      /\ FreeNode(s)
      /\ UNCHANGED <<node, succ, state, mStart, mGoal, pc, n, k>>
  BY DEF FreeAllListed, TypeInv, NodesKnown
<1>2. s \in open \cup closed /\ (open # {} => s \in open)
  BY SomeType DEF FreeAllListed
<1> HIDE DEF s
<1>3. /\ Pending = {} /\ Current = {} /\ Waiting = {} /\ Reached = open \cup closed
      /\ Pending' = {} /\ Current' = {} /\ Waiting' = {} /\ Reached' = open' \cup closed'
  BY <1>1 DEF Pending, Current, Reached, Waiting
<1>4. /\ Held = open \cup closed \cup {mGoal} /\ Held' = open' \cup closed' \cup {mGoal}
      /\ ~HasSolution'
  BY <1>1, <1>3 DEF Held, HasSolution
<1>5. open \cap closed = {} /\ mGoal \notin open \cup closed
  BY <1>1, <1>3 DEF Sound, ListsInv
<1>6. Held' = Held \ {s}
  BY <1>1, <1>2, <1>4, <1>5
<1>7. PoolAfter(Held \ {s})
  <2>1. s \in Slots /\ s \in Held /\ PoolInv
    BY <1>2, <1>4 DEF TypeInv, TypeOK, Sound
  <2> QED
    BY <1>1, <2>1, PoolGiven
<1>8. PoolInv'
  BY <1>6, <1>7 DEF PoolInv, PoolAfter
<1>9. ListsInv'
  BY <1>1, <1>3, <1>5 DEF Sound, ListsInv
<1>10. TilesInv'
  <2>1. Reached' \subseteq Reached
    BY <1>1, <1>3
  <2> QED
    BY <1>1, <1>3, <2>1 DEF Sound, TilesInv, Tile
<1>11. StartInv' /\ ChildInv' /\ ChainInv' /\ LinkInv' /\ PathInv'
  BY <1>1, <1>4 DEF StartInv, ChildInv, ChainInv, Ordered, Searching, LinkInv, PathInv
<1> QED
  BY <1>8, <1>9, <1>10, <1>11 DEF Sound

\* At last the goal node is freed, and every node is free.
LEMMA FailSound ==
  ASSUME TypeInv, Phases, Sound, Fail PROVE Sound'
<1> USE DEF pool, lists, locals, history
<1>1. /\ pc = "freeAll" /\ state = "SEARCHING" /\ open = {} /\ closed = {} /\ mGoal \in Slots
      /\ FreeNode(mGoal) /\ mStart' = NULL /\ state' = "FAILED" /\ pc' = "ready"
      /\ open' = {} /\ closed' = {}
  BY DEF Fail, Return, TypeInv, NodesKnown
<1>2. Pending = {} /\ Current = {}
  BY <1>1 DEF Pending, Current
<1>3. Held = {mGoal}
  BY <1>1, <1>2 DEF Held, HasSolution
<1>4. PoolAfter(Held \ {mGoal})
  BY <1>1, <1>3, PoolGiven DEF Sound
<1>5. Idle'
  BY <1>1, <1>3, <1>4 DEF Idle, PoolAfter
<1> QED
  BY <1>5, IdleIsSound, PTL

-----------------------------------------------------------------------------
(* A found path.                                                           *)

\* What a step of the loop that sets the child pointers does: the path is longer by p.
LEMMA LinkParentIs ==
  ASSUME TypeInv, Phases, Sound, LinkParent, NEW p, p = node[n].parent
  PROVE  /\ p \in closed /\ p \in Slots /\ p # mGoal /\ p \notin Kin(n)
         /\ n \in Slots /\ mGoal \in Slots /\ mStart \in Slots /\ mStart # mGoal
         /\ n' = p /\ pc' = IF p = mStart THEN "freeUnused" ELSE "link"
         /\ node'[p].child = n
         /\ \A x \in Slots : x # p => node'[x].child = node[x].child
         /\ \A x \in Slots : node'[x].parent = node[x].parent /\ node'[x].g = node[x].g
                             /\ node'[x].tile = node[x].tile
         /\ Kin(n) \subseteq Slots /\ Kin(p)' = Kin(n) \cup {p}
<1> USE DEF pool, lists, locals, history
<1>1. /\ pc = "link" /\ state = "SEARCHING" /\ n \in Slots /\ mGoal \in Slots /\ p # NULL
      /\ node' = [node EXCEPT ![p].child = n]
      /\ n' = p /\ pc' = IF p = mStart THEN "freeUnused" ELSE "link"
      /\ UNCHANGED <<RefMap, free, count, open, closed, succ, state, mStart, mGoal>>
  BY DEF LinkParent, Enter, TypeInv, NodesKnown
<1>2. /\ p \in closed /\ p \in Slots
      /\ \A e \in Slots : Under(p, e) => (e = mStart \/ Linked(e)) /\ node[e].child = NULL
      /\ Path(n) /\ Kin(n) \ {mGoal} \subseteq closed
      /\ \A x \in open \cup closed : node[x].child # NULL <=> x \in Kin(n)
  BY <1>1 DEF Sound, LinkInv, TypeInv, TypeOK
<1>3. /\ node'[p].child = n
      /\ \A x \in Slots : x # p => node'[x].child = node[x].child
      /\ \A x \in Slots : node'[x].parent = node[x].parent /\ node'[x].g = node[x].g
                          /\ node'[x].tile = node[x].tile
  BY <1>1, <1>2 DEF TypeInv, TypeOK, Nodes
<1>4. /\ Pending = {} /\ Current = {} /\ Waiting = {} /\ Reached = open \cup closed
      /\ Pending' = {} /\ Current' = {} /\ Waiting' = {} /\ Reached' = open \cup closed
      /\ Inner = closed /\ Inner' = closed
  BY <1>1 DEF Pending, Current, Reached, Waiting, Inner
<1>5. mGoal \notin open \cup closed /\ mStart # mGoal /\ mStart \in Slots /\ p # mGoal
  BY <1>1, <1>2, <1>4 DEF Sound, ListsInv, Phases, NULL, Slots, Elements
<1>6. p \notin Kin(n) /\ node[p].child = NULL
  BY <1>2, <1>5, UnderSelf
<1>7. n \in Kin(n) /\ Kin(n) \subseteq Slots
  BY <1>1, KinGoesOn
\* the path is longer by p
<1>8. ASSUME NEW x \in Slots, NEW y \in Slots
      PROVE  <<x, y>> \in Kids' <=> (x = p /\ y = n) \/ (x # p /\ node[x].child = y)
  <2>1. <<x, y>> \in Slots \X Slots /\ <<x, y>>[1] = x /\ <<x, y>>[2] = y
    OBVIOUS
  <2>2. <<x, y>> \in Kids' <=> node'[x].child = y
    BY <2>1 DEF Kids, Arrows
  <2> QED
    BY <1>3, <2>2
<1>9. Kin(p)' = Kin(n) \cup {p}
  <2>1. ASSUME NEW x \in Slots, Leads(Kids', p, x) PROVE x \in Kin(n) \cup {p}
    <3>1. Kin(n) \cup {p} \in SUBSET Slots
      BY <1>2, <1>7
    <3>2. ASSUME NEW u \in Slots, NEW v \in Slots, u \in Kin(n) \cup {p}, <<u, v>> \in Kids'
          PROVE  v \in Kin(n) \cup {p}
      BY <1>1, <1>7, <1>8, <3>2, KinGoesOn
    <3> QED
      BY <2>1, <3>1, <3>2 DEF Leads
  <2>2. ASSUME NEW x \in Kin(n) PROVE Leads(Kids', p, x)
    <3> SUFFICES ASSUME NEW S \in SUBSET Slots, p \in S,
                        \A u, v \in Slots : u \in S /\ <<u, v>> \in Kids' => v \in S
                 PROVE  x \in S
      BY DEF Leads
    <3>1. n \in S
      BY <1>1, <1>2, <1>8
    <3>2. \A u \in S : node[u].child \in Slots => node[u].child \in S
      <4> SUFFICES ASSUME NEW u \in S, node[u].child \in Slots PROVE node[u].child \in S
        OBVIOUS
      <4>1. CASE u = p
        BY <1>6, <4>1 DEF Slots, Elements, NULL
      <4>2. CASE u # p
        BY <1>8, <4>2
      <4> QED
        BY <4>1, <4>2
    <3> QED
      BY <1>1, <3>1, <3>2, KinWithin
  <2>3. Leads(Kids', p, p)
    BY <1>2, LeadsSelf
  <2>4. Kin(p)' = {x \in Slots : Leads(Kids', p, x)}
    BY DEF Kin
  <2> QED
    BY <1>2, <1>7, <2>1, <2>2, <2>3, <2>4
<1> QED
  BY <1>1, <1>2, <1>3, <1>5, <1>6, <1>7, <1>9

\* Going back along the parents a node gets the child pointer that leads to the
\* path of those met before.
LEMMA LinkParentSound ==
  ASSUME TypeInv, Phases, Sound, LinkParent PROVE Sound'
<1> USE DEF pool, lists, locals, history
<1> PICK p : p = node[n].parent
  OBVIOUS
<1>1. /\ pc = "link" /\ state = "SEARCHING" /\ n \in Slots /\ mGoal \in Slots /\ p # NULL
      /\ node' = [node EXCEPT ![p].child = n]
      /\ n' = p /\ pc' = IF p = mStart THEN "freeUnused" ELSE "link"
      /\ UNCHANGED <<RefMap, free, count, open, closed, succ, state, mStart, mGoal>>
  BY DEF LinkParent, Enter, TypeInv, NodesKnown
<1>2. /\ p \in closed /\ p \in Slots
      /\ \A e \in Slots : Under(p, e) => (e = mStart \/ Linked(e)) /\ node[e].child = NULL
      /\ Path(n) /\ Kin(n) \ {mGoal} \subseteq closed
      /\ \A x \in open \cup closed : node[x].child # NULL <=> x \in Kin(n)
  BY <1>1 DEF Sound, LinkInv, TypeInv, TypeOK
<1>3. /\ node'[p].child = n
      /\ \A x \in Slots : x # p => node'[x].child = node[x].child
      /\ \A x \in Slots : node'[x].parent = node[x].parent /\ node'[x].g = node[x].g
                          /\ node'[x].tile = node[x].tile
  BY <1>1, <1>2 DEF TypeInv, TypeOK, Nodes
<1>4. /\ Pending = {} /\ Current = {} /\ Waiting = {} /\ Reached = open \cup closed
      /\ Pending' = {} /\ Current' = {} /\ Waiting' = {} /\ Reached' = open \cup closed
      /\ Inner = closed /\ Inner' = closed
  BY <1>1 DEF Pending, Current, Reached, Waiting, Inner
<1>5. mGoal \notin open \cup closed /\ mStart # mGoal /\ mStart \in Slots /\ p # mGoal
  BY <1>1, <1>2, <1>4 DEF Sound, ListsInv, Phases, NULL, Slots, Elements
<1>6. p \notin Kin(n) /\ node[p].child = NULL
  BY <1>2, <1>5, UnderSelf
<1>7. n \in Kin(n) /\ Kin(n) \subseteq Slots
  BY <1>1, KinGoesOn
<1>9. Kin(p)' = Kin(n) \cup {p}
  BY LinkParentIs
<1>10. Path(p)'
  <2>1. mGoal' \in Kin(p)' /\ node'[mGoal'].child = NULL
    BY <1>1, <1>2, <1>3, <1>5, <1>9 DEF Path
  <2>2. ASSUME NEW x \in Kin(p)'
        PROVE  /\ x # mGoal' => node'[x].child # NULL
               /\ node'[x].child # p
               /\ \A y \in Kin(p)' : node'[x].child = node'[y].child /\ x # y
                                        => node'[x].child = NULL
    <3>1. \A y \in Kin(n) : y # p /\ node'[y].child = node[y].child
      BY <1>3, <1>6, <1>7
    <3>2. \A y \in Kin(n) : node[y].child # n /\ node[y].child # p
      BY <1>1, <1>2, <1>6, <1>7, KinGoesOn DEF Path
    <3>3. n # NULL /\ n # p
      BY <1>1, <1>6, <1>7 DEF Slots, Elements, NULL
    <3>4. CASE x = p
      BY <1>3, <1>9, <3>1, <3>2, <3>3, <3>4
    <3>5. CASE x \in Kin(n)
      BY <1>1, <1>2, <1>3, <1>9, <3>1, <3>2, <3>3, <3>5 DEF Path
    <3> QED
      BY <1>9, <3>4, <3>5
  <2> QED
    BY <2>1, <2>2 DEF Path
<1>11. \A x \in open \cup closed : node'[x].child # NULL <=> x \in Kin(p)'
  <2>1. n # NULL /\ open \cup closed \subseteq Slots
    BY <1>1 DEF Slots, Elements, NULL, TypeInv, TypeOK
  <2> QED
    BY <1>2, <1>3, <1>9, <2>1
<1>12. PoolInv'
  <2>1. Held = open \cup closed \cup {mGoal}
    BY <1>1, <1>4 DEF Held, HasSolution
  <2>2. Held' = open \cup closed \cup {mGoal}
    BY <1>1, <1>2, <1>4, <1>9 DEF Held, HasSolution
  <2> QED
    BY <1>1, <2>1, <2>2 DEF Sound, PoolInv, Live
<1>13. ListsInv'
  BY <1>1, <1>4 DEF Sound, ListsInv
<1>14. TilesInv'
  <2>1. open \cup closed \subseteq Slots
    BY DEF TypeInv, TypeOK
  <2> QED
    BY <1>1, <1>3, <1>4, <2>1 DEF Sound, TilesInv, Tile
<1>15. StartInv' /\ ChildInv' /\ ChainInv'
  BY <1>1 DEF StartInv, ChildInv, ChainInv, Ordered, Searching
<1>16. PathInv'
  BY <1>1, <1>10, <1>11 DEF PathInv, HasSolution
<1>17. LinkInv'
  <2> SUFFICES ASSUME p # mStart PROVE LinkInv'
    BY <1>1 DEF LinkInv
  <2>1. Linked(p)
    BY <1>2, UnderSelf
  <2> PICK q : q = node[p].parent
    OBVIOUS
  <2>2. q \in closed /\ q \in Slots /\ Under(p, q) /\ node[q].g < node[p].g
    BY <1>2, <1>4, <2>1, LinkedParent DEF Linked
  <2>3. ASSUME NEW x \in Slots PROVE Linked(x)' <=> Linked(x)
    <3>1. closed \subseteq Slots
      BY DEF TypeInv, TypeOK
    <3> QED
      BY <1>1, <1>3, <1>4, <3>1 DEF Linked, StepCost, Tile
  <2>4. Links' = Links
    BY <1>3, <2>3 DEF Links
  <2>5. ASSUME NEW e \in Slots, Leads(Links, q, e)
        PROVE  (e = mStart \/ Linked(e)) /\ node[e].child = NULL /\ e # p
    <3>1. Under(q, e) /\ Under(p, e)
      BY <1>2, <2>2, <2>5, UnderThrough DEF Under
    <3>2. e # p
      <4>1. e = q \/ node[e].g < node[q].g
        BY <2>2, <3>1, UnderIs
      <4>2. node[e].g \in Nat /\ node[q].g \in Nat /\ node[p].g \in Nat
        BY <1>2, <2>2, NodeType
      <4> QED
        BY <2>2, <4>1, <4>2
    <3> QED
      BY <1>2, <3>1, <3>2
  <2>6. node'[n'].parent = q
    BY <1>1, <1>2, <1>3
  <2>7. \A e \in Slots : Under(q, e)' => (e = mStart' \/ Linked(e)') /\ node'[e].child = NULL
    BY <1>1, <1>3, <2>3, <2>4, <2>5 DEF Under
  <2>8. Kin(p)' \ {mGoal} \subseteq closed
    BY <1>2, <1>9
  <2> QED
    BY <1>1, <1>10, <1>11, <2>2, <2>6, <2>7, <2>8 DEF LinkInv, Under
<1> QED
  BY <1>12, <1>13, <1>14, <1>15, <1>16, <1>17 DEF Sound

\* Of the listed nodes those that are not on the path are freed.
LEMMA FreeUnusedSound ==
  ASSUME TypeInv, Phases, Sound, NEW s \in Slots, s \in open \cup closed,
         pc = "freeUnused", pc' = pc,
         open' = open \ {s}, closed' = closed \ {s},
         IF node[s].child = NULL THEN FreeNode(s) ELSE UNCHANGED pool,
         UNCHANGED <<RefMap, node, succ, state, mStart, mGoal, n, k>>
  PROVE  Sound'
<1> USE DEF pool, lists, locals, history
<1>1. state = "SEARCHING" /\ mStart \in Slots /\ mGoal \in Slots
  BY DEF TypeInv, NodesKnown, Phases
<1>2. /\ Pending = {} /\ Current = {} /\ Waiting = {} /\ Reached = open \cup closed
      /\ Pending' = {} /\ Current' = {} /\ Waiting' = {} /\ Reached' = open' \cup closed'
  BY <1>1 DEF Pending, Current, Reached, Waiting
<1>3. open \cap closed = {} /\ mGoal \notin open \cup closed
  BY <1>1, <1>2 DEF Sound, ListsInv
<1>4. /\ Held = open \cup closed \cup Kin(mStart) \cup {mGoal}
      /\ Held' = open' \cup closed' \cup Kin(mStart) \cup {mGoal}
      /\ ~HasSolution' /\ Kids' = Kids
  BY <1>1, <1>2 DEF Held, HasSolution, Kin, Kids
<1>5. node[s].child # NULL <=> s \in Kin(mStart)
  BY DEF Sound, PathInv
<1>6. PoolInv'
  <2>1. CASE node[s].child = NULL
    <3>1. Held' = Held \ {s}
      BY <1>3, <1>4, <1>5, <2>1
    <3>2. PoolAfter(Held \ {s})
      BY <1>4, <2>1, PoolGiven DEF Sound
    <3> QED
      BY <3>1, <3>2 DEF PoolInv, PoolAfter
  <2>2. CASE node[s].child # NULL
    <3>1. Held' = Held
      BY <1>4, <1>5, <2>2
    <3> QED
      BY <2>2, <3>1 DEF Sound, PoolInv, Live
  <2> QED
    BY <2>1, <2>2
<1>7. ListsInv'
  BY <1>1, <1>2, <1>3 DEF Sound, ListsInv
<1>8. TilesInv'
  BY <1>1, <1>2 DEF Sound, TilesInv, Tile
<1>9. StartInv' /\ ChildInv' /\ ChainInv' /\ LinkInv'
  BY DEF StartInv, ChildInv, ChainInv, Ordered, Searching, LinkInv
<1>10. PathInv'
  <2>1. Path(mStart)
    BY DEF Sound, PathInv
  <2>2. Path(mStart)'
    BY <1>4, <2>1 DEF Path, Kin
  <2>3. \A x \in open' \cup closed' : node'[x].child # NULL <=> x \in Kin(mStart)'
    BY <1>4 DEF Sound, PathInv, Kin
  <2> QED
    BY <1>4, <2>2, <2>3 DEF PathInv
<1> QED
  BY <1>6, <1>7, <1>8, <1>9, <1>10 DEF Sound

\* One node of the open list.
LEMMA FreeUnusedOpenSound ==
  ASSUME TypeInv, Phases, Sound, FreeUnusedOpen PROVE Sound'
<1> PICK s : s = Some(open)
  OBVIOUS
<1>1. s \in open /\ s \in Slots
  BY SomeType DEF FreeUnusedOpen, TypeInv, TypeOK
<1>2. state = "SEARCHING" /\ pc = "freeUnused"
  BY DEF FreeUnusedOpen, TypeInv, NodesKnown
<1>3. closed \ {s} = closed
  BY <1>1 DEF Sound, ListsInv
<1>4. /\ pc = "freeUnused" /\ pc' = pc /\ open' = open \ {s} /\ closed' = closed
      /\ IF node[s].child = NULL THEN FreeNode(s) ELSE UNCHANGED pool
      /\ UNCHANGED <<RefMap, node, succ, state, mStart, mGoal, n, k>>
  BY DEF FreeUnusedOpen, locals
<1> QED
  BY <1>1, <1>3, <1>4, FreeUnusedSound

\* One node of the closed list.
LEMMA FreeUnusedClosedSound ==
  ASSUME TypeInv, Phases, Sound, FreeUnusedClosed PROVE Sound'
<1> PICK s : s = Some(closed)
  OBVIOUS
<1>1. s \in closed /\ s \in Slots
  BY SomeType DEF FreeUnusedClosed, TypeInv, TypeOK
<1>2. open \ {s} = open
  BY <1>1 DEF Sound, ListsInv
<1>3. /\ pc = "freeUnused" /\ pc' = pc /\ open' = open /\ closed' = closed \ {s}
      /\ IF node[s].child = NULL THEN FreeNode(s) ELSE UNCHANGED pool
      /\ UNCHANGED <<RefMap, node, succ, state, mStart, mGoal, n, k>>
  BY DEF FreeUnusedClosed, locals
<1> QED
  BY <1>1, <1>2, <1>3, FreeUnusedSound

\* What is left is the path, or the start node and the goal node.
LEMMA SucceedSound ==
  ASSUME TypeInv, Phases, Sound, Succeed PROVE Sound'
<1> USE DEF pool, lists, locals, history
<1>1. /\ pc = "freeUnused" /\ state = "SEARCHING" /\ open = {} /\ closed = {}
      /\ mStart \in Slots /\ mStart # NULL
      /\ state' = "SUCCEEDED" /\ pc' = "ready"
      /\ UNCHANGED <<RefMap, free, count, node, open, closed, mStart, mGoal>>
  BY DEF Succeed, Return, TypeInv, NodesKnown, Phases, NULL, Slots, Elements
<1>2. /\ Pending' = {} /\ Current' = {} /\ Waiting' = {} /\ Reached' = {}
  BY <1>1 DEF Pending, Current, Reached, Waiting
<1>3. Kids' = Kids
  BY <1>1 DEF Kids
<1>4. Held = Kin(mStart) \cup {mGoal} /\ Held' = Kin(mStart) \cup {mGoal}
  BY <1>1, <1>3 DEF Held, HasSolution, Kin
<1>5. PoolInv'
  BY <1>1, <1>4 DEF Sound, PoolInv, Live
<1>6. ListsInv' /\ TilesInv'
  BY <1>1, <1>2 DEF Sound, ListsInv, TilesInv
<1>7. StartInv' /\ ChildInv' /\ ChainInv' /\ LinkInv'
  BY <1>1 DEF StartInv, ChildInv, ChainInv, Ordered, Searching, LinkInv
<1>8. PathInv'
  BY <1>1, <1>3 DEF Sound, PathInv, Path, Kin
<1> QED
  BY <1>5, <1>6, <1>7, <1>8 DEF Sound

\* Freeing a solution that is a path begins at its start; one that is none is the
\* start node and the goal node.
LEMMA FreeSound ==
  ASSUME TypeInv, Phases, Sound, Free PROVE Sound'
<1> USE DEF pool, lists, locals, history
<1>1. /\ pc = "ready" /\ state = "SUCCEEDED" /\ mStart \in Slots /\ mGoal \in Slots
      /\ HasSolution /\ mStart # mGoal /\ mStart # NULL
      /\ open = {} /\ closed = {} /\ open' = {} /\ closed' = {}
      /\ UNCHANGED <<RefMap, node, succ, state, mGoal>>
  BY DEF Free, FreeSolutionNodes, HasSolution, Sound, ListsInv, TypeInv, TypeOK, NodesKnown,
         Pointers
<1>2. Held = Kin(mStart) \cup {mGoal}
  BY <1>1 DEF Held
<1>3. CASE node[mStart].child # NULL
  <2>1. pc' = "freeSolution" /\ n' = mStart /\ UNCHANGED <<free, count, mStart>>
    BY <1>3 DEF Free, FreeSolutionNodes, Enter
  <2>2. Path(mStart) /\ Kids' = Kids
    BY <1>1, <1>3 DEF Sound, PathInv, Kids
  <2>3. Held' = Held
    BY <1>2, <2>1, <2>2 DEF Held, Kin, Path
  <2>4. /\ Pending' = {} /\ Current' = {} /\ Waiting' = {} /\ Reached' = {}
    BY <1>1, <2>1 DEF Pending, Current, Reached, Waiting
  <2>5. PoolInv'
    BY <2>1, <2>3 DEF Sound, PoolInv, Live
  <2>6. ListsInv' /\ TilesInv'
    BY <1>1, <2>1, <2>4 DEF Sound, ListsInv, TilesInv
  <2>7. StartInv' /\ ChildInv' /\ ChainInv' /\ LinkInv'
    BY <1>1, <2>1 DEF StartInv, ChildInv, ChainInv, Ordered, Searching, LinkInv
  <2>8. PathInv'
    <3>1. Path(mStart)' /\ Path(n)'
      BY <1>1, <2>1, <2>2 DEF Path, Kin
    <3> QED
      BY <1>1, <2>1, <3>1 DEF PathInv
  <2> QED
    BY <2>5, <2>6, <2>7, <2>8 DEF Sound
<1>4. CASE node[mStart].child = NULL
  <2> DEFINE once == AfterFree(free, mStart)
  <2>1. /\ free' = AfterFree(once, mGoal) /\ count' = count - 2 /\ mStart' = NULL
        /\ pc' = "ready"
    BY <1>1, <1>4 DEF Free, FreeSolutionNodes
  <2>2. Kin(mStart) = {mStart}
    BY <1>1, <1>4, KinAlone
  <2>3. /\ free \in Seq(Slots) /\ count \in Int /\ Distinct(free)
        /\ count + Len(free) = MaxNodes /\ Slots \ Listed(free) = {mStart, mGoal}
    BY <1>2, <2>2 DEF TypeInv, TypeOK, Sound, PoolInv, Live
  <2>4. /\ once \in Seq(Slots) /\ Distinct(once) /\ count - 1 \in Int
        /\ (count - 1) + Len(once) = MaxNodes /\ Listed(once) = Listed(free) \cup {mStart}
    BY <1>1, <2>3, PoolReturned
  <2>5. mGoal \notin Listed(once)
    BY <1>1, <2>3, <2>4
  <2> HIDE DEF once
  <2>6. /\ Distinct(AfterFree(once, mGoal)) /\ ((count - 1) - 1) + Len(AfterFree(once, mGoal)) = MaxNodes
        /\ Listed(AfterFree(once, mGoal)) = Listed(once) \cup {mGoal}
    BY <1>1, <2>4, <2>5, PoolReturned
  <2>7. count' + Len(free') = MaxNodes
    <3>1. (count - 1) - 1 = count - 2
      BY <2>3
    <3> QED
      BY <2>1, <2>6, <3>1
  <2>8. Idle'
    BY <1>1, <2>1, <2>3, <2>4, <2>6, <2>7 DEF Idle, Live
  <2> QED
    BY <2>8, IdleIsSound, PTL
<1> QED
  BY <1>3, <1>4

\* The nodes of the path are freed from its start to the goal node.
LEMMA FreeSolutionNodeSound ==
  ASSUME TypeInv, Phases, Sound, FreeSolutionNode PROVE Sound'
<1> USE DEF pool, lists, locals, history
<1>1. /\ pc = "freeSolution" /\ state = "SUCCEEDED" /\ n \in Slots /\ mGoal \in Slots
      /\ mStart \in Slots /\ Path(n) /\ FreeNode(n)
      /\ open = {} /\ closed = {} /\ open' = {} /\ closed' = {}
      /\ UNCHANGED <<RefMap, node, succ, state, mGoal>>
  <2>1. pc = "freeSolution" /\ state = "SUCCEEDED" /\ mGoal \in Slots
    BY DEF FreeSolutionNode, Phases, TypeInv, TypeOK, NodesKnown, States, Slots, Elements, NULL
  <2> QED
    BY <2>1 DEF FreeSolutionNode, Phases, Sound, PathInv, ListsInv
<1>2. Held = Kin(n) /\ n \in Kin(n)
  BY <1>1, KinGoesOn DEF Held
<1>3. PoolAfter(Kin(n) \ {n})
  BY <1>1, <1>2, PoolGiven DEF Sound
<1>4. CASE n = mGoal
  <2>1. mStart' = NULL /\ pc' = "ready"
    BY <1>4 DEF FreeSolutionNode, Return
  <2>2. Kin(n) = {n}
    BY <1>1, <1>4, KinAlone DEF Path
  <2>3. Idle'
    BY <1>1, <1>3, <2>1, <2>2 DEF Idle, PoolAfter
  <2> QED
    BY <2>3, IdleIsSound, PTL
<1>5. CASE n # mGoal
  <2> PICK c : c = node[n].child
    OBVIOUS
  <2>1. n' = c /\ pc' = "freeSolution" /\ mStart' = mStart
    BY <1>1, <1>5 DEF FreeSolutionNode
  <2>2. c \in Slots /\ Path(c) /\ Kin(c) = Kin(n) \ {n}
    BY <1>1, <1>5, PathRest
  <2>3. Kids' = Kids
    BY <1>1 DEF Kids
  <2>4. Held' = Kin(c)
    BY <2>1, <2>3 DEF Held, Kin
  <2>5. PoolInv'
    BY <1>3, <2>2, <2>4 DEF PoolInv, PoolAfter
  <2>6. /\ Pending' = {} /\ Current' = {} /\ Waiting' = {} /\ Reached' = {}
    BY <1>1, <2>1 DEF Pending, Current, Reached, Waiting
  <2>7. ListsInv' /\ TilesInv'
    BY <1>1, <2>1, <2>6 DEF Sound, ListsInv, TilesInv
  <2>8. StartInv' /\ ChildInv' /\ ChainInv' /\ LinkInv'
    BY <1>1, <2>1 DEF StartInv, ChildInv, ChainInv, Ordered, Searching, LinkInv
  <2>9. PathInv'
    <3>1. Path(n)'
      BY <1>1, <2>1, <2>2, <2>3 DEF Path, Kin
    <3>2. HasSolution' => Path(mStart)' \/ node'[mStart'].child = NULL
      BY <1>1, <2>1, <2>3 DEF Sound, PathInv, HasSolution, Path, Kin
    <3> QED
      BY <2>1, <2>2, <3>1, <3>2 DEF PathInv
  <2> QED
    BY <2>5, <2>7, <2>8, <2>9 DEF Sound
<1> QED
  BY <1>4, <1>5

-----------------------------------------------------------------------------
(* The best open node.                                                     *)

\* The order of the chain is there while it is claimed.
LEMMA ChainHolds ==
  ASSUME Sound, Ordered
  PROVE  /\ CostsBounded /\ DescendantsFirst /\ CurrentIsBest /\ CurrentIsLinked
         /\ UnlinkedReplaced
BY DEF Sound, ChainInv

\* All the nodes that the parents of the best open node lead to are linked: one
\* that is not would be replaced by a node that is better.
LEMMA BestIsLinked ==
  ASSUME TypeInv, Phases, Sound, Ordered, pc = "ready", NEW s \in Best,
         NEW e \in Slots, Under(s, e)
  PROVE  e = mStart \/ Linked(e)
<1>1. state = "SEARCHING" /\ s \in open /\ s \in Slots /\ mGoal \in Slots
  BY DEF Ordered, Searching, Best, TypeInv, TypeOK, Phases
<1>2. e \in Reached
  BY <1>1, UnderIs DEF Reached, Inner
<1> SUFFICES ASSUME e # mStart, ~Linked(e) PROVE FALSE
  OBVIOUS
<1>3. PICK x \in Front : \A d \in open : Under(d, e) => f(x) < f(d)
  BY <1>2, ChainHolds DEF UnlinkedReplaced
<1>4. x \in open /\ x \in Slots
  BY NoCall DEF TypeInv, TypeOK
<1>5. f(x) < f(s) /\ f(s) <= f(x)
  BY <1>1, <1>3, <1>4 DEF Best
<1>6. f(x) \in Nat /\ f(s) \in Nat
  BY <1>1, <1>4, TotalType
<1> QED
  BY <1>5, <1>6

\* The best open node is taken out to be expanded.
LEMMA ExpandSound ==
  ASSUME TypeInv, Phases, Sound, NEW s \in Slots, Expand(s) PROVE Sound'
<1> USE DEF pool, lists, locals, history
<1>1. /\ pc = "ready" /\ state = "SEARCHING" /\ s \in open /\ s \in Best
      /\ mGoal \in Slots /\ mStart \in Slots
      /\ open' = open \ {s} /\ succ' = <<>> /\ pc' = "generate" /\ n' = s /\ k' = 1
      /\ UNCHANGED <<RefMap, free, count, node, closed, state, mStart, mGoal, dropped>>
  BY DEF Expand, Enter, Best, Phases
<1>2. /\ Pending = {} /\ Current = {} /\ Waiting = {} /\ Reached = open \cup closed
      /\ Inner = closed /\ Front = open
      /\ Pending' = {} /\ Current' = {s} /\ Waiting' = {} /\ Reached' = Reached
      /\ Inner' = closed \cup {s} /\ Front' = open
  BY <1>1 DEF Pending, Current, Reached, Waiting, Inner, Front
<1>3. PoolInv'
  <2>1. /\ Held = open \cup closed \cup {mGoal} /\ Held' = Held
    BY <1>1, <1>2 DEF Held, HasSolution, Reached
  <2> QED
    BY <1>1, <2>1 DEF Sound, PoolInv, Live
<1>4. ListsInv'
  BY <1>1, <1>2 DEF Sound, ListsInv
<1>5. TilesInv'
  BY <1>1, <1>2 DEF Sound, TilesInv, Tile
<1>6. StartInv'
  BY <1>1, <1>2 DEF Sound, StartInv, Searching, Tile
<1>7. ChildInv'
  BY <1>1, <1>2 DEF Sound, ChildInv, Searching
<1>8. LinkInv' /\ PathInv'
  BY <1>1 DEF LinkInv, PathInv, HasSolution
<1>9. ChainInv'
  <2> SUFFICES ASSUME Ordered'
               PROVE  /\ CostsBounded' /\ DescendantsFirst' /\ CurrentIsBest'
                      /\ CurrentIsLinked' /\ UnlinkedReplaced'
    BY DEF ChainInv
  <2>1. Ordered
    BY <1>1 DEF Ordered, Searching, Tile
  <2>2. /\ CostsBounded /\ DescendantsFirst /\ UnlinkedReplaced
    BY <2>1, ChainHolds
  <2>3. \A x \in Slots : f(x)' = f(x) /\ f(x) \in Nat /\ StepCost(x)' = StepCost(x)
                         /\ Tile(x)' = Tile(x)
    BY <1>1, TotalType DEF f, Tile, StepCost
  <2>4. \A x \in Slots : /\ Linked(x) => Linked(x)'
                         /\ Linked(x)' => Linked(x) \/ node[x].parent = s
    BY <1>1, <1>2 DEF Linked, StepCost, Tile
  <2>5. ASSUME NEW d \in Slots, NEW c \in Slots, Under(d, c)'
        PROVE  Under(d, c) \/ Under(s, c)
    <3>1. \A x, y \in Slots : <<x, y>> \in Links' => <<x, y>> \in Links \/ y = s
      <4> SUFFICES ASSUME NEW x \in Slots, NEW y \in Slots, <<x, y>> \in Links'
                   PROVE  <<x, y>> \in Links \/ y = s
        OBVIOUS
      <4>1. Linked(x)' /\ node'[x].parent = y
        BY DEF Links
      <4> QED
        BY <1>1, <2>4, <4>1, LinksAre
    <3> QED
      BY <2>5, <3>1, LeadsToNew DEF Under
  <2>6. \A x \in open : x \in Slots /\ f(s) <= f(x)
    BY <1>1 DEF Best, TypeInv, TypeOK
  <2>7. closed \subseteq Slots
    BY DEF TypeInv, TypeOK
  <2>8. CostsBounded'
    BY <1>1, <1>2, <2>2 DEF CostsBounded
  <2>9. DescendantsFirst'
    <3> SUFFICES ASSUME NEW c \in closed \cup {s}, NEW d \in open, Under(d, c)', f(d) < f(c),
                        NEW x \in open
                 PROVE  f(x) >= f(c) \/ node[x].g > node[c].g
      BY <1>1, <1>2, <2>3, <2>6, <2>7 DEF DescendantsFirst
    <3>1. c \in Slots /\ d \in Slots /\ x \in Slots
      BY <2>6, <2>7
    <3>2. /\ f(c) \in Nat /\ f(d) \in Nat /\ f(x) \in Nat /\ f(s) \in Nat
          /\ f(s) <= f(d)
      BY <2>3, <2>6, <3>1
    <3>3. c # s
      BY <3>2
    <3>4. CASE Under(d, c)
      BY <1>2, <2>2, <3>3, <3>4 DEF DescendantsFirst
    <3>5. CASE Under(s, c)
      <4>1. f(s) < f(c)
        BY <3>2
      <4> QED
        BY <1>1, <1>2, <2>2, <3>3, <3>5, <4>1 DEF DescendantsFirst
    <3> QED
      BY <2>5, <3>1, <3>4, <3>5
  <2>10. CurrentIsBest'
    BY <1>1, <2>3, <2>6 DEF CurrentIsBest
  <2>11. CurrentIsLinked'
    <3> SUFFICES ASSUME NEW e \in Slots, Under(s, e)' PROVE e = mStart \/ Linked(e)'
      BY <1>1 DEF CurrentIsLinked, Under
    <3>1. Under(s, e)
      BY <2>5
    <3> QED
      BY <1>1, <2>1, <2>4, <3>1, BestIsLinked
  <2>12. UnlinkedReplaced'
    <3> SUFFICES ASSUME NEW e \in Reached, e # mStart, ~Linked(e)'
                 PROVE  \E x \in Front' : Replaces(x, e)' /\ \A d \in open' : Under(d, e)' => f(x)' < f(d)'
      BY <1>1, <1>2 DEF UnlinkedReplaced
    <3>1. e \in Slots /\ ~Linked(e)
      BY <1>2, <2>4, <2>7, <2>6
    <3>2. PICK x \in open : Replaces(x, e) /\ \A d \in open : Under(d, e) => f(x) < f(d)
      BY <1>2, <2>2, <3>1 DEF UnlinkedReplaced
    <3>3. ~Under(s, e)
      <4>1. ~(e = mStart \/ Linked(e))
        BY <3>1
      <4> QED
        BY <1>1, <2>1, <3>1, <4>1, BestIsLinked
    <3>4. \A d \in open' : Under(d, e)' => f(x)' < f(d)'
      BY <1>1, <2>3, <2>5, <2>6, <3>1, <3>2, <3>3
    <3>5. Adjacent(Tile(x), Tile(e)) /\ node[x].g + StepCost(x) < node[e].g
      BY <3>2 DEF Replaces
    <3>6. Replaces(x, e)'
      <4>1. CASE x # s
        BY <1>1, <2>3, <2>6, <3>1, <3>5, <4>1 DEF Replaces
      <4>2. CASE x = s
        <5>1. Coming(Tile(e))'
          <6>1. PICK j \in DOMAIN Moves : Tile(e) = Neighbour(Tile(s), j)
            BY <3>5, <4>2 DEF Adjacent
          <6>2. j >= 1
            BY DEF Moves
          <6> QED
            BY <1>1, <2>3, <3>1, <6>1, <6>2 DEF Coming
        <5> QED
          BY <1>1, <1>2, <2>3, <2>6, <3>1, <3>5, <4>2, <5>1 DEF Replaces
      <4> QED
        BY <4>1, <4>2
    <3> QED
      BY <1>2, <3>4, <3>6
  <2> QED
    BY <2>8, <2>9, <2>10, <2>11, <2>12
<1> QED
  BY <1>3, <1>4, <1>5, <1>6, <1>7, <1>8, <1>9 DEF Sound

\* A goal whose tile can be walked on is within reach of every tile of the map.
LEMMA GoalIsNear ==
  ASSUME TypeInv, Tile(mGoal) \in Goals, NEW s \in Slots, Walkable(RefMap, Tile(s)),
         GoalDistanceEstimate(Tile(s), Tile(mGoal)) < Far
  PROVE  \A tile \in DOMAIN RefMap : GoalDistanceEstimate(tile, Tile(mGoal)) < Far
<1>1. RefMap \in Maps /\ Tile(s) \in DOMAIN RefMap /\ Tile(s) \in Nat \X Nat
  BY WalkableOnMap, MapsAssumption DEF TypeInv, TypeOK
<1>2. Tile(mGoal) \in Int \X Int
  BY TilesAssumption
<1>3. Tile(mGoal) \in Nat \X Nat
  <2> PICK a \in Int, b \in Int : Tile(mGoal) = <<a, b>>
    BY <1>2
  <2> PICK u \in Nat, v \in Nat : Tile(s) = <<u, v>>
    BY <1>1
  <2>1. \A x, y \in Int : AxisDistance(x, y) \in Nat
    BY FarType DEF AxisDistance
  <2>2. AxisDistance(u, a) < Far /\ AxisDistance(v, b) < Far
    <3>1. FloatSum(AxisDistance(u, a), AxisDistance(v, b)) < Far
      BY DEF GoalDistanceEstimate
    <3>2. AxisDistance(u, a) \in Nat /\ AxisDistance(v, b) \in Nat
      BY <2>1
    <3> QED
      BY <3>1, <3>2, FarType DEF FloatSum
  <2>3. a >= 0 /\ b >= 0
    BY <2>2, FarType DEF AxisDistance
  <2> QED
    BY <2>3
<1> QED
  BY <1>1, <1>3, FarAssumption

\* The path to the goal starts with the goal node alone.
LEMMA ReachGoalSound ==
  ASSUME TypeInv, Phases, Sound, NEW s \in Slots, ReachGoal(s), ~spoilt' PROVE Sound'
<1> USE DEF pool, lists, locals, history
<1>1. /\ pc = "ready" /\ state = "SEARCHING" /\ s \in open /\ s \in Best
      /\ mGoal \in Slots /\ mStart \in Slots /\ Tile(s) = Tile(mGoal)
      /\ open' = open \ {s} /\ node' = [node EXCEPT ![mGoal].parent = node[s].parent]
      /\ UNCHANGED <<RefMap, closed, succ, state, mStart, mGoal>>
      /\ ~dropped
  BY DEF ReachGoal, Best, Phases, SameState
<1>2. /\ Pending = {} /\ Current = {} /\ Waiting = {} /\ Reached = open \cup closed
      /\ Inner = closed /\ Front = open
  BY <1>1 DEF Pending, Current, Reached, Waiting, Inner, Front
<1>3. pc' \in {"link", "freeUnused"}
  BY DEF ReachGoal, Enter
<1>4. /\ Pending' = {} /\ Current' = {} /\ Waiting' = {} /\ Reached' = open' \cup closed
      /\ Inner' = closed
  BY <1>1, <1>3 DEF Pending, Current, Reached, Waiting, Inner
<1>5. mGoal \notin open \cup closed /\ mStart # mGoal /\ open \cap closed = {} /\ s # mGoal
  BY <1>1, <1>2 DEF Sound, ListsInv, NULL, Slots, Elements
<1>6. /\ \A x \in Slots : node'[x].child = node[x].child /\ node'[x].tile = node[x].tile
                          /\ node'[x].g = node[x].g
      /\ \A x \in Slots \ {mGoal} : node'[x].parent = node[x].parent
      /\ node'[mGoal].parent = node[s].parent
  BY <1>1 DEF TypeInv, TypeOK, Nodes
<1>7. open \cup closed \subseteq Slots
  BY DEF TypeInv, TypeOK
<1>8. \A x \in open \cup closed \cup {mGoal} : node[x].child = NULL
  BY <1>1, <1>2 DEF Sound, ChildInv, Searching
<1>9. Kids' = Kids
  <2>1. [x \in Slots |-> node'[x].child] = [x \in Slots |-> node[x].child]
    BY <1>6
  <2> QED
    BY <2>1 DEF Kids
<1>10. /\ mStart \in Reached
       /\ mStart \in open => open = {mStart} /\ closed = {}
       /\ \A x \in Reached \ {mStart} : Walkable(RefMap, Tile(x))
  BY <1>1 DEF Sound, StartInv, Searching
<1>11. Held = open \cup closed \cup {mGoal}
  BY <1>1, <1>2 DEF Held, HasSolution
<1>12. ListsInv'
  BY <1>1, <1>4, <1>5 DEF Sound, ListsInv
<1>13. TilesInv'
  BY <1>1, <1>2, <1>4, <1>6, <1>7 DEF Sound, TilesInv, Tile
<1>14. StartInv' /\ ChildInv' /\ ChainInv'
  BY <1>3 DEF StartInv, ChildInv, ChainInv, Ordered, Searching
<1>15. CASE SameState(s, mStart)
  <2>1. pc' = "freeUnused" /\ UNCHANGED <<free, count>>
    BY <1>15 DEF ReachGoal, Enter
  <2>2. s = mStart
    BY <1>1, <1>2, <1>10, <1>15 DEF Sound, TilesInv, SameState
  <2>3. open = {mStart} /\ closed = {} /\ open' = {}
    BY <1>1, <1>10, <2>2
  <2>4. Kin(mStart) = {mStart}
    BY <1>1, <1>8, <2>3, KinAlone
  <2>5. Held' = {mStart, mGoal}
    BY <1>1, <1>9, <2>1, <2>3, <2>4 DEF Held, HasSolution, Kin
  <2>6. PoolInv'
    BY <1>11, <2>1, <2>3, <2>5 DEF Sound, PoolInv, Live
  <2>7. LinkInv'
    BY <2>1 DEF LinkInv
  <2>8. PathInv'
    BY <1>1, <1>6, <1>8, <2>1, <2>3 DEF PathInv, HasSolution
  <2> QED
    BY <1>12, <1>13, <1>14, <2>6, <2>7, <2>8 DEF Sound
<1>16. CASE ~SameState(s, mStart)
  <2>1. pc' = "link" /\ n' = mGoal /\ FreeNode(s)
    BY <1>16 DEF ReachGoal, Enter
  <2>2. s # mStart /\ Walkable(RefMap, Tile(s))
    BY <1>1, <1>2, <1>10, <1>16 DEF SameState
  <2>3. Held' = Held \ {s}
    BY <1>1, <1>4, <1>5, <1>11, <2>1 DEF Held, HasSolution
  <2>4. PoolInv'
    <3>1. PoolAfter(Held \ {s})
      BY <1>1, <1>11, <2>1, PoolGiven DEF Sound
    <3> QED
      BY <2>3, <3>1 DEF PoolInv, PoolAfter
  <2>5. PathInv'
    BY <1>1, <2>1 DEF PathInv, HasSolution
  <2>6. Ordered
    <3>1. Tile(mGoal) \in Goals /\ Tile(mGoal) \in Int \X Int
      BY <1>1, TilesAssumption DEF Sound, TilesInv
    <3>2. GoalDistanceEstimate(Tile(s), Tile(mGoal)) < Far
      <4>1. Tile(s)[1] \in Int /\ Tile(s)[2] \in Int
        BY <1>1, <3>1
      <4>2. \A a \in Int : AxisDistance(a, a) = 0
        BY FarType DEF AxisDistance
      <4>3. FloatSum(0, 0) = 0 /\ 0 < Far
        BY SMT DEF FloatSum, Far
      <4> QED
        BY <1>1, <4>1, <4>2, <4>3 DEF GoalDistanceEstimate
    <3>3. \A tile \in DOMAIN RefMap : GoalDistanceEstimate(tile, Tile(mGoal)) < Far
      BY <1>1, <2>2, <3>1, <3>2, GoalIsNear
    <3> QED
      BY <1>1, <3>3 DEF Ordered, Searching
  <2>7. LinkInv'
    <3> PICK p : p = node[s].parent
      OBVIOUS
    <3>1. Linked(s)
      BY <1>1, <2>2, <2>6, UnderSelf, BestIsLinked
    <3>2. p \in closed /\ p \in Slots /\ Under(s, p) /\ node[p].g < node[s].g
      BY <1>2, <3>1, LinkedParent DEF Linked
    <3>3. ASSUME NEW x \in Slots, x # mGoal PROVE Linked(x)' <=> Linked(x)
      BY <1>1, <1>2, <1>4, <1>6, <1>7, <3>3 DEF Linked, StepCost, Tile
    <3>4. ASSUME NEW e \in Slots, Leads(Links', p, e)
          PROVE  (e = mStart \/ Linked(e)') /\ node'[e].child = NULL
      <4>1. ASSUME NEW x \in Slots, NEW y \in Slots, <<x, y>> \in Links'
            PROVE  /\ y # mGoal
                   /\ (x = mGoal /\ y = p) \/ (x # mGoal /\ <<x, y>> \in Links)
        <5>1. Linked(x)' /\ node'[x].parent = y
          BY <4>1 DEF Links
        <5>2. y \in closed
          BY <1>4, <5>1 DEF Linked
        <5> QED
          BY <1>5, <1>6, <3>3, <5>1, <5>2, LinksAre
      <4>2. Leads(Links, p, e)
        BY <1>1, <1>5, <3>2, <3>4, <4>1, LeadsFromNew
      <4>3. Under(s, e) /\ (e = p \/ node[e].g < node[p].g)
        BY <3>2, <4>2, UnderThrough, UnderIs DEF Under
      <4>4. e # s
        <5>1. node[e].g \in Nat /\ node[s].g \in Nat /\ node[p].g \in Nat
          BY <3>2, NodeType
        <5> QED
          BY <3>2, <4>3, <5>1
      <4>5. e \in closed /\ e # mGoal
        BY <1>2, <1>5, <4>3, <4>4, UnderIs
      <4>6. e = mStart \/ Linked(e)
        BY <1>1, <2>6, <4>3, BestIsLinked
      <4> QED
        BY <1>6, <1>8, <3>3, <4>5, <4>6
    <3>5. Kin(mGoal)' = {mGoal}
      <4>1. Kin(mGoal) = {mGoal}
        BY <1>1, <1>8, KinAlone
      <4> QED
        BY <1>1, <1>9, <4>1 DEF Kin
    <3>6. node'[mGoal].child = NULL /\ mGoal # NULL
      BY <1>1, <1>6, <1>8 DEF NULL, Slots, Elements
    <3>7. Path(n)' /\ Kin(n)' = {mGoal}
      BY <1>1, <2>1, <3>5, <3>6 DEF Path, Kin
    <3>8. \A x \in open' \cup closed' : node'[x].child = NULL /\ x # mGoal
      BY <1>1, <1>5, <1>6, <1>7, <1>8
    <3>9. node'[n'].parent = p /\ p \in closed'
      BY <1>1, <1>6, <2>1, <3>2
    <3> QED
      BY <1>1, <3>4, <3>7, <3>8, <3>9 DEF LinkInv, Under
  <2> QED
    BY <1>12, <1>13, <1>14, <2>4, <2>5, <2>7 DEF Sound
<1> QED
  BY <1>15, <1>16

-----------------------------------------------------------------------------
(* The successors of the node that is expanded.                            *)

\* The state of an expansion.
LEMMA Expanding ==
  ASSUME TypeInv, Phases, pc \in {"generate", "relax"}
  PROVE  /\ state = "SEARCHING" /\ Searching /\ n \in Slots /\ mGoal \in Slots /\ mStart \in Slots
         /\ ~HasSolution /\ k \in Nat /\ k >= 1
         /\ Current = {n} /\ Reached = open \cup closed \cup {n}
         /\ Inner = closed \cup {n} /\ Front = open \cup {n}
         /\ open \subseteq Slots /\ closed \subseteq Slots /\ Reached \subseteq Slots
         /\ succ \in Seq(Slots) /\ DOMAIN succ = 1 .. Len(succ) /\ Len(succ) \in Nat
         /\ Held = open \cup closed \cup Pending \cup {n} \cup {mGoal}
<1>1. state = "SEARCHING" /\ n \in Slots
  BY DEF TypeInv, NodesKnown
<1>2. succ \in Seq(Slots) /\ DOMAIN succ = 1 .. Len(succ) /\ Len(succ) \in Nat
  BY LenProperties DEF TypeInv, TypeOK
<1> QED
  BY <1>1, <1>2 DEF Phases, Searching, HasSolution, Current, Reached, Inner, Front, TypeInv,
                    TypeOK, Held

\* The moves are numbered from 1 to 8.
LEMMA MovesAre == DOMAIN Moves = 1 .. 8
BY DEF Moves

\* The relaxation begins with the first of the successors.
LEMMA SuccessorsGeneratedSound ==
  ASSUME TypeInv, Phases, Sound, SuccessorsGenerated PROVE Sound'
<1> USE DEF pool, lists, locals, history
<1>1. /\ pc = "generate" /\ k \notin DOMAIN Moves /\ pc' = "relax" /\ n' = n /\ k' = 1
      /\ UNCHANGED <<RefMap, free, count, node, open, closed, succ, state, mStart, mGoal, dropped>>
  BY DEF SuccessorsGenerated, Enter
<1>2. /\ state = "SEARCHING" /\ n \in Slots /\ mGoal \in Slots /\ k \in Nat /\ k >= 1
      /\ DOMAIN succ = 1 .. Len(succ)
  BY <1>1, Expanding
<1>3. /\ Pending' = Pending /\ Current' = Current /\ Waiting' = Waiting
      /\ Reached' = Reached /\ Inner' = Inner /\ Front' = Front
  BY <1>1, <1>2 DEF Pending, Current, Reached, Waiting, Inner, Front
<1>4. PoolInv'
  <2>1. Held' = Held
    BY <1>1, <1>2, <1>3 DEF Held, HasSolution
  <2> QED
    BY <1>1, <2>1 DEF Sound, PoolInv, Live
<1>5. ListsInv'
  BY <1>1, <1>3 DEF Sound, ListsInv
<1>6. TilesInv'
  BY <1>1, <1>3 DEF Sound, TilesInv, Tile
<1>7. StartInv' /\ ChildInv'
  BY <1>1, <1>2, <1>3 DEF Sound, StartInv, ChildInv, Searching, Tile
<1>8. LinkInv' /\ PathInv'
  BY <1>1, <1>2 DEF LinkInv, PathInv, HasSolution
<1>9. ChainInv'
  <2> SUFFICES ASSUME Ordered'
               PROVE  /\ CostsBounded' /\ DescendantsFirst' /\ CurrentIsBest'
                      /\ CurrentIsLinked' /\ UnlinkedReplaced'
    BY DEF ChainInv
  <2>1. Ordered
    BY <1>1 DEF Ordered, Searching, Tile
  <2>2. CostsBounded /\ DescendantsFirst /\ CurrentIsBest /\ CurrentIsLinked /\ UnlinkedReplaced
    BY <2>1, ChainHolds
  <2>3. Links' = Links /\ \A x \in Slots : Linked(x)' = Linked(x)
    BY <1>1, <1>3 DEF Links, Linked, StepCost, Tile
  <2>4. \A x : f(x)' = f(x) /\ Tile(x)' = Tile(x) /\ StepCost(x)' = StepCost(x)
    BY <1>1 DEF f, Tile, StepCost
  <2>5. CostsBounded' /\ DescendantsFirst'
    BY <1>1, <1>3, <2>2, <2>3, <2>4 DEF CostsBounded, DescendantsFirst, Under
  <2>6. CurrentIsBest'
    <3>1. \A x \in open : x \in Slots
      BY DEF TypeInv, TypeOK
    <3> QED
      BY <1>1, <2>2, <2>3, <2>4, <3>1 DEF CurrentIsBest
  <2>7. CurrentIsLinked'
    BY <1>1, <2>2, <2>3 DEF CurrentIsLinked, Under
  <2>8. UnlinkedReplaced'
    <3>1. \A tile : Coming(tile) => Coming(tile)'
      BY <1>1, <1>2, <1>3, <2>4, MovesAre DEF Coming
    <3>2. \A x, e : Replaces(x, e) => Replaces(x, e)'
      BY <1>1, <1>3, <2>4, <3>1 DEF Replaces
    <3>3. Reached \subseteq Slots
      BY <1>1, Expanding
    <3> QED
      BY <1>1, <1>3, <2>2, <2>3, <2>4, <3>2, <3>3 DEF UnlinkedReplaced, Under
  <2> QED
    BY <2>5, <2>6, <2>7, <2>8
<1> QED
  BY <1>4, <1>5, <1>6, <1>7, <1>8, <1>9 DEF Sound

\* No walkable tile is the one that stands for no parent.
LEMMA NoTileIsOutside ==
  ASSUME TypeInv, NEW tile, Walkable(RefMap, tile) PROVE tile # NoTile
<1>1. tile \in DOMAIN RefMap
  BY SMT DEF Walkable, navigation_map, Wall
<1>2. tile \in Nat \X Nat
  BY <1>1, MapsAssumption DEF TypeInv, TypeOK
<1> QED
  BY <1>2 DEF NoTile

\* A tile that is no successor is not one that a node waits to be replaced on.
LEMMA SkippedNotAwaited ==
  ASSUME TypeInv, Phases, Sound, BackInv, Ordered, pc = "generate",
         NEW e \in Reached \ {mStart},
         ~IsSuccessor(Tile(e))
  PROVE  ~(node[n].g + StepCost(n) < node[e].g)
<1>1. n \in Slots /\ n \in Reached /\ Reached \subseteq Slots /\ Searching /\ Inner \subseteq Reached
  <2>1. Inner = closed \cup {n} /\ Reached = open \cup closed \cup {n} /\ n \in Slots
        /\ Reached \subseteq Slots /\ Searching
    BY Expanding
  <2> QED
    BY <2>1
<1>2. Walkable(RefMap, Tile(e)) /\ node[mStart].parent = NULL
  BY <1>1 DEF Sound, StartInv
<1>3. node[n].parent # NULL /\ Tile(node[n].parent) = Tile(e)
  BY <1>2, NoTileIsOutside DEF IsSuccessor, BackInv, ParentTile
<1>4. Linked(n)
  BY <1>1, <1>2, <1>3, ChainHolds, UnderSelf DEF CurrentIsLinked
<1>5. node[n].parent \in Reached /\ node[node[n].parent].g < node[n].g
  BY <1>1, <1>4, LinkedParent DEF Linked
<1>6. node[n].parent = e
  BY <1>1, <1>3, <1>5 DEF Sound, TilesInv, Searching
<1>7. node[e].g \in Nat /\ node[n].g \in Nat /\ StepCost(n) \in Nat
  BY <1>1, NodeType, StepCostType
<1> QED
  BY <1>5, <1>6, <1>7

\* A move that adds no successor.
LEMMA NotAddedSound ==
  ASSUME TypeInv, Phases, Sound, BackInv, pc = "generate", k \in DOMAIN Moves, k' = k + 1,
         UNCHANGED <<RefMap, pool, node, lists, state, mStart, mGoal, pc, n>>,
         dropped => dropped',
         IsSuccessor(Neighbour(Tile(n), k)) => dropped'
  PROVE  Sound'
<1> USE DEF pool, lists, locals, history
<1>1. /\ pc = "generate" /\ pc' = pc /\ n' = n /\ k \in 1 .. 8 /\ k' = k + 1
      /\ UNCHANGED <<RefMap, free, count, node, open, closed, succ, state, mStart, mGoal>>
  BY MovesAre
<1>2. /\ state = "SEARCHING" /\ n \in Slots /\ mGoal \in Slots
      /\ DOMAIN succ = 1 .. Len(succ)
  BY <1>1, Expanding
<1>3. /\ Pending' = Pending /\ Current' = Current /\ Waiting' = Waiting
      /\ Reached' = Reached /\ Inner' = Inner /\ Front' = Front
  BY <1>1, <1>2 DEF Pending, Current, Reached, Waiting, Inner, Front
<1>4. PoolInv'
  <2>1. Held' = Held
    BY <1>1, <1>2, <1>3 DEF Held, HasSolution
  <2> QED
    BY <1>1, <2>1 DEF Sound, PoolInv, Live
<1>5. ListsInv'
  BY <1>1, <1>3 DEF Sound, ListsInv
<1>6. TilesInv'
  BY <1>1, <1>3 DEF Sound, TilesInv, Tile
<1>7. StartInv' /\ ChildInv'
  BY <1>1, <1>2, <1>3 DEF Sound, StartInv, ChildInv, Searching, Tile
<1>8. LinkInv' /\ PathInv'
  BY <1>1, <1>2 DEF LinkInv, PathInv, HasSolution
<1>9. ChainInv'
  <2> SUFFICES ASSUME Ordered'
               PROVE  /\ CostsBounded' /\ DescendantsFirst' /\ CurrentIsBest'
                      /\ CurrentIsLinked' /\ UnlinkedReplaced'
    BY DEF ChainInv
  <2>1. Ordered /\ ~IsSuccessor(Neighbour(Tile(n), k))
    BY <1>1 DEF Ordered, Searching, Tile
  <2>2. CostsBounded /\ DescendantsFirst /\ CurrentIsBest /\ CurrentIsLinked /\ UnlinkedReplaced
    BY <2>1, ChainHolds
  <2>3. Links' = Links /\ \A x \in Slots : Linked(x)' = Linked(x)
    BY <1>1, <1>3 DEF Links, Linked, StepCost, Tile
  <2>4. \A x : f(x)' = f(x) /\ Tile(x)' = Tile(x) /\ StepCost(x)' = StepCost(x)
    BY <1>1 DEF f, Tile, StepCost
  <2>5. CostsBounded' /\ DescendantsFirst'
    BY <1>1, <1>3, <2>2, <2>3, <2>4 DEF CostsBounded, DescendantsFirst, Under
  <2>6. CurrentIsBest'
    <3>1. \A x \in open : x \in Slots
      BY DEF TypeInv, TypeOK
    <3> QED
      BY <1>1, <2>2, <2>3, <2>4, <3>1 DEF CurrentIsBest
  <2>7. CurrentIsLinked'
    BY <1>1, <2>2, <2>3 DEF CurrentIsLinked, Under
  <2>8. UnlinkedReplaced'
    <3>1. ASSUME NEW tile, Coming(tile), tile # Neighbour(Tile(n), k) PROVE Coming(tile)'
      <4>1. \A j \in 1 .. 8 : j >= k /\ j # k => j >= k + 1
        BY <1>1
      <4> QED
        BY <1>1, <1>3, <2>4, <3>1, <4>1, MovesAre DEF Coming
    <3>2. ASSUME NEW e \in Reached \ {mStart}, NEW x \in Front, Replaces(x, e)
          PROVE  Replaces(x, e)'
      <4>1. CASE x \in open
        BY <1>1, <1>3, <2>4, <3>2, <4>1 DEF Replaces
      <4>2. CASE x \notin open
        <5>1. x \in Current /\ x = n
          BY <1>1, <4>2 DEF Front, Current
        <5>2. node[n].g + StepCost(n) < node[e].g /\ Coming(Tile(e))
          BY <3>2, <4>2, <5>1 DEF Replaces
        <5>3. Tile(e) # Neighbour(Tile(n), k)
          BY <1>1, <2>1, <5>2, SkippedNotAwaited
        <5>4. Coming(Tile(e))'
          BY <1>1, <3>1, <5>2, <5>3 DEF Tile
        <5> QED
          BY <1>1, <1>3, <2>4, <3>2, <5>1, <5>4 DEF Replaces
      <4> QED
        BY <4>1, <4>2
    <3>3. Reached \subseteq Slots
      BY <1>1, Expanding
    <3> QED
      BY <1>1, <1>3, <2>2, <2>3, <2>4, <3>2, <3>3 DEF UnlinkedReplaced, Under
  <2> QED
    BY <2>5, <2>6, <2>7, <2>8
<1> QED
  BY <1>4, <1>5, <1>6, <1>7, <1>8, <1>9 DEF Sound

\* What a move that adds a successor does.
LEMMA AddedIs ==
  ASSUME TypeInv, Phases, Sound, AddSuccessor, NEW tile, tile = Neighbour(Tile(n), k),
         IsSuccessor(tile), NEW new, new = Allocated(free), new # NULL
  PROVE  /\ pc = "generate" /\ pc' = pc /\ n' = n /\ k \in 1 .. 8 /\ k' = k + 1
         /\ UNCHANGED <<RefMap, open, closed, state, mStart, mGoal, dropped>>
         /\ new \in Slots \ Held /\ Distinct(free') /\ count' + Len(free') = MaxNodes
         /\ Slots \ Listed(free') = Held \cup {new}
         /\ \A i \in DOMAIN succ : succ[i] \in Slots /\ succ[i] \in Pending
         /\ DOMAIN succ' = 1 .. Len(succ) + 1
         /\ \A i \in DOMAIN succ : i \in DOMAIN succ' /\ succ'[i] = succ[i]
         /\ succ'[Len(succ) + 1] = new
         /\ \A i \in DOMAIN succ' : i \in DOMAIN succ \/ i = Len(succ) + 1
         /\ Pending \subseteq Slots /\ Pending' = Pending \cup {new}
         /\ Waiting = DOMAIN succ /\ Waiting' = DOMAIN succ' /\ Current' = Current
         /\ Reached' = Reached /\ Inner' = Inner /\ Front' = Front
         /\ new \notin Reached \cup Pending \cup {mGoal} /\ new # n
         /\ \A x \in Slots \ {new} : node'[x] = node[x]
         /\ tile \in Int \X Int /\ node'[new] = NewNode(tile) /\ new \in Slots
<1> USE DEF pool, lists, locals, history
<1>1. /\ pc = "generate" /\ pc' = pc /\ n' = n /\ k \in 1 .. 8 /\ k' = k + 1
      /\ free' = AfterAlloc(free) /\ count' = count + 1
      /\ node' = [node EXCEPT ![new] = NewNode(tile)]
      /\ succ' = Append(succ, new)
      /\ UNCHANGED <<RefMap, open, closed, state, mStart, mGoal, dropped>>
  BY MovesAre DEF AddSuccessor
<1>2. /\ state = "SEARCHING" /\ n \in Slots /\ mGoal \in Slots /\ mStart \in Slots
      /\ ~HasSolution /\ Current = {n} /\ Reached = open \cup closed \cup {n}
      /\ Inner = closed \cup {n} /\ Front = open \cup {n} /\ Reached \subseteq Slots
      /\ succ \in Seq(Slots) /\ DOMAIN succ = 1 .. Len(succ) /\ Len(succ) \in Nat
      /\ Held = open \cup closed \cup Pending \cup {n} \cup {mGoal}
  BY <1>1, Expanding
<1>3. /\ new \in Slots \ Held /\ Distinct(free') /\ (count + 1) + Len(free') = MaxNodes
      /\ Slots \ Listed(free') = Held \cup {new}
  <2>1. /\ free \in Seq(Slots) /\ count \in Int /\ Distinct(free)
        /\ count + Len(free) = MaxNodes /\ Slots \ Listed(free) = Held
    BY DEF TypeInv, TypeOK, Sound, PoolInv, Live
  <2> QED
    BY <1>1, <2>1, PoolTaken
<1>4. \A i \in DOMAIN succ : succ[i] \in Slots /\ succ[i] \in Pending
  BY <1>1, <1>2 DEF Pending
<1>5. /\ DOMAIN succ' = 1 .. Len(succ) + 1
      /\ \A i \in DOMAIN succ : i \in DOMAIN succ' /\ succ'[i] = succ[i]
      /\ succ'[Len(succ) + 1] = new
      /\ \A i \in DOMAIN succ' : i \in DOMAIN succ \/ i = Len(succ) + 1
  <2>1. Len(succ') = Len(succ) + 1 /\ succ' \in Seq(Slots)
    BY <1>1, <1>2, <1>3, AppendProperties
  <2>2. DOMAIN succ' = 1 .. Len(succ) + 1
    BY <2>1, LenProperties
  <2>3. /\ \A i \in 1 .. Len(succ) : succ'[i] = succ[i]
        /\ succ'[Len(succ) + 1] = new
    BY <1>1, <1>2, <1>3, AppendProperties
  <2>4. \A m \in Nat : \A i \in 1 .. m : i \in 1 .. m + 1
    OBVIOUS
  <2>5. \A m \in Nat : \A i \in 1 .. m + 1 : i \in 1 .. m \/ i = m + 1
    OBVIOUS
  <2> QED
    BY <1>2, <2>2, <2>3, <2>4, <2>5
<1>6. Pending' = Pending \cup {new}
  <2>1. Pending' = {succ'[i] : i \in DOMAIN succ'} /\ Pending = {succ[i] : i \in DOMAIN succ}
    BY <1>1 DEF Pending
  <2>2. Len(succ) + 1 \in DOMAIN succ'
    BY <1>2, <1>5
  <2> QED
    BY <1>5, <2>1, <2>2
<1>7. /\ Waiting = DOMAIN succ /\ Waiting' = DOMAIN succ' /\ Current' = Current
      /\ Reached' = Reached /\ Inner' = Inner /\ Front' = Front
  BY <1>1 DEF Current, Reached, Waiting, Inner, Front
<1>8. new \notin Reached \cup Pending \cup {mGoal} /\ new # n
  BY <1>2, <1>3
<1>9. \A x \in Slots \ {new} : node'[x] = node[x]
  BY <1>1 DEF TypeInv, TypeOK
<1>10. Tile(n) \in Int \X Int /\ tile \in Int \X Int
  BY <1>1, <1>2, NodeType, NeighbourType, MovesAre
<1>11. node'[new] = NewNode(tile) /\ new \in Slots
  BY <1>1, <1>3 DEF TypeInv, TypeOK
<1>12. Pending \subseteq Slots
  BY <1>1, <1>4 DEF Pending
<1> QED
  BY <1>1, <1>3, <1>4, <1>5, <1>6, <1>7, <1>8, <1>9, <1>10, <1>11, <1>12

\* A move that adds a successor.
LEMMA AddedSound ==
  ASSUME TypeInv, Phases, Sound, AddSuccessor, NEW tile, tile = Neighbour(Tile(n), k),
         IsSuccessor(tile), NEW new, new = Allocated(free), new # NULL
  PROVE  Sound'
<1> USE DEF pool, lists, locals, history
<1>1. /\ pc = "generate" /\ pc' = pc /\ n' = n /\ k \in 1 .. 8 /\ k' = k + 1
      /\ UNCHANGED <<RefMap, open, closed, state, mStart, mGoal, dropped>>
  BY AddedIs
<1>2. /\ state = "SEARCHING" /\ n \in Slots /\ mGoal \in Slots /\ mStart \in Slots
      /\ ~HasSolution /\ Current = {n} /\ Reached = open \cup closed \cup {n}
      /\ Inner = closed \cup {n} /\ Front = open \cup {n} /\ Reached \subseteq Slots
      /\ Held = open \cup closed \cup Pending \cup {n} \cup {mGoal}
  BY <1>1, Expanding
<1>3. /\ new \in Slots \ Held /\ Distinct(free') /\ count' + Len(free') = MaxNodes
      /\ Slots \ Listed(free') = Held \cup {new}
  BY AddedIs
<1>4. \A i \in DOMAIN succ : succ[i] \in Slots /\ succ[i] \in Pending
  BY AddedIs
<1>5. /\ DOMAIN succ' = 1 .. Len(succ) + 1
      /\ \A i \in DOMAIN succ : i \in DOMAIN succ' /\ succ'[i] = succ[i]
      /\ succ'[Len(succ) + 1] = new
      /\ \A i \in DOMAIN succ' : i \in DOMAIN succ \/ i = Len(succ) + 1
  BY AddedIs
<1>6. Pending' = Pending \cup {new} /\ Pending \subseteq Slots
  BY AddedIs
<1>7. /\ Waiting = DOMAIN succ /\ Waiting' = DOMAIN succ' /\ Current' = Current
      /\ Reached' = Reached /\ Inner' = Inner /\ Front' = Front
  BY AddedIs
<1>8. new \notin Reached \cup Pending \cup {mGoal} /\ new # n
  BY AddedIs
<1>9. \A x \in Slots \ {new} : node'[x] = node[x]
  BY AddedIs
<1>10. tile \in Int \X Int
  BY AddedIs
<1>11. node'[new] = NewNode(tile) /\ new \in Slots
  BY AddedIs
<1>12. Pending \subseteq Slots
  BY <1>6
<1>13. PoolInv'
  <2>1. Held' = Held \cup {new}
    BY <1>1, <1>2, <1>6, <1>7 DEF Held, HasSolution, Reached
  <2> QED
    BY <1>1, <1>3, <2>1 DEF PoolInv, Live
<1>14. ListsInv'
  <2>1. \A i, j \in Waiting' : succ'[i] = succ'[j] => i = j
    BY <1>4, <1>5, <1>7, <1>8 DEF Sound, ListsInv
  <2> QED
    BY <1>1, <1>6, <1>7, <1>8, <2>1 DEF Sound, ListsInv
<1>15. TilesInv'
  <2>1. \A x \in Slots \ {new} : Tile(x)' = Tile(x) /\ node'[x].parent = node[x].parent
    BY <1>9 DEF Tile
  <2>2. Tile(new)' = tile /\ node'[new].parent = NULL
    BY <1>11 DEF Tile, NewNode
  <2>3. Walkable(RefMap, tile) /\ Adjacent(Tile(n), tile)
    BY <1>1, MovesAre DEF IsSuccessor, Adjacent
  <2>4. Tile(n)' = Tile(n) /\ Tile(mGoal)' = Tile(mGoal)
    BY <1>1, <1>2, <1>8, <2>1
  <2>5. \A s \in Pending' : /\ Walkable(RefMap, Tile(s))' /\ Adjacent(Tile(n), Tile(s))'
                            /\ node'[s].parent = NULL
    <3>1. Adjacent(Tile(n), tile)
      BY <2>3
    <3>2. ASSUME NEW s \in Pending
          PROVE  /\ Walkable(RefMap, Tile(s))' /\ Adjacent(Tile(n), Tile(s))'
                 /\ node'[s].parent = NULL
      BY <1>1, <1>8, <1>12, <2>1, <2>4, <3>2 DEF Sound, TilesInv, Walkable
    <3>3. /\ Walkable(RefMap, Tile(new))' /\ Adjacent(Tile(n), Tile(new))'
          /\ node'[new].parent = NULL
      BY <1>1, <2>2, <2>3, <2>4 DEF Walkable
    <3> QED
      BY <1>6, <3>2, <3>3
  <2>6. \A s, t \in Reached' : Tile(s)' = Tile(t)' => s = t
    BY <1>2, <1>7, <1>8, <2>1 DEF Sound, TilesInv
  <2>7. Tile(mGoal)' \in Goals
    BY <1>2, <2>4 DEF Sound, TilesInv
  <2> QED
    BY <2>5, <2>6, <2>7 DEF TilesInv
<1>16. StartInv' /\ ChildInv'
  <2>1. \A s \in Reached \cup Pending \cup {mGoal} : node[s].child = NULL /\ s \in Slots
    BY <1>1, <1>2, <1>12 DEF Sound, ChildInv, Searching
  <2>2. node'[new].child = NULL
    BY <1>11 DEF NewNode
  <2>3. ChildInv'
    BY <1>1, <1>6, <1>7, <1>8, <1>9, <2>1, <2>2 DEF ChildInv
  <2>4. \A s \in Reached : node'[s] = node[s] /\ Tile(s)' = Tile(s)
    BY <1>2, <1>8, <1>9 DEF Tile
  <2>5. StartInv'
    BY <1>1, <1>2, <1>7, <2>4 DEF Sound, StartInv, Searching
  <2> QED
    BY <2>3, <2>5
<1>17. LinkInv' /\ PathInv'
  BY <1>1, <1>2 DEF LinkInv, PathInv, HasSolution
<1>18. ChainInv'
  <2> SUFFICES ASSUME Ordered'
               PROVE  /\ CostsBounded' /\ DescendantsFirst' /\ CurrentIsBest'
                      /\ CurrentIsLinked' /\ UnlinkedReplaced'
    BY DEF ChainInv
  <2>3. \A x \in Slots \ {new} :
          node'[x] = node[x] /\ Tile(x)' = Tile(x) /\ f(x)' = f(x) /\ StepCost(x)' = StepCost(x)
    BY <1>1, <1>2, <1>8, <1>9 DEF Tile, f, StepCost
  <2>1. Ordered
    BY <1>1, <1>2, <1>8, <2>3 DEF Ordered, Searching
  <2>2. CostsBounded /\ DescendantsFirst /\ CurrentIsBest /\ CurrentIsLinked /\ UnlinkedReplaced
    BY <2>1, ChainHolds
  <2>4. \A x \in Slots \ {new} : Linked(x)' <=> Linked(x)
    BY <1>2, <1>7, <1>8, <2>3 DEF Linked
  <2>5. ~Linked(new)'
    <3>1. NULL \notin Slots
      BY DEF NULL, Slots, Elements
    <3> QED
      BY <1>2, <1>7, <1>11, <3>1 DEF Linked, NewNode
  <2>6. ASSUME NEW d, NEW c, Under(d, c)' PROVE Under(d, c)
    <3>1. ASSUME NEW x \in Slots, NEW y \in Slots, <<x, y>> \in Links' PROVE <<x, y>> \in Links
      <4>1. Linked(x)' /\ node'[x].parent = y
        BY <3>1 DEF Links
      <4> QED
        BY <2>3, <2>4, <2>5, <4>1, LinksAre
    <3> QED
      BY <2>6, <3>1, LeadsLess DEF Under
  <2>7. Reached \subseteq Slots \ {new} /\ Inner \subseteq Reached /\ Front \subseteq Reached
    BY <1>2, <1>8
  <2>8. CostsBounded'
    BY <1>7, <2>2, <2>3, <2>7 DEF CostsBounded
  <2>9. DescendantsFirst'
    <3> SUFFICES ASSUME NEW c \in Inner, NEW d \in Front, Under(d, c)', f(d)' < f(c)',
                        NEW x \in Front
                 PROVE  f(x)' >= f(c)' \/ node'[x].g > node'[c].g
      BY <1>7 DEF DescendantsFirst
    <3>1. f(d)' = f(d) /\ f(c)' = f(c) /\ f(x)' = f(x) /\ node'[x] = node[x] /\ node'[c] = node[c]
      BY <2>3, <2>7
    <3>2. f(x) >= f(c) \/ node[x].g > node[c].g
      BY <2>2, <2>6, <3>1 DEF DescendantsFirst
    <3> QED
      BY <3>1, <3>2
  <2>10. CurrentIsBest'
    <3>1. n \in Slots \ {new} /\ open \subseteq Slots \ {new}
      BY <1>2, <2>7
    <3> QED
      BY <1>1, <2>2, <2>3, <2>4, <3>1 DEF CurrentIsBest
  <2>11. CurrentIsLinked'
    <3> SUFFICES ASSUME NEW e \in Slots, Under(n, e)' PROVE e = mStart \/ Linked(e)'
      BY <1>1 DEF CurrentIsLinked, Under
    <3>1. Under(n, e)
      BY <1>1, <2>6 DEF Under
    <3>2. e \in Slots \ {new}
      BY <1>2, <2>7, <3>1, UnderIs
    <3> QED
      BY <1>1, <2>2, <2>4, <3>1, <3>2 DEF CurrentIsLinked
  <2>12. UnlinkedReplaced'
    <3> SUFFICES ASSUME NEW e \in Reached, e # mStart, ~Linked(e)'
                 PROVE  \E x \in Front : Replaces(x, e)' /\ \A d \in open : Under(d, e)' => f(x)' < f(d)'
      BY <1>1, <1>7 DEF UnlinkedReplaced
    <3>1. e \in Slots \ {new} /\ ~Linked(e)
      BY <2>4, <2>7
    <3>2. PICK x \in Front : Replaces(x, e) /\ \A d \in open : Under(d, e) => f(x) < f(d)
      BY <2>2, <3>1 DEF UnlinkedReplaced
    <3>3. x \in Slots \ {new} /\ open \subseteq Slots \ {new}
      BY <1>2, <2>7
    <3>4. \A d \in open : Under(d, e)' => f(x)' < f(d)'
      BY <2>3, <2>6, <3>2, <3>3
    <3>5. Adjacent(Tile(x), Tile(e)) /\ node[x].g + StepCost(x) < node[e].g
      BY <3>2 DEF Replaces
    <3>6. Replaces(x, e)'
      <4>1. CASE x \in open
        BY <1>1, <2>3, <3>1, <3>3, <3>5, <4>1 DEF Replaces
      <4>2. CASE x \notin open
        <5>1. x \in Current /\ Coming(Tile(e))
          BY <3>2, <4>2 DEF Replaces
        <5>2. Coming(Tile(e))'
          <6>1. CASE \E j \in DOMAIN Moves : j >= k /\ Tile(e) = Neighbour(Tile(n), j)
            <7> PICK j \in 1 .. 8 : j >= k /\ Tile(e) = Neighbour(Tile(n), j)
              BY <6>1, MovesAre
            <7>1. Tile(n)' = Tile(n) /\ Tile(e)' = Tile(e)
              BY <1>1, <1>2, <1>8, <2>3, <3>1
            <7>2. CASE j = k
              <8>1. Tile(new)' = Tile(e)
                BY <1>11, <7>2 DEF Tile, NewNode
              <8> QED
                BY <1>6, <7>1, <8>1 DEF Coming
            <7>3. CASE j # k
              <8>1. j >= k + 1
                BY <1>1, <7>3
              <8> QED
                BY <1>1, <7>1, <8>1, MovesAre DEF Coming
            <7> QED
              BY <7>2, <7>3
          <6>2. CASE \E s \in Pending : Tile(s) = Tile(e)
            <7> PICK s \in Pending : Tile(s) = Tile(e)
              BY <6>2
            <7>1. Tile(s)' = Tile(e)' /\ s \in Pending'
              BY <1>6, <1>8, <1>12, <2>3, <3>1
            <7> QED
              BY <7>1 DEF Coming
          <6> QED
            BY <5>1, <6>1, <6>2 DEF Coming
        <5> QED
          BY <1>1, <1>7, <2>3, <3>1, <3>3, <3>5, <5>1, <5>2 DEF Replaces
      <4> QED
        BY <4>1, <4>2
    <3> QED
      BY <3>4, <3>6
  <2> QED
    BY <2>8, <2>9, <2>10, <2>11, <2>12
<1> QED
  BY <1>13, <1>14, <1>15, <1>16, <1>17, <1>18 DEF Sound

\* One move of GetSuccessors.
LEMMA AddSuccessorSound ==
  ASSUME TypeInv, Phases, Sound, BackInv, AddSuccessor PROVE Sound'
<1> USE DEF pool, lists, locals, history
<1> PICK tile : tile = Neighbour(Tile(n), k)
  OBVIOUS
<1> PICK new : new = Allocated(free)
  OBVIOUS
<1>1. /\ pc = "generate" /\ k \in DOMAIN Moves /\ k' = k + 1
      /\ UNCHANGED <<RefMap, open, closed, state, mStart, mGoal, pc, n>>
  BY DEF AddSuccessor
<1>2. CASE ~IsSuccessor(tile)
  <2>1. UNCHANGED <<free, count, node, succ, dropped>>
    BY <1>2 DEF AddSuccessor
  <2> QED
    BY <1>1, <1>2, <2>1, NotAddedSound
<1>3. CASE IsSuccessor(tile) /\ new = NULL
  <2>1. UNCHANGED <<free, count, node, succ>> /\ dropped'
    BY <1>3 DEF AddSuccessor
  <2> QED
    BY <1>1, <2>1, NotAddedSound
<1>4. CASE IsSuccessor(tile) /\ new # NULL
  BY <1>4, AddedSound
<1> QED
  BY <1>2, <1>3, <1>4

-----------------------------------------------------------------------------
(* The chain of parents from a node to the start node.                     *)

Parents == Arrows(Pointer("parent"))

\* The link of the parent pointer of a node.
LEMMA ParentsAre ==
  ASSUME NEW x \in Slots, NEW y \in Slots
  PROVE  <<x, y>> \in Parents <=> node[x].parent = y
<1>1. <<x, y>> \in Slots \X Slots /\ <<x, y>>[1] = x /\ <<x, y>>[2] = y
  OBVIOUS
<1>2. node[x]["parent"] = node[x].parent
  BY SMT
<1> QED
  BY <1>1, <1>2 DEF Parents, Arrows, Pointer

\* Every node of the chain of s is linked but for the start node, where it ends.
ChainOf(s) == /\ mStart \in Slots /\ node[mStart].parent = NULL /\ node[mStart].g = 0
              /\ \A e \in Slots : Under(s, e) => e = mStart \/ Linked(e)

\* Such a chain is all that the parent pointers lead to.
LEMMA ChainIsUp ==
  ASSUME TypeInv, NEW s \in Slots, ChainOf(s)
  PROVE  /\ Under(s, mStart)
         /\ \A c \in Slots : Under(s, c) <=> Leads(Parents, s, c)
<1>1. Under(s, mStart)
  <2> DEFINE T == {node[c].g : c \in {e \in Slots : Under(s, e)}}
  <2>1. T \subseteq Nat /\ T # {}
    BY NodeType, UnderSelf
  <2> HIDE DEF T
  <2>2. PICK m \in T : \A y \in T : m <= y
    BY <2>1, LeastNumber
  <2>3. PICK c \in Slots : Under(s, c) /\ node[c].g = m
    BY <2>2 DEF T
  <2>4. ASSUME Linked(c) PROVE FALSE
    <3>1. node[c].parent \in Slots /\ node[node[c].parent].g < m /\ Under(c, node[c].parent)
      BY <2>3, <2>4, LinkedParent
    <3>2. Under(s, node[c].parent)
      BY <2>3, <3>1, UnderThrough
    <3>3. node[node[c].parent].g \in T /\ node[node[c].parent].g \in Nat /\ m \in Nat
      BY <2>1, <2>2, <3>1, <3>2, NodeType DEF T
    <3> QED
      BY <2>2, <3>1, <3>3
  <2> QED
    BY <2>3, <2>4 DEF ChainOf
<1>2. ASSUME NEW c \in Slots, Under(s, c) PROVE Leads(Parents, s, c)
  <2>1. \A x, y \in Slots : <<x, y>> \in Links => <<x, y>> \in Parents
    BY LinksAre, ParentsAre
  <2> QED
    BY <1>2, <2>1, LeadsLess DEF Under
<1>3. ASSUME NEW c \in Slots, Leads(Parents, s, c) PROVE Under(s, c)
  <2> DEFINE S == {e \in Slots : Under(s, e)}
  <2>1. S \in SUBSET Slots /\ s \in S
    BY UnderSelf
  <2>2. ASSUME NEW x \in Slots, NEW y \in Slots, x \in S, <<x, y>> \in Parents PROVE y \in S
    <3>1. node[x].parent = y /\ Under(s, x)
      BY <2>2, ParentsAre
    <3>2. y # NULL
      BY DEF NULL, Slots, Elements
    <3>3. Linked(x)
      BY <3>1, <3>2 DEF ChainOf
    <3>4. Under(s, y)
      BY <3>1, <3>3, LinkedParent, UnderThrough
    <3> QED
      BY <3>4
  <2> HIDE DEF S
  <2>3. c \in S
    BY <1>3, <2>1, <2>2 DEF Leads
  <2> QED
    BY <2>3 DEF S
<1> QED
  BY <1>1, <1>2, <1>3

\* It is what ParentsOf finds.
LEMMA ParentsOfChain ==
  ASSUME TypeInv, NEW s \in Slots, ChainOf(s)
  PROVE  ParentsOf(s) = {c \in Slots : Under(s, c)}
<1> DEFINE Walk(w) ==
      w = [i \in 0 .. MaxNodes |-> IF i = 0 THEN s
                                   ELSE IF w[i - 1] = NULL THEN NULL ELSE node[w[i - 1]].parent]
<1>1. \A x : node[x].parent = node[x]["parent"]
  BY SMT
<1>2. \A w : Walk(w) <=> Along("parent", s, w)
  BY <1>1 DEF Along
<1>3. Leads(Parents, s, mStart) /\ node[mStart]["parent"] = NULL /\ mStart \in Slots
  BY <1>1, ChainIsUp DEF ChainOf
<1> HIDE DEF Walk
<1>4. /\ \E w : Walk(w)
      /\ \A w : Walk(w) => Met(w) = {x \in Slots : Leads(Parents, s, x)}
  BY <1>2, <1>3, AlongMeets DEF Parents
<1> DEFINE w == CHOOSE v : Walk(v)
<1>5. Met(w) = {x \in Slots : Leads(Parents, s, x)}
  BY <1>4
<1>6. ParentsOf(s) = Met(w)
  BY DEF ParentsOf, Met, Walk
<1> QED
  BY <1>5, <1>6, ChainIsUp

\* A node with a chain and a step cost no more than one step from every node.
LEMMA ChainCost ==
  ASSUME TypeInv, NEW s \in Slots, ChainOf(s)
  PROVE  node[s].g + StepCost(s) <= Wall * MaxNodes
<1>0. MaxNodes \in Nat /\ Wall = 9 /\ NULL \notin Slots
  BY MaxNodesAssumption DEF Wall, NULL, Slots, Elements
<1>1. \A x : node[x].parent = node[x]["parent"]
  BY SMT
<1>2. Leads(Parents, s, mStart) /\ node[mStart]["parent"] = NULL /\ mStart \in Slots
  BY <1>1, ChainIsUp DEF ChainOf
<1>3. PICK w : /\ Along("parent", s, w)
               /\ \E i \in 0 .. MaxNodes : w[i] = NULL
               /\ Met(w) = {x \in Slots : Leads(Parents, s, x)}
  BY <1>2, AlongMeets DEF Parents
<1>4. /\ w[0] = s
      /\ \A i \in 1 .. MaxNodes : w[i] = IF w[i - 1] = NULL THEN NULL ELSE node[w[i - 1]].parent
  <2>1. \A i \in 0 .. MaxNodes :
          w[i] = IF i = 0 THEN s
                 ELSE IF w[i - 1] = NULL THEN NULL ELSE node[w[i - 1]].parent
    BY <1>1, <1>3 DEF Along
  <2>2. 0 \in 0 .. MaxNodes /\ \A i \in 1 .. MaxNodes : i \in 0 .. MaxNodes /\ i # 0
    BY <1>0
  <2> QED
    BY <2>1, <2>2
<1>5. \A i \in 0 .. MaxNodes : w[i] # NULL => w[i] \in Slots /\ Under(s, w[i])
  <2>1. \A i \in 0 .. MaxNodes : w[i] # NULL => w[i] \in Met(w)
    BY DEF Met
  <2> QED
    BY <1>3, <2>1, ChainIsUp
<1> DEFINE T == {i \in 0 .. MaxNodes : w[i] = NULL}
<1>6. PICK m \in T : \A i \in T : m <= i
  <2>1. T \subseteq Nat /\ T # {}
    BY <1>0, <1>3
  <2> HIDE DEF T
  <2> QED
    BY <2>1, LeastNumber
<1>7. m \in Nat /\ m <= MaxNodes /\ w[m] = NULL /\ \A i \in 0 .. MaxNodes : i < m => w[i] # NULL
  BY <1>0, <1>6
<1>8. m # 0
  BY <1>0, <1>4, <1>7
<1>9. m - 1 \in 0 .. MaxNodes /\ m - 1 < m /\ m \in 1 .. MaxNodes
  BY <1>0, <1>7, <1>8
<1>10. w[m - 1] = mStart
  <2>1. w[m - 1] # NULL /\ node[w[m - 1]].parent = NULL
    BY <1>4, <1>7, <1>9
  <2>2. w[m - 1] \in Slots /\ Under(s, w[m - 1]) /\ ~Linked(w[m - 1])
    BY <1>0, <1>5, <1>9, <2>1, LinkedParent
  <2> QED
    BY <2>2 DEF ChainOf
<1> DEFINE Bad == {i \in 0 .. MaxNodes : i < m /\ ~(node[s].g <= node[w[i]].g + Wall * i)}
<1>11. Bad = {}
  <2> SUFFICES ASSUME Bad # {} PROVE FALSE
    OBVIOUS
  <2>1. PICK i \in Bad : \A j \in Bad : i <= j
    <3>1. Bad \subseteq Nat
      BY <1>0
    <3> HIDE DEF Bad
    <3> QED
      BY <3>1, LeastNumber
  <2>2. i \in Nat /\ i <= MaxNodes /\ i < m /\ ~(node[s].g <= node[w[i]].g + Wall * i)
    BY <1>0, <2>1
  <2>3. i # 0
    <3>1. node[s].g \in Nat
      BY NodeType
    <3>2. \A g \in Nat : g <= g + Wall * 0
      BY <1>0
    <3> QED
      BY <1>4, <2>2, <3>1, <3>2
  <2>4. i \in 1 .. MaxNodes /\ i - 1 \in 0 .. MaxNodes /\ i - 1 < m /\ i \in 0 .. MaxNodes
        /\ ~(i <= i - 1)
    BY <1>0, <1>7, <2>2, <2>3
  <2>5. node[s].g <= node[w[i - 1]].g + Wall * (i - 1)
    BY <2>1, <2>4
  <2>6. w[i - 1] \in Slots /\ w[i] \in Slots /\ w[i] = node[w[i - 1]].parent /\ Under(s, w[i - 1])
    BY <1>4, <1>5, <1>7, <2>2, <2>4
  <2>7. Linked(w[i - 1])
    BY <1>0, <2>6 DEF ChainOf
  <2>8. node[w[i - 1]].g = node[w[i]].g + StepCost(w[i])
    BY <2>6, <2>7 DEF Linked
  <2>9. /\ StepCost(w[i]) \in 1 .. Wall
        /\ node[w[i - 1]].g \in Nat /\ node[w[i]].g \in Nat /\ node[s].g \in Nat
    BY <2>6, StepCostType, NodeType
  <2>10. \A a, b, c \in Nat : \A d \in 1 .. Wall : \A j \in Nat :
           a <= b + Wall * (j - 1) /\ b = c + d => a <= c + Wall * j
    BY <1>0
  <2> QED
    BY <2>2, <2>5, <2>8, <2>9, <2>10
<1>12. node[s].g <= 0 + Wall * (m - 1)
  BY <1>9, <1>10, <1>11 DEF ChainOf
<1>13. \A a \in Nat : \A d \in 1 .. Wall : a <= 0 + Wall * (m - 1) => a + d <= Wall * MaxNodes
  BY <1>0, <1>7
<1> QED
  BY <1>12, <1>13, NodeType, StepCostType

\* The node that is expanded has a chain.
LEMMA CurrentHasChain ==
  ASSUME TypeInv, Phases, Sound, Ordered, pc \in {"generate", "relax"} PROVE ChainOf(n)
BY Expanding, ChainHolds DEF CurrentIsLinked, ChainOf, Sound, StartInv

-----------------------------------------------------------------------------
(* The loop over the successors.                                           *)

\* The search of a list finds a node of the tile, or there is none.
LEMMA FoundIs ==
  ASSUME NEW list \in SUBSET Slots, NEW tile
  PROVE  \/ Found(list, tile) = NULL /\ \A x \in list : Tile(x) # tile
         \/ Found(list, tile) \in list /\ Tile(Found(list, tile)) = tile
BY DEF Found

\* The successor that is relaxed and what is left of the others.
LEMMA RelaxIs ==
  ASSUME TypeInv, Phases, Sound, Relax, NEW s, s = succ[k]
  PROVE  /\ pc = "relax" /\ pc' = pc /\ n' = n /\ k' = k + 1 /\ k \in DOMAIN succ
         /\ UNCHANGED <<RefMap, succ, state, mStart, mGoal, dropped>>
         /\ s \in Pending /\ Pending \subseteq Slots /\ s \notin Reached \cup {mGoal} /\ s # n
         /\ Pending' = Pending \ {s} /\ Waiting' \subseteq Waiting
         /\ Walkable(RefMap, Tile(s)) /\ Adjacent(Tile(n), Tile(s))
         /\ node[s].parent = NULL /\ node[s].child = NULL
         /\ mStart \in Reached /\ mStart \notin open
<1> USE DEF pool, lists, locals, history
<1>1. /\ pc = "relax" /\ pc' = pc /\ n' = n /\ k' = k + 1 /\ k \in DOMAIN succ
      /\ UNCHANGED <<RefMap, succ, state, mStart, mGoal, dropped>>
  BY DEF Relax
<1>2. /\ state = "SEARCHING" /\ Searching /\ n \in Slots /\ k \in Nat /\ k >= 1
      /\ Reached = open \cup closed \cup {n}
      /\ succ \in Seq(Slots) /\ DOMAIN succ = 1 .. Len(succ) /\ Len(succ) \in Nat
  BY <1>1, Expanding
<1> PICK l \in Nat : l = Len(succ)
  BY <1>2
<1>3. /\ \A i \in k .. l : i \in 1 .. l
      /\ k \in k .. l /\ \A i \in k + 1 .. l : i \in k .. l /\ i # k
      /\ \A i \in k .. l : i = k \/ i \in k + 1 .. l
  BY <1>1, <1>2
<1>4. Waiting = k .. l /\ Waiting' = k + 1 .. l
  BY <1>1 DEF Waiting
<1>5. Pending = {succ[i] : i \in k .. l} /\ Pending' = {succ[i] : i \in k + 1 .. l}
  BY <1>1 DEF Pending
<1>6. s \in Pending /\ Pending \subseteq Slots /\ Waiting' \subseteq Waiting
  BY <1>2, <1>3, <1>4, <1>5
<1>7. Pending' = Pending \ {s}
  <2>1. \A i \in k + 1 .. l : succ[i] # s
    BY <1>3, <1>4 DEF Sound, ListsInv
  <2> QED
    BY <1>3, <1>5, <2>1
<1>8. s \notin Reached \cup {mGoal}
  BY <1>2, <1>6 DEF Sound, ListsInv
<1>9. /\ Walkable(RefMap, Tile(s)) /\ Adjacent(Tile(n), Tile(s))
      /\ node[s].parent = NULL /\ node[s].child = NULL
  BY <1>2, <1>6 DEF Sound, TilesInv, ChildInv
<1>10. mStart \in Reached /\ mStart \notin open
  BY <1>1, <1>2 DEF Sound, StartInv
<1> QED
  BY <1>1, <1>2, <1>6, <1>7, <1>8, <1>9, <1>10

\* A successor is freed when the node of its tile is as good.
LEMMA RelaxFreesSound ==
  ASSUME TypeInv, Phases, Sound, Relax, NEW s, s = succ[k],
         FreeNode(s), UNCHANGED <<node, open, closed>>,
         NEW e \in open \cup closed, Tile(e) = Tile(s),
         node[e].g <= node[n].g + StepCost(n)
  PROVE  Sound'
<1> USE DEF pool, lists, locals, history
<1>1. /\ pc = "relax" /\ pc' = pc /\ n' = n /\ k' = k + 1
      /\ UNCHANGED <<RefMap, succ, state, mStart, mGoal, dropped, node, open, closed>>
      /\ s \in Pending /\ Pending \subseteq Slots /\ s \notin Reached \cup {mGoal} /\ s # n
      /\ Pending' = Pending \ {s} /\ Waiting' \subseteq Waiting
      /\ Adjacent(Tile(n), Tile(s))
  BY RelaxIs
<1>2. /\ state = "SEARCHING" /\ Searching /\ n \in Slots /\ mGoal \in Slots
      /\ ~HasSolution /\ Current = {n} /\ Reached = open \cup closed \cup {n}
      /\ Reached \subseteq Slots
      /\ Held = open \cup closed \cup Pending \cup {n} \cup {mGoal}
  BY <1>1, Expanding
<1>3. /\ Current' = Current /\ Reached' = Reached /\ Inner' = Inner /\ Front' = Front
  BY <1>1 DEF Current, Reached, Inner, Front
<1>4. PoolInv'
  <2>1. Held' = Held \ {s}
    BY <1>1, <1>2, <1>3 DEF Held, HasSolution, Reached
  <2>2. PoolAfter(Held \ {s})
    BY <1>1, <1>2, PoolGiven DEF Sound
  <2> QED
    BY <2>1, <2>2 DEF PoolInv, PoolAfter
<1>5. ListsInv'
  BY <1>1, <1>2, <1>3 DEF Sound, ListsInv
<1>6. TilesInv'
  BY <1>1, <1>3 DEF Sound, TilesInv, Tile
<1>7. StartInv' /\ ChildInv'
  BY <1>1, <1>2, <1>3 DEF Sound, StartInv, ChildInv, Searching, Tile
<1>8. LinkInv' /\ PathInv'
  BY <1>1, <1>2 DEF LinkInv, PathInv, HasSolution
<1>9. ChainInv'
  <2> SUFFICES ASSUME Ordered'
               PROVE  /\ CostsBounded' /\ DescendantsFirst' /\ CurrentIsBest'
                      /\ CurrentIsLinked' /\ UnlinkedReplaced'
    BY DEF ChainInv
  <2>1. Ordered
    BY <1>1 DEF Ordered, Searching, Tile
  <2>2. CostsBounded /\ DescendantsFirst /\ CurrentIsBest /\ CurrentIsLinked /\ UnlinkedReplaced
    BY <2>1, ChainHolds
  <2>3. Links' = Links /\ \A x \in Slots : Linked(x)' = Linked(x)
    BY <1>1, <1>3 DEF Links, Linked, StepCost, Tile
  <2>4. \A x : f(x)' = f(x) /\ Tile(x)' = Tile(x) /\ StepCost(x)' = StepCost(x)
    BY <1>1 DEF f, Tile, StepCost
  <2>5. CostsBounded' /\ DescendantsFirst'
    BY <1>1, <1>3, <2>2, <2>3, <2>4 DEF CostsBounded, DescendantsFirst, Under
  <2>6. CurrentIsBest'
    <3>1. \A x \in open : x \in Slots
      BY DEF TypeInv, TypeOK
    <3> QED
      BY <1>1, <2>2, <2>3, <2>4, <3>1 DEF CurrentIsBest
  <2>7. CurrentIsLinked'
    BY <1>1, <2>2, <2>3 DEF CurrentIsLinked, Under
  <2>8. UnlinkedReplaced'
    <3>1. ASSUME NEW tile, Coming(tile), tile # Tile(s) PROVE Coming(tile)'
      BY <1>1, <2>4, <3>1 DEF Coming
    <3>2. ASSUME NEW a \in Reached \ {mStart}, NEW x \in Front, Replaces(x, a)
          PROVE  Replaces(x, a)'
      <4>1. CASE x \in open
        BY <1>1, <1>3, <2>4, <3>2, <4>1 DEF Replaces
      <4>2. CASE x \notin open
        <5>1. x = n /\ x \in Current
          BY <1>2, <3>2, <4>2 DEF Replaces
        <5>2. Coming(Tile(a)) /\ node[n].g + StepCost(n) < node[a].g
          BY <3>2, <4>2, <5>1 DEF Replaces
        <5>3. Tile(a) # Tile(s)
          <6> SUFFICES ASSUME Tile(a) = Tile(s) PROVE FALSE
            OBVIOUS
          <6>1. a = e
            BY <1>2 DEF Sound, TilesInv
          <6>2. node[e].g \in Nat /\ node[n].g \in Nat /\ StepCost(n) \in Nat
            BY <1>2, NodeType, StepCostType
          <6> QED
            BY <5>2, <6>1, <6>2
        <5>4. Coming(Tile(a))'
          BY <1>1, <3>1, <5>2, <5>3 DEF Tile
        <5> QED
          BY <1>1, <1>3, <2>4, <3>2, <5>1, <5>4 DEF Replaces
      <4> QED
        BY <4>1, <4>2
    <3> QED
      BY <1>1, <1>2, <1>3, <2>2, <2>3, <2>4, <3>2 DEF UnlinkedReplaced, Under
  <2> QED
    BY <2>5, <2>6, <2>7, <2>8
<1> QED
  BY <1>4, <1>5, <1>6, <1>7, <1>8, <1>9 DEF Sound

\* The successor s takes the place of the node old of its tile, which costs more, or
\* there is none (NULL).
TakesPlace(s, old) ==
  /\ s \in Slots /\ s \notin Reached \cup {mGoal} /\ s # n
  /\ Walkable(RefMap, Tile(s)) /\ Adjacent(Tile(n), Tile(s))
  /\ old # NULL => /\ old \in open \cup closed /\ Tile(old) = Tile(s)
                   /\ node[n].g + StepCost(n) < node[old].g
  /\ \A x \in Reached : Tile(x) = Tile(s) => x = old
  /\ open' = (open \ {old}) \cup {s} /\ closed' = closed \ {old}
  /\ node' = [node EXCEPT ![s].parent = n, ![s].g = node[n].g + StepCost(n)]
  /\ pc = "relax" /\ pc' = pc /\ n' = n
  /\ UNCHANGED <<RefMap, mGoal, mStart, state, dropped>>

\* What is where after that.
LEMMA PlaceTaken ==
  ASSUME TypeInv, Phases, Sound, NEW s, NEW old, TakesPlace(s, old)
  PROVE  /\ Reached' = (Reached \ {old}) \cup {s} /\ Inner' = Inner \ {old}
         /\ Front' = (Front \ {old}) \cup {s} /\ Current' = Current
         /\ old # n /\ old # mStart /\ old # s
         /\ \A x \in Slots \ {s} : /\ node'[x] = node[x] /\ Tile(x)' = Tile(x)
                                   /\ StepCost(x)' = StepCost(x) /\ f(x)' = f(x)
         /\ node'[s].parent = n /\ node'[s].g = node[n].g + StepCost(n)
         /\ node'[s].child = node[s].child /\ Tile(s)' = Tile(s) /\ StepCost(s)' = StepCost(s)
         /\ f(s)' = FloatSum(node[n].g + StepCost(n), GoalDistanceEstimate(Tile(s), Tile(mGoal)))
<1> USE DEF TakesPlace
<1>1. /\ state = "SEARCHING" /\ Searching /\ n \in Slots /\ mGoal \in Slots /\ mStart \in Slots
      /\ Current = {n} /\ Reached = open \cup closed \cup {n}
      /\ Inner = closed \cup {n} /\ Front = open \cup {n} /\ Reached \subseteq Slots
  BY Expanding
<1>2. NULL \notin Slots
  BY DEF NULL, Slots, Elements
<1>3. old # n /\ old # s
  <2>1. n \notin open \cup closed
    BY <1>1 DEF Sound, ListsInv
  <2> QED
    BY <1>1, <1>2, <2>1
<1>4. old # mStart
  <2>1. node[mStart].g = 0 /\ node[n].g \in Nat /\ StepCost(n) \in Nat
    BY <1>1, NodeType, StepCostType DEF Sound, StartInv
  <2> QED
    BY <1>1, <1>2, <2>1
<1>5. Current' = {n} /\ Reached' = open' \cup closed' \cup {n} /\ Inner' = closed' \cup {n}
      /\ Front' = open' \cup {n}
  BY DEF Current, Reached, Inner, Front
<1>6. /\ Reached' = (Reached \ {old}) \cup {s} /\ Inner' = Inner \ {old}
      /\ Front' = (Front \ {old}) \cup {s} /\ Current' = Current
  BY <1>1, <1>3, <1>5
<1>7. /\ \A x \in Slots \ {s} : node'[x] = node[x]
      /\ node'[s].parent = n /\ node'[s].g = node[n].g + StepCost(n)
      /\ node'[s].child = node[s].child /\ node'[s].tile = node[s].tile
  BY DEF TypeInv, TypeOK, Nodes
<1>8. /\ \A x \in Slots \ {s} : /\ node'[x] = node[x] /\ Tile(x)' = Tile(x)
                                /\ StepCost(x)' = StepCost(x)
      /\ Tile(s)' = Tile(s) /\ StepCost(s)' = StepCost(s)
      /\ Tile(mGoal)' = Tile(mGoal)
  BY <1>1, <1>7 DEF Tile, StepCost
<1>9. /\ \A x \in Slots \ {s} : f(x)' = f(x)
      /\ f(s)' = FloatSum(node[n].g + StepCost(n), GoalDistanceEstimate(Tile(s), Tile(mGoal)))
  BY <1>7, <1>8 DEF f
<1> QED
  BY <1>3, <1>4, <1>6, <1>7, <1>8, <1>9

\* The links after that.
LEMMA PlaceLinked ==
  ASSUME TypeInv, Phases, Sound, NEW s, NEW old, TakesPlace(s, old)
  PROVE  /\ Linked(s)'
         /\ \A x \in Slots \ {s} : Linked(x)' <=> Linked(x) /\ node[x].parent # old
         /\ \A d, c \in Slots : Under(d, c)' =>
              /\ d # s => Under(d, c)
              /\ d = s => c = s \/ Under(n, c)
<1>1. /\ n \in Slots /\ Inner = closed \cup {n} /\ Reached = open \cup closed \cup {n}
      /\ Reached \subseteq Slots /\ s \in Slots /\ s \notin Reached /\ s # n
      /\ Adjacent(Tile(n), Tile(s)) /\ n' = n
  BY Expanding DEF TakesPlace
<1>2. /\ Inner' = Inner \ {old} /\ old # n /\ old # s
      /\ \A x \in Slots \ {s} : node'[x] = node[x] /\ Tile(x)' = Tile(x)
                                /\ StepCost(x)' = StepCost(x)
      /\ node'[s].parent = n /\ node'[s].g = node[n].g + StepCost(n) /\ Tile(s)' = Tile(s)
  BY PlaceTaken
<1>3. Linked(s)'
  <2>1. n \in Inner' /\ Tile(n)' = Tile(n) /\ node'[n] = node[n] /\ StepCost(n)' = StepCost(n)
    BY <1>1, <1>2
  <2> PICK m : m = n
    OBVIOUS
  <2>2. m \in Inner' /\ Tile(m)' = Tile(m) /\ node'[m] = node[m] /\ StepCost(m)' = StepCost(m)
    BY <1>1, <1>2
  <2>3. node'[s].parent = m /\ node'[s].g = node[m].g + StepCost(m) /\ Adjacent(Tile(m), Tile(s))
    BY <1>1, <1>2
  <2> QED
    BY <1>2, <2>2, <2>3 DEF Linked
<1>4. ASSUME NEW x \in Slots \ {s} PROVE Linked(x)' <=> Linked(x) /\ node[x].parent # old
  <2> PICK p : p = node[x].parent
    OBVIOUS
  <2>1. node'[x] = node[x] /\ Tile(x)' = Tile(x)
    BY <1>2
  <2>2. CASE p \in Inner
    <3>1. p \in Slots \ {s}
      BY <1>1, <2>2
    <3>2. node'[p] = node[p] /\ Tile(p)' = Tile(p) /\ StepCost(p)' = StepCost(p)
      BY <1>2, <3>1
    <3> QED
      BY <1>2, <2>1, <2>2, <3>2 DEF Linked
  <2>3. CASE p \notin Inner
    BY <1>2, <2>1, <2>3 DEF Linked
  <2> QED
    BY <2>2, <2>3
<1>5. ASSUME NEW d \in Slots, NEW c \in Slots, Under(d, c)'
      PROVE  /\ d # s => Under(d, c)
             /\ d = s => c = s \/ Under(n, c)
  <2>1. ASSUME NEW x \in Slots, NEW y \in Slots, <<x, y>> \in Links'
        PROVE  /\ y # s
               /\ (x = s /\ y = n) \/ (x # s /\ <<x, y>> \in Links)
    <3>1. Linked(x)' /\ node'[x].parent = y
      BY <2>1 DEF Links
    <3>2. y \in Inner'
      BY <3>1 DEF Linked
    <3>3. y # s
      BY <1>1, <1>2, <3>2
    <3>4. CASE x = s
      BY <1>2, <3>1, <3>3, <3>4
    <3>5. CASE x # s
      <4>1. Linked(x) /\ node[x].parent = y
        BY <1>2, <1>4, <3>1, <3>5
      <4> QED
        BY <3>3, <3>5, <4>1, LinksAre
    <3> QED
      BY <3>4, <3>5
  <2>2. Leads(Links', d, c)
    BY <1>5 DEF Under
  <2>3. /\ d # s => Leads(Links, d, c)
        /\ d = s => c = s \/ Leads(Links, n, c)
    BY <1>1, <2>1, <2>2, LeadsFromNew
  <2> QED
    BY <2>3 DEF Under
<1> QED
  BY <1>3, <1>4, <1>5

\* What the chain says before a node takes its place, and what it costs.
LEMMA PlaceCosts ==
  ASSUME TypeInv, Phases, Sound, Ordered, NEW s, NEW old, TakesPlace(s, old)
  PROVE  /\ CostsBounded /\ DescendantsFirst /\ CurrentIsBest /\ UnlinkedReplaced
         /\ \A c \in Slots : Under(n, c) =>
              /\ c = mStart \/ (Linked(c) /\ node[c].parent # old)
              /\ c # old /\ (c = n \/ node[c].g < node[n].g)
         /\ node[n].g + StepCost(n) <= Wall * MaxNodes
         /\ node[n].g + StepCost(n) \in Nat /\ node[n].g < node[n].g + StepCost(n)
         /\ old # NULL => f(s)' < f(old)
<1>1. /\ n \in Slots /\ mGoal \in Slots /\ Reached \subseteq Slots /\ s \in Slots
      /\ Reached = open \cup closed \cup {n} /\ pc = "relax"
  BY Expanding DEF TakesPlace
<1>2. /\ CostsBounded /\ DescendantsFirst /\ CurrentIsBest /\ UnlinkedReplaced /\ CurrentIsLinked
  BY ChainHolds
<1>3. node[n].g \in Nat /\ StepCost(n) \in 1 .. Wall
  BY <1>1, NodeType, StepCostType
<1>4. node[n].g + StepCost(n) \in Nat /\ node[n].g < node[n].g + StepCost(n)
  BY <1>3
<1>5. node[n].g + StepCost(n) <= Wall * MaxNodes
  BY <1>1, CurrentHasChain, ChainCost
<1>6. old # NULL => old \in Slots /\ node[old].g \in Nat /\ node[n].g < node[old].g
                    /\ node[n].g + StepCost(n) < node[old].g /\ old \in Reached
                    /\ Tile(old) = Tile(s)
  <2> SUFFICES ASSUME old # NULL
               PROVE  old \in Slots /\ node[old].g \in Nat /\ node[n].g < node[old].g
                      /\ node[n].g + StepCost(n) < node[old].g /\ old \in Reached
                      /\ Tile(old) = Tile(s)
    OBVIOUS
  <2>1. old \in Reached /\ Tile(old) = Tile(s) /\ node[n].g + StepCost(n) < node[old].g
    BY <1>1 DEF TakesPlace
  <2>2. old \in Slots /\ node[old].g \in Nat
    BY <1>1, <2>1, NodeType
  <2> QED
    BY <1>3, <2>1, <2>2
<1>7. ASSUME NEW c \in Slots, Under(n, c)
      PROVE  /\ c = mStart \/ (Linked(c) /\ node[c].parent # old)
             /\ c # old /\ (c = n \/ node[c].g < node[n].g)
  <2>1. c = n \/ node[c].g < node[n].g
    BY <1>1, <1>7, UnderIs
  <2>2. node[c].g \in Nat
    BY NodeType
  <2>3. NULL \notin Slots
    BY DEF NULL, Slots, Elements
  <2>4. c # old
    BY <1>3, <1>6, <2>1, <2>2, <2>3
  <2>5. c = mStart \/ Linked(c)
    BY <1>1, <1>2, <1>7 DEF CurrentIsLinked
  <2>6. ASSUME Linked(c) PROVE node[c].parent # old
    <3>1. node[c].parent \in Slots /\ node[node[c].parent].g < node[c].g
          /\ node[node[c].parent].g \in Nat
      BY <2>6, LinkedParent, NodeType
    <3> QED
      BY <1>3, <1>6, <2>1, <2>2, <2>3, <3>1
  <2> QED
    BY <2>1, <2>4, <2>5, <2>6
<1>8. ASSUME old # NULL PROVE f(s)' < f(old)
  <2> PICK h : h = GoalDistanceEstimate(Tile(s), Tile(mGoal))
    OBVIOUS
  <2>1. h \in Nat /\ h < Far
    <3>1. Tile(s) \in DOMAIN RefMap
      BY <1>1, WalkableOnMap DEF TakesPlace
    <3>2. Tile(s) \in Int \X Int /\ Tile(mGoal) \in Int \X Int
      BY <1>1, NodeType
    <3> QED
      BY <3>1, <3>2, EstimateType DEF Ordered
  <2>2. f(s)' = FloatSum(node[n].g + StepCost(n), h)
    BY PlaceTaken
  <2>3. f(old) = FloatSum(node[old].g, h)
    BY <1>6, <1>8 DEF f
  <2>4. node[old].g < Far
    <3>1. node[old].g <= Wall * MaxNodes
      BY <1>2, <1>6, <1>8 DEF CostsBounded
    <3>2. Wall * MaxNodes < Far /\ Wall * MaxNodes \in Nat
      BY SMT, FarAssumption, MaxNodesAssumption DEF Wall
    <3> QED
      BY <1>6, <1>8, <3>1, <3>2, FarType
  <2> QED
    BY <1>4, <1>6, <1>8, <2>1, <2>2, <2>3, <2>4, SumLess
<1> QED
  BY <1>2, <1>4, <1>5, <1>7, <1>8

\* The costs, and the nodes that may have a lower f than the current one.
LEMMA PlaceBest ==
  ASSUME TypeInv, Phases, Sound, Ordered, NEW s, NEW old, TakesPlace(s, old)
  PROVE  CostsBounded' /\ CurrentIsBest' /\ CurrentIsLinked'
<1>1. /\ n \in Slots /\ Reached \subseteq Slots /\ s \in Slots /\ s # n /\ n' = n
      /\ Reached = open \cup closed \cup {n} /\ mStart' = mStart /\ n \in Reached
      /\ s \notin Reached /\ pc = "relax" /\ open' = (open \ {old}) \cup {s}
  BY Expanding DEF TakesPlace
<1>2. /\ Reached' = (Reached \ {old}) \cup {s} /\ old # n
      /\ \A x \in Slots \ {s} : node'[x] = node[x] /\ f(x)' = f(x)
      /\ node'[s].g = node[n].g + StepCost(n) /\ node'[s].parent = n
  BY PlaceTaken
<1>3. /\ CostsBounded /\ CurrentIsBest
      /\ \A c \in Slots : Under(n, c) => c = mStart \/ (Linked(c) /\ node[c].parent # old)
      /\ node[n].g + StepCost(n) <= Wall * MaxNodes
  BY PlaceCosts
<1>4. /\ Linked(s)'
      /\ \A x \in Slots \ {s} : Linked(x)' <=> Linked(x) /\ node[x].parent # old
      /\ \A d, c \in Slots : Under(d, c)' => (d # s => Under(d, c))
  BY PlaceLinked
<1>5. CostsBounded'
  BY <1>1, <1>2, <1>3 DEF CostsBounded
<1>6. CurrentIsBest'
  <2> SUFFICES ASSUME NEW x \in open'
               PROVE  f(x)' >= f(n)' \/ (Linked(x)' /\ node'[x].parent = n)
    BY <1>1 DEF CurrentIsBest
  <2>1. CASE x = s
    BY <1>2, <1>4, <2>1
  <2>2. CASE x # s
    <3>1. x \in open /\ x \in Slots \ {s} /\ n \in Slots \ {s}
      BY <1>1, <2>2
    <3>2. f(x)' = f(x) /\ f(n)' = f(n) /\ node'[x] = node[x]
      BY <1>1, <1>2, <3>1
    <3> QED
      BY <1>1, <1>2, <1>3, <1>4, <3>1, <3>2 DEF CurrentIsBest
  <2> QED
    BY <2>1, <2>2
<1>7. CurrentIsLinked'
  <2> SUFFICES ASSUME NEW e \in Slots, Under(n, e)' PROVE e = mStart \/ Linked(e)'
    BY <1>1 DEF CurrentIsLinked
  <2>1. Under(n, e)
    BY <1>1, <1>4 DEF Under
  <2>2. e # s
    <3>1. e = n \/ e \in Inner
      BY <1>1, <2>1, UnderIs
    <3> QED
      BY <1>1, <3>1, Expanding
  <2> QED
    BY <1>3, <1>4, <2>1, <2>2
<1> QED
  BY <1>5, <1>6, <1>7

\* The descendants are still the first.
LEMMA PlaceDescendants ==
  ASSUME TypeInv, Phases, Sound, Ordered, NEW s, NEW old, TakesPlace(s, old)
  PROVE  DescendantsFirst'
<1>1. /\ n \in Slots /\ Reached \subseteq Slots /\ s \in Slots /\ s # n /\ n' = n
      /\ Reached = open \cup closed \cup {n} /\ mGoal \in Slots
      /\ Inner = closed \cup {n} /\ Front = open \cup {n}
      /\ s \notin Reached /\ pc = "relax"
  BY Expanding DEF TakesPlace
<1>2. /\ Inner' = Inner \ {old} /\ Front' = (Front \ {old}) \cup {s}
      /\ \A x \in Slots \ {s} : node'[x] = node[x] /\ f(x)' = f(x)
      /\ node'[s].g = node[n].g + StepCost(n)
  BY PlaceTaken
<1>3. /\ DescendantsFirst /\ CurrentIsBest
      /\ \A c \in Slots : Under(n, c) => c = n \/ node[c].g < node[n].g
      /\ node[n].g + StepCost(n) \in Nat /\ node[n].g < node[n].g + StepCost(n)
  BY PlaceCosts
<1>4. \A d, c \in Slots : Under(d, c)' => /\ d # s => Under(d, c)
                                          /\ d = s => c = s \/ Under(n, c)
  BY PlaceLinked
<1>5. \A x \in open : f(x) >= f(n) \/ (Linked(x) /\ node[x].parent = n)
  BY <1>1, <1>3 DEF CurrentIsBest
<1> SUFFICES ASSUME NEW c \in Inner', NEW d \in Front', Under(d, c)', f(d)' < f(c)',
                    NEW x \in Front'
             PROVE  f(x)' >= f(c)' \/ node'[x].g > node'[c].g
  BY DEF DescendantsFirst
<1>6. c \in Inner /\ c \in Slots \ {s} /\ d \in Slots /\ x \in Slots
  BY <1>1, <1>2
<1>7. /\ f(c)' = f(c) /\ node'[c] = node[c]
      /\ \A y \in {d, x} \ {s} : f(y)' = f(y) /\ node'[y] = node[y] /\ y \in Front
  BY <1>2, <1>6
<1>8. /\ node[c].g \in Nat /\ node[n].g \in Nat /\ node[d].g \in Nat /\ node[x].g \in Nat
      /\ f(c) \in Nat /\ f(n) \in Nat /\ f(d) \in Nat /\ f(x) \in Nat
  BY <1>1, <1>6, NodeType, TotalType
<1>9. CASE d # s /\ x # s
  <2>1. Under(d, c) /\ f(d) < f(c)
    BY <1>4, <1>6, <1>7, <1>9
  <2>2. f(x) >= f(c) \/ node[x].g > node[c].g
    BY <1>3, <1>6, <1>7, <1>9, <2>1 DEF DescendantsFirst
  <2> QED
    BY <1>7, <1>9, <2>2
<1>10. CASE d # s /\ x = s
  <2>1. Under(d, c) /\ f(d) < f(c) /\ d \in Front
    BY <1>4, <1>6, <1>7, <1>10
  <2>2. node[c].g <= node[n].g
    <3>1. f(n) >= f(c) \/ node[n].g > node[c].g
      BY <1>1, <1>3, <1>6, <2>1 DEF DescendantsFirst
    <3>2. CASE f(n) >= f(c)
      <4>1. d # n /\ ~(f(d) >= f(n)) /\ d # c
        BY <1>8, <2>1, <3>2
      <4>2. node[d].parent = n
        BY <1>1, <1>5, <2>1, <4>1
      <4>3. Under(n, c)
        BY <1>6, <2>1, <4>1, <4>2, UnderIs
      <4> QED
        BY <1>3, <1>6, <1>8, <4>3
    <3> QED
      BY <1>8, <3>1, <3>2
  <2> QED
    BY <1>2, <1>3, <1>7, <1>8, <1>10, <2>2
<1>11. CASE d = s
  <2>1. Under(n, c) /\ (c = n \/ node[c].g < node[n].g)
    BY <1>3, <1>4, <1>6, <1>11
  <2>2. CASE x = s
    BY <1>2, <1>3, <1>7, <1>8, <2>1, <2>2
  <2>3. CASE x # s
    <3>1. x \in Front /\ f(x)' = f(x) /\ node'[x] = node[x]
      BY <1>7, <2>3
    <3>2. CASE f(n) < f(c)
      BY <1>1, <1>3, <1>6, <1>7, <2>1, <3>1, <3>2 DEF DescendantsFirst
    <3>3. CASE ~(f(n) < f(c))
      <4>1. x = n \/ f(x) >= f(n) \/ (Linked(x) /\ node[x].parent = n)
        BY <1>1, <1>5, <3>1
      <4>2. Linked(x) /\ node[x].parent = n => node[n].g < node[x].g
        BY <1>6, LinkedParent
      <4>3. f(x) >= f(c) \/ node[x].g > node[c].g
        BY <1>8, <2>1, <3>3, <4>1, <4>2
      <4> QED
        BY <1>7, <3>1, <4>3
    <3> QED
      BY <3>2, <3>3
  <2> QED
    BY <2>2, <2>3
<1> QED
  BY <1>9, <1>10, <1>11

\* Children of the replaced node are replaced in their turn.
LEMMA PlaceReplaced ==
  ASSUME TypeInv, Phases, Sound, Ordered, NEW s, NEW old, TakesPlace(s, old),
         Pending \ {s} \subseteq Pending'
  PROVE  UnlinkedReplaced'
<1>1. /\ n \in Slots /\ Reached \subseteq Slots /\ s \in Slots /\ s # n /\ n' = n
      /\ Reached = open \cup closed \cup {n} /\ mGoal \in Slots /\ mStart' = mStart
      /\ Inner = closed \cup {n} /\ Front = open \cup {n} /\ Current = {n}
      /\ s \notin Reached /\ pc = "relax" /\ pc' = pc /\ open' = (open \ {old}) \cup {s}
      /\ \A x \in Reached : Tile(x) = Tile(s) => x = old
      /\ old # NULL => /\ old \in open \cup closed /\ Tile(old) = Tile(s)
                       /\ node[n].g + StepCost(n) < node[old].g
  BY Expanding DEF TakesPlace
<1>2. /\ Reached' = (Reached \ {old}) \cup {s} /\ Front' = (Front \ {old}) \cup {s}
      /\ Current' = Current /\ old # n
      /\ \A x \in Slots \ {s} : node'[x] = node[x] /\ f(x)' = f(x) /\ Tile(x)' = Tile(x)
                                /\ StepCost(x)' = StepCost(x)
      /\ node'[s].g = node[n].g + StepCost(n) /\ Tile(s)' = Tile(s) /\ StepCost(s)' = StepCost(s)
  BY PlaceTaken
<1>3. /\ DescendantsFirst /\ CurrentIsBest /\ UnlinkedReplaced
      /\ \A c \in Slots : Under(n, c) => /\ c = mStart \/ Linked(c)
                                         /\ c # old /\ (c = n \/ node[c].g < node[n].g)
      /\ node[n].g + StepCost(n) \in Nat /\ node[n].g < node[n].g + StepCost(n)
      /\ old # NULL => f(s)' < f(old)
  BY PlaceCosts
<1>4. /\ Linked(s)'
      /\ \A x \in Slots \ {s} : Linked(x)' <=> Linked(x) /\ node[x].parent # old
      /\ \A d, c \in Slots : Under(d, c)' => /\ d # s => Under(d, c)
                                             /\ d = s => c = s \/ Under(n, c)
  BY PlaceLinked
<1>5. \A x \in open : f(x) >= f(n) \/ (Linked(x) /\ node[x].parent = n)
  BY <1>1, <1>3 DEF CurrentIsBest
<1>6. NULL \notin Slots
  BY DEF NULL, Slots, Elements
<1>7. \A x \in Slots : StepCost(x) \in Nat /\ node[x].g \in Nat /\ f(x) \in Nat
  BY <1>1, StepCostType, NodeType, TotalType
<1>8. f(s)' \in Nat
  BY <1>1, <1>2, <1>3, NodeType, EstimateType, PlaceTaken, FarType DEF FloatSum
<1> SUFFICES ASSUME NEW e \in Reached', e # mStart, ~Linked(e)'
             PROVE  \E x \in Front' : Replaces(x, e)'
                                      /\ \A d \in open' : Under(d, e)' => f(x)' < f(d)'
  BY <1>1 DEF UnlinkedReplaced
<1>9. e \in Reached /\ e # old /\ e \in Slots \ {s}
  BY <1>1, <1>2, <1>4
<1>10. CASE Linked(e)
  <2>1. node[e].parent = old
    BY <1>4, <1>9, <1>10
  <2>2. old \in Inner /\ Adjacent(Tile(old), Tile(e)) /\ node[e].g = node[old].g + StepCost(old)
    BY <1>10, <2>1 DEF Linked
  <2>3. old \in Slots /\ old # NULL /\ Tile(old) = Tile(s) /\ Under(e, old)
    BY <1>1, <1>6, <1>9, <1>10, <2>1, <2>2, LinkedParent
  <2>4. StepCost(old) = StepCost(s)
    BY <2>3 DEF StepCost
  <2>5. node'[s].g + StepCost(s) < node[e].g /\ node[n].g < node[e].g
        /\ node[n].g < node[old].g
    BY <1>1, <1>2, <1>3, <1>7, <1>9, <2>2, <2>3, <2>4
  <2>6. Replaces(s, e)'
    BY <1>1, <1>2, <1>9, <2>2, <2>3, <2>5 DEF Replaces
  <2>7. ASSUME NEW d \in open', Under(d, e)' PROVE f(s)' < f(d)'
    <3>1. d # s
      <4> SUFFICES ASSUME d = s PROVE FALSE
        OBVIOUS
      <4>1. Under(n, e)
        BY <1>1, <1>4, <1>9, <2>7
      <4>2. e = n \/ node[e].g < node[n].g
        BY <1>3, <1>9, <4>1
      <4> QED
        BY <1>1, <1>7, <1>9, <2>5, <4>2
    <3>2. d \in open /\ d \in Slots \ {s} /\ f(d)' = f(d) /\ d \in Front
      BY <1>1, <1>2, <2>7, <3>1
    <3>3. Under(d, old)
      <4>1. Under(d, e)
        BY <1>4, <1>9, <2>7, <3>1, <3>2
      <4> QED
        BY <1>9, <2>3, <3>2, <4>1, UnderThrough
    <3>4. f(d) >= f(old)
      <4> SUFFICES ASSUME f(d) < f(old) PROVE FALSE
        BY <1>7, <2>3, <3>2
      <4>1. f(n) >= f(old) \/ node[n].g > node[old].g
        BY <1>1, <1>3, <2>2, <3>2, <3>3 DEF DescendantsFirst
      <4>2. f(n) >= f(old)
        BY <1>1, <1>7, <2>3, <2>5, <4>1
      <4>3. ~(f(d) >= f(n)) /\ d # old
        BY <1>1, <1>7, <2>3, <3>2, <4>2
      <4>4. Linked(d) /\ node[d].parent = n
        BY <1>5, <3>2, <4>3
      <4>5. Under(n, old)
        BY <2>3, <3>2, <3>3, <4>3, <4>4, UnderIs
      <4> QED
        BY <1>3, <2>3, <4>5
    <3> QED
      BY <1>3, <1>7, <1>8, <2>3, <3>2, <3>4
  <2>8. s \in Front'
    BY <1>2
  <2> QED
    BY <2>6, <2>7, <2>8
<1>11. CASE ~Linked(e)
  <2>1. PICK x \in Front : Replaces(x, e) /\ \A d \in open : Under(d, e) => f(x) < f(d)
    BY <1>3, <1>9, <1>11 DEF UnlinkedReplaced
  <2>2. Adjacent(Tile(x), Tile(e)) /\ node[x].g + StepCost(x) < node[e].g
    BY <2>1 DEF Replaces
  <2>3. ASSUME NEW d \in open', Under(d, e)'
        PROVE  d \in open /\ f(d)' = f(d) /\ f(x) < f(d) /\ d \in Slots
    <3>1. d # s
      BY <1>1, <1>3, <1>4, <1>9, <1>11, <2>3
    <3>2. d \in open /\ d \in Slots \ {s} /\ f(d)' = f(d)
      BY <1>1, <1>2, <2>3, <3>1
    <3> QED
      BY <1>4, <1>9, <2>1, <2>3, <3>2
  <2>4. CASE x # old
    <3>1. x \in Slots \ {s} /\ x \in Front'
      BY <1>1, <1>2, <2>4
    <3>2. f(x)' = f(x) /\ node'[x] = node[x] /\ Tile(x)' = Tile(x) /\ StepCost(x)' = StepCost(x)
      BY <1>2, <3>1
    <3>3. Tile(e)' = Tile(e) /\ node'[e] = node[e]
      BY <1>2, <1>9
    <3>4. CASE x \in open
      <4>1. x \in open'
        BY <1>1, <2>4, <3>4
      <4>2. Replaces(x, e)'
        BY <2>2, <3>2, <3>3, <4>1 DEF Replaces
      <4> QED
        BY <2>3, <3>1, <3>2, <4>2
    <3>5. CASE x \notin open
      <4>1. x \in Current /\ Coming(Tile(e))
        BY <2>1, <3>5 DEF Replaces
      <4>2. PICK z \in Pending : Tile(z) = Tile(e)
        BY <1>1, <4>1 DEF Coming
      <4>3. z # s
        BY <1>1, <1>9, <4>2
      <4>4. z \in Slots \ {s} /\ z \in Pending'
        <5>1. Pending \subseteq Slots
          BY <1>1, Expanding DEF Pending
        <5> QED
          BY <4>3, <5>1
      <4>5. Coming(Tile(e))'
        BY <1>2, <3>3, <4>2, <4>4 DEF Coming
      <4>6. Replaces(x, e)'
        BY <1>2, <2>2, <3>2, <3>3, <4>1, <4>5 DEF Replaces
      <4> QED
        BY <2>3, <3>1, <3>2, <4>6
    <3> QED
      BY <3>4, <3>5
  <2>5. CASE x = old
    <3>1. old \in Slots /\ old # NULL /\ Tile(old) = Tile(s) /\ f(s)' < f(old)
      BY <1>1, <1>3, <1>6, <2>5
    <3>2. StepCost(old) = StepCost(s)
      BY <3>1 DEF StepCost
    <3>3. node'[s].g + StepCost(s) < node[e].g
      BY <1>1, <1>2, <1>3, <1>7, <1>9, <2>2, <2>5, <3>1, <3>2
    <3>4. Replaces(s, e)'
      BY <1>1, <1>2, <1>9, <2>2, <2>5, <3>1, <3>3 DEF Replaces
    <3>5. \A d \in open' : Under(d, e)' => f(s)' < f(d)'
      BY <1>7, <1>8, <2>3, <2>5, <3>1
    <3>6. s \in Front'
      BY <1>2
    <3> QED
      BY <3>4, <3>5, <3>6
  <2> QED
    BY <2>4, <2>5
<1> QED
  BY <1>10, <1>11

\* A node gone from the lists is back in the pool.
LEMMA ReleasedToPool ==
  ASSUME TypeInv, PoolInv, NEW old \in Pointers, old # NULL => old \in Held,
         free' = Released(old, free), count' = count - OneIf(old)
  PROVE  PoolAfter(Held \ {old})
<1>1. CASE old = NULL
  <2>1. NULL \notin Held
    BY DEF PoolInv, Live, NULL, Slots, Elements
  <2>2. free' = free /\ count' = count
    <3>1. count \in Int
      BY DEF TypeInv, TypeOK
    <3> QED
      BY <1>1, <3>1 DEF Released, OneIf
  <2> QED
    BY <1>1, <2>1, <2>2 DEF PoolInv, PoolAfter, Live
<1>2. CASE old # NULL
  <2>1. old \in Slots /\ FreeNode(old)
    BY <1>2 DEF Pointers, FreeNode, Released, OneIf
  <2> QED
    BY <1>2, <2>1, PoolGiven
<1> QED
  BY <1>1, <1>2

\* The lists have at most one node of the tile of a successor.  If it costs more the
\* successor takes its place.
LEMMA RelaxReplaces ==
  ASSUME TypeInv, Phases, Sound, Relax, NEW s, s = succ[k],
         NEW onOpen, onOpen = Found(open, Tile(s)),
         NEW onClosed, onClosed = Found(closed, Tile(s)),
         NEW newg, newg = node[n].g + StepCost(n),
         ~(AsGood(onOpen, newg) \/ AsGood(onClosed, newg))
  PROVE  \E old \in Pointers : TakesPlace(s, old) /\ PoolAfter(Held \ {old})
<1> USE DEF pool, lists, locals, history
<1>1. /\ pc = "relax" /\ pc' = pc /\ n' = n
      /\ UNCHANGED <<RefMap, state, mStart, mGoal, dropped>>
      /\ s \in Pending /\ Pending \subseteq Slots /\ s \notin Reached \cup {mGoal} /\ s # n
      /\ Walkable(RefMap, Tile(s)) /\ Adjacent(Tile(n), Tile(s))
  BY RelaxIs
<1>2. /\ Searching /\ n \in Slots /\ Reached = open \cup closed \cup {n}
      /\ Reached \subseteq Slots /\ open \subseteq Slots /\ closed \subseteq Slots
      /\ Held = open \cup closed \cup Pending \cup {n} \cup {mGoal}
  BY <1>1, Expanding
<1>3. NULL \notin Slots
  BY DEF NULL, Slots, Elements
<1>4. newg = node[n].g + GetCost(RefMap, Tile(n))
  BY DEF StepCost
<1>5. /\ node' = [node EXCEPT ![s].parent = n, ![s].g = newg]
      /\ open' = (open \ {onOpen}) \cup {s}
      /\ closed' = closed \ {onClosed}
      /\ free' = Released(onOpen, Released(onClosed, free))
      /\ count' = count - OneIf(onOpen) - OneIf(onClosed)
  BY <1>4 DEF Relax
<1>6. /\ \/ onOpen = NULL /\ \A x \in open : Tile(x) # Tile(s)
         \/ onOpen \in open /\ Tile(onOpen) = Tile(s)
      /\ \/ onClosed = NULL /\ \A x \in closed : Tile(x) # Tile(s)
         \/ onClosed \in closed /\ Tile(onClosed) = Tile(s)
  BY <1>2, FoundIs
<1>7. newg \in Nat /\ \A x \in Slots : node[x].g \in Nat
  BY <1>2, NodeType, StepCostType
<1>8. /\ onOpen # NULL => newg < node[onOpen].g
      /\ onClosed # NULL => newg < node[onClosed].g
  BY <1>2, <1>3, <1>6, <1>7 DEF AsGood
<1>9. \A x, y \in Reached : Tile(x) = Tile(y) => x = y
  BY <1>2 DEF Sound, TilesInv, Searching
<1>10. open \cap closed = {} /\ n \notin open \cup closed
  BY <1>1, <1>2 DEF Sound, ListsInv, Current
<1>11. Tile(n) # Tile(s)
  BY <1>1, <1>2, NodeType, AdjacentDiffers
<1>12. count \in Int /\ free \in Seq(Slots)
  BY DEF TypeInv, TypeOK
<1>13. CASE onOpen # NULL
  <2>1. onOpen \in open /\ onClosed = NULL
    BY <1>2, <1>3, <1>6, <1>9, <1>10, <1>13
  <2>2. \A x \in Reached : Tile(x) = Tile(s) => x = onOpen
    BY <1>2, <1>6, <1>9, <2>1, <1>3
  <2>3. closed \ {onOpen} = closed /\ closed' = closed
    BY <1>2, <1>3, <1>5, <1>10, <2>1
  <2>4. TakesPlace(s, onOpen)
    BY <1>1, <1>5, <1>6, <1>8, <1>13, <2>1, <2>2, <2>3 DEF TakesPlace
  <2>5. free' = Released(onOpen, free) /\ count' = count - OneIf(onOpen)
    <3>1. \A c \in Int : c - 1 - 0 = c - 1
      OBVIOUS
    <3> QED
      BY <1>5, <1>12, <1>13, <2>1, <3>1 DEF Released, OneIf
  <2>6. PoolAfter(Held \ {onOpen})
    BY <1>2, <2>1, <2>5, ReleasedToPool DEF Sound, Pointers
  <2> QED
    BY <1>2, <2>1, <2>4, <2>6 DEF Pointers
<1>14. CASE onOpen = NULL
  <2>1. \A x \in Reached : Tile(x) = Tile(s) => x = onClosed
    BY <1>2, <1>3, <1>6, <1>9, <1>11, <1>14
  <2>2. open \ {onClosed} = open /\ open \ {onOpen} = open
    BY <1>2, <1>3, <1>6, <1>10, <1>14
  <2>3. TakesPlace(s, onClosed)
    BY <1>1, <1>5, <1>6, <1>8, <2>1, <2>2 DEF TakesPlace
  <2>4. free' = Released(onClosed, free) /\ count' = count - OneIf(onClosed)
    <3>1. \A c \in Int : c - 0 = c
      OBVIOUS
    <3> QED
      BY <1>5, <1>12, <1>14, <3>1 DEF Released, OneIf
  <2>5. onClosed \in Pointers /\ (onClosed # NULL => onClosed \in Held)
    BY <1>2, <1>6 DEF Pointers
  <2>6. PoolAfter(Held \ {onClosed})
    BY <2>4, <2>5, ReleasedToPool DEF Sound
  <2> QED
    BY <2>3, <2>5, <2>6
<1> QED
  BY <1>13, <1>14

\* All parts hold after a successor has taken its place.
LEMMA TakesPlaceSound ==
  ASSUME TypeInv, Phases, Sound, Relax, NEW s, s = succ[k], NEW old \in Pointers,
         TakesPlace(s, old), PoolAfter(Held \ {old})
  PROVE  Sound'
<1> USE DEF pool, lists, locals, history
<1>1. /\ pc = "relax" /\ pc' = pc /\ n' = n /\ k' = k + 1
      /\ UNCHANGED <<RefMap, succ, state, mStart, mGoal, dropped>>
      /\ s \in Pending /\ Pending \subseteq Slots /\ s \notin Reached \cup {mGoal} /\ s # n
      /\ Pending' = Pending \ {s} /\ Waiting' \subseteq Waiting
      /\ Walkable(RefMap, Tile(s)) /\ node[s].child = NULL
      /\ mStart \in Reached /\ mStart \notin open
  BY RelaxIs
<1>2. /\ state = "SEARCHING" /\ Searching /\ n \in Slots /\ mGoal \in Slots /\ mStart \in Slots
      /\ ~HasSolution /\ Current = {n} /\ Reached = open \cup closed \cup {n}
      /\ Reached \subseteq Slots
      /\ Held = open \cup closed \cup Pending \cup {n} \cup {mGoal}
  BY <1>1, Expanding
<1>3. /\ Reached' = (Reached \ {old}) \cup {s} /\ Current' = Current
      /\ old # n /\ old # mStart /\ old # s
      /\ \A x \in Slots \ {s} : node'[x] = node[x] /\ Tile(x)' = Tile(x)
      /\ node'[s].g = node[n].g + StepCost(n)
      /\ node'[s].child = node[s].child /\ Tile(s)' = Tile(s)
  BY PlaceTaken
<1>4. /\ open' = (open \ {old}) \cup {s} /\ closed' = closed \ {old}
      /\ old # NULL => old \in open \cup closed
      /\ \A x \in Reached : Tile(x) = Tile(s) => x = old
  BY DEF TakesPlace
<1>5. PoolInv'
  <2>1. old \notin Pending /\ old # mGoal
    <3>1. NULL \notin Slots
      BY DEF NULL, Slots, Elements
    <3> QED
      BY <1>1, <1>2, <1>4, <3>1 DEF Sound, ListsInv
  <2>2. Held' = Held \ {old}
    <3>1. Held' = Reached' \cup Pending' \cup {mGoal}
      BY <1>1, <1>2 DEF Held, HasSolution, Reached
    <3> QED
      BY <1>1, <1>2, <1>3, <2>1, <3>1
  <2> QED
    BY <2>2 DEF PoolInv, PoolAfter
<1>6. ListsInv'
  <2>1. open' \cap closed' = {}
    BY <1>1, <1>2, <1>4 DEF Sound, ListsInv
  <2>2. Current' \cap (open' \cup closed') = {}
    BY <1>1, <1>2, <1>3, <1>4 DEF Sound, ListsInv
  <2>3. Pending' \cap Reached' = {}
    BY <1>1, <1>3 DEF Sound, ListsInv
  <2>4. mGoal \notin Reached' \cup Pending'
    BY <1>1, <1>2, <1>3 DEF Sound, ListsInv
  <2>5. \A i, j \in Waiting' : succ'[i] = succ'[j] => i = j
    BY <1>1 DEF Sound, ListsInv
  <2>6. mStart' # NULL => mStart' # mGoal'
    BY <1>1 DEF Sound, ListsInv
  <2> QED
    BY <1>1, <1>2, <2>1, <2>2, <2>3, <2>4, <2>5, <2>6 DEF ListsInv
<1>7. TilesInv'
  <2>1. \A x \in Slots : Tile(x)' = Tile(x)
    BY <1>3
  <2>2. ASSUME NEW x \in Reached', NEW y \in Reached', Tile(x)' = Tile(y)' PROVE x = y
    <3>1. \A u, v \in Reached : Tile(u) = Tile(v) => u = v
      BY <1>2 DEF Sound, TilesInv
    <3>2. Tile(x) = Tile(y) /\ (x = s \/ (x \in Reached /\ x # old))
          /\ (y = s \/ (y \in Reached /\ y # old))
      BY <1>1, <1>2, <1>3, <2>1, <2>2
    <3> QED
      BY <1>4, <3>1, <3>2
  <2>3. Tile(mGoal)' \in Goals
    BY <1>1, <1>2, <2>1 DEF Sound, TilesInv
  <2>4. ASSUME NEW x \in Pending'
        PROVE  /\ Walkable(RefMap, Tile(x))' /\ Adjacent(Tile(n), Tile(x))'
               /\ node'[x].parent = NULL
    <3>1. x \in Pending /\ x \in Slots \ {s}
      BY <1>1, <2>4
    <3>2. Walkable(RefMap, Tile(x)) /\ Adjacent(Tile(n), Tile(x)) /\ node[x].parent = NULL
      BY <3>1 DEF Sound, TilesInv
    <3>3. Tile(n)' = Tile(n) /\ Tile(x)' = Tile(x) /\ node'[x] = node[x]
      BY <1>1, <1>2, <1>3, <3>1
    <3> QED
      BY <1>1, <3>2, <3>3 DEF Walkable
  <2> QED
    BY <2>2, <2>3, <2>4 DEF TilesInv
<1>8. StartInv'
  <2>1. node'[mStart] = node[mStart] /\ mStart \in Reached'
    BY <1>1, <1>2, <1>3
  <2>2. node[mStart].parent = NULL /\ node[mStart].g = 0
        /\ \A x \in Reached \ {mStart} : node[x].g > 0 /\ Walkable(RefMap, Tile(x))
    BY <1>2 DEF Sound, StartInv
  <2>3. mStart \notin open'
    BY <1>1, <1>2, <1>4
  <2>4. node'[s].g > 0
    BY <1>2, <1>3, NodeType, StepCostType
  <2>5. \A x \in Reached' \ {mStart} : node'[x].g > 0 /\ Walkable(RefMap, Tile(x))'
    <3>1. \A x \in Reached : x \in Slots \ {s}
      BY <1>1, <1>2
    <3> QED
      BY <1>1, <1>3, <2>2, <2>4, <3>1 DEF Walkable
  <2> QED
    BY <1>1, <2>1, <2>2, <2>3, <2>5 DEF StartInv
<1>9. ChildInv'
  <2>1. \A x \in Reached \cup Pending \cup {mGoal} : node[x].child = NULL /\ x \in Slots
    BY <1>1, <1>2 DEF Sound, ChildInv
  <2> QED
    BY <1>1, <1>2, <1>3, <2>1 DEF ChildInv
<1>10. LinkInv' /\ PathInv'
  BY <1>1, <1>2 DEF LinkInv, PathInv, HasSolution
<1>11. ChainInv'
  <2> SUFFICES ASSUME Ordered'
               PROVE  /\ CostsBounded' /\ DescendantsFirst' /\ CurrentIsBest'
                      /\ CurrentIsLinked' /\ UnlinkedReplaced'
    BY DEF ChainInv
  <2>1. Tile(mGoal)' = Tile(mGoal)
    BY <1>1, <1>2, <1>3
  <2>2. Ordered
    BY <1>1, <2>1 DEF Ordered, Searching
  <2> QED
    BY <1>1, <2>2, PlaceBest, PlaceDescendants, PlaceReplaced
<1> QED
  BY <1>5, <1>6, <1>7, <1>8, <1>9, <1>10, <1>11 DEF Sound

\* One successor is relaxed.
LEMMA RelaxSound == ASSUME TypeInv, Phases, Sound, Relax PROVE Sound'
<1> PICK s : s = succ[k]
  OBVIOUS
<1> PICK newg : newg = node[n].g + StepCost(n)
  OBVIOUS
<1> PICK onOpen : onOpen = Found(open, Tile(s))
  OBVIOUS
<1> PICK onClosed : onClosed = Found(closed, Tile(s))
  OBVIOUS
<1>1. CASE AsGood(onOpen, newg) \/ AsGood(onClosed, newg)
  <2>1. FreeNode(s) /\ UNCHANGED <<node, open, closed>>
    BY <1>1 DEF Relax, StepCost
  <2>2. \E e \in open \cup closed : Tile(e) = Tile(s) /\ node[e].g <= newg
    <3>1. open \in SUBSET Slots /\ closed \in SUBSET Slots
      BY DEF TypeInv, TypeOK
    <3> QED
      BY <1>1, <3>1, FoundIs DEF AsGood
  <2> QED
    BY <2>1, <2>2, RelaxFreesSound
<1>2. CASE ~(AsGood(onOpen, newg) \/ AsGood(onClosed, newg))
  <2>1. PICK old \in Pointers : TakesPlace(s, old) /\ PoolAfter(Held \ {old})
    BY <1>2, RelaxReplaces
  <2> QED
    BY <2>1, TakesPlaceSound
<1> QED
  BY <1>1, <1>2

\* The expanded node is closed.
LEMMA ExpandedSound == ASSUME TypeInv, Phases, Sound, Expanded PROVE Sound'
<1> USE DEF pool, lists, locals, history
<1>1. /\ pc = "relax" /\ k \notin DOMAIN succ /\ pc' = "ready" /\ n' = NULL
      /\ closed' = closed \cup {n} /\ succ' = <<>>
      /\ UNCHANGED <<RefMap, free, count, node, open, state, mStart, mGoal, dropped>>
  BY DEF Expanded, Return
<1>2. /\ state = "SEARCHING" /\ Searching /\ n \in Slots /\ mGoal \in Slots /\ ~HasSolution
      /\ Current = {n} /\ Reached = open \cup closed \cup {n} /\ Reached \subseteq Slots
      /\ Inner = closed \cup {n} /\ Front = open \cup {n}
      /\ Held = open \cup closed \cup Pending \cup {n} \cup {mGoal}
      /\ k \in Nat /\ k >= 1 /\ DOMAIN succ = 1 .. Len(succ) /\ Len(succ) \in Nat
  BY <1>1, Expanding
<1>3. Pending = {}
  <2>1. \A l \in Nat : k \notin 1 .. l => k .. l = {}
    BY <1>2
  <2> QED
    BY <1>1, <1>2, <2>1 DEF Pending
<1>4. /\ Pending' = {} /\ Current' = {} /\ Waiting' = {} /\ Reached' = Reached
      /\ Inner' = Inner /\ Front' = open
  BY <1>1, <1>2 DEF Pending, Current, Reached, Waiting, Inner, Front
<1>5. PoolInv'
  <2>1. Held' = Held
    BY <1>1, <1>2, <1>3, <1>4 DEF Held, HasSolution
  <2> QED
    BY <1>1, <2>1 DEF Sound, PoolInv, Live
<1>6. ListsInv'
  BY <1>1, <1>2, <1>4 DEF Sound, ListsInv
<1>7. TilesInv'
  BY <1>1, <1>4 DEF Sound, TilesInv, Tile
<1>8. StartInv' /\ ChildInv'
  BY <1>1, <1>2, <1>4 DEF Sound, StartInv, ChildInv, Searching, Tile
<1>9. LinkInv' /\ PathInv'
  BY <1>1, <1>2 DEF LinkInv, PathInv, HasSolution
<1>10. ChainInv'
  <2> SUFFICES ASSUME Ordered'
               PROVE  /\ CostsBounded' /\ DescendantsFirst' /\ CurrentIsBest'
                      /\ CurrentIsLinked' /\ UnlinkedReplaced'
    BY DEF ChainInv
  <2>1. Ordered
    BY <1>1, <1>2 DEF Ordered, Searching, Tile
  <2>2. CostsBounded /\ DescendantsFirst /\ UnlinkedReplaced
    BY <2>1, ChainHolds
  <2>3. Links' = Links /\ \A x \in Slots : Linked(x)' = Linked(x)
    BY <1>1, <1>4 DEF Links, Linked, StepCost, Tile
  <2>4. \A x : f(x)' = f(x) /\ Tile(x)' = Tile(x) /\ StepCost(x)' = StepCost(x)
    BY <1>1 DEF f, Tile, StepCost
  <2>5. CostsBounded' /\ DescendantsFirst'
    BY <1>1, <1>2, <1>4, <2>2, <2>3, <2>4 DEF CostsBounded, DescendantsFirst, Under
  <2>6. CurrentIsBest' /\ CurrentIsLinked'
    BY <1>1 DEF CurrentIsBest, CurrentIsLinked
  <2>7. UnlinkedReplaced'
    <3>1. ASSUME NEW x, NEW e, Replaces(x, e) PROVE x \in open /\ Replaces(x, e)'
      BY <1>1, <1>3, <2>4, <3>1 DEF Replaces, Coming
    <3> QED
      BY <1>1, <1>2, <1>4, <2>2, <2>3, <2>4, <3>1 DEF UnlinkedReplaced, Under
  <2> QED
    BY <2>5, <2>6, <2>7
<1> QED
  BY <1>5, <1>6, <1>7, <1>8, <1>9, <1>10 DEF Sound

-----------------------------------------------------------------------------
(* The invariant, and the properties of AStarSearch.                       *)

\* No step forgets that a path was followed in a search that ran out of nodes.
LEMMA SpoiltStays == ASSUME [Next]_vars, spoilt PROVE spoilt'
<1> USE DEF history
<1>1. CASE UNCHANGED vars
  BY <1>1 DEF vars
<1>2. CASE Start \/ Cancel \/ ReadSolution \/ Free \/ FreeSolutionNode \/ LoadMap \/ Done
  BY <1>2 DEF Start, SetStartAndGoalStates, Cancel, CancelSearch, ReadSolution,
              GetSolutionStart, GetSolutionNext, Free, FreeSolutionNodes, FreeSolutionNode,
              LoadMap, Done, vars
<1>3. CASE SearchStep
  BY <1>3 DEF SearchStep, GiveUp, ReachGoal, Expand
<1>4. CASE Working
  BY <1>4 DEF Working, AddSuccessor, SuccessorsGenerated, Relax, Expanded, LinkParent,
              FreeUnusedOpen, FreeUnusedClosed, Succeed, FreeAllListed, Fail
<1> QED
  BY <1>1, <1>2, <1>3, <1>4 DEF Next

\* The parent of n stays what it was while its successors are generated.
LEMMA NextBackInv ==
  ASSUME TypeInv, Phases, Sound, BackInv, [Next]_vars PROVE BackInv'
<1> USE DEF pool, lists, locals, history
<1> SUFFICES ASSUME Ordered', pc' = "generate" PROVE back' = ParentTile(n)'
  BY DEF BackInv
<1>1. CASE \E s \in Slots : Expand(s)
  BY <1>1 DEF Expand, ParentTile, Tile
<1>2. CASE AddSuccessor
  <2> PICK tile : tile = Neighbour(Tile(n), k)
    OBVIOUS
  <2> PICK new : new = Allocated(free)
    OBVIOUS
  <2>1. /\ pc = "generate" /\ n' = n /\ back' = back /\ mGoal' = mGoal /\ RefMap' = RefMap
        /\ state' = state /\ (dropped => dropped')
    BY <1>2 DEF AddSuccessor
  <2>2. CASE ~(IsSuccessor(tile) /\ new # NULL)
    <3>1. node' = node
      BY <1>2, <2>2 DEF AddSuccessor
    <3> QED
      BY <2>1, <3>1 DEF BackInv, Ordered, Searching, ParentTile, Tile
  <2>3. CASE IsSuccessor(tile) /\ new # NULL
    <3>1. /\ \A x \in Slots \ {new} : node'[x] = node[x]
          /\ new \notin Reached \cup Pending \cup {mGoal} /\ new # n
      BY <1>2, <2>3, AddedIs
    <3>2. n \in Slots /\ n \in Reached /\ mGoal \in Slots /\ Reached \subseteq Slots
          /\ mStart \in Slots /\ Searching /\ Inner \subseteq Reached
      <4>1. Inner = closed \cup {n} /\ Reached = open \cup closed \cup {n} /\ n \in Slots
            /\ mGoal \in Slots /\ mStart \in Slots /\ Searching /\ Reached \subseteq Slots
        BY <2>1, Expanding
      <4> QED
        BY <4>1
    <3>3. Ordered
      BY <2>1, <3>1, <3>2 DEF Ordered, Searching, Tile
    <3>4. node'[n] = node[n]
      BY <3>1, <3>2
    <3>5. CASE node[n].parent = NULL
      BY <2>1, <3>3, <3>4, <3>5 DEF BackInv, ParentTile
    <3>6. CASE node[n].parent # NULL
      <4>1. node[mStart].parent = NULL
        BY <3>2 DEF Sound, StartInv
      <4>2. Linked(n)
        BY <2>1, <3>2, <3>3, <3>6, <4>1, ChainHolds, UnderSelf DEF CurrentIsLinked
      <4>3. node[n].parent \in Slots \ {new}
        BY <3>1, <3>2, <4>2 DEF Linked
      <4> QED
        BY <2>1, <3>1, <3>3, <3>4, <3>6, <4>3 DEF BackInv, ParentTile, Tile
    <3> QED
      BY <3>5, <3>6
  <2> QED
    BY <2>2, <2>3
<1>3. CASE UNCHANGED vars \/ Cancel \/ Done
  <2>1. UNCHANGED <<RefMap, node, state, mGoal, pc, n, back, dropped>>
    BY <1>3 DEF Cancel, CancelSearch, Done, vars
  <2> QED
    BY <2>1 DEF BackInv, Ordered, Searching, ParentTile, Tile
<1>4. CASE Start \/ ReadSolution \/ Free \/ FreeSolutionNode \/ LoadMap
  BY <1>4 DEF Start, SetStartAndGoalStates, ReadSolution, GetSolutionStart, GetSolutionNext,
     Free, FreeSolutionNodes, FreeSolutionNode, LoadMap, Enter, Return
<1>5. CASE GiveUp \/ \E s \in Slots : ReachGoal(s)
  BY <1>5 DEF GiveUp, ReachGoal, Enter
<1>6. CASE Working /\ ~AddSuccessor
  BY <1>6 DEF Working, SuccessorsGenerated, Relax, Expanded, LinkParent, FreeUnusedOpen,
     FreeUnusedClosed, Succeed, FreeAllListed, Fail, Enter, Return
<1> QED
  BY <1>1, <1>2, <1>3, <1>4, <1>5, <1>6 DEF Next, SearchStep

\* Every step keeps the invariant.
LEMMA NextSearchInv == SearchInv /\ [Next]_vars => SearchInv'
<1> SUFFICES ASSUME SearchInv, [Next]_vars PROVE SearchInv'
  OBVIOUS
<1>1. TypeInv /\ Phases /\ TypeInv' /\ Phases'
  BY NextTypeInv, NextPhases DEF SearchInv
<1> SUFFICES ASSUME ~spoilt' PROVE Sound' /\ BackInv'
  BY <1>1 DEF SearchInv
<1> USE DEF history
<1>2. spoilt => spoilt'
  BY SpoiltStays
<1>3. Sound /\ BackInv
  BY <1>2 DEF SearchInv
<1>4. BackInv'
  BY <1>1, <1>3, NextBackInv
<1> SUFFICES Sound'
  BY <1>4
<1>5. CASE UNCHANGED vars
  BY <1>3, <1>5, UnchangedSound DEF vars
<1>6. CASE Start \/ Cancel \/ ReadSolution \/ Free \/ FreeSolutionNode \/ LoadMap
  BY <1>1, <1>3, <1>6, StartSound, ReadingSound, FreeSound, FreeSolutionNodeSound, LoadMapSound
<1>7. CASE SearchStep
  <2>1. CASE GiveUp
    BY <1>1, <1>3, <2>1, GiveUpSound
  <2>2. ASSUME NEW s \in Slots, ReachGoal(s) PROVE Sound'
    BY <1>1, <1>3, <2>2, ReachGoalSound
  <2>3. ASSUME NEW s \in Slots, Expand(s) PROVE Sound'
    BY <1>1, <1>3, <2>3, ExpandSound
  <2> QED
    BY <1>7, <2>1, <2>2, <2>3 DEF SearchStep
<1>8. CASE AddSuccessor \/ SuccessorsGenerated \/ Relax \/ Expanded
  BY <1>1, <1>3, <1>8, AddSuccessorSound, SuccessorsGeneratedSound, RelaxSound, ExpandedSound
<1>9. CASE LinkParent \/ FreeUnusedOpen \/ FreeUnusedClosed \/ Succeed \/ FreeAllListed \/ Fail
  BY <1>1, <1>3, <1>9, LinkParentSound, FreeUnusedOpenSound, FreeUnusedClosedSound,
     SucceedSound, FreeAllListedSound, FailSound
<1> QED
  BY <1>5, <1>6, <1>7, <1>8, <1>9 DEF Next, Working, Done

\* It holds in every state of every search.
LEMMA SearchInvCorrect == Spec => []SearchInv
<1>1. Init => SearchInv
  BY InitTypeInv, InitIdle, IdleIsSound DEF SearchInv, Init, BackInv
<1> QED
  BY <1>1, NextSearchInv, PTL DEF Spec

\* What the lists, the expansion and the solution answer for is what is out.
LEMMA OwnedIsHeld == ASSUME TypeInv, Phases, Sound PROVE Owned = Held
<1>1. CASE pc = "freeSolution"
  <2>1. n \in Slots /\ Path(n)
    BY <1>1 DEF Sound, PathInv
  <2>2. mGoal \in Slots
    BY <1>1 DEF Phases, TypeInv, NodesKnown
  <2> QED
    BY <1>1, <2>1, <2>2, ChildrenAreKin DEF Owned, Held
<1>2. CASE pc # "freeSolution" /\ (HasSolution \/ pc = "freeUnused")
  <2>1. mStart \in Slots /\ mGoal \in Slots
    BY <1>2 DEF HasSolution, Phases, TypeInv, TypeOK, NodesKnown, Pointers
  <2>2. Path(mStart) \/ node[mStart].child = NULL
    BY <1>2 DEF Sound, PathInv
  <2>3. ChildrenOf(mStart) = Kin(mStart)
    BY <2>1, <2>2, ChildrenAreKin
  <2>4. HasSolution => open = {} /\ closed = {}
    BY DEF HasSolution, Sound, ListsInv
  <2> QED
    BY <1>2, <2>3, <2>4 DEF Owned, Held
<1>3. CASE pc # "freeSolution" /\ ~HasSolution /\ pc # "freeUnused"
  BY <1>3 DEF Owned, Held
<1> QED
  BY <1>1, <1>2, <1>3

\* For every pool, map and request: no node leaks and none is freed twice, and
\* m_AllocateNodeCount counts the nodes that are out (stlastar.h:602-719).
THEOREM NodesAreAccounted == Spec => []NodesAccounted
<1>1. SearchInv => NodesAccounted
  <2> SUFFICES ASSUME TypeInv, Phases, Sound
               PROVE  /\ Live = Owned /\ Len(free) = Cardinality(Listed(free))
                      /\ count = Cardinality(Live)
    BY DEF SearchInv, NodesAccounted
  <2>1. free \in Seq(Slots) /\ count \in Int /\ Distinct(free) /\ count + Len(free) = MaxNodes
        /\ Live = Held
    BY DEF TypeInv, TypeOK, Sound, PoolInv
  <2>2. /\ Len(free) = Cardinality(Listed(free))
        /\ Cardinality(Live) = MaxNodes - Len(free)
    BY <2>1, OutOfPool DEF Live
  <2>3. count = MaxNodes - Len(free)
    <3>1. Len(free) \in Nat
      BY <2>1, LenProperties
    <3>2. \A l \in Nat : count + l = MaxNodes => count = MaxNodes - l
      BY <2>1, MaxNodesAssumption
    <3> QED
      BY <2>1, <3>1, <3>2
  <2> QED
    BY <2>1, <2>2, <2>3, OwnedIsHeld
<1> QED
  BY <1>1, SearchInvCorrect, PTL

\* For every map and request: opened, closed and expanded nodes stand for different
\* tiles, so the linear searches of SearchStep (stlastar.h:275-323) find the only
\* node of a tile.
THEOREM OneNodeForATile == Spec => []OneNodePerTile
<1>1. SearchInv => OneNodePerTile
  BY DEF SearchInv, OneNodePerTile, Sound, TilesInv, Reached, SameState
<1> QED
  BY <1>1, SearchInvCorrect, PTL

\* The node that is expanded has a chain, if its f is not far.
LEMMA PoppedHasChain ==
  ASSUME TypeInv, Phases, Sound, pc \in {"generate", "relax"}, f(n) < Far, ~dropped
  PROVE  ChainOf(n)
<1>1. /\ state = "SEARCHING" /\ Searching /\ n \in Slots /\ mGoal \in Slots /\ mStart \in Slots
      /\ n \in Reached
  BY Expanding
<1>2. /\ node[mStart].parent = NULL /\ node[mStart].g = 0
      /\ \A s \in Reached \ {mStart} : Walkable(RefMap, Tile(s))
  BY <1>1 DEF Sound, StartInv
<1>3. CASE n = mStart
  <2>1. ~Linked(mStart)
    <3>1. NULL \notin Slots
      BY DEF NULL, Slots, Elements
    <3> QED
      BY <1>1, <1>2, <3>1, LinkedParent
  <2>2. \A e \in Slots : Under(mStart, e) => e = mStart
    BY <1>1, <2>1, UnderIs
  <2> QED
    BY <1>1, <1>2, <1>3, <2>2 DEF ChainOf
<1>4. CASE n # mStart
  <2>1. GoalDistanceEstimate(Tile(n), Tile(mGoal)) < Far
    <3> PICK h : h = GoalDistanceEstimate(Tile(n), Tile(mGoal))
      OBVIOUS
    <3>1. h \in Nat /\ node[n].g \in Nat
      BY <1>1, NodeType, EstimateType
    <3>2. FloatSum(node[n].g, h) < Far
      BY DEF f
    <3> QED
      BY <3>1, <3>2, FarType DEF FloatSum
  <2>2. Tile(mGoal) \in Goals
    BY <1>1 DEF Sound, TilesInv
  <2>3. Ordered
    BY <1>1, <1>2, <1>4, <2>1, <2>2, GoalIsNear DEF Ordered
  <2> QED
    BY <2>3, CurrentHasChain
<1> QED
  BY <1>3, <1>4

\* For every map and request: the parent pointers of a popped node lead to the start
\* node through closed nodes, by legal moves and with exact costs, although the
\* replacement of a closed node frees a node that children point to
\* (stlastar.h:335-347).
THEOREM PoppedChainIsSound == Spec => []PoppedChainSound
<1>1. SearchInv => PoppedChainSound
  <2> SUFFICES ASSUME TypeInv, Phases, Sound, pc \in {"generate", "relax"}, f(n) < Far, ~dropped
               PROVE  /\ ParentsOf(n) \ {n} \subseteq closed
                      /\ mStart \in ParentsOf(n)
                      /\ \A s \in ParentsOf(n) \ {mStart} :
                           LET p == node[s].parent
                           IN  /\ p # NULL
                               /\ Adjacent(Tile(p), Tile(s)) /\ Walkable(RefMap, Tile(s))
                               /\ node[s].g = node[p].g + GetCost(RefMap, Tile(p))
    BY DEF SearchInv, PoppedChainSound
  <2>1. /\ n \in Slots /\ Inner = closed \cup {n} /\ Reached = open \cup closed \cup {n}
        /\ mStart \in Slots /\ Searching
    BY Expanding
  <2>2. ChainOf(n) /\ ParentsOf(n) = {c \in Slots : Under(n, c)}
    BY <2>1, PoppedHasChain, ParentsOfChain
  <2>3. ParentsOf(n) \ {n} \subseteq closed
    BY <2>1, <2>2, UnderIs
  <2>4. mStart \in ParentsOf(n)
    BY <2>1, <2>2, ChainIsUp
  <2>5. ASSUME NEW s \in ParentsOf(n) \ {mStart}
        PROVE  LET p == node[s].parent
               IN  /\ p # NULL
                   /\ Adjacent(Tile(p), Tile(s)) /\ Walkable(RefMap, Tile(s))
                   /\ node[s].g = node[p].g + GetCost(RefMap, Tile(p))
    <3>1. Linked(s) /\ s \in Slots
      BY <2>2 DEF ChainOf
    <3>2. node[s].parent \in Slots
      BY <3>1, LinkedParent
    <3>3. Walkable(RefMap, Tile(s))
      BY <2>1, <2>3 DEF Sound, StartInv
    <3>4. node[s].parent # NULL
      BY <3>2 DEF NULL, Slots, Elements
    <3> QED
      BY <3>1, <3>3, <3>4 DEF Linked, StepCost
  <2> QED
    BY <2>3, <2>4, <2>5
<1> QED
  BY <1>1, SearchInvCorrect, PTL

\* Each tile that was reached is still, at no higher cost.
TilesKept == \A s \in Reached : \E t \in Reached' :
               node'[t].tile = Tile(s) /\ node'[t].g <= node[s].g

\* Nodes that stay where they are keep their tiles.
LEMMA SameNodesKept ==
  ASSUME TypeInv, Reached \subseteq Reached', \A s \in Reached : node'[s] = node[s]
  PROVE  TilesKept
<1>1. Reached \subseteq Slots
  <2>1. Current \subseteq Slots
    BY DEF Current, TypeInv, NodesKnown
  <2> QED
    BY <2>1 DEF Reached, TypeInv, TypeOK
<1>2. \A s \in Reached : node[s].g <= node[s].g
  BY <1>1, NodeType
<1> QED
  BY <1>2 DEF TilesKept, Tile

\* A node is replaced by a cheaper one of its tile.
LEMMA ReplacedKept ==
  ASSUME TypeInv, Phases, Sound, NEW s, NEW old, TakesPlace(s, old) PROVE TilesKept
<1>1. /\ n \in Slots /\ Reached \subseteq Slots /\ s \in Slots /\ s \notin Reached
      /\ Reached = open \cup closed \cup {n}
      /\ old # NULL => Tile(old) = Tile(s) /\ node[n].g + StepCost(n) < node[old].g
  BY Expanding DEF TakesPlace
<1>2. /\ Reached' = (Reached \ {old}) \cup {s}
      /\ \A x \in Slots \ {s} : node'[x] = node[x]
      /\ node'[s].g = node[n].g + StepCost(n) /\ Tile(s)' = Tile(s)
  BY PlaceTaken
<1>3. NULL \notin Slots
  BY DEF NULL, Slots, Elements
<1> SUFFICES ASSUME NEW x \in Reached
             PROVE  \E t \in Reached' : node'[t].tile = Tile(x) /\ node'[t].g <= node[x].g
  BY DEF TilesKept
<1>4. node[x].g \in Nat /\ node[n].g \in Nat /\ StepCost(n) \in Nat
  BY <1>1, NodeType, StepCostType
<1>5. CASE x # old
  <2>1. x \in Reached' /\ node'[x] = node[x]
    BY <1>1, <1>2, <1>5
  <2> QED
    BY <1>4, <2>1 DEF Tile
<1>6. CASE x = old
  <2>1. s \in Reached' /\ node'[s].tile = Tile(x) /\ node'[s].g <= node[x].g
    BY <1>1, <1>2, <1>3, <1>4, <1>6 DEF Tile
  <2> QED
    BY <2>1
<1> QED
  BY <1>5, <1>6

\* Until the search ends no step loses a tile.
LEMMA NextTilesKept ==
  ASSUME SearchInv, [Next]_vars, state = "SEARCHING", ~spoilt,
         pc \in {"ready", "generate", "relax"}, pc' \in {"ready", "generate", "relax"}
  PROVE  TilesKept
<1> USE DEF pool, lists, locals, history
<1>1. TypeInv /\ Phases /\ Sound
  BY DEF SearchInv
<1>2. CASE UNCHANGED <<node, open, closed, pc, n>>
  <2>1. Reached' = Reached
    BY <1>2 DEF Reached, Current
  <2> QED
    BY <1>1, <1>2, <2>1, SameNodesKept
<1>3. CASE \E s \in Slots : Expand(s)
  <2> PICK s : Expand(s) /\ pc = "ready"
    BY <1>3 DEF Expand
  <2>1. Reached' = Reached /\ node' = node
    BY DEF Expand, Enter, Reached, Current, Best
  <2> QED
    BY <1>1, <2>1, SameNodesKept
<1>4. CASE AddSuccessor
  <2> PICK new : new = Allocated(free)
    OBVIOUS
  <2>1. Reached' = Reached
    BY <1>4 DEF AddSuccessor, Reached, Current
  <2>2. new # NULL => new \notin Reached
    <3>1. /\ free \in Seq(Slots) /\ count \in Int /\ Distinct(free)
          /\ count + Len(free) = MaxNodes /\ Slots \ Listed(free) = Held
      BY <1>1 DEF TypeInv, TypeOK, Sound, PoolInv, Live
    <3>2. new # NULL => new \in Slots \ Held
      BY <3>1, PoolTaken
    <3>3. Reached \subseteq Held
      BY <1>1, <1>4, Expanding DEF AddSuccessor
    <3> QED
      BY <3>2, <3>3
  <2>3. node' = node \/ (new # NULL /\ \E v : node' = [node EXCEPT ![new] = v])
    BY <1>4 DEF AddSuccessor
  <2>4. \A s \in Reached : node'[s] = node[s]
    <3>1. Reached \subseteq Slots
      BY <1>1, <1>4, Expanding DEF AddSuccessor
    <3> QED
      BY <1>1, <2>2, <2>3, <3>1 DEF TypeInv, TypeOK
  <2> QED
    BY <1>1, <2>1, <2>4, SameNodesKept
<1>5. CASE SuccessorsGenerated
  <2>1. Reached' = Reached /\ node' = node
    BY <1>5 DEF SuccessorsGenerated, Enter, Reached, Current
  <2> QED
    BY <1>1, <2>1, SameNodesKept
<1>6. CASE Relax
  <2> PICK s : s = succ[k]
    OBVIOUS
  <2> PICK newg : newg = node[n].g + StepCost(n)
    OBVIOUS
  <2> PICK onOpen : onOpen = Found(open, Tile(s))
    OBVIOUS
  <2> PICK onClosed : onClosed = Found(closed, Tile(s))
    OBVIOUS
  <2>1. CASE AsGood(onOpen, newg) \/ AsGood(onClosed, newg)
    <3>1. UNCHANGED <<node, open, closed, pc, n>>
      BY <1>6, <2>1 DEF Relax, StepCost
    <3> QED
      BY <1>2, <3>1
  <2>2. CASE ~(AsGood(onOpen, newg) \/ AsGood(onClosed, newg))
    <3>1. \E old \in Pointers : TakesPlace(s, old)
      BY <1>1, <1>6, <2>2, RelaxReplaces
    <3> QED
      BY <1>1, <3>1, ReplacedKept
  <2> QED
    BY <2>1, <2>2
<1>7. CASE Expanded
  <2>1. Reached' = Reached /\ node' = node
    BY <1>7 DEF Expanded, Return, Reached, Current
  <2> QED
    BY <1>1, <2>1, SameNodesKept
<1>8. CASE Cancel \/ Done \/ UNCHANGED vars
  BY <1>2, <1>8 DEF Cancel, CancelSearch, Done, vars
<1>9. ~Start /\ ~ReadSolution /\ ~Free /\ ~FreeSolutionNode /\ ~LoadMap
  BY DEF Start, ReadSolution, HasSolution, Free, FreeSolutionNode, LoadMap
<1>10. ~GiveUp /\ \A s \in Slots : ~ReachGoal(s)
  BY DEF GiveUp, ReachGoal, Enter
<1>11. ~LinkParent /\ ~FreeUnusedOpen /\ ~FreeUnusedClosed /\ ~Succeed /\ ~FreeAllListed /\ ~Fail
  BY DEF LinkParent, FreeUnusedOpen, FreeUnusedClosed, Succeed, FreeAllListed, Fail
<1> QED
  BY <1>2, <1>3, <1>4, <1>5, <1>6, <1>7, <1>8, <1>9, <1>10, <1>11
  DEF Next, SearchStep, Working

\* For every map and request: a tile that was reached is never lost, and its cost
\* never grows, until the search ends (stlastar.h:265-374).
THEOREM TilesAreKept == Spec => ReachedTilesKept
<1>1. SearchInv /\ [Next]_vars =>
        [ /\ state = "SEARCHING" /\ pc \in {"ready", "generate", "relax"}
          /\ pc' \in {"ready", "generate", "relax"} /\ ~spoilt
          => TilesKept ]_vars
  BY NextTilesKept
<1>2. SearchInv /\ [Next]_vars =>
        [ /\ state = "SEARCHING" /\ pc \in {"ready", "generate", "relax"}
          /\ pc' \in {"ready", "generate", "relax"} /\ ~spoilt
          => \A s \in Reached : \E t \in Reached' :
               node'[t].tile = Tile(s) /\ node'[t].g <= node[s].g ]_vars
  BY <1>1 DEF TilesKept
<1> QED
  BY <1>2, SearchInvCorrect, PTL DEF Spec, ReachedTilesKept

-----------------------------------------------------------------------------
(* What a search has explored.                                             *)

\* A move from c to the tile was made, and nothing that costs more is kept for it.
Reaches(c, tile) ==
  \E r \in Reached : Tile(r) = tile /\ node[r].g <= node[c].g + StepCost(c)

\* Every move from a closed node was made; those of the current one are made or to come.
Explored ==
  /\ \A c \in closed, tile \in Int \X Int :
       Walkable(RefMap, tile) /\ Adjacent(Tile(c), tile) => Reaches(c, tile)
  /\ pc \in {"generate", "relax"} =>
       \A tile \in Int \X Int :
         Walkable(RefMap, tile) /\ Adjacent(Tile(n), tile) => Reaches(n, tile) \/ Coming(tile)

\* No node of the goal's tile was expanded.
GoalAhead == \A c \in Inner : Tile(c) # Tile(mGoal)

ExploredInv == Searching /\ ~spoilt => GoalAhead /\ (Ordered => Explored)

\* A move that was made stays made while nodes keep their fields.
LEMMA ReachesKept ==
  ASSUME TypeInv, TypeInv', TilesKept, RefMap' = RefMap, NEW c \in Slots, node'[c] = node[c],
         Reached \subseteq Slots, Reached' \subseteq Slots,
         NEW tile, Reaches(c, tile)
  PROVE  \E r \in Reached' : node'[r].tile = tile /\ node'[r].g <= node'[c].g + StepCost(c)
<1> PICK r \in Reached : Tile(r) = tile /\ node[r].g <= node[c].g + StepCost(c)
  BY DEF Reaches
<1> PICK t \in Reached' : node'[t].tile = Tile(r) /\ node'[t].g <= node[r].g
  BY DEF TilesKept
<1>1. node[r].g \in Nat /\ node[c].g \in Nat /\ StepCost(c) \in Nat
  BY NodeType, StepCostType
<1> PICK new : new = node'[t].g
  OBVIOUS
<1>2. new \in Nat
  BY DEF TypeInv, TypeOK, Nodes
<1>3. new <= node[c].g + StepCost(c)
  BY <1>1, <1>2
<1> QED
  BY <1>3

\* What the steps of a search that goes on have in common.
Onward ==
  /\ SearchInv /\ TypeInv' /\ Searching /\ Searching' /\ ~spoilt /\ TilesKept
  /\ RefMap' = RefMap /\ mGoal' = mGoal /\ node'[mGoal] = node[mGoal]
  /\ \A c \in Inner : node'[c] = node[c]
  /\ dropped => dropped'

\* The sets of nodes in such a step.
LEMMA OnwardIs ==
  ASSUME Onward
  PROVE  /\ TypeInv /\ Phases /\ Sound
         /\ Reached \subseteq Slots /\ Reached' \subseteq Slots /\ Inner \subseteq Slots
         /\ closed \subseteq Inner /\ mGoal \in Slots
         /\ Tile(mGoal)' = Tile(mGoal)
         /\ \A c \in Inner : Tile(c)' = Tile(c)
         /\ Ordered' => Ordered
         /\ \A c \in Inner : \A tile : Reaches(c, tile) => Reaches(c, tile)'
<1>1. TypeInv /\ Phases /\ Sound
  BY DEF Onward, SearchInv
<1>2. Current \subseteq Slots /\ Current' \subseteq Slots
  BY DEF Onward, Current, SearchInv, TypeInv, NodesKnown
<1>3. Reached \subseteq Slots /\ Reached' \subseteq Slots /\ Inner \subseteq Slots
  BY <1>1, <1>2 DEF Onward, Reached, Inner, TypeInv, TypeOK
<1>4. closed \subseteq Inner /\ mGoal \in Slots
  BY <1>1 DEF Onward, Inner, Phases, Searching
<1>5. /\ Tile(mGoal)' = Tile(mGoal)
      /\ \A c \in Inner : Tile(c)' = Tile(c)
  BY DEF Onward, Tile
<1>6. Ordered' => Ordered
  BY <1>5 DEF Onward, Ordered
<1>7. ASSUME NEW c \in Inner, NEW tile, Reaches(c, tile) PROVE Reaches(c, tile)'
  <2>1. \E r \in Reached' : node'[r].tile = tile /\ node'[r].g <= node'[c].g + StepCost(c)
    BY <1>1, <1>3, <1>7, ReachesKept DEF Onward
  <2>2. StepCost(c)' = StepCost(c)
    BY <1>5 DEF StepCost, Onward
  <2> QED
    BY <2>1, <2>2 DEF Reaches, Tile
<1> QED
  BY <1>1, <1>3, <1>4, <1>5, <1>6, <1>7

\* A step that moves no node and no index.
LEMMA IdleExplored ==
  ASSUME Onward, ExploredInv, UNCHANGED <<node, open, closed, succ, pc, n, k>>
  PROVE  ExploredInv'
<1>1. GoalAhead /\ (Ordered => Explored)
  BY DEF Onward, ExploredInv
<1>2. /\ Reached' = Reached /\ Inner' = Inner /\ Pending' = Pending
      /\ mGoal' = mGoal /\ RefMap' = RefMap
  BY DEF Reached, Inner, Current, Pending, Onward
<1>3. GoalAhead'
  BY <1>1, <1>2 DEF GoalAhead, Tile
<1>4. Explored => Explored'
  BY <1>2 DEF Explored, Reaches, Coming, Tile, StepCost
<1> QED
  BY <1>1, <1>3, <1>4, OnwardIs DEF ExploredInv

\* The moves from a node that is expanded are all to come.
LEMMA ExpandExplored ==
  ASSUME Onward, ExploredInv, NEW s \in Slots, Expand(s) PROVE ExploredInv'
<1>1. GoalAhead /\ (Ordered => Explored)
  BY DEF Onward, ExploredInv
<1>2. /\ pc = "ready" /\ pc' = "generate" /\ n' = s /\ k' = 1 /\ closed' = closed
      /\ node' = node /\ Tile(s) # Tile(mGoal)
  BY DEF Expand, Enter, SameState
<1>3. Inner' = closed \cup {s} /\ Inner = closed
  BY <1>2 DEF Inner, Current
<1>4. GoalAhead'
  BY <1>1, <1>2, <1>3, OnwardIs DEF GoalAhead, Tile
<1>5. ASSUME Explored PROVE Explored'
  <2>1. ASSUME NEW c \in closed', NEW tile \in Int \X Int, Walkable(RefMap', tile),
               Adjacent(node'[c].tile, tile)
        PROVE  Reaches(c, tile)'
    BY <1>2, <1>3, <1>5, <2>1, OnwardIs DEF Explored, Onward, Tile
  <2>2. ASSUME NEW tile \in Int \X Int, Adjacent(node'[s].tile, tile) PROVE Coming(tile)'
    <3>1. PICK j \in DOMAIN Moves : tile = Neighbour(node'[s].tile, j)
      BY <2>2 DEF Adjacent
    <3>2. j \in 1 .. 8
      BY MovesAre
    <3>3. j >= 1
      BY <3>2
    <3>4. Neighbour(Tile(n), j)' = Neighbour(node'[s].tile, j)
      BY <1>2 DEF Tile
    <3> QED
      BY <1>2, <3>1, <3>3, <3>4 DEF Coming
  <2> QED
    BY <1>2, <2>1, <2>2 DEF Explored, Tile
<1> QED
  BY <1>1, <1>4, <1>5, OnwardIs DEF ExploredInv

\* A move adds a successor, or its tile was reached, or the nodes have run out.
LEMMA AddExplored ==
  ASSUME Onward, ExploredInv, AddSuccessor PROVE ExploredInv'
<1> USE DEF pool, lists, locals, history
<1> PICK tile : tile = Neighbour(Tile(n), k)
  OBVIOUS
<1> PICK new : new = Allocated(free)
  OBVIOUS
<1>1. GoalAhead /\ (Ordered => Explored) /\ ~spoilt
  BY DEF Onward, ExploredInv
<1>2. TypeInv /\ Phases /\ Sound /\ RefMap' = RefMap
  BY OnwardIs DEF Onward
<1>3. /\ pc = "generate" /\ pc' = "generate" /\ n' = n /\ k' = k + 1 /\ closed' = closed
      /\ open' = open /\ k \in 1 .. 8 /\ n \in Slots /\ Inner = closed \cup {n} /\ Searching
      /\ Reached \subseteq Slots /\ Reached = open \cup closed \cup {n}
      /\ succ \in Seq(Slots) /\ DOMAIN succ = 1 .. Len(succ)
  BY <1>2, MovesAre, Expanding DEF AddSuccessor
<1>4. Inner' = Inner
  BY <1>3 DEF Inner, Current
<1>5. GoalAhead'
  BY <1>1, <1>4, OnwardIs DEF GoalAhead
<1>6. ASSUME Ordered, Explored, ~dropped' PROVE Explored'
  <2>1. ASSUME NEW c \in closed', NEW t \in Int \X Int, Walkable(RefMap', t),
               Adjacent(node'[c].tile, t)
        PROVE  Reaches(c, t)'
    BY <1>2, <1>3, <1>6, <2>1, OnwardIs DEF Explored, Tile
  <2>2. ASSUME NEW t \in Int \X Int, Walkable(RefMap', t), Adjacent(node'[n].tile, t)
        PROVE  Reaches(n, t)' \/ Coming(t)'
    <3>1. Reaches(n, t) \/ Coming(t)
      BY <1>2, <1>3, <1>6, <2>2, OnwardIs DEF Explored, Tile
    <3>2. CASE Reaches(n, t)
      BY <1>3, <3>2, OnwardIs
    <3>3. Tile(n)' = Tile(n)
      BY <1>3, OnwardIs DEF Tile
    <3>4. /\ Pending \subseteq Slots
          /\ Pending \subseteq Pending' /\ \A s \in Pending : node'[s].tile = Tile(s)
          /\ IsSuccessor(tile) => \E s \in Pending' : node'[s].tile = tile
      <4>1. Pending \subseteq Slots
        BY <1>3 DEF Pending
      <4>2. CASE IsSuccessor(tile) /\ new # NULL
        <5>1. /\ Pending' = Pending \cup {new} /\ new \notin Pending
              /\ \A x \in Slots \ {new} : node'[x] = node[x]
              /\ node'[new] = NewNode(tile)
          BY <1>2, <4>2, AddedIs
        <5> QED
          BY <4>1, <5>1 DEF Tile, NewNode
      <4>3. CASE ~IsSuccessor(tile)
        <5>1. succ' = succ /\ node' = node
          BY <4>3 DEF AddSuccessor
        <5>2. Pending' = Pending
          BY <1>3, <5>1 DEF Pending
        <5> QED
          BY <4>1, <4>3, <5>1, <5>2 DEF Tile
      <4>4. ~(IsSuccessor(tile) /\ new = NULL)
        BY <1>6 DEF AddSuccessor
      <4> QED
        BY <4>2, <4>3, <4>4
    <3>5. CASE \E s \in Pending : Tile(s) = t
      BY <3>4, <3>5 DEF Coming, Tile
    <3>6. ASSUME NEW j \in DOMAIN Moves, j >= k, t = Neighbour(Tile(n), j)
          PROVE  Reaches(n, t)' \/ Coming(t)'
      <4>1. j \in 1 .. 8
        BY MovesAre
      <4>2. CASE j # k
        <5>1. j >= k + 1
          BY <1>3, <3>6, <4>1, <4>2
        <5> QED
          BY <1>3, <3>3, <3>6, <5>1 DEF Coming
      <4>3. CASE j = k /\ IsSuccessor(tile)
        BY <3>4, <3>6, <4>3 DEF Coming, Tile
      <4>4. CASE j = k /\ ~IsSuccessor(tile)
        <5>1. node[n].parent # NULL /\ Tile(node[n].parent) = t
          BY <1>2, <1>3, <1>6, <2>2, <3>6, <4>4, NoTileIsOutside
          DEF IsSuccessor, BackInv, ParentTile, Onward, SearchInv
        <5>2. node[mStart].parent = NULL
          BY <1>2, <1>3 DEF Sound, StartInv
        <5>3. Linked(n)
          BY <1>2, <1>3, <1>6, <5>1, <5>2, ChainHolds, UnderSelf DEF CurrentIsLinked
        <5>4. node[n].parent \in Reached /\ node[node[n].parent].g < node[n].g
          BY <1>2, <1>3, <5>3, LinkedParent DEF Linked
        <5>5. node[node[n].parent].g \in Nat /\ node[n].g \in Nat /\ StepCost(n) \in Nat
          BY <1>2, <1>3, <5>4, NodeType, StepCostType
        <5>6. node[node[n].parent].g <= node[n].g + StepCost(n)
          BY <5>4, <5>5
        <5>7. Reaches(n, t)
          BY <5>1, <5>4, <5>6 DEF Reaches
        <5> QED
          BY <1>3, <5>7, OnwardIs
      <4> QED
        BY <4>2, <4>3, <4>4
    <3> QED
      BY <3>1, <3>2, <3>5, <3>6 DEF Coming
  <2> QED
    BY <1>3, <2>1, <2>2 DEF Explored, Tile
<1> QED
  BY <1>1, <1>5, <1>6, OnwardIs DEF ExploredInv, Ordered

\* The moves to come are numbered, so that after the last the rest are successors.
LEMMA GeneratedExplored ==
  ASSUME Onward, ExploredInv, SuccessorsGenerated PROVE ExploredInv'
<1> USE DEF pool, lists, locals, history
<1>1. GoalAhead /\ (Ordered => Explored) /\ ~spoilt
  BY DEF Onward, ExploredInv
<1>2. TypeInv /\ Phases /\ Sound /\ RefMap' = RefMap
  BY OnwardIs DEF Onward
<1>3. /\ pc = "generate" /\ pc' = "relax" /\ n' = n /\ k' = 1 /\ closed' = closed
      /\ node' = node /\ succ' = succ /\ k \notin 1 .. 8 /\ k \in Nat /\ k >= 1
      /\ Inner = closed \cup {n} /\ DOMAIN succ = 1 .. Len(succ)
  BY <1>2, MovesAre, Expanding DEF SuccessorsGenerated, Enter
<1>4. Inner' = Inner
  BY <1>3 DEF Inner, Current
<1>5. GoalAhead'
  BY <1>1, <1>4, OnwardIs DEF GoalAhead
<1>6. ASSUME NEW tile, Coming(tile) PROVE Coming(tile)'
  <2>1. \A j \in 1 .. 8 : ~(j >= k)
    BY <1>3
  <2>2. PICK s \in Pending : Tile(s) = tile
    BY <1>3, <1>6, <2>1, MovesAre DEF Coming
  <2>3. Pending' = Pending
    BY <1>3 DEF Pending
  <2> QED
    BY <1>3, <2>2, <2>3 DEF Coming, Tile
<1>7. ASSUME Explored PROVE Explored'
  <2>1. ASSUME NEW c \in closed', NEW t \in Int \X Int, Walkable(RefMap', t),
               Adjacent(node'[c].tile, t)
        PROVE  Reaches(c, t)'
    BY <1>2, <1>3, <1>7, <2>1, OnwardIs DEF Explored, Tile
  <2>2. ASSUME NEW t \in Int \X Int, Walkable(RefMap', t), Adjacent(node'[n].tile, t)
        PROVE  Reaches(n, t)' \/ Coming(t)'
    <3>1. Reaches(n, t) \/ Coming(t)
      BY <1>2, <1>3, <1>7, <2>2, OnwardIs DEF Explored, Tile
    <3> QED
      BY <1>3, <1>6, <3>1, OnwardIs
  <2> QED
    BY <1>3, <2>1, <2>2 DEF Explored, Tile
<1> QED
  BY <1>1, <1>5, <1>7, OnwardIs DEF ExploredInv

\* A successor is dropped for a node that is as good, or takes its place.
LEMMA RelaxExplored ==
  ASSUME Onward, ExploredInv, Relax PROVE ExploredInv'
<1> USE DEF pool, lists, locals, history
<1> PICK s : s = succ[k]
  OBVIOUS
<1> PICK newg : newg = node[n].g + StepCost(n)
  OBVIOUS
<1> PICK onOpen : onOpen = Found(open, Tile(s))
  OBVIOUS
<1> PICK onClosed : onClosed = Found(closed, Tile(s))
  OBVIOUS
<1>1. GoalAhead /\ (Ordered => Explored) /\ ~spoilt
  BY DEF Onward, ExploredInv
<1>2. TypeInv /\ Phases /\ Sound /\ RefMap' = RefMap
  BY OnwardIs DEF Onward
<1>3. /\ pc = "relax" /\ pc' = "relax" /\ n' = n /\ n \in Slots
      /\ s \in Pending /\ Pending \subseteq Slots /\ s \notin Reached /\ s # n
      /\ Pending' = Pending \ {s}
      /\ Inner = closed \cup {n} /\ open \subseteq Slots /\ closed \subseteq Slots
      /\ Reached = open \cup closed \cup {n}
  BY <1>2, RelaxIs, Expanding DEF Relax
<1>4. /\ closed' \subseteq closed /\ \A x \in Slots \ {s} : node'[x] = node[x]
      /\ Reaches(n, Tile(s))' /\ Tile(s)' = Tile(s)
  <2>1. CASE AsGood(onOpen, newg) \/ AsGood(onClosed, newg)
    <3>1. UNCHANGED <<node, open, closed>>
      BY <2>1 DEF Relax, StepCost
    <3>2. PICK r \in Reached : Tile(r) = Tile(s) /\ node[r].g <= newg
      <4>1. CASE AsGood(onOpen, newg)
        <5>1. onOpen \in open /\ Tile(onOpen) = Tile(s) /\ node[onOpen].g <= newg
          BY <1>3, <4>1, FoundIs DEF AsGood
        <5> QED
          BY <1>3, <5>1
      <4>2. CASE AsGood(onClosed, newg)
        <5>1. onClosed \in closed /\ Tile(onClosed) = Tile(s) /\ node[onClosed].g <= newg
          BY <1>3, <4>2, FoundIs DEF AsGood
        <5> QED
          BY <1>3, <5>1
      <4> QED
        BY <2>1, <4>1, <4>2
    <3>3. Reaches(n, Tile(s))
      BY <3>2 DEF Reaches
    <3>4. Tile(s)' = Tile(s)
      BY <3>1 DEF Tile
    <3>5. s' = s /\ n' = n
      BY <1>3
    <3> PICK tile : tile = Tile(s)
      OBVIOUS
    <3>6. Reaches(n, tile)'
      BY <1>3, <3>3, OnwardIs
    <3> QED
      BY <3>1, <3>4, <3>6
  <2>2. CASE ~(AsGood(onOpen, newg) \/ AsGood(onClosed, newg))
    <3>1. PICK old \in Pointers : TakesPlace(s, old)
      BY <1>2, <2>2, RelaxReplaces
    <3>2. /\ closed' \subseteq closed
          /\ Reached' = (Reached \ {old}) \cup {s} /\ \A x \in Slots \ {s} : node'[x] = node[x]
          /\ node'[s].g = newg /\ Tile(s)' = Tile(s)
      BY <1>2, <3>1, PlaceTaken DEF TakesPlace
    <3>3. node'[n] = node[n] /\ StepCost(n)' = StepCost(n)
      BY <1>2, <1>3, <3>2 DEF StepCost, Tile
    <3>4. newg \in Nat
      BY <1>2, <1>3, NodeType, StepCostType
    <3>5. newg <= newg
      BY <3>4
    <3>6. node'[s].g <= node'[n].g + StepCost(n)'
      BY <3>2, <3>3, <3>5
    <3> QED
      BY <1>3, <3>2, <3>6 DEF Reaches, Tile
  <2> QED
    BY <2>1, <2>2
<1>5. Inner' \subseteq Inner
  BY <1>3, <1>4 DEF Inner, Current
<1>6. GoalAhead'
  BY <1>1, <1>5, OnwardIs DEF GoalAhead
<1>7. ASSUME Explored PROVE Explored'
  <2>1. ASSUME NEW c \in closed', NEW t \in Int \X Int, Walkable(RefMap', t),
               Adjacent(node'[c].tile, t)
        PROVE  Reaches(c, t)'
    BY <1>2, <1>3, <1>4, <1>7, <2>1, OnwardIs DEF Explored, Tile
  <2>2. ASSUME NEW t \in Int \X Int, Walkable(RefMap', t), Adjacent(node'[n].tile, t)
        PROVE  Reaches(n, t)' \/ Coming(t)'
    <3>1. Reaches(n, t) \/ Coming(t)
      BY <1>2, <1>3, <1>7, <2>2, OnwardIs DEF Explored, Tile
    <3>2. CASE Reaches(n, t)
      BY <1>3, <3>2, OnwardIs
    <3>3. ASSUME NEW p \in Pending, Tile(p) = t PROVE Reaches(n, t)' \/ Coming(t)'
      <4>1. CASE p = s
        BY <1>3, <1>4, <3>3, <4>1 DEF Tile, Reaches
      <4>2. CASE p # s
        BY <1>3, <1>4, <3>3, <4>2 DEF Coming, Tile
      <4> QED
        BY <4>1, <4>2
    <3> QED
      BY <1>3, <3>1, <3>2, <3>3 DEF Coming
  <2> QED
    BY <1>3, <2>1, <2>2 DEF Explored, Tile
<1> QED
  BY <1>1, <1>6, <1>7, OnwardIs DEF ExploredInv

\* A node is closed when all its moves were made.
LEMMA ExpandedExplored ==
  ASSUME Onward, ExploredInv, Expanded PROVE ExploredInv'
<1> USE DEF pool, lists, locals, history
<1>1. GoalAhead /\ (Ordered => Explored) /\ ~spoilt
  BY DEF Onward, ExploredInv
<1>2. TypeInv /\ Phases /\ Sound /\ RefMap' = RefMap
  BY OnwardIs DEF Onward
<1>3. /\ pc = "relax" /\ pc' = "ready" /\ closed' = closed \cup {n}
      /\ node' = node /\ k \notin DOMAIN succ /\ k \in Nat /\ k >= 1
      /\ Inner = closed \cup {n} /\ DOMAIN succ = 1 .. Len(succ) /\ Len(succ) \in Nat
  BY <1>2, Expanding DEF Expanded, Return
<1>4. Inner' = Inner
  BY <1>3 DEF Inner, Current
<1>5. GoalAhead'
  BY <1>1, <1>4, OnwardIs DEF GoalAhead
<1>6. Pending = {}
  <2> PICK l \in Nat : l = Len(succ)
    BY <1>3
  <2>1. k .. l = {}
    BY <1>3
  <2> QED
    BY <1>3, <2>1 DEF Pending
<1>7. ASSUME Explored PROVE Explored'
  <2>1. ASSUME NEW c \in closed', NEW t \in Int \X Int, Walkable(RefMap', t),
               Adjacent(node'[c].tile, t)
        PROVE  Reaches(c, t)'
    <3>1. Reaches(c, t)
      BY <1>2, <1>3, <1>6, <1>7, <2>1 DEF Explored, Coming, Tile
    <3> QED
      BY <1>3, <2>1, <3>1, OnwardIs
  <2> QED
    BY <1>3, <2>1 DEF Explored, Tile
<1> QED
  BY <1>1, <1>5, <1>7, OnwardIs DEF ExploredInv

\* Every step of the search keeps to it.
LEMMA NextExplored ==
  ASSUME SearchInv, SearchInv', ExploredInv, [Next]_vars PROVE ExploredInv'
<1> USE DEF pool, lists, locals, history
<1>1. SUFFICES ASSUME Searching', ~spoilt' PROVE ExploredInv'
  BY DEF ExploredInv
<1>2. ~spoilt
  BY <1>1 DEF Next, Start, SetStartAndGoalStates, Cancel, CancelSearch, SearchStep, GiveUp,
     ReachGoal, Expand, Working, AddSuccessor, SuccessorsGenerated, Relax, Expanded, LinkParent,
     FreeUnusedOpen, FreeUnusedClosed, Succeed, FreeAllListed, Fail, ReadSolution, Free,
     GetSolutionStart, GetSolutionNext, FreeSolutionNodes, FreeSolutionNode, LoadMap, Done, vars
<1>3. CASE Start
  <2>1. closed' = {} /\ pc' = "ready"
    BY <1>2, <1>3 DEF Start, SetStartAndGoalStates, SearchInv, Sound, ListsInv
  <2> QED
    BY <2>1 DEF ExploredInv, GoalAhead, Explored, Inner, Current
<1>4. CASE ~Start
  <2>1. ~GiveUp /\ \A s \in Slots : ~ReachGoal(s)
    BY <1>1 DEF GiveUp, ReachGoal, Enter, Searching
  <2>2. ~LinkParent /\ ~FreeUnusedOpen /\ ~FreeUnusedClosed /\ ~Succeed /\ ~FreeAllListed /\ ~Fail
    BY <1>1 DEF LinkParent, FreeUnusedOpen, FreeUnusedClosed, Succeed, FreeAllListed, Fail,
                Searching, Enter
  <2>3. ~ReadSolution /\ ~Free /\ ~FreeSolutionNode /\ ~LoadMap /\ ~Done
    BY <1>1 DEF ReadSolution, HasSolution, Free, FreeSolutionNode, LoadMap, Done, Searching,
                GetSolutionStart, GetSolutionNext, FreeSolutionNodes, SearchInv, Phases, vars
  <2>4. \/ AddSuccessor \/ SuccessorsGenerated \/ Relax \/ Expanded
        \/ Cancel \/ (\E s \in Slots : Expand(s)) \/ UNCHANGED vars
    BY <1>4, <2>1, <2>2, <2>3 DEF Next, Working, SearchStep
  <2>5. state = "SEARCHING" /\ pc \in {"ready", "generate", "relax"} /\ Searching
    BY <1>1, <2>4 DEF AddSuccessor, SuccessorsGenerated, Relax, Expanded, Cancel, CancelSearch,
                      Expand, vars, Searching
  <2>6. TilesKept /\ TypeInv /\ Phases /\ Sound
    BY <1>1, <1>2, <2>5, NextTilesKept DEF Searching, SearchInv
  <2>7. RefMap' = RefMap /\ mGoal' = mGoal /\ (dropped => dropped')
    BY <2>4 DEF AddSuccessor, SuccessorsGenerated, Relax, Expanded, Cancel, CancelSearch,
                Expand, vars
  <2>8. \A x \in Inner \cup {mGoal} : node'[x] = node[x]
    <3>1. mGoal \in Slots
      BY <2>5, <2>6 DEF Phases
    <3>2. CASE AddSuccessor
      <4> PICK new : new = Allocated(free)
        OBVIOUS
      <4> PICK tile : tile = Neighbour(Tile(n), k)
        OBVIOUS
      <4>1. CASE IsSuccessor(tile) /\ new # NULL
        <5>1. /\ \A x \in Slots \ {new} : node'[x] = node[x]
              /\ new \notin Reached \cup {mGoal}
          BY <2>6, <3>2, <4>1, AddedIs
        <5>2. Inner \subseteq Reached /\ Reached \subseteq Slots
          BY <2>6, <3>2, Expanding DEF AddSuccessor
        <5> QED
          BY <3>1, <5>1, <5>2
      <4>2. CASE ~(IsSuccessor(tile) /\ new # NULL)
        BY <3>2, <4>2 DEF AddSuccessor
      <4> QED
        BY <4>1, <4>2
    <3>3. CASE Relax
      <4> PICK s : s = succ[k]
        OBVIOUS
      <4>1. s \notin Reached \cup {mGoal}
        BY <2>6, <3>3, RelaxIs
      <4>2. Inner \subseteq Reached /\ Reached \subseteq Slots
        BY <2>6, <3>3, Expanding DEF Relax
      <4>3. \A x \in Slots : x # s => node'[x] = node[x]
        BY <2>6, <3>3 DEF Relax, TypeInv, TypeOK
      <4> QED
        BY <3>1, <4>1, <4>2, <4>3
    <3>4. CASE ~AddSuccessor /\ ~Relax
      BY <2>4, <3>4 DEF SuccessorsGenerated, Expanded, Cancel, CancelSearch, Expand, vars
    <3> QED
      BY <3>2, <3>3, <3>4
  <2>9. Onward
    BY <1>1, <1>2, <2>5, <2>6, <2>7, <2>8 DEF Onward, SearchInv
  <2>10. CASE Cancel \/ UNCHANGED vars
    BY <2>9, <2>10, IdleExplored DEF Cancel, CancelSearch, vars
  <2> QED
    BY <2>4, <2>9, <2>10, AddExplored, GeneratedExplored, RelaxExplored, ExpandedExplored,
       ExpandExplored
<1> QED
  BY <1>3, <1>4

\* It holds in every state of every search.
LEMMA ExploredCorrect == Spec => []ExploredInv
<1>1. Init => ExploredInv
  BY DEF Init, ExploredInv, Searching
<1> QED
  BY <1>1, NextExplored, SearchInvCorrect, PTL DEF Spec
-----------------------------------------------------------------------------
(* A pool that is large enough.                                            *)

\* Nodes for every tile of a map, for the start and the goal, and for the
\* successors of an expansion.
EnoughNodes == \A map \in Maps : Cardinality(DOMAIN map) + 10 <= MaxNodes

\* No allocation has failed; every successor that was added is one of the moves.
RoomInv == /\ ~spoilt /\ ~dropped
           /\ pc = "generate" => k \in 1 .. 9 /\ Len(succ) < k

\* Two sets have together no more elements than each by itself.
LEMMA UnionSize ==
  ASSUME NEW S, IsFiniteSet(S), NEW T, IsFiniteSet(T)
  PROVE  /\ IsFiniteSet(S \cup T)
         /\ Cardinality(S \cup T) <= Cardinality(S) + Cardinality(T)
<1>1. IsFiniteSet(S \cap T)
  BY FS_Subset, S \cap T \in SUBSET S
<1>2. /\ IsFiniteSet(S \cup T)
      /\ Cardinality(S \cup T) = Cardinality(S) + Cardinality(T) - Cardinality(S \cap T)
  BY FS_Union
<1>3. Cardinality(S) \in Nat /\ Cardinality(T) \in Nat /\ Cardinality(S \cap T) \in Nat
  BY <1>1, FS_CardinalityType
<1> QED
  BY <1>2, <1>3

\* The nodes that were reached are no more than the tiles, and the start node.
LEMMA ReachedIsSmall ==
  ASSUME TypeInv, Phases, Sound, pc = "generate"
  PROVE  IsFiniteSet(Reached) /\ Cardinality(Reached) <= Cardinality(DOMAIN RefMap) + 1
<1>1. /\ Searching /\ state = "SEARCHING" /\ mStart \in Slots /\ Reached \subseteq Slots
  BY Expanding
<1> DEFINE S == Reached \ {mStart}
           T == DOMAIN RefMap
           F == [s \in S |-> Tile(s)]
<1>2. IsFiniteSet(T) /\ Cardinality(T) \in Nat
  BY MapsAssumption, FS_CardinalityType DEF TypeInv, TypeOK
<1>3. F \in Injection(S, T)
  <2>1. \A s \in S : Walkable(RefMap, Tile(s))
    BY <1>1 DEF Sound, StartInv
  <2>2. \A s \in S : Tile(s) \in T
    BY <2>1, WalkableOnMap
  <2>3. \A s, t \in S : Tile(s) = Tile(t) => s = t
    BY <1>1 DEF Sound, TilesInv
  <2> HIDE DEF S, T
  <2>4. F \in [S -> T]
    BY <2>2
  <2>5. \A s, t \in S : F[s] = F[t] => s = t
    BY <2>3
  <2> QED
    BY <2>4, <2>5 DEF Injection, IsInjective
<1>4. IsFiniteSet(S) /\ Cardinality(S) <= Cardinality(T)
  <2> HIDE DEF S, T, F
  <2> QED
    BY <1>2, <1>3, FS_Injection
<1>5. IsFiniteSet(S) /\ Cardinality(S) \in Nat
  <2> HIDE DEF S
  <2> QED
    BY <1>4, FS_CardinalityType
<1>6. /\ IsFiniteSet(S \cup {mStart})
      /\ Cardinality(S \cup {mStart}) <= Cardinality(S) + 1
  <2> HIDE DEF S
  <2> QED
    BY <1>5, FS_AddElement
<1>7. Reached \in SUBSET (S \cup {mStart})
  OBVIOUS
<1>8. IsFiniteSet(Reached) /\ Cardinality(Reached) <= Cardinality(S \cup {mStart})
  <2> HIDE DEF S
  <2> QED
    BY <1>6, <1>7, FS_Subset
<1>9. Cardinality(Reached) \in Nat /\ Cardinality(S \cup {mStart}) \in Nat
  <2> HIDE DEF S
  <2> QED
    BY <1>6, <1>8, FS_CardinalityType
<1> HIDE DEF S, T
<1>10. Cardinality(Reached) <= Cardinality(T) + 1
  BY <1>2, <1>4, <1>5, <1>6, <1>8, <1>9
<1> QED
  BY <1>8, <1>10 DEF T

\* The successors that wait are no more than m_Successors is long.
LEMMA PendingIsSmall ==
  ASSUME TypeInv, pc = "generate"
  PROVE  IsFiniteSet(Pending) /\ Cardinality(Pending) <= Len(succ)
<1> DEFINE l == Len(succ)
           P == {succ[i] : i \in 1 .. l}
<1>1. succ \in Seq(Slots) /\ l \in Nat /\ DOMAIN succ = 1 .. l /\ succ \in [1 .. l -> Slots]
  BY LenProperties DEF TypeInv, TypeOK
<1>2. Pending = P
  BY <1>1 DEF Pending
<1>3. IsFiniteSet(1 .. l) /\ Cardinality(1 .. l) = l
  BY <1>1, FS_Interval
<1>4. succ \in Surjection(1 .. l, P)
  <2>1. succ \in [1 .. l -> P]
    BY <1>1
  <2> HIDE DEF l
  <2> QED
    BY <2>1 DEF Surjection
<1>5. IsFiniteSet(P) /\ Cardinality(P) <= Cardinality(1 .. l)
  <2> HIDE DEF l, P
  <2> QED
    BY <1>3, <1>4, FS_Surjection
<1> QED
  BY <1>2, <1>3, <1>5

\* So a successor can always be allocated.
LEMMA NodeIsFree ==
  ASSUME EnoughNodes, TypeInv, Phases, Sound, RoomInv, pc = "generate", k \in DOMAIN Moves
  PROVE  Allocated(free) # NULL
<1>1. k \in 1 .. 8 /\ Len(succ) < k /\ Len(succ) \in Nat
  BY Expanding, MovesAre DEF RoomInv
<1>2. /\ Held = Reached \cup Pending \cup {mGoal}
      /\ IsFiniteSet(Reached) /\ Cardinality(Reached) <= Cardinality(DOMAIN RefMap) + 1
      /\ IsFiniteSet(Pending) /\ Cardinality(Pending) <= Len(succ)
  <2>1. Held = Reached \cup Pending \cup {mGoal}
    BY Expanding
  <2> QED
    BY <2>1, ReachedIsSmall, PendingIsSmall
<1>3. RefMap \in Maps /\ IsFiniteSet(DOMAIN RefMap) /\ Cardinality(DOMAIN RefMap) \in Nat
  BY MapsAssumption, FS_CardinalityType DEF TypeInv, TypeOK
<1>4. Cardinality(Reached) \in Nat /\ Cardinality(Pending) \in Nat
  BY <1>2, FS_CardinalityType
<1>5. /\ IsFiniteSet(Reached \cup Pending)
      /\ Cardinality(Reached \cup Pending) <= Cardinality(Reached) + Cardinality(Pending)
  BY <1>2, UnionSize
<1>6. Cardinality(Reached \cup Pending) \in Nat
  BY <1>5, FS_CardinalityType
<1>7. Cardinality(Held) <= Cardinality(Reached \cup Pending) + 1
  <2> PICK S : S = Reached \cup Pending
    OBVIOUS
  <2>1. IsFiniteSet(S) /\ Cardinality(S) \in Nat /\ Held = S \cup {mGoal}
    BY <1>2, <1>5, <1>6
  <2>2. Cardinality(S \cup {mGoal}) = IF mGoal \in S THEN Cardinality(S) ELSE Cardinality(S) + 1
    BY <2>1, FS_AddElement
  <2>3. Cardinality(S \cup {mGoal}) <= Cardinality(S) + 1
    BY <2>1, <2>2
  <2> QED
    BY <2>1, <2>3
<1>8. Cardinality(Held) = MaxNodes - Len(free) /\ free \in Seq(Slots)
  BY OutOfPool DEF Sound, PoolInv, Live, TypeInv, TypeOK
<1>9. Cardinality(DOMAIN RefMap) + 10 <= MaxNodes
  BY <1>3 DEF EnoughNodes
<1>10. Len(free) \in Nat
  BY <1>8, LenProperties
<1>11. ASSUME NEW h, h = Cardinality(Held), NEW u, u = Cardinality(Reached \cup Pending),
              NEW r, r = Cardinality(Reached), NEW p, p = Cardinality(Pending),
              NEW m, m = Cardinality(DOMAIN RefMap), NEW s, s = Len(succ), NEW a, a = Len(free)
       PROVE  a # 0
  <2>1. u \in Nat /\ r \in Nat /\ p \in Nat /\ m \in Nat /\ s \in Nat /\ a \in Nat
        /\ MaxNodes \in Nat
    BY <1>1, <1>3, <1>4, <1>6, <1>10, <1>11, MaxNodesAssumption
  <2>2. h = MaxNodes - a /\ h <= u + 1 /\ u <= r + p /\ r <= m + 1 /\ p <= s /\ s < k
        /\ m + 10 <= MaxNodes
    BY <1>1, <1>2, <1>5, <1>7, <1>8, <1>9, <1>11
  <2> QED
    BY <1>1, <2>1, <2>2
<1>12. free # <<>>
  BY <1>11, EmptySeq
<1>13. Head(free) \in Slots
  BY <1>8, <1>12, HeadTailProperties
<1> QED
  BY <1>12, <1>13 DEF Allocated, NULL, Slots, Elements

\* No step takes a node from an empty pool.
LEMMA NextRoomInv ==
  ASSUME EnoughNodes, TypeInv, Phases, Sound, RoomInv, [Next]_vars PROVE RoomInv'
<1> USE DEF RoomInv, pool, lists, locals, history
<1>1. CASE UNCHANGED vars
  BY <1>1 DEF vars
<1>2. CASE Start \/ Cancel \/ ReadSolution \/ Free \/ FreeSolutionNode \/ LoadMap \/ Done
  <2>1. ~spoilt' /\ ~dropped'
    BY <1>2 DEF Start, SetStartAndGoalStates, Cancel, CancelSearch, ReadSolution,
                GetSolutionStart, GetSolutionNext, Free, FreeSolutionNodes, FreeSolutionNode,
                LoadMap, Done, vars
  <2>2. pc' # "generate"
    BY <1>2 DEF Start, SetStartAndGoalStates, Cancel, CancelSearch, ReadSolution,
                GetSolutionStart, GetSolutionNext, Free, FreeSolutionNodes, FreeSolutionNode,
                LoadMap, Done, vars, Enter, Return
  <2> QED
    BY <2>1, <2>2
<1>3. CASE SearchStep
  <2>1. CASE GiveUp
    BY <2>1 DEF GiveUp, Enter
  <2>2. ASSUME NEW s \in Slots, ReachGoal(s) PROVE RoomInv'
    <3>1. dropped' = dropped /\ spoilt' = (spoilt \/ dropped) /\ pc' # "generate"
      BY <2>2 DEF ReachGoal, Enter
    <3> QED
      BY <3>1
  <2>3. ASSUME NEW s \in Slots, Expand(s) PROVE RoomInv'
    <3>1. k' = 1 /\ succ' = <<>> /\ UNCHANGED <<dropped, spoilt>>
      BY <2>3 DEF Expand, Enter
    <3> QED
      BY <3>1, EmptySeq
  <2> QED
    BY <1>3, <2>1, <2>2, <2>3 DEF SearchStep
<1>4. CASE AddSuccessor
  <2>1. pc = "generate" /\ k \in DOMAIN Moves /\ k' = k + 1 /\ k \in 1 .. 8
    BY <1>4, MovesAre DEF AddSuccessor
  <2>2. Allocated(free) # NULL
    BY <2>1, NodeIsFree
  <2>3. UNCHANGED <<dropped, spoilt>> /\ (succ' = succ \/ succ' = Append(succ, Allocated(free)))
    BY <1>4, <2>2 DEF AddSuccessor
  <2>4. Len(succ) \in Nat /\ Len(succ) < k /\ succ \in Seq(Slots) /\ Allocated(free) \in Slots
    BY <2>1, <2>2, LenProperties, AllocType DEF TypeInv, TypeOK, Pointers
  <2>5. Len(succ') \in {Len(succ), Len(succ) + 1}
    BY <2>3, <2>4, AppendProperties
  <2>6. \A l \in Nat : \A i \in 1 .. 8 : l < i => l < i + 1 /\ l + 1 < i + 1 /\ i + 1 \in 1 .. 9
    OBVIOUS
  <2>7. Len(succ') < k + 1 /\ k + 1 \in 1 .. 9
    BY <2>1, <2>4, <2>5, <2>6
  <2> QED
    BY <2>1, <2>3, <2>7
<1>5. CASE Working /\ ~AddSuccessor
  <2>1. UNCHANGED <<dropped, spoilt>> /\ pc' # "generate"
    BY <1>5 DEF Working, SuccessorsGenerated, Relax, Expanded, LinkParent,
                FreeUnusedOpen, FreeUnusedClosed, Succeed, FreeAllListed, Fail, Enter, Return
  <2> QED
    BY <2>1
<1> QED
  BY <1>1, <1>2, <1>3, <1>4, <1>5 DEF Next

\* For every map and request: with a node for every tile and ten more no allocation of
\* AddSuccessor fails (stlastar.h:384-397), so that the exception made for searches that
\* run out of nodes never applies.
THEOREM EnoughNodesSuffice == ASSUME EnoughNodes PROVE Spec => [](~dropped /\ ~spoilt)
<1>1. Init => RoomInv
  BY DEF Init, RoomInv
<1>2. SearchInv /\ RoomInv /\ [Next]_vars => RoomInv'
  BY NextRoomInv DEF SearchInv, RoomInv
<1>3. RoomInv => ~dropped /\ ~spoilt
  BY DEF RoomInv
<1> QED
  BY <1>1, <1>2, <1>3, SearchInvCorrect, PTL DEF Spec

-----------------------------------------------------------------------------
(* The start of a path.                                                    *)

\* While a path is followed back the start node is as it was created.
StartKept == pc = "link" => node[mStart].parent = NULL /\ node[mStart].g = 0

\* Every step keeps it, if it does not follow a path in a search that ran out of nodes.
LEMMA NextStartKept ==
  ASSUME TypeInv, Phases, Sound, StartKept, [Next]_vars, ~spoilt' PROVE StartKept'
<1> USE DEF pool, lists, locals, history
<1>1. CASE UNCHANGED vars
  BY <1>1 DEF vars, StartKept
<1>2. ASSUME NEW s \in Slots, ReachGoal(s) PROVE StartKept'
  <2>1. /\ pc = "ready" /\ state = "SEARCHING" /\ mStart \in Slots /\ mGoal \in Slots
        /\ mStart' = mStart /\ node' = [node EXCEPT ![mGoal].parent = node[s].parent]
    BY <1>2 DEF ReachGoal, Phases
  <2>2. node[mStart].parent = NULL /\ node[mStart].g = 0 /\ mStart # mGoal
    BY <2>1 DEF Sound, StartInv, Searching, ListsInv, NULL, Slots, Elements
  <2>3. node'[mStart] = node[mStart]
    BY <2>1, <2>2 DEF TypeInv, TypeOK
  <2> QED
    BY <2>1, <2>2, <2>3 DEF StartKept
<1>3. CASE LinkParent
  <2>1. /\ pc = "link" /\ mStart' = mStart /\ mStart \in Slots
        /\ node' = [node EXCEPT ![node[n].parent].child = n]
    BY <1>3 DEF LinkParent, Phases, TypeInv, NodesKnown
  <2>2. node'[mStart].parent = node[mStart].parent /\ node'[mStart].g = node[mStart].g
    BY <2>1 DEF TypeInv, TypeOK, Nodes
  <2> QED
    BY <2>1, <2>2 DEF StartKept
<1>4. CASE ~LinkParent /\ ~(\E s \in Slots : ReachGoal(s)) /\ Next
  <2>1. pc' # "link"
    <3>1. CASE Working
      BY <1>4, <3>1 DEF Working, AddSuccessor, SuccessorsGenerated, Relax, Expanded,
              FreeUnusedOpen, FreeUnusedClosed, Succeed, FreeAllListed, Fail, Enter, Return
    <3>2. CASE SearchStep
      BY <1>4, <3>2 DEF SearchStep, GiveUp, Expand, Enter
    <3>3. CASE Start \/ Cancel \/ ReadSolution \/ Free \/ FreeSolutionNode \/ LoadMap \/ Done
      BY <3>3 DEF Start, SetStartAndGoalStates, Cancel, CancelSearch, ReadSolution,
              GetSolutionStart, GetSolutionNext, Free, FreeSolutionNodes, FreeSolutionNode,
              LoadMap, Done, vars, Enter, Return
    <3> QED
      BY <1>4, <3>1, <3>2, <3>3 DEF Next
  <2> QED
    BY <2>1 DEF StartKept
<1> QED
  BY <1>1, <1>2, <1>3, <1>4

\* The nodes that are still to be linked have a chain, and the node they are linked
\* to has its parents.
LEMMA LinkedNodeHasStart ==
  ASSUME TypeInv, Phases, Sound, StartKept, pc = "link" PROVE mStart \in ParentsOf(n)
<1> PICK p : p = node[n].parent
  OBVIOUS
<1>1. /\ n \in Slots /\ state = "SEARCHING" /\ mStart \in Slots
      /\ node[mStart].parent = NULL /\ node[mStart].g = 0
  BY DEF TypeInv, NodesKnown, Phases, StartKept
<1>2. /\ p \in Slots
      /\ \A e \in Slots : Under(p, e) => e = mStart \/ Linked(e)
  BY DEF Sound, LinkInv, TypeInv, TypeOK
<1>3. ChainOf(p)
  BY <1>1, <1>2 DEF ChainOf
<1>4. Leads(Parents, p, mStart)
  BY <1>1, <1>2, <1>3, ChainIsUp
<1>5. <<n, p>> \in Parents
  BY <1>1, <1>2, ParentsAre
<1>6. Leads(Parents, n, mStart)
  BY <1>1, <1>2, <1>4, <1>5, LeadsSelf, LeadsFurther, LeadsOn
<1> DEFINE Walk(w) ==
      w = [i \in 0 .. MaxNodes |-> IF i = 0 THEN n
                                   ELSE IF w[i - 1] = NULL THEN NULL ELSE node[w[i - 1]].parent]
<1>7. \A x : node[x].parent = node[x]["parent"]
  BY SMT
<1>8. \A w : Walk(w) <=> Along("parent", n, w)
  BY <1>7 DEF Along
<1> HIDE DEF Walk
<1>9. /\ \E w : Walk(w)
      /\ \A w : Walk(w) => Met(w) = {x \in Slots : Leads(Parents, n, x)}
  BY <1>1, <1>6, <1>7, <1>8, AlongMeets DEF Parents
<1> DEFINE w == CHOOSE v : Walk(v)
<1>10. Met(w) = {x \in Slots : Leads(Parents, n, x)}
  BY <1>9
<1>11. ParentsOf(n) = Met(w)
  BY DEF ParentsOf, Met, Walk
<1> QED
  BY <1>1, <1>6, <1>10, <1>11

\* "Start is always the first node by definition" (stlastar.h:220): for every pool, map
\* and request the parents of the goal lead to the start node, as long as no path is
\* followed in a search that ran out of nodes.
THEOREM StartComesFirst == Spec => [](~spoilt => StartIsFirst)
<1>1. Init => StartKept
  BY DEF Init, StartKept
<1>2. SearchInv /\ (~spoilt => StartKept) /\ [Next]_vars => (~spoilt => StartKept)'
  <2> SUFFICES ASSUME SearchInv, ~spoilt => StartKept, [Next]_vars, ~spoilt' PROVE StartKept'
    OBVIOUS
  <2>1. ~spoilt
    BY SpoiltStays
  <2> QED
    BY <2>1, NextStartKept DEF SearchInv
<1>3. SearchInv /\ (~spoilt => StartKept) => (~spoilt => StartIsFirst)
  BY LinkedNodeHasStart DEF SearchInv, StartIsFirst
<1> QED
  BY <1>1, <1>2, <1>3, SearchInvCorrect, PTL DEF Spec

\* For every pool, map and request: the loops that follow the pointers of a path,
\* which test none of them, never come to NULL before the node they end at, as long
\* as no path is followed in a search that ran out of nodes (stlastar.h:210-220,
\* 411-420).
THEOREM NoNullIsFollowed == Spec => []NoNullFollowed
<1>1. SearchInv => NoNullFollowed
  <2>1. NULL \notin Slots
    BY DEF NULL, Slots, Elements
  <2>2. TypeInv /\ pc = "link" /\ Sound => node[n].parent # NULL
    BY <2>1 DEF Sound, LinkInv, TypeInv, TypeOK
  <2>3. pc = "freeSolution" /\ Sound => n # NULL
    BY <2>1 DEF Sound, PathInv
  <2> QED
    BY <2>2, <2>3 DEF SearchInv, NoNullFollowed
<1> QED
  BY <1>1, SearchInvCorrect, PTL
=============================================================================
