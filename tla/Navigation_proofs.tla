--------------------------- MODULE Navigation_proofs ---------------------------
(***************************************************************************)
(* For every map, pool, bound and sequence of requests: AnimObj calls the  *)
(* search only as the client protocol of AStarSearch allows, so that what  *)
(* is proved of the search holds for the game; a call of go_to calls       *)
(* SearchStep at most MaxSteps + 2 times and leaks no node; it reports     *)
(* that there is no path only where there is none; a path it follows costs *)
(* at most twice as much as the shortest; and the walk is the one that     *)
(* PathWalk promises.  What is said of paths is said as long as none was   *)
(* followed in a search that ran out of nodes, as Search documents.        *)
(***************************************************************************)
EXTENDS Navigation, AStarSearch_proofs

\* Where the search is in each phase of go_to.
PhaseInv ==
  /\ phase \in {"idle", "cleared", "searching", "reading"}
  /\ request \in {<<>>} \cup (Starts \X Goals \X Maps)
  /\ phase = "idle" => /\ pc = "ready" /\ state # "SEARCHING"
                       /\ mStart # NULL => state = "SUCCEEDED"
                       /\ step_ # NULL => HasSolution
  /\ phase = "cleared" => /\ state # "SEARCHING" /\ pc \in {"ready", "freeSolution"}
                          /\ pc = "ready" => mStart = NULL
                          /\ request \in Starts \X Goals \X Maps
  /\ phase = "searching" => /\ pc # "freeSolution"
                            /\ pc # "ready" => state = "SEARCHING"
                            /\ state \in {"SEARCHING", "SUCCEEDED"} => mStart # NULL
                            /\ state = "FAILED" => mStart = NULL
                            /\ state # "NOT_INITIALISED"
  /\ phase = "reading" => pc = "ready" /\ HasSolution

\* Once the bound on the steps is passed the next step gives up.
StepsInv ==
  /\ SearchSteps \in 0 .. MaxSteps + 2
  /\ phase = "searching" /\ state = "SEARCHING" /\ pc # "freeAll" => SearchSteps <= MaxSteps + 1

NavInv == TypeInv /\ PhaseInv /\ StepsInv /\ step_ \in Pointers

-----------------------------------------------------------------------------
\* The object is created with no path and an idle search.
LEMMA InitNavInv == NavInit => NavInv
<1> SUFFICES ASSUME NavInit PROVE NavInv
  OBVIOUS
<1>1. TypeInv
  BY InitTypeInv DEF NavInit
<1>2. PhaseInv
  BY DEF NavInit, Init, PhaseInv
<1>3. StepsInv /\ step_ \in Pointers
  BY MaxStepsAssumption DEF NavInit, StepsInv, Pointers
<1> QED
  BY <1>1, <1>2, <1>3 DEF NavInv

\* Every step of AnimObj is a step its client protocol allows, or none.
LEMMA NavStepIsLegal == NavInv /\ [NavNext]_navVars => [Next]_vars
<1> SUFFICES ASSUME NavInv, [NavNext]_navVars PROVE [Next]_vars
  OBVIOUS
<1> USE DEF NavInv, PhaseInv
<1>1. ASSUME NEW s \in Starts, NEW g \in Goals, GoTo(s, g) PROVE [Next]_vars
  BY <1>1 DEF GoTo, Next, Free, HasSolution
<1>2. CASE BeginSearch
  <2>1. request[1] \in Starts /\ request[2] \in Goals
    BY <1>2 DEF BeginSearch
  <2> QED
    BY <1>2, <2>1 DEF BeginSearch, Start, Next
<1>3. CASE Interrupt
  BY <1>3 DEF Interrupt, Cancel, Next
<1>4. CASE CallSearchStep
  BY <1>4 DEF CallSearchStep, Next
<1>5. CASE InCall
  BY <1>5 DEF InCall, Next
<1>6. CASE FindPath
  BY <1>6 DEF FindPath, ReadSolution, HasSolution, Next
<1>7. CASE SkipStart
  BY <1>7 DEF SkipStart, ReadSolution, Next
<1>8. CASE FindNoPath
  BY <1>8 DEF FindNoPath
<1>9. CASE NextStep
  BY <1>9 DEF NextStep, ReadSolution, Next
<1>10. CASE NavDone
  BY <1>10 DEF NavDone, navVars
<1>11. CASE UNCHANGED navVars
  BY <1>11 DEF navVars
<1>12. CASE ReplaceMap
  BY <1>12 DEF ReplaceMap, Next
<1> QED
  BY <1>1, <1>2, <1>3, <1>4, <1>5, <1>6, <1>7, <1>8, <1>9, <1>10, <1>11, <1>12
  DEF NavNext, InGoTo

\* The steps inside the calls of the search keep the phases apart.
LEMMA InCallInv == ASSUME NavInv, InCall PROVE PhaseInv' /\ StepsInv'
<1> USE DEF NavInv, PhaseInv, StepsInv, InCall, nav, HasSolution, Return, Enter
<1>1. CASE FreeSolutionNode
  BY <1>1 DEF FreeSolutionNode
<1>2. CASE AddSuccessor
  BY <1>2 DEF AddSuccessor
<1>3. CASE SuccessorsGenerated
  BY <1>3 DEF SuccessorsGenerated
<1>4. CASE Relax
  BY <1>4 DEF Relax
<1>5. CASE Expanded
  BY <1>5 DEF Expanded
<1>6. CASE LinkParent
  BY <1>6 DEF LinkParent
<1>7. CASE FreeUnusedOpen
  BY <1>7 DEF FreeUnusedOpen, locals
<1>8. CASE FreeUnusedClosed
  BY <1>8 DEF FreeUnusedClosed, locals
<1>9. CASE Succeed
  BY <1>9 DEF Succeed
<1>10. CASE FreeAllListed
  BY <1>10 DEF FreeAllListed, locals
<1>11. CASE Fail
  BY <1>11 DEF Fail
<1> QED
  BY <1>1, <1>2, <1>3, <1>4, <1>5, <1>6, <1>7, <1>8, <1>9, <1>10, <1>11 DEF Working

\* A call of SearchStep counts, and gives up once the search is cancelled.
LEMMA CallSearchStepInv == ASSUME NavInv, CallSearchStep PROVE PhaseInv' /\ StepsInv'
<1> USE MaxStepsAssumption
    DEF NavInv, PhaseInv, StepsInv, CallSearchStep, HasSolution, Enter
<1>1. SearchSteps \in Int
  OBVIOUS
<1>2. CASE GiveUp
  BY <1>1, <1>2 DEF GiveUp
<1>3. ASSUME NEW s \in Slots, ReachGoal(s) PROVE PhaseInv' /\ StepsInv'
  BY <1>1, <1>3 DEF ReachGoal
<1>4. ASSUME NEW s \in Slots, Expand(s) PROVE PhaseInv' /\ StepsInv'
  BY <1>1, <1>4 DEF Expand
<1> QED
  BY <1>2, <1>3, <1>4 DEF SearchStep

\* Every step of go_to and of the walk keeps the phases apart.
LEMMA NavStepInv == ASSUME NavInv, [NavNext]_navVars PROVE PhaseInv' /\ StepsInv'
<1> USE MaxStepsAssumption DEF NavInv, PhaseInv, StepsInv, HasSolution
<1>1. ASSUME NEW s \in Starts, NEW g \in Goals, GoTo(s, g) PROVE PhaseInv' /\ StepsInv'
  <2>1. phase' = "cleared" /\ request' \in Starts \X Goals \X Maps /\ UNCHANGED SearchSteps
    BY <1>1 DEF GoTo, TypeInv, TypeOK
  <2>2. CASE mStart = NULL
    BY <1>1, <2>1, <2>2 DEF GoTo, vars, locals
  <2>3. CASE mStart # NULL
    BY <1>1, <2>1, <2>3 DEF GoTo, FreeSolutionNodes, Enter, locals
  <2> QED
    BY <2>2, <2>3
<1>2. CASE BeginSearch
  BY <1>2 DEF BeginSearch, SetStartAndGoalStates, locals
<1>3. CASE Interrupt
  BY <1>3 DEF Interrupt, CancelSearch, nav, locals
<1>4. CASE FindPath
  BY <1>4 DEF FindPath, GetSolutionStart, locals
<1>5. CASE SkipStart
  BY <1>5 DEF SkipStart, GetSolutionNext, locals
<1>6. CASE FindNoPath
  BY <1>6 DEF FindNoPath, vars, locals
<1>7. CASE NextStep
  BY <1>7 DEF NextStep, GetSolutionNext, locals
<1>8. CASE NavDone \/ UNCHANGED navVars
  BY <1>8 DEF NavDone, navVars, nav, vars, locals
<1>9. CASE ReplaceMap
  BY <1>9 DEF ReplaceMap, LoadMap, nav, locals
<1> QED
  BY <1>1, <1>2, <1>3, <1>4, <1>5, <1>6, <1>7, <1>8, <1>9, InCallInv, CallSearchStepInv
  DEF NavNext, InGoTo

\* step_ is a node or NULL.
LEMMA StepType == ASSUME NavInv, [NavNext]_navVars PROVE step_' \in Pointers
<1> USE DEF NavInv, TypeInv, TypeOK
<1>1. NextOnPath \in Pointers
  BY DEF NextOnPath, Nodes, Pointers
<1>2. NULL \in Pointers
  BY DEF Pointers
<1> QED
  BY <1>1, <1>2
  DEF NavNext, InGoTo, GoTo, BeginSearch, Interrupt, CallSearchStep, InCall, FindPath,
      SkipStart, FindNoPath, NextStep, ReplaceMap, NavDone, navVars, nav

\* The invariant holds in every state of the navigation.
LEMMA NavInvCorrect == NavSpec => []NavInv
<1>1. NavInv /\ [NavNext]_navVars => NavInv'
  BY NavStepIsLegal, NextTypeInv, NavStepInv, StepType DEF NavInv
<1> QED
  BY <1>1, InitNavInv, PTL DEF NavSpec

\* The calls of AnimObj follow the client protocol of the search.
THEOREM NavUsesSearchLegally == NavSpec => UsesSearchLegally
<1>1. NavInit => Init
  BY DEF NavInit
<1> QED
  BY <1>1, NavStepIsLegal, NavInvCorrect, PTL DEF NavSpec, UsesSearchLegally, Spec

\* go_to keeps its phases, and its steps within the bound it sets.
THEOREM NavTypeCorrect == NavSpec => []NavTypeOK
<1>1. NavInv => NavTypeOK
  BY DEF NavInv, PhaseInv, StepsInv, NavTypeOK
<1> QED
  BY <1>1, NavInvCorrect, PTL

-----------------------------------------------------------------------------
(* What the invariant of the search is worth for the walk.                 *)

\* go_to calls the search legally, so its invariant holds.
LEMMA NavSearchInv == NavSpec => []SearchInv
BY NavUsesSearchLegally, SearchInvCorrect, PTL DEF UsesSearchLegally

\* For every map, pool, bound and sequence of requests: where go_to asserts that the
\* memory of the last request was freed (EnsureMemoryFreed, stlastar.h:601-607,
\* anim.cpp:128-129), it was, however that request ended.
THEOREM MemoryIsFreed == NavSpec => []MemoryFreed
<1>1. SearchInv /\ NavInv => MemoryFreed
  <2> SUFFICES ASSUME SearchInv, NavInv, phase = "cleared", pc = "ready", ~spoilt PROVE count = 0
    BY DEF MemoryFreed
  <2>1. mStart = NULL /\ state # "SEARCHING"
    BY DEF NavInv, PhaseInv
  <2>2. Held = {}
    BY <2>1 DEF Held, HasSolution
  <2>3. Live = {}
    BY <2>2 DEF SearchInv, Sound, PoolInv
  <2>4. free \in Seq(Slots) /\ count \in Int /\ Distinct(free) /\ count + Len(free) = MaxNodes
    BY DEF SearchInv, TypeInv, TypeOK, Sound, PoolInv
  <2>5. Cardinality({}) = MaxNodes - Len(free)
    BY <2>3, <2>4, OutOfPool DEF Live
  <2>6. Len(free) \in Nat /\ Cardinality({}) = 0
    BY <2>4, LenProperties, FS_EmptySet
  <2>7. \A l \in Nat : count + l = MaxNodes /\ 0 = MaxNodes - l => count = 0
    BY <2>4, MaxNodesAssumption
  <2> QED
    BY <2>4, <2>5, <2>6, <2>7
<1> QED
  BY <1>1, NavSearchInv, NavInvCorrect, PTL

\* The object is on the path that was found, at the node the search remembers.
OnPathInv ==
  /\ phase = "idle" /\ step_ # NULL => step_ = solution /\ step_ \in Kin(mStart)
  /\ phase = "reading" => solution = mStart

\* The walk stays on the path.
LEMMA NavOnPathInv ==
  ASSUME NavInv, OnPathInv, [NavNext]_navVars PROVE OnPathInv'
<1> USE DEF OnPathInv
<1>1. /\ phase = "idle" => /\ step_ # NULL => mStart \in Slots /\ pc = "ready"
      /\ phase = "reading" => mStart \in Slots
  BY DEF NavInv, PhaseInv, HasSolution, TypeInv, TypeOK, Pointers
<1>2. CASE phase' \in {"cleared", "searching"}
  BY <1>2
<1>3. CASE NavDone \/ ReplaceMap \/ UNCHANGED navVars
  <2>1. /\ phase' = phase /\ step_' = step_ /\ solution' = solution /\ mStart' = mStart
        /\ node' = node
    BY <1>3 DEF NavDone, ReplaceMap, LoadMap, navVars, nav, vars
  <2>3. Kin(mStart)' = Kin(mStart)
    BY <2>1 DEF Kin, Kids
  <2> QED
    BY <2>1, <2>3
<1>4. CASE FindPath
  <2>1. phase' = "reading" /\ solution' = mStart /\ mStart' = mStart
    BY <1>4 DEF FindPath, GetSolutionStart
  <2> QED
    BY <2>1
<1>5. CASE FindNoPath
  <2>1. phase' = "idle" /\ step_' = NULL
    BY <1>5 DEF FindNoPath
  <2> QED
    BY <2>1
<1>6. CASE SkipStart \/ NextStep
  <2> PICK next : next = node[solution].child
    OBVIOUS
  <2>1. /\ solution \in Kin(mStart) /\ mStart \in Slots
        /\ phase' = "idle" /\ mStart' = mStart /\ node' = node /\ NULL \notin Slots
        /\ solution \in Slots
    <3>1. NULL \notin Slots
      BY DEF NULL, Slots, Elements
    <3>2. CASE SkipStart
      <4>1. solution = mStart /\ mStart \in Slots
        BY <1>1, <3>2 DEF SkipStart
      <4>2. mStart \in Kin(mStart)
        BY <4>1, KinGoesOn
      <4> QED
        BY <3>1, <3>2, <4>1, <4>2 DEF SkipStart, GetSolutionNext
    <3>3. CASE NextStep
      <4>1. solution \in Kin(mStart) /\ mStart \in Slots
        BY <1>1, <3>3 DEF NextStep
      <4>2. solution \in Slots
        BY <4>1, KinGoesOn
      <4> QED
        BY <3>1, <3>3, <4>1, <4>2 DEF NextStep, GetSolutionNext
    <3> QED
      BY <1>6, <3>2, <3>3
  <2>2. NextOnPath = next /\ next \in Pointers
    BY <2>1, NodeType DEF NextOnPath, NavInv
  <2>3. step_' = next /\ solution' = IF next = NULL THEN solution ELSE next
    BY <1>6, <2>2 DEF SkipStart, NextStep, GetSolutionNext
  <2>4. next # NULL => next \in Kin(mStart)
    BY <2>1, <2>2, KinGoesOn DEF Pointers
  <2>5. Kin(mStart)' = Kin(mStart)
    BY <2>1 DEF Kin, Kids
  <2> QED
    BY <2>1, <2>3, <2>4, <2>5
<1>7. CASE \E s \in Starts, g \in Goals : GoTo(s, g)
  BY <1>2, <1>7 DEF GoTo
<1>8. CASE BeginSearch \/ Interrupt \/ CallSearchStep
  BY <1>2, <1>8 DEF BeginSearch, Interrupt, CallSearchStep, nav
<1>9. CASE InCall
  <2>1. phase' = phase /\ pc # "ready"
    BY <1>9 DEF InCall, nav, Working, AddSuccessor, SuccessorsGenerated, Relax, Expanded,
                LinkParent, FreeUnusedOpen, FreeUnusedClosed, Succeed, FreeAllListed, Fail,
                FreeSolutionNode
  <2>2. phase' \in {"cleared", "searching"}
    BY <2>1 DEF NavInv, PhaseInv
  <2> QED
    BY <1>2, <2>2
<1> QED
  BY <1>3, <1>4, <1>5, <1>6, <1>7, <1>8, <1>9 DEF NavNext, InGoTo

\* For every map, pool, bound and sequence of requests: the node an object walks to is
\* the one m_CurrentSolutionNode points at, and the search has not freed it
\* (anim.cpp:63,134-135).
THEOREM StepStaysOnPath == NavSpec => []StepIsOnPath
<1>1. NavInit => OnPathInv
  BY DEF NavInit, OnPathInv
<1>2. NavInv /\ OnPathInv /\ [NavNext]_navVars => OnPathInv'
  BY NavOnPathInv
<1>3. SearchInv /\ NavInv /\ OnPathInv => StepIsOnPath
  <2> SUFFICES ASSUME SearchInv, NavInv, OnPathInv, phase = "idle", step_ # NULL, ~spoilt
               PROVE  step_ = solution /\ step_ \in Live
    BY DEF StepIsOnPath
  <2>1. step_ = solution /\ step_ \in Kin(mStart)
    BY DEF OnPathInv
  <2>2. HasSolution /\ pc = "ready"
    BY DEF NavInv, PhaseInv
  <2>3. Live = Kin(mStart) \cup {mGoal}
    BY <2>2 DEF SearchInv, Sound, PoolInv, Held
  <2> QED
    BY <2>1, <2>3
<1> QED
  BY <1>1, <1>2, <1>3, NavSearchInv, NavInvCorrect, PTL DEF NavSpec

-----------------------------------------------------------------------------
(* The tiles that moves reach.                                             *)

\* One more move from the tiles of R, and w as the tiles that 0 to m moves reach.
Grown(map, R) == R \cup {t \in DOMAIN map : /\ Walkable(map, t)
                                            /\ \E s \in R : Adjacent(s, t)}
Layer(map, start, w, i) == IF i = 0 THEN {start} ELSE Grown(map, w[i - 1])
Layers(map, start, w, m) == w = [i \in 0 .. m |-> Layer(map, start, w, i)]

\* A function that is equal to its layers has them as its values.
LEMMA LayersAre ==
  ASSUME NEW map, NEW start, NEW w, NEW m, Layers(map, start, w, m)
  PROVE  \A i \in 0 .. m : w[i] = Layer(map, start, w, i)
<1> DEFINE u == [i \in 0 .. m |-> Layer(map, start, w, i)]
<1>1. w = u
  BY DEF Layers
<1>2. \A i \in 0 .. m : u[i] = Layer(map, start, w, i)
  OBVIOUS
<1> HIDE DEF u
<1> QED
  BY <1>1, <1>2

\* There are as many layers as one likes.
LEMMA LayersExist ==
  ASSUME NEW map, NEW start, NEW m \in Nat
  PROVE  \E w : Layers(map, start, w, m)
<1> DEFINE Bad == {j \in Nat : ~ \E w : Layers(map, start, w, j)}
<1>1. Bad = {}
  <2> SUFFICES ASSUME Bad # {} PROVE FALSE
    OBVIOUS
  <2>1. PICK l \in Bad : \A j \in Bad : l <= j
    <3>1. Bad \in SUBSET Nat
      OBVIOUS
    <3> HIDE DEF Bad
    <3> QED
      BY <3>1, LeastNumber
  <2>2. l \in Nat /\ ~ \E w : Layers(map, start, w, l)
    BY <2>1
  <2>3. CASE l = 0
    <3> DEFINE w == [i \in 0 .. 0 |-> {start}]
    <3>1. w = [i \in 0 .. 0 |-> Layer(map, start, w, i)]
      BY DEF Layer
    <3> QED
      BY <2>2, <2>3, <3>1 DEF Layers
  <2>4. CASE l # 0
    <3>1. l - 1 \in Nat /\ ~(l <= l - 1)
      BY <2>2, <2>4
    <3>2. l - 1 \notin Bad
      BY <2>1, <3>1
    <3>3. PICK v : Layers(map, start, v, l - 1)
      BY <3>1, <3>2
    <3> DEFINE w == [i \in 0 .. l |-> IF i < l THEN v[i] ELSE Layer(map, start, v, l)]
    <3>4. \A i \in 0 .. l - 1 : v[i] = Layer(map, start, v, i)
      BY <3>3, LayersAre
    <3>5. ASSUME NEW i \in 0 .. l PROVE w[i] = Layer(map, start, w, i)
      <4>1. CASE i = 0
        BY <2>2, <2>4, <3>1, <3>4, <4>1 DEF Layer
      <4>2. CASE i # 0
        <5>1. i - 1 \in 0 .. l /\ i - 1 < l
          BY <2>2, <4>2
        <5>2. w[i - 1] = v[i - 1]
          BY <5>1
        <5>3. Layer(map, start, w, i) = Layer(map, start, v, i)
          BY <5>2 DEF Layer
        <5>4. CASE i < l
          <6>1. i \in 0 .. l - 1 /\ w[i] = v[i]
            BY <2>2, <5>4
          <6> QED
            BY <3>4, <5>3, <6>1
        <5>5. CASE ~(i < l)
          <6>1. i = l
            BY <2>2, <5>5
          <6>2. w[l] = Layer(map, start, v, l)
            BY <2>2
          <6> QED
            BY <5>3, <6>1, <6>2
        <5> QED
          BY <5>4, <5>5
      <4> QED
        BY <4>1, <4>2
    <3>6. w = [i \in 0 .. l |-> Layer(map, start, w, i)]
      <4> DEFINE u == [i \in 0 .. l |-> Layer(map, start, w, i)]
      <4>1. \A i \in 0 .. l : w[i] = u[i]
        BY <3>5
      <4> QED
        BY <4>1
    <3> HIDE DEF w
    <3> QED
      BY <2>2, <3>6 DEF Layers
  <2> QED
    BY <2>3, <2>4
<1> QED
  BY <1>1

\* Within counts the moves.
LEMMA WithinIs ==
  ASSUME NEW map \in Maps, NEW start
  PROVE  /\ Cardinality(DOMAIN map) \in Nat
         /\ Within(map, start)[0] = {start}
         /\ \A i \in 1 .. Cardinality(DOMAIN map) :
              Within(map, start)[i] = Grown(map, Within(map, start)[i - 1])
<1> DEFINE N == Cardinality(DOMAIN map)
           Fits(w) == w = [i \in 0 .. N |->
                             IF i = 0 THEN {start}
                             ELSE LET before == w[i - 1]
                                  IN  before \cup {t \in DOMAIN map :
                                                    /\ Walkable(map, t)
                                                    /\ \E s \in before : Adjacent(s, t)}]
<1>1. N \in Nat
  BY MapsAssumption, FS_CardinalityType
<1>2. \A w : Fits(w) <=> Layers(map, start, w, N)
  BY DEF Layers, Layer, Grown
<1>3. \E w : Fits(w)
  <2> HIDE DEF N, Fits
  <2> QED
    BY <1>1, <1>2, LayersExist
<1>4. Within(map, start) = CHOOSE w : Fits(w)
  BY DEF Within
<1>5. Layers(map, start, Within(map, start), N)
  <2> HIDE DEF N, Fits
  <2> QED
    BY <1>2, <1>3, <1>4
<1>6. \A i \in 0 .. N : Within(map, start)[i] = Layer(map, start, Within(map, start), i)
  <2> HIDE DEF N, Fits
  <2> QED
    BY <1>5, LayersAre
<1> HIDE DEF N
<1>7. 0 \in 0 .. N /\ \A i \in 1 .. N : i \in 0 .. N /\ i # 0
  BY <1>1
<1>8. Cardinality(DOMAIN map) = N
  BY DEF N
<1> QED
  BY <1>1, <1>6, <1>7, <1>8 DEF Layer

\* The moves do not leave a set of tiles that no move leaves.
LEMMA WithinStays ==
  ASSUME NEW map \in Maps, NEW start, NEW R, start \in R,
         \A s \in R, t \in DOMAIN map : Walkable(map, t) /\ Adjacent(s, t) => t \in R
  PROVE  \A i \in 0 .. Cardinality(DOMAIN map) : Within(map, start)[i] \subseteq R
<1> PICK N : N = Cardinality(DOMAIN map)
  OBVIOUS
<1> PICK w : w = Within(map, start)
  OBVIOUS
<1> DEFINE Bad == {i \in 0 .. N : ~(w[i] \subseteq R)}
<1> SUFFICES ASSUME Bad # {} PROVE FALSE
  OBVIOUS
<1>1. PICK i \in Bad : \A j \in Bad : i <= j
  <2>1. Bad \in SUBSET Nat
    OBVIOUS
  <2> HIDE DEF Bad
  <2> QED
    BY <2>1, LeastNumber
<1>2. i \in 0 .. N /\ ~(w[i] \subseteq R) /\ N \in Nat
  BY <1>1, WithinIs
<1>3. i # 0
  BY <1>2, WithinIs
<1>4. i \in 1 .. N /\ i - 1 \in 0 .. N /\ ~(i <= i - 1)
  BY <1>2, <1>3
<1>5. w[i - 1] \subseteq R
  BY <1>1, <1>4
<1>6. w[i] = Grown(map, w[i - 1])
  BY <1>4, WithinIs
<1> QED
  BY <1>2, <1>5, <1>6 DEF Grown

-----------------------------------------------------------------------------
(* What a request is answered with.                                        *)

\* The search is about the tiles and the map of the request.
AskedInv ==
  /\ phase # "idle" => request \in Starts \X Goals \X Maps /\ RefMap = request[3]
  /\ ~spoilt /\ phase \in {"searching", "reading"} /\ mStart # NULL =>
       Tile(mStart) = request[1] /\ Tile(mGoal) = request[2]

\* A request that fails was cut short, or asks for a tile that cannot be reached.
FailedInv ==
  ~spoilt /\ request # <<>> /\ phase \in {"searching", "idle"} /\ (pc = "freeAll" \/ state = "FAILED") =>
    cancel \/ dropped \/ ~Reachable(request[3], request[1], request[2])

\* The calls of the search leave the tiles of the start and the goal node alone.
LEMMA EndsKeepTiles ==
  ASSUME SearchInv, ~spoilt, mStart # NULL, phase \in {"searching", "reading"},
         InGoTo \/ UNCHANGED navVars
  PROVE  /\ mStart' \in {mStart, NULL} /\ RefMap' = RefMap /\ mGoal' = mGoal
         /\ node'[mStart].tile = Tile(mStart) /\ node'[mGoal].tile = Tile(mGoal)
         /\ request' = request
<1> USE DEF pool, lists, locals, history, nav
<1>1. TypeInv /\ Phases /\ Sound /\ mStart \in Slots /\ mGoal \in Pointers
  BY DEF SearchInv, TypeInv, TypeOK, Pointers
<1>2. CASE InCall /\ AddSuccessor
  <2> PICK new : new = Allocated(free)
    OBVIOUS
  <2> PICK tile : tile = Neighbour(Tile(n), k)
    OBVIOUS
  <2>1. /\ mStart' = mStart /\ RefMap' = RefMap /\ mGoal' = mGoal /\ request' = request
        /\ pc = "generate"
    BY <1>2 DEF InCall, AddSuccessor
  <2>2. CASE IsSuccessor(tile) /\ new # NULL
    <3>1. /\ \A x \in Slots \ {new} : node'[x] = node[x]
          /\ new \notin Reached \cup {mGoal}
      BY <1>1, <1>2, <2>2, AddedIs
    <3>2. mStart \in Reached /\ mGoal \in Slots
      BY <1>1, <2>1, Expanding DEF Sound, StartInv
    <3> QED
      BY <1>1, <2>1, <3>1, <3>2 DEF Tile
  <2>3. CASE ~(IsSuccessor(tile) /\ new # NULL)
    <3>1. node' = node
      BY <1>2, <2>3 DEF AddSuccessor
    <3> QED
      BY <2>1, <3>1 DEF Tile
  <2> QED
    BY <2>2, <2>3
<1>3. CASE InCall /\ (Relax \/ LinkParent)
  <2>1. \A x \in Slots : node'[x].tile = node[x].tile
    <3>1. CASE Relax
      <4> PICK s : s = succ[k]
        OBVIOUS
      <4> PICK newg : newg = node[n].g + StepCost(n)
        OBVIOUS
      <4>1. node' = node \/ node' = [node EXCEPT ![s].parent = n, ![s].g = newg]
        BY <3>1 DEF Relax, StepCost
      <4>2. node \in [Slots -> Nodes]
        BY <1>1 DEF TypeInv, TypeOK
      <4>3. ASSUME NEW x \in Slots, node' = [node EXCEPT ![s].parent = n, ![s].g = newg]
            PROVE  node'[x].tile = node[x].tile
        BY <4>2, <4>3 DEF Nodes
      <4> QED
        BY <4>1, <4>3
    <3>2. CASE LinkParent
      BY <1>1, <3>2 DEF LinkParent, TypeInv, TypeOK, Nodes
    <3> QED
      BY <1>3, <3>1, <3>2
  <2>2. state = "SEARCHING"
    BY <1>1, <1>3 DEF Relax, LinkParent, TypeInv, NodesKnown
  <2>3. mGoal \in Slots
    BY <1>1, <2>2 DEF Phases
  <2>4. mStart' = mStart /\ RefMap' = RefMap /\ mGoal' = mGoal /\ request' = request
    BY <1>3 DEF InCall, Relax, LinkParent
  <2> QED
    BY <1>1, <2>1, <2>3, <2>4 DEF Tile
<1>4. CASE InCall /\ ~AddSuccessor /\ ~Relax /\ ~LinkParent
  BY <1>4 DEF InCall, Working, SuccessorsGenerated, Expanded, FreeUnusedOpen, FreeUnusedClosed,
              Succeed, FreeAllListed, Fail, FreeSolutionNode, Tile
<1>5. CASE CallSearchStep
  <2>1. CASE \E s \in Slots : ReachGoal(s)
    <3> PICK s \in Slots : ReachGoal(s)
      BY <2>1
    <3>1. mGoal \in Slots
      BY <1>1 DEF ReachGoal, Phases
    <3>2. \A x \in Slots : node'[x].tile = node[x].tile
      BY <1>1, <3>1 DEF ReachGoal, TypeInv, TypeOK, Nodes
    <3>3. mStart' = mStart /\ RefMap' = RefMap /\ mGoal' = mGoal /\ request' = request
      BY <1>5 DEF ReachGoal, CallSearchStep
    <3> QED
      BY <1>1, <3>1, <3>2, <3>3 DEF Tile
  <2> QED
    BY <1>5, <2>1 DEF CallSearchStep, SearchStep, GiveUp, Expand, Tile
<1>6. CASE Interrupt \/ FindPath \/ SkipStart \/ FindNoPath \/ UNCHANGED navVars
  BY <1>6 DEF Interrupt, CancelSearch, FindPath, GetSolutionStart, SkipStart, GetSolutionNext,
              FindNoPath, navVars, vars, Tile
<1> QED
  BY <1>2, <1>3, <1>4, <1>5, <1>6 DEF InGoTo, BeginSearch

\* The tiles and the map of the request stay what the search is about.
LEMMA NavAskedInv ==
  ASSUME SearchInv, SearchInv', NavInv, NavInv', AskedInv, [NavNext]_navVars PROVE AskedInv'
<1> USE DEF pool, lists, locals, history, nav
<1>1. ASSUME NEW s \in Starts, NEW g \in Goals, GoTo(s, g) PROVE AskedInv'
  <2>1. RefMap' = RefMap /\ request' = <<s, g, RefMap>> /\ phase' = "cleared"
    BY <1>1 DEF GoTo, vars, FreeSolutionNodes
  <2>2. RefMap \in Maps
    BY DEF NavInv, TypeInv, TypeOK
  <2> QED
    BY <2>1, <2>2 DEF AskedInv
<1>2. CASE BeginSearch
  <2>1. RefMap' = RefMap /\ request' = request /\ phase = "cleared" /\ phase' = "searching"
    BY <1>2 DEF BeginSearch, SetStartAndGoalStates
  <2>2. ASSUME ~spoilt' PROVE node'[mStart'].tile = request[1] /\ node'[mGoal'].tile = request[2]
    <3>1. mStart' \in Slots /\ mGoal' \in Slots /\ mStart' # mGoal'
      <4>1. state' = "SEARCHING"
        BY <1>2 DEF BeginSearch, SetStartAndGoalStates
      <4>2. mStart' \in Slots /\ mGoal' \in Slots
        BY <4>1 DEF SearchInv, Phases
      <4>3. mStart' # NULL => mStart' # mGoal'
        BY <2>2 DEF SearchInv, Sound, ListsInv
      <4> QED
        BY <4>2, <4>3 DEF NULL, Slots, Elements
    <3>2. /\ node' = [node EXCEPT ![mStart'] = NewNode(request[1]),
                                  ![mGoal'] = NewNode(request[2])]
          /\ node \in [Slots -> Nodes]
      BY <1>2 DEF BeginSearch, SetStartAndGoalStates, SearchInv, TypeInv, TypeOK
    <3>3. node'[mStart'] = NewNode(request[1]) /\ node'[mGoal'] = NewNode(request[2])
      BY <3>1, <3>2
    <3> QED
      BY <3>3 DEF NewNode
  <2> QED
    BY <2>1, <2>2 DEF AskedInv, Tile
<1>3. CASE phase' = "idle"
  BY <1>3 DEF AskedInv
<1>4. CASE InGoTo /\ phase = "cleared" /\ ~BeginSearch
  <2>1. InCall /\ phase' = "cleared" /\ request' = request
    BY <1>4 DEF InGoTo, Interrupt, CallSearchStep, FindPath, SkipStart, FindNoPath, InCall
  <2>2. RefMap' = RefMap
    BY <2>1 DEF InCall, Working, AddSuccessor, SuccessorsGenerated, Relax, Expanded, LinkParent,
      FreeUnusedOpen, FreeUnusedClosed, Succeed, FreeAllListed, Fail, FreeSolutionNode
  <2> QED
    BY <1>4, <2>1, <2>2 DEF AskedInv
<1>5. CASE InGoTo /\ phase \in {"searching", "reading"} /\ phase' # "idle" /\ ~BeginSearch
  <2>1. phase' \in {"searching", "reading"} /\ RefMap' = RefMap /\ request' = request
        /\ (spoilt => spoilt') /\ (mStart = NULL => mStart' = NULL)
    <3>1. CASE Interrupt \/ FindPath \/ SkipStart \/ FindNoPath
      BY <1>5, <3>1 DEF Interrupt, FindPath, SkipStart, FindNoPath, CancelSearch,
                        GetSolutionStart, GetSolutionNext
    <3>2. CASE CallSearchStep
      <4>1. phase' = phase /\ request' = request
        BY <3>2 DEF CallSearchStep
      <4>2. RefMap' = RefMap /\ mStart' = mStart
        BY <3>2 DEF CallSearchStep, SearchStep, GiveUp, ReachGoal, Expand
      <4>3. spoilt' = spoilt \/ spoilt' = (spoilt \/ dropped)
        BY <3>2 DEF CallSearchStep, SearchStep, GiveUp, ReachGoal, Expand
      <4>4. spoilt => spoilt'
        BY <4>3
      <4>5. phase' \in {"searching", "reading"}
        BY <1>5, <4>1
      <4>6. mStart = NULL => mStart' = NULL
        BY <4>2
      <4> QED
        BY <4>1, <4>2, <4>4, <4>5, <4>6
    <3>3. CASE InCall
      BY <1>5, <3>3 DEF InCall, Working, AddSuccessor, SuccessorsGenerated, Relax, Expanded,
        LinkParent, FreeUnusedOpen, FreeUnusedClosed, Succeed, FreeAllListed, Fail,
        FreeSolutionNode
    <3> QED
      BY <1>5, <3>1, <3>2, <3>3 DEF InGoTo
  <2> QED
    BY <1>5, <2>1, EndsKeepTiles DEF AskedInv, Tile
<1>6. CASE UNCHANGED navVars
  BY <1>6 DEF navVars, vars, AskedInv, Tile
<1>7. phase = "idle" => ~InGoTo \/ phase' = "idle"
  BY DEF InGoTo, BeginSearch, Interrupt, CallSearchStep, FindPath, SkipStart, FindNoPath, InCall
<1>8. phase \in {"idle", "cleared", "searching", "reading"}
  BY DEF NavInv, PhaseInv
<1> QED
  BY <1>1, <1>2, <1>3, <1>4, <1>5, <1>6, <1>7, <1>8 DEF NavNext, NextStep, ReplaceMap, NavDone

\* A search whose open nodes ran out has been everywhere it can get.
LEMMA GiveUpJustified ==
  ASSUME SearchInv, ExploredInv, ~spoilt, GiveUp, ~cancel, ~dropped
  PROVE  ~Reachable(RefMap, Tile(mStart), Tile(mGoal))
<1>1. /\ TypeInv /\ Phases /\ Sound /\ pc = "ready" /\ state = "SEARCHING" /\ open = {}
      /\ Searching /\ mStart \in Slots /\ mGoal \in Slots /\ RefMap \in Maps
      /\ closed \subseteq Slots
  BY DEF SearchInv, GiveUp, Phases, Searching, TypeInv, TypeOK
<1>2. Reached = closed /\ Inner = closed
  BY <1>1 DEF Reached, Inner, Current
<1>3. mStart \in closed /\ Tile(mGoal) \in Goals /\ \A c \in closed : Tile(c) # Tile(mGoal)
  BY <1>1, <1>2 DEF Sound, StartInv, TilesInv, ExploredInv, GoalAhead
<1> PICK N : N = Cardinality(DOMAIN RefMap)
  OBVIOUS
<1> PICK start : start = Tile(mStart)
  OBVIOUS
<1> PICK goal : goal = Tile(mGoal)
  OBVIOUS
<1>4. N \in 0 .. N
  <2>1. N \in Nat
    BY <1>1, WithinIs
  <2> QED
    BY <2>1
<1>5. ASSUME NEW R, start \in R, goal \notin R,
             \A s \in R, t \in DOMAIN RefMap :
               Walkable(RefMap, t) /\ Adjacent(s, t) => t \in R
      PROVE  ~Reachable(RefMap, start, goal)
  <2>1. Within(RefMap, start)[N] \subseteq R
    BY <1>1, <1>4, <1>5, WithinStays
  <2> QED
    BY <1>5, <2>1 DEF Reachable
<1>6. CASE Ordered
  <2> DEFINE R == {Tile(c) : c \in closed}
  <2>1. ASSUME NEW s \in R, NEW t \in DOMAIN RefMap, Walkable(RefMap, t), Adjacent(s, t)
        PROVE  t \in R
    <3>1. PICK c \in closed : s = Tile(c)
      BY <2>1
    <3>2. t \in Int \X Int
      BY <1>1, MapsAssumption
    <3>3. Reaches(c, t)
      BY <1>1, <1>6, <2>1, <3>1, <3>2 DEF ExploredInv, Explored
    <3> QED
      BY <1>2, <3>3 DEF Reaches
  <2>2. start \in R /\ goal \notin R
    BY <1>3
  <2> HIDE DEF R
  <2> QED
    BY <1>5, <2>1, <2>2
<1>7. CASE ~Ordered
  <2>1. PICK t \in DOMAIN RefMap : ~(GoalDistanceEstimate(t, Tile(mGoal)) < Far)
    BY <1>1, <1>7 DEF Ordered
  <2>2. goal \notin Nat \X Nat
    BY <1>1, <1>3, <2>1, FarAssumption
  <2>3. goal \notin DOMAIN RefMap
    BY <1>1, <2>2, MapsAssumption
  <2>4. goal # start
    BY <1>3
  <2> DEFINE R == {start} \cup DOMAIN RefMap
  <2>5. start \in R /\ goal \notin R /\ DOMAIN RefMap \subseteq R
    BY <2>3, <2>4
  <2> HIDE DEF R
  <2> QED
    BY <1>5, <2>5
<1> QED
  BY <1>6, <1>7

\* The reason a search failed for stays one until the next.
LEMMA NavFailedInv ==
  ASSUME SearchInv, ExploredInv, NavInv, AskedInv, FailedInv, [NavNext]_navVars
  PROVE  FailedInv'
<1> USE DEF pool, lists, locals, history, nav
<1>1. TypeInv /\ Phases
  BY DEF SearchInv
<1>2. CASE UNCHANGED <<request, cancel, dropped>> /\ spoilt' = spoilt /\ pc' = pc /\ state' = state
           /\ phase \in {"searching", "idle"}
  BY <1>2 DEF FailedInv
<1>3. ASSUME NEW s \in Starts, NEW g \in Goals, GoTo(s, g) PROVE FailedInv'
  BY <1>3 DEF GoTo, FailedInv
<1>4. CASE BeginSearch
  BY <1>4 DEF BeginSearch, SetStartAndGoalStates, FailedInv
<1>5. CASE Interrupt
  BY <1>5 DEF Interrupt, CancelSearch, FailedInv
<1>6. CASE CallSearchStep
  <2>1. CASE GiveUp
    <3>1. /\ cancel' = cancel /\ dropped' = dropped /\ spoilt' = spoilt /\ request' = request
          /\ phase = "searching" /\ state = "SEARCHING"
      BY <1>6, <2>1 DEF CallSearchStep, GiveUp
    <3>2. mStart # NULL
      BY <1>1, <3>1 DEF Phases, NULL, Slots, Elements
    <3>3. ~spoilt => /\ Tile(mStart) = request[1] /\ Tile(mGoal) = request[2]
                     /\ RefMap = request[3]
      BY <3>1, <3>2 DEF AskedInv
    <3> QED
      BY <2>1, <3>1, <3>3, GiveUpJustified DEF FailedInv
  <2>2. CASE ~GiveUp
    BY <1>6, <2>2 DEF CallSearchStep, SearchStep, ReachGoal, Expand, Enter, FailedInv
  <2> QED
    BY <2>1, <2>2
<1>7. CASE InCall
  <2>1. phase \in {"searching", "cleared"} /\ phase' = phase /\ request' = request
    BY <1>7 DEF InCall, Working, AddSuccessor, SuccessorsGenerated, Relax, Expanded, LinkParent,
      FreeUnusedOpen, FreeUnusedClosed, Succeed, FreeAllListed, Fail, FreeSolutionNode,
      NavInv, PhaseInv
  <2>2. CASE FreeAllListed \/ Fail
    <3>1. pc = "freeAll" /\ UNCHANGED <<cancel, dropped, spoilt>>
      BY <2>2 DEF FreeAllListed, Fail
    <3> QED
      BY <2>1, <3>1 DEF FailedInv
  <2>3. CASE phase = "searching" /\ ~FreeAllListed /\ ~Fail
    <3>1. pc # "ready" /\ pc # "freeSolution"
      BY <1>7, <2>3 DEF InCall, Working, AddSuccessor, SuccessorsGenerated, Relax, Expanded,
        LinkParent, FreeUnusedOpen, FreeUnusedClosed, Succeed, FreeSolutionNode,
        NavInv, PhaseInv
    <3>2. state = "SEARCHING"
      BY <2>3, <3>1 DEF NavInv, PhaseInv
    <3>3. pc' # "freeAll" /\ state' # "FAILED"
      BY <1>7, <2>3, <3>1, <3>2 DEF InCall, Working, AddSuccessor, SuccessorsGenerated, Relax,
        Expanded, LinkParent, FreeUnusedOpen, FreeUnusedClosed, Succeed, FreeSolutionNode,
        Return, Enter
    <3> QED
      BY <3>3 DEF FailedInv
  <2> QED
    BY <2>1, <2>2, <2>3 DEF FailedInv
<1>8. CASE FindPath
  BY <1>8 DEF FindPath, FailedInv
<1>9. CASE SkipStart
  <2>1. pc = "ready" /\ state = "SUCCEEDED"
    BY <1>9 DEF SkipStart, NavInv, PhaseInv, HasSolution
  <2> QED
    BY <1>9, <2>1 DEF SkipStart, GetSolutionNext, FailedInv
<1>10. CASE FindNoPath \/ NextStep \/ ReplaceMap \/ NavDone
  <2>1. UNCHANGED <<request, cancel, dropped>> /\ spoilt' = spoilt /\ pc' = pc /\ state' = state
    BY <1>10 DEF FindNoPath, NextStep, GetSolutionNext, ReplaceMap, LoadMap, NavDone, navVars, vars
  <2>2. phase \in {"searching", "idle"}
    BY <1>10 DEF FindNoPath, NextStep, ReplaceMap, NavDone
  <2> QED
    BY <1>2, <2>1, <2>2
<1>11. CASE UNCHANGED navVars
  BY <1>11 DEF navVars, vars, FailedInv
<1> QED
  BY <1>3, <1>4, <1>5, <1>6, <1>7, <1>8, <1>9, <1>10, <1>11 DEF NavNext, InGoTo

\* For every map, pool, bound and sequence of requests, as long as no path was followed
\* in a search that ran out of nodes: a request fails only when there is no path, or
\* when the search was cut short by the bound on its steps or on its nodes
\* (anim.cpp:147-166).
THEOREM FailuresAreJustified == NavSpec => [](~spoilt => FailureJustified)
<1>1. NavInit => AskedInv /\ FailedInv
  BY DEF NavInit, Init, AskedInv, FailedInv
<1>2. SearchInv /\ SearchInv' /\ NavInv /\ NavInv' /\ AskedInv /\ [NavNext]_navVars => AskedInv'
  BY NavAskedInv
<1>3. SearchInv /\ ExploredInv /\ NavInv /\ AskedInv /\ FailedInv /\ [NavNext]_navVars => FailedInv'
  BY NavFailedInv
<1>4. FailedInv => (~spoilt => FailureJustified)
  BY DEF FailedInv, FailureJustified, Answered
<1>5. NavSpec => []ExploredInv
  BY NavUsesSearchLegally, ExploredCorrect, PTL DEF UsesSearchLegally
<1> QED
  BY <1>1, <1>2, <1>3, <1>4, <1>5, NavSearchInv, NavInvCorrect, PTL DEF NavSpec

-----------------------------------------------------------------------------
(* The walk that is left.                                                  *)

\* w is the L nodes from s on along the child pointers.
Trail(s, w, L) ==
  /\ L \in 1 .. MaxNodes
  /\ w \in [0 .. L - 1 -> Slots]
  /\ w[0] = s
  /\ \A i \in 1 .. L - 1 : w[i] = node[w[i - 1]].child
  /\ node[w[L - 1]].child = NULL

\* The child of the i-th node of w, as TilesFrom looks it up.
ChildAt(s, w, i) == IF i = 0 THEN s ELSE IF w[i - 1] = NULL THEN NULL ELSE node[w[i - 1]].child
Follows(s, w) == w = [i \in 0 .. MaxNodes |-> ChildAt(s, w, i)]

\* What such a function is at each place.
LEMMA FollowsAre ==
  ASSUME NEW s, NEW w, Follows(s, w)
  PROVE  \A i \in 0 .. MaxNodes : w[i] = ChildAt(s, w, i)
<1> DEFINE u == [i \in 0 .. MaxNodes |-> ChildAt(s, w, i)]
<1>1. w = u
  BY DEF Follows
<1>2. \A i \in 0 .. MaxNodes : u[i] = ChildAt(s, w, i)
  OBVIOUS
<1> HIDE DEF u
<1> QED
  BY <1>1, <1>2

\* TilesFrom follows the child pointers from any node, and from NULL.
LEMMA FollowsExists == ASSUME TypeInv, NEW s \in Pointers PROVE \E w : Follows(s, w)
<1>1. CASE s = NULL
  <2> DEFINE w == [i \in 0 .. MaxNodes |-> NULL]
  <2>1. \A i \in 0 .. MaxNodes : w[i] = ChildAt(s, w, i)
    <3> TAKE i \in 0 .. MaxNodes
    <3>1. i # 0 => i - 1 \in 0 .. MaxNodes
      BY MaxNodesAssumption
    <3> QED
      BY <1>1, <3>1 DEF ChildAt
  <2>2. w = [i \in 0 .. MaxNodes |-> ChildAt(s, w, i)]
    <3> DEFINE u == [i \in 0 .. MaxNodes |-> ChildAt(s, w, i)]
    <3>1. \A i \in 0 .. MaxNodes : w[i] = u[i]
      BY <2>1
    <3> QED
      BY <3>1
  <2> HIDE DEF w
  <2> QED
    BY <2>2 DEF Follows
<1>2. CASE s # NULL
  <2>1. s \in Slots
    BY <1>2 DEF Pointers
  <2>2. PICK w : Along("child", s, w)
    BY <2>1, WalkExists, AlongIsWalk
  <2>3. \A x : node[x].child = node[x]["child"]
    BY SMT
  <2> QED
    BY <2>2, <2>3 DEF Along, Follows, ChildAt
<1> QED
  BY <1>1, <1>2

\* Where the pointers lead to an end there is a trail.
LEMMA TrailExists ==
  ASSUME TypeInv, NEW s \in Slots, NEW e \in Slots, e \in Kin(s), node[e].child = NULL
  PROVE  \E w, L : Trail(s, w, L)
<1>0. MaxNodes \in Nat /\ NULL \notin Slots
  BY MaxNodesAssumption DEF NULL, Slots, Elements
<1>1. PICK w : Follows(s, w) /\ \E i \in 0 .. MaxNodes : w[i] = NULL
  <2>1. \A x : node[x].child = node[x]["child"]
    BY SMT
  <2>2. Pointer("child") = [x \in Slots |-> node[x].child]
    BY <2>1 DEF Pointer
  <2>3. Leads(Arrows(Pointer("child")), s, e) /\ node[e]["child"] = NULL
    BY <2>1, <2>2 DEF Kin, Kids
  <2>4. PICK w : Along("child", s, w) /\ \E i \in 0 .. MaxNodes : w[i] = NULL
    BY <2>3, AlongMeets
  <2> QED
    BY <2>1, <2>4 DEF Along, Follows, ChildAt
<1>2. \A i \in 0 .. MaxNodes : w[i] = ChildAt(s, w, i)
  BY <1>1, FollowsAre
<1>3. PICK L \in 0 .. MaxNodes : w[L] = NULL /\ \A j \in 0 .. MaxNodes : w[j] = NULL => L <= j
  <2> DEFINE T == {i \in 0 .. MaxNodes : w[i] = NULL}
  <2>1. T \subseteq Nat /\ T # {}
    BY <1>1
  <2>2. PICK L \in T : \A j \in T : L <= j
    <3> HIDE DEF T
    <3> QED
      BY <2>1, LeastNumber
  <2> QED
    BY <2>2
<1>4. L # 0
  BY <1>0, <1>2, <1>3 DEF ChildAt
<1>5. \A i \in 0 .. L - 1 : i \in 0 .. MaxNodes /\ w[i] # NULL
  BY <1>0, <1>3
<1>6. \A i \in 1 .. L : i \in 0 .. MaxNodes /\ i # 0 /\ i - 1 \in 0 .. L - 1
  BY <1>0, <1>3
<1>7. \A i \in 1 .. L : w[i] = node[w[i - 1]].child
  BY <1>2, <1>5, <1>6 DEF ChildAt
<1>8. \A i \in 0 .. L - 1 : w[i] \in Slots
  <2> DEFINE Bad == {i \in 0 .. L - 1 : w[i] \notin Slots}
  <2> SUFFICES ASSUME Bad # {} PROVE FALSE
    OBVIOUS
  <2>1. PICK i \in Bad : \A j \in Bad : i <= j
    <3>1. Bad \in SUBSET Nat
      BY <1>3
    <3> HIDE DEF Bad
    <3> QED
      BY <3>1, LeastNumber
  <2>2. i \in 0 .. L - 1 /\ w[i] \notin Slots
    BY <2>1
  <2>3. i # 0
    BY <1>2, <1>5, <2>2 DEF ChildAt
  <2>4. i \in 1 .. L /\ i - 1 \in 0 .. L - 1 /\ ~(i <= i - 1)
    BY <1>3, <2>2, <2>3
  <2>5. w[i - 1] \in Slots
    BY <2>1, <2>4
  <2>6. w[i] \in Pointers
    BY <1>7, <2>4, <2>5, NodeType
  <2> QED
    BY <1>5, <2>2, <2>6 DEF Pointers
<1> DEFINE v == [i \in 0 .. L - 1 |-> w[i]]
<1>9. L \in 1 .. MaxNodes /\ L \in 1 .. L /\ 0 \in 0 .. L - 1 /\ L - 1 \in 0 .. L - 1
  BY <1>0, <1>3, <1>4
<1>10. \A i \in 1 .. L - 1 : i \in 1 .. L /\ i \in 0 .. L - 1 /\ i - 1 \in 0 .. L - 1
  BY <1>3
<1>11. v \in [0 .. L - 1 -> Slots] /\ \A i \in 0 .. L - 1 : v[i] = w[i]
  BY <1>8
<1>12. v[0] = s
  BY <1>2, <1>5, <1>9, <1>11 DEF ChildAt
<1> HIDE DEF v
<1>13. Trail(s, v, L)
  BY <1>3, <1>7, <1>9, <1>10, <1>11, <1>12 DEF Trail
<1> QED
  BY <1>13

TilesOf(w, L) == [i \in 1 .. L |-> Tile(w[i - 1])]

\* The tiles from s on are those of its trail.
LEMMA TrailTiles ==
  ASSUME TypeInv, NEW s \in Slots, NEW w, NEW L, Trail(s, w, L)
  PROVE  TilesFrom(s) = TilesOf(w, L)
<1>0. MaxNodes \in Nat /\ NULL \notin Slots /\ s \in Pointers /\ L \in 1 .. MaxNodes
  BY MaxNodesAssumption DEF NULL, Slots, Elements, Pointers, Trail
<1> DEFINE Fits(v) == v = [i \in 0 .. MaxNodes |->
                             IF i = 0 THEN s
                             ELSE IF v[i - 1] = NULL THEN NULL ELSE node[v[i - 1]].child]
<1>1. \A v : Fits(v) <=> Follows(s, v)
  BY DEF Follows, ChildAt
<1> DEFINE v == CHOOSE u : Fits(u)
<1>2. Follows(s, v)
  <2>1. \E u : Fits(u)
    <3> HIDE DEF Fits
    <3> QED
      BY <1>0, <1>1, FollowsExists
  <2> HIDE DEF Fits
  <2> QED
    BY <1>1, <2>1
<1>3. TilesFrom(s) = [i \in 1 .. Cardinality({i \in 0 .. MaxNodes : v[i] # NULL}) |-> Tile(v[i - 1])]
  BY DEF TilesFrom
<1> HIDE DEF v, Fits
<1>4. \A i \in 0 .. MaxNodes : v[i] = ChildAt(s, v, i)
  BY <1>2, FollowsAre
<1>5. \A i \in 0 .. L - 1 : v[i] = w[i]
  <2> DEFINE Bad == {i \in 0 .. L - 1 : v[i] # w[i]}
  <2> SUFFICES ASSUME Bad # {} PROVE FALSE
    OBVIOUS
  <2>1. PICK i \in Bad : \A j \in Bad : i <= j
    <3>1. Bad \in SUBSET Nat
      BY <1>0
    <3> HIDE DEF Bad
    <3> QED
      BY <3>1, LeastNumber
  <2>2. i \in 0 .. L - 1 /\ v[i] # w[i] /\ i \in 0 .. MaxNodes
    BY <1>0, <2>1
  <2>3. i # 0
    BY <1>4, <2>2 DEF ChildAt, Trail
  <2>4. i \in 1 .. L - 1 /\ i - 1 \in 0 .. L - 1 /\ ~(i <= i - 1)
    BY <1>0, <2>2, <2>3
  <2>5. v[i - 1] = w[i - 1] /\ w[i - 1] \in Slots
    BY <2>1, <2>4 DEF Trail
  <2> QED
    BY <1>0, <1>4, <2>2, <2>3, <2>4, <2>5 DEF ChildAt, Trail
<1>6. \A i \in L .. MaxNodes : v[i] = NULL
  <2> DEFINE Bad == {i \in L .. MaxNodes : v[i] # NULL}
  <2> SUFFICES ASSUME Bad # {} PROVE FALSE
    OBVIOUS
  <2>1. PICK i \in Bad : \A j \in Bad : i <= j
    <3>1. Bad \in SUBSET Nat
      BY <1>0
    <3> HIDE DEF Bad
    <3> QED
      BY <3>1, LeastNumber
  <2>2. i \in L .. MaxNodes /\ v[i] # NULL /\ i \in 0 .. MaxNodes /\ i # 0
    BY <1>0, <2>1
  <2>3. CASE i = L
    <3>1. L - 1 \in 0 .. L - 1
      BY <1>0
    <3>2. v[i - 1] = w[L - 1] /\ node[w[L - 1]].child = NULL
      BY <1>5, <2>3, <3>1 DEF Trail
    <3> QED
      BY <1>4, <2>2, <3>2 DEF ChildAt
  <2>4. CASE i # L
    <3>1. i - 1 \in L .. MaxNodes /\ ~(i <= i - 1)
      BY <1>0, <2>2, <2>4
    <3>2. v[i - 1] = NULL
      BY <2>1, <3>1
    <3> QED
      BY <1>4, <2>2, <3>2 DEF ChildAt
  <2> QED
    BY <2>3, <2>4
<1>7. {i \in 0 .. MaxNodes : v[i] # NULL} = 0 .. L - 1
  <2>1. \A i \in 0 .. MaxNodes : i \in 0 .. L - 1 \/ i \in L .. MaxNodes
    BY <1>0
  <2>2. \A i \in 0 .. L - 1 : i \in 0 .. MaxNodes /\ v[i] # NULL
    BY <1>0, <1>5 DEF Trail
  <2> QED
    BY <1>6, <2>1, <2>2
<1>8. Cardinality(0 .. L - 1) = L
  <2>1. Cardinality(0 .. L - 1) = IF 0 > L - 1 THEN 0 ELSE (L - 1) - 0 + 1
    BY <1>0, FS_Interval
  <2> QED
    BY <1>0, <2>1
<1>9. \A i \in 1 .. L : v[i - 1] = w[i - 1]
  BY <1>0, <1>5
<1> QED
  BY <1>3, <1>7, <1>8, <1>9 DEF TilesOf

\* There are no tiles from NULL on.
LEMMA NoTiles == ASSUME TypeInv PROVE TilesFrom(NULL) = <<>>
<1>0. MaxNodes \in Nat /\ NULL \in Pointers
  BY MaxNodesAssumption DEF Pointers
<1> DEFINE Fits(v) == v = [i \in 0 .. MaxNodes |->
                             IF i = 0 THEN NULL
                             ELSE IF v[i - 1] = NULL THEN NULL ELSE node[v[i - 1]].child]
<1>1. \A v : Fits(v) <=> Follows(NULL, v)
  BY DEF Follows, ChildAt
<1> DEFINE v == CHOOSE u : Fits(u)
<1>2. Follows(NULL, v)
  <2>1. \E u : Fits(u)
    <3> HIDE DEF Fits
    <3> QED
      BY <1>0, <1>1, FollowsExists
  <2> HIDE DEF Fits
  <2> QED
    BY <1>1, <2>1
<1>3. TilesFrom(NULL) = [i \in 1 .. Cardinality({i \in 0 .. MaxNodes : v[i] # NULL}) |-> Tile(v[i - 1])]
  BY DEF TilesFrom
<1> HIDE DEF v, Fits
<1>4. \A i \in 0 .. MaxNodes : v[i] = ChildAt(NULL, v, i)
  BY <1>2, FollowsAre
<1>5. \A i \in 0 .. MaxNodes : v[i] = NULL
  <2> DEFINE Bad == {i \in 0 .. MaxNodes : v[i] # NULL}
  <2> SUFFICES ASSUME Bad # {} PROVE FALSE
    OBVIOUS
  <2>1. PICK i \in Bad : \A j \in Bad : i <= j
    <3>1. Bad \in SUBSET Nat
      BY <1>0
    <3> HIDE DEF Bad
    <3> QED
      BY <3>1, LeastNumber
  <2>2. i \in 0 .. MaxNodes /\ v[i] # NULL
    BY <2>1
  <2>3. i # 0
    BY <1>4, <2>2 DEF ChildAt
  <2>4. i - 1 \in 0 .. MaxNodes /\ ~(i <= i - 1)
    BY <1>0, <2>2, <2>3
  <2>5. v[i - 1] = NULL
    BY <2>1, <2>4
  <2> QED
    BY <1>4, <2>2, <2>5 DEF ChildAt
<1>6. {i \in 0 .. MaxNodes : v[i] # NULL} = {}
  BY <1>5
<1>7. TilesFrom(NULL) = [i \in 1 .. 0 |-> Tile(v[i - 1])]
  BY <1>3, <1>6, FS_EmptySet
<1>8. 1 .. 0 = {}
  OBVIOUS
<1> QED
  BY <1>7, <1>8

\* The child of a node has the rest of its trail.
LEMMA TrailRest ==
  ASSUME TypeInv, NEW s \in Slots, NEW w, NEW L, Trail(s, w, L)
  PROVE  IF node[s].child = NULL THEN L = 1
         ELSE L > 1 /\ node[s].child \in Slots
              /\ Trail(node[s].child, [i \in 0 .. L - 2 |-> w[i + 1]], L - 1)
<1>0. L \in 1 .. MaxNodes /\ MaxNodes \in Nat /\ NULL \notin Slots
      /\ w \in [0 .. L - 1 -> Slots] /\ w[0] = s
      /\ (\A i \in 1 .. L - 1 : w[i] = node[w[i - 1]].child)
      /\ node[w[L - 1]].child = NULL
  BY MaxNodesAssumption DEF NULL, Slots, Elements, Trail
<1>1. CASE L = 1
  BY <1>0, <1>1
<1>2. CASE L # 1
  <2>1. L > 1 /\ 1 \in 1 .. L - 1 /\ 1 \in 0 .. L - 1 /\ 1 - 1 = 0
    BY <1>0, <1>2
  <2>2. node[s].child = w[1] /\ w[1] \in Slots
    BY <1>0, <2>1
  <2> DEFINE v == [i \in 0 .. L - 2 |-> w[i + 1]]
  <2>3. L - 1 \in 1 .. MaxNodes /\ (L - 1) - 1 = L - 2
    BY <1>0, <2>1
  <2>4. \A i \in 0 .. L - 2 : i + 1 \in 0 .. L - 1
    BY <1>0
  <2>5. v \in [0 .. L - 2 -> Slots] /\ \A i \in 0 .. L - 2 : v[i] = w[i + 1]
    BY <1>0, <2>4
  <2> HIDE DEF v
  <2>6. v[0] = w[1]
    BY <1>0, <2>1, <2>5
  <2>7. ASSUME NEW i \in 1 .. L - 2 PROVE v[i] = node[v[i - 1]].child
    <3>1. i \in 0 .. L - 2 /\ i - 1 \in 0 .. L - 2 /\ (i - 1) + 1 = i /\ i + 1 \in 1 .. L - 1
          /\ (i + 1) - 1 = i
      BY <1>0
    <3> QED
      BY <1>0, <2>5, <3>1
  <2>8. v[L - 2] = w[L - 1]
    <3>1. L - 2 \in 0 .. L - 2 /\ (L - 2) + 1 = L - 1
      BY <1>0, <2>1
    <3> QED
      BY <2>5, <3>1
  <2>9. Trail(w[1], v, L - 1)
    BY <1>0, <2>3, <2>5, <2>6, <2>7, <2>8 DEF Trail
  <2> QED
    BY <1>0, <2>1, <2>2, <2>9 DEF v
<1> QED
  BY <1>1, <1>2

\* The nodes of a trail are the kin of its first.
LEMMA TrailIsKin ==
  ASSUME TypeInv, NEW s \in Slots, NEW w, NEW L, Trail(s, w, L)
  PROVE  \A i \in 0 .. L - 1 : w[i] \in Kin(s)
<1>0. L \in 1 .. MaxNodes /\ MaxNodes \in Nat
      /\ w \in [0 .. L - 1 -> Slots] /\ w[0] = s
      /\ (\A i \in 1 .. L - 1 : w[i] = node[w[i - 1]].child)
  BY MaxNodesAssumption DEF Trail
<1> DEFINE Bad == {i \in 0 .. L - 1 : w[i] \notin Kin(s)}
<1> SUFFICES ASSUME Bad # {} PROVE FALSE
  OBVIOUS
<1>1. PICK i \in Bad : \A j \in Bad : i <= j
  <2>1. Bad \in SUBSET Nat
    BY <1>0
  <2> HIDE DEF Bad
  <2> QED
    BY <2>1, LeastNumber
<1>2. i \in 0 .. L - 1 /\ w[i] \notin Kin(s)
  BY <1>1
<1>3. i # 0
  BY <1>0, <1>2, KinGoesOn
<1>4. i \in 1 .. L - 1 /\ i - 1 \in 0 .. L - 1 /\ ~(i <= i - 1)
  BY <1>0, <1>2, <1>3
<1>5. w[i - 1] \in Kin(s) /\ w[i] = node[w[i - 1]].child /\ w[i] \in Slots
  BY <1>0, <1>1, <1>4
<1> QED
  BY <1>2, <1>5, KinGoesOn

-----------------------------------------------------------------------------
(* Shortest paths of the map.                                              *)

\* More moves reach more.
LEMMA WithinGrows ==
  ASSUME NEW map \in Maps, NEW start, NEW i \in 0 .. Cardinality(DOMAIN map)
  PROVE  \A j \in i .. Cardinality(DOMAIN map) : Within(map, start)[i] \subseteq Within(map, start)[j]
<1> PICK N : N = Cardinality(DOMAIN map)
  OBVIOUS
<1> PICK w : w = Within(map, start)
  OBVIOUS
<1> DEFINE Bad == {j \in i .. N : ~(w[i] \subseteq w[j])}
<1> SUFFICES ASSUME Bad # {} PROVE FALSE
  OBVIOUS
<1>1. N \in Nat
  BY WithinIs
<1>2. PICK j \in Bad : \A l \in Bad : j <= l
  <2>1. Bad \in SUBSET Nat
    BY <1>1
  <2> HIDE DEF Bad
  <2> QED
    BY <2>1, LeastNumber
<1>3. j \in i .. N /\ ~(w[i] \subseteq w[j]) /\ j # i
  BY <1>2
<1>4. j \in 1 .. N /\ j - 1 \in i .. N /\ ~(j <= j - 1)
  BY <1>1, <1>3
<1>5. w[i] \subseteq w[j - 1]
  BY <1>2, <1>4
<1>6. w[j] = Grown(map, w[j - 1])
  BY <1>4, WithinIs
<1> QED
  BY <1>3, <1>5, <1>6 DEF Grown

\* As many moves as the map has tiles reach all that moves can reach.
LEMMA WithinCloses ==
  ASSUME NEW map \in Maps, NEW start,
         NEW s \in Within(map, start)[Cardinality(DOMAIN map)],
         NEW t \in DOMAIN map, Walkable(map, t), Adjacent(s, t)
  PROVE  t \in Within(map, start)[Cardinality(DOMAIN map)]
<1> PICK N : N = Cardinality(DOMAIN map)
  OBVIOUS
<1> PICK w : w = Within(map, start)
  OBVIOUS
<1> SUFFICES ASSUME t \notin w[N] PROVE FALSE
  OBVIOUS
<1>1. /\ N \in Nat /\ w[0] = {start}
      /\ \A i \in 1 .. N : w[i] = Grown(map, w[i - 1])
  BY WithinIs
<1>2. \A i \in 1 .. N : w[i] # w[i - 1] /\ w[i - 1] \subseteq w[i]
  <2> TAKE i \in 1 .. N
  <2>1. i - 1 \in 0 .. N /\ N \in i - 1 .. N /\ 0 \in 0 .. N /\ i - 1 \in 0 .. N
        /\ N \in 0 .. N /\ i \in i - 1 .. N
    BY <1>1
  <2>2. w[0] \subseteq w[i - 1] /\ w[i - 1] \subseteq w[N] /\ w[i - 1] \subseteq w[i]
    BY <2>1, WithinGrows
  <2>3. ASSUME w[i] = w[i - 1] PROVE FALSE
    <3> PICK R : R = w[i]
      OBVIOUS
    <3>1. start \in R /\ R = Grown(map, R)
      BY <1>1, <2>2, <2>3
    <3>2. \A u \in R, v \in DOMAIN map : Walkable(map, v) /\ Adjacent(u, v) => v \in R
      BY <3>1 DEF Grown
    <3>3. w[N] \subseteq R
      BY <2>1, <3>1, <3>2, WithinStays
    <3> QED
      BY <2>2, <2>3, <3>2, <3>3
  <2> QED
    BY <2>2, <2>3
<1> DEFINE All == {start} \cup DOMAIN map
<1>3. IsFiniteSet(All) /\ Cardinality(All) <= N + 1 /\ start \in All
  <2>1. IsFiniteSet(DOMAIN map)
    BY MapsAssumption
  <2>2. /\ IsFiniteSet(DOMAIN map \cup {start})
        /\ Cardinality(DOMAIN map \cup {start}) =
             IF start \in DOMAIN map THEN Cardinality(DOMAIN map) ELSE Cardinality(DOMAIN map) + 1
    BY <2>1, FS_AddElement
  <2>3. All = DOMAIN map \cup {start}
    OBVIOUS
  <2> HIDE DEF All
  <2> QED
    BY <1>1, <2>2, <2>3
<1>4. \A i \in 0 .. N : w[i] \subseteq All
  <2>1. \A u \in All, v \in DOMAIN map : Walkable(map, v) /\ Adjacent(u, v) => v \in All
    OBVIOUS
  <2> HIDE DEF All
  <2> QED
    BY <1>3, <2>1, WithinStays
<1> HIDE DEF All
<1>5. \A i \in 0 .. N : IsFiniteSet(w[i]) /\ Cardinality(w[i]) \in Nat
  BY <1>3, <1>4, FS_Subset, FS_CardinalityType
<1>6. \A i \in 0 .. N : Cardinality(w[i]) >= i + 1
  <2> DEFINE Bad == {i \in 0 .. N : ~(Cardinality(w[i]) >= i + 1)}
  <2> SUFFICES ASSUME Bad # {} PROVE FALSE
    OBVIOUS
  <2>1. PICK i \in Bad : \A l \in Bad : i <= l
    <3>1. Bad \in SUBSET Nat
      BY <1>1
    <3> HIDE DEF Bad
    <3> QED
      BY <3>1, LeastNumber
  <2>2. i \in 0 .. N /\ ~(Cardinality(w[i]) >= i + 1)
    BY <2>1
  <2>3. i # 0
    <3>1. Cardinality({start}) = 1
      BY FS_Singleton
    <3>2. 1 >= 0 + 1
      OBVIOUS
    <3> QED
      BY <1>1, <2>2, <3>1, <3>2
  <2>4. i \in 1 .. N /\ i - 1 \in 0 .. N /\ ~(i <= i - 1)
    BY <1>1, <2>2, <2>3
  <2>5. Cardinality(w[i - 1]) >= (i - 1) + 1
    BY <2>1, <2>4
  <2>6. Cardinality(w[i - 1]) < Cardinality(w[i])
    BY <1>2, <1>5, <2>2, <2>4, FS_Subset
  <2>7. Cardinality(w[i]) \in Nat /\ Cardinality(w[i - 1]) \in Nat
    BY <1>5, <2>2, <2>4
  <2> QED
    BY <2>2, <2>5, <2>6, <2>7
<1>7. N \in 0 .. N
  BY <1>1
<1>8. w[N] \in SUBSET All /\ w[N] # All
  <2>1. t \in All
    BY DEF All
  <2> QED
    BY <1>4, <1>7, <2>1
<1>9. Cardinality(w[N]) >= N + 1 /\ Cardinality(w[N]) \in Nat /\ Cardinality(All) \in Nat
  BY <1>3, <1>5, <1>6, <1>7, FS_CardinalityType
<1>10. Cardinality(w[N]) <= Cardinality(All) /\ Cardinality(w[N]) # Cardinality(All)
  BY <1>3, <1>8, FS_Subset
<1> QED
  BY <1>1, <1>3, <1>9, <1>10

\* Distance is the number of moves that reach the goal.
LEMMA DistanceIs ==
  ASSUME NEW map \in Maps, NEW start, NEW goal, Reachable(map, start, goal)
  PROVE  /\ Distance(map, start, goal) \in 0 .. Cardinality(DOMAIN map)
         /\ goal \in Within(map, start)[Distance(map, start, goal)]
<1> PICK N : N = Cardinality(DOMAIN map)
  OBVIOUS
<1> PICK w : w = Within(map, start)
  OBVIOUS
<1>1. N \in Nat /\ N \in 0 .. N
  <2>1. N \in Nat
    BY WithinIs
  <2> QED
    BY <2>1
<1>2. PICK d \in 0 .. N : goal \in w[d] /\ \A j \in 0 .. N : goal \in w[j] => d <= j
  <2> DEFINE T == {i \in 0 .. N : goal \in w[i]}
  <2>1. T \in SUBSET Nat /\ T # {}
    BY <1>1 DEF Reachable
  <2>2. PICK d \in T : \A j \in T : d <= j
    <3> HIDE DEF T
    <3> QED
      BY <2>1, LeastNumber
  <2> QED
    BY <2>2
<1>3. {i \in 0 .. N : goal \notin w[i]} = 0 .. d - 1
  <2>1. ASSUME NEW i \in 0 .. N, goal \notin w[i] PROVE i \in 0 .. d - 1
    <3>1. ~(i \in d .. N)
      BY <1>2, <2>1, WithinGrows
    <3> QED
      BY <1>1, <1>2, <3>1
  <2>2. ASSUME NEW i \in 0 .. d - 1 PROVE i \in 0 .. N /\ goal \notin w[i]
    <3>1. i \in 0 .. N /\ ~(d <= i)
      BY <1>1, <1>2, <2>2
    <3> QED
      BY <1>2, <3>1
  <2> QED
    BY <2>1, <2>2
<1>4. Cardinality(0 .. d - 1) = d
  <2>1. \A b \in Int : Cardinality(0 .. b) = IF 0 > b THEN 0 ELSE b - 0 + 1
    BY FS_Interval
  <2>2. d \in Nat /\ d - 1 \in Int
    BY <1>2
  <2>3. Cardinality(0 .. d - 1) = IF 0 > d - 1 THEN 0 ELSE (d - 1) - 0 + 1
    BY <2>1, <2>2
  <2> QED
    BY <2>2, <2>3
<1>5. Distance(map, start, goal) = d
  BY <1>3, <1>4 DEF Distance
<1> QED
  BY <1>2, <1>5

\* p is a way of m moves over free tiles of the map.
Way(map, p, m, start, goal) ==
  /\ p[0] = start /\ p[m] = goal
  /\ \A j \in 1 .. m : p[j] \in DOMAIN map /\ Walkable(map, p[j]) /\ Adjacent(p[j - 1], p[j])

\* There is a way to what moves reach.
LEMMA WayExists ==
  ASSUME NEW map \in Maps, NEW start, NEW i \in 0 .. Cardinality(DOMAIN map)
  PROVE  \A t \in Within(map, start)[i] : \E m \in 0 .. i : \E p : Way(map, p, m, start, t)
<1> PICK N : N = Cardinality(DOMAIN map)
  OBVIOUS
<1> PICK w : w = Within(map, start)
  OBVIOUS
<1>1. /\ N \in Nat /\ w[0] = {start}
      /\ \A l \in 1 .. N : w[l] = Grown(map, w[l - 1])
  BY WithinIs
<1> DEFINE Has(l) == \A t \in w[l] : \E m \in 0 .. l : \E p : Way(map, p, m, start, t)
           Bad == {l \in 0 .. N : ~Has(l)}
<1>2. SUFFICES ASSUME Bad # {} PROVE FALSE
  OBVIOUS
<1>3. PICK l \in Bad : \A j \in Bad : l <= j
  <2>1. Bad \in SUBSET Nat
    BY <1>1
  <2> HIDE DEF Bad
  <2> QED
    BY <1>2, <2>1, LeastNumber
<1>4. l \in 0 .. N
  BY <1>3
<1>5. PICK t \in w[l] : ~ \E m \in 0 .. l : \E p : Way(map, p, m, start, t)
  BY <1>3
<1>6. l # 0
  <2> SUFFICES ASSUME l = 0 PROVE FALSE
    OBVIOUS
  <2>1. t = start
    BY <1>1, <1>5
  <2> DEFINE p == [j \in 0 .. 0 |-> start]
  <2>2. Way(map, p, 0, start, t)
    BY <2>1 DEF Way
  <2> HIDE DEF p
  <2>3. 0 \in 0 .. l
    BY <1>4
  <2> QED
    BY <1>5, <2>2, <2>3
<1>7. l \in 1 .. N /\ l - 1 \in 0 .. N /\ ~(l <= l - 1)
  BY <1>1, <1>4, <1>6
<1>8. Has(l - 1)
  BY <1>3, <1>7
<1>9. w[l] = Grown(map, w[l - 1])
  BY <1>1, <1>7
<1>10. CASE t \in w[l - 1]
  <2>1. PICK m \in 0 .. l - 1 : \E p : Way(map, p, m, start, t)
    BY <1>8, <1>10
  <2>2. m \in 0 .. l
    BY <1>4, <2>1
  <2> QED
    BY <1>5, <2>1, <2>2
<1>11. CASE t \notin w[l - 1]
  <2>1. t \in DOMAIN map /\ Walkable(map, t)
    BY <1>5, <1>9, <1>11 DEF Grown
  <2>2. PICK s \in w[l - 1] : Adjacent(s, t)
    BY <1>5, <1>9, <1>11 DEF Grown
  <2>3. PICK m \in 0 .. l - 1 : \E p : Way(map, p, m, start, s)
    BY <1>8
  <2>4. PICK p : Way(map, p, m, start, s)
    BY <2>3
  <2> DEFINE q == [j \in 0 .. m + 1 |-> IF j = m + 1 THEN t ELSE p[j]]
  <2>5. /\ m \in Nat /\ m + 1 \in 0 .. l /\ 0 \in 0 .. m + 1 /\ 0 # m + 1 /\ m + 1 \in 0 .. m + 1
    BY <1>4, <2>3
  <2>6. /\ q[0] = start /\ q[m + 1] = t
        /\ \A j \in 0 .. m : q[j] = p[j]
    <3>1. \A j \in 0 .. m : j \in 0 .. m + 1 /\ j # m + 1
      BY <2>5
    <3> QED
      BY <2>4, <2>5, <3>1 DEF Way
  <2> HIDE DEF q
  <2>7. ASSUME NEW j \in 1 .. m + 1
        PROVE  q[j] \in DOMAIN map /\ Walkable(map, q[j]) /\ Adjacent(q[j - 1], q[j])
    <3>1. CASE j = m + 1
      <4>1. j - 1 = m /\ m \in 0 .. m
        BY <2>5, <3>1
      <4> QED
        BY <2>1, <2>2, <2>4, <2>6, <3>1, <4>1 DEF Way
    <3>2. CASE j # m + 1
      <4>1. j \in 1 .. m /\ j \in 0 .. m /\ j - 1 \in 0 .. m
        BY <2>5, <3>2
      <4> QED
        BY <2>4, <2>6, <4>1 DEF Way
    <3> QED
      BY <3>1, <3>2
  <2>8. Way(map, q, m + 1, start, t)
    BY <2>6, <2>7 DEF Way
  <2> QED
    BY <1>5, <2>5, <2>8
<1> QED
  BY <1>10, <1>11

-----------------------------------------------------------------------------
(* The cost of a path that is found.                                       *)

\* A move changes the estimate by two at most.
LEMMA EstimateStep ==
  ASSUME NEW t \in Nat \X Nat, NEW u \in Nat \X Nat, NEW goal \in Nat \X Nat, Adjacent(t, u),
         GoalDistanceEstimate(t, goal) < Far, GoalDistanceEstimate(u, goal) < Far
  PROVE  GoalDistanceEstimate(t, goal) <= GoalDistanceEstimate(u, goal) + 2
<1> PICK a \in Nat, b \in Nat : t = <<a, b>>
  OBVIOUS
<1> PICK c \in Nat, d \in Nat : u = <<c, d>>
  OBVIOUS
<1> PICK x \in Nat, y \in Nat : goal = <<x, y>>
  OBVIOUS
<1>1. PICK i \in DOMAIN Moves : u = Neighbour(t, i)
  BY DEF Adjacent
<1>2. i \in 1 .. 8
  BY MovesAre
<1>3. /\ Moves[i][1] \in -1 .. 1 /\ Moves[i][2] \in -1 .. 1
  BY <1>2 DEF Moves
<1>4. c = a + Moves[i][1] /\ d = b + Moves[i][2]
  BY <1>1 DEF Neighbour
<1>5. a - c \in -1 .. 1 /\ b - d \in -1 .. 1
  BY <1>3, <1>4
<1>6. \A v, w \in Nat : AxisDistance(v, w) = IF v < w THEN w - v ELSE v - w
  BY DEF AxisDistance
<1> DEFINE ax == AxisDistance(a, x)
           ay == AxisDistance(b, y)
           cx == AxisDistance(c, x)
           cy == AxisDistance(d, y)
<1>7. ax \in Nat /\ ay \in Nat /\ cx \in Nat /\ cy \in Nat /\ ax <= cx + 1 /\ ay <= cy + 1
  <2>1. \A v, w, z \in Nat : v - w \in -1 .. 1 =>
          AxisDistance(v, z) \in Nat /\ AxisDistance(w, z) \in Nat
          /\ AxisDistance(v, z) <= AxisDistance(w, z) + 1
    <3> TAKE v, w, z \in Nat
    <3> HAVE v - w \in -1 .. 1
    <3>1. /\ AxisDistance(v, z) = IF v < z THEN z - v ELSE v - z
          /\ AxisDistance(w, z) = IF w < z THEN z - w ELSE w - z
      BY <1>6
    <3>2. v <= w + 1 /\ w <= v + 1
      OBVIOUS
    <3>3. CASE v < z
      BY <3>1, <3>2, <3>3
    <3>4. CASE ~(v < z)
      BY <3>1, <3>2, <3>4
    <3> QED
      BY <3>3, <3>4
  <2> QED
    BY <1>5, <2>1
<1>8. GoalDistanceEstimate(t, goal) = FloatSum(ax, ay) /\ GoalDistanceEstimate(u, goal) = FloatSum(cx, cy)
  BY DEF GoalDistanceEstimate
<1> HIDE DEF ax, ay, cx, cy
<1>9. FloatSum(ax, ay) = ax + ay /\ FloatSum(cx, cy) = cx + cy
  BY <1>7, <1>8, FarType DEF FloatSum
<1> QED
  BY <1>7, <1>8, <1>9

\* A tile is no distance from itself.
LEMMA EstimateSelf == ASSUME NEW t \in Nat \X Nat PROVE GoalDistanceEstimate(t, t) = 0
<1> PICK a \in Nat, b \in Nat : t = <<a, b>>
  OBVIOUS
<1>1. \A v \in Nat : AxisDistance(v, v) = 0
  BY DEF AxisDistance
<1>2. FloatSum(0, 0) = 0
  BY DEF FloatSum, Far
<1> QED
  BY <1>1, <1>2 DEF GoalDistanceEstimate

\* Along a way the estimate is at most twice the moves that are left.
LEMMA EstimateOnWay ==
  ASSUME NEW map \in Maps, NEW p, NEW m \in Nat, NEW start, NEW goal,
         Way(map, p, m, start, goal), goal \in Nat \X Nat, m >= 1,
         \A tile \in DOMAIN map : GoalDistanceEstimate(tile, goal) < Far
  PROVE  \A j \in 1 .. m : GoalDistanceEstimate(p[j], goal) <= 2 * (m - j)
<1>1. /\ p[m] = goal
      /\ \A j \in 1 .. m : p[j] \in DOMAIN map /\ p[j] \in Nat \X Nat /\ Adjacent(p[j - 1], p[j])
  BY MapsAssumption DEF Way
<1> DEFINE h(l) == GoalDistanceEstimate(p[m - l], goal)
           Bad == {l \in 0 .. m - 1 : ~(h(l) <= 2 * l)}
<1>2. Bad = {}
  <2> SUFFICES ASSUME Bad # {} PROVE FALSE
    OBVIOUS
  <2>1. PICK l \in Bad : \A i \in Bad : l <= i
    <3>1. Bad \in SUBSET Nat
      OBVIOUS
    <3> HIDE DEF Bad
    <3> QED
      BY <3>1, LeastNumber
  <2>2. l \in 0 .. m - 1 /\ ~(h(l) <= 2 * l)
    BY <2>1
  <2>3. l # 0
    <3>1. m - 0 = m
      OBVIOUS
    <3> QED
      BY <1>1, <2>2, <3>1, EstimateSelf
  <2>4. l - 1 \in 0 .. m - 1 /\ ~(l <= l - 1) /\ m - l \in 1 .. m /\ m - (l - 1) \in 1 .. m
        /\ (m - (l - 1)) - 1 = m - l
    BY <2>2, <2>3
  <2>5. h(l - 1) <= 2 * (l - 1)
    BY <2>1, <2>4
  <2> PICK t \in Nat \X Nat : t = p[m - l]
    BY <1>1, <2>4
  <2> PICK u \in Nat \X Nat : u = p[m - (l - 1)]
    BY <1>1, <2>4
  <2>6. Adjacent(t, u)
    BY <1>1, <2>4
  <2>7. GoalDistanceEstimate(t, goal) <= GoalDistanceEstimate(u, goal) + 2
    BY <1>1, <2>4, <2>6, EstimateStep
  <2>8. GoalDistanceEstimate(t, goal) \in Nat /\ GoalDistanceEstimate(u, goal) \in Nat
    BY EstimateType
  <2>9. h(l) <= h(l - 1) + 2 /\ h(l) \in Nat /\ h(l - 1) \in Nat
    BY <2>7, <2>8
  <2> HIDE DEF h
  <2> QED
    BY <2>2, <2>5, <2>9
<1> TAKE j \in 1 .. m
<1>3. m - j \in 0 .. m - 1 /\ m - (m - j) = j
  OBVIOUS
<1>4. h(m - j) <= 2 * (m - j)
  BY <1>2, <1>3
<1> QED
  BY <1>3, <1>4

\* Twice the cost of the shortest path of the search.
Limit == 2 * (StepCost(mStart) + Distance(RefMap, Tile(mStart), Tile(mGoal)) - 1)

\* The tiles of a chain can be reached.
LEMMA ChainIsReachable ==
  ASSUME TypeInv, Phases, Sound, Searching, NEW s \in Reached, s \in Slots,
         \A e \in Slots : Under(s, e) => e = mStart \/ Linked(e)
  PROVE  Reachable(RefMap, Tile(mStart), Tile(s))
<1> PICK N : N = Cardinality(DOMAIN RefMap)
  OBVIOUS
<1> PICK R : R = Within(RefMap, Tile(mStart))[N]
  OBVIOUS
<1>1. RefMap \in Maps /\ mStart \in Slots /\ Reached \subseteq Slots
  <2>1. Current \subseteq Slots
    BY DEF Current, TypeInv, NodesKnown
  <2> QED
    BY <2>1 DEF TypeInv, TypeOK, Phases, Searching, Reached
<1>2. N \in Nat /\ 0 \in 0 .. N /\ N \in 0 .. N
  <2>1. N \in Nat
    BY <1>1, WithinIs
  <2> QED
    BY <2>1
<1>3. Tile(mStart) \in R
  <2>1. N \in 0 .. N
    BY <1>2
  <2>2. Within(RefMap, Tile(mStart))[0] = {Tile(mStart)}
    BY <1>1, WithinIs
  <2>3. Within(RefMap, Tile(mStart))[0] \subseteq R
    BY <1>1, <1>2, WithinGrows
  <2> QED
    BY <2>2, <2>3
<1>4. \A u \in R, t \in DOMAIN RefMap : Walkable(RefMap, t) /\ Adjacent(u, t) => t \in R
  BY <1>1, WithinCloses
<1> DEFINE Bad == {node[e].g : e \in {x \in Slots : Under(s, x) /\ Tile(x) \notin R}}
<1>5. Bad = {}
  <2> SUFFICES ASSUME Bad # {} PROVE FALSE
    OBVIOUS
  <2>1. PICK c \in Bad : \A d \in Bad : c <= d
    <3>1. Bad \in SUBSET Nat
      BY NodeType
    <3> HIDE DEF Bad
    <3> QED
      BY <3>1, LeastNumber
  <2>2. PICK e \in Slots : c = node[e].g /\ Under(s, e) /\ Tile(e) \notin R
    BY <2>1
  <2>3. e # mStart /\ Linked(e)
    BY <1>3, <2>2
  <2> PICK q : q = node[e].parent
    OBVIOUS
  <2>4. q \in Slots /\ node[q].g < node[e].g /\ Under(e, q) /\ Adjacent(Tile(q), Tile(e))
    BY <2>2, <2>3, LinkedParent DEF Linked
  <2>5. Under(s, q)
    BY <2>2, <2>4, UnderThrough
  <2>6. Tile(q) \in R
    <3> SUFFICES ASSUME Tile(q) \notin R PROVE FALSE
      OBVIOUS
    <3>1. node[q].g \in Bad
      BY <2>4, <2>5
    <3>2. node[q].g \in Nat /\ node[e].g \in Nat
      BY <2>2, <2>4, NodeType
    <3>3. node[e].g <= node[q].g
      BY <2>1, <2>2, <3>1
    <3> QED
      BY <2>4, <3>2, <3>3
  <2>7. e \in Reached
    BY <2>2, UnderIs DEF Reached, Inner
  <2>8. Walkable(RefMap, Tile(e)) /\ Tile(e) \in DOMAIN RefMap
    <3>1. Walkable(RefMap, Tile(e))
      BY <2>3, <2>7 DEF Sound, StartInv
    <3> QED
      BY <3>1, WalkableOnMap
  <2> QED
    BY <1>4, <2>2, <2>4, <2>6, <2>8
<1>6. Under(s, s)
  BY UnderSelf
<1>7. Tile(s) \in R
  BY <1>5, <1>6
<1> QED
  BY <1>7 DEF Reachable

\* A node of the way is closed at the cost of the way, or the next is open at no more.
LEMMA WayIsExplored ==
  ASSUME TypeInv, Phases, Sound, Searching, pc = "ready", Explored, mStart \in closed,
         NEW p, NEW m \in Nat, NEW goal, Way(RefMap, p, m, Tile(mStart), goal),
         \A c \in closed : Tile(c) # goal, m >= 1
  PROVE  \E j \in 1 .. m, r \in open : Tile(r) = p[j] /\ node[r].g <= StepCost(mStart) + j - 1
<1> PICK first : first = StepCost(mStart)
  OBVIOUS
<1>1. /\ first \in Nat /\ closed \subseteq Slots /\ open \subseteq Slots /\ RefMap \in Maps
      /\ Reached = open \cup closed /\ mStart \in Slots
      /\ p[0] = Tile(mStart) /\ p[m] = goal
      /\ \A j \in 1 .. m : /\ p[j] \in DOMAIN RefMap /\ Walkable(RefMap, p[j])
                           /\ Adjacent(p[j - 1], p[j])
  BY StepCostType DEF TypeInv, TypeOK, Reached, Current, Way
<1> DEFINE Bad == {j \in 1 .. m : ~ \E c \in closed : Tile(c) = p[j] /\ node[c].g <= first + j - 1}
<1>2. m \in Bad
  BY <1>1
<1>3. PICK j \in Bad : \A i \in Bad : j <= i
  <2>1. Bad \in SUBSET Nat /\ Bad # {}
    BY <1>2
  <2> HIDE DEF Bad
  <2> QED
    BY <2>1, LeastNumber
<1>4. j \in 1 .. m /\ ~ \E c \in closed : Tile(c) = p[j] /\ node[c].g <= first + j - 1
  BY <1>3
<1>5. PICK c \in closed : Tile(c) = p[j - 1] /\ node[c].g + StepCost(c) <= first + j - 1
  <2>1. CASE j = 1
    <3>1. node[mStart].g = 0
      BY DEF Sound, StartInv
    <3>2. j - 1 = 0 /\ 0 + first <= first + j - 1
      BY <1>1, <2>1
    <3> QED
      BY <1>1, <3>1, <3>2
  <2>2. CASE j # 1
    <3>1. j - 1 \in 1 .. m /\ ~(j <= j - 1)
      BY <1>4, <2>2
    <3>2. j - 1 \notin Bad
      BY <1>3, <3>1
    <3>3. PICK c \in closed : Tile(c) = p[j - 1] /\ node[c].g <= first + (j - 1) - 1
      BY <3>1, <3>2
    <3>4. StepCost(c) = 1
      <4>1. Walkable(RefMap, Tile(c)) /\ Tile(c) \in DOMAIN RefMap
        BY <1>1, <3>1, <3>3
      <4>2. RefMap[Tile(c)] \in {1, Wall}
        BY <1>1, <4>1, MapsAssumption
      <4> QED
        BY <4>1, <4>2 DEF StepCost, GetCost, Walkable, navigation_map, Wall
    <3>5. node[c].g \in Nat /\ c \in Slots
      BY <1>1, NodeType
    <3>6. node[c].g + 1 <= first + j - 1
      BY <1>1, <1>4, <3>3, <3>5
    <3> QED
      BY <3>3, <3>4, <3>6
  <2> QED
    BY <2>1, <2>2
<1>6. p[j] \in Int \X Int /\ Walkable(RefMap, p[j]) /\ Adjacent(Tile(c), p[j])
  BY <1>1, <1>4, <1>5, MapsAssumption
<1>7. PICK r \in Reached : Tile(r) = p[j] /\ node[r].g <= node[c].g + StepCost(c)
  BY <1>6 DEF Explored, Reaches
<1>8. node[r].g <= first + j - 1
  <2>1. node[r].g \in Nat /\ node[c].g \in Nat /\ StepCost(c) \in Nat
    BY <1>1, <1>5, <1>7, NodeType, StepCostType
  <2> QED
    BY <1>1, <1>4, <1>5, <1>7, <2>1
<1>9. r \in open
  BY <1>1, <1>4, <1>7, <1>8
<1> QED
  BY <1>4, <1>7, <1>8, <1>9

\* The goal is popped at no more than twice the cost of the shortest path: there is
\* an open node on that path, and its f is no more than that.
LEMMA GoalWithinTwice ==
  ASSUME SearchInv, ExploredInv, ~spoilt, ~dropped, NEW s \in Slots, ReachGoal(s),
         ~SameState(s, mStart)
  PROVE  /\ Ordered /\ Linked(s)
         /\ node[s].g <= Limit
<1> PICK goal : goal = Tile(mGoal)
  OBVIOUS
<1> PICK first : first = StepCost(mStart)
  OBVIOUS
<1>1. /\ TypeInv /\ Phases /\ Sound /\ Searching /\ pc = "ready" /\ state = "SEARCHING"
      /\ s \in open /\ s \in Best /\ Tile(s) = goal /\ mStart \in Slots /\ mGoal \in Slots
      /\ RefMap \in Maps /\ open \subseteq Slots /\ first \in Nat /\ first >= 1
  BY StepCostType DEF SearchInv, ReachGoal, SameState, Searching, Phases, TypeInv, TypeOK, Best
<1>2. Reached = open \cup closed /\ Inner = closed
  BY <1>1 DEF Reached, Inner, Current
<1>3. s # mStart /\ mStart \in closed /\ s \in Reached
  BY <1>1, <1>2 DEF Sound, StartInv, SameState
<1>4. Walkable(RefMap, goal) /\ goal \in DOMAIN RefMap /\ goal \in Nat \X Nat /\ goal \in Goals
  <2>1. Walkable(RefMap, goal)
    BY <1>1, <1>3 DEF Sound, StartInv
  <2>2. goal \in DOMAIN RefMap
    BY <2>1, WalkableOnMap
  <2> QED
    BY <1>1, <2>1, <2>2, MapsAssumption DEF Sound, TilesInv
<1>5. Ordered
  <2>1. \A tile \in DOMAIN RefMap : GoalDistanceEstimate(tile, goal) < Far
    BY <1>1, <1>4, FarAssumption
  <2> QED
    BY <1>1, <2>1 DEF Ordered
<1>6. \A tile \in DOMAIN RefMap : GoalDistanceEstimate(tile, goal) < Far
  BY <1>5 DEF Ordered
<1>7. Explored /\ \A c \in closed : Tile(c) # goal
  BY <1>1, <1>2, <1>5 DEF ExploredInv, GoalAhead
<1>8. \A e \in Slots : Under(s, e) => e = mStart \/ Linked(e)
  BY <1>1, <1>5, BestIsLinked
<1>9. Linked(s)
  BY <1>3, <1>8, UnderSelf
<1> PICK D : D = Distance(RefMap, Tile(mStart), goal)
  OBVIOUS
<1>10. PICK m \in 0 .. D : \E p : Way(RefMap, p, m, Tile(mStart), goal)
  <2>1. Reachable(RefMap, Tile(mStart), goal)
    BY <1>1, <1>3, <1>8, ChainIsReachable
  <2>2. D \in 0 .. Cardinality(DOMAIN RefMap) /\ goal \in Within(RefMap, Tile(mStart))[D]
    BY <1>1, <2>1, DistanceIs
  <2> QED
    BY <1>1, <2>2, WayExists
<1>11. D \in Nat /\ m \in Nat /\ m <= D
  <2>1. D \in Nat
    <3>1. Reachable(RefMap, Tile(mStart), goal)
      BY <1>1, <1>3, <1>8, ChainIsReachable
    <3>2. D \in 0 .. Cardinality(DOMAIN RefMap)
      BY <1>1, <3>1, DistanceIs
    <3> QED
      BY <3>2
  <2> QED
    BY <1>10, <2>1
<1>12. PICK p : Way(RefMap, p, m, Tile(mStart), goal)
  BY <1>10
<1>13. m >= 1
  <2>1. Tile(mStart) # goal
    BY <1>1 DEF SameState
  <2> QED
    BY <1>11, <1>12, <2>1 DEF Way
<1>14. PICK j \in 1 .. m, r \in open : Tile(r) = p[j] /\ node[r].g <= first + j - 1
  BY <1>1, <1>3, <1>7, <1>11, <1>12, <1>13, WayIsExplored
<1> PICK h : h = GoalDistanceEstimate(p[j], goal)
  OBVIOUS
<1>15. h <= 2 * (m - j) /\ h < Far /\ h \in Nat
  <2>1. h <= 2 * (m - j)
    BY <1>1, <1>4, <1>6, <1>11, <1>12, <1>13, EstimateOnWay
  <2>2. p[j] \in DOMAIN RefMap /\ p[j] \in Int \X Int /\ goal \in Int \X Int
    BY <1>1, <1>4, <1>12, MapsAssumption DEF Way
  <2> QED
    BY <1>6, <2>1, <2>2, EstimateType
<1>16. /\ node[r].g \in Nat /\ node[s].g \in Nat /\ node[r].g < Far /\ node[s].g < Far
  <2>1. node[r].g \in Nat /\ node[s].g \in Nat /\ r \in Reached
    BY <1>1, <1>2, <1>14, NodeType
  <2>2. node[r].g <= Wall * MaxNodes /\ node[s].g <= Wall * MaxNodes
    BY <1>1, <1>3, <1>5, <2>1, ChainHolds DEF CostsBounded
  <2>3. Wall * MaxNodes \in Nat
    BY MaxNodesAssumption DEF Wall
  <2> QED
    BY <2>1, <2>2, <2>3, FarAssumption, FarType
<1>17. f(s) = node[s].g /\ f(r) = node[r].g + h
  <2>1. GoalDistanceEstimate(goal, goal) = 0
    BY <1>4, EstimateSelf
  <2>2. \A a, b \in Nat : a < Far /\ b < Far => FloatSum(a, b) = a + b
    BY FarType DEF FloatSum
  <2>3. f(s) = FloatSum(node[s].g, 0) /\ f(r) = FloatSum(node[r].g, h)
    BY <1>1, <1>14, <2>1 DEF f
  <2>4. 0 < Far
    BY <1>15, FarType
  <2>5. FloatSum(node[s].g, 0) = node[s].g + 0 /\ FloatSum(node[r].g, h) = node[r].g + h
    BY <1>15, <1>16, <2>2, <2>4
  <2> QED
    BY <1>16, <2>3, <2>5
<1>18. f(s) <= f(r)
  BY <1>1, <1>14 DEF Best
<1>19. node[s].g <= 2 * (first + D - 1)
  <2> PICK gs \in Nat, gr \in Nat : gs = node[s].g /\ gr = node[r].g
    BY <1>16
  <2>1. gs <= gr + h /\ gr <= first + j - 1
    BY <1>14, <1>17, <1>18
  <2>2. gs <= (first + j - 1) + 2 * (m - j)
    BY <1>1, <1>11, <1>15, <2>1
  <2> QED
    BY <1>1, <1>11, <2>2
<1> QED
  BY <1>5, <1>9, <1>19 DEF Limit

-----------------------------------------------------------------------------
(* The path that is found.                                                 *)

\* The path goes from x to y by a legal move, at the exact cost of the search, which
\* for the goal is no more than twice that of the shortest path.
Leg(x, y) ==
  /\ Adjacent(Tile(x), Tile(y)) /\ Walkable(RefMap, Tile(y))
  /\ IF y = mGoal THEN node[x].g + StepCost(x) <= Limit
     ELSE node[y].g = node[x].g + StepCost(x)
Legs(s) == \A x \in Kin(s) \ {mGoal} : Leg(x, node[x].child)

RouteInv == ~spoilt =>
  /\ pc = "link" => /\ Legs(n) /\ Leg(node[n].parent, n) /\ node[mStart].g = 0
                    /\ \A x \in closed \ {mStart} : Walkable(RefMap, Tile(x))
  /\ pc = "freeUnused" \/ (HasSolution /\ phase \in {"searching", "reading"}) =>
       node[mStart].g = 0 /\ (node[mStart].child # NULL => Legs(mStart))

\* Tiles and costs are all that makes a leg.
LEMMA LegKept ==
  ASSUME mStart \in Slots, mGoal \in Slots, UNCHANGED <<RefMap, mStart, mGoal>>,
         \A x \in Slots : node'[x].g = node[x].g /\ node'[x].tile = node[x].tile
  PROVE  \A x, y \in Slots : Leg(x, y)' <=> Leg(x, y)
<1>1. \A x \in Slots : Tile(x)' = Tile(x) /\ StepCost(x)' = StepCost(x)
  BY DEF Tile, StepCost
<1>2. StepCost(mStart)' = StepCost(mStart) /\ Tile(mStart)' = Tile(mStart) /\ Tile(mGoal)' = Tile(mGoal)
  BY DEF Tile, StepCost
<1>3. Limit' = Limit
  BY <1>2 DEF Limit
<1> QED
  BY <1>1, <1>3 DEF Leg

\* A goal that is popped makes the first leg.
LEMMA ReachGoalRoute ==
  ASSUME SearchInv, ExploredInv, ~spoilt, ~dropped, NEW s \in Slots, ReachGoal(s)
  PROVE  RouteInv'
<1>1. /\ TypeInv /\ Phases /\ Sound /\ Searching /\ pc = "ready" /\ state = "SEARCHING"
      /\ state' = state /\ s \in open /\ Tile(s) = Tile(mGoal) /\ mStart \in Slots /\ mGoal \in Slots
      /\ UNCHANGED <<RefMap, closed, mStart, mGoal>>
      /\ node' = [node EXCEPT ![mGoal].parent = node[s].parent]
      /\ closed \subseteq Slots
  BY DEF SearchInv, ReachGoal, SameState, Searching, Phases, TypeInv, TypeOK, Best
<1>2. /\ \A x \in Slots : node'[x].child = node[x].child /\ node'[x].tile = node[x].tile
                          /\ node'[x].g = node[x].g
      /\ node'[mGoal].parent = node[s].parent
  BY <1>1 DEF TypeInv, TypeOK, Nodes
<1>3. Reached = open \cup closed /\ Inner = closed
  BY <1>1 DEF Reached, Inner, Current
<1>4. /\ mStart \in Reached /\ node[mStart].g = 0
      /\ \A x \in Reached \ {mStart} : Walkable(RefMap, Tile(x))
      /\ \A x \in Reached \cup {mGoal} : node[x].child = NULL
  BY <1>1 DEF Sound, StartInv, ChildInv
<1>5. ~HasSolution'
  BY <1>1 DEF HasSolution
<1>6. CASE SameState(s, mStart)
  <2>1. pc' = "freeUnused"
    BY <1>6 DEF ReachGoal, Enter
  <2>2. node'[mStart'].g = 0 /\ node'[mStart'].child = NULL
    BY <1>1, <1>2, <1>4
  <2> QED
    BY <2>1, <2>2 DEF RouteInv
<1>7. CASE ~SameState(s, mStart)
  <2>1. pc' = "link" /\ n' = mGoal
    BY <1>7 DEF ReachGoal, Enter
  <2>2. Linked(s) /\ node[s].g <= Limit
    BY <1>7, GoalWithinTwice
  <2> PICK p : p = node[s].parent
    OBVIOUS
  <2>3. p \in Slots /\ Adjacent(Tile(p), Tile(s)) /\ node[s].g = node[p].g + StepCost(p)
    BY <1>1, <2>2, LinkedParent DEF Linked
  <2>4. s # mStart /\ Walkable(RefMap, Tile(s))
    BY <1>1, <1>3, <1>4, <1>7 DEF SameState
  <2> PICK m : m = mGoal
    OBVIOUS
  <2>5. Leg(p, m)
    BY <1>1, <2>2, <2>3, <2>4 DEF Leg
  <2>6. Leg(p, m)'
    <3>1. \A x, y \in Slots : Leg(x, y)' <=> Leg(x, y)
      BY <1>1, <1>2, LegKept
    <3> QED
      BY <1>1, <2>3, <2>5, <3>1
  <2>7. Leg(node[n].parent, n)'
    <3>1. node'[n'].parent = p /\ n' = m
      BY <1>1, <1>2, <2>1
    <3> QED
      BY <2>6, <3>1 DEF Leg, Tile, StepCost
  <2>8. Legs(n)'
    <3>1. \A y \in Slots : Leads(Kids', mGoal, y) => y = mGoal
      <4> SUFFICES ASSUME NEW y \in Slots, Leads(Kids', mGoal, y) PROVE y = mGoal
        OBVIOUS
      <4>1. {mGoal} \in SUBSET Slots
        BY <1>1
      <4>2. \A u, v \in Slots : u \in {mGoal} /\ <<u, v>> \in Kids' => v \in {mGoal}
        <5> SUFFICES ASSUME NEW v \in Slots, <<mGoal, v>> \in Kids' PROVE FALSE
          OBVIOUS
        <5>1. <<mGoal, v>>[1] = mGoal /\ <<mGoal, v>>[2] = v
          OBVIOUS
        <5>2. node'[mGoal].child = v
          BY <1>1, <5>1 DEF Kids, Arrows
        <5> QED
          BY <1>1, <1>2, <1>4, <5>2 DEF NULL, Slots, Elements
      <4> QED
        BY <4>1, <4>2 DEF Leads
    <3>2. Kin(mGoal)' = {y \in Slots : Leads(Kids', mGoal', y)}
      BY DEF Kin
    <3>3. Kin(n)' = {y \in Slots : Leads(Kids', n', y)}
      BY DEF Kin
    <3>4. \A y \in Kin(n)' : y = mGoal'
      BY <1>1, <2>1, <3>1, <3>3
    <3> QED
      BY <3>4 DEF Legs
  <2>9. node'[mStart'].g = 0 /\ \A x \in closed' \ {mStart'} : Walkable(RefMap', node'[x].tile)
    BY <1>1, <1>2, <1>3, <1>4 DEF Tile
  <2> QED
    BY <1>5, <2>1, <2>7, <2>8, <2>9 DEF RouteInv, Tile
<1> QED
  BY <1>6, <1>7

\* The path grows by one leg.
LEMMA LinkParentRoute ==
  ASSUME SearchInv, RouteInv, ~spoilt, LinkParent PROVE RouteInv'
<1> USE DEF pool, lists, locals, history
<1> PICK p : p = node[n].parent
  OBVIOUS
<1>1. /\ TypeInv /\ Phases /\ Sound /\ pc = "link"
      /\ UNCHANGED <<RefMap, closed, mStart, mGoal, state>> /\ closed \subseteq Slots
  BY DEF SearchInv, LinkParent, TypeInv, TypeOK
<1>2. /\ p \in closed /\ p \in Slots /\ p # mGoal /\ p \notin Kin(n)
      /\ n \in Slots /\ mGoal \in Slots /\ mStart \in Slots /\ mStart # mGoal
      /\ n' = p /\ pc' = IF p = mStart THEN "freeUnused" ELSE "link"
      /\ node'[p].child = n
      /\ \A x \in Slots : x # p => node'[x].child = node[x].child
      /\ \A x \in Slots : node'[x].parent = node[x].parent /\ node'[x].g = node[x].g
                          /\ node'[x].tile = node[x].tile
      /\ Kin(n) \subseteq Slots /\ Kin(p)' = Kin(n) \cup {p}
  BY <1>1, LinkParentIs
<1>3. /\ Legs(n) /\ Leg(p, n) /\ node[mStart].g = 0
      /\ \A x \in closed \ {mStart} : Walkable(RefMap, Tile(x))
  BY <1>1 DEF RouteInv
<1>4. \A x, y \in Slots : Leg(x, y)' <=> Leg(x, y)
  BY <1>1, <1>2, LegKept
<1>5. Path(n)
  BY <1>1 DEF Sound, LinkInv
<1>6. ASSUME NEW x \in Kin(p)', x # mGoal, NEW c, c = node'[x].child
      PROVE  Leg(x, c)'
  <2>1. CASE x = p
    <3>1. c = n
      BY <1>2, <1>6, <2>1
    <3>2. Leg(x, c)
      BY <1>3, <2>1, <3>1
    <3> QED
      BY <1>2, <1>4, <2>1, <3>1, <3>2
  <2>2. CASE x # p
    <3>0. c = node[x].child
      BY <1>2, <1>6, <2>2
    <3>1. x \in Kin(n) /\ x \in Slots
      BY <1>2, <1>6, <2>2
    <3>2. c \in Slots
      <4>1. c # NULL
        BY <1>5, <1>6, <3>0, <3>1 DEF Path
      <4> QED
        BY <1>1, <3>0, <3>1, <4>1, NodeType DEF Pointers
    <3>3. Leg(x, c)
      BY <1>3, <1>6, <3>0, <3>1 DEF Legs
    <3> QED
      BY <1>4, <3>1, <3>2, <3>3
  <2> QED
    BY <2>1, <2>2
<1>7. Legs(p)'
  <2>1. \A x \in Kin(p)' \ {mGoal'} : Leg(x, node[x].child)'
    <3> TAKE x \in Kin(p)' \ {mGoal'}
    <3> PICK c : c = node'[x].child
      OBVIOUS
    <3>1. Leg(x, c)'
      BY <1>1, <1>6
    <3> QED
      BY <3>1 DEF Leg, Tile, StepCost
  <2> QED
    BY <2>1 DEF Legs
<1>8. node'[mStart'].g = 0
  BY <1>1, <1>2, <1>3
<1>9. ~HasSolution'
  BY <1>1 DEF HasSolution, Phases
<1>10. CASE p = mStart
  <2>1. pc' = "freeUnused" /\ Legs(mStart)'
    BY <1>1, <1>2, <1>7, <1>10 DEF Legs, Kin
  <2> QED
    BY <1>8, <2>1 DEF RouteInv
<1>11. CASE p # mStart
  <2>1. pc' = "link" /\ n' = p
    BY <1>2, <1>11
  <2>2. Linked(p) /\ p \in Slots
    <3>1. Under(p, p) /\ \A e \in Slots : Under(p, e) => e = mStart \/ Linked(e)
      BY <1>1, <1>2, UnderSelf DEF Sound, LinkInv
    <3> QED
      BY <1>2, <1>11, <3>1
  <2> PICK q : q = node[p].parent
    OBVIOUS
  <2>3. q \in Slots
    BY <1>1, <2>2, LinkedParent
  <2>4. Leg(q, p)
    BY <1>2, <1>3, <1>11, <2>2 DEF Leg, Linked
  <2>5. Leg(q, p)'
    BY <1>2, <1>4, <2>3, <2>4
  <2>6. node'[n'].parent = q
    BY <1>2, <2>1
  <2>7. Legs(n)' /\ Leg(node[n].parent, n)'
    <3>1. Legs(n)'
      BY <1>7, <2>1 DEF Legs, Kin
    <3>2. Leg(node[n].parent, n)'
      BY <2>1, <2>5, <2>6 DEF Leg, Tile, StepCost
    <3> QED
      BY <3>1, <3>2
  <2>8. \A x \in closed' \ {mStart'} : Walkable(RefMap', node'[x].tile)
    BY <1>1, <1>2, <1>3 DEF Tile
  <2> QED
    BY <1>8, <1>9, <2>1, <2>7, <2>8 DEF RouteInv, Tile
<1> QED
  BY <1>10, <1>11

\* Where nothing is moved the path stays what it is.
LEMMA RouteKept ==
  ASSUME RouteInv, spoilt' = spoilt, UNCHANGED <<RefMap, node, mStart, mGoal>>, pc' # "link",
         \/ pc = "freeUnused"
         \/ HasSolution /\ phase \in {"searching", "reading"}
         \/ pc' # "freeUnused" /\ ~(HasSolution' /\ phase' \in {"searching", "reading"})
  PROVE  RouteInv'
<1>1. CASE pc' # "freeUnused" /\ ~(HasSolution' /\ phase' \in {"searching", "reading"})
  BY <1>1 DEF RouteInv
<1>2. CASE pc = "freeUnused" \/ (HasSolution /\ phase \in {"searching", "reading"})
  <2> SUFFICES ASSUME ~spoilt
               PROVE  node'[mStart'].g = 0 /\ (node'[mStart'].child # NULL => Legs(mStart)')
    BY DEF RouteInv
  <2>1. node[mStart].g = 0 /\ (node[mStart].child # NULL => Legs(mStart))
    BY <1>2 DEF RouteInv
  <2>2. Kin(mStart)' = Kin(mStart)
    BY DEF Kin, Kids
  <2>3. Limit' = Limit
    BY DEF Limit, Tile, StepCost
  <2>4. Legs(mStart) => Legs(mStart)'
    BY <2>2, <2>3 DEF Legs, Leg, Tile, StepCost
  <2> QED
    BY <2>1, <2>4
<1> QED
  BY <1>1, <1>2

\* Every step of go_to and of the walk keeps the path.
LEMMA NavRouteInv ==
  ASSUME SearchInv, ExploredInv, NavInv, RouteInv, [NavNext]_navVars PROVE RouteInv'
<1> USE DEF pool, lists, locals, history, nav
<1>1. /\ TypeInv /\ Phases /\ PhaseInv /\ NodesKnown
  BY DEF SearchInv, NavInv, TypeInv
<1>2. CASE \E s \in Starts, g \in Goals : GoTo(s, g)
  <2>1. phase' = "cleared" /\ pc' \notin {"link", "freeUnused"}
    BY <1>1, <1>2 DEF GoTo, PhaseInv, FreeSolutionNodes, Enter, vars
  <2> QED
    BY <2>1 DEF RouteInv
<1>3. CASE BeginSearch
  <2>1. pc' = "ready" /\ ~HasSolution'
    BY <1>3 DEF BeginSearch, SetStartAndGoalStates, HasSolution
  <2> QED
    BY <2>1 DEF RouteInv
<1>4. CASE Interrupt
  <2>1. pc' = "ready" /\ ~HasSolution'
    BY <1>1, <1>4 DEF Interrupt, CancelSearch, HasSolution
  <2> QED
    BY <2>1 DEF RouteInv
<1>5. CASE CallSearchStep
  <2>1. CASE GiveUp
    <3>1. pc' = "freeAll" /\ ~HasSolution'
      BY <2>1 DEF GiveUp, HasSolution, Enter
    <3> QED
      BY <3>1 DEF RouteInv
  <2>2. ASSUME NEW s \in Slots, Expand(s) PROVE RouteInv'
    <3>1. pc' = "generate" /\ ~HasSolution'
      BY <2>2 DEF Expand, HasSolution, Enter
    <3> QED
      BY <3>1 DEF RouteInv
  <2>3. ASSUME NEW s \in Slots, ReachGoal(s) PROVE RouteInv'
    <3>1. spoilt' = (spoilt \/ dropped)
      BY <2>3 DEF ReachGoal
    <3>2. CASE spoilt \/ dropped
      <4>1. spoilt'
        BY <3>1, <3>2
      <4> QED
        BY <4>1 DEF RouteInv
    <3>3. CASE ~spoilt /\ ~dropped
      BY <2>3, <3>3, ReachGoalRoute
    <3> QED
      BY <3>2, <3>3
  <2> QED
    BY <1>5, <2>1, <2>2, <2>3 DEF CallSearchStep, SearchStep
<1>6. CASE InCall
  <2>1. CASE LinkParent
    <3>1. spoilt' = spoilt
      BY <2>1 DEF LinkParent
    <3>2. CASE spoilt
      BY <3>1, <3>2 DEF RouteInv
    <3> QED
      BY <2>1, <3>2, LinkParentRoute
  <2>2. CASE AddSuccessor \/ SuccessorsGenerated \/ Relax \/ Expanded \/ FreeAllListed
    <3>1. pc' \notin {"link", "freeUnused"} /\ state' = "SEARCHING"
      BY <1>1, <2>2 DEF AddSuccessor, SuccessorsGenerated, Relax, Expanded, FreeAllListed, Enter,
                        Return, NodesKnown
    <3> QED
      BY <3>1 DEF RouteInv, HasSolution
  <2>3. CASE FreeUnusedOpen \/ FreeUnusedClosed \/ Succeed
    <3>1. /\ pc = "freeUnused" /\ pc' # "link" /\ spoilt' = spoilt
          /\ UNCHANGED <<RefMap, node, mStart, mGoal>>
      BY <2>3 DEF FreeUnusedOpen, FreeUnusedClosed, Succeed, Return
    <3> QED
      BY <3>1, RouteKept
  <2>4. CASE Fail
    <3>1. pc' = "ready" /\ ~HasSolution'
      BY <2>4 DEF Fail, Return, HasSolution
    <3> QED
      BY <3>1 DEF RouteInv
  <2>5. CASE FreeSolutionNode
    <3>1. phase' = "cleared" /\ pc' \notin {"link", "freeUnused"}
      BY <1>1, <1>6, <2>5 DEF InCall, FreeSolutionNode, PhaseInv, Return
    <3> QED
      BY <3>1 DEF RouteInv
  <2> QED
    BY <1>6, <2>1, <2>2, <2>3, <2>4, <2>5 DEF InCall, Working
<1>7. CASE FindPath
  <2>1. /\ phase = "searching" /\ pc' # "link" /\ spoilt' = spoilt
        /\ UNCHANGED <<RefMap, node, mStart, mGoal>>
        /\ HasSolution
    BY <1>1, <1>7 DEF FindPath, GetSolutionStart, PhaseInv, HasSolution
  <2> QED
    BY <2>1, RouteKept
<1>8. CASE SkipStart \/ FindNoPath \/ NextStep \/ ReplaceMap \/ NavDone
  <2>1. phase' = "idle" /\ pc' = "ready"
    BY <1>1, <1>8 DEF SkipStart, FindNoPath, NextStep, ReplaceMap, NavDone, GetSolutionNext,
                      LoadMap, PhaseInv, navVars, vars
  <2> QED
    BY <2>1 DEF RouteInv
<1>9. CASE UNCHANGED navVars
  <2>1. /\ UNCHANGED <<RefMap, node, mStart, mGoal, pc, phase, state, closed, n>> /\ spoilt' = spoilt
    BY <1>9 DEF navVars, vars
  <2> QED
    BY <2>1 DEF RouteInv, Legs, Leg, Kin, Kids, Limit, Tile, StepCost, HasSolution
<1> QED
  BY <1>2, <1>3, <1>4, <1>5, <1>6, <1>7, <1>8, <1>9 DEF NavNext, InGoTo

\* The path that is found is one in every state.
LEMMA RouteCorrect == NavSpec => []RouteInv
<1>1. NavInit => RouteInv
  BY DEF NavInit, Init, RouteInv
<1>2. NavSpec => []ExploredInv
  BY NavUsesSearchLegally, ExploredCorrect, PTL DEF UsesSearchLegally
<1> QED
  BY <1>1, <1>2, NavRouteInv, NavSearchInv, NavInvCorrect, PTL DEF NavSpec

-----------------------------------------------------------------------------
(* The walk along the path.                                                *)

\* Every node of a path leads on to the goal.
LEMMA KinReaches ==
  ASSUME mGoal \in Slots, NEW s \in Slots, Path(s), NEW x \in Kin(s)
  PROVE  mGoal \in Kin(x) /\ x \in Slots
<1> DEFINE S == {y \in Slots : mGoal \in Kin(y)}
<1>1. s \in S /\ S \in SUBSET Slots
  BY DEF Path
<1>2. ASSUME NEW y \in S, node[y].child \in Slots PROVE node[y].child \in S
  <2> PICK c : c = node[y].child
    OBVIOUS
  <2>1. y # mGoal
    BY <1>2 DEF Path, NULL, Slots, Elements
  <2>2. Leads(Kids, y, mGoal)
    BY <1>2 DEF Kin
  <2>3. \A z \in Slots : <<y, z>> \in Kids => z = c
    BY <1>2, KidsAre
  <2>4. Leads(Kids, c, mGoal)
    BY <2>1, <2>2, <2>3, LeadsFirst
  <2> QED
    BY <1>2, <2>4 DEF Kin
<1> HIDE DEF S
<1>3. x \in S
  BY <1>1, <1>2, KinWithin
<1> QED
  BY <1>3 DEF S

\* The trail of a path ends at the goal, and only there.
LEMMA TrailEndsAtGoal ==
  ASSUME TypeInv, mGoal \in Slots, NEW s \in Slots, Path(s), NEW w, NEW L, Trail(s, w, L)
  PROVE  /\ w[L - 1] = mGoal
         /\ \A i \in 0 .. L - 2 : w[i] # mGoal /\ w[i] \in Kin(s) /\ node[w[i]].child = w[i + 1]
<1>0. L \in 1 .. MaxNodes /\ MaxNodes \in Nat /\ w \in [0 .. L - 1 -> Slots]
      /\ (\A i \in 1 .. L - 1 : w[i] = node[w[i - 1]].child) /\ node[w[L - 1]].child = NULL
  BY MaxNodesAssumption DEF Trail
<1>1. \A i \in 0 .. L - 1 : w[i] \in Kin(s)
  BY TrailIsKin
<1>2. L - 1 \in 0 .. L - 1
  BY <1>0
<1>3. w[L - 1] = mGoal
  BY <1>0, <1>1, <1>2 DEF Path
<1>4. ASSUME NEW i \in 0 .. L - 2
      PROVE  w[i] # mGoal /\ w[i] \in Kin(s) /\ node[w[i]].child = w[i + 1]
  <2>1. i \in 0 .. L - 1 /\ i + 1 \in 1 .. L - 1 /\ (i + 1) - 1 = i /\ i + 1 \in 0 .. L - 1
    BY <1>0
  <2>2. node[w[i]].child = w[i + 1] /\ w[i + 1] \in Slots
    BY <1>0, <2>1
  <2> QED
    BY <1>1, <2>1, <2>2 DEF Path, NULL, Slots, Elements
<1> QED
  BY <1>3, <1>4

\* A step over a free tile costs one.
LEMMA FreeStepCost ==
  ASSUME TypeInv, NEW s, Walkable(RefMap, Tile(s)) PROVE StepCost(s) = 1
<1>1. Tile(s) \in DOMAIN RefMap /\ RefMap \in Maps
  BY WalkableOnMap DEF TypeInv, TypeOK
<1>2. RefMap[Tile(s)] \in {1, Wall}
  BY <1>1, MapsAssumption
<1> QED
  BY <1>1, <1>2 DEF StepCost, GetCost, Walkable, navigation_map, Wall

\* The path that is found consists of legal moves, and costs no more than twice as
\* much as the shortest.
LEMMA RouteCosts ==
  ASSUME TypeInv, mStart \in Slots, mGoal \in Slots, Path(mStart), Legs(mStart),
         node[mStart].g = 0, node[mStart].child # NULL,
         NEW w, NEW L, Trail(mStart, w, L)
  PROVE  /\ L >= 2 /\ StepCost(mStart) + L - 2 <= Limit
         /\ \A i \in 1 .. L - 1 : Adjacent(Tile(w[i - 1]), Tile(w[i])) /\ Walkable(RefMap, Tile(w[i]))
<1> PICK first : first = StepCost(mStart)
  OBVIOUS
<1>0. L \in 1 .. MaxNodes /\ MaxNodes \in Nat /\ w \in [0 .. L - 1 -> Slots] /\ w[0] = mStart
      /\ (\A i \in 1 .. L - 1 : w[i] = node[w[i - 1]].child) /\ node[w[L - 1]].child = NULL
      /\ first \in Nat
  BY MaxNodesAssumption, StepCostType DEF Trail
<1>1. /\ w[L - 1] = mGoal
      /\ \A i \in 0 .. L - 2 : w[i] # mGoal /\ w[i] \in Kin(mStart) /\ node[w[i]].child = w[i + 1]
  BY TrailEndsAtGoal
<1>2. L >= 2
  <2> SUFFICES ASSUME L = 1 PROVE FALSE
    BY <1>0
  <2>1. w[0] = mGoal /\ node[w[0]].child = NULL
    BY <1>0, <1>1
  <2> QED
    BY <1>0, <2>1
<1>3. \A i \in 1 .. L - 1 : Leg(w[i - 1], w[i])
  <2> TAKE i \in 1 .. L - 1
  <2>1. i - 1 \in 0 .. L - 2 /\ (i - 1) + 1 = i
    BY <1>0
  <2>2. w[i - 1] \in Kin(mStart) \ {mGoal} /\ node[w[i - 1]].child = w[i]
    BY <1>1, <2>1
  <2> QED
    BY <2>2 DEF Legs
<1>4. \A i \in 1 .. L - 1 : Adjacent(Tile(w[i - 1]), Tile(w[i])) /\ Walkable(RefMap, Tile(w[i]))
  BY <1>3 DEF Leg
<1> DEFINE Bad == {i \in 0 .. L - 2 : node[w[i]].g + StepCost(w[i]) # first + i}
<1>5. Bad = {}
  <2> SUFFICES ASSUME Bad # {} PROVE FALSE
    OBVIOUS
  <2>1. PICK i \in Bad : \A j \in Bad : i <= j
    <3>1. Bad \in SUBSET Nat
      BY <1>0
    <3> HIDE DEF Bad
    <3> QED
      BY <3>1, LeastNumber
  <2>2. i \in 0 .. L - 2 /\ node[w[i]].g + StepCost(w[i]) # first + i
    BY <2>1
  <2>3. i # 0
    BY <1>0, <2>2
  <2>4. i \in 1 .. L - 1 /\ i - 1 \in 0 .. L - 2 /\ ~(i <= i - 1)
    BY <1>0, <2>2, <2>3
  <2>5. node[w[i - 1]].g + StepCost(w[i - 1]) = first + (i - 1)
    BY <2>1, <2>4
  <2>6. node[w[i]].g = node[w[i - 1]].g + StepCost(w[i - 1])
    BY <1>1, <1>3, <2>2, <2>4 DEF Leg
  <2>7. StepCost(w[i]) = 1
    BY <1>4, <2>4, FreeStepCost
  <2>8. first + (i - 1) + 1 = first + i
    BY <1>0, <2>2
  <2> QED
    BY <2>2, <2>5, <2>6, <2>7, <2>8
<1>6. L - 2 \in 0 .. L - 2 /\ L - 1 \in 1 .. L - 1 /\ (L - 1) - 1 = L - 2
  BY <1>0, <1>2
<1>7. node[w[L - 2]].g + StepCost(w[L - 2]) = first + (L - 2)
  BY <1>5, <1>6
<1>8. node[w[L - 2]].g + StepCost(w[L - 2]) <= Limit
  BY <1>1, <1>3, <1>6 DEF Leg
<1>9. first + (L - 2) = first + L - 2
  BY <1>0
<1> QED
  BY <1>2, <1>4, <1>7, <1>8, <1>9

\* The tiles of a path do not change while its nodes do not.
LEMMA SameTiles == ASSUME node' = node, NEW s PROVE TilesFrom(s)' = TilesFrom(s)
BY DEF TilesFrom, Tile

\* A path that is kept costs no more than twice as much as the shortest one.
FoundInv ==
  phase = "idle" /\ HasSolution /\ ~spoilt /\ node[mStart].child # NULL =>
    LET first == GetCost(request[3], request[1])
    IN  \A w, L : Trail(mStart, w, L) =>
          first + L - 2 <= 2 * (first + Distance(request[3], request[1], request[2]) - 1)

\* The start node of a solution begins a path, or has no child.
LEMMA SolutionPath ==
  ASSUME SearchInv, ~spoilt, HasSolution, node[mStart].child # NULL
  PROVE  TypeInv /\ mStart \in Slots /\ mGoal \in Slots /\ Path(mStart)
<1>1. TypeInv /\ Phases /\ Sound
  BY DEF SearchInv
<1>2. mStart \in Slots /\ mGoal \in Slots
  BY <1>1 DEF HasSolution, TypeInv, TypeOK, NodesKnown, Pointers
<1>3. Path(mStart)
  BY <1>1 DEF Sound, PathInv
<1> QED
  BY <1>1, <1>2, <1>3

\* The end of go_to keeps a path that is no longer, and the walk keeps the path.
LEMMA NavFoundInv ==
  ASSUME SearchInv, NavInv, AskedInv, RouteInv, FoundInv, [NavNext]_navVars PROVE FoundInv'
<1> USE DEF pool, lists, locals, history, nav
<1>1. TypeInv /\ PhaseInv
  BY DEF NavInv
<1>2. CASE SkipStart
  <2>1. /\ phase = "reading" /\ HasSolution /\ spoilt' = spoilt /\ request' = request
        /\ UNCHANGED <<node, mStart, state>>
    BY <1>1, <1>2 DEF SkipStart, GetSolutionNext, PhaseInv
  <2> SUFFICES ASSUME ~spoilt, node[mStart].child # NULL PROVE FoundInv'
    BY <2>1 DEF FoundInv
  <2>2. TypeInv /\ mStart \in Slots /\ mGoal \in Slots /\ Path(mStart)
    BY <2>1, SolutionPath
  <2>3. Legs(mStart) /\ node[mStart].g = 0
    BY <2>1 DEF RouteInv
  <2>4. mStart # NULL
    BY <2>2 DEF NULL, Slots, Elements
  <2>5. RefMap = request[3] /\ Tile(mStart) = request[1] /\ Tile(mGoal) = request[2]
    BY <2>1, <2>4 DEF AskedInv
  <2> PICK first : first = GetCost(request[3], request[1])
    OBVIOUS
  <2>6. StepCost(mStart) = first
        /\ Limit = 2 * (first + Distance(request[3], request[1], request[2]) - 1)
    BY <2>5 DEF StepCost, Limit
  <2>7. ASSUME NEW w, NEW L, Trail(mStart, w, L)
        PROVE  first + L - 2 <= 2 * (first + Distance(request[3], request[1], request[2]) - 1)
    BY <2>2, <2>3, <2>6, <2>7, RouteCosts
  <2>8. \A w, L : Trail(mStart, w, L)' => Trail(mStart, w, L)
    BY <2>1 DEF Trail
  <2> QED
    BY <2>1, <2>7, <2>8 DEF FoundInv
<1>3. CASE NextStep \/ ReplaceMap \/ NavDone \/ UNCHANGED navVars
  <2>1. /\ phase' = phase /\ spoilt' = spoilt /\ request' = request
        /\ UNCHANGED <<node, mStart, state>>
    BY <1>3 DEF NextStep, ReplaceMap, NavDone, GetSolutionNext, LoadMap, navVars, vars
  <2>2. \A w, L : Trail(mStart, w, L)' => Trail(mStart, w, L)
    BY <2>1 DEF Trail
  <2> QED
    BY <2>1, <2>2 DEF FoundInv, HasSolution
<1>4. CASE FindNoPath
  <2>1. ~HasSolution'
    BY <1>4 DEF FindNoPath, vars, HasSolution
  <2> QED
    BY <2>1 DEF FoundInv
<1>5. CASE BeginSearch \/ FindPath \/ Interrupt \/ CallSearchStep \/ InCall
           \/ \E s \in Starts, g \in Goals : GoTo(s, g)
  <2>1. phase' # "idle"
    <3>1. CASE InCall
      <4>1. pc # "ready" /\ phase' = phase
        BY <3>1 DEF InCall, Working, AddSuccessor, SuccessorsGenerated, Relax, Expanded,
          LinkParent, FreeUnusedOpen, FreeUnusedClosed, Succeed, FreeAllListed, Fail,
          FreeSolutionNode
      <4> QED
        BY <1>1, <4>1 DEF PhaseInv
    <3> QED
      BY <1>5, <3>1 DEF BeginSearch, FindPath, Interrupt, CallSearchStep, GoTo
  <2> QED
    BY <2>1 DEF FoundInv
<1> QED
  BY <1>2, <1>3, <1>4, <1>5 DEF NavNext, InGoTo

\* For every map, pool, bound and sequence of requests, as long as no path was followed
\* in a search that ran out of nodes: the path that go_to finds costs at most twice as
\* much as the shortest one (the estimate of findpath.cpp:49-55 overrates a diagonal).
THEOREM PathIsWithinTwice == NavSpec => [](~spoilt => PathWithinTwice)
<1>1. NavInit => AskedInv /\ FoundInv
  BY DEF NavInit, Init, AskedInv, FoundInv, HasSolution
<1>2. SearchInv /\ SearchInv' /\ NavInv /\ NavInv' /\ AskedInv /\ [NavNext]_navVars => AskedInv'
  BY NavAskedInv
<1>3. SearchInv /\ NavInv /\ AskedInv /\ RouteInv /\ FoundInv /\ [NavNext]_navVars => FoundInv'
  BY NavFoundInv
<1>4. SearchInv /\ NavInv /\ FoundInv => (~spoilt => PathWithinTwice)
  <2> SUFFICES ASSUME SearchInv, NavInv, FoundInv, ~spoilt, JustFound PROVE PathWithinTwice
    BY DEF PathWithinTwice
  <2>1. phase = "idle" /\ step_ # NULL /\ step_ = node[mStart].child /\ HasSolution
    BY DEF JustFound, Answered, NavInv, PhaseInv
  <2>2. TypeInv /\ mStart \in Slots /\ mGoal \in Slots /\ Path(mStart)
    BY <2>1, SolutionPath
  <2>3. PICK w, L : Trail(mStart, w, L)
    BY <2>2, TrailExists DEF Path
  <2>4. step_ \in Slots /\ Trail(step_, [i \in 0 .. L - 2 |-> w[i + 1]], L - 1)
    BY <2>1, <2>2, <2>3, TrailRest
  <2>5. L \in Nat /\ L - 1 \in Nat
    BY <2>3, MaxNodesAssumption DEF Trail
  <2> PICK v : v = [i \in 0 .. L - 2 |-> w[i + 1]]
    OBVIOUS
  <2> PICK l : l = L - 1
    OBVIOUS
  <2>6. TilesFrom(step_) = TilesOf(v, l)
    BY <2>2, <2>4, TrailTiles
  <2>7. Len(TilesFrom(step_)) = L - 1
    <3> DEFINE s == [i \in 1 .. L - 1 |-> Tile(v[i - 1])]
    <3>1. DOMAIN s = 1 .. L - 1
      OBVIOUS
    <3>2. s \in Seq({Tile(x) : x \in Slots})
      <4>1. \A i \in 1 .. L - 1 : v[i - 1] \in Slots
        BY <2>4, <2>5 DEF Trail
      <4> QED
        BY <2>5, <4>1
    <3> HIDE DEF s
    <3>3. Len(s) = L - 1
      BY <2>5, <3>1, <3>2
    <3> QED
      BY <2>6, <3>3 DEF s, TilesOf
  <2> PICK first : first = GetCost(request[3], request[1])
    OBVIOUS
  <2> PICK d : d = Distance(request[3], request[1], request[2])
    OBVIOUS
  <2>8. first + L - 2 <= 2 * (first + d - 1)
    BY <2>1, <2>3 DEF FoundInv
  <2>9. first \in Nat
    <3>1. request \in Starts \X Goals \X Maps
      BY <2>1 DEF JustFound, Answered, NavInv, PhaseInv
    <3> QED
      BY <3>1, CostType
  <2>10. first + (L - 1) - 1 = first + L - 2
    BY <2>5, <2>9
  <2>11. first + Len(TilesFrom(step_)) - 1 <= 2 * (first + d - 1)
    BY <2>7, <2>8, <2>10
  <2> QED
    BY <2>11 DEF PathWithinTwice
<1> QED
  BY <1>1, <1>2, <1>3, <1>4, RouteCorrect, NavSearchInv, NavInvCorrect, PTL DEF NavSpec

-----------------------------------------------------------------------------
(* The walk that PathWalk promises.                                        *)

\* The tiles of a trail are as many as its nodes.
LEMMA TilesOfIs ==
  ASSUME TypeInv, NEW L \in Nat, NEW w \in [0 .. L - 1 -> Slots]
  PROVE  /\ TilesOf(w, L) \in Seq(Int \X Int) /\ Len(TilesOf(w, L)) = L
         /\ DOMAIN TilesOf(w, L) = 1 .. L
         /\ \A i \in 1 .. L : TilesOf(w, L)[i] = Tile(w[i - 1])
<1> PICK s : s = TilesOf(w, L)
  OBVIOUS
<1>1. \A i \in 1 .. L : Tile(w[i - 1]) \in Int \X Int
  <2>1. \A i \in 1 .. L : i - 1 \in 0 .. L - 1
    OBVIOUS
  <2> QED
    BY <2>1, NodeType
<1>2. DOMAIN s = 1 .. L /\ \A i \in 1 .. L : s[i] = Tile(w[i - 1])
  BY DEF TilesOf
<1>3. s \in Seq(Int \X Int)
  <2>1. s \in [1 .. L -> Int \X Int]
    BY <1>1 DEF TilesOf
  <2> QED
    BY <2>1
<1>4. Len(s) = L
  BY <1>2, <1>3
<1> QED
  BY <1>2, <1>3, <1>4

\* From a node of the path that is kept there is a trail.
LEMMA SolutionTrail ==
  ASSUME SearchInv, ~spoilt, HasSolution, NEW s \in Kin(mStart)
  PROVE  TypeInv /\ s \in Slots /\ \E w, L : Trail(s, w, L)
<1>1. TypeInv /\ mStart \in Slots /\ s \in Slots
  <2>1. TypeInv /\ mStart \in Slots
    BY DEF HasSolution, SearchInv, TypeInv, TypeOK, Pointers
  <2> QED
    BY <2>1, KinGoesOn
<1>2. \E e \in Slots : e \in Kin(s) /\ node[e].child = NULL
  <2>1. CASE node[mStart].child = NULL
    <3>1. s = mStart
      BY <1>1, <2>1, KinAlone
    <3> QED
      BY <1>1, <2>1, <3>1, KinGoesOn
  <2>2. CASE node[mStart].child # NULL
    <3>1. mGoal \in Slots /\ Path(mStart)
      BY <2>2, SolutionPath
    <3> QED
      BY <1>1, <3>1, KinReaches DEF Path
  <2> QED
    BY <2>1, <2>2
<1> QED
  BY <1>1, <1>2, TrailExists

\* The first tile of the path is the one the object is on, the others are its walk.
LEMMA AnswerLeads ==
  ASSUME SearchInv, AskedInv, RouteInv, ~spoilt, HasSolution, phase = "reading",
         NEW c, c = node[mStart].child, c # NULL
  PROVE  Walk!LeadsTo(TilesFrom(c), request[1], request[2])
<1>1. TypeInv /\ mStart \in Slots /\ mGoal \in Slots /\ Path(mStart)
  BY SolutionPath
<1>2. Legs(mStart) /\ node[mStart].g = 0
  BY DEF RouteInv
<1>3. RefMap = request[3] /\ Tile(mStart) = request[1] /\ Tile(mGoal) = request[2]
  BY <1>1 DEF AskedInv, NULL, Slots, Elements
<1>4. PICK w, L : Trail(mStart, w, L)
  BY <1>1, TrailExists DEF Path
<1> PICK v : v = [i \in 0 .. L - 2 |-> w[i + 1]]
  OBVIOUS
<1> PICK l : l = L - 1
  OBVIOUS
<1>5. c \in Slots /\ Trail(c, v, l) /\ L > 1
  BY <1>1, <1>4, TrailRest
<1>6. L \in Nat /\ l \in Nat /\ l >= 1 /\ w[0] = mStart /\ w \in [0 .. L - 1 -> Slots]
  BY <1>4, <1>5, MaxNodesAssumption DEF Trail
<1>7. \A i \in 0 .. l - 1 : v[i] = w[i + 1] /\ v[i] \in Slots
  <2>1. \A i \in 0 .. l - 1 : i \in 0 .. L - 2 /\ i + 1 \in 0 .. L - 1
    BY <1>6
  <2> QED
    BY <1>6, <2>1
<1> PICK s : s = TilesFrom(c)
  OBVIOUS
<1>8. s = TilesOf(v, l)
  BY <1>1, <1>5, TrailTiles
<1>9. /\ s \in Seq(Int \X Int) /\ Len(s) = l /\ DOMAIN s = 1 .. l
      /\ \A i \in 1 .. l : s[i] = Tile(v[i - 1])
  <2>1. v \in [0 .. l - 1 -> Slots]
    BY <1>5 DEF Trail
  <2> QED
    BY <1>1, <1>6, <1>8, <2>1, TilesOfIs
<1>10. \A i \in 1 .. l : s[i] = Tile(w[i])
  <2>1. \A i \in 1 .. l : i - 1 \in 0 .. l - 1 /\ (i - 1) + 1 = i
    BY <1>6
  <2> QED
    BY <1>7, <1>9, <2>1
<1>11. s # <<>> /\ s[Len(s)] = request[2]
  <2>1. w[L - 1] = mGoal
    BY <1>1, <1>4, TrailEndsAtGoal
  <2>2. l \in 1 .. l
    BY <1>6
  <2>3. s[l] = request[2]
    BY <1>3, <1>10, <2>1, <2>2
  <2>4. s # <<>>
    BY <1>6, <1>9
  <2> QED
    BY <1>9, <2>3, <2>4
<1>12. ASSUME NEW i \in 1 .. l
       PROVE  /\ Walkable(RefMap, s[i])
              /\ i = 1 => Adjacent(request[1], s[i])
              /\ i # 1 => Adjacent(s[i - 1], s[i])
  <2>1. Adjacent(Tile(w[i - 1]), Tile(w[i])) /\ Walkable(RefMap, Tile(w[i]))
    BY <1>1, <1>2, <1>4, RouteCosts
  <2>2. CASE i = 1
    <3>1. w[i - 1] = mStart
      BY <1>6, <2>2
    <3> QED
      BY <1>3, <1>10, <2>1, <2>2, <3>1
  <2>3. CASE i # 1
    <3>1. i - 1 \in 1 .. l
      BY <1>6, <2>3
    <3>2. s[i - 1] = Tile(w[i - 1]) /\ s[i] = Tile(w[i])
      BY <1>10, <3>1
    <3> QED
      BY <2>1, <2>3, <3>2
  <2> QED
    BY <2>2, <2>3
<1>13. /\ \A t : Walk!Walkable(RefMap, t) <=> Walkable(RefMap, t)
       /\ \A t, u : Walk!Adjacent(t, u) <=> Adjacent(t, u)
  BY DEF Walk!Walkable, Walk!navigation_map, Walk!Wall, Walk!Adjacent, Walk!Neighbour, Walk!Moves,
         Walkable, navigation_map, Wall, Adjacent, Neighbour, Moves
<1>14. ASSUME NEW i \in DOMAIN s
       PROVE  /\ Walk!Walkable(RefMap, s[i])
              /\ Walk!Adjacent(IF i = 1 THEN request[1] ELSE s[i - 1], s[i])
  <2>1. /\ Walk!Walkable(RefMap, s[i])
        /\ i = 1 => Walk!Adjacent(request[1], s[i])
        /\ i # 1 => Walk!Adjacent(s[i - 1], s[i])
    BY <1>9, <1>12, <1>13
  <2>2. CASE i = 1
    BY <2>1, <2>2
  <2>3. CASE i # 1
    BY <2>1, <2>3
  <2> QED
    BY <2>2, <2>3
<1>15. Walk!LeadsTo(s, request[1], request[2])
  BY <1>11, <1>14 DEF Walk!LeadsTo
<1> QED
  BY <1>15

\* The tiles from the next node on are the rest.
LEMMA NextTiles ==
  ASSUME SearchInv, ~spoilt, HasSolution, NEW s \in Kin(mStart), NEW c, c = node[s].child
  PROVE  TilesFrom(s) # <<>> /\ TilesFrom(c) = Tail(TilesFrom(s))
<1>1. TypeInv /\ s \in Slots
  BY SolutionTrail
<1>2. PICK w, L : Trail(s, w, L)
  BY SolutionTrail
<1>3. L \in Nat /\ L >= 1 /\ w \in [0 .. L - 1 -> Slots]
  BY <1>2, MaxNodesAssumption DEF Trail
<1> PICK t : t = TilesFrom(s)
  OBVIOUS
<1>4. t = TilesOf(w, L)
  BY <1>1, <1>2, TrailTiles
<1>5. /\ t \in Seq(Int \X Int) /\ Len(t) = L /\ \A i \in 1 .. L : t[i] = Tile(w[i - 1])
  BY <1>1, <1>3, <1>4, TilesOfIs
<1>6. t # <<>>
  BY <1>3, <1>5
<1>7. /\ Tail(t) \in Seq(Int \X Int) /\ Len(Tail(t)) = L - 1
      /\ \A i \in 1 .. L - 1 : Tail(t)[i] = t[i + 1]
  BY <1>5, <1>6, HeadTailProperties
<1>8. CASE c = NULL
  <2>1. L = 1 /\ TilesFrom(c) = <<>>
    BY <1>1, <1>2, <1>8, TrailRest, NoTiles
  <2>2. Len(Tail(t)) = 0
    BY <1>7, <2>1
  <2>3. Tail(t) = <<>>
    BY <1>7, <2>2, EmptySeq
  <2> QED
    BY <1>6, <2>1, <2>3
<1>9. CASE c # NULL
  <2> PICK v : v = [i \in 0 .. L - 2 |-> w[i + 1]]
    OBVIOUS
  <2> PICK l : l = L - 1
    OBVIOUS
  <2>1. c \in Slots /\ Trail(c, v, l)
    BY <1>1, <1>2, <1>9, TrailRest
  <2>2. l \in Nat
    BY <1>3
  <2>3. \A i \in 0 .. l - 1 : v[i] = w[i + 1] /\ v[i] \in Slots
    <3>1. \A i \in 0 .. l - 1 : i \in 0 .. L - 2 /\ i + 1 \in 0 .. L - 1
      BY <1>3
    <3> QED
      BY <1>3, <3>1
  <2> PICK u : u = TilesFrom(c)
    OBVIOUS
  <2>4. u = TilesOf(v, l)
    BY <1>1, <2>1, TrailTiles
  <2>5. u \in Seq(Int \X Int) /\ Len(u) = l /\ \A i \in 1 .. l : u[i] = Tile(v[i - 1])
    <3>1. v \in [0 .. l - 1 -> Slots]
      BY <2>1 DEF Trail
    <3> QED
      BY <1>1, <2>2, <2>4, <3>1, TilesOfIs
  <2>6. \A i \in 1 .. l : u[i] = Tail(t)[i]
    <3>1. \A i \in 1 .. l : i - 1 \in 0 .. l - 1 /\ (i - 1) + 1 = i /\ i + 1 \in 1 .. L
                            /\ (i + 1) - 1 = i /\ i \in 1 .. L - 1
      BY <1>3
    <3> TAKE i \in 1 .. l
    <3>2. u[i] = Tile(v[i - 1]) /\ v[i - 1] = w[i]
      BY <2>3, <2>5, <3>1
    <3>3. Tail(t)[i] = t[i + 1] /\ t[i + 1] = Tile(w[i])
      BY <1>5, <1>7, <3>1
    <3> QED
      BY <3>2, <3>3
  <2>7. u = Tail(t)
    BY <1>7, <2>5, <2>6, SeqEqual
  <2> QED
    BY <1>6, <2>7
<1> QED
  BY <1>8, <1>9

\* The tiles of the walk are those from the new step_ on.
LEMMA NewTiles ==
  ASSUME node' = node, NEW c, step_' = c PROVE TilesFrom(step_)' = TilesFrom(c)
<1>1. TilesFrom(c)' = TilesFrom(c)
  BY SameTiles
<1>2. TilesFrom(step_)' = TilesFrom(c)'
  BY DEF TilesFrom, Tile
<1> QED
  BY <1>1, <1>2

\* What the steps of go_to and do_step are for the game.
LEMMA WalkStep ==
  ASSUME SearchInv, NavInv, AskedInv, RouteInv, OnPathInv, ~spoilt, [NavNext]_navVars
  PROVE  [Walk!Next]_(Walk!vars)
<1> USE DEF pool, lists, locals, history, nav
<1> DEFINE asked == IF phase = "idle" THEN <<>> ELSE <<request[1], request[2]>>
           walk == IF phase = "idle" THEN TilesFrom(step_) ELSE <<>>
<1>1. /\ TypeInv /\ PhaseInv /\ RefMap \in Maps /\ NULL \notin Slots /\ step_ \in Pointers
      /\ NextOnPath \in Pointers
  <2>1. TypeInv /\ PhaseInv /\ RefMap \in Maps /\ step_ \in Pointers /\ NULL \notin Slots
    BY DEF NavInv, TypeInv, TypeOK, NULL, Slots, Elements
  <2>2. solution \in Pointers
    BY <2>1 DEF TypeInv, TypeOK
  <2> QED
    BY <2>1, <2>2, NodeType DEF NextOnPath, Pointers
<1>2. CASE phase # "idle" /\ phase' # "idle" /\ UNCHANGED <<RefMap, request>>
  <2>1. UNCHANGED <<RefMap, asked, walk>>
    BY <1>2
  <2> QED
    BY <2>1 DEF Walk!vars
<1>3. ASSUME NEW s \in Starts, NEW g \in Goals, GoTo(s, g) PROVE [Walk!Next]_(Walk!vars)
  <2>1. /\ phase = "idle" /\ phase' = "cleared" /\ request' = <<s, g, RefMap>>
        /\ RefMap' = RefMap
    BY <1>3 DEF GoTo, FreeSolutionNodes, vars
  <2>2. asked = <<>> /\ asked' = <<s, g>> /\ walk' = <<>>
    BY <2>1
  <2>3. <<s, g>> \in (Starts \cup Goals) \X (Starts \cup Goals)
    OBVIOUS
  <2>4. Walk!Ask
    BY <2>1, <2>2, <2>3 DEF Walk!Ask
  <2> QED
    BY <2>4 DEF Walk!Next
<1>4. CASE SkipStart
  <2> PICK c : c = node[mStart].child
    OBVIOUS
  <2>1. /\ phase = "reading" /\ phase' = "idle" /\ HasSolution /\ solution = mStart
        /\ mStart # NULL /\ NextOnPath = c /\ step_' = c /\ UNCHANGED <<RefMap, node>>
    BY <1>1, <1>4 DEF SkipStart, GetSolutionNext, PhaseInv, OnPathInv, HasSolution, NextOnPath
  <2>2. asked = <<request[1], request[2]>> /\ asked' = <<>>
    BY <2>1
  <2>3. asked # <<>> /\ asked[1] = request[1] /\ asked[2] = request[2]
    BY <2>2
  <2>4. walk' = TilesFrom(c)
    <3>1. TilesFrom(step_)' = TilesFrom(c)
      BY <2>1, NewTiles
    <3> QED
      BY <2>1, <3>1
  <2>5. c # NULL => Walk!LeadsTo(TilesFrom(c), request[1], request[2])
    BY <2>1, AnswerLeads
  <2>6. c = NULL => TilesFrom(c) = <<>>
    BY <1>1, NoTiles
  <2>7. walk' = <<>> \/ Walk!LeadsTo(walk', asked[1], asked[2])
    BY <2>3, <2>4, <2>5, <2>6
  <2>8. Walk!Answer
    BY <2>1, <2>2, <2>3, <2>7 DEF Walk!Answer
  <2> QED
    BY <2>8 DEF Walk!Next
<1>5. CASE FindNoPath
  <2>1. /\ phase = "searching" /\ phase' = "idle" /\ step_' = NULL /\ UNCHANGED <<RefMap, node>>
    BY <1>5 DEF FindNoPath, vars
  <2>2. asked = <<request[1], request[2]>> /\ asked' = <<>>
    BY <2>1
  <2>3. asked # <<>>
    BY <2>2
  <2>4. walk' = <<>>
    <3>1. TilesFrom(step_)' = TilesFrom(NULL) /\ TilesFrom(NULL) = <<>>
      BY <1>1, <2>1, NewTiles, NoTiles
    <3> QED
      BY <2>1, <3>1
  <2>5. Walk!Answer
    BY <2>1, <2>2, <2>3, <2>4 DEF Walk!Answer
  <2> QED
    BY <2>5 DEF Walk!Next
<1>6. CASE NextStep
  <2> PICK s : s = step_
    OBVIOUS
  <2> PICK c : c = node[s].child
    OBVIOUS
  <2>1. /\ phase = "idle" /\ phase' = "idle" /\ HasSolution /\ s # NULL /\ s = solution
        /\ s \in Kin(mStart) /\ NextOnPath = c /\ step_' = c /\ UNCHANGED <<RefMap, node>>
    BY <1>1, <1>6 DEF NextStep, GetSolutionNext, PhaseInv, OnPathInv, NextOnPath
  <2>2. asked = <<>> /\ asked' = <<>> /\ walk = TilesFrom(s)
    BY <2>1
  <2>3. walk' = TilesFrom(c)
    <3>1. TilesFrom(step_)' = TilesFrom(c)
      BY <2>1, NewTiles
    <3> QED
      BY <2>1, <3>1
  <2>4. TilesFrom(s) # <<>> /\ TilesFrom(c) = Tail(TilesFrom(s))
    BY <2>1, NextTiles
  <2>5. Walk!Advance
    BY <2>1, <2>2, <2>3, <2>4 DEF Walk!Advance
  <2> QED
    BY <2>5 DEF Walk!Next
<1>7. CASE ReplaceMap
  <2> PICK s : s = step_
    OBVIOUS
  <2>1. phase = "idle" /\ phase' = "idle" /\ RefMap' \in Maps /\ node' = node /\ step_' = s
    BY <1>7 DEF ReplaceMap, LoadMap
  <2>2. asked = <<>> /\ asked' = <<>> /\ walk = TilesFrom(s)
    BY <2>1
  <2>3. walk' = TilesFrom(s)
    <3>1. TilesFrom(step_)' = TilesFrom(s)
      BY <2>1, NewTiles
    <3> QED
      BY <2>1, <3>1
  <2>4. Walk!Reload
    BY <2>1, <2>2, <2>3 DEF Walk!Reload
  <2> QED
    BY <2>4 DEF Walk!Next
<1>8. CASE NavDone \/ UNCHANGED navVars
  <2> PICK s : s = step_
    OBVIOUS
  <2>1. UNCHANGED <<RefMap, node, phase, request>> /\ step_' = s
    BY <1>8 DEF NavDone, navVars, vars
  <2>2. TilesFrom(step_)' = TilesFrom(s)
    BY <2>1, NewTiles
  <2>3. UNCHANGED <<RefMap, asked, walk>>
    BY <2>1, <2>2
  <2> QED
    BY <2>3 DEF Walk!vars
<1>9. CASE BeginSearch \/ Interrupt \/ CallSearchStep \/ FindPath
  <2>1. phase # "idle" /\ phase' # "idle" /\ request' = request
    BY <1>9 DEF BeginSearch, Interrupt, CallSearchStep, FindPath
  <2>2. RefMap' = RefMap
    BY <1>9 DEF BeginSearch, SetStartAndGoalStates, Interrupt, CancelSearch, CallSearchStep,
                SearchStep, GiveUp, ReachGoal, Expand, FindPath, GetSolutionStart
  <2> QED
    BY <1>2, <2>1, <2>2
<1>10. CASE InCall
  <2>1. pc # "ready" /\ RefMap' = RefMap
    BY <1>10 DEF InCall, Working, AddSuccessor, SuccessorsGenerated, Relax, Expanded,
      LinkParent, FreeUnusedOpen, FreeUnusedClosed, Succeed, FreeAllListed, Fail,
      FreeSolutionNode
  <2>2. phase' = phase /\ request' = request
    BY <1>10 DEF InCall
  <2>3. phase # "idle"
    BY <1>1, <2>1 DEF PhaseInv
  <2> QED
    BY <1>2, <2>1, <2>2, <2>3
<1> QED
  BY <1>3, <1>4, <1>5, <1>6, <1>7, <1>8, <1>9, <1>10 DEF NavNext, InGoTo

\* For every map, pool, bound and sequence of requests: as long as no path is followed in
\* a search that ran out of nodes, go_to and do_step do what PathWalk promises.  A
\* request is answered with legal moves from its start to its goal, or not at all, and
\* the object then makes these moves one by one (anim.cpp:55-80,118-166).
THEOREM WalkIsImplemented == NavSpec /\ [](~spoilt) => ImplementsPathWalk
<1>1. NavInit => AskedInv /\ OnPathInv
  BY DEF NavInit, AskedInv, OnPathInv
<1>2. SearchInv /\ SearchInv' /\ NavInv /\ NavInv' /\ AskedInv /\ [NavNext]_navVars => AskedInv'
  BY NavAskedInv
<1>3. NavInv /\ OnPathInv /\ [NavNext]_navVars => OnPathInv'
  BY NavOnPathInv
<1>4. NavInit => Walk!Init
  <2> SUFFICES ASSUME NavInit PROVE Walk!Init
    OBVIOUS
  <2>1. TypeInv
    BY InitTypeInv DEF NavInit
  <2>2. TilesFrom(NULL) = <<>>
    BY <2>1, NoTiles
  <2> QED
    BY <2>2 DEF NavInit, Walk!Init
<1>5. SearchInv /\ NavInv /\ AskedInv /\ RouteInv /\ OnPathInv /\ ~spoilt /\ [NavNext]_navVars
      => [Walk!Next]_(Walk!vars)
  BY WalkStep
<1> QED
  BY <1>1, <1>2, <1>3, <1>4, <1>5, RouteCorrect, NavSearchInv, NavInvCorrect, PTL
  DEF NavSpec, ImplementsPathWalk, Walk!Spec

\* With a node for every tile of a map and ten more the exception never applies: no
\* search runs out of nodes, the walk is the one that PathWalk promises, and what is
\* said of failures and of the cost of paths is true of every request.
THEOREM EnoughNodesForWalks ==
  ASSUME EnoughNodes
  PROVE  NavSpec => ImplementsPathWalk /\ [](~dropped /\ FailureJustified /\ PathWithinTwice)
<1>1. NavSpec => [](~dropped /\ ~spoilt)
  BY NavUsesSearchLegally, EnoughNodesSuffice, PTL DEF UsesSearchLegally
<1> QED
  BY <1>1, WalkIsImplemented, FailuresAreJustified, PathIsWithinTwice, PTL
=============================================================================
