----------------------------- MODULE Walking_proofs -----------------------------
(***************************************************************************)
(* For every tile size, frame, speed and path: an object whose walk was    *)
(* not stopped by another request is shown walking along the leg it is on, *)
(* moves as it is shown, and ends idle, facing along its last leg.  Where  *)
(* its strides let it leave the middle of a tile by less than a tile, the  *)
(* next leg is never empty, and the walk ends that near to its goal.       *)
(***************************************************************************)
EXTENDS Walking, SequenceTheorems, WellFoundedInduction, TLAPS

\* What IdleAtGoal needs to be inductive: the animation is that of the leg,
\* also while there is still a path.
Shown == /\ path \in Seq(Int \X Int)
         /\ path # <<>> => actual_ = <<"walk", Facing(leg)>>
         /\ path = <<>> /\ goal # <<>> => actual_ = <<"idle", FacingAtGoal(leg)>>

-----------------------------------------------------------------------------
\* The rest of a path is a path, and there is one after its first tile.
LEMMA RestOfPath ==
  ASSUME NEW way \in Seq(Int \X Int), Len(way) > 1
  PROVE  Tail(way) \in Seq(Int \X Int) /\ Tail(way) # <<>>
<1> DEFINE Tiles == Int \X Int
<1>1. way # <<>> /\ Len(way) \in Nat
  BY EmptySeq
<1> HIDE DEF Tiles
<1>2. Tail(way) \in Seq(Tiles) /\ Len(Tail(way)) = Len(way) - 1
  BY <1>1, HeadTailProperties DEF Tiles
<1>3. Len(Tail(way)) # 0
  <2>1. \A m \in Nat : m > 1 => m - 1 # 0
    OBVIOUS
  <2> QED
    BY <1>1, <1>2, <2>1
<1>4. Tail(way) # <<>>
  BY <1>3, EmptySeq
<1> QED
  BY <1>2, <1>4 DEF Tiles

\* The quarter an object stands in is the one it walked in, except on a
\* diagonal, where the branches of do_step differ from those of set_direction.
LEMMA SameQuarter ==
  ASSUME NEW l, l[1] * l[1] # l[2] * l[2] PROVE FacingAtGoal(l) = Facing(l)
<1>1. l[1] # l[2]
  OBVIOUS
<1> QED
  BY <1>1 DEF FacingAtGoal

\* go_to sets the animation of the first leg.
LEMMA InitShown == Init => Shown
<1> SUFFICES ASSUME Init PROVE Shown
  OBVIOUS
<1>1. PICK way \in Paths : path = Tail(way)
  BY DEF Init
<1>2. path \in Seq(Int \X Int) /\ path # <<>>
  BY <1>1, RestOfPath, PathsAssumption
<1> QED
  BY <1>2 DEF Init, Shown

\* Whenever a leg begins or ends its animation is set, and only then.
LEMMA NextShown == Shown /\ [Next]_vars => Shown'
<1> SUFFICES ASSUME Shown, [Next]_vars PROVE Shown'
  OBVIOUS
<1>1. CASE UNCHANGED vars
  BY <1>1 DEF Shown, vars
<1>2. CASE go_to_nowhere
  BY <1>2 DEF go_to_nowhere, Shown
<1>3. CASE Arrive
  BY <1>3 DEF Arrive, Shown
<1>4. ASSUME NEW stride \in Strides, NextTile(stride) PROVE Shown'
  <2>1. path' \in Seq(Int \X Int) /\ path' # <<>>
    BY <1>4, RestOfPath DEF NextTile, Shown
  <2>2. leg' = LegTo(path[2]) /\ actual_' = <<"walk", Facing(LegTo(path[2]))>>
    BY <1>4 DEF NextTile, Move
  <2> QED
    BY <2>1, <2>2 DEF Shown
<1>5. ASSUME NEW stride \in Strides, Walk(stride) PROVE Shown'
  BY <1>5 DEF Walk, Move, Shown
<1> QED
  BY <1>1, <1>2, <1>3, <1>4, <1>5 DEF Next, do_step, Stop

\* A walk that ends on its goal leaves the object idle, facing along its last
\* leg.
THEOREM StandsAtGoal == Spec => []IdleAtGoal
<1>1. Shown => IdleAtGoal
  BY SameQuarter DEF Shown, IdleAtGoal
<1> QED
  BY <1>1, InitShown, NextShown, PTL DEF Spec

-----------------------------------------------------------------------------
(* How far the object moves.                                               *)

\* A set of natural numbers has a least one.
LEMMA LeastNumber ==
  ASSUME NEW T, T \subseteq Nat, T # {} PROVE \E x \in T : \A y \in T : x <= y
<1>1. IsWellFoundedOn({p \in Nat \X Nat : p[1] < p[2]}, Nat)
  BY NatLessThanWellFounded DEF OpToRel
<1>2. PICK x \in T : \A y \in T : <<y, x>> \notin {p \in Nat \X Nat : p[1] < p[2]}
  BY <1>1, WFMin
<1>3. ASSUME NEW y \in T PROVE x <= y
  <2>1. ~(y < x)
    BY <1>2
  <2> QED
    BY <2>1
<1> QED
  BY <1>3

\* A number has a whole root.
LEMMA RootExists ==
  ASSUME NEW A \in Nat, NEW K \in Nat, NEW q \in Nat, (q + 1) * (q + 1) * K > A
  PROVE  \E m \in 0 .. q : m * m * K <= A /\ (m + 1) * (m + 1) * K > A
<1> DEFINE T == {m \in Nat : (m + 1) * (m + 1) * K > A}
<1>1. PICK m \in T : \A y \in T : m <= y
  BY LeastNumber
<1>2. m \in 0 .. q
  BY <1>1
<1>3. CASE m = 0
  BY <1>1, <1>2, <1>3
<1>4. CASE m # 0
  <2>1. m - 1 \in Nat /\ m - 1 + 1 = m /\ ~(m <= m - 1)
    BY <1>4
  <2>2. m - 1 \notin T
    BY <1>1, <2>1
  <2>3. ~(m * m * K > A)
    BY <2>1, <2>2
  <2> QED
    BY <1>1, <1>2, <2>3
<1> QED
  BY <1>3, <1>4

\* Of two products of natural numbers the one with the larger factors is larger.
LEMMA ProductMonotonic ==
  ASSUME NEW a \in Nat, NEW b \in Nat, NEW c \in Nat, NEW d \in Nat, a <= c, b <= d
  PROVE  a * b <= c * d
<1>1. a * b <= c * b
  OBVIOUS
<1>2. c * b <= c * d
  OBVIOUS
<1>3. a * b \in Nat /\ c * b \in Nat /\ c * d \in Nat
  OBVIOUS
<1> QED
  BY <1>1, <1>2, <1>3

\* The square of a distance is a number, and no component is longer than it.
LEMMA SquareType ==
  ASSUME NEW l \in Int \X Int
  PROVE  Square(l) \in Nat /\ l[1] * l[1] <= Square(l) /\ l[2] * l[2] <= Square(l)
<1>1. \A d \in Int : d * d \in Nat
  OBVIOUS
<1> QED
  BY <1>1 DEF Square

\* A quotient times the divisor is short of the number by less than the divisor.
LEMMA QuotientBound ==
  ASSUME NEW s \in Nat, NEW u \in Nat \ {0}
  PROVE  s \div u \in Nat /\ (s \div u + 1) * u > s
OBVIOUS

\* Strictly larger factors make a strictly larger product.
LEMMA SquareStrict ==
  ASSUME NEW a \in Nat, NEW b \in Nat, a < b, NEW c \in Nat \ {0}, NEW d \in Nat, d <= c
  PROVE  a * a * d < b * b * c
<1>1. a * a < b * b
  <2>1. a + 1 <= b
    OBVIOUS
  <2>2. (a + 1) * (a + 1) <= b * b
    BY <2>1, ProductMonotonic
  <2> QED
    BY <2>2
<1>2. a * a * d <= a * a * c
  BY ProductMonotonic
<1>3. a * a * c < b * b * c
  BY <1>1
<1>4. a * a * d \in Nat /\ a * a * c \in Nat /\ b * b * c \in Nat
  OBVIOUS
<1> QED
  BY <1>2, <1>3, <1>4

\* What the whole pixels of a stride are.
LEMMA WholePixelsIs ==
  ASSUME NEW stride \in Nat, NEW l \in Int \X Int, Square(l) # 0,
         NEW d \in Int, d * d <= Square(l)
  PROVE  LET K == Square(l) * Unit * Unit
             m == WholePixels(stride, d, l)
         IN  /\ m \in Nat /\ K \in Nat \ {0}
             /\ m * m * K <= stride * stride * d * d
             /\ (m + 1) * (m + 1) * K > stride * stride * d * d
<1> DEFINE L == Square(l)
           K == L * Unit * Unit
           A == stride * stride * d * d
           q == stride \div Unit
<1>1. Unit \in Nat \ {0} /\ L \in Nat \ {0} /\ d * d \in Nat
  BY WalkingAssumption, SquareType
<1>2. K \in Nat \ {0} /\ A \in Nat /\ q \in Nat
  BY <1>1, QuotientBound
<1>3. \A m \in Nat : m * m * L * Unit * Unit = m * m * K
  BY <1>1
<1>4. (q + 1) * (q + 1) * K > A
  <2>1. (q + 1) * Unit > stride /\ (q + 1) * Unit \in Nat
    BY <1>1, QuotientBound
  <2>2. stride * stride * (d * d) < ((q + 1) * Unit) * ((q + 1) * Unit) * L
    BY <1>1, <2>1, SquareStrict
  <2>3. A = stride * stride * (d * d)
    OBVIOUS
  <2>4. ((q + 1) * Unit) * ((q + 1) * Unit) * L = (q + 1) * (q + 1) * K
    <3> HIDE DEF q, L
    <3> QED
      BY <1>1, <1>2 DEF K
  <2> QED
    BY <2>2, <2>3, <2>4
<1>5. PICK m \in 0 .. q : m * m * K <= A /\ (m + 1) * (m + 1) * K > A
  <2> HIDE DEF K, A, q
  <2> QED
    BY <1>2, <1>4, RootExists
<1>6. \E j \in 0 .. q : j * j * L * Unit * Unit <= A /\ (j + 1) * (j + 1) * L * Unit * Unit > A
  <2>1. m \in Nat /\ m + 1 \in Nat
    BY <1>2
  <2>2. m * m * L * Unit * Unit = m * m * K /\ (m + 1) * (m + 1) * L * Unit * Unit = (m + 1) * (m + 1) * K
    BY <1>3, <2>1
  <2> QED
    BY <1>5, <2>2
<1> DEFINE w == WholePixels(stride, d, l)
<1>7. w \in 0 .. q /\ w * w * L * Unit * Unit <= A /\ (w + 1) * (w + 1) * L * Unit * Unit > A
  BY <1>6 DEF WholePixels
<1> HIDE DEF w, L, K, A, q
<1>8. w \in Nat /\ w + 1 \in Nat
  BY <1>2, <1>7
<1>9. w * w * L * Unit * Unit = w * w * K /\ (w + 1) * (w + 1) * L * Unit * Unit = (w + 1) * (w + 1) * K
  BY <1>3, <1>8
<1> QED
  BY <1>2, <1>7, <1>8, <1>9 DEF w, L, K, A

\* The whole pixels along the longer component are no fewer.
LEMMA WholePixelsMonotonic ==
  ASSUME NEW stride \in Nat, NEW l \in Int \X Int, Square(l) # 0,
         NEW d \in Int, d * d <= Square(l), NEW e \in Int, e * e <= d * d
  PROVE  WholePixels(stride, e, l) <= WholePixels(stride, d, l)
<1> DEFINE K == Square(l) * Unit * Unit
           m == WholePixels(stride, d, l)
           j == WholePixels(stride, e, l)
           A == stride * stride * d * d
           B == stride * stride * e * e
<1>1. Square(l) \in Nat /\ e * e <= Square(l)
  BY SquareType
<1>2. m \in Nat /\ K \in Nat \ {0} /\ (m + 1) * (m + 1) * K > A
  BY WholePixelsIs
<1>3. j \in Nat /\ j * j * K <= B
  BY <1>1, WholePixelsIs
<1>4. B <= A
  <2>1. A = (stride * stride) * (d * d) /\ B = (stride * stride) * (e * e)
    OBVIOUS
  <2>2. d * d \in Nat /\ e * e \in Nat /\ stride * stride \in Nat
    OBVIOUS
  <2> QED
    BY <2>1, <2>2, ProductMonotonic
<1>5. A \in Int /\ B \in Int
  OBVIOUS
<1> HIDE DEF K, m, j, A, B
<1>6. ASSUME m + 1 <= j PROVE FALSE
  <2>1. (m + 1) * (m + 1) <= j * j
    BY <1>2, <1>3, <1>6, ProductMonotonic
  <2>2. (m + 1) * (m + 1) * K <= j * j * K
    BY <1>2, <1>3, <2>1, ProductMonotonic
  <2>3. (m + 1) * (m + 1) * K \in Nat /\ j * j * K \in Nat
    BY <1>2, <1>3
  <2> QED
    BY <1>2, <1>3, <1>4, <1>5, <2>2, <2>3
<1> QED
  BY <1>2, <1>3, <1>6 DEF m, j

\* An object moves by the whole pixels or one more, in the direction of the leg.
LEMMA MovedBy ==
  ASSUME NEW p \in Int, NEW stride \in Nat, NEW l \in Int \X Int, Square(l) # 0,
         NEW d \in Int, d * d <= Square(l)
  PROVE  LET m == WholePixels(stride, d, l)
             by == Moved(p, stride, d, l) - p
         IN  by \in Int /\ (IF d >= 0 THEN by \in {m, m + 1} ELSE by \in {-m, -(m + 1)})
<1>1. WholePixels(stride, d, l) \in Nat
  BY WholePixelsIs
<1> QED
  BY <1>1 DEF Moved

\* A component no longer than another moves the object by at most a pixel more,
\* and neither moves it backward.
LEMMA MovesMost ==
  ASSUME NEW p \in Int, NEW o \in Int, NEW stride \in Nat, NEW l \in Int \X Int, Square(l) # 0,
         NEW d \in Int, d * d <= Square(l), NEW e \in Int, e * e <= d * d,
         NEW sign \in {-1, 1}, d * sign > 0
  PROVE  LET by == Moved(p, stride, d, l) - p
             other == Moved(o, stride, e, l) - o
         IN  by * sign >= 0 /\ AbsOf(by) + 1 >= AbsOf(other)
<1> DEFINE m == WholePixels(stride, d, l)
           j == WholePixels(stride, e, l)
           by == Moved(p, stride, d, l) - p
           other == Moved(o, stride, e, l) - o
<1>1. Square(l) \in Nat /\ e * e <= Square(l)
  <2>1. Square(l) \in Nat /\ e * e \in Int /\ d * d \in Int
    BY SquareType
  <2> QED
    BY <2>1
<1>2. m \in Nat /\ j \in Nat /\ j <= m
  BY <1>1, WholePixelsIs, WholePixelsMonotonic
<1>3. by \in Int /\ (IF d >= 0 THEN by \in {m, m + 1} ELSE by \in {-m, -(m + 1)})
  BY MovedBy
<1>4. other \in Int /\ (IF e >= 0 THEN other \in {j, j + 1} ELSE other \in {-j, -(j + 1)})
  BY <1>1, MovedBy
<1> HIDE DEF m, j, by, other
<1>5. AbsOf(other) <= j + 1 /\ AbsOf(other) \in Int
  BY <1>2, <1>4 DEF AbsOf
<1>6. AbsOf(by) >= m /\ AbsOf(by) \in Int
  BY <1>2, <1>3 DEF AbsOf
<1>7. by * sign >= 0
  <2>1. CASE sign = 1
    BY <1>2, <1>3, <2>1
  <2>2. CASE sign = -1
    BY <1>2, <1>3, <2>2
  <2> QED
    BY <2>1, <2>2
<1> QED
  BY <1>2, <1>5, <1>6, <1>7 DEF by, other

\* The name of an animation has the axis and the sign of the longer component,
\* except straight down and straight left.
LEMMA FacesLonger ==
  ASSUME NEW l \in Int \X Int,
         ~(l[1] = 0 /\ l[2] >= 0), ~(l[1] <= 0 /\ l[2] = 0)
  PROVE  LET a == AxisOf(Facing(l))
         IN  /\ a \in Axes /\ SignOf(Facing(l)) \in {-1, 1}
             /\ l[a] * SignOf(Facing(l)) > 0
             /\ AbsOf(l[3 - a]) <= AbsOf(l[a])
<1>1. l[1] \in Int /\ l[2] \in Int
  OBVIOUS
<1>2. CASE l[1] > 0 /\ l[2] > 0
  BY <1>1, <1>2 DEF Facing, AxisOf, SignOf, AbsOf, Axes
<1>3. CASE l[1] < 0 /\ l[2] < 0
  BY <1>1, <1>3 DEF Facing, AxisOf, SignOf, AbsOf, Axes
<1>4. CASE l[1] < 0 /\ l[2] > 0
  BY <1>1, <1>4 DEF Facing, AxisOf, SignOf, AbsOf, Axes
<1>5. CASE l[1] > 0 /\ l[2] <= 0
  BY <1>1, <1>5 DEF Facing, AxisOf, SignOf, AbsOf, Axes
<1>6. CASE l[1] = 0 /\ l[2] < 0
  BY <1>1, <1>6 DEF Facing, AxisOf, SignOf, AbsOf, Axes
<1> QED
  BY <1>1, <1>2, <1>3, <1>4, <1>5, <1>6

\* The longer of two components has the larger square.
LEMMA SquareMonotonic ==
  ASSUME NEW d \in Int, NEW e \in Int, AbsOf(e) <= AbsOf(d) PROVE e * e <= d * d
<1>1. AbsOf(d) \in Nat /\ AbsOf(e) \in Nat
  BY DEF AbsOf
<1>2. AbsOf(e) * AbsOf(e) <= AbsOf(d) * AbsOf(d)
  BY <1>1, ProductMonotonic
<1>3. AbsOf(d) * AbsOf(d) = d * d /\ AbsOf(e) * AbsOf(e) = e * e
  BY DEF AbsOf
<1> QED
  BY <1>2, <1>3

-----------------------------------------------------------------------------
\* Positions and legs are pairs of integers.
Placed == /\ Shown
          /\ pos \in Int \X Int /\ leg \in Int \X Int

\* The components of the base and of the leg to a tile are numbers.
LEMMA LegType ==
  ASSUME NEW tile \in Int \X Int, pos \in Int \X Int PROVE LegTo(tile) \in Int \X Int
<1>1. TileWidth \in Nat \ {0} /\ TileWidth \div 2 \in Int /\ Box \in Int \X Int
  BY WalkingAssumption
<1> QED
  BY <1>1 DEF LegTo, Centre, base

\* go_to is called by an object that stands somewhere.
LEMMA InitPlaced == Init => Placed
<1> SUFFICES ASSUME Init PROVE Placed
  OBVIOUS
<1>1. PICK way \in Paths, offset \in Offsets :
        /\ pos = << way[1][1] * TileWidth + offset[1] - Box[1],
                    way[1][2] * TileWidth + offset[2] - Box[2] >>
        /\ leg = << Centre(way[2])[1] - way[1][1] * TileWidth - offset[1],
                    Centre(way[2])[2] - way[1][2] * TileWidth - offset[2] >>
  BY DEF Init
<1>2. /\ way[1] \in Int \X Int /\ way[2] \in Int \X Int
      /\ offset \in Nat \X Nat /\ Box \in Int \X Int
      /\ TileWidth \in Nat \ {0} /\ TileWidth \div 2 \in Int
  <2>1. way \in Seq(Int \X Int) /\ Len(way) > 1
    BY PathsAssumption
  <2>2. 1 \in 1 .. Len(way) /\ 2 \in 1 .. Len(way)
    BY <2>1, LenProperties
  <2> QED
    BY <2>1, <2>2, ElementOfSeq, WalkingAssumption
<1> QED
  BY <1>1, <1>2, InitShown DEF Placed, Centre

\* Strides move the object by whole pixels.
LEMMA MoveType ==
  ASSUME NEW stride \in Nat, NEW l \in Int \X Int, NEW w,
         pos \in Int \X Int, Move(stride, l, w)
  PROVE  pos' \in Int \X Int /\ leg' = l
<1>1. CASE Square(l) = 0
  BY <1>1 DEF Move
<1>2. CASE Square(l) # 0
  <2>1. /\ l[1] \in Int /\ l[2] \in Int /\ pos[1] \in Int /\ pos[2] \in Int
        /\ l[1] * l[1] <= Square(l) /\ l[2] * l[2] <= Square(l)
    BY SquareType
  <2>2. /\ Moved(pos[1], stride, l[1], l) - pos[1] \in Int
        /\ Moved(pos[2], stride, l[2], l) - pos[2] \in Int
    BY <1>2, <2>1, MovedBy
  <2>3. /\ Moved(pos[1], stride, l[1], l) \in Int
        /\ Moved(pos[2], stride, l[2], l) \in Int
    BY <1>2, <2>1, WholePixelsIs DEF Moved
  <2> QED
    BY <1>2, <2>3 DEF Move
<1> QED
  BY <1>1, <1>2

\* The leg of a step is a pair of integers, and is shown.
LEMMA StepLeg ==
  ASSUME Placed, NEW stride \in Strides, do_step(stride)
  PROVE  /\ stride \in Nat /\ leg' \in Int \X Int
         /\ \E w : Move(stride, leg', w)
         /\ actual_'[2] = Facing(leg')
<1>1. stride \in Nat
  BY WalkingAssumption
<1>2. CASE NextTile(stride)
  <2>1. path[2] \in Int \X Int
    <3>1. path \in Seq(Int \X Int) /\ Len(path) > 1
      BY <1>2 DEF NextTile, Placed, Shown
    <3>2. 2 \in 1 .. Len(path)
      BY <3>1, LenProperties
    <3> QED
      BY <3>1, <3>2, ElementOfSeq
  <2>2. LegTo(path[2]) \in Int \X Int
    BY <2>1, LegType DEF Placed
  <2>3. leg' = LegTo(path[2]) /\ Move(stride, leg', 0)
    BY <1>2 DEF NextTile, Move
  <2>4. actual_' = <<"walk", Facing(leg')>>
    BY <1>2, <2>3 DEF NextTile
  <2> QED
    BY <1>1, <2>2, <2>3, <2>4
<1>3. CASE Walk(stride)
  <2>1. leg' = leg /\ Move(stride, leg', walked)
    BY <1>3 DEF Walk, Move
  <2>2. actual_' = <<"walk", Facing(leg')>>
    BY <1>3, <2>1 DEF Walk, Placed, Shown
  <2> QED
    BY <1>1, <2>1, <2>2 DEF Placed
<1> QED
  BY <1>2, <1>3 DEF do_step

\* Every step keeps the types.
LEMMA NextPlaced == Placed /\ [Next]_vars => Placed'
<1> SUFFICES ASSUME Placed, [Next]_vars PROVE Placed'
  OBVIOUS
<1>1. Shown'
  BY NextShown DEF Placed
<1>2. CASE UNCHANGED <<pos, leg>>
  BY <1>1, <1>2 DEF Placed
<1>3. ASSUME NEW stride \in Strides, do_step(stride) PROVE Placed'
  BY <1>1, <1>3, StepLeg, MoveType DEF Placed
<1> QED
  BY <1>2, <1>3 DEF Next, vars, go_to_nowhere, Arrive, Stop

\* An object that walks moves most along the way it is shown, and never against
\* it, up to the pixel that truncation takes or gives.
THEOREM WalksAsShown == Spec => MovesAsShown
<1> DEFINE AsShown ==
      \A stride \in Strides :
        /\ do_step(stride)
        /\ ~(leg'[1] = 0 /\ leg'[2] >= 0) /\ ~(leg'[1] <= 0 /\ leg'[2] = 0)
        => LET way == actual_'[2]
               moved == [a \in Axes |-> pos'[a] - pos[a]]
           IN  /\ moved[AxisOf(way)] * SignOf(way) >= 0
               /\ AbsOf(moved[AxisOf(way)]) + 1 >= AbsOf(moved[3 - AxisOf(way)])
<1>1. ASSUME Placed PROVE AsShown
  <2> SUFFICES ASSUME NEW stride \in Strides, do_step(stride),
                      ~(leg'[1] = 0 /\ leg'[2] >= 0), ~(leg'[1] <= 0 /\ leg'[2] = 0)
               PROVE  LET way == actual_'[2]
                          moved == [a \in Axes |-> pos'[a] - pos[a]]
                      IN  /\ moved[AxisOf(way)] * SignOf(way) >= 0
                          /\ AbsOf(moved[AxisOf(way)]) + 1 >= AbsOf(moved[3 - AxisOf(way)])
    OBVIOUS
  <2> DEFINE l == leg'
             way == Facing(l)
             a == AxisOf(way)
             b == 3 - a
             moved == [x \in Axes |-> pos'[x] - pos[x]]
  <2>1. stride \in Nat /\ l \in Int \X Int /\ actual_'[2] = way
    BY <1>1, StepLeg
  <2>2. PICK w : Move(stride, l, w)
    BY <1>1, StepLeg
  <2>3. /\ a \in Axes /\ SignOf(way) \in {-1, 1} /\ l[a] * SignOf(way) > 0
        /\ AbsOf(l[b]) <= AbsOf(l[a])
    BY <2>1, FacesLonger
  <2>4. b \in Axes
    BY <2>3 DEF Axes
  <2>5. /\ l[a] \in Int /\ l[b] \in Int
        /\ l[a] * l[a] <= Square(l) /\ l[b] * l[b] <= l[a] * l[a]
    BY <2>1, <2>3, <2>4, SquareType, SquareMonotonic DEF Axes
  <2>6. Square(l) # 0
    <3>1. l[a] # 0
      BY <2>3
    <3>2. \A d \in Int : d # 0 => d * d > 0
      OBVIOUS
    <3> QED
      BY <2>1, <2>5, <3>1, <3>2, SquareType
  <2>7. pos' = <<Moved(pos[1], stride, l[1], l), Moved(pos[2], stride, l[2], l)>>
    BY <2>2, <2>6 DEF Move
  <2>8. \A x \in Axes : pos[x] \in Int /\ moved[x] = Moved(pos[x], stride, l[x], l) - pos[x]
    BY <1>1, <2>7 DEF Axes, Placed
  <2>9. moved[a] * SignOf(way) >= 0 /\ AbsOf(moved[a]) + 1 >= AbsOf(moved[b])
    <3>1. /\ pos[a] \in Int /\ moved[a] = Moved(pos[a], stride, l[a], l) - pos[a]
          /\ pos[b] \in Int /\ moved[b] = Moved(pos[b], stride, l[b], l) - pos[b]
      BY <2>3, <2>4, <2>8
    <3> HIDE DEF moved, a, b, way, l
    <3>2. /\ (Moved(pos[a], stride, l[a], l) - pos[a]) * SignOf(way) >= 0
          /\ AbsOf(Moved(pos[a], stride, l[a], l) - pos[a]) + 1
               >= AbsOf(Moved(pos[b], stride, l[b], l) - pos[b])
      BY <2>1, <2>3, <2>5, <2>6, <3>1, MovesMost
    <3> QED
      BY <3>1, <3>2
  <2> QED
    BY <2>1, <2>9
<1>2. Placed => [AsShown]_vars
  BY <1>1
<1>3. Spec => []Placed
  BY InitPlaced, NextPlaced, PTL DEF Spec
<1> QED
  BY <1>2, <1>3, PTL DEF MovesAsShown

-----------------------------------------------------------------------------
(* The drift of a walk.  The sum of what a leg should move an object in i  *)
(* steps is a root; it is bounded by comparing squares.                    *)

\* Of two squares of natural numbers the larger is of the larger number.
LEMMA SquareOrder ==
  ASSUME NEW a \in Nat, NEW b \in Nat, a * a <= b * b PROVE a <= b
<1>1. ASSUME b < a PROVE FALSE
  <2>1. b * b * 1 < a * a * 1
    BY <1>1, SquareStrict
  <2> QED
    BY <2>1
<1> QED
  BY <1>1

\* Quotients by the root of K add up: if a and b are no larger than A and B over that
\* root, their sum is no larger than the sum.
LEMMA RootSum ==
  ASSUME NEW a \in Nat, NEW b \in Nat, NEW A \in Nat, NEW B \in Nat, NEW K \in Nat,
         a * a * K <= A * A, b * b * K <= B * B
  PROVE  (a + b) * (a + b) * K <= (A + B) * (A + B)
<1>1. (a * b * K) * (a * b * K) <= (A * B) * (A * B)
  <2>1. (a * a * K) * (b * b * K) <= (A * A) * (B * B)
    <3>1. a * a * K \in Nat /\ b * b * K \in Nat /\ A * A \in Nat /\ B * B \in Nat
      OBVIOUS
    <3> QED
      BY <3>1, ProductMonotonic
  <2>2. (a * a * K) * (b * b * K) = (a * b * K) * (a * b * K)
    OBVIOUS
  <2>3. (A * A) * (B * B) = (A * B) * (A * B)
    OBVIOUS
  <2> QED
    BY <2>1, <2>2, <2>3
<1>2. a * b * K <= A * B
  <2>1. a * b * K \in Nat /\ A * B \in Nat
    OBVIOUS
  <2> QED
    BY <1>1, <2>1, SquareOrder
<1>3. (a + b) * (a + b) * K = a * a * K + b * b * K + 2 * (a * b * K)
  OBVIOUS
<1>4. (A + B) * (A + B) = A * A + B * B + 2 * (A * B)
  OBVIOUS
<1>5. /\ a * a * K \in Nat /\ b * b * K \in Nat /\ a * b * K \in Nat
      /\ A * A \in Nat /\ B * B \in Nat /\ A * B \in Nat
  OBVIOUS
<1>6. \A p, q, r, u, v, t \in Nat : p <= u /\ q <= v /\ r <= t => p + q + 2 * r <= u + v + 2 * t
  OBVIOUS
<1>7. a * a * K + b * b * K + 2 * (a * b * K) <= A * A + B * B + 2 * (A * B)
  BY <1>2, <1>5, <1>6
<1> QED
  BY <1>3, <1>4, <1>7

\* And the other way around.
LEMMA RootSumOver ==
  ASSUME NEW a \in Nat, NEW b \in Nat, NEW A \in Nat, NEW B \in Nat, NEW K \in Nat,
         A * A <= a * a * K, B * B <= b * b * K
  PROVE  (A + B) * (A + B) <= (a + b) * (a + b) * K
<1>1. (A * B) * (A * B) <= (a * b * K) * (a * b * K)
  <2>1. (A * A) * (B * B) <= (a * a * K) * (b * b * K)
    <3>1. a * a * K \in Nat /\ b * b * K \in Nat /\ A * A \in Nat /\ B * B \in Nat
      OBVIOUS
    <3> QED
      BY <3>1, ProductMonotonic
  <2>2. (a * a * K) * (b * b * K) = (a * b * K) * (a * b * K)
    OBVIOUS
  <2>3. (A * A) * (B * B) = (A * B) * (A * B)
    OBVIOUS
  <2> QED
    BY <2>1, <2>2, <2>3
<1>2. A * B <= a * b * K
  <2>1. a * b * K \in Nat /\ A * B \in Nat
    OBVIOUS
  <2> QED
    BY <1>1, <2>1, SquareOrder
<1>3. (a + b) * (a + b) * K = a * a * K + b * b * K + 2 * (a * b * K)
  OBVIOUS
<1>4. (A + B) * (A + B) = A * A + B * B + 2 * (A * B)
  OBVIOUS
<1>5. /\ a * a * K \in Nat /\ b * b * K \in Nat /\ a * b * K \in Nat
      /\ A * A \in Nat /\ B * B \in Nat /\ A * B \in Nat
  OBVIOUS
<1>6. \A p, q, r, u, v, t \in Nat : p <= u /\ q <= v /\ r <= t => p + q + 2 * r <= u + v + 2 * t
  OBVIOUS
<1>7. A * A + B * B + 2 * (A * B) <= a * a * K + b * b * K + 2 * (a * b * K)
  BY <1>2, <1>5, <1>6
<1> QED
  BY <1>3, <1>4, <1>7

\* Moving D in i steps that took W from distance_, along a component d of a leg with
\* the square K, is within i pixels of what is due.
Moving(D, d, K, W, i) ==
  \E x, y \in Nat : /\ D - i <= x /\ x * x * K <= (W * d) * (W * d)
                    /\ y <= D + i /\ (W * d) * (W * d) <= y * y * K

\* A step adds a pixel to that at most.
LEMMA StepMoves ==
  ASSUME NEW D \in Int, NEW d \in Nat, NEW K \in Nat, NEW W \in Nat, NEW i \in Nat,
         Moving(D, d, K, W, i), NEW s \in Nat, NEW m \in Nat, NEW by \in {m, m + 1},
         m * m * K <= s * s * d * d, (m + 1) * (m + 1) * K > s * s * d * d
  PROVE  Moving(D + by, d, K, W + s, i + 1)
<1> SUFFICES \E v, z \in Nat :
               /\ (D + by) - (i + 1) <= v /\ v * v * K <= ((W + s) * d) * ((W + s) * d)
               /\ z <= (D + by) + (i + 1) /\ ((W + s) * d) * ((W + s) * d) <= z * z * K
  BY DEF Moving
<1>1. PICK x \in Nat, y \in Nat : /\ D - i <= x /\ x * x * K <= (W * d) * (W * d)
                                  /\ y <= D + i /\ (W * d) * (W * d) <= y * y * K
  BY DEF Moving
<1>2. W * d \in Nat /\ s * d \in Nat /\ (s * d) * (s * d) = s * s * d * d /\ m + 1 \in Nat
      /\ (m + 1) * (m + 1) * K \in Nat /\ s * s * d * d \in Nat
  OBVIOUS
<1>3. (x + m) * (x + m) * K <= (W * d + s * d) * (W * d + s * d)
  BY <1>1, <1>2, RootSum
<1>4. (W * d + s * d) * (W * d + s * d) <= (y + (m + 1)) * (y + (m + 1)) * K
  <2>1. (s * d) * (s * d) <= (m + 1) * (m + 1) * K
    BY <1>2
  <2> QED
    BY <1>1, <1>2, <2>1, RootSumOver
<1>5. W * d + s * d = (W + s) * d
  OBVIOUS
<1>6. /\ x + m \in Nat /\ y + (m + 1) \in Nat
      /\ (D + by) - (i + 1) <= x + m /\ y + (m + 1) <= (D + by) + (i + 1)
  BY <1>1
<1>7. /\ (x + m) * (x + m) * K <= ((W + s) * d) * ((W + s) * d)
      /\ ((W + s) * d) * ((W + s) * d) <= (y + (m + 1)) * (y + (m + 1)) * K
  BY <1>3, <1>4, <1>5
<1> WITNESS x + m \in Nat, y + (m + 1) \in Nat
<1> QED
  BY <1>6, <1>7

\* At the end of a leg the object has moved the leg, up to these pixels and the part
\* of the last stride beyond the end.
LEMMA LegEnds ==
  ASSUME NEW D \in Int, NEW d \in Nat, NEW Q \in Nat \ {0}, NEW U \in Nat \ {0}, d * d <= Q,
         NEW W \in Nat, NEW i \in Nat, Moving(D, d, Q * U * U, W, i), W * W >= Q * U * U,
         NEW w \in Nat, w * w < Q * U * U, NEW fast \in Nat, W <= w + fast,
         NEW o \in Nat, fast <= o * U
  PROVE  d - D <= i /\ D - d <= i + o
<1> DEFINE K == Q * U * U
<1>1. PICK x \in Nat, y \in Nat : /\ D - i <= x /\ x * x * K <= (W * d) * (W * d)
                                  /\ y <= D + i /\ (W * d) * (W * d) <= y * y * K
  BY DEF Moving
<1>2. K \in Nat \ {0}
  <2>1. Q * U \in Nat \ {0}
    OBVIOUS
  <2> QED
    BY <2>1
<1>3. \A a, b \in Nat : a * a * K <= b * b * K => a <= b
  <2> SUFFICES ASSUME NEW a \in Nat, NEW b \in Nat, a * a * K <= b * b * K, b < a PROVE FALSE
    OBVIOUS
  <2> HIDE DEF K
  <2>1. b * b * K < a * a * K
    BY <1>2, SquareStrict
  <2>2. b * b * K \in Nat /\ a * a * K \in Nat
    BY <1>2
  <2> QED
    BY <2>1, <2>2
<1>4. d <= y
  <2>1. d * d * K <= (W * d) * (W * d)
    <3> HIDE DEF K
    <3>1. K * (d * d) <= (W * W) * (d * d)
      <4>1. K <= W * W /\ W * W \in Nat /\ d * d \in Nat /\ K \in Nat
        BY <1>2 DEF K
      <4> QED
        BY <4>1, ProductMonotonic
    <3>2. K * (d * d) = d * d * K /\ (W * W) * (d * d) = (W * d) * (W * d)
      BY <1>2
    <3> QED
      BY <3>1, <3>2
  <2>2. d * d * K \in Nat /\ (W * d) * (W * d) \in Nat /\ y * y * K \in Nat
    BY <1>2
  <2>3. d * d * K <= y * y * K
    BY <1>1, <2>1, <2>2
  <2> QED
    BY <1>3, <2>3
<1>5. x <= d + o
  <2> DEFINE V == w + o * U
  <2>1. V \in Nat /\ W <= V /\ o * U \in Nat
    OBVIOUS
  <2>2. (w * d) * (w * d) <= d * d * K
    <3> HIDE DEF K
    <3>1. (w * w) * (d * d) <= K * (d * d)
      <4>1. w * w <= K /\ w * w \in Nat /\ d * d \in Nat /\ K \in Nat
        BY <1>2 DEF K
      <4> QED
        BY <4>1, ProductMonotonic
    <3>2. K * (d * d) = d * d * K /\ (w * w) * (d * d) = (w * d) * (w * d)
      BY <1>2
    <3> QED
      BY <3>1, <3>2
  <2>3. (o * U * d) * (o * U * d) <= o * o * K
    <3>1. (o * U * (o * U)) * (d * d) <= (o * U * (o * U)) * Q
      <4>1. o * U * (o * U) \in Nat /\ d * d \in Nat
        OBVIOUS
      <4> QED
        BY <4>1, ProductMonotonic
    <3>2. (o * U * (o * U)) * (d * d) = (o * U * d) * (o * U * d)
      OBVIOUS
    <3>3. (o * U * (o * U)) * Q = o * o * K
      OBVIOUS
    <3> QED
      BY <3>1, <3>2, <3>3
  <2>4. w * d \in Nat /\ o * U * d \in Nat
    OBVIOUS
  <2>5. (w * d + o * U * d) * (w * d + o * U * d) <= (d + o) * (d + o) * K
    <3> HIDE DEF K
    <3> QED
      BY <1>2, <2>2, <2>3, <2>4, RootSumOver
  <2>6. w * d + o * U * d = V * d
    OBVIOUS
  <2> HIDE DEF V, K
  <2>7. (W * d) * (W * d) <= (V * d) * (V * d)
    <3>1. W * d <= V * d /\ W * d \in Nat /\ V * d \in Nat
      BY <2>1, ProductMonotonic
    <3> QED
      BY <3>1, ProductMonotonic
  <2>8. /\ x * x * K \in Nat /\ (W * d) * (W * d) \in Nat /\ (V * d) * (V * d) \in Nat
        /\ (d + o) * (d + o) * K \in Nat /\ d + o \in Nat
    BY <1>2, <2>1
  <2>9. x * x * K <= (d + o) * (d + o) * K
    BY <1>1, <2>5, <2>6, <2>7, <2>8
  <2> QED
    BY <1>3, <2>8, <2>9
<1> QED
  BY <1>1, <1>4, <1>5

-----------------------------------------------------------------------------
(* Where a leg leads.                                                      *)

\* The next tile of a path is a neighbour.
Beside(t, u) == t # u /\ \A a \in Axes : AbsOf(t[a] - u[a]) <= 1

\* Walks begin within a tile and go from one to a neighbour.
StepsOnly == /\ \A way \in Paths : \A i \in 1 .. Len(way) - 1 : Beside(way[i], way[i + 1])
             /\ \A offset \in Offsets : offset[1] < TileWidth /\ offset[2] < TileWidth

\* The base is no further than E from the middle of a tile, on either axis.
Near(tile, E) == \A a \in Axes : AbsOf(base[a] - Centre(tile)[a]) <= E

\* A leg that begins no further than B from the middle of a tile takes no more than
\* this many steps of at least the stride slow, and none of them more than fast, so
\* that it ends no further than E from the middle of the next.
Bounded(E, B, slow, fast, steps) ==
  /\ E \in Nat /\ B \in Nat /\ slow \in Nat /\ fast \in Nat /\ steps \in Nat
  /\ \A stride \in Strides : slow <= stride /\ stride <= fast
  /\ 2 * ((TileWidth + B) * Unit) * ((TileWidth + B) * Unit) <= (steps * slow) * (steps * slow)
  /\ steps <= E /\ fast <= (E - steps) * Unit
  /\ E <= B /\ B < TileWidth /\ TileWidth <= 2 * B

\* Legs end no further than E pixels from the middle of their tile.  BatsStayNear
\* says so of strides the game has.
DriftIsWithin(E) ==
  StepsOnly /\ \E B, slow, fast, steps \in Nat : Bounded(E, B, slow, fast, steps)

\* The middle of a tile is a place.
LEMMA CentreType ==
  ASSUME NEW tile \in Int \X Int, NEW a \in Axes
  PROVE  /\ Centre(tile)[a] \in Int /\ Centre(tile)[a] = tile[a] * TileWidth + TileWidth \div 2
         /\ tile[a] \in Int
BY WalkingAssumption DEF Centre, Axes

\* The leg to a tile leads from the base to its middle.
LEMMA LegToIs ==
  ASSUME pos \in Int \X Int, NEW tile \in Int \X Int, NEW a \in Axes
  PROVE  base[a] \in Int /\ LegTo(tile)[a] = Centre(tile)[a] - base[a]
BY WalkingAssumption DEF LegTo, Centre, base, Axes

\* From near a tile the leg to its neighbour has a length, and is not too long.
LEMMA NextLeg ==
  ASSUME pos \in Int \X Int, NEW tile \in Int \X Int, NEW next \in Int \X Int,
         Beside(tile, next), NEW B \in Nat, B < TileWidth, Near(tile, B)
  PROVE  /\ Square(LegTo(next)) # 0
         /\ \A a \in Axes : AbsOf(LegTo(next)[a]) <= TileWidth + B
<1> PICK l : l = LegTo(next)
  OBVIOUS
<1>1. l \in Int \X Int /\ TileWidth \in Nat /\ l[1] \in Int /\ l[2] \in Int
  BY LegType, WalkingAssumption
<1>2. ASSUME NEW a \in Axes
      PROVE  AbsOf(l[a]) <= TileWidth + B /\ (tile[a] # next[a] => l[a] # 0)
  <2> PICK c : c = base[a] - Centre(tile)[a]
    OBVIOUS
  <2> PICK h : h = TileWidth \div 2
    OBVIOUS
  <2>1. /\ base[a] \in Int /\ tile[a] \in Int /\ next[a] \in Int /\ h \in Int
        /\ Centre(tile)[a] = tile[a] * TileWidth + h
        /\ l[a] = next[a] * TileWidth + h - base[a]
    BY CentreType, LegToIs, WalkingAssumption
  <2>2. PICK e \in Int : e = next[a] - tile[a]
    BY <2>1
  <2>3. e \in {-1, 0, 1} /\ (tile[a] # next[a] => e # 0)
    BY <2>1, <2>2 DEF Beside, AbsOf
  <2>4. next[a] * TileWidth = tile[a] * TileWidth + e * TileWidth
    <3>1. next[a] = tile[a] + e
      BY <2>1, <2>2
    <3>2. PICK t \in Int : t = tile[a]
      BY <2>1
    <3>3. (t + e) * TileWidth = t * TileWidth + e * TileWidth
      BY <1>1
    <3> QED
      BY <3>1, <3>2, <3>3
  <2>5. l[a] = e * TileWidth - c /\ c \in Int
    <3>1. tile[a] * TileWidth \in Int /\ e * TileWidth \in Int
      BY <1>1, <2>1
    <3> QED
      BY <2>1, <2>4, <3>1
  <2>6. AbsOf(c) <= B
    BY DEF Near
  <2>7. -B <= c /\ c <= B
    BY <2>5, <2>6 DEF AbsOf
  <2> QED
    BY <1>1, <2>3, <2>5, <2>7 DEF AbsOf
<1>3. l[1] # 0 \/ l[2] # 0
  <2>1. tile[1] # next[1] \/ tile[2] # next[2]
    BY DEF Beside
  <2> QED
    BY <1>2, <2>1 DEF Axes
<1>4. Square(l) # 0
  <2>1. \A p, q \in Int : p # 0 \/ q # 0 => p * p + q * q # 0
    <3> SUFFICES ASSUME NEW p \in Int, NEW q \in Int, p # 0 \/ q # 0 PROVE p * p + q * q # 0
      OBVIOUS
    <3>1. \A z \in Int : z * z >= 0 /\ (z # 0 => z * z > 0) /\ z * z \in Int
      OBVIOUS
    <3>2. p * p >= 0 /\ q * q >= 0 /\ (p * p > 0 \/ q * q > 0) /\ p * p \in Int /\ q * q \in Int
      BY <3>1
    <3> QED
      BY <3>2
  <2> QED
    BY <1>1, <1>3, <2>1 DEF Square
<1> QED
  BY <1>2, <1>4

\* A leg that is no longer than the bound takes no more than the steps.
LEMMA StepsLeft ==
  ASSUME NEW E, NEW B, NEW slow, NEW fast, NEW steps, Bounded(E, B, slow, fast, steps),
         NEW l \in Int \X Int, \A a \in Axes : AbsOf(l[a]) <= TileWidth + B,
         NEW W \in Nat, NEW i \in Nat, i * slow <= W, W * W < Square(l) * Unit * Unit
  PROVE  i + 1 <= steps
<1>1. /\ TileWidth \in Nat /\ Unit \in Nat \ {0} /\ B \in Nat /\ slow \in Nat /\ steps \in Nat
      /\ 2 * ((TileWidth + B) * Unit) * ((TileWidth + B) * Unit) <= (steps * slow) * (steps * slow)
  BY WalkingAssumption DEF Bounded
<1>2. PICK M \in Nat : M = TileWidth + B
  BY <1>1
<1>3. l[1] * l[1] <= M * M /\ l[2] * l[2] <= M * M /\ l[1] \in Int /\ l[2] \in Int
  <2>1. AbsOf(l[1]) <= M /\ AbsOf(l[2]) <= M /\ l[1] \in Int /\ l[2] \in Int
    BY <1>2 DEF Axes
  <2>2. AbsOf(M) = M
    BY DEF AbsOf
  <2> QED
    BY <2>1, <2>2, SquareMonotonic
<1>4. Square(l) <= 2 * M * M /\ Square(l) \in Nat
  <2>1. l[1] * l[1] \in Int /\ l[2] * l[2] \in Int /\ M * M \in Int /\ 2 * M * M = M * M + M * M
    BY <1>3
  <2>2. Square(l) = l[1] * l[1] + l[2] * l[2]
    BY DEF Square
  <2> QED
    BY <1>3, <2>1, <2>2, SquareType
<1>5. Square(l) * (Unit * Unit) <= (2 * M * M) * (Unit * Unit)
  <2>1. Unit * Unit \in Nat /\ 2 * M * M \in Nat
    BY <1>1
  <2> QED
    BY <1>4, <2>1, ProductMonotonic
<1>6. /\ Square(l) * (Unit * Unit) = Square(l) * Unit * Unit
      /\ (2 * M * M) * (Unit * Unit) = 2 * (M * Unit) * (M * Unit)
  BY <1>1, <1>4
<1>7. W * W < (steps * slow) * (steps * slow)
  <2>1. 2 * (M * Unit) * (M * Unit) <= (steps * slow) * (steps * slow)
    BY <1>1, <1>2
  <2>2. /\ W * W \in Nat /\ Square(l) * Unit * Unit \in Nat /\ 2 * (M * Unit) * (M * Unit) \in Nat
        /\ (steps * slow) * (steps * slow) \in Nat
    BY <1>1, <1>4
  <2> QED
    BY <1>5, <1>6, <2>1, <2>2
<1>8. W < steps * slow
  <2>1. ASSUME steps * slow <= W PROVE FALSE
    <3>1. (steps * slow) * (steps * slow) <= W * W
      BY <1>1, <2>1, ProductMonotonic
    <3>2. (steps * slow) * (steps * slow) \in Nat /\ W * W \in Nat
      BY <1>1
    <3> QED
      BY <1>7, <3>1, <3>2
  <2>2. steps * slow \in Nat
    BY <1>1
  <2> QED
    BY <2>1, <2>2
<1>9. ASSUME steps <= i PROVE FALSE
  <2>1. steps * slow <= i * slow
    BY <1>1, <1>9, ProductMonotonic
  <2>2. steps * slow \in Nat /\ i * slow \in Nat
    BY <1>1
  <2> QED
    BY <1>8, <2>1, <2>2
<1> QED
  BY <1>1, <1>9

-----------------------------------------------------------------------------
(* The invariant of a walk with a bounded drift.                           *)

\* How far along a component d of a leg to c the object is at b.
Due(b, c, d) == IF d >= 0 THEN b - (c - d) ELSE (c - d) - b

\* The square of the length of a leg, in parts of a pixel.
Length(l) == Square(l) * Unit * Unit

\* At b the object is on its way along leg l to c: W was taken from distance_ in no more
\* than steps strides, of which the last began before the end.
Underway(b, l, c, W, slow, fast, steps) ==
  \E i, w \in Nat :
    /\ i <= steps /\ i * slow <= W /\ W <= w + fast /\ w * w < Length(l)
    /\ \A a \in Axes : Moving(Due(b[a], c[a], l[a]), AbsOf(l[a]), Length(l), W, i)

\* Each step of the path leads to a neighbour; the leg to it is neither empty nor too
\* long, and the object is on its way along it; a walk that has ended has done so near
\* its goal.
DriftInv(E, B, slow, fast, steps) ==
  /\ Placed /\ ~undefined
  /\ \A i \in 1 .. Len(path) - 1 : Beside(path[i], path[i + 1])
  /\ path = <<>> /\ goal # <<>> => Near(goal, E)
  /\ path # <<>> => /\ goal = path[Len(path)]
                    /\ Square(leg) # 0 /\ \A a \in Axes : AbsOf(leg[a]) <= TileWidth + B
                    /\ walked \in Nat
                    /\ Underway(base, leg, Centre(path[1]), walked, slow, fast, steps)

\* Lengths are numbers, and a component of a leg is not longer than the leg.
LEMMA LengthType ==
  ASSUME NEW l \in Int \X Int
  PROVE  /\ Length(l) \in Nat /\ Square(l) \in Nat
         /\ \A a \in Axes : /\ l[a] \in Int /\ l[a] * l[a] <= Square(l)
                            /\ AbsOf(l[a]) \in Nat /\ AbsOf(l[a]) * AbsOf(l[a]) = l[a] * l[a]
<1>1. l[1] \in Int /\ l[2] \in Int /\ Square(l) \in Nat /\ Unit \in Nat
  BY SquareType, WalkingAssumption
<1>2. \A a \in Axes : l[a] \in Int /\ l[a] * l[a] <= Square(l)
  BY <1>1, SquareType DEF Axes
<1>3. \A d \in Int : AbsOf(d) \in Nat /\ AbsOf(d) * AbsOf(d) = d * d
  BY DEF AbsOf
<1>4. Length(l) \in Nat
  BY <1>1 DEF Length
<1> QED
  BY <1>1, <1>2, <1>3, <1>4

\* A stride brings the object along each component by what is due, up to a pixel.
LEMMA AxisMoves ==
  ASSUME NEW b \in Int, NEW c \in Int, NEW p \in Int, NEW stride \in Nat,
         NEW l \in Int \X Int, Square(l) # 0, NEW d \in Int, d * d <= Square(l),
         NEW W \in Nat, NEW i \in Nat, Moving(Due(b, c, d), AbsOf(d), Length(l), W, i)
  PROVE  LET q == Moved(p, stride, d, l)
         IN  /\ q \in Int
             /\ Moving(Due(b + (q - p), c, d), AbsOf(d), Length(l), W + stride, i + 1)
<1> PICK q : q = Moved(p, stride, d, l)
  OBVIOUS
<1> PICK m : m = WholePixels(stride, d, l)
  OBVIOUS
<1> PICK K : K = Length(l)
  OBVIOUS
<1> PICK e : e = AbsOf(d)
  OBVIOUS
<1>1. e \in Nat /\ e * e = d * d
  BY DEF AbsOf
<1>2. /\ m \in Nat /\ K \in Nat
      /\ m * m * K <= stride * stride * d * d /\ (m + 1) * (m + 1) * K > stride * stride * d * d
  BY WholePixelsIs DEF Length
<1>3. stride * stride * d * d = stride * stride * e * e
  <2>1. stride * stride * d * d = stride * stride * (d * d)
    OBVIOUS
  <2>2. stride * stride * e * e = stride * stride * (e * e)
    BY <1>1
  <2> QED
    BY <1>1, <2>1, <2>2
<1>4. q - p \in Int /\ (IF d >= 0 THEN q - p \in {m, m + 1} ELSE q - p \in {-m, -(m + 1)})
  BY MovedBy
<1>5. q \in Int
  BY <1>2 DEF Moved
<1>6. PICK by \in {m, m + 1} : Due(b + (q - p), c, d) = Due(b, c, d) + by
  <2>1. CASE d >= 0
    <3>1. q - p \in {m, m + 1}
      BY <1>4, <2>1
    <3>2. Due(b + (q - p), c, d) = Due(b, c, d) + (q - p)
      BY <1>5, <2>1 DEF Due
    <3> QED
      BY <3>1, <3>2
  <2>2. CASE ~(d >= 0)
    <3>1. -(q - p) \in {m, m + 1}
      BY <1>2, <1>4, <1>5, <2>2
    <3>2. Due(b + (q - p), c, d) = Due(b, c, d) + (-(q - p))
      BY <1>5, <2>2 DEF Due
    <3> QED
      BY <3>1, <3>2
  <2> QED
    BY <2>1, <2>2
<1>7. Due(b, c, d) \in Int
  BY DEF Due
<1>8. Moving(Due(b, c, d) + by, e, K, W + stride, i + 1)
  <2> PICK D \in Int : D = Due(b, c, d)
    BY <1>7
  <2>1. Moving(D, e, K, W, i)
    OBVIOUS
  <2>2. m * m * K <= stride * stride * e * e /\ (m + 1) * (m + 1) * K > stride * stride * e * e
    BY <1>2, <1>3
  <2>3. Moving(D + by, e, K, W + stride, i + 1)
    BY <1>1, <1>2, <2>1, <2>2, StepMoves
  <2> QED
    BY <2>3
<1> QED
  BY <1>5, <1>6, <1>8

\* The leg l to c is neither empty nor too long, and has not ended after i strides that
\* took W from distance_.
OnLeg(l, c, W, i, slow, B) ==
  /\ pos \in Int \X Int /\ c \in Int \X Int /\ l \in Int \X Int /\ W \in Nat /\ i \in Nat
  /\ Square(l) # 0 /\ \A a \in Axes : AbsOf(l[a]) <= TileWidth + B
  /\ i * slow <= W /\ W * W < Length(l)
  /\ \A a \in Axes : Moving(Due(base[a], c[a], l[a]), AbsOf(l[a]), Length(l), W, i)

\* What a step along that leg leaves behind.
Taken(l, c, W, slow, fast, steps) ==
  /\ leg' = l /\ walked' = W /\ W \in Nat /\ undefined' = undefined /\ goal' = goal
  /\ Underway(base', l, c, W, slow, fast, steps)

\* A step along a leg that has not ended.
LEMMA StrideTaken ==
  ASSUME NEW E, NEW B, NEW slow, NEW fast, NEW steps, Bounded(E, B, slow, fast, steps),
         NEW c, NEW l, NEW W, NEW i, OnLeg(l, c, W, i, slow, B),
         NEW stride \in Strides, Move(stride, l, W)
  PROVE  Taken(l, c, W + stride, slow, fast, steps)
<1>0. /\ pos \in Int \X Int /\ c \in Int \X Int /\ l \in Int \X Int /\ W \in Nat /\ i \in Nat
      /\ Square(l) # 0 /\ \A a \in Axes : AbsOf(l[a]) <= TileWidth + B
      /\ i * slow <= W /\ W * W < Length(l)
      /\ \A a \in Axes : Moving(Due(base[a], c[a], l[a]), AbsOf(l[a]), Length(l), W, i)
  BY DEF OnLeg
<1>1. /\ leg' = l /\ walked' = W + stride /\ undefined' = undefined /\ goal' = goal
      /\ pos' = <<Moved(pos[1], stride, l[1], l), Moved(pos[2], stride, l[2], l)>>
  BY <1>0 DEF Move
<1>2. /\ stride \in Nat /\ slow <= stride /\ stride <= fast /\ slow \in Nat /\ fast \in Nat
      /\ steps \in Nat
  BY WalkingAssumption DEF Bounded
<1>3. i + 1 <= steps /\ i + 1 \in Nat
  BY <1>0, StepsLeft DEF Length
<1>4. (i + 1) * slow <= W + stride
  <2>1. (i + 1) * slow = i * slow + slow /\ i * slow \in Nat
    BY <1>0, <1>2
  <2>2. i * slow <= W
    BY <1>0
  <2> QED
    BY <1>0, <1>2, <2>1, <2>2
<1>5. ASSUME NEW a \in Axes
      PROVE  Moving(Due(base'[a], c[a], l[a]), AbsOf(l[a]), Length(l), W + stride, i + 1)
  <2>1. /\ l[a] \in Int /\ l[a] * l[a] <= Square(l) /\ pos[a] \in Int /\ base[a] \in Int
        /\ c[a] \in Int
    BY <1>0, LengthType, WalkingAssumption DEF base, Axes
  <2> PICK q : q = Moved(pos[a], stride, l[a], l)
    OBVIOUS
  <2>2. /\ q \in Int
        /\ Moving(Due(base[a] + (q - pos[a]), c[a], l[a]), AbsOf(l[a]), Length(l), W + stride, i + 1)
    <3>1. Moving(Due(base[a], c[a], l[a]), AbsOf(l[a]), Length(l), W, i)
      BY <1>0
    <3> QED
      BY <1>0, <1>2, <2>1, <3>1, AxisMoves
  <2>3. base'[a] = base[a] + (q - pos[a])
    <3>1. base[a] = pos[a] + Box[a] /\ base'[a] = pos'[a] + Box[a] /\ Box[a] \in Int
      BY WalkingAssumption DEF base, Axes
    <3>2. pos'[a] = q
      BY <1>1 DEF Axes
    <3> QED
      BY <2>1, <2>2, <3>1, <3>2
  <2> QED
    BY <2>2, <2>3
<1>6. W + stride <= W + fast /\ W + stride \in Nat
  BY <1>0, <1>2
<1> QED
  <2>1. \E j, w \in Nat :
          /\ j <= steps /\ j * slow <= W + stride /\ W + stride <= w + fast
          /\ w * w < Length(l)
          /\ \A a \in Axes :
               Moving(Due(base'[a], c[a], l[a]), AbsOf(l[a]), Length(l), W + stride, j)
    <3> i + 1 \in Nat /\ W \in Nat
      BY <1>0, <1>3
    <3> WITNESS i + 1 \in Nat, W \in Nat
    <3> QED
      BY <1>0, <1>3, <1>4, <1>5, <1>6
  <2>2. Underway(base', l, c, W + stride, slow, fast, steps)
    BY <2>1 DEF Underway
  <2> QED
    BY <1>1, <1>6, <2>2 DEF Taken

\* A leg that has just begun.
LEMMA LegBegins ==
  ASSUME NEW b \in Int, NEW c \in Int, NEW d \in Int, d = c - b, NEW K \in Nat
  PROVE  Moving(Due(b, c, d), AbsOf(d), K, 0, 0)
<1>1. Due(b, c, d) = 0
  BY DEF Due
<1>2. AbsOf(d) \in Nat
  BY DEF AbsOf
<1>3. \A e \in Nat : Moving(0, e, K, 0, 0)
  <2> SUFFICES ASSUME NEW e \in Nat
               PROVE  \E x, y \in Nat : /\ 0 - 0 <= x /\ x * x * K <= (0 * e) * (0 * e)
                                        /\ y <= 0 + 0 /\ (0 * e) * (0 * e) <= y * y * K
    BY DEF Moving
  <2> WITNESS 0 \in Nat, 0 \in Nat
  <2> QED
    OBVIOUS
<1> QED
  BY <1>1, <1>2, <1>3

\* Where a leg ends the base is near the middle of its tile.
LEMMA EndsNear ==
  ASSUME NEW E, NEW B, NEW slow, NEW fast, NEW steps, Bounded(E, B, slow, fast, steps),
         DriftInv(E, B, slow, fast, steps), path # <<>>, LegDone
  PROVE  Near(path[1], E)
<1> PICK c : c = Centre(path[1])
  OBVIOUS
<1>1. /\ pos \in Int \X Int /\ leg \in Int \X Int /\ Square(leg) # 0 /\ walked \in Nat
      /\ path \in Seq(Int \X Int) /\ Underway(base, leg, c, walked, slow, fast, steps)
  BY DEF DriftInv, Placed, Shown
<1>2. PICK i \in Nat, w \in Nat :
        /\ i <= steps /\ i * slow <= walked /\ walked <= w + fast /\ w * w < Length(leg)
        /\ \A a \in Axes : Moving(Due(base[a], c[a], leg[a]), AbsOf(leg[a]), Length(leg), walked, i)
  BY <1>1 DEF Underway
<1>3. path[1] \in Int \X Int
  <2>1. 1 \in 1 .. Len(path)
    BY <1>1, EmptySeq, LenProperties
  <2> QED
    BY <1>1, <2>1, ElementOfSeq
<1>4. /\ E \in Nat /\ steps \in Nat /\ steps <= E /\ fast \in Nat /\ fast <= (E - steps) * Unit
      /\ Unit \in Nat \ {0}
  BY WalkingAssumption DEF Bounded
<1>5. PICK o \in Nat : o = E - steps
  BY <1>4
<1>6. ASSUME NEW a \in Axes PROVE AbsOf(base[a] - c[a]) <= E
  <2>1. /\ leg[a] \in Int /\ leg[a] * leg[a] <= Square(leg) /\ AbsOf(leg[a]) \in Nat
        /\ AbsOf(leg[a]) * AbsOf(leg[a]) = leg[a] * leg[a] /\ Square(leg) \in Nat \ {0}
    BY <1>1, LengthType
  <2>2. base[a] \in Int /\ c[a] \in Int
    BY <1>1, <1>3, LegToIs, CentreType
  <2> PICK d : d = AbsOf(leg[a])
    OBVIOUS
  <2> PICK D : D = Due(base[a], c[a], leg[a])
    OBVIOUS
  <2>3. D \in Int
    BY <2>1, <2>2 DEF Due
  <2>4. d - D <= i /\ D - d <= i + o
    <3>1. d \in Nat /\ d * d <= Square(leg) /\ Moving(D, d, Square(leg) * Unit * Unit, walked, i)
      BY <1>2, <2>1 DEF Length
    <3>2. walked * walked >= Square(leg) * Unit * Unit /\ w * w < Square(leg) * Unit * Unit
      BY <1>2 DEF LegDone, Length
    <3>3. fast <= o * Unit
      BY <1>4, <1>5
    <3> QED
      BY <1>1, <1>2, <1>4, <2>1, <2>3, <3>1, <3>2, <3>3, LegEnds
  <2>5. d - D <= E /\ D - d <= E
    BY <1>2, <1>4, <1>5, <2>1, <2>3, <2>4
  <2>6. CASE leg[a] >= 0
    <3>1. d = leg[a] /\ D = base[a] - (c[a] - leg[a])
      BY <2>1, <2>6 DEF AbsOf, Due
    <3>2. base[a] - c[a] = D - d
      BY <2>1, <2>2, <3>1
    <3> QED
      BY <1>4, <2>1, <2>3, <2>5, <3>2 DEF AbsOf
  <2>7. CASE ~(leg[a] >= 0)
    <3>1. d = -leg[a] /\ D = (c[a] - leg[a]) - base[a]
      BY <2>1, <2>7 DEF AbsOf, Due
    <3>2. base[a] - c[a] = d - D
      BY <2>1, <2>2, <3>1
    <3> QED
      BY <1>4, <2>1, <2>3, <2>5, <3>2 DEF AbsOf
  <2> QED
    BY <2>6, <2>7
<1> QED
  BY <1>6 DEF Near

\* The rest of a path leads from neighbour to neighbour to the same goal.
LEMMA RestSteps ==
  ASSUME NEW way \in Seq(Int \X Int), Len(way) > 1,
         \A i \in 1 .. Len(way) - 1 : Beside(way[i], way[i + 1])
  PROVE  /\ \A i \in 1 .. Len(Tail(way)) - 1 : Beside(Tail(way)[i], Tail(way)[i + 1])
         /\ way[Len(way)] = Tail(way)[Len(Tail(way))]
         /\ Tail(way)[1] = way[2] /\ Beside(way[1], way[2])
         /\ way[1] \in Int \X Int /\ way[2] \in Int \X Int
<1> DEFINE L == Len(way)
           rest == Tail(way)
<1>1. L \in Nat /\ L > 1 /\ way # <<>> /\ DOMAIN way = 1 .. L
  BY EmptySeq, LenProperties
<1>2. rest \in Seq(Int \X Int) /\ Len(rest) = L - 1 /\ \A i \in 1 .. L - 1 : rest[i] = way[i + 1]
  <2> DEFINE Tiles == Int \X Int
  <2> HIDE DEF Tiles
  <2>1. way \in Seq(Tiles)
    BY DEF Tiles
  <2> QED
    BY <1>1, <2>1, HeadTailProperties DEF Tiles
<1>3. \A i \in 1 .. L : way[i] \in Int \X Int
  BY <1>1, ElementOfSeq
<1> HIDE DEF L, rest
<1>4. \A i \in 1 .. L - 1 - 1 : i \in 1 .. L - 1 /\ i + 1 \in 1 .. L - 1
  BY <1>1
<1>5. 1 \in 1 .. L - 1 /\ 1 \in 1 .. L /\ 2 \in 1 .. L /\ L - 1 \in 1 .. L - 1 /\ L - 1 + 1 = L /\ 1 + 1 = 2
  BY <1>1
<1>6. \A i \in 1 .. L - 1 : Beside(way[i], way[i + 1])
  BY DEF L
<1>7. \A i \in 1 .. Len(rest) - 1 : Beside(rest[i], rest[i + 1])
  BY <1>2, <1>4, <1>6
<1>8. way[L] = rest[Len(rest)] /\ rest[1] = way[2]
  BY <1>2, <1>5
<1>9. Beside(way[1], way[2]) /\ way[1] \in Int \X Int /\ way[2] \in Int \X Int
  BY <1>3, <1>5, <1>6
<1> QED
  BY <1>7, <1>8, <1>9 DEF L, rest

\* A leg with a length has a length in parts of a pixel.
LEMMA LengthPositive == ASSUME NEW l \in Int \X Int, Square(l) # 0 PROVE 0 * 0 < Length(l)
<1>1. Square(l) \in Nat \ {0} /\ Unit \in Nat \ {0}
  BY SquareType, WalkingAssumption
<1>2. \A a, b \in Nat \ {0} : a * b * b > 0
  OBVIOUS
<1> QED
  BY <1>1, <1>2 DEF Length

\* A walk begins on its way.
LEMMA InitDrift ==
  ASSUME NEW E, NEW B, NEW slow, NEW fast, NEW steps, Bounded(E, B, slow, fast, steps),
         StepsOnly, Init
  PROVE  DriftInv(E, B, slow, fast, steps)
<1>1. PICK way \in Paths, offset \in Offsets :
        /\ pos = << way[1][1] * TileWidth + offset[1] - Box[1],
                    way[1][2] * TileWidth + offset[2] - Box[2] >>
        /\ path = Tail(way) /\ goal = way[Len(way)]
        /\ leg = << Centre(way[2])[1] - way[1][1] * TileWidth - offset[1],
                    Centre(way[2])[2] - way[1][2] * TileWidth - offset[2] >>
  BY DEF Init
<1>2. Placed /\ ~undefined /\ walked = 0
  BY InitPlaced DEF Init
<1>3. /\ way \in Seq(Int \X Int) /\ Len(way) > 1
      /\ \A i \in 1 .. Len(way) - 1 : Beside(way[i], way[i + 1])
  BY PathsAssumption DEF StepsOnly
<1>4. /\ \A i \in 1 .. Len(path) - 1 : Beside(path[i], path[i + 1])
      /\ goal = path[Len(path)] /\ path[1] = way[2] /\ Beside(way[1], way[2])
      /\ way[1] \in Int \X Int /\ way[2] \in Int \X Int
  BY <1>1, <1>3, RestSteps
<1>5. path # <<>>
  BY <1>1, <1>3, RestOfPath
<1>6. /\ TileWidth \in Nat \ {0} /\ Box \in Int \X Int /\ offset \in Nat \X Nat
      /\ offset[1] < TileWidth /\ offset[2] < TileWidth
      /\ B \in Nat /\ B < TileWidth /\ TileWidth <= 2 * B
      /\ slow \in Nat /\ fast \in Nat /\ steps \in Nat
  BY WalkingAssumption DEF StepsOnly, Bounded
<1>7. pos \in Int \X Int /\ leg \in Int \X Int
  BY <1>2 DEF Placed
<1>8. ASSUME NEW a \in Axes
      PROVE  /\ base[a] = way[1][a] * TileWidth + offset[a]
             /\ AbsOf(base[a] - Centre(way[1])[a]) <= B
             /\ leg[a] = Centre(way[2])[a] - base[a]
  <2>1. /\ Centre(way[1])[a] = way[1][a] * TileWidth + TileWidth \div 2
        /\ way[1][a] \in Int /\ Centre(way[2])[a] \in Int
        /\ base[a] = pos[a] + Box[a] /\ Box[a] \in Int /\ base[a] \in Int
        /\ offset[a] \in Nat /\ offset[a] < TileWidth
        /\ pos[a] = way[1][a] * TileWidth + offset[a] - Box[a]
        /\ leg[a] = Centre(way[2])[a] - way[1][a] * TileWidth - offset[a]
    <3>1. /\ Centre(way[1])[a] = way[1][a] * TileWidth + TileWidth \div 2
          /\ way[1][a] \in Int /\ Centre(way[2])[a] \in Int
      BY <1>4, CentreType
    <3>2. base[a] \in Int
      BY <1>4, <1>7, LegToIs
    <3>3. base[a] = pos[a] + Box[a]
      BY DEF base, Axes
    <3>4. Box[a] \in Int /\ offset[a] \in Nat /\ offset[a] < TileWidth
      BY <1>6 DEF Axes
    <3>5. a = 1 \/ a = 2
      BY DEF Axes
    <3>6. /\ pos[a] = way[1][a] * TileWidth + offset[a] - Box[a]
          /\ leg[a] = Centre(way[2])[a] - way[1][a] * TileWidth - offset[a]
      <4> HIDE DEF Axes
      <4>1. CASE a = 1
        BY <1>1, <4>1
      <4>2. CASE a = 2
        BY <1>1, <4>2
      <4> QED
        BY <3>5, <4>1, <4>2
    <3> QED
      BY <3>1, <3>2, <3>3, <3>4, <3>6
  <2> PICK t : t = way[1][a] * TileWidth
    OBVIOUS
  <2> PICK h : h = TileWidth \div 2
    OBVIOUS
  <2>2. t \in Int /\ h \in Int /\ h <= B /\ TileWidth <= h + h + 1 /\ h >= 0
    BY <1>6, <2>1
  <2>3. base[a] = t + offset[a] /\ Centre(way[1])[a] = t + h
    BY <2>1, <2>2
  <2>4. base[a] - Centre(way[1])[a] = offset[a] - h
    BY <2>1, <2>2, <2>3
  <2>5. offset[a] - h <= B /\ h - offset[a] <= B
    BY <1>6, <2>1, <2>2
  <2> QED
    BY <1>6, <2>1, <2>2, <2>3, <2>4, <2>5 DEF AbsOf
<1>9. Near(way[1], B)
  BY <1>8 DEF Near
<1>10. leg = LegTo(way[2])
  <2>1. \A a \in Axes : LegTo(way[2])[a] = leg[a]
    BY <1>4, <1>7, <1>8, LegToIs
  <2>2. LegTo(way[2]) \in Int \X Int
    BY <1>4, <1>7, LegType
  <2>3. leg[1] = LegTo(way[2])[1] /\ leg[2] = LegTo(way[2])[2]
    BY <2>1 DEF Axes
  <2> QED
    BY <1>7, <2>2, <2>3
<1>11. Square(leg) # 0 /\ \A a \in Axes : AbsOf(leg[a]) <= TileWidth + B
  BY <1>4, <1>6, <1>7, <1>9, <1>10, NextLeg
<1>12. Underway(base, leg, Centre(path[1]), walked, slow, fast, steps)
  <2>1. \A a \in Axes :
          Moving(Due(base[a], Centre(path[1])[a], leg[a]), AbsOf(leg[a]), Length(leg), 0, 0)
    BY <1>4, <1>7, <1>8, CentreType, LegToIs, LengthType, LegBegins
  <2>2. 0 * 0 < Length(leg) /\ 0 * slow = 0
    BY <1>6, <1>7, <1>11, LengthPositive
  <2>3. \E i, w \in Nat :
          /\ i <= steps /\ i * slow <= walked /\ walked <= w + fast /\ w * w < Length(leg)
          /\ \A a \in Axes :
               Moving(Due(base[a], Centre(path[1])[a], leg[a]), AbsOf(leg[a]), Length(leg), walked, i)
    <3> WITNESS 0 \in Nat, 0 \in Nat
    <3> QED
      BY <1>2, <1>6, <2>1, <2>2
  <2> QED
    BY <2>3 DEF Underway
<1> QED
  BY <1>2, <1>4, <1>5, <1>11, <1>12 DEF DriftInv

\* A stride along a leg to the first tile of the path keeps the walk on its way.
LEMMA StillOnWay ==
  ASSUME NEW E, NEW B, NEW slow, NEW fast, NEW steps, Bounded(E, B, slow, fast, steps),
         DriftInv(E, B, slow, fast, steps), Placed', path' # <<>>,
         \A i \in 1 .. Len(path') - 1 : Beside(path'[i], path'[i + 1]),
         goal = path'[Len(path')],
         NEW c, NEW l, NEW W, NEW V, NEW i, c = Centre(path'[1]), OnLeg(l, c, W, i, slow, B),
         Taken(l, c, V, slow, fast, steps)
  PROVE  DriftInv(E, B, slow, fast, steps)'
<1>1. /\ leg' = l /\ walked' = V /\ V \in Nat /\ undefined' = undefined /\ goal' = goal
      /\ Underway(base', l, c, V, slow, fast, steps)
  BY DEF Taken
<1>2. Underway(base', leg', Centre(path'[1]), walked', slow, fast, steps)
  BY <1>1
<1>3. Square(leg') # 0 /\ \A a \in Axes : AbsOf(leg'[a]) <= TileWidth + B
  BY <1>1 DEF OnLeg
<1>4. ~undefined
  BY DEF DriftInv
<1> QED
  BY <1>1, <1>2, <1>3, <1>4 DEF DriftInv

\* A step to the next tile of the path begins near the last one.
LEMMA NextTileDrift ==
  ASSUME NEW E, NEW B, NEW slow, NEW fast, NEW steps, Bounded(E, B, slow, fast, steps),
         DriftInv(E, B, slow, fast, steps), NEW stride \in Strides, NextTile(stride), Placed'
  PROVE  DriftInv(E, B, slow, fast, steps)'
<1>1. /\ path # <<>> /\ LegDone /\ Len(path) > 1 /\ ~undefined /\ path' = Tail(path)
      /\ Move(stride, LegTo(path[2]), 0)
  BY DEF NextTile
<1>2. /\ pos \in Int \X Int /\ path \in Seq(Int \X Int) /\ goal = path[Len(path)]
      /\ \A i \in 1 .. Len(path) - 1 : Beside(path[i], path[i + 1])
  BY <1>1 DEF DriftInv, Placed, Shown
<1>3. /\ \A i \in 1 .. Len(path') - 1 : Beside(path'[i], path'[i + 1])
      /\ goal = path'[Len(path')] /\ path'[1] = path[2] /\ Beside(path[1], path[2])
      /\ path[1] \in Int \X Int /\ path[2] \in Int \X Int
  BY <1>1, <1>2, RestSteps
<1>4. path' # <<>>
  BY <1>1, <1>2, RestOfPath
<1>5. Near(path[1], E)
  BY <1>1, EndsNear
<1> PICK l : l = LegTo(path[2])
  OBVIOUS
<1> PICK c : c = Centre(path[2])
  OBVIOUS
<1>6. /\ E \in Nat /\ B \in Nat /\ E <= B /\ B < TileWidth /\ slow \in Nat /\ steps \in Nat
      /\ TileWidth \in Nat
  BY WalkingAssumption DEF Bounded
<1>7. Near(path[1], B)
  <2> SUFFICES ASSUME NEW a \in Axes PROVE AbsOf(base[a] - Centre(path[1])[a]) <= B
    BY DEF Near
  <2>1. base[a] \in Int /\ Centre(path[1])[a] \in Int
    BY <1>2, <1>3, LegToIs, CentreType
  <2>2. AbsOf(base[a] - Centre(path[1])[a]) <= E /\ AbsOf(base[a] - Centre(path[1])[a]) \in Int
    BY <1>5, <2>1 DEF Near, AbsOf
  <2> QED
    BY <1>6, <2>2
<1>8. /\ l \in Int \X Int /\ c \in Int \X Int
      /\ Square(l) # 0 /\ \A a \in Axes : AbsOf(l[a]) <= TileWidth + B
  <2>1. Square(l) # 0 /\ \A a \in Axes : AbsOf(l[a]) <= TileWidth + B
    BY <1>2, <1>3, <1>6, <1>7, NextLeg
  <2>2. c \in Int \X Int
    BY <1>3, WalkingAssumption DEF Centre
  <2> QED
    BY <1>2, <1>3, <2>1, <2>2, LegType
<1>9. \A a \in Axes : Moving(Due(base[a], c[a], l[a]), AbsOf(l[a]), Length(l), 0, 0)
  <2> SUFFICES ASSUME NEW a \in Axes
               PROVE  Moving(Due(base[a], c[a], l[a]), AbsOf(l[a]), Length(l), 0, 0)
    OBVIOUS
  <2>1. base[a] \in Int /\ c[a] \in Int /\ l[a] \in Int /\ l[a] = c[a] - base[a] /\ Length(l) \in Nat
    BY <1>2, <1>3, <1>8, LegToIs, CentreType, LengthType
  <2> QED
    BY <2>1, LegBegins
<1>10. OnLeg(l, c, 0, 0, slow, B)
  BY <1>2, <1>6, <1>8, <1>9, LengthPositive DEF OnLeg
<1>11. Taken(l, c, 0 + stride, slow, fast, steps)
  BY <1>1, <1>10, StrideTaken
<1>12. path'[1] = path[2] /\ path' # <<>> /\ c = Centre(path[2])
  BY <1>3, <1>4
<1> QED
  BY <1>1, <1>3, <1>10, <1>11, <1>12, StillOnWay

\* A step on the way to the next tile.
LEMMA WalkDrift ==
  ASSUME NEW E, NEW B, NEW slow, NEW fast, NEW steps, Bounded(E, B, slow, fast, steps),
         DriftInv(E, B, slow, fast, steps), NEW stride \in Strides, Walk(stride), Placed'
  PROVE  DriftInv(E, B, slow, fast, steps)'
<1>1. path # <<>> /\ ~LegDone /\ path' = path /\ Move(stride, leg, walked)
  BY DEF Walk
<1>2. /\ pos \in Int \X Int /\ leg \in Int \X Int /\ path \in Seq(Int \X Int)
      /\ goal = path[Len(path)] /\ Square(leg) # 0 /\ walked \in Nat
      /\ \A a \in Axes : AbsOf(leg[a]) <= TileWidth + B
      /\ \A i \in 1 .. Len(path) - 1 : Beside(path[i], path[i + 1])
      /\ Underway(base, leg, Centre(path[1]), walked, slow, fast, steps)
  BY <1>1 DEF DriftInv, Placed, Shown
<1> PICK c : c = Centre(path[1])
  OBVIOUS
<1>3. c \in Int \X Int
  <2>1. path[1] \in Int \X Int
    <3>1. 1 \in 1 .. Len(path)
      BY <1>1, <1>2, EmptySeq, LenProperties
    <3> QED
      BY <1>2, <3>1, ElementOfSeq
  <2> QED
    BY <2>1, WalkingAssumption DEF Centre
<1>4. PICK i \in Nat, w \in Nat :
        /\ i <= steps /\ i * slow <= walked /\ walked <= w + fast /\ w * w < Length(leg)
        /\ \A a \in Axes : Moving(Due(base[a], c[a], leg[a]), AbsOf(leg[a]), Length(leg), walked, i)
  BY <1>2 DEF Underway
<1>5. walked * walked < Length(leg)
  <2>1. Length(leg) \in Nat /\ walked * walked \in Nat
    BY <1>2, LengthType
  <2>2. ~(walked * walked >= Length(leg))
    BY <1>1 DEF LegDone, Length
  <2> QED
    BY <2>1, <2>2
<1>6. OnLeg(leg, c, walked, i, slow, B)
  BY <1>2, <1>3, <1>4, <1>5 DEF OnLeg
<1>7. Taken(leg, c, walked + stride, slow, fast, steps)
  BY <1>1, <1>6, StrideTaken
<1>8. c = Centre(path'[1]) /\ path' # <<>>
  BY <1>1
<1>9. goal = path'[Len(path')] /\ \A j \in 1 .. Len(path') - 1 : Beside(path'[j], path'[j + 1])
  BY <1>1, <1>2
<1> PICK l : l = leg
  OBVIOUS
<1> PICK W : W = walked
  OBVIOUS
<1>10. OnLeg(l, c, W, i, slow, B) /\ Taken(l, c, W + stride, slow, fast, steps)
  BY <1>6, <1>7
<1> QED
  BY <1>8, <1>9, <1>10, StillOnWay

\* Where it arrives, the object is near its goal.
LEMMA ArriveDrift ==
  ASSUME NEW E, NEW B, NEW slow, NEW fast, NEW steps, Bounded(E, B, slow, fast, steps),
         DriftInv(E, B, slow, fast, steps), Arrive, Placed'
  PROVE  DriftInv(E, B, slow, fast, steps)'
<1>1. /\ path # <<>> /\ LegDone /\ Len(path) = 1 /\ path' = <<>>
      /\ pos' = pos /\ goal' = goal /\ undefined' = undefined
  BY DEF Arrive
<1>2. ~undefined /\ goal = path[1]
  BY <1>1 DEF DriftInv
<1>3. Near(path[1], E)
  BY <1>1, EndsNear
<1>4. Near(goal, E)'
  BY <1>1, <1>2, <1>3 DEF Near, base, Centre
<1>5. \A i \in 1 .. Len(path') - 1 : Beside(path'[i], path'[i + 1])
  BY <1>1
<1> QED
  BY <1>1, <1>2, <1>4, <1>5 DEF DriftInv

\* Every step keeps a walk on its way.
LEMMA NextDrift ==
  ASSUME NEW E, NEW B, NEW slow, NEW fast, NEW steps, Bounded(E, B, slow, fast, steps),
         DriftInv(E, B, slow, fast, steps), [Next]_vars, Placed'
  PROVE  DriftInv(E, B, slow, fast, steps)'
<1>1. CASE Arrive
  BY <1>1, ArriveDrift
<1>2. CASE \E stride \in Strides : do_step(stride)
  BY <1>2, NextTileDrift, WalkDrift DEF do_step
<1>3. CASE go_to_nowhere
  <2>1. /\ path' = <<>> /\ goal' = <<>> /\ undefined' = undefined
        /\ \A i \in 1 .. Len(path') - 1 : Beside(path'[i], path'[i + 1])
    BY <1>3 DEF go_to_nowhere
  <2> QED
    BY <2>1 DEF DriftInv
<1>4. CASE UNCHANGED vars
  <2>1. /\ pos' = pos /\ path' = path /\ goal' = goal /\ leg' = leg /\ walked' = walked
        /\ undefined' = undefined /\ base' = base
    BY <1>4 DEF vars, base
  <2>2. Near(goal, E)' <=> Near(goal, E)
    BY <2>1 DEF Near, base, Centre
  <2>3. path # <<>> => Underway(base', leg', Centre(path'[1]), walked', slow, fast, steps)
    BY <2>1 DEF DriftInv
  <2> QED
    BY <2>1, <2>2, <2>3 DEF DriftInv, Square, AbsOf
<1> QED
  BY <1>1, <1>2, <1>3, <1>4 DEF Next, Stop

\* A walk with a bounded drift keeps its invariant.
LEMMA WalkStaysOnWay ==
  ASSUME NEW E, NEW B, NEW slow, NEW fast, NEW steps, Bounded(E, B, slow, fast, steps), StepsOnly
  PROVE  Spec => []DriftInv(E, B, slow, fast, steps)
<1>1. Init => DriftInv(E, B, slow, fast, steps)
  BY InitDrift
<1>2. /\ DriftInv(E, B, slow, fast, steps) /\ [Next]_vars /\ Placed'
      => DriftInv(E, B, slow, fast, steps)'
  BY NextDrift
<1>3. Spec => []Placed
  BY InitPlaced, NextPlaced, PTL DEF Spec
<1> QED
  BY <1>1, <1>2, <1>3, PTL DEF Spec

\* Where the strides let an object leave the middle of a tile by less than a tile, the
\* leg to the next one is never empty, so that set_direction divides no zero by zero
\* (anim.cpp:23-25).
THEOREM DirectionIsDefined ==
  ASSUME NEW E, DriftIsWithin(E) PROVE Spec => []PositionDefined
<1>1. PICK B \in Nat, slow \in Nat, fast \in Nat, steps \in Nat : Bounded(E, B, slow, fast, steps)
  BY DEF DriftIsWithin
<1>2. StepsOnly
  BY DEF DriftIsWithin
<1>3. Spec => []DriftInv(E, B, slow, fast, steps)
  BY <1>1, <1>2, WalkStaysOnWay
<1>4. DriftInv(E, B, slow, fast, steps) => PositionDefined
  BY DEF DriftInv, PositionDefined
<1> QED
  BY <1>3, <1>4, PTL

\* A walk that ends where it should, of any length, leaves the object no further than
\* its drift from the middle of its goal: the truncated sums of its steps do not add
\* up, as each step is directed from where the last one ended (anim.cpp:17-25,62-118).
THEOREM StopsNearGoal ==
  ASSUME DriftIsWithin(Drift) PROVE Spec => []EndsNearGoal
<1>1. PICK B \in Nat, slow \in Nat, fast \in Nat, steps \in Nat :
        Bounded(Drift, B, slow, fast, steps)
  BY DEF DriftIsWithin
<1>2. StepsOnly
  BY DEF DriftIsWithin
<1>3. Spec => []DriftInv(Drift, B, slow, fast, steps)
  BY <1>1, <1>2, WalkStaysOnWay
<1>4. DriftInv(Drift, B, slow, fast, steps) => EndsNearGoal
  BY DEF DriftInv, Near, EndsNearGoal
<1> QED
  BY <1>3, <1>4, PTL

\* The bats of data/bat.xml on the tiles of data: 4 to 4.4 pixels in a step.
LEMMA BatsStayNear ==
  ASSUME TileWidth = 32, Unit = 10, Strides = {40, 44}, StepsOnly PROVE DriftIsWithin(26)
<1> SUFFICES \E B, slow, fast, steps \in Nat : Bounded(26, B, slow, fast, steps)
  BY DEF DriftIsWithin
<1> WITNESS 26 \in Nat, 40 \in Nat, 44 \in Nat, 21 \in Nat
<1> QED
  BY DEF Bounded
=============================================================================
