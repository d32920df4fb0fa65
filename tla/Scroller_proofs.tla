----------------------------- MODULE Scroller_proofs -----------------------------
(***************************************************************************)
(* For every screen, tile size and movement of the hero: the view never    *)
(* leaves the background, and both layers show the map at the view.        *)
(***************************************************************************)
EXTENDS Scroller, TLAPS

\* On an axis: the view lies in the background.
InRange(a) == view[a] - map_[a] \in 0 .. 2 * tile[a]

\* On an axis: the background is drawn from the offset on and holds the view.
AxisInv(a) == drawn[a] * tile[a] = map_[a] /\ InRange(a)

\* What the properties need to be inductive.
ScrollInv ==
  /\ TypeOK
  /\ Loaded => tile \in TileSizes
  /\ moved => Loaded /\ \A a \in Axes : InRange(a)
  /\ \A a \in Axes : settled[a] => Loaded /\ AxisInv(a)

-----------------------------------------------------------------------------
(* Quotients.                                                              *)

\* The remainder of a natural number is less than the divisor.
LEMMA DivBounds ==
  ASSUME NEW v \in Nat, NEW t \in Nat \ {0}
  PROVE  /\ v \div t \in Nat
         /\ (v \div t) * t <= v
         /\ v < (v \div t) * t + t
OBVIOUS

\* Quotients are integers.
LEMMA QuotientType ==
  ASSUME NEW v \in Int, NEW t \in Nat \ {0} PROVE Quotient(v, t) \in Int
BY DEF Quotient

\* A multiple of a number is divided by it without remainder.
LEMMA QuotientOfMultiple ==
  ASSUME NEW q \in Int, NEW t \in Nat \ {0} PROVE Quotient(q * t, t) = q
<1>1. \A p \in Nat : (p * t) \div t = p
  OBVIOUS
<1>2. CASE q >= 0
  BY <1>1, <1>2 DEF Quotient
<1>3. CASE q < 0
  BY <1>1, <1>3 DEF Quotient
<1> QED
  BY <1>2, <1>3

\* The offset for a view leaves at most two tiles in front of the view.
LEMMA OffsetBounds ==
  ASSUME NEW v \in Nat, NEW t \in Nat \ {0}
  PROVE  v - Quotient(v - t, t) * t \in 0 .. 2 * t
<1>1. CASE v >= t
  BY <1>1, DivBounds DEF Quotient
<1>2. CASE v < t
  BY <1>2, DivBounds DEF Quotient
<1> QED
  BY <1>1, <1>2

-----------------------------------------------------------------------------
\* Nothing is drawn yet.
LEMMA InitScrollInv == Init => ScrollInv
<1> SUFFICES ASSUME Init PROVE ScrollInv
  OBVIOUS
<1>1. moved = FALSE /\ loads = 0 /\ settled = [a \in Axes |-> FALSE]
  BY DEF Init
<1>2. ~moved /\ moved \in BOOLEAN /\ settled \in [Axes -> BOOLEAN]
  BY <1>1, Zenon
<1>3. \A a \in Axes : ~settled[a]
  BY <1>1, Zenon
<1>4. TypeOK
  BY <1>1, <1>2, MaxLoadsAssumption DEF Init, TypeOK
<1> QED
  BY <1>1, <1>2, <1>3, <1>4 DEF ScrollInv, Loaded

\* A map is drawn from its corner, which is the offset where that is 0.
LEMMA RefreshInv == ASSUME ScrollInv, refresh PROVE ScrollInv'
<1> USE DEF ScrollInv, Loaded
<1>1. tile' \in TileSizes /\ tile' \in [Axes -> Nat \ {0}]
  BY TileSizesAssumption DEF refresh
<1>2. TypeOK'
  <2>1. moved' \in BOOLEAN
    BY DEF refresh
  <2>2. settled' \in [Axes -> BOOLEAN]
    BY DEF refresh
  <2> QED
    BY <1>1, <2>1, <2>2, MaxLoadsAssumption DEF refresh, TypeOK
<1>3. loads' > 0
  BY <1>2 DEF refresh, TypeOK
<1>4. ASSUME NEW a \in Axes, settled'[a] PROVE AxisInv(a)'
  <2>1. /\ map_'[a] = 0 /\ drawn'[a] = 0 /\ view'[a] = view[a]
        /\ view[a] <= 2 * tile'[a]
    BY <1>4 DEF refresh
  <2>2. tile'[a] \in Nat /\ view[a] \in Nat
    BY <1>1 DEF TypeOK
  <2> QED
    BY <2>1, <2>2 DEF AxisInv, InRange
<1>5. ~moved'
  BY DEF refresh
<1> QED
  BY <1>1, <1>2, <1>3, <1>4, <1>5

\* Where a view may be.
LEMMA ViewType ==
  ASSUME NEW hero \in Heros PROVE ViewOf(hero) \in [Axes -> Nat]
BY HerosAssumption, ScreenAssumption DEF ViewOf

\* Moving the view keeps it in the background, drawn again where needed.
LEMMA MoveInv ==
  ASSUME ScrollInv, NEW hero \in Heros, move(hero)
  PROVE  ScrollInv'
<1> DEFINE v == ViewOf(hero)
           out == {a \in Axes : Leaves(v[a], a)}
<1>1. v \in [Axes -> Nat] /\ view' = v
  BY ViewType DEF move
<1>2. tile \in TileSizes /\ tile \in [Axes -> Nat \ {0}] /\ UNCHANGED <<tile, loads>>
  BY TileSizesAssumption DEF move, ScrollInv, Loaded
<1>3. \A a \in Axes : Offset(v[a], a) \in Int
  BY <1>1, <1>2, QuotientType DEF Offset
<1>4. map_' = [a \in Axes |-> IF a \in out THEN Offset(v[a], a) ELSE map_[a]]
  BY DEF move
<1>5. map_' \in [Axes -> Int]
  BY <1>3, <1>4 DEF ScrollInv, TypeOK
<1>6. drawn' = IF out # {} THEN [a \in Axes |-> Quotient(map_'[a], tile[a])] ELSE drawn
  BY DEF move
<1>7. drawn' \in [Axes -> Int]
  BY <1>2, <1>5, <1>6, QuotientType DEF ScrollInv, TypeOK
<1>8. settled' = [a \in Axes |-> settled[a] \/ a \in out]
  BY DEF move
<1>9. TypeOK'
  <2>1. moved' \in BOOLEAN
    BY DEF move
  <2>2. settled' \in [Axes -> BOOLEAN]
    BY <1>8
  <2> QED
    BY <1>1, <1>2, <1>5, <1>7, <2>1, <2>2 DEF ScrollInv, TypeOK
<1>10. ASSUME NEW a \in Axes PROVE v[a] - map_'[a] \in 0 .. 2 * tile[a]
  <2> DEFINE t == tile[a]
  <2>1. t \in Nat \ {0} /\ v[a] \in Nat /\ map_[a] \in Int
    BY <1>1, <1>2 DEF ScrollInv, TypeOK
  <2>2. CASE a \in out
    <3>1. map_'[a] = Quotient(v[a] - t, t) * t
      BY <1>4, <2>2 DEF Offset
    <3> QED
      BY <2>1, <3>1, OffsetBounds
  <2>3. CASE a \notin out
    <3>1. map_'[a] = map_[a]
      BY <1>4, <2>3
    <3>2. ~Leaves(v[a], a)
      BY <2>3
    <3> QED
      BY <2>1, <3>1, <3>2 DEF Leaves, Abs
  <2> QED
    BY <2>2, <2>3
<1>11. \A a \in Axes : InRange(a)'
  BY <1>1, <1>2, <1>10 DEF InRange
<1>12. ASSUME NEW a \in Axes, settled'[a] PROVE drawn'[a] * tile'[a] = map_'[a]
  <2> DEFINE t == tile[a]
  <2>1. t \in Nat \ {0} /\ v[a] \in Nat /\ drawn[a] \in Int /\ map_[a] \in Int
    BY <1>1, <1>2 DEF ScrollInv, TypeOK
  <2>2. a \notin out => drawn[a] * t = map_[a]
    <3>1. a \notin out => settled[a]
      BY <1>8, <1>12, Zenon
    <3> HIDE DEF out
    <3> QED
      BY <3>1 DEF ScrollInv, AxisInv
  <2>3. CASE a \in out
    <3> DEFINE q == Quotient(v[a] - t, t)
    <3>1. map_'[a] = q * t
      BY <1>4, <2>3 DEF Offset
    <3>2. drawn'[a] = Quotient(map_'[a], t)
      BY <1>6, <2>3
    <3>3. q \in Int
      BY <2>1, QuotientType
    <3>4. Quotient(q * t, t) = q
      BY <2>1, <3>3, QuotientOfMultiple
    <3> QED
      BY <1>2, <3>1, <3>2, <3>4
  <2>4. CASE a \notin out
    <3>1. map_'[a] = map_[a]
      BY <1>4, <2>4
    <3>2. drawn'[a] = drawn[a]
      <4>1. CASE out = {}
        BY <1>6, <4>1
      <4>2. CASE out # {}
        BY <1>6, <2>1, <2>2, <2>4, <3>1, <4>2, QuotientOfMultiple
      <4> QED
        BY <4>1, <4>2
    <3> QED
      BY <1>2, <2>2, <2>4, <3>1, <3>2
  <2> QED
    BY <2>3, <2>4
<1>13. Loaded'
  BY <1>2 DEF move, Loaded
<1>14. tile' \in TileSizes
  BY <1>2
<1>15. \A a \in Axes : settled'[a] => AxisInv(a)'
  BY <1>11, <1>12 DEF AxisInv
<1> QED
  BY <1>9, <1>11, <1>13, <1>14, <1>15 DEF ScrollInv

\* The invariant holds in every state of the scroller.
LEMMA ScrollInvCorrect == Spec => []ScrollInv
<1>1. ScrollInv /\ UNCHANGED vars => ScrollInv'
  BY DEF ScrollInv, TypeOK, Loaded, AxisInv, InRange, vars
<1>2. ScrollInv /\ [Next]_vars => ScrollInv'
  BY <1>1, RefreshInv, MoveInv DEF Next
<1> QED
  BY <1>2, InitScrollInv, PTL DEF Spec

\* The variables have their types: in particular the offset and the tile that
\* drawing starts from are numbers, since no division is by zero.
THEOREM ScrollerTypeOK == Spec => []TypeOK
<1>1. ScrollInv => TypeOK
  BY DEF ScrollInv
<1> QED
  BY <1>1, ScrollInvCorrect, PTL

\* The view lies inside the background, also on an axis that is not drawn anew
\* when another map is loaded, as soon as the view was moved.
THEOREM ViewStaysInBackground == Spec => []ViewInBackground
<1>1. ScrollInv => ViewInBackground
  BY DEF ScrollInv, AxisInv, InRange, ViewInBackground
<1> QED
  BY <1>1, ScrollInvCorrect, PTL

\* What comes out at the edge of the screen is the map at the view.
THEOREM BothLayersShowView == Spec => []ShowsView
<1>1. ScrollInv => ShowsView
  <2> SUFFICES ASSUME ScrollInv, NEW a \in Axes, settled[a]
               PROVE  BackgroundPixel(a) = view[a] /\ ForegroundPixel(a) = view[a]
    BY DEF ShowsView
  <2>1. tile[a] \in Nat \ {0} /\ drawn[a] \in Int /\ view[a] \in Nat /\ map_[a] \in Int
    BY TileSizesAssumption DEF ScrollInv, TypeOK, Loaded
  <2>2. drawn[a] * tile[a] = map_[a] /\ view[a] - map_[a] >= 0
    BY <2>1 DEF ScrollInv, AxisInv, InRange
  <2>3. Quotient(map_[a], tile[a]) = drawn[a]
    BY <2>1, <2>2, QuotientOfMultiple
  <2> QED
    BY <2>1, <2>2, <2>3 DEF BackgroundPixel, ForegroundPixel
<1> QED
  BY <1>1, ScrollInvCorrect, PTL

\* While the view moves by less than a tile, drawing starts on the map.
THEOREM WalkingDrawsMapTiles == Spec => DrawsMapTilesWalking
<1> DEFINE A == \A a \in Axes :
                  /\ UNCHANGED loads /\ settled[a]
                  /\ map_[a] >= 0 /\ Abs(view'[a] - view[a]) < tile[a]
                  => map_'[a] >= 0 /\ drawn'[a] >= 0
<1>1. ScrollInv /\ [Next]_vars => [A]_vars
  <2> SUFFICES ASSUME ScrollInv, NEW hero \in Heros, move(hero),
                      NEW a \in Axes, settled[a], map_[a] >= 0, Abs(view'[a] - view[a]) < tile[a]
               PROVE  map_'[a] >= 0 /\ drawn'[a] >= 0
    BY DEF Next, refresh, ScrollInv, TypeOK
  <2> DEFINE v == ViewOf(hero)
  <2>1. v \in [Axes -> Nat] /\ view' = v
    BY ViewType DEF move
  <2>2. /\ tile[a] \in Nat \ {0} /\ map_[a] \in Int /\ view[a] \in Nat
        /\ v[a] \in Nat /\ drawn[a] \in Int
    BY <2>1, TileSizesAssumption DEF ScrollInv, TypeOK, Loaded
  <2>3. drawn[a] * tile[a] = map_[a] /\ view[a] - map_[a] \in 0 .. 2 * tile[a]
    BY DEF ScrollInv, AxisInv, InRange
  <2>4. map_'[a] = IF Leaves(v[a], a) THEN Offset(v[a], a) ELSE map_[a]
    BY DEF move
  <2>5. map_'[a] >= 0
    <3>1. CASE v[a] >= tile[a]
      BY <2>2, <2>4, <3>1, DivBounds DEF Offset, Quotient
    <3>2. CASE v[a] < tile[a] /\ v[a] > 0
      <4>1. (tile[a] - v[a]) \div tile[a] = 0
        BY <2>2, <3>2
      <4> QED
        BY <2>2, <2>4, <3>2, <4>1 DEF Offset, Quotient
    <3>3. CASE v[a] = 0
      <4>1. view[a] < tile[a]
        BY <2>1, <2>2, <3>3 DEF Abs
      <4>2. map_[a] < tile[a]
        BY <2>2, <2>3, <4>1
      <4>3. map_[a] = 0
        BY <2>2, <2>3, <4>2
      <4> QED
        BY <2>2, <2>4, <3>3, <4>3 DEF Leaves, Abs
    <3> QED
      BY <2>2, <3>1, <3>2, <3>3
  <2>6. AxisInv(a)' /\ UNCHANGED tile /\ drawn'[a] \in Int
    <3>1. ScrollInv'
      BY MoveInv
    <3>2. settled'[a] /\ UNCHANGED tile
      BY DEF move
    <3> QED
      BY <3>1, <3>2 DEF ScrollInv, TypeOK
  <2> QED
    BY <2>2, <2>5, <2>6 DEF AxisInv
<1> QED
  BY <1>1, ScrollInvCorrect, PTL DEF Spec, DrawsMapTilesWalking

\* A number is what the multiple of the quotient and the remainder make.
LEMMA DivMod ==
  ASSUME NEW v \in Nat, NEW t \in Nat \ {0},
         NEW q \in Nat, NEW r \in Nat, q = v \div t, r = v % t
  PROVE  q * t + r = v
OBVIOUS

\* The tiles of the foreground reach the far edge of the screen, or the end of
\* the layer when that comes first, whichever part of a tile lies before the near
\* edge; below they are short of it by no more than the height of the screen has
\* over whole tiles.
THEOREM ForegroundReachesEdge == Spec => []ForegroundCovers
<1>1. ScrollInv => ForegroundCovers
  <2> SUFFICES ASSUME ScrollInv, NEW a \in Axes, NEW size \in LayerSizes, moved \/ settled[a]
               PROVE  ForegroundEnd(size, a) + (IF a = "x" THEN 0 ELSE Screen[a] % tile[a])
                        >= Least(Screen[a], size * tile[a] - ForegroundPixel(a))
    BY DEF ForegroundCovers
  <2> DEFINE t == tile[a]
             offset == map_[a] - view[a]
             start == Quotient(map_[a], t)
             space == IF a = "x" THEN Screen[a] - offset ELSE Screen[a]
             rest == IF a = "x" THEN 0 ELSE Screen[a] % t
  <2>1. t \in Nat \ {0} /\ map_[a] \in Int /\ view[a] \in Nat /\ Screen[a] \in Nat /\ size \in Nat
    BY TileSizesAssumption, ScreenAssumption, LayerSizesAssumption DEF ScrollInv, TypeOK, Loaded
  <2>2. InRange(a)
    BY DEF ScrollInv, AxisInv
  <2>3. offset \in -(2 * t) .. 0
    BY <2>1, <2>2 DEF InRange
  <2>4. start \in Int
    BY <2>1, QuotientType
  <2>5. space \in Nat /\ rest \in Nat
    <3>1. Screen[a] % t \in Nat
      BY <2>1
    <3> QED
      BY <2>1, <2>3, <3>1
  <2>6. space \div t \in Nat /\ (space \div t) * t <= space /\ space < (space \div t) * t + t
    <3> HIDE DEF space
    <3> QED
      BY <2>1, <2>5, DivBounds
  <2>7. Quotient(space, t) = space \div t
    BY <2>5 DEF Quotient
  <2>8. ForegroundEnd(size, a) = (Least(size, (space \div t) + start + 2) - start) * t + offset
    BY <2>7 DEF ForegroundEnd
  <2>9. ForegroundPixel(a) = start * t - offset
    BY <2>1 DEF ForegroundPixel
  <2>10. (space \div t) * t + 2 * t + offset + rest >= Screen[a]
    <3>1. CASE a = "x"
      BY <2>1, <2>3, <2>6, <3>1
    <3>2. CASE a # "x"
      <4>1. space = Screen[a] /\ rest = Screen[a] % t
        BY <3>2
      <4> HIDE DEF offset, space, rest
      <4>2. PICK q \in Nat : q = space \div t
        BY <2>6
      <4>3. q * t + rest = Screen[a]
        <5>1. PICK v \in Nat, r \in Nat : v = Screen[a] /\ r = rest
          BY <2>1, <2>5
        <5>2. q = v \div t /\ r = v % t
          BY <4>1, <4>2, <5>1
        <5> HIDE DEF t
        <5>3. t \in Nat \ {0}
          BY <2>1
        <5>4. q * t + r = v
          BY <5>2, <5>3, DivMod
        <5> QED
          BY <5>1, <5>4
      <4>4. q * t + 2 * t + offset + rest >= Screen[a]
        BY <2>1, <2>3, <2>5, <4>3
      <4> QED
        BY <4>2, <4>4
    <3> QED
      BY <3>1, <3>2
  <2> HIDE DEF t, offset, start, space, rest
  <2>11. CASE size <= (space \div t) + start + 2
    <3>1. ForegroundEnd(size, a) = size * t - ForegroundPixel(a)
      BY <2>1, <2>3, <2>4, <2>8, <2>9, <2>11 DEF Least
    <3>2. size * t - ForegroundPixel(a) \in Int
      BY <2>1, <2>3, <2>4, <2>9
    <3> QED
      BY <2>1, <2>5, <3>1, <3>2 DEF Least, rest, t
  <2>12. CASE ~(size <= (space \div t) + start + 2)
    <3>1. ForegroundEnd(size, a) = (space \div t) * t + 2 * t + offset
      BY <2>1, <2>3, <2>4, <2>6, <2>8, <2>12 DEF Least
    <3>2. size * t - ForegroundPixel(a) \in Int
      BY <2>1, <2>3, <2>4, <2>9
    <3>3. Least(Screen[a], size * t - ForegroundPixel(a)) <= Screen[a]
      BY <2>1, <3>2 DEF Least
    <3>4. ForegroundEnd(size, a) + rest >= Screen[a]
      BY <2>1, <2>3, <2>5, <2>6, <2>10, <3>1
    <3>5. Least(Screen[a], size * t - ForegroundPixel(a)) \in Int /\ ForegroundEnd(size, a) \in Int
      BY <2>1, <2>3, <2>6, <3>1, <3>2 DEF Least
    <3>6. ForegroundEnd(size, a) + rest >= Least(Screen[a], size * t - ForegroundPixel(a))
      BY <2>1, <2>5, <3>3, <3>4, <3>5
    <3> QED
      BY <3>6 DEF rest, t
  <2> QED
    BY <2>11, <2>12
<1> QED
  BY <1>1, ScrollInvCorrect, PTL
=============================================================================
