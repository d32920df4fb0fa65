---------------------------- MODULE Animation_proofs ----------------------------
(***************************************************************************)
(* For every set of animations: the animation does not disturb the loop,   *)
(* the frame that is looked up exists, no time is lost or gained from one  *)
(* call of Set to the next, and an animation that is behind gets no        *)
(* further behind.                                                         *)
(***************************************************************************)
EXTENDS Animation, EngineLoop_proofs, WellFoundedInduction

\* The engine loop's own invariants hold while it animates an object.
THEOREM AnimUsesLoop == AnimSpec => Spec
<1>1. AnimInit => Init
  BY DEF AnimInit
<1>2. [AnimNext]_animVars => [Next]_vars
  BY DEF AnimNext, MoveObjects, DrawObjects, SkipObjects, Next, animVars
<1> QED
  BY <1>1, <1>2, PTL DEF AnimSpec, Spec

-----------------------------------------------------------------------------
\* An animation has a first frame.
LEMMA FirstFrame ==
  ASSUME NEW a \in DOMAIN Animations
  PROVE  /\ Len(Animations[a]) \in Nat \ {0}
         /\ DOMAIN Animations[a] = 1 .. Len(Animations[a])
<1>1. Animations[a] \in Seq(Nat \ {0}) /\ Animations[a] # <<>>
  BY AnimationsAssumption
<1> QED
  BY <1>1

\* The animation is one of the object's, and has the frame.
FrameInv == actual_ \in DOMAIN Animations /\ frame_ \in Nat /\ FrameExists

\* Setting an animation starts with its first frame.
LEMMA SetInv ==
  ASSUME NEW a \in DOMAIN Animations, NEW t, Set(a, t) PROVE FrameInv'
BY FirstFrame DEF Set, FrameInv, FrameExists

\* update_animation starts again where the frames end.
LEMMA UpdateInv == ASSUME FrameInv, update_animation PROVE FrameInv'
<1>1. Len(Animations[actual_]) \in Nat \ {0}
  BY FirstFrame DEF FrameInv
<1>2. CASE now >= next_frame_
  BY <1>1, <1>2 DEF update_animation, NextFrame, FrameInv, FrameExists
<1>3. CASE ~(now >= next_frame_)
  BY <1>3 DEF update_animation, FrameInv, FrameExists
<1> QED
  BY <1>2, <1>3

\* The frame that base_x, on_screen and blit look up always exists.
THEOREM AnimFrameExists == AnimSpec => []FrameExists
<1>1. AnimInit => FrameInv
  BY FirstFrame DEF AnimInit, FrameInv, FrameExists
<1>2. FrameInv /\ [AnimNext]_animVars => FrameInv'
  <2> SUFFICES ASSUME FrameInv, [AnimNext]_animVars PROVE FrameInv'
    OBVIOUS
  <2>1. CASE UNCHANGED anim
    BY <2>1 DEF anim, FrameInv, FrameExists
  <2>2. CASE MoveObjects \/ SkipObjects
    BY <2>1, <2>2, SetInv DEF MoveObjects, SkipObjects, MaySet
  <2>3. CASE DrawObjects
    BY <2>3, SetInv, UpdateInv DEF DrawObjects
  <2> QED
    BY <2>1, <2>2, <2>3 DEF AnimNext, animVars
<1>3. FrameInv => FrameExists
  BY DEF FrameInv
<1> QED
  BY <1>1, <1>2, <1>3, PTL DEF AnimSpec

-----------------------------------------------------------------------------
\* The times are words, and the frame is one of the animation.
AnimInv == TypeOK /\ FrameInv /\ next_frame_ \in 0 .. Word - 1 /\ shown \in 0 .. Word - 1

\* How long a frame is shown is a number.
LEMMA PersistenceType ==
  ASSUME NEW a \in DOMAIN Animations, NEW i \in 0 .. Len(Animations[a]) - 1
  PROVE  persistence(a, i) \in Nat \ {0}
<1>1. Animations[a] \in Seq(Nat \ {0})
  BY AnimationsAssumption
<1>2. i + 1 \in 1 .. Len(Animations[a])
  BY <1>1
<1> QED
  BY <1>1, <1>2 DEF persistence

-----------------------------------------------------------------------------
\* A set of numbers that is not empty has a least one.
LEMMA LeastNumber ==
  ASSUME NEW T, T \subseteq Nat, T # {} PROVE \E x \in T : \A y \in T : x <= y
<1>1. IsWellFoundedOn({p \in Nat \X Nat : p[1] < p[2]}, Nat)
  BY NatLessThanWellFounded DEF OpToRel
<1>2. PICK x \in T : \A y \in T : <<y, x>> \notin {p \in Nat \X Nat : p[1] < p[2]}
  BY <1>1, WFMin
<1>3. ASSUME NEW y \in T PROVE x <= y
  <2>1. ~(y < x)
    BY <1>2
  <2> QED
    BY <2>1
<1> QED
  BY <1>3

\* The sums of the first numbers of a list are defined.
LEMMA SumsExist ==
  ASSUME NEW N \in Nat, NEW P \in [0 .. N -> Nat]
  PROVE  \E f \in [0 .. N -> Nat] :
           f = [j \in 0 .. N |-> P[j] + (IF j = 0 THEN 0 ELSE f[j - 1])]
<1> DEFINE Sums(f, n) == \A j \in 0 .. n : f[j] = P[j] + (IF j = 0 THEN 0 ELSE f[j - 1])
           Summed(n) == \E f \in [0 .. n -> Nat] : Sums(f, n)
           Bad == {n \in 0 .. N : ~Summed(n)}
<1>1. Summed(0)
  <2> DEFINE f == [j \in 0 .. 0 |-> P[j]]
  <2>1. f \in [0 .. 0 -> Nat] /\ Sums(f, 0)
    OBVIOUS
  <2> QED
    BY <2>1
<1>2. ASSUME NEW n \in 1 .. N, Summed(n - 1) PROVE Summed(n)
  <2>1. PICK f \in [0 .. n - 1 -> Nat] : Sums(f, n - 1)
    BY <1>2
  <2> DEFINE g == [j \in 0 .. n |-> IF j = n THEN P[n] + f[n - 1] ELSE f[j]]
  <2>2. g \in [0 .. n -> Nat]
    OBVIOUS
  <2>3. ASSUME NEW j \in 0 .. n
        PROVE  g[j] = P[j] + (IF j = 0 THEN 0 ELSE g[j - 1])
    BY <2>1
  <2>4. Sums(g, n)
    BY <2>3
  <2> QED
    BY <2>2, <2>4
<1>3. Summed(N)
  <2> HIDE DEF Summed
  <2> SUFFICES ASSUME Bad # {} PROVE FALSE
    OBVIOUS
  <2>1. PICK n \in Bad : \A m \in Bad : n <= m
    <3>1. Bad \subseteq Nat
      OBVIOUS
    <3> HIDE DEF Bad
    <3> QED
      BY <3>1, LeastNumber
  <2>2. n \in 1 .. N
    <3>1. n \in 0 .. N /\ n # 0
      BY <1>1
    <3> QED
      BY <3>1
  <2>3. n - 1 \notin Bad /\ n - 1 \in 0 .. N
    <3>1. n - 1 \in 0 .. N /\ ~(n <= n - 1)
      BY <2>2
    <3> HIDE DEF Bad
    <3> QED
      BY <2>1, <3>1
  <2> QED
    BY <1>2, <2>2, <2>3
<1>4. PICK f \in [0 .. N -> Nat] : Sums(f, N)
  <2> HIDE DEF Sums
  <2> QED
    BY <1>3
<1>5. f = [j \in 0 .. N |-> P[j] + (IF j = 0 THEN 0 ELSE f[j - 1])]
  BY <1>4
<1> QED
  BY <1>5

\* They are numbers.
LEMMA SumsType ==
  ASSUME NEW N \in Nat, NEW P \in [0 .. N -> Nat], NEW f,
         \A j \in 0 .. N : f[j] = P[j] + (IF j = 0 THEN 0 ELSE f[j - 1])
  PROVE  \A j \in 0 .. N : f[j] \in Nat
<1> DEFINE Bad == {j \in 0 .. N : f[j] \notin Nat}
<1> SUFFICES ASSUME Bad # {} PROVE FALSE
  OBVIOUS
<1>1. PICK j \in Bad : \A m \in Bad : j <= m
  <2>1. Bad \subseteq Nat
    OBVIOUS
  <2> HIDE DEF Bad
  <2> QED
    BY <2>1, LeastNumber
<1>2. j # 0
  OBVIOUS
<1>3. j - 1 \in 0 .. N /\ ~(j <= j - 1)
  BY <1>2
<1>4. f[j - 1] \in Nat
  BY <1>1, <1>3
<1> QED
  BY <1>2, <1>4

\* How long it takes until a frame has been shown.
LEMMA UntilIs ==
  ASSUME NEW a \in DOMAIN Animations, NEW i \in 0 .. Len(Animations[a]) - 1
  PROVE  /\ Until(a, i) \in Nat
         /\ Until(a, i) = persistence(a, i) + (IF i = 0 THEN 0 ELSE Until(a, i - 1))
<1> DEFINE N == Len(Animations[a]) - 1
           P == [j \in 0 .. N |-> persistence(a, j)]
           Sums(f) == f = [j \in 0 .. N |-> persistence(a, j) + (IF j = 0 THEN 0 ELSE f[j - 1])]
           until == CHOOSE f : Sums(f)
<1>1. N \in Nat
  BY FirstFrame
<1>2. P \in [0 .. N -> Nat]
  BY PersistenceType
<1>3. PICK f \in [0 .. N -> Nat] : Sums(f)
  <2>1. \E f \in [0 .. N -> Nat] : f = [j \in 0 .. N |-> P[j] + (IF j = 0 THEN 0 ELSE f[j - 1])]
    <3> HIDE DEF N, P
    <3> QED
      BY <1>1, <1>2, SumsExist
  <2> QED
    BY <2>1
<1>4. Sums(until)
  BY <1>3
<1>5. \A j \in 0 .. N : Until(a, j) = until[j]
  BY DEF Until
<1>6. \A j \in 0 .. N : until[j] = P[j] + (IF j = 0 THEN 0 ELSE until[j - 1])
  <2> HIDE DEF until
  <2> QED
    BY <1>4
<1>7. \A j \in 0 .. N : until[j] \in Nat
  <2> HIDE DEF until, P, N
  <2> QED
    BY <1>1, <1>2, <1>6, SumsType
<1>8. i \in 0 .. N /\ P[i] = persistence(a, i) /\ (i # 0 => i - 1 \in 0 .. N)
  BY <1>1
<1> HIDE DEF until, P, N
<1>9. CASE i = 0
  BY <1>5, <1>6, <1>7, <1>8, <1>9
<1>10. CASE i # 0
  BY <1>5, <1>6, <1>7, <1>8, <1>10
<1> QED
  BY <1>9, <1>10

-----------------------------------------------------------------------------
\* Setting an animation at a time that is a word keeps the times words.
LEMMA SetTimes ==
  ASSUME AnimInv, NEW a \in DOMAIN Animations, NEW t \in Int, Set(a, t)
  PROVE  next_frame_' \in 0 .. Word - 1
<1>1. persistence(a, 0) \in Nat
  BY FirstFrame, PersistenceType
<1>2. (persistence(a, 0) + t) % Word \in 0 .. Word - 1
  BY <1>1, WordType
<1> QED
  BY <1>2 DEF Set

\* update_animation keeps the times words.
LEMMA UpdateTimes ==
  ASSUME AnimInv, update_animation
  PROVE  next_frame_' \in 0 .. Word - 1 /\ shown' \in 0 .. Word - 1
<1>1. shown' \in 0 .. Word - 1
  BY DEF AnimInv, TypeOK, update_animation
<1>2. CASE ~(now >= next_frame_)
  BY <1>1, <1>2 DEF update_animation, AnimInv
<1>3. CASE now >= next_frame_
  <2>1. FrameInv' /\ actual_' = actual_
    BY UpdateInv DEF AnimInv, update_animation
  <2>2. frame_' \in 0 .. Len(Animations[actual_]) - 1
    BY <2>1, FirstFrame DEF FrameInv, FrameExists
  <2>3. persistence(actual_, frame_') \in Nat
    BY <2>2, PersistenceType DEF AnimInv, FrameInv
  <2>4. (next_frame_ + persistence(actual_, frame_')) % Word \in 0 .. Word - 1
    BY <2>3, WordType DEF AnimInv
  <2> QED
    BY <1>1, <1>3, <2>4 DEF update_animation, NextFrame
<1> QED
  BY <1>2, <1>3

\* The invariant holds in every state of an animated object.
LEMMA AnimInvCorrect == AnimSpec => []AnimInv
<1>1. AnimSpec => []TypeOK
  BY AnimUsesLoop, LoopTypeCorrect, PTL
<1>2. TypeOK /\ AnimInit => AnimInv
  <2> SUFFICES ASSUME TypeOK, AnimInit PROVE AnimInv
    OBVIOUS
  <2>1. GetTicks \in 0 .. Word - 1
    BY WordType DEF GetTicks, TypeOK
  <2> QED
    BY <2>1, FirstFrame DEF AnimInit, AnimInv, FrameInv, FrameExists
<1>3. TypeOK' /\ AnimInv /\ [AnimNext]_animVars => AnimInv'
  <2> SUFFICES ASSUME TypeOK', AnimInv, [AnimNext]_animVars PROVE AnimInv'
    OBVIOUS
  <2>1. CASE UNCHANGED anim
    BY <2>1 DEF anim, AnimInv, FrameInv, FrameExists
  <2>2. clock % Word \in Int /\ clock' % Word \in Int
    BY WordType DEF AnimInv, TypeOK
  <2>3. ASSUME NEW a \in DOMAIN Animations, NEW t \in {clock, clock'}, Set(a, t % Word)
        PROVE  AnimInv'
    <3>1. t % Word \in Int
      BY <2>2
    <3> QED
      BY <2>3, <3>1, SetTimes, SetInv DEF Set, AnimInv
  <2>4. CASE MoveObjects \/ SkipObjects
    BY <2>1, <2>3, <2>4 DEF MoveObjects, SkipObjects, MaySet
  <2>5. ASSUME NEW a \in DOMAIN Animations, Set(a, clock' % Word), shown' = now
        PROVE  AnimInv'
    BY <2>2, <2>5, SetTimes, SetInv DEF AnimInv, TypeOK
  <2>6. CASE update_animation
    BY <2>6, UpdateTimes, UpdateInv DEF AnimInv
  <2>7. CASE DrawObjects
    BY <2>5, <2>6, <2>7 DEF DrawObjects
  <2> QED
    BY <2>1, <2>4, <2>7 DEF AnimNext, animVars
<1> QED
  BY <1>1, <1>2, <1>3, PTL DEF AnimSpec

\* A number below a word is its own remainder, and time that passes by at most
\* a frame does not put the next frame further behind.
LEMMA NoFurther ==
  ASSUME NEW t \in Nat, NEW before \in Nat, NEW next \in Nat, NEW p \in Nat \ {0},
         t - before <= p, t >= next
  PROVE  Behind(t, next + p) <= Behind(before, next)
BY DEF Behind

\* While frames are drawn at least as often as those of an animation change,
\* it gets no further behind.
THEOREM AnimCatchesUp == AnimSpec => GetsNoFurtherBehind
<1> DEFINE Drawn == /\ DrawObjects /\ UNCHANGED actual_
                    /\ \A i \in DOMAIN Animations[actual_] :
                         /\ now - shown <= Animations[actual_][i]
                         /\ next_frame_ + Animations[actual_][i] < Word
           Kept == Behind(now, next_frame_') <= Behind(shown, next_frame_)
<1>1. ASSUME AnimInv, Drawn PROVE Kept
  <2>1. update_animation
    BY <1>1 DEF DrawObjects, Set
  <2>2. now \in Nat /\ next_frame_ \in Nat /\ shown \in Nat
    BY <1>1 DEF AnimInv, TypeOK
  <2>3. CASE ~(now >= next_frame_)
    BY <2>1, <2>2, <2>3 DEF update_animation, Behind
  <2>4. CASE now >= next_frame_
    <3>1. FrameInv' /\ actual_' = actual_
      BY <1>1, <2>1, UpdateInv DEF AnimInv, update_animation
    <3>2. /\ Animations[actual_] \in Seq(Nat \ {0})
          /\ frame_' + 1 \in DOMAIN Animations[actual_]
      BY <3>1, FirstFrame, AnimationsAssumption DEF FrameInv, FrameExists
    <3> DEFINE p == persistence(actual_, frame_')
    <3>3. p \in Nat \ {0} /\ now - shown <= p /\ next_frame_ + p < Word
      BY <1>1, <3>2 DEF persistence
    <3>4. next_frame_' = (next_frame_ + p) % Word
      BY <2>1, <2>4 DEF update_animation, NextFrame
    <3> HIDE DEF p
    <3>5. (next_frame_ + p) % Word = next_frame_ + p
      BY <2>2, <3>3, Small
    <3>6. Behind(now, next_frame_ + p) <= Behind(shown, next_frame_)
      BY <2>2, <2>4, <3>3, NoFurther
    <3> QED
      BY <3>4, <3>5, <3>6
  <2> QED
    BY <2>3, <2>4
<1>2. AnimInv => [Drawn => Kept]_animVars
  BY <1>1
<1> QED
  BY <1>2, AnimInvCorrect, PTL DEF GetsNoFurtherBehind

-----------------------------------------------------------------------------
\* A number is what its quotient stands for and the remainder.
LEMMA Division ==
  ASSUME NEW x \in Int, NEW W \in Nat \ {0}
  PROVE  x = (x \div W) * W + (x % W) /\ x \div W \in Int /\ x % W \in 0 .. W - 1
OBVIOUS

\* There is only one such remainder.
LEMMA Remainder ==
  ASSUME NEW W \in Nat \ {0}, NEW q \in Int, NEW p \in Int,
         NEW r \in 0 .. W - 1, NEW s \in 0 .. W - 1, q * W + r = p * W + s
  PROVE  r = s
<1>1. CASE q = p
  BY <1>1
<1>2. CASE q < p
  <2>1. p - q \in Nat \ {0} /\ (p - q) * W >= W
    BY <1>2
  <2> QED
    BY <2>1
<1>3. CASE q > p
  <2>1. q - p \in Nat \ {0} /\ (q - p) * W >= W
    BY <1>3
  <2> QED
    BY <2>1
<1> QED
  BY <1>1, <1>2, <1>3

\* What is added to a word wraps around once.
LEMMA WordSum ==
  ASSUME NEW x \in Int, NEW y \in Int PROVE ((x % Word) + y) % Word = (x + y) % Word
<1> DEFINE r == x % Word
           u == r + y
           v == x + y
<1>1. Word \in Nat \ {0}
  BY WordAssumption
<1>2. x = (x \div Word) * Word + r /\ x \div Word \in Int /\ r \in 0 .. Word - 1
  BY <1>1, Division
<1>3. u \in Int /\ v \in Int /\ v = u + (x \div Word) * Word
  BY <1>1, <1>2
<1> HIDE DEF u, v
<1>4. u = (u \div Word) * Word + (u % Word) /\ u \div Word \in Int /\ u % Word \in 0 .. Word - 1
  BY <1>1, <1>3, Division
<1>5. v = (v \div Word) * Word + (v % Word) /\ v \div Word \in Int /\ v % Word \in 0 .. Word - 1
  BY <1>1, <1>3, Division
<1>6. (v \div Word) * Word + (v % Word) = (u \div Word + x \div Word) * Word + (u % Word)
  BY <1>1, <1>2, <1>3, <1>4, <1>5
<1>7. u \div Word + x \div Word \in Int
  BY <1>2, <1>4
<1> QED
  BY <1>1, <1>4, <1>5, <1>6, <1>7, Remainder DEF u, v

\* The times that are words, and the rhythm.
RhythmInv == AnimInv /\ origin \in 0 .. Word - 1 /\ KeepsRhythm

\* A rhythm begins with the animation that is set.
LEMMA SetRhythm ==
  ASSUME AnimInv', NEW a \in DOMAIN Animations, NEW t \in Int, Set(a, t % Word)
  PROVE  RhythmInv'
<1>1. t % Word \in 0 .. Word - 1
  BY WordType
<1>2. persistence(a, 0) \in Nat /\ Until(a, 0) = persistence(a, 0)
  BY FirstFrame, PersistenceType, UntilIs
<1>3. persistence(a, 0) + (t % Word) = (t % Word) + Until(a, 0)
  BY <1>1, <1>2
<1> QED
  BY <1>1, <1>3, WordAssumption DEF Set, RhythmInv, KeepsRhythm

\* The next frame goes on with it, also where the frames begin again.
LEMMA UpdateRhythm == ASSUME RhythmInv, AnimInv', update_animation PROVE RhythmInv'
<1>1. actual_' = actual_ /\ actual_ \in DOMAIN Animations
  BY DEF update_animation, RhythmInv, AnimInv, FrameInv
<1>2. CASE ~(now >= next_frame_)
  BY <1>1, <1>2 DEF update_animation, RhythmInv, KeepsRhythm
<1>3. CASE now >= next_frame_
  <2> DEFINE a == actual_
             L == Len(Animations[a])
             f == frame_
             U == Until(a, f)
  <2>1. L \in Nat \ {0} /\ f \in 0 .. L - 1
    BY <1>1, FirstFrame DEF RhythmInv, AnimInv, FrameInv, FrameExists
  <2>2. U \in Nat /\ origin \in Int /\ next_frame_ = (origin + U) % Word
    BY <1>1, <2>1, UntilIs DEF RhythmInv, KeepsRhythm
  <2>3. \A p \in Int : (next_frame_ + p) % Word = ((origin + U) + p) % Word
    <3> HIDE DEF U
    <3> QED
      BY <2>2, WordSum
  <2>4. NextFrame
    BY <1>3 DEF update_animation
  <2>5. CASE f + 1 >= L
    <3>1. frame_' = 0 /\ f = L - 1
      BY <2>1, <2>4, <2>5 DEF NextFrame
    <3>2. origin' = (origin + U) % Word
      BY <2>4, <3>1 DEF NextFrame, Duration
    <3>3. persistence(a, 0) \in Nat /\ Until(a, 0) = persistence(a, 0)
      BY <1>1, <2>1, PersistenceType, UntilIs
    <3>4. next_frame_' = (next_frame_ + persistence(a, 0)) % Word
      BY <2>4, <3>1 DEF NextFrame
    <3>5. origin' = next_frame_
      BY <2>2, <3>2
    <3>6. origin' \in 0 .. Word - 1
      BY <3>5 DEF RhythmInv, AnimInv
    <3> QED
      BY <1>1, <3>1, <3>3, <3>4, <3>5, <3>6 DEF RhythmInv, KeepsRhythm
  <2>6. CASE ~(f + 1 >= L)
    <3>1. frame_' = f + 1 /\ origin' = origin /\ f + 1 # 0 /\ f + 1 \in 0 .. L - 1 /\ f + 1 - 1 = f
      BY <2>1, <2>4, <2>6 DEF NextFrame
    <3> DEFINE p == persistence(a, f + 1)
    <3>2. p \in Nat /\ Until(a, f + 1) = p + U
      BY <1>1, <2>1, <3>1, PersistenceType, UntilIs
    <3>3. next_frame_' = (next_frame_ + p) % Word
      BY <2>4, <3>1 DEF NextFrame
    <3>4. (next_frame_ + p) % Word = ((origin + U) + p) % Word
      BY <2>3, <3>2
    <3>5. (origin + U) + p = origin + Until(a, f + 1)
      <4> HIDE DEF p, U
      <4> QED
        BY <2>2, <3>2
    <3>6. next_frame_' = (origin + Until(a, f + 1)) % Word
      BY <3>3, <3>4, <3>5
    <3> QED
      BY <1>1, <3>1, <3>6 DEF RhythmInv, KeepsRhythm
  <2> QED
    BY <2>5, <2>6
<1> QED
  BY <1>2, <1>3

\* No time is lost or gained between two calls of Set, however late frames are.
THEOREM AnimKeepsRhythm == AnimSpec => []KeepsRhythm
<1>1. AnimInv /\ AnimInit => RhythmInv
  <2> SUFFICES ASSUME AnimInv, AnimInit PROVE RhythmInv
    OBVIOUS
  <2> DEFINE p == persistence(actual_, 0)
  <2>1. p \in Nat /\ Until(actual_, 0) = p
    BY FirstFrame, PersistenceType, UntilIs DEF AnimInit
  <2>2. GetTicks \in 0 .. Word - 1
    BY DEF AnimInit, AnimInv
  <2> HIDE DEF p
  <2>3. (GetTicks - p) \in Int /\ (GetTicks - p) + p = GetTicks
    BY <2>1, <2>2
  <2>4. (((GetTicks - p) % Word) + p) % Word = GetTicks % Word
    BY <2>1, <2>3, WordSum
  <2>5. GetTicks % Word = GetTicks
    BY <2>2, Small, WordAssumption
  <2>6. (GetTicks - p) % Word \in 0 .. Word - 1
    BY <2>3, WordType
  <2> QED
    BY <2>1, <2>4, <2>5, <2>6 DEF AnimInit, RhythmInv, KeepsRhythm, p
<1>2. AnimInv' /\ RhythmInv /\ [AnimNext]_animVars => RhythmInv'
  <2> SUFFICES ASSUME AnimInv', RhythmInv, [AnimNext]_animVars PROVE RhythmInv'
    OBVIOUS
  <2>1. CASE UNCHANGED anim
    BY <2>1 DEF anim, RhythmInv, KeepsRhythm
  <2>2. clock \in Int /\ clock' \in Int
    BY DEF RhythmInv, AnimInv, TypeOK
  <2>3. CASE MoveObjects \/ SkipObjects
    BY <2>1, <2>2, <2>3, SetRhythm DEF MoveObjects, SkipObjects, MaySet
  <2>4. ASSUME NEW a \in DOMAIN Animations, Set(a, clock' % Word) PROVE RhythmInv'
    BY <2>2, <2>4, SetRhythm
  <2>5. CASE DrawObjects
    BY <2>4, <2>5, UpdateRhythm DEF DrawObjects
  <2> QED
    BY <2>1, <2>3, <2>5 DEF AnimNext, animVars
<1>3. RhythmInv => KeepsRhythm
  BY DEF RhythmInv
<1> QED
  BY <1>1, <1>2, <1>3, AnimInvCorrect, PTL DEF AnimSpec
=============================================================================
