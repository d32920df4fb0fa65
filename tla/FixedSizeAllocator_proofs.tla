----------------------- MODULE FixedSizeAllocator_proofs -----------------------
(***************************************************************************)
(* For every block size: the two lists of FixedSizeAllocator stay well     *)
(* formed and partition the block, the used list is one chain, and the     *)
(* allocator implements LifoPool.                                          *)
(***************************************************************************)
EXTENDS FixedSizeAllocator, FiniteSetTheorems, WellFoundedInduction, TLAPS

\* The two list invariants are inductive only together: the free list says
\* which element alloc() takes, the used list which links free() rewrites,
\* and each must know that the other list's elements are not its own.
ListInv == TypeOK /\ FreeListIntact /\ UsedListLinked

-----------------------------------------------------------------------------
\* The constructor establishes the invariant: everything is free.
LEMMA InitListInv == Init => ListInv
<1> SUFFICES ASSUME Init PROVE ListInv
  OBVIOUS
<1>1. freeOrder \in Seq(Elements) /\ Len(freeOrder) = MaxElements
  BY MaxElementsAssumption DEF Init, Elements
<1>2. TypeOK
  BY <1>1, MaxElementsAssumption DEF Init, TypeOK, Elements, Pointers, NULL
<1>3. FreeListIntact
  BY <1>1, MaxElementsAssumption
  DEF Init, FreeListIntact, FirstOf, SuccessorIn, Injective, Elements, NULL
<1>4. UsedListLinked
  BY DEF Init, UsedListLinked
<1> QED
  BY <1>2, <1>3, <1>4 DEF ListInv

\* The first free element is free, and the last one has no successor.
LEMMA FreeHead ==
  ASSUME ListInv, firstFree # NULL
  PROVE  /\ freeOrder # <<>>
         /\ Len(freeOrder) \in Nat \ {0}
         /\ firstFree = freeOrder[1]
         /\ firstFree = Head(freeOrder)
         /\ firstFree \in Elements \ held
         /\ next[firstFree] = SuccessorIn(freeOrder, 1)
BY DEF ListInv, TypeOK, FreeListIntact, FirstOf, NULL

\* An alloc() that succeeds keeps the invariant.
LEMMA AllocListInv ==
  ASSUME ListInv, AllocSucceeds
  PROVE  ListInv'
<1> DEFINE new == firstFree
           rest == next[new]
<1>1. /\ freeOrder # <<>> /\ Len(freeOrder) \in Nat \ {0}
      /\ new = freeOrder[1]
      /\ new \in Elements \ held
      /\ rest = SuccessorIn(freeOrder, 1)
  BY FreeHead DEF AllocSucceeds
<1>2. /\ freeOrder' \in Seq(Elements)
      /\ Len(freeOrder') = Len(freeOrder) - 1
      /\ \A i \in 1 .. Len(freeOrder') : freeOrder'[i] = freeOrder[i + 1]
  BY <1>1 DEF AllocSucceeds, ListInv, TypeOK
<1>3. rest \in Pointers /\ rest # new /\ rest \notin held
  BY <1>1 DEF ListInv, TypeOK, FreeListIntact, Injective, SuccessorIn, NULL, Elements, Pointers
<1>4. TypeOK'
  BY <1>1, <1>2, <1>3 DEF AllocSucceeds, ListInv, TypeOK, Pointers, NULL
<1>5. FreeListIntact'
  <2>1. firstFree' = FirstOf(freeOrder')
    <3>1. firstFree' = SuccessorIn(freeOrder, 1)
      BY <1>1 DEF AllocSucceeds
    <3>2. CASE Len(freeOrder) = 1
      BY <1>1, <1>2, <3>1, <3>2 DEF FirstOf, SuccessorIn
    <3>3. CASE Len(freeOrder) # 1
      <4>1. freeOrder' # <<>> /\ freeOrder'[1] = freeOrder[2]
        BY <1>1, <1>2, <3>3
      <4> QED
        BY <3>1, <3>3, <4>1 DEF FirstOf, SuccessorIn
    <3> QED
      BY <3>2, <3>3
  <2>2. \A i \in 1 .. Len(freeOrder') : freeOrder[i + 1] # new
    BY <1>1, <1>2 DEF ListInv, FreeListIntact, Injective
  <2>3. \A i \in 1 .. Len(freeOrder') : next'[freeOrder'[i]] = SuccessorIn(freeOrder', i)
    <3> SUFFICES ASSUME NEW i \in 1 .. Len(freeOrder')
                 PROVE  next'[freeOrder'[i]] = SuccessorIn(freeOrder', i)
      OBVIOUS
    <3>1. i + 1 \in 1 .. Len(freeOrder) /\ freeOrder'[i] = freeOrder[i + 1]
      BY <1>1, <1>2
    <3>2. next'[freeOrder[i + 1]] = next[freeOrder[i + 1]]
      BY <3>1, <2>2 DEF AllocSucceeds, ListInv, TypeOK
    <3>3. next[freeOrder[i + 1]] = SuccessorIn(freeOrder, i + 1)
      BY <3>1 DEF ListInv, FreeListIntact
    <3>4. SuccessorIn(freeOrder, i + 1) = SuccessorIn(freeOrder', i)
      BY <3>1, <1>1, <1>2 DEF SuccessorIn
    <3> QED
      BY <3>1, <3>2, <3>3, <3>4
  <2>4. Injective(freeOrder')
    BY <1>1, <1>2 DEF ListInv, FreeListIntact, Injective
  <2>5. {freeOrder'[i] : i \in 1 .. Len(freeOrder')} = Elements \ held'
    <3>1. {freeOrder'[i] : i \in 1 .. Len(freeOrder')} \subseteq Elements \ held'
      BY <1>1, <1>2, <2>2 DEF AllocSucceeds, ListInv, FreeListIntact
    <3>2. ASSUME NEW e \in Elements \ held'
          PROVE  \E i \in 1 .. Len(freeOrder') : freeOrder'[i] = e
      <4>1. PICK j \in 1 .. Len(freeOrder) : freeOrder[j] = e
        BY <3>2 DEF AllocSucceeds, ListInv, FreeListIntact
      <4>2. j # 1
        BY <4>1, <3>2, <1>1 DEF AllocSucceeds
      <4>3. j - 1 \in 1 .. Len(freeOrder') /\ freeOrder'[j - 1] = e
        BY <4>1, <4>2, <1>1, <1>2
      <4> QED
        BY <4>3
    <3> QED
      BY <3>1, <3>2
  <2> QED
    BY <2>1, <2>3, <2>4, <2>5 DEF FreeListIntact
<1>6. UsedListLinked'
  BY <1>1, <1>3 DEF AllocSucceeds, ListInv, TypeOK, UsedListLinked, NULL, Elements, Pointers
<1> QED
  BY <1>4, <1>5, <1>6 DEF ListInv

\* free() of an element the client holds keeps the invariant.
LEMMA FreeListInv ==
  ASSUME ListInv, NEW e \in Elements, Free(e)
  PROVE  ListInv'
<1>1. /\ e \in held
      /\ next[e] \in held \cup {NULL} /\ prev[e] \in held \cup {NULL}
      /\ NULL \notin held
  BY DEF Free, ListInv, TypeOK, UsedListLinked, NULL, Elements
<1>2. firstFree \notin held /\ Len(freeOrder) \in Nat
  BY <1>1, FreeHead DEF ListInv, TypeOK, NULL
<1>3. /\ freeOrder' \in Seq(Elements)
      /\ Len(freeOrder') = Len(freeOrder) + 1
      /\ freeOrder'[1] = e
      /\ \A i \in 1 .. Len(freeOrder) : freeOrder'[i + 1] = freeOrder[i]
  BY DEF Free, ListInv, TypeOK
<1>4. TypeOK'
  BY <1>1, <1>3 DEF Free, ListInv, TypeOK, Pointers
<1>5. FreeListIntact'
  <2>1. firstFree' = FirstOf(freeOrder')
    BY <1>2, <1>3 DEF Free, FirstOf
  <2>2. \A i \in 1 .. Len(freeOrder) : freeOrder[i] \in Elements \ held
    BY DEF ListInv, FreeListIntact
  <2>3. \A i \in 1 .. Len(freeOrder') : next'[freeOrder'[i]] = SuccessorIn(freeOrder', i)
    <3> SUFFICES ASSUME NEW i \in 1 .. Len(freeOrder')
                 PROVE  next'[freeOrder'[i]] = SuccessorIn(freeOrder', i)
      OBVIOUS
    <3>1. CASE i = 1
      <4>1. next'[freeOrder'[1]] = firstFree
        BY <1>3 DEF Free
      <4>2. firstFree = SuccessorIn(freeOrder', 1)
        BY <1>2, <1>3 DEF ListInv, FreeListIntact, FirstOf, SuccessorIn, TypeOK
      <4> QED
        BY <3>1, <4>1, <4>2
    <3>2. CASE i # 1
      <4>1. i - 1 \in 1 .. Len(freeOrder) /\ freeOrder'[i] = freeOrder[i - 1]
        BY <3>2, <1>2, <1>3
      <4>2. next'[freeOrder[i - 1]] = next[freeOrder[i - 1]]
        <5>1. freeOrder[i - 1] \in Elements \ held
          BY <4>1, <2>2
        <5>2. freeOrder[i - 1] # e /\ freeOrder[i - 1] # prev[e]
          BY <5>1, <1>1 DEF NULL, Elements
        <5> QED
          BY <5>1, <5>2 DEF Free
      <4>3. next[freeOrder[i - 1]] = SuccessorIn(freeOrder, i - 1)
        BY <4>1 DEF ListInv, FreeListIntact
      <4>4. SuccessorIn(freeOrder, i - 1) = SuccessorIn(freeOrder', i)
        BY <4>1, <1>2, <1>3 DEF SuccessorIn
      <4> QED
        BY <4>1, <4>2, <4>3, <4>4
    <3> QED
      BY <3>1, <3>2
  <2>4. Injective(freeOrder')
    <3> SUFFICES ASSUME NEW i \in 1 .. Len(freeOrder'), NEW j \in 1 .. Len(freeOrder'),
                        freeOrder'[i] = freeOrder'[j]
                 PROVE  i = j
      BY DEF Injective
    <3>1. \A k \in 1 .. Len(freeOrder') :
            k # 1 => /\ k - 1 \in 1 .. Len(freeOrder)
                     /\ freeOrder'[k] = freeOrder[k - 1]
      BY <1>2, <1>3
    <3>2. (i = 1) <=> (j = 1)
      BY <3>1, <2>2, <1>1, <1>3
    <3>3. CASE i # 1
      <4>1. freeOrder[i - 1] = freeOrder[j - 1]
        BY <3>1, <3>2, <3>3
      <4>2. i - 1 = j - 1
        BY <4>1, <3>1, <3>2, <3>3 DEF ListInv, FreeListIntact, Injective
      <4> QED
        BY <4>2, <1>2, <1>3
    <3> QED
      BY <3>2, <3>3
  <2>5. {freeOrder'[i] : i \in 1 .. Len(freeOrder')} = Elements \ held'
    <3>1. \A i \in 1 .. Len(freeOrder') : freeOrder'[i] \in Elements \ held'
      <4> SUFFICES ASSUME NEW i \in 1 .. Len(freeOrder')
                   PROVE  freeOrder'[i] \in Elements \ held'
        OBVIOUS
      <4>1. CASE i = 1
        BY <4>1, <1>3 DEF Free
      <4>2. CASE i # 1
        BY <4>2, <1>2, <1>3, <2>2 DEF Free
      <4> QED
        BY <4>1, <4>2
    <3>2. ASSUME NEW x \in Elements \ held'
          PROVE  \E i \in 1 .. Len(freeOrder') : freeOrder'[i] = x
      <4>1. CASE x = e
        BY <4>1, <1>2, <1>3
      <4>2. CASE x # e
        <5>1. PICK j \in 1 .. Len(freeOrder) : freeOrder[j] = x
          BY <4>2, <3>2 DEF Free, ListInv, FreeListIntact
        <5>2. j + 1 \in 1 .. Len(freeOrder') /\ freeOrder'[j + 1] = x
          BY <5>1, <1>2, <1>3
        <5> QED
          BY <5>2
      <4> QED
        BY <4>1, <4>2
    <3> QED
      BY <3>1, <3>2
  <2> QED
    BY <2>1, <2>3, <2>4, <2>5 DEF FreeListIntact
<1>6. UsedListLinked'
  <2> USE <1>1, <1>2 DEF ListInv, TypeOK, UsedListLinked
  <2>1. held' = held \ {e} /\ NULL \notin Elements
    BY DEF Free, NULL, Elements
  <2>2. firstUsed' \in held' \cup {NULL}
    BY <2>1 DEF Free
  <2>3. \A x \in held' : /\ next'[x] = IF x = prev[e] THEN next[e] ELSE next[x]
                         /\ prev'[x] = IF x = next[e] THEN prev[e] ELSE prev[x]
    BY <2>1 DEF Free
  <2>4. firstUsed' = IF prev[e] = NULL THEN next[e] ELSE firstUsed
    BY DEF Free
  <2>5. \A x \in held' : /\ (next[x] = e <=> x = prev[e])
                         /\ (prev[x] = e <=> x = next[e])
    BY <2>1
  <2>6. \A x \in held' : /\ next'[x] \in held' \cup {NULL}
                         /\ prev'[x] \in held' \cup {NULL}
    BY <2>1, <2>3, <2>5
  <2>7. \A x \in held' : next'[x] # NULL => prev'[next'[x]] = x
    BY <2>1, <2>3, <2>5, <2>6
  <2>8. \A x \in held' : prev'[x] # NULL => next'[prev'[x]] = x
    BY <2>1, <2>3, <2>5, <2>6
  <2>9. \A x \in held' : prev'[x] = NULL <=> x = firstUsed'
    BY <2>1, <2>3, <2>4, <2>5
  <2> QED
    BY <2>2, <2>6, <2>7, <2>8, <2>9
<1> QED
  BY <1>4, <1>5, <1>6 DEF ListInv

\* Every step, and stuttering, keeps the invariant.
LEMMA NextListInv == ListInv /\ [Next]_vars => ListInv'
<1> SUFFICES ASSUME ListInv, [Next]_vars PROVE ListInv'
  OBVIOUS
<1>1. CASE AllocFails
  <2>1. /\ UNCHANGED <<firstFree, firstUsed, prev, next, held, freeOrder>>
        /\ ret' \in Pointers
    BY <1>1 DEF AllocFails, lists, Pointers
  <2> QED
    BY <2>1 DEF ListInv, TypeOK, FreeListIntact, UsedListLinked
<1>2. CASE AllocSucceeds
  BY <1>2, AllocListInv
<1>3. ASSUME NEW e \in Elements, Free(e) PROVE ListInv'
  BY <1>3, FreeListInv
<1>4. CASE UNCHANGED vars
  BY <1>4 DEF ListInv, TypeOK, FreeListIntact, UsedListLinked, vars
<1> QED
  BY <1>1, <1>2, <1>3, <1>4 DEF Next, Alloc

\* The invariant holds in every state of the allocator.
LEMMA ListInvCorrect == Spec => []ListInv
  BY InitListInv, NextListInv, PTL DEF Spec

\* Every pointer stays inside the block.
THEOREM TypeCorrect == Spec => []TypeOK
<1>1. ListInv => TypeOK
  BY DEF ListInv
<1> QED
  BY <1>1, ListInvCorrect, PTL

\* The free list is exactly the elements not held, in last-freed-first order.
THEOREM FreeListCorrect == Spec => []FreeListIntact
<1>1. ListInv => FreeListIntact
  BY DEF ListInv
<1> QED
  BY <1>1, ListInvCorrect, PTL

\* The used list is always a well-linked doubly linked list.
THEOREM UsedListCorrect == Spec => []UsedListLinked
<1>1. ListInv => UsedListLinked
  BY DEF ListInv
<1> QED
  BY <1>1, ListInvCorrect, PTL

\* The linked lists of fsa.h implement the LIFO pool: alloc() returns the
\* pool's head or NULL exactly when the pool is empty, and free() never
\* returns an element that is already in the pool.
THEOREM AllocatorImplementsPool == Spec => ImplementsPool
<1> USE DEF Pool!Allocated, Pool!AfterAlloc, Pool!AfterFree, Pool!Listed,
            Pool!Elements, Pool!NULL, Elements, NULL
<1>1. Init => Pool!Init
  BY DEF Init, Pool!Init, Pool!AllFree
<1>2. ASSUME ListInv, [Next]_vars
      PROVE  [Pool!Next]_(Pool!vars)
  <2>1. CASE AllocFails
    <3>1. freeOrder = <<>>
      BY <1>2, <2>1 DEF AllocFails, ListInv, TypeOK, FreeListIntact, FirstOf
    <3> QED
      BY <2>1, <3>1 DEF AllocFails, Pool!Alloc, Pool!Next
  <2>2. CASE AllocSucceeds
    <3>1. freeOrder # <<>> /\ firstFree = Head(freeOrder)
      BY <1>2, <2>2, FreeHead DEF AllocSucceeds
    <3> QED
      BY <2>2, <3>1 DEF AllocSucceeds, Pool!Alloc, Pool!Next
  <2>3. ASSUME NEW e \in Elements, Free(e) PROVE Pool!Next
    <3>1. e \notin {freeOrder[i] : i \in DOMAIN freeOrder}
      BY <1>2, <2>3 DEF Free, ListInv, TypeOK, FreeListIntact
    <3> QED
      BY <2>3, <3>1 DEF Free, Pool!Free, Pool!Next
  <2>4. CASE UNCHANGED vars
    BY <2>4 DEF vars, Pool!vars
  <2> QED
    BY <1>2, <2>1, <2>2, <2>3, <2>4 DEF Next, Alloc
<1> QED
  BY <1>1, <1>2, ListInvCorrect, PTL DEF Spec, ImplementsPool, Pool!Spec

-----------------------------------------------------------------------------
\* The used list as a sequence.  That each element knows its neighbours does
\* not make the held elements one chain: they could be a chain and a cycle, as
\* long as nothing says from where they were linked.
Chain(u) == /\ firstUsed = FirstOf(u)
            /\ \A i \in 1 .. Len(u) : next[u[i]] = SuccessorIn(u, i)
            /\ Injective(u)
            /\ {u[i] : i \in 1 .. Len(u)} = held

Chained == \E u \in Seq(Elements) : Chain(u)

\* alloc() puts a new element at the head of the chain.
LEMMA AllocChained == ASSUME ListInv, AllocSucceeds, Chained PROVE Chained'
<1>1. PICK u \in Seq(Elements) : Chain(u)
  BY DEF Chained
<1> DEFINE new == firstFree
           v == <<new>> \o u
           n == Len(u)
<1>2. new \in Elements \ held /\ new # NULL
  BY FreeHead DEF AllocSucceeds
<1>3. v \in Seq(Elements)
  BY <1>2
<1>4. n \in Nat /\ Len(v) = n + 1 /\ v[1] = new /\ \A i \in 1 .. n : v[i + 1] = u[i]
  BY <1>2
<1>5. \A i \in 1 .. n : u[i] \in held /\ u[i] \in Elements /\ u[i] # new
  BY <1>1, <1>2 DEF Chain
<1> HIDE DEF v, n
<1>6. \A i \in 1 .. Len(v) : i = 1 \/ (i - 1 \in 1 .. n /\ v[i] = u[i - 1] /\ i = (i - 1) + 1)
  BY <1>4
<1>7. firstUsed' = FirstOf(v)
  BY <1>3, <1>4 DEF AllocSucceeds, FirstOf
<1>8. ASSUME NEW i \in 1 .. Len(v) PROVE next'[v[i]] = SuccessorIn(v, i)
  <2>1. CASE i = 1
    <3>1. next'[v[i]] = firstUsed
      BY <2>1, <1>2, <1>4 DEF AllocSucceeds, ListInv, TypeOK
    <3>2. firstUsed = SuccessorIn(v, 1)
      BY <1>1, <1>4 DEF Chain, FirstOf, SuccessorIn, n
    <3> QED
      BY <2>1, <3>1, <3>2
  <2>2. CASE i # 1
    <3>1. i - 1 \in 1 .. n /\ v[i] = u[i - 1]
      BY <1>6, <2>2
    <3>2. next'[v[i]] = next[u[i - 1]]
      BY <1>5, <3>1 DEF AllocSucceeds, ListInv, TypeOK
    <3>3. next[u[i - 1]] = SuccessorIn(u, i - 1)
      BY <1>1, <3>1 DEF Chain, n
    <3>4. SuccessorIn(u, i - 1) = SuccessorIn(v, i)
      BY <1>4, <3>1 DEF SuccessorIn, n
    <3> QED
      BY <3>2, <3>3, <3>4
  <2> QED
    BY <2>1, <2>2
<1>9. Injective(v)
  <2> SUFFICES ASSUME NEW i \in 1 .. Len(v), NEW j \in 1 .. Len(v), v[i] = v[j] PROVE i = j
    BY DEF Injective
  <2>1. (i = 1) <=> (j = 1)
    BY <1>4, <1>5, <1>6
  <2>2. CASE i # 1
    <3>1. u[i - 1] = u[j - 1] /\ i - 1 \in 1 .. n /\ j - 1 \in 1 .. n
      BY <1>6, <2>1, <2>2
    <3>2. i - 1 = j - 1
      BY <1>1, <3>1 DEF Chain, Injective, n
    <3> QED
      BY <3>2, <1>4
  <2> QED
    BY <2>1, <2>2
<1>10. {v[i] : i \in 1 .. Len(v)} = held'
  <2>1. held' = held \cup {new}
    BY DEF AllocSucceeds
  <2>2. \A i \in 1 .. Len(v) : v[i] \in held'
    BY <1>4, <1>5, <1>6, <2>1
  <2>3. ASSUME NEW e \in held PROVE \E i \in 1 .. Len(v) : v[i] = e
    <3>1. PICK j \in 1 .. n : u[j] = e
      BY <1>1 DEF Chain, n
    <3>2. j + 1 \in 1 .. Len(v) /\ v[j + 1] = e
      BY <1>4, <3>1
    <3> QED
      BY <3>2
  <2>4. 1 \in 1 .. Len(v)
    BY <1>4
  <2> QED
    BY <1>4, <2>1, <2>2, <2>3, <2>4
<1> QED
  BY <1>3, <1>7, <1>8, <1>9, <1>10 DEF Chained, Chain

\* free() takes an element out of the chain, wherever it is.
LEMMA FreeChained ==
  ASSUME ListInv, NEW e \in Elements, Free(e), Chained PROVE Chained'
<1>1. PICK u \in Seq(Elements) : Chain(u)
  BY DEF Chained
<1> DEFINE n == Len(u)
<1>2. PICK k \in 1 .. n : u[k] = e
  BY <1>1 DEF Free, Chain
<1> DEFINE v == [i \in 1 .. n - 1 |-> IF i < k THEN u[i] ELSE u[i + 1]]
           at(i) == IF i < k THEN i ELSE i + 1
<1>3. n \in Nat /\ n \in 1 .. n
  BY <1>2
<1>4. v \in Seq(Elements) /\ Len(v) = n - 1
  BY <1>3
<1>5. \A i \in 1 .. n - 1 : v[i] = u[at(i)] /\ at(i) \in 1 .. n /\ at(i) # k
  BY <1>2, <1>3
<1>6. \A j \in 1 .. n : j = k \/ \E i \in 1 .. n - 1 : at(i) = j
  <2> SUFFICES ASSUME NEW j \in 1 .. n, j # k PROVE \E i \in 1 .. n - 1 : at(i) = j
    OBVIOUS
  <2>1. CASE j < k
    <3>1. j \in 1 .. n - 1 /\ at(j) = j
      BY <1>2, <2>1
    <3> QED
      BY <3>1
  <2>2. CASE j > k
    <3>1. j - 1 \in 1 .. n - 1 /\ at(j - 1) = j
      BY <1>2, <2>2
    <3> QED
      BY <3>1
  <2> QED
    BY <1>2, <2>1, <2>2
<1>7. \A i, j \in 1 .. n - 1 : at(i) = at(j) => i = j
  BY <1>2
<1>8. /\ e \in held /\ NULL \notin held
      /\ \A i \in 1 .. n : u[i] \in held /\ u[i] \in Elements
  <2>1. e \in held /\ NULL \notin held
    BY DEF Free, ListInv, TypeOK, NULL, Elements
  <2>2. {u[i] : i \in 1 .. n} = held
    BY <1>1 DEF Chain
  <2> QED
    BY <2>1, <2>2
<1>9. next[e] = SuccessorIn(u, k) /\ firstUsed = u[1]
  BY <1>1, <1>2 DEF Chain, FirstOf
<1>10. k = 1 <=> prev[e] = NULL
  <2>1. prev[e] = NULL <=> e = firstUsed
    BY <1>8 DEF ListInv, UsedListLinked
  <2>2. 1 \in 1 .. n
    BY <1>3
  <2>3. u[1] = u[k] => 1 = k
    BY <1>1, <1>2, <2>2 DEF Chain, Injective
  <2> QED
    BY <1>2, <1>9, <2>1, <2>3
<1>11. k # 1 => prev[e] = u[k - 1]
  <2> SUFFICES ASSUME k # 1 PROVE prev[e] = u[k - 1]
    OBVIOUS
  <2>1. k - 1 \in 1 .. n /\ k - 1 # n /\ k - 1 + 1 = k
    BY <1>2
  <2>2. next[u[k - 1]] = e
    BY <1>1, <1>2, <2>1 DEF Chain, SuccessorIn
  <2>3. u[k - 1] \in held
    BY <1>8, <2>1
  <2> QED
    BY <1>8, <2>2, <2>3 DEF ListInv, UsedListLinked
<1> HIDE DEF v, at
<1>12. firstUsed' = FirstOf(v)
  <2>1. CASE n = 1
    <3>1. k = 1 /\ v = <<>>
      BY <1>2, <1>4, <2>1
    <3>2. firstUsed' = NULL
      BY <1>9, <1>10, <2>1, <3>1 DEF Free, SuccessorIn
    <3> QED
      BY <3>1, <3>2 DEF FirstOf
  <2>2. CASE n # 1
    <3>1. v # <<>> /\ v[1] = IF 1 < k THEN u[1] ELSE u[2]
      <4>1. 1 \in 1 .. n - 1 /\ Len(v) # 0
        BY <1>3, <1>4, <2>2
      <4>2. v # <<>>
        BY <4>1
      <4>3. v[1] = IF 1 < k THEN u[1] ELSE u[2]
        BY <4>1 DEF v
      <4> QED
        BY <4>2, <4>3
    <3>2. CASE k = 1
      BY <1>9, <1>10, <2>2, <3>1, <3>2 DEF Free, FirstOf, SuccessorIn
    <3>3. CASE k # 1
      BY <1>2, <1>9, <1>10, <3>1, <3>3 DEF Free, FirstOf
    <3> QED
      BY <3>2, <3>3
  <2> QED
    BY <2>1, <2>2
<1>13. ASSUME NEW i \in 1 .. Len(v) PROVE next'[v[i]] = SuccessorIn(v, i)
  <2>1. i \in 1 .. n - 1 /\ v[i] = u[at(i)] /\ at(i) \in 1 .. n /\ at(i) # k
    BY <1>4, <1>5
  <2>2. u[at(i)] # e /\ u[at(i)] \in Elements /\ u[at(i)] # NULL
    BY <1>1, <1>2, <1>8, <2>1 DEF Chain, Injective
  <2>3. next'[v[i]] = IF u[at(i)] = prev[e] THEN next[e] ELSE next[u[at(i)]]
    BY <2>1, <2>2 DEF Free
  <2>4. next[u[at(i)]] = SuccessorIn(u, at(i))
    BY <1>1, <2>1 DEF Chain
  <2>5. CASE i = k - 1
    <3>1. at(i) = i /\ k # 1 /\ i = k - 1
      BY <2>5, <1>2, <2>1 DEF at
    <3>2. u[at(i)] = prev[e]
      BY <1>11, <3>1
    <3>3. SuccessorIn(u, k) = SuccessorIn(v, i)
      <4>1. CASE k = n
        BY <1>4, <2>5, <4>1 DEF SuccessorIn
      <4>2. CASE k # n
        <5>1. i # n - 1 /\ i + 1 \in 1 .. n - 1 /\ i + 1 = k
          BY <1>2, <2>1, <2>5, <4>2
        <5>2. v[i + 1] = u[k + 1]
          BY <5>1 DEF v
        <5> QED
          BY <1>4, <4>2, <5>1, <5>2 DEF SuccessorIn
      <4> QED
        BY <4>1, <4>2
    <3> QED
      BY <1>9, <2>3, <3>2, <3>3
  <2>6. CASE i # k - 1
    <3>1. u[at(i)] # prev[e]
      <4>1. CASE k = 1
        BY <1>10, <2>2, <4>1
      <4>2. CASE k # 1
        <5>1. k - 1 \in 1 .. n /\ at(i) # k - 1
          BY <1>2, <2>1, <2>6, <4>2 DEF at
        <5> QED
          BY <1>1, <1>11, <2>1, <4>2, <5>1 DEF Chain, Injective
      <4> QED
        BY <4>1, <4>2
    <3>2. SuccessorIn(u, at(i)) = SuccessorIn(v, i)
      <4>1. CASE i = n - 1
        <5>1. at(i) = n
          BY <1>2, <2>1, <2>6, <4>1 DEF at
        <5> QED
          BY <1>4, <4>1, <5>1 DEF SuccessorIn
      <4>2. CASE i # n - 1
        <5>1. i + 1 \in 1 .. n - 1 /\ at(i + 1) = at(i) + 1 /\ at(i) # n
          BY <1>2, <2>1, <2>6, <4>2 DEF at
        <5>2. v[i + 1] = u[at(i + 1)]
          BY <1>5, <5>1
        <5> QED
          BY <1>4, <4>2, <5>1, <5>2 DEF SuccessorIn
      <4> QED
        BY <4>1, <4>2
    <3> QED
      BY <2>3, <2>4, <3>1, <3>2
  <2> QED
    BY <2>5, <2>6
<1>14. Injective(v)
  <2> SUFFICES ASSUME NEW i \in 1 .. Len(v), NEW j \in 1 .. Len(v), v[i] = v[j] PROVE i = j
    BY DEF Injective
  <2>1. i \in 1 .. n - 1 /\ j \in 1 .. n - 1
    BY <1>4
  <2>2. at(i) = at(j)
    BY <1>1, <1>5, <2>1 DEF Chain, Injective
  <2> QED
    BY <1>7, <2>1, <2>2
<1>15. {v[i] : i \in 1 .. Len(v)} = held'
  <2>1. held' = held \ {e}
    BY DEF Free
  <2>2. ASSUME NEW i \in 1 .. Len(v) PROVE v[i] \in held'
    <3>1. v[i] = u[at(i)] /\ at(i) \in 1 .. n /\ at(i) # k
      BY <1>4, <1>5
    <3> QED
      BY <1>1, <1>2, <1>8, <2>1, <3>1 DEF Chain, Injective
  <2>3. ASSUME NEW x \in held' PROVE \E i \in 1 .. Len(v) : v[i] = x
    <3>1. PICK j \in 1 .. n : u[j] = x
      BY <1>1, <2>1 DEF Chain
    <3>2. PICK i \in 1 .. n - 1 : at(i) = j
      BY <1>2, <1>6, <2>1, <3>1
    <3> QED
      BY <1>4, <1>5, <3>1, <3>2
  <2> QED
    BY <2>2, <2>3
<1> QED
  BY <1>4, <1>12, <1>13, <1>14, <1>15 DEF Chained, Chain

\* The used list is a chain in every state.
LEMMA ChainedCorrect == Spec => []Chained
<1>1. Init => Chained
  <2> DEFINE u == <<>>
  <2>1. u \in Seq(Elements) /\ Len(u) = 0
    OBVIOUS
  <2>2. ASSUME Init PROVE Chain(u)
    BY <2>1, <2>2 DEF Init, Chain, FirstOf, Injective
  <2> QED
    BY <2>1, <2>2 DEF Chained
<1>2. ListInv /\ Chained /\ [Next]_vars => Chained'
  <2> SUFFICES ASSUME ListInv, Chained, [Next]_vars PROVE Chained'
    OBVIOUS
  <2>1. CASE AllocFails
    BY <2>1 DEF AllocFails, lists, Chained, Chain
  <2>2. CASE AllocSucceeds
    BY <2>2, AllocChained
  <2>3. ASSUME NEW e \in Elements, Free(e) PROVE Chained'
    BY <2>3, FreeChained
  <2>4. CASE UNCHANGED vars
    BY <2>4 DEF vars, Chained, Chain
  <2> QED
    BY <2>1, <2>2, <2>3, <2>4 DEF Next, Alloc
<1> QED
  BY <1>1, <1>2, ListInvCorrect, PTL DEF Spec

\* A chain is no longer than the block.
LEMMA ChainFits ==
  ASSUME NEW u \in Seq(Elements), Injective(u) PROVE Len(u) \in 0 .. MaxElements
<1> DEFINE n == Len(u)
<1>1. n \in Nat /\ MaxElements \in Nat
  BY MaxElementsAssumption
<1>2. /\ IsFiniteSet(1 .. n) /\ IsFiniteSet(Elements)
      /\ Cardinality(1 .. n) = n /\ Cardinality(Elements) = MaxElements
  <2>1. 1 \in Int /\ n \in Int /\ MaxElements \in Int
    BY <1>1
  <2> HIDE DEF n
  <2>2. IsFiniteSet(1 .. n) /\ Cardinality(1 .. n) = IF 1 > n THEN 0 ELSE n - 1 + 1
    BY <2>1, FS_Interval
  <2>3. /\ IsFiniteSet(1 .. MaxElements)
        /\ Cardinality(1 .. MaxElements) = IF 1 > MaxElements THEN 0 ELSE MaxElements - 1 + 1
    BY <2>1, FS_Interval
  <2> QED
    BY <1>1, <2>2, <2>3 DEF Elements
<1>3. u \in [1 .. n -> Elements]
  OBVIOUS
<1>4. ~(MaxElements < n)
  <2> SUFFICES ASSUME MaxElements < n PROVE FALSE
    OBVIOUS
  <2>1. PICK i, j \in 1 .. n : i # j /\ u[i] = u[j]
    <3> HIDE DEF n
    <3> QED
      BY <1>2, <1>3, FS_PigeonHole
  <2> QED
    BY <2>1 DEF Injective
<1> QED
  BY <1>1, <1>4

\* A set of numbers that is not empty has a least one.
LEMMA LeastNumber ==
  ASSUME NEW T, T \subseteq Nat, T # {} PROVE \E x \in T : \A y \in T : x <= y
<1>1. IsWellFoundedOn({p \in Nat \X Nat : p[1] < p[2]}, Nat)
  BY NatLessThanWellFounded DEF OpToRel
<1>2. PICK x \in T : \A y \in T : <<y, x>> \notin {p \in Nat \X Nat : p[1] < p[2]}
  BY <1>1, WFMin
<1>3. ASSUME NEW y \in T PROVE x <= y
  <2>1. ~(y < x)
    BY <1>2
  <2> QED
    BY <2>1
<1> QED
  BY <1>3

\* GetFirst/GetNext go along the chain and then return NULL.
LEMMA WalkIsChain ==
  ASSUME NEW u \in Seq(Elements), Chain(u)
  PROVE  \A i \in 0 .. MaxElements : UsedWalk[i] = IF i < Len(u) THEN u[i + 1] ELSE NULL
<1> DEFINE n == Len(u)
           w == [i \in 0 .. MaxElements |-> IF i < n THEN u[i + 1] ELSE NULL]
           Step(f, i) == IF i = 0 THEN firstUsed
                         ELSE IF f[i - 1] = NULL THEN NULL ELSE next[f[i - 1]]
           Walk(f) == f = [i \in 0 .. MaxElements |-> Step(f, i)]
<1>1. n \in Nat /\ MaxElements \in Nat
  BY MaxElementsAssumption
<1>2. \A i \in 1 .. n : u[i] # NULL
  <2>1. \A i \in 1 .. n : u[i] \in Elements
    OBVIOUS
  <2> QED
    BY <2>1 DEF Elements, NULL
<1>3. ASSUME NEW i \in 0 .. MaxElements PROVE w[i] = Step(w, i)
  <2>1. CASE i = 0
    <3>1. w[0] = IF 0 < n THEN u[1] ELSE NULL
      BY <1>1
    <3>2. u = <<>> <=> n = 0
      OBVIOUS
    <3> QED
      BY <1>1, <2>1, <3>1, <3>2 DEF Chain, FirstOf
  <2>2. CASE i # 0
    <3>1. i - 1 \in 0 .. MaxElements /\ i - 1 + 1 = i /\ i \in Nat
      BY <1>1, <2>2
    <3>2. w[i - 1] = IF i - 1 < n THEN u[i] ELSE NULL
      BY <3>1
    <3>3. CASE i - 1 < n
      <4>1. i \in 1 .. n
        BY <2>2, <3>1, <3>3, <1>1
      <4>2. next[u[i]] = SuccessorIn(u, i)
        BY <4>1 DEF Chain
      <4>3. w[i] = SuccessorIn(u, i)
        BY <4>1, <1>1 DEF SuccessorIn
      <4> HIDE DEF w, n
      <4> QED
        BY <1>2, <2>2, <3>2, <3>3, <4>1, <4>2, <4>3
    <3>4. CASE ~(i - 1 < n)
      <4>1. ~(i < n)
        BY <1>1, <3>1, <3>4
      <4> QED
        BY <2>2, <3>2, <3>4, <4>1
    <3> QED
      BY <3>3, <3>4
  <2> QED
    BY <2>1, <2>2
<1>4. Walk(w)
  <2> DEFINE g == [i \in 0 .. MaxElements |-> Step(w, i)]
  <2>1. \A i \in 0 .. MaxElements : w[i] = g[i]
    BY <1>3
  <2> QED
    BY <2>1
<1> DEFINE walk == CHOOSE f : Walk(f)
<1>5. Walk(walk)
  <2> HIDE DEF Walk, w
  <2> QED
    BY <1>4
<1>6. UsedWalk = walk
  BY DEF UsedWalk
<1>7. \A i \in 0 .. MaxElements : walk[i] = Step(walk, i)
  <2> HIDE DEF walk
  <2> QED
    BY <1>5
<1> HIDE DEF walk, w
<1> DEFINE Bad == {i \in 0 .. MaxElements : walk[i] # w[i]}
<1>8. Bad = {}
  <2> SUFFICES ASSUME Bad # {} PROVE FALSE
    OBVIOUS
  <2>1. Bad \subseteq Nat
    OBVIOUS
  <2>2. PICK i \in Bad : \A j \in Bad : i <= j
    <3> HIDE DEF Bad
    <3> QED
      BY <2>1, LeastNumber
  <2>3. i \in 0 .. MaxElements /\ walk[i] # w[i]
    BY <2>2
  <2>4. CASE i = 0
    BY <1>3, <1>7, <2>3, <2>4
  <2>5. CASE i # 0
    <3>1. i - 1 \in 0 .. MaxElements /\ ~(i <= i - 1)
      BY <1>1, <2>3, <2>5
    <3>2. walk[i - 1] = w[i - 1]
      BY <2>2, <3>1
    <3> QED
      BY <1>3, <1>7, <2>3, <2>5, <3>2
  <2> QED
    BY <2>4, <2>5
<1> QED
  BY <1>6, <1>8 DEF w

\* GetFirst/GetNext visit every held element once and then return NULL: the
\* used list never splits into a chain and a cycle beside it.
THEOREM UsedListIsChain == Spec => []UsedListReachesAll
<1>1. ListInv /\ Chained => UsedListReachesAll
  <2> SUFFICES ASSUME ListInv, Chained PROVE UsedListReachesAll
    OBVIOUS
  <2>1. PICK u \in Seq(Elements) : Chain(u)
    BY DEF Chained
  <2> DEFINE n == Len(u)
  <2>2. n \in 0 .. MaxElements /\ MaxElements \in Nat
    BY <2>1, ChainFits, MaxElementsAssumption DEF Chain
  <2>3. \A i \in 0 .. MaxElements : UsedWalk[i] = IF i < n THEN u[i + 1] ELSE NULL
    BY <2>1, WalkIsChain
  <2>4. UsedWalk[MaxElements] = NULL
    BY <2>2, <2>3
  <2>5. ASSUME NEW i \in 0 .. MaxElements, UsedWalk[i] # NULL PROVE UsedWalk[i] \in held
    <3>1. i < n /\ i + 1 \in 1 .. n
      BY <2>2, <2>3, <2>5
    <3> QED
      BY <2>1, <2>3, <3>1 DEF Chain
  <2>6. ASSUME NEW e \in held PROVE e # NULL /\ \E i \in 0 .. MaxElements : UsedWalk[i] = e
    <3>1. PICK j \in 1 .. n : u[j] = e
      BY <2>1 DEF Chain
    <3>2. j - 1 \in 0 .. MaxElements /\ j - 1 < n /\ j - 1 + 1 = j
      BY <2>2
    <3>3. UsedWalk[j - 1] = e
      BY <2>3, <3>1, <3>2
    <3> QED
      BY <3>2, <3>3 DEF ListInv, TypeOK, Elements, NULL
  <2>7. {UsedWalk[i] : i \in 0 .. MaxElements} \ {NULL} = held
    BY <2>5, <2>6
  <2> QED
    BY <2>4, <2>7 DEF UsedListReachesAll
<1> QED
  BY <1>1, ListInvCorrect, ChainedCorrect, PTL
=============================================================================
