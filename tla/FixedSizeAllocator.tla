-------------------------- MODULE FixedSizeAllocator --------------------------
(***************************************************************************)
(* FixedSizeAllocator<USER_TYPE> of fsa.h: one block of MaxElements        *)
(* elements, threaded on two doubly linked lists, the free list and the    *)
(* used list.  An element is a pointer into the block, NULL is 0.          *)
(*                                                                         *)
(* A freed element keeps its old pPrev when the free list was not empty    *)
(* (fsa.h:187-193), so pPrev means nothing on the free list; free() takes  *)
(* the pointer on trust (fsa.h:155-159), so the client is modelled by the  *)
(* set of elements it holds and frees only those.                          *)
(***************************************************************************)
EXTENDS Naturals, Sequences, FiniteSets

CONSTANT MaxElements

ASSUME MaxElementsAssumption == MaxElements \in Nat \ {0}

Elements == 1 .. MaxElements
NULL == 0
Pointers == Elements \cup {NULL}

VARIABLES
  firstFree,    \* m_pFirstFree
  firstUsed,    \* m_pFirstUsed
  prev,         \* pPrev of every element
  next,         \* pNext of every element
  ret,          \* what the last alloc() returned
  held,         \* history: the elements the client holds
  freeOrder     \* history: the free elements, last freed first

lists == <<firstFree, firstUsed, prev, next>>
vars == <<firstFree, firstUsed, prev, next, ret, held, freeOrder>>

-----------------------------------------------------------------------------
\* Faulty variant of Init: the last element's pNext is not reset to NULL.
InitUnterminated == /\ firstFree = 1 /\ firstUsed = NULL /\ ret = NULL
                    /\ prev = [e \in Elements |-> e - 1]
                    /\ next = [e \in Elements |-> e + 1]
                    /\ held = {} /\ freeOrder = [i \in Elements |-> i]

\* The constructor links all the elements on the free list in address order.
Init == /\ firstFree = 1
        /\ firstUsed = NULL
        /\ prev = [e \in Elements |-> e - 1]
        /\ next = [e \in Elements |-> IF e = MaxElements THEN NULL ELSE e + 1]
        /\ ret = NULL
        /\ held = {}
        /\ freeOrder = [i \in Elements |-> i]

\* Faulty variant of AllocFails: the last free element is never handed out.
AllocFailsEarly == /\ firstFree = NULL \/ next[firstFree] = NULL
                   /\ ret' = NULL
                   /\ UNCHANGED <<lists, held, freeOrder>>

AllocFails == /\ firstFree = NULL
              /\ ret' = NULL
              /\ UNCHANGED <<lists, held, freeOrder>>

\* Faulty variant of AllocSucceeds: the old head of the used list does not
\* point back to the new one.
AllocWithoutBackLink ==
  LET new == firstFree
      rest == next[new]
  IN  /\ new # NULL
      /\ firstFree' = rest /\ firstUsed' = new /\ ret' = new
      /\ prev' = [e \in Elements |-> IF e \in {new, rest} THEN NULL ELSE prev[e]]
      /\ next' = [next EXCEPT ![new] = firstUsed]
      /\ held' = held \cup {new} /\ freeOrder' = Tail(freeOrder)

\* The first free element leaves the free list and becomes the head of the
\* used list.
AllocSucceeds ==
  LET new == firstFree
      rest == next[new]
  IN  /\ new # NULL
      /\ firstFree' = rest
      /\ prev' = [e \in Elements |-> IF e = firstUsed THEN new
                                     ELSE IF e \in {new, rest} THEN NULL
                                     ELSE prev[e]]
      /\ next' = [next EXCEPT ![new] = firstUsed]
      /\ firstUsed' = new
      /\ ret' = new
      /\ held' = held \cup {new}
      /\ freeOrder' = Tail(freeOrder)

Alloc == AllocFails \/ AllocSucceeds

\* Faulty variants of Free: the head of the used list stays when it is freed;
\* the freed element is not linked to the old free list.
FreeKeepsFirstUsed(e) ==
  /\ e \in held /\ held' = held \ {e}
  /\ next' = [x \in Elements |-> IF x = e THEN firstFree
                                 ELSE IF x = prev[e] THEN next[e] ELSE next[x]]
  /\ prev' = [x \in Elements |-> IF x = next[e] THEN prev[e] ELSE prev[x]]
  /\ firstFree' = e /\ freeOrder' = <<e>> \o freeOrder
  /\ UNCHANGED <<firstUsed, ret>>

FreeUnlinked(e) ==
  /\ e \in held /\ held' = held \ {e}
  /\ firstUsed' = IF prev[e] = NULL THEN next[e] ELSE firstUsed
  /\ next' = [x \in Elements |-> IF x = prev[e] THEN next[e] ELSE next[x]]
  /\ prev' = [x \in Elements |-> IF x = next[e] THEN prev[e] ELSE prev[x]]
  /\ firstFree' = e /\ freeOrder' = <<e>> \o freeOrder
  /\ UNCHANGED ret

\* free(e): e is unlinked from the used list and pushed on the free list.
Free(e) ==
  /\ e \in held
  /\ firstUsed' = IF prev[e] = NULL THEN next[e] ELSE firstUsed
  /\ next' = [x \in Elements |-> IF x = e THEN firstFree
                                 ELSE IF x = prev[e] THEN next[e]
                                 ELSE next[x]]
  /\ prev' = [x \in Elements |-> IF x = firstFree THEN e
                                 ELSE IF x = e /\ firstFree = NULL THEN NULL
                                 ELSE IF x = next[e] THEN prev[e]
                                 ELSE prev[x]]
  /\ firstFree' = e
  /\ held' = held \ {e}
  /\ freeOrder' = <<e>> \o freeOrder
  /\ UNCHANGED ret

Next == Alloc \/ \E e \in Elements : Free(e)

Spec == Init /\ [][Next]_vars

-----------------------------------------------------------------------------
\* Every link is a pointer into the block or NULL.
TypeOK == /\ firstFree \in Pointers
          /\ firstUsed \in Pointers
          /\ prev \in [Elements -> Pointers]
          /\ next \in [Elements -> Pointers]
          /\ ret \in Pointers
          /\ held \subseteq Elements
          /\ freeOrder \in Seq(Elements)

FirstOf(list) == IF list = <<>> THEN NULL ELSE list[1]
SuccessorIn(list, i) == IF i = Len(list) THEN NULL ELSE list[i + 1]
Injective(list) == \A i, j \in 1 .. Len(list) : list[i] = list[j] => i = j

\* The free list, followed through m_pFirstFree and pNext, is exactly the
\* elements the client does not hold, each once, last freed first
\* (fsa.h:114-196): no element is lost, listed twice, or both free and used,
\* whatever order the client frees in.
FreeListIntact ==
  /\ firstFree = FirstOf(freeOrder)
  /\ \A i \in 1 .. Len(freeOrder) : next[freeOrder[i]] = SuccessorIn(freeOrder, i)
  /\ Injective(freeOrder)
  /\ {freeOrder[i] : i \in 1 .. Len(freeOrder)} = Elements \ held

\* The used list is doubly linked: pPrev and pNext of the held elements are
\* inverse of each other and only the head has no predecessor, so free() can
\* take any element out of the middle (fsa.h:165-178).
UsedListLinked ==
  /\ firstUsed \in held \cup {NULL}
  /\ \A e \in held :
       /\ next[e] \in held \cup {NULL}
       /\ prev[e] \in held \cup {NULL}
       /\ next[e] # NULL => prev[next[e]] = e
       /\ prev[e] # NULL => next[prev[e]] = e
       /\ prev[e] = NULL <=> e = firstUsed

\* The iteration GetFirst(), GetNext(), ... (fsa.h:224-235) as a function of
\* the number of GetNext() calls.
UsedWalk == LET walk[i \in 0 .. MaxElements] ==
                  IF i = 0 THEN firstUsed
                  ELSE IF walk[i - 1] = NULL THEN NULL ELSE next[walk[i - 1]]
            IN  walk

\* GetFirst/GetNext visit every held element once and then return NULL: the
\* used list never splits into a chain and a cycle beside it.
UsedListReachesAll ==
  /\ {UsedWalk[i] : i \in 0 .. MaxElements} \ {NULL} = held
  /\ UsedWalk[MaxElements] = NULL

-----------------------------------------------------------------------------
\* The allocator implements the LIFO pool of elements that AStarSearch uses:
\* the linked free list is the pool's list (fsa.h:114-196).
Pool == INSTANCE LifoPool WITH free <- freeOrder, ret <- ret
ImplementsPool == Pool!Spec
=============================================================================
