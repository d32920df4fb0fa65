------------------------------- MODULE LifoPool -------------------------------
(***************************************************************************)
(* What FixedSizeAllocator (fsa.h) promises its client: a pool of a fixed  *)
(* number of elements in which a freed element is the next to be handed    *)
(* out, alloc() fails only when every element is out, and an element       *)
(* comes back only after it was handed out.                                *)
(***************************************************************************)
EXTENDS NodePool

VARIABLES
  free,                       \* the free list
  ret                         \* what the last alloc() returned

vars == <<free, ret>>

Init == free = AllFree /\ ret = NULL

Alloc == ret' = Allocated(free) /\ free' = AfterAlloc(free)

Free(e) == e \notin Listed(free) /\ free' = AfterFree(free, e) /\ UNCHANGED ret

Next == Alloc \/ \E e \in Elements : Free(e)

Spec == Init /\ [][Next]_vars
=============================================================================
