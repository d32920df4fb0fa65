------------------------------- MODULE NodePool -------------------------------
(***************************************************************************)
(* The free list of a pool of MaxElements elements as a sequence, first    *)
(* element to hand out first, and what alloc() and free() of fsa.h do to   *)
(* it.  AStarSearch is written over these operators; LifoPool is the pool  *)
(* as a specification, and FixedSizeAllocator implements that one with     *)
(* linked lists.                                                           *)
(***************************************************************************)
EXTENDS Naturals, Sequences

CONSTANT MaxElements

Elements == 1 .. MaxElements
NULL == 0                     \* the C++ NULL, never an element

\* The constructor puts every element on the free list, in address order.
AllFree == [i \in Elements |-> i]

Listed(list) == {list[i] : i \in DOMAIN list}

\* alloc(): the head of the list, or NULL when there is none.
Allocated(list) == IF list = <<>> THEN NULL ELSE Head(list)
AfterAlloc(list) == IF list = <<>> THEN list ELSE Tail(list)

\* free(e): e becomes the head of the list.
AfterFree(list, e) == <<e>> \o list
=============================================================================
