------------------------ MODULE MCFixedSizeAllocator ------------------------
(* FixedSizeAllocator with a small block, for TLC.                         *)
EXTENDS FixedSizeAllocator
=============================================================================
