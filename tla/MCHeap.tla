------------------------------- MODULE MCHeap -------------------------------
(***************************************************************************)
(* Small instances of Heap: three levels of the tree need four items.      *)
(***************************************************************************)
EXTENDS Heap, TLC

MCHeapSym == Permutations(Ref)
=============================================================================
