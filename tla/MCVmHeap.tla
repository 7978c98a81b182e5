------------------------------ MODULE MCVmHeap ------------------------------
(* TLC instances of VmHeap. *)
EXTENDS VmHeap, TLC

Symmetry == Permutations(Threads)
=============================================================================
