----------------------------- MODULE MCFreeList -----------------------------
(* FreeList for TLC: all threads, and all nodes, play the same part. *)
EXTENDS FreeList, TLC

Symmetry == Permutations(Thread) \union Permutations(Node)
=============================================================================
