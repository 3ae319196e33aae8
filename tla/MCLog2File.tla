----------------------------- MODULE MCLog2File -----------------------------
(* Log2File for TLC: all threads, and all consumers, are alike. *)
EXTENDS Log2File

Symmetry == Permutations(Thread) \union Permutations(Consumer)
=============================================================================
