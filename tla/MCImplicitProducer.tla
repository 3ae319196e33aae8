------------------------- MODULE MCImplicitProducer -------------------------
(* ImplicitProducer for TLC: all consumers, and all blocks, are alike. *)
EXTENDS ImplicitProducer, TLC

Symmetry == Permutations(Consumer) \union Permutations(Block)
=============================================================================
