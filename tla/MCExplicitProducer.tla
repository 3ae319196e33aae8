------------------------- MODULE MCExplicitProducer -------------------------
(* ExplicitProducer for TLC: all consumers, and all blocks, are alike. *)
EXTENDS ExplicitProducer, TLC

Symmetry == Permutations(Consumer) \union Permutations(Block)
=============================================================================
