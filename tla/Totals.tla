------------------------------- MODULE Totals -------------------------------
(* The sum of a function's values, counted as a set of units, so that the   *)
(* facts about finite sets apply to it.                                     *)
EXTENDS Naturals, FiniteSets

(* One unit per x and number up to f[x]. *)
Units(f) == UNION {{x} \X (1..f[x]) : x \in DOMAIN f}

Total(f) == Cardinality(Units(f))
=============================================================================
