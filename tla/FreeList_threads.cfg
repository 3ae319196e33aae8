SPECIFICATION Spec
CONSTANTS
  Thread = {t1, t2, t3}
  Node = {n1, n2, n3}
  None = None
INVARIANTS OnePlace NextIsCurrent
SYMMETRY Symmetry
