SPECIFICATION Spec
CONSTANTS
  Thread = {t1, t2, t3}
  INITIAL_HASH_SIZE = 2
  MaxFails = 1
  Consumer = {c1, c2}
  MaxLines = 3
  MaxDeaths = 1
SYMMETRY Symmetry
INVARIANTS OneProducerEach SlotFree LineInOnePlace PerThreadOrder
CHECK_DEADLOCK FALSE
