SPECIFICATION Spec
CONSTANTS
  Consumer = {c1, c2}
  Block = {b1, b2, b3, b4}
  Null = Null
  BLOCK_SIZE = 2
  INITIAL_INDEX_SIZE = 2
  EnqueueSize = {3}
  DequeueSize = {1, 2}
  MaxTail = 9
  MaxFails = 1
  MaxCount = 3
SYMMETRY Symmetry
INVARIANTS BlocksInOnePlace FindsItsBlock
PROPERTY ImplementsQueue
CHECK_DEADLOCK FALSE
