CONSTANTS
  Producer = {p1, p2}
  Consumer = {c1, c2, c3}
  EnqueueSize = {1, 2}
  DequeueSize = {1, 2}
  MaxItems = 2
SPECIFICATION FairSpec
INVARIANTS GrantedIsThere NoLostWakeup
PROPERTY TimedWaitReturns
