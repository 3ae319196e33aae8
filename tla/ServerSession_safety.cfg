CONSTANTS
  Session = {s1, s2}
  Sid = {a1}
  Type = {t1}
  NoType = NoType
  Threshold = 1
  MaxTimers = 1
  QueueCap = 2
  MaxLogins = 2
  MaxPub = 3
SPECIFICATION Spec
SYMMETRY SessionSymmetry
INVARIANTS OneHeartTimer InOrderOnce
PROPERTIES StrandedOnlyByRefusal ClosedLeavesNoRegistration
CHECK_DEADLOCK FALSE
