CONSTANTS
  Session = {s1}
  Sid = {a1}
  Type = {t1}
  NoType = NoType
  Threshold = 2
  MaxTimers = 1
  QueueCap = 2
  MaxLogins = 2
  MaxPub = 2
SPECIFICATION FairSpec
INVARIANT RegisteredHasEvictor
PROPERTIES EndsAfterError SilentRegistrationLapses NotificationSettles
CHECK_DEADLOCK FALSE
