CONSTANTS
  isReconnect = TRUE
  MaxLong = 1
  MaxWrites = 2
SPECIFICATION FairSpec
INVARIANTS WriteDiscipline OneReader OneHeartbeatChain RecoveryPending
PROPERTIES ReconnectsAgain DeadServerNoticed
