CONSTANTS
  Pid = {p1, p2}
  sharedMemoryCheck = TRUE
  MaxSeq = 2
  MaxFailed = 4
SPECIFICATION FairSpec
INVARIANTS OneInstance WatchesTheInstance
PROPERTIES Replaced HangKilled
