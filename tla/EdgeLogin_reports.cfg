CONSTANTS
  Worker = {w1, w2}
  File = {f1}
  Garbage = Garbage
  OutCap = 2
SPECIFICATION FairSpec
INVARIANT OneReportChain
PROPERTY Reported
