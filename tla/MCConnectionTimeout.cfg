SPECIFICATION FairSpec
CONSTANTS
  t1 = t1
  t2 = t2
  Task = {t1, t2}
  NoTask = noTask
  MaxRounds <- First
  MaxSends <- Zero
  MaxRecvs <- First
  Scripts <- LockScripts
  MaxLost = 0
CHECK_DEADLOCK FALSE
PROPERTIES
  RecvReturns
