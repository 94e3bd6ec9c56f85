SPECIFICATION FairSpec
CONSTANTS
  t1 = t1
  t2 = t2
  Task = {t1, t2}
  NoTask = noTask
  MaxRounds <- One
  MaxSends <- Zero
  MaxRecvs <- First
  Scripts <- OneScript
  MaxLost = 0
CHECK_DEADLOCK FALSE
PROPERTIES
  CallsReturn
  PutIsWritten
