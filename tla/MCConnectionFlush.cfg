SPECIFICATION FlushSpec
CONSTANTS
  Task = {t1}
  NoTask = noTask
  MaxRounds <- One
  MaxSends <- One
  MaxRecvs <- Zero
  Scripts <- NoScript
  MaxLost = 0
CHECK_DEADLOCK FALSE
INVARIANTS
  FlushSends
