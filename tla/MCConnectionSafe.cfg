SPECIFICATION Spec
CONSTANTS
  t1 = t1
  t2 = t2
  Task = {t1, t2}
  NoTask = noTask
  MaxRounds <- Twice
  MaxSends <- First
  MaxRecvs <- Zero
  Scripts <- TwoRounds
  MaxLost = 1
CHECK_DEADLOCK FALSE
INVARIANTS
  TypeOK
  OneWorker
  StreamOrder
  ArrivalOrder
  CloseSendsAll
  RoundsPaired
