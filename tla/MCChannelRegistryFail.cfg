SPECIFICATION FairSpec
CONSTANTS
  th1 = th1
  th2 = th2
  th3 = th3
  t1 = t1
  t2 = t2
  Thread <- MCThread
  Task <- MCTask
  MaxCalls = 4
  InitMayFail = TRUE
  Address = {a1, a2}
  NLists = 2
  nullptr = nullptr
PROPERTIES CreateReturns
CHECK_DEADLOCK FALSE
