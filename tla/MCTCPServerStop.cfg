SPECIFICATION FairSpec
CONSTANTS
  t1 = t1
  t2 = t2
  t3 = t3
  c1 = c1
  None = None
  Task <- OneTask
  Client <- OneClient
  Expected <- ExpectAll
  InitMayFail = FALSE
  AcceptMayFail = FALSE
PROPERTIES StopReturns
CHECK_DEADLOCK FALSE
