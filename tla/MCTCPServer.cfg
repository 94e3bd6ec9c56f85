SPECIFICATION FairSpec
CONSTANTS
  t1 = t1
  t2 = t2
  t3 = t3
  c1 = c1
  None = None
  Task <- ThreeTasks
  Client <- OneClient
  Expected <- ExpectSome
  InitMayFail = TRUE
  AcceptMayFail = TRUE
INVARIANTS TypeOK OneLoop NoUseAfterClose
PROPERTIES EpollServed StopReturnsUnlessHung
CHECK_DEADLOCK FALSE
