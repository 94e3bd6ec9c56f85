SPECIFICATION FairSpec
CONSTANTS
  t1 = t1
  t2 = t2
  a1 = a1
  None = None
  Task = {t1, t2}
  Address = {a1}
  Client <- MCClient
  MayFail = TRUE
INVARIANTS TypeOK OneDial ClosedUnused SameLink
 
CHECK_DEADLOCK FALSE
