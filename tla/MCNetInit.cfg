SPECIFICATION FairNetSpec
CONSTANTS
  Node <- MCNode
  Port <- MCPort
  MayFail = TRUE
INVARIANTS TypeOK RolesLinked LinksAgree UpIsLinked
PROPERTIES ComesUp
CHECK_DEADLOCK FALSE
