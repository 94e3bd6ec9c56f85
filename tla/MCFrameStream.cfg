SPECIFICATION FrameFairSpec
CONSTANTS
  Byte <- MCByte
  Junk = junk
  N0 = 6
  MaxN = 24
  MaxLen = 4
  Nibble = 2
  LenW = 2
  Digits = 1
  Scripts <- MCScripts
  MayFail = TRUE
INVARIANTS FrameTypeOK MailboxesExact NoCrash
PROPERTIES GoodArrive
CHECK_DEADLOCK FALSE
