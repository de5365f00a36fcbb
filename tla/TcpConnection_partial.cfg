SPECIFICATION Spec
CONSTANTS
  t1 = t1
  Loop = Loop
  Others = {t1}
  MsgLen = 2
  HighWaterMark = 3
  InputRoom = 1
  SockRoom = 1
  SenderKeepsBuffer = TRUE
  MaxSends = 1
  MaxCloses = 1
  MaxRecv = 1
INVARIANTS StreamIsWhole
CHECK_DEADLOCK FALSE
