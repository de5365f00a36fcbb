SPECIFICATION Spec
CONSTANTS
  t1 = t1
  Loop = Loop
  Others = {t1}
  MsgLen = 2
  HighWaterMark = 0
  InputRoom = 1
  SockRoom = 1
  SenderKeepsBuffer = TRUE
  MaxSends = 2
  MaxCloses = 1
  MaxRecv = 0
INVARIANTS StreamIsWhole SenderOrder WriteInterest CompletionIsReported
CHECK_DEADLOCK FALSE
