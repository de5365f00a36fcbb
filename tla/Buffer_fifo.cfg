SPECIFICATION Spec
CONSTANTS
  x = x
  y = y
  Byte = {x, y}
  Zero = x
  BUFFER_RESERVED_LEN = 2
  BUFFER_INIT_LEN = 2
  MaxLen = 3
  MaxSize = 8
INVARIANTS PutFits EmptyIsReset
PROPERTIES GrowthIsBounded IsFifo
