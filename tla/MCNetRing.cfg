SPECIFICATION Spec
CONSTANTS
  NetReceiveBufSize = 3
  Data <- MCData
  MaxPbufLen = 3
  MaxPbufs = 2
  MaxBytes = 6
INVARIANTS
  TypeOK
  CopyWithinPbuf
  ParsedSlotStable
PROPERTIES
  RingIsFifo
CHECK_DEADLOCK FALSE
