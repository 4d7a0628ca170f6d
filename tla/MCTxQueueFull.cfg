SPECIFICATION Spec
CONSTANTS
  tlv = tlv
  dataprocess = dataprocess
  Writer <- MCWriter
  TxdBufLine = 3
  NetReceiveBufSize = 6
  BufLines = 7
  MaxFrames = 8
INVARIANTS
  FullQueueRefuses
