SPECIFICATION Spec
CONSTANTS
  n1 = n1
  n2 = n2
  n3 = n3
  Netconn <- MCNetconn
  MaxFrames = 2
INVARIANTS
  TypeOK
  BlockedWriteHasNetconn
  OwnedOrLeaked
  LedTruthful
PROPERTIES
  RecoversIfSenderYields
