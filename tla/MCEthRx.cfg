SPECIFICATION Spec
CONSTANTS
  ETH_RX_DESC_CNT = 3
  PoolSize = 2
  MaxFrames = 5
INVARIANTS
  TypeOK
  DescriptorsInOrder
  
  BufferIntactForARound

  
