SPECIFICATION NetSpec
CONSTANTS
  ETH_RX_DESC_CNT = 2
  PoolSize = 3
  MaxFrames = 4
  TCPIP_MBOX_SIZE = 3
  archMAX_MESG_QUEUE_LENGTH = 2
INVARIANTS
  NetTypeOK
  DeliveredInOrder
  EveryPbufSomewhere
PROPERTIES
  PbufsHandled
  TimersCalled
