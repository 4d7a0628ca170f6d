SPECIFICATION Spec
CONSTANTS
  MaxTelLength = 4
  Command <- MCCommand
  RxByte <- MCRxByte
  SN <- MCSN
INVARIANTS
  TypeOK
  BufferBounded
  HeaderChecked
  CommandIsTelegram
  CompleteWaitsOnlyAfterSumError
PROPERTIES
  LosesOnlyAfterSumError
