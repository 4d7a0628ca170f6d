SPECIFICATION Spec
CONSTANTS
  MaxTelLength = 4
  Command <- MCCommand
  RxByte <- MCRxByte
  SN <- MCSN
INVARIANTS
  SumChecked
