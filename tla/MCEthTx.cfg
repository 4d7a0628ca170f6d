SPECIFICATION Spec
CONSTANTS
  ETH_TX_DESC_CNT = 3
  Modes = {"full100", "half10"}
  DefaultMode = "full100"
  MaxFrames = 3
  MaxChanges = 2
INVARIANTS
  TypeOK
  RingInStep
PROPERTIES
  FramesWhole
  RingDrains
  FollowsPhy
