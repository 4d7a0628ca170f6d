SPECIFICATION Spec
CONSTANTS
  ch0 = ch0
  ch1 = ch1
  AD7606SAMPLEPOINTS = 2
  ADfrequence = 4
  WavePoints = 3
  Channel <- MCChannel
  SendChannel <- MCChannel
  sparse_index <- MCSparse
  MaxSamples = 10
  MaxLost = 3
INVARIANTS
  TypeOK
  EverySampleOnce
  WaveEquallySpaced
  BlockIsOneSecond
