SPECIFICATION Spec
CONSTANTS
  BlockSize = 2
  FirstChunk = 4
  HardChunk = 8
  MaxBytes = 16
  FloppyTracks = 3
  FloppyBlocks = 4
  Samples = 3
  TargetUs = 2
  MaxUs = 3
  UsPerSecond = 4
  MaxRate = 12
  BlockWrap = 64
  OffsetLimit = 34
  Durations <- MCDurations
  Drives <- MCTinyFarDrive
INVARIANT NoWrappedWarmUp
