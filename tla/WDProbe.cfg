SPECIFICATION Spec
CONSTANTS
  ProbeEnd = 2
  RecoverEnd = 5
  PollLimit = 4
  Ticks <- MCTicks
  LongestLook = 1
  Rates <- MCRates
  ValidRates <- MCValidRates
  Types <- MCTypes
  StuckSets <- MCStuckSets
INVARIANTS
  IntactForDriver
  Balanced
  MaskedInTime
PROPERTIES
  Exclusive
  FailureIsFinal
  Unmasks
