SPECIFICATION Spec
CHECK_DEADLOCK FALSE
CONSTANTS
  Timers <- MCTimers
  Byte = 2
  Tries = 4
  Slack = 1
  Windows = 2
  PollLimit = 2
  PollBudget = 9
  ShortPairs = 1
  LongPairs = 2
  Rates <- MCRates
  ValidRates <- MCValidRates
  Dates <- MCDates
  Attempts = 3
  Depths <- MCDepths
  Jitter = 3
  RunCap = 30
  Floor = 7
  MaxCount = 16
  StepSize = 4
  Units <- MCUnits
  SlowTime = 3
  MaxLoops = 16
  MaxChunks = 4
  ChunkLimit = 9
  ChunkTarget = 6
  ChunkGoal = 12
  Settings <- MCSettings
  Uncached <- MCUncached
  MaxRounds = 1
  Triples = 2
  Batches = 2
  Multipliers = 2
  Scenarios <- MCScenarios
INVARIANTS
  GivenBack
  NotTorn
  Trusted
  SpeedCurrent
PROPERTIES
  CallsReturn
