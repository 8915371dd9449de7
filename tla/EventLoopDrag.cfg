SPECIFICATION Spec
CONSTANTS
  SoftwareRows <- MCSoftwareRows
  ListLines = 2
  HardwareCycle <- MCHardwareCycle
  HardwarePages <- MCHardwarePages
  HasScsi = FALSE
  Regions = 2
  Boards = 3
  BoardRows = 2
  Drives <- MCDrives
  DrivesPerPage = 2
  Visible = 2
  None = None
  QueueLimit = 2
  Posts = 7
  Breaks = 1
  Reports <- MCReports
  Positions <- MCPositions
  FieldSize = 3
INVARIANT DragHeld
CHECK_DEADLOCK FALSE
