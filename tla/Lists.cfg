SPECIFICATION Spec
CHECK_DEADLOCK FALSE
CONSTANTS
  ListNames <- MCListNames
  GrowStep = 2
  MaxItems <- MCMaxItems
  Zero = Zero
  Targets = 2
  Nodes <- MCNodes
  Ports <- MCPorts
  MaxHeaders = 3
  Smallest = 2
  Largest = 4
  Cards <- MCCards
  PciCards <- MCPciCards
  ExecNodes <- MCExecNodes
  Special <- MCSpecial
  Mappings = 1
  Hints = 2
  MaxPrograms = 2
  Inputs = 3
  Scenarios <- MCScenarios
INVARIANTS
  ListsWhole
  NothingHeld
  VolumeOfItsDevice
  StackNamed
  NoStaleRow
