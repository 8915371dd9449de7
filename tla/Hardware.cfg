SPECIFICATION Spec
CONSTANTS
  Machines <- MCMachines
  Presses = 2
  Tampers = 2
INVARIANTS
  VectorsOwn
  CountKept
  LeftAsFound
  Identified
  ShownAsSet
