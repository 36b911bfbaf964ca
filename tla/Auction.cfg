SPECIFICATION Spec
CONSTANTS
  i1 = i1
  i2 = i2
  t1 = t1
  t2 = t2
  Item <- MCItem
  Task <- MCTask
  Memory <- MCMemory
  Disk <- MCDisk
  RootFS <- MCRootFS
  Tags <- MCTags
  Drivers <- MCDrivers
  TotalMemory = 4
  TotalDisk = 12
  TotalContainers = 3
  StackSets <- MCStackSets
  ArbitraryRootFSes <- MCArbitrary
  RequiredTags = {}
  OptionalTags <- MCOptional
  CellDrivers <- MCCellDrivers
  Half = 5
  Weight = 1
  MaxAuctions = 2
  MaxFaults = 1
  MaxRestarts = 1
CHECK_DEADLOCK FALSE
INVARIANTS
  TypeOK
  WorkAccounted
  PromiseKept
PROPERTIES
  PlacingMovesScores
