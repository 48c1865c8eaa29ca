SPECIFICATION Spec
CONSTANTS
  NumPrompts = 2
  ChunkSize = 2
  TotalPerNode = 2
  Concurrency = 1
  FlushEvery = 2
  MaxGens = 1
  MaxLaunches = 1
  MaxFaults = 1
PROPERTY NoLaunchAfterSigint
CHECK_DEADLOCK FALSE
