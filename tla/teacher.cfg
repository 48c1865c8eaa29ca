SPECIFICATION FairSpec
CONSTANTS
  NumPrompts = 3
  ChunkSize = 2
  TotalPerNode = 3
  Concurrency = 1
  FlushEvery = 2
  MaxGens = 2
  MaxLaunches = 2
  MaxFaults = 2
INVARIANTS
  TypeOK
  AtMostOneLine
  TornLinesAreKills
  CompleteMeansProgress
  CompleteCoversPrompts
PROPERTIES
  OrchestratorEnds
CHECK_DEADLOCK FALSE
