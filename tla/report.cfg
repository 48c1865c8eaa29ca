SPECIFICATION Spec
CONSTANTS
  Files <- Versions
  Attempts = {0, 1}
  FileUnits = 40
  Ramp = 1
  Skew = 2
  Amounts <- ByThreads
  IosPerUnit = 3
  MaxIdle = 1
  MaxResumes = 1
INVARIANTS
  TypeOK
  RowsOfTheAttempt
  FlagMeansReread
  NoFlagMeansLittle
