SPECIFICATION ResumingSpec
CONSTANTS
  Scenarios = {"seq", "rand"}
  Targets = {"nvme", "lustre"}
  Bindings <- DistinctBindings
  NumJobs <- JobCounts
  CleanupModes = {"never"}
  MaxRuns = 1
  MaxSessions = 1
  MaxCrashes = 1
  MaxEmpty = 0
PROPERTY InterruptedRunSettles
