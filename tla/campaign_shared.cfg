SPECIFICATION Spec
CONSTANTS
  Scenarios = {"seq"}
  Targets = {"nvme", "lustre"}
  Bindings <- SharedBindings
  NumJobs <- JobCounts
  CleanupModes = {"never"}
  MaxRuns = 1
  MaxSessions = 1
  MaxCrashes = 0
  MaxEmpty = 0
INVARIANT OkRunMeasuredEveryBinding
