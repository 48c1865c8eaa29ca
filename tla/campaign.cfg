SPECIFICATION FairSpec
CONSTANTS
  Scenarios = {"seq", "rand"}
  Targets = {"nvme", "lustre"}
  Bindings <- DistinctBindings
  NumJobs <- JobCounts
  CleanupModes = {"after_campaign", "after_each_run", "never"}
  MaxRuns = 2
  MaxSessions = 2
  MaxCrashes = 1
  MaxEmpty = 1
INVARIANTS
  TypeOK
  OkRunMeasuredEveryBinding
  OkRowRanEveryJob
  AfterCampaignCleaned
PROPERTIES
  SamplesNeverReplaced
  LedgerSpec
  UncrashedRunSettles
