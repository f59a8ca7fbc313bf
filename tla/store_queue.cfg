SPECIFICATION FairSpec
CONSTANTS
  Rollouts = {r1, r2}
  Workers = {}
  None = None
  Unset = Unset
  Configs <- OnlyTimed
  UpdateStatuses <- Retry
  ReportStatuses <- RunnerReports
  ManualAttempts = FALSE
  ConfigUpdates = FALSE
  AttemptBound = 2
INVARIANTS NoDoubleEntry
PROPERTIES ImplementsWorkQueue QueuedIsServed TimeoutIsEnforced
