SPECIFICATION WaiterSpec
CONSTANTS
  Rollouts = {r1}
  Workers = {w1}
  None = None
  Unset = Unset
  Configs <- OnlyTimed
  UpdateStatuses <- Cancellation
  ReportStatuses <- RunnerReports
  ManualAttempts = FALSE
  ConfigUpdates = FALSE
  AttemptBound = 2
  Unreliable = FALSE
  Retries = 1
  Crashes = FALSE
  Cancellable = FALSE
  LateSpans = FALSE
INVARIANT NothingOnlyAfterTimeout
