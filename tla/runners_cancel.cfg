SPECIFICATION RunnerSpec
CONSTANTS
  Rollouts = {r1}
  Workers = {w1}
  None = None
  Unset = Unset
  Configs <- OnlyOneShot
  UpdateStatuses <- NoStatus
  ReportStatuses <- RunnerReports
  ManualAttempts = FALSE
  ConfigUpdates = FALSE
  AttemptBound = 1
  Unreliable = FALSE
  Retries = 1
  Crashes = FALSE
  Cancellable = TRUE
  LateSpans = FALSE
INVARIANT SuccessIsEarned
