SPECIFICATION RunnerSpec
CONSTANTS
  Rollouts = {r1}
  Workers = {w1, w2}
  None = None
  Unset = Unset
  Configs <- OnlyWatchful
  UpdateStatuses <- NoStatus
  ReportStatuses <- RunnerReports
  ManualAttempts = FALSE
  ConfigUpdates = FALSE
  AttemptBound = 2
  Unreliable = TRUE
  Retries = 1
  Crashes = TRUE
  Cancellable = TRUE
  LateSpans = TRUE
SYMMETRY Symmetry
INVARIANTS AttemptsAreExclusive RetryBudget StatusAgreement
PROPERTIES Spec
