SPECIFICATION FairWaiterSpec
CONSTANTS
  Rollouts = {r1}
  Workers = {w1, w2}
  None = None
  Unset = Unset
  Configs <- OnlyTimed
  UpdateStatuses <- Cancellation
  ReportStatuses <- RunnerReports
  ManualAttempts = FALSE
  ConfigUpdates = FALSE
  AttemptBound = 2
  Unreliable = TRUE
  Retries = 0
  Crashes = TRUE
  Cancellable = FALSE
  LateSpans = FALSE
INVARIANTS SuccessIsEarned
PROPERTIES EveryRolloutEnds EveryWaitEnds
