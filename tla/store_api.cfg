SPECIFICATION Spec
CONSTANTS
  Rollouts = {r1}
  Workers = {w1}
  None = None
  Unset = Unset
  Configs <- EveryPolicy
  UpdateStatuses <- AnyStatus
  ReportStatuses <- AnyReport
  ManualAttempts = TRUE
  ConfigUpdates = TRUE
  AttemptBound = 2
INVARIANTS NoLostRollout RunningCacheExact BusyWorkerIsOnLiveAttempt
