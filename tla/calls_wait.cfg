SPECIFICATION CallsOnly
CONSTANTS
  r1 = r1
  r2 = r2
  s3 = s3
  s1 = s1
  s2 = s2
  Rollouts = {r1, r2}
  Spans = {s1, s2, s3}
  ByStartTime <- Older
  SizeOf <- Sizes
  EvictionThreshold = 5
  SafeThreshold = 2
  SequenceBound = 2
  Callers = {c1, c2, c3}
  c1 = c1
  c2 = c2
  c3 = c3
  MaxTries = 2
  Plans <- MCPlans
  Backends = {"memory", "threaded"}
  Values <- MCValues
  Fold <- MCFold
  MaxItems = 2
INVARIANT ReportStands
CHECK_DEADLOCK FALSE
