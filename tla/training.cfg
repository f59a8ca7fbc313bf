SPECIFICATION TrainingSpec
CONSTANTS
  Runners = {w1, w2}
  MaxInterrupts = 2
  t1 = t1
  t2 = t2
  t3 = t3
  Batches <- MCBatches
  Clients = {c1, c2}
  Idle = Idle
  MaxCrashes = 2
  BeamWidth = 2
  BranchFactor = 1
  BeamRounds = 2
  Scores = {0, 1}
  Traces <- MCTraces
  None = None
  Lost = Lost
  Root = Root
INVARIANTS OutcomeIsTrue NothingLeftBehind AlgorithmRunsToItsEnd TasksAreKept BatchIsOwn RankedOnOneBatch BestOfTheWhole NothingIsLost RewardsFindTheirCalls
PROPERTIES StopLeadsToTheEnd BatchesFinish
CHECK_DEADLOCK FALSE
