SPECIFICATION Spec
CONSTANTS
  Runners = {w1, w2}
  MaxInterrupts = 1
INVARIANTS InterruptSetsStopEvt
CHECK_DEADLOCK FALSE
