SPECIFICATION ServingSpec
CONSTANTS
  MaxStarts = 2
  Requests = {q1, q2}
  q1 = q1
  q2 = q2
  Attempts = {a1}
  Threads = {t1, t2}
  Direct = Direct
  Spans <- MCSpans
  Texts <- MCTexts
  ContentSize = 2
  ArgumentSize = 3
  ChunkWords = 1
  MaxBlocks = 2
INVARIANTS OnlyTheStubbornRemain ConfigWhileServing StoredUnderOwnIds KeptOnceStarted StreamIsComplete
PROPERTIES CallsEnd
CHECK_DEADLOCK FALSE
