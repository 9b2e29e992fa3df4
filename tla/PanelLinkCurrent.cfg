\* A superseded connection's Ready arrives after its successor's.
CONSTANTS
  Sessions = {s1, s2}
  NoSession = NoSession
  QueueLen = 2
  MaxBatch = 1
  MaxSia = 0
SPECIFICATION Spec
CHECK_DEADLOCK FALSE
INVARIANTS CurrentSessionIsLink
