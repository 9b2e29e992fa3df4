\* Three connections, a queue of two events.
CONSTANTS
  Sessions = {s1, s2, s3}
  NoSession = NoSession
  QueueLen = 2
  MaxBatch = 1
  MaxSia = 1
SPECIFICATION Spec
SYMMETRY SessionSymmetry
CHECK_DEADLOCK FALSE
INVARIANTS
  LinkInv
  DeadLinkIsReported
  QueryNeverWaitsOnQueue
  OldOnesAreStopped
PROPERTIES
  LinkDroppedOnlyWhenClosed
  LinkServiceSpec
