SPECIFICATION FairSpec
CONSTANTS
  Senders = {engine, digest}
  QueueSize = 1
  Attempts = 2
  MaxBodies = 2
  MaxOffered = 3
INVARIANTS CleanClose Accounted
CHECK_DEADLOCK FALSE
PROPERTIES CloseReturns
