SPECIFICATION StorageSpec
CONSTANTS
  None = None
  Torn = Torn
  SilenceIds = {"s1"}
  Matchers <- MCMatchers
  Durations = {2}
  WindowKeys = {}
  Alerts = {"a1"}
  Day = 2
  Every = 1
  Weekday = 0
  At = 1
  Change = 2
  OffsetBefore = 0
  OffsetAfter = 1
  Retention = 2
  MaxTime = 3
  MaxFaults = 1
INVARIANTS SilencesKept CountedOnce
PROPERTIES ImplementsAtomicFile
CHECK_DEADLOCK FALSE
