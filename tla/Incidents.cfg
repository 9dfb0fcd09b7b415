SPECIFICATION FairSpec
CONSTANTS
  Keys = {"web"}
  Escalating = {}
  OneOffs = {"db", "host"}
  Silenceable = {"db"}
  GroupWait = 1
  Window = 2
  BatchQueue = 1
  AnalyzeBatch = 2
  MaxEarlier = 2
  HistoryAlerts = 2
  MaxAlerts = 3
  MaxTime = 4
  SubjectsOf <- MCSubjects
INVARIANTS ExactlyOnce DeliveredInOrder ContextRight
PROPERTIES UpdateMeansSent EverythingDelivered
