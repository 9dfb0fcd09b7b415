SPECIFICATION Spec
CONSTANTS
  Callers = {"incident", "question", "digest"}
  WithTools = {"incident", "question"}
  MaxPerHour = 2
  Hour = 2
  MaxSteps = 2
  Kinds = {"stranger", "command", "question"}
  Stale = 1
  MaxMessages = 2
  MaxTime = 2
  MaxCrashes = 1
INVARIANTS SpendBounded EachInTurn
PROPERTIES RefusedOnlySpent EveryMessageHandled
