SPECIFICATION FairSpec
CONSTANTS
  EventKeys = {"die/a", "start/a"}
  MaxReplay = 2
  BufferSize = 3
  MaxLog = 4
  MaxTime = 4
  MaxFaults = 2
INVARIANTS TypeOK NoGap
PROPERTIES NeverTwice EveryEventHandled
