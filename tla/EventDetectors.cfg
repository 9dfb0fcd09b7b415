SPECIFICATION Spec
CONSTANTS
  SilenceIds = {s1}
  Matchers <- MCMatchers
  Durations = {2}
  WindowKeys <- MCWindowKeys
  Containers = {1, 2}
  Name <- MCName
  Project <- MCProject
  StopSignal <- MCStopSignal
  Signals = {"hup", "quit"}
  Bad = {TRUE, FALSE}
  Threshold = 1
  Window = 2
  Cooldown = 2
  Grace = 1
  MaxReplay = 2
  SkipOOM = TRUE
  MaxEvents = 4
  MaxTime = 2
  MaxLag = 2
  MaxSaves = 1
  MaxCrashes = 1
INVARIANTS PastRight AlertsRight WindowsExact
PROPERTIES LoopEndsCalm
