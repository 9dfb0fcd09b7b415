SPECIFICATION FairSpec
CONSTANTS
  all = all
  pager = pager
  mail = mail
  Containers = {"c1"}
  PollDetectors = {"unhealthy"}
  EventDetectors = {"unhealthy"}
  Confirmers = {"unhealthy"}
  WantsEvents = FALSE
  HostDetectors = {}
  HostResources = {}
  ProbeDetectors = {}
  ProbeResources = {}
  ExpectedNames = {}
  Receivers = {all}
  SendResolved = {all}
  QueueSize = 1
  MaxEvents = 2
  Troubled <- AllButDaemon
  Silenceable <- AllButDaemon
  Severities <- MCSeverities
  Grades <- MCGrades
PROPERTIES OneAlertPerProblem ClosesOnlyWhatEnded HeldAlertsGoOut ShutdownCompletes GoneContainersClose
