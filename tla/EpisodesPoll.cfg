SPECIFICATION Spec
CONSTANTS
  all = all
  pager = pager
  mail = mail
  Containers = {"c1"}
  PollDetectors = {}
  EventDetectors = {}
  Confirmers = {}
  WantsEvents = FALSE
  HostDetectors = {"host_disk"}
  HostResources = {"/"}
  ProbeDetectors = {"tls_cert"}
  ProbeResources = {"web"}
  ExpectedNames = {}
  Receivers = {all, pager}
  SendResolved = {all, pager}
  QueueSize = 1
  MaxEvents = 1
  Troubled <- AllKeys
  Silenceable <- MCHostOnly
  Severities <- MCSeverities
  Grades <- MCGrades
INVARIANTS TypeOK NotifiedMeansTold ReceiversAgree NoGhostProblems
