SPECIFICATION FairSpec
CONSTANTS
  all = all
  pager = pager
  mail = mail
  Containers = {"c1"}
  PollDetectors = {}
  EventDetectors = {}
  Confirmers = {}
  WantsEvents = TRUE
  HostDetectors = {}
  HostResources = {}
  ProbeDetectors = {"tls_cert"}
  ProbeResources = {"web"}
  ExpectedNames = {}
  Receivers = {all}
  SendResolved = {all}
  QueueSize = 1
  MaxEvents = 1
  Troubled <- AllButDaemon
  Silenceable <- AllButDaemon
  Severities <- MCSeverities
  Grades <- MCGrades
PROPERTIES EscalationsGoOut
