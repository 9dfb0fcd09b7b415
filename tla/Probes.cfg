SPECIFICATION Spec
CONSTANTS
  Targets = {"web"}
  TLSTargets = {"web"}
  HTTPTargets = {"web"}
  Certificates <- MCCertificates
  LastDay = 9
  Failures = 2
  Warn = 1
  Critical = 0
  MaxTime = 2
  MaxRenewals = 1
  MaxSaves = 1
  MaxCrashes = 1
INVARIANTS AlarmsRight
PROPERTIES DownIsReported
