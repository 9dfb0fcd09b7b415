SPECIFICATION Spec
CONSTANTS
  Kinds = {"memory", "cpu_throttle", "host_disk", "host_memory", "host_pressure", "host_cpu", "host_disk_forecast", "expected", "images"}
  Threshold = 52
  Sustain = 2
  Levels = {46, 47, 52}
  Avails = {0, 4, 6, 8}
  Window = 4
  Horizon = 2
  Grace = 2
  Images = {1, 2}
  Day = 2
  Week = 3
  MaxTime = 5
  MaxSaves = 1
  MaxCrashes = 2
INVARIANTS AlarmRight ForecastRight
PROPERTIES ShareMeasured ImagesRight
CHECK_DEADLOCK FALSE
