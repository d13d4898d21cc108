SPECIFICATION Spec
CONSTANTS
  Intervals = {1, 4}
  Crons = {}
  Second = 1
  Half = 64
  Reschedules = TRUE
  Horizon = 4
  MaxRequests = 1
  MaxCrashes = 0
INVARIANTS WaitsForItsPlan
CHECK_DEADLOCK FALSE
