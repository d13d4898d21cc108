SPECIFICATION Spec
CONSTANTS
  Intervals = {2}
  Crons = {{2, 3, 7, 20}}
  Second = 1
  Half = 64
  Reschedules = FALSE
  Horizon = 8
  MaxRequests = 2
  MaxCrashes = 1
INVARIANTS PlanInv WaitsForItsPlan
PROPERTIES FiresOnce NoBurst
CHECK_DEADLOCK FALSE
