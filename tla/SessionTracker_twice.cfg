SPECIFICATION Spec
CONSTANTS
  Sessions = {s1}
  MaxRuns = 1
  MaxAnnounced = 2
  MaxFaults = 0
INVARIANTS NotifiedOnce
CHECK_DEADLOCK FALSE
