SPECIFICATION Spec
CONSTANTS
  Sessions = {s1, s2, s3}
  New = new
  Existing = {s1}
  MaxTurns = 2
  MaxOthers = 1
  MaxStops = 1
  MaxVisits = 2
  MaxDeletes = 1
  MaxFaults = 1
  MaxUsed = 3
INVARIANTS RunsAgree ChatsApart RunShown RunsEnd SeenIsUnmarked
CHECK_DEADLOCK FALSE
