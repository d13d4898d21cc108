SPECIFICATION FairSpec
CONSTANTS
  Sessions = {s1}
  MaxRuns = 2
  MaxAnnounced = 1
  MaxFaults = 1
INVARIANTS OneRequest PollsGoOn
 
CHECK_DEADLOCK FALSE
