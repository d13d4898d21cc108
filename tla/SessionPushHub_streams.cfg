SPECIFICATION Spec
CONSTANTS
  Turns = {a, b}
  session = s
  Sessions = {s}
  SessionOf <- OneSession
  Streams = {x}
  Cap = 1
  MaxDeltas = 1
  MaxCloses = 1
  Nil = Nil
INVARIANTS RunsAlone NoGapAlone NoLostTail NoRepeat OneReplay
CHECK_DEADLOCK FALSE
