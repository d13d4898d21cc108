SPECIFICATION Spec
CONSTANTS
  Turns = {a, b}
  session = s
  Sessions = {s}
  SessionOf <- OneSession
  Streams = {x}
  Cap = 1
  MaxDeltas = 1
  MaxCloses = 0
  Nil = Nil
INVARIANTS PublishSurvives
CHECK_DEADLOCK FALSE
