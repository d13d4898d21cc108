SPECIFICATION Spec
CONSTANTS
  Tasks = {t1}
  Callers = {c1, c2}
  Regs = {1, 2, 3, 4}
  Runs = {11}
  Defs = {on}
  EnabledDefs = {on}
  UntimedDefs = {on}
  Ops = {"upsert", "unregister"}
  Mutators = {c1, c2}
  StoreFaults = FALSE
  MaxCalls = 3
  MaxFires = 0
  MaxCrashes = 0
  Nil = Nil
INVARIANTS UnregisterSilences
CHECK_DEADLOCK FALSE
