SPECIFICATION MSpec
CONSTANTS
  Tasks = {t1}
  Callers = {c1, c2}
  Regs = {1, 2, 3, 4, 5, 6, 7}
  Runs = {11}
  Defs = {on, on2, off}
  EnabledDefs = {on, on2}
  UntimedDefs = {}
  Ops = {"unregister", "upsert", "start_now", "stop_run", "delete", "save", "stop"}
  Mutators = {c1}
  StoreFaults = TRUE
  MaxCalls = 20
  MaxFires = 1
  MaxCrashes = 1
  MaxMutations = 2
  Nil = Nil
INVARIANTS IInv RegisteredIsStored RollbackRestores StopRunAnswer
PROPERTIES FinalLogSticks ImplementsTaskRuns FileIsTheRequests
SYMMETRY DefSymmetry
CHECK_DEADLOCK FALSE
