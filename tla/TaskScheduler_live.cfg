SPECIFICATION LiveSpec
CONSTANTS
  Tasks = {t1}
  Callers = {c1, c2}
  Regs = {1, 2, 3}
  Runs = {11, 12, 13}
  Defs = {on, slow, off}
  EnabledDefs = {on, slow}
  UntimedDefs = {slow}
  Ops = {"unregister", "upsert", "run_now", "stop_run", "stop"}
  Mutators = {c1, c2}
  StoreFaults = FALSE
  MaxCalls = 2
  MaxFires = 1
  MaxCrashes = 0
  Nil = Nil
INVARIANTS SingleFlight BarrierHolds RunningLogIsLive
PROPERTIES RetiredStaysQuiet CallsReturn StopQuiesces LogsSettle
CHECK_DEADLOCK FALSE
