SPECIFICATION Spec
CONSTANTS
  MaxTurns = 1
  MaxText = 1
  MaxThinking = 0
  MaxCalls = 1
  MaxStreamed = 3
  MaxAsks = 1
  MaxSyncs = 1
  MaxReloads = 1
  Sizes = {1}
  MayRepeat = FALSE
INVARIANTS RecoveredTextOnce
CHECK_DEADLOCK FALSE
