SPECIFICATION Spec
CONSTANTS
  MaxTurns = 2
  MaxText = 3
  MaxThinking = 1
  MaxCalls = 2
  MaxStreamed = 5
  MaxAsks = 1
  MaxSyncs = 3
  MaxReloads = 1
  Sizes = {1, 2}
  MayRepeat = TRUE
INVARIANTS ItemsMatch BufferExact TextInOrder TextOnce OneCardPerCall SettlesOnHistory
PROPERTIES CardKeepsCall
CHECK_DEADLOCK FALSE
