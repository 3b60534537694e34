CONSTANTS
  Panel = {a, b}
  AutoRefresh = TRUE
  ReliableWatcher = TRUE
  PromptOpen = TRUE
  SettleRetryLimit = 2
  MaxWrites = 2
  MaxMoves = 4
  UserMoves = {"open", "hide", "show"}
SPECIFICATION Spec
CHECK_DEADLOCK FALSE
INVARIANT BehindIsMarked
