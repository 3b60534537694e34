CONSTANTS
  Panel = {a, b}
  AutoRefresh = TRUE
  ReliableWatcher = TRUE
  PromptOpen = TRUE
  SettleRetryLimit = 1
  MaxWrites = 4
  MaxMoves = 4
  UserMoves = {"open", "close", "hide", "show", "request", "edit"}
SPECIFICATION AloneSpec
CHECK_DEADLOCK FALSE
SYMMETRY PanelSymmetry
INVARIANTS TypeOK KeepsUp BehindIsMarked
