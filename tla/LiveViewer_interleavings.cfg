CONSTANTS
  Panel = {a, b}
  AutoRefresh = TRUE
  ReliableWatcher = FALSE
  PromptOpen = FALSE
  SettleRetryLimit = 2
  MaxWrites = 3
  MaxMoves = 3
  UserMoves = {"open", "hide", "request", "edit"}
SPECIFICATION Spec
CHECK_DEADLOCK FALSE
SYMMETRY PanelSymmetry
INVARIANTS PublishExact LabelNotNewer
PROPERTY HeldWhileUnsaved
