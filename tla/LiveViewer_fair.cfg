CONSTANTS
  Panel = {a}
  AutoRefresh = TRUE
  ReliableWatcher = FALSE
  PromptOpen = TRUE
  SettleRetryLimit = 2
  MaxWrites = 3
  MaxMoves = 3
  UserMoves = {"open", "close", "hide", "show", "request", "edit", "discard"}
SPECIFICATION FairSpec
CHECK_DEADLOCK FALSE
PROPERTIES Quiesces FocusRecovers
