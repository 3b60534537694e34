CONSTANTS
  MaxProject = 2
  MaxMoves = 3
SPECIFICATION WorkspaceSpec
CHECK_DEADLOCK FALSE
INVARIANT StatusShowsActive
