SPECIFICATION MCSpec
CHECK_DEADLOCK FALSE
CONSTANTS
  Component = {"context", "checks", "gates"}
  e1 = e1
  e2 = e2
  r1 = r1
  r2 = r2
  NoHash = NoHash
  Editor = {e1, e2}
  Results = {r1, r2}
  MaxMoments = 3
  MaxTriggers = 3
  MaxRetries = 1
  root = root
  other = other
  p1 = p1
  p2 = p2
  NoFile = NoFile
  Workspace = Workspace
  File = {root, other}
  Project = {p1, p2}
  ProjectOf <- TwoProjects
  Watched = {root}
  MaxChecks = 2
  MaxVersion = 2
  GateRun = {r1, r2}
  Rows = {"schematic", "connectivity"}
  FirstRow = "schematic"
  MaxDesign = 1
INVARIANTS ContextTypeOK PendingHasTimer ServerFollows ValidationTypeOK FreshMatchesProblems OneProcess FreshIsCurrent 
PROPERTY ServerMovesForward
