CONSTANTS
  Part = {"session", "chat"}
  Call = {c1, c2}
  ToolsList = ToolsList
  Discovery = Discovery
  Endpoint = {e1, e2}
  Unset = Unset
  MaxAttempts = 2
  Prompt = {q1, q2}
  NoPrompt = NoPrompt
  MaxPanels = 2
  MaxHistory = 3
SPECIFICATION MCSpec
CHECK_DEADLOCK FALSE
INVARIANTS SessionTypeOK DegradedAfterHandshake ChatTypeOK StoredAtRest BusyAtRest
PROPERTY SessionSettles
