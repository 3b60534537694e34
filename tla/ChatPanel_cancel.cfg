CONSTANTS
  Prompt = {q1, q2}
  NoPrompt = NoPrompt
  MaxPanels = 1
  MaxHistory = 3
SPECIFICATION ChatSpec
CHECK_DEADLOCK FALSE
INVARIANT StreamsCancellable
