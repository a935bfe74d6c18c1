SPECIFICATION Spec
CONSTANTS
  N = 2
  Serial = {1}
  Unbound = {}
  Mode = "Task"
  MaxConcurrency = 2
  MaxInflight = 2
  MaxCommands = 2
  MaxCalls = 2
  MaxUpdates = 1
  Decisions = {"Allow"}
  MaxReplies = 0
  Prompts = TRUE
  ToolFaults = FALSE
  CanCancel = FALSE
  CanPause = FALSE
  CanCrash = FALSE
INVARIANTS
  SerialBarrier
