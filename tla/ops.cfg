SPECIFICATION MCSpec
CONSTANTS
  N = 3
  Serial = {2}
  Unbound = {}
  Mode = "Task"
  MaxConcurrency = 2
  MaxInflight = 3
  MaxCommands = 3
  MaxCalls = 3
  MaxUpdates = 1
  Decisions = {"Allow", "Deny"}
  MaxReplies = 0
  Prompts = FALSE
  ToolFaults = FALSE
  CanCancel = TRUE
  CanPause = FALSE
  CanCrash = FALSE
INVARIANTS
  StartedOnce
  RefusedNeverStarts
  SerialBarrier
  NoProtocolFailure
