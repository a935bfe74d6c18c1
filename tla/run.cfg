SPECIFICATION MCSpec
CONSTANTS
  None = None
  Capacity = 2
  Outputs = {1}
  Statuses = {"Completed", "Continuation"}
  ServiceFaults = FALSE
  Mode = "Task"
  InputKinds = {"External"}
  MaxInputs = 1
  MaxProfiles = 1
  MaxSeals = 0
  MaxRequests = 2
  Reducing = FALSE
  CanCrash = TRUE
  CanPause = TRUE
  CanStop = TRUE
INVARIANTS
  OutboxCompletesProjection
  ProjectionIsHistory
  AskedOnce
  EveryInputAnswered
  NoProtocolFailure
PROPERTIES
  ImplementsRun
