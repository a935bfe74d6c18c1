SPECIFICATION Spec
CONSTANTS
  None = None
  Capacity = 2
  Outputs = {1}
  Statuses = {"Completed"}
  ServiceFaults = FALSE
  Mode = "Task"
  InputKinds = {"External"}
  MaxInputs = 1
  MaxProfiles = 0
  MaxSeals = 0
  MaxRequests = 1
  Reducing = TRUE
  CanCrash = TRUE
  CanPause = FALSE
  CanStop = FALSE
INVARIANTS
  ProjectionIsHistory
