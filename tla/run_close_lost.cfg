SPECIFICATION FairSpec
CONSTANTS
  None = None
  Capacity = 2
  Outputs = {1}
  Statuses = {"Completed"}
  ServiceFaults = FALSE
  Mode = "Task"
  InputKinds = {}
  MaxInputs = 0
  MaxProfiles = 0
  MaxSeals = 0
  MaxRequests = 1
  Reducing = FALSE
  CanCrash = FALSE
  CanPause = TRUE
  CanStop = FALSE
PROPERTIES
  Settles
