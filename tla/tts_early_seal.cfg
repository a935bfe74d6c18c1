SPECIFICATION NativeSpec
CONSTANTS
  None = None
  EventRoom = 1
  EventLimit = 11
  MediaRoom = 2
  MediaLimit = 4
  CommandRoom = 2
  RtpModulus = 8
  TtsInstances <- MCEarlySeal
  LiveInstances <- MCNone
  Calls = {1, 2, 3}
  Threshold = 2
  MaxStarts = 2
  MaxOpens = 2
  Writers = {1, 2, 3}
  Readers = {1}
  Keys = {"k"}
  Contents = {"a", "b"}
  Hosts = {1, 2}
  Chunks = 1
  MaxDeletes = 1
  Runs = {r1, r2}
  Candidates = {m1, m2}
  Orders <- MCOrders
  SessionLimit = 1
  EstablishAttempts = 2
  MaxAttachments = 2
  Callers = {1, 2}
  Mixes <- MCMixes
  Limit = 1
  MaxAttempts = 2
  MaxGenerations = 3
  MaxWorkers = 2
  MaxRunning = 2
  MaxChildReplies = 1
  MaxEnds = 2
  Sealed = {1, 2, 3}
  Archived = {4, 5}
INVARIANTS
  ControlsAreServed
