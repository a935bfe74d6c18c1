SPECIFICATION FairSpec
CONSTANTS
  None = None
INVARIANTS
  ReducedProjection
  WorkIsWatched
PROPERTIES
  Settles
