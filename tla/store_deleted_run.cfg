SPECIFICATION Spec
CONSTANTS
  e1 = e1
  e2 = e2
  i1 = i1
  i2 = i2
  i3 = i3
  i4 = i4
  None = None
  Executors = {e1, e2}
  Ids <- FourIds
  MaxRevision = 1
  MaxDeletes = 1
  Locking = FALSE
  StoreDeadlines = FALSE
SYMMETRY Interchangeable
INVARIANTS
  ChainLinked
CHECK_DEADLOCK FALSE
