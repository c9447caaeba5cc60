\* Two objects to check; every call may be the one that fails.  A run that is over stops.
CONSTANTS
  Items = {i1, i2}
  None = None
  Role = "owner"
  MaxIterations = 3
  MaxFailures = 2
  MaxFaults = 1
  MaxForeign = 1
SPECIFICATION Spec
INVARIANTS FailureLeavesParent BestIsReported FoldTellsChild
PROPERTY RunEnds
CHECK_DEADLOCK FALSE
