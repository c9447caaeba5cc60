\* A read, a read with a bad argument and a materialization, under a fair event loop.
CONSTANTS
  Ops = {r, bad, m}
  Safe = {r, bad}
  Bad = {bad}
SPECIFICATION FairManager
INVARIANTS SingleRuntime NoReplay
PROPERTIES HealthyRuntimeStays CallsSettle StopReleases
CHECK_DEADLOCK FALSE
