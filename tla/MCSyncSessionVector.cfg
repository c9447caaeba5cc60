\* An update that exceeds a frame, then one that does not.
CONSTANTS
  Ids = {u1, u2}
  Clients = {c1}
  None = None
  Replacements = {}
  MaxCounter = 2
  Burst = 1
  MaxFailures = 0
  MaxRestarts = 0
  Peers = {p1}
  Large = {u1}
  FrameLimit = 2
  MaxDrops = 0
SPECIFICATION SessionSpec
INVARIANT VectorMeansReceived
