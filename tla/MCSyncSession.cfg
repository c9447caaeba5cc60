\* Two peers that keep reconnecting, two senders; one restart, one lost connection.
CONSTANTS
  Ids = {u1, u2}
  Clients = {c1, c2}
  None = None
  Replacements = {u2}
  MaxCounter = 2
  Burst = 1
  MaxFailures = 0
  MaxRestarts = 1
  Peers = {p1, p2}
  Large = {}
  FrameLimit = 2
  MaxDrops = 1
SPECIFICATION FairSessionSpec
INVARIANTS VectorMeansReceived QuietPeersAgree
PROPERTIES CatchesUp PromiseKept
