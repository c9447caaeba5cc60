\* Frames of one chunk overlap; rows may fail to be written; one restart.
CONSTANTS
  Ids = {u1, u2, u3}
  Clients = {c1, c2}
  None = None
  Replacements = {u3}
  MaxCounter = 2
  Burst = 2
  MaxFailures = 1
  MaxRestarts = 1
SPECIFICATION Spec
INVARIANTS NoGaps AnsweredIsDurable
SYMMETRY Symmetric
