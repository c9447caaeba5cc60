\* One session; a root canvas, a child and a grandchild.
CONSTANTS
  root = root
  child = child
  grandchild = grandchild
  Canvases <- MCCanvases
  Root = root
  Parent <- MCParent
  Sessions = {s1}
  None = None
  MaxCommits = 3
  MaxSubscriptions = 1
  MaxSnapshots = 1
  MaxRestarts = 1
SPECIFICATION Spec
INVARIANTS  LinksKept
