CONSTANTS
  Objects = {o1, o2}
  Canvases = {root, sub}
  Root = root
  Keys = {k1}
  Agents = {a1}
  None = None
  LinkedPortals = TRUE
  MaxOps = 2
  MaxEvents = 2
  MaxRestores = 1
SPECIFICATION Spec
INVARIANTS WellPlaced RevisionIdentifiesContent KeysAppliedOnce EventChain
SYMMETRY Symmetric
