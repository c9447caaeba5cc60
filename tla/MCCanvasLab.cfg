\* Two objects, a text and the benchmark's; frames of two cells out of three.
CONSTANTS
  Objects = {t, b}
  Benchmark = {b}
  Texts = {t}
  ActionIds = {a1, a2, a3}
  Bodies <- MCBodies
  None = None
  Width = 2
  Cells = {0, 1, 2}
  Views = {0, 1}
  MaxFrames = 3
  KeptStale = 1
  Kept = 2
  MaxObservations = 5
  MaxForeign = 1
  MaxRestarts = 1
SPECIFICATION Spec
INVARIANTS SeenIsDone EffectOnce HistoryReturns
SYMMETRY ActionSymmetry
