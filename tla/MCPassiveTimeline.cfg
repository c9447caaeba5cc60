\* Four blocks: a step of two levels is a changed block that is too faint for the picture.
CONSTANTS
  BlockThreshold = 2
  ScoreThreshold = 3
  KeyframeInterval = 4
  MaxRoi = 2
  Padding = 0
  MinRoi = 2
  Scenes <- MCScenes
  MaxCoalesced = 3
  MaxCoalescedRoi = 3
  MaxSamples = 5
  MaxFailures = 1
SPECIFICATION TimelineSpec
INVARIANTS NothingLost DriftBounded
