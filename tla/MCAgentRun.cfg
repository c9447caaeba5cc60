\* Four blocks; a step of one level is below the block threshold, so it is skipped.
CONSTANTS
  BlockThreshold = 2
  ScoreThreshold = 2
  KeyframeInterval = 3
  MaxRoi = 2
  Padding = 0
  MinRoi = 2
  Scenes <- MCScenes
  Benchmark <- MCBenchmark
  Solved <- MCSolved
  Requests <- MCRequests
  StaticCrop = {1, 2}
  Usages = {0, 2}
  Unlimited = Unlimited
  MaxForeign = 1
  MaxRuns = 2
SPECIFICATION Spec
INVARIANTS KnowsTheFrame RecoversWithKeyframe BudgetOverrun
PROPERTY EpisodesEnd
CHECK_DEADLOCK FALSE
