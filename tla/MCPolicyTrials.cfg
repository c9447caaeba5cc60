\* Benchmarks over three traces, and the provider's trial under three budgets.
CONSTANTS
  BlockThreshold = 2
  ScoreThreshold = 3
  KeyframeInterval = 9
  MaxRoi = 2
  Padding = 0
  MinRoi = 2
  Scenes <- MCScenes
  MaxSamples = 14
  MaxFailures = 0
  Traces <- MCTraces
  ProviderTrace <- MCProviderTrace
  StaticCrop = {1, 2}
  MaxCoalesced = 3
  MaxCoalescedRoi = 3
  Budgets <- MCBudgets
  Costs = {1}
  Turns <- MCTurns
SPECIFICATION Spec
INVARIANTS BudgetHeld EveryChangeDelivered TransientKept RecommendedIsPareto AnswerIsFinal
PROPERTY TrialEnds
CHECK_DEADLOCK FALSE
