CONSTANTS
  p1 = p1
  p2 = p2
  Processing = {p1, p2}
  TotalWorkers <- MCSevenAndOne
  NoProcessing = NoProcessing
  Elapsed <- MCElapsed
  MaxFaults = 1
SPECIFICATION FairSpec
INVARIANTS
  ProgressIsEarned
  EstimateIsNotBehind
PROPERTIES
  CompletionIsStable
  CompletionIsShown
