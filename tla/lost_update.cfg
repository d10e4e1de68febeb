CONSTANTS
  p1 = p1
  p2 = p2
  w1 = w1
  w2 = w2
  w3 = w3
  Processing = {p1}
  Worker = {w1, w2}
  ProcOf <- MCProcOfEmptyGrid
  Thread = {t1}
  NoProcessing = NoProcessing
  NoWorker = NoWorker
  MaxFaults = 0
SPECIFICATION FairSpec
PROPERTY
  EveryProcessingIsMerged
CHECK_DEADLOCK FALSE
