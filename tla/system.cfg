CONSTANTS
  p1 = p1
  w1 = w1
  w2 = w2
  Processing = {p1}
  Worker = {w1, w2}
  ProcOf <- MCProcOf
  Thread = {t1}
  NoProcessing = NoProcessing
  NoWorker = NoWorker
  NoMessage = NoMessage
  MaxFaults = 1
SPECIFICATION SystemSpec
INVARIANTS
  ServicesFitTogether
  ResultHasCompleteTiles
  AllDoneIsMerged
SYMMETRY TileSymmetry
CHECK_DEADLOCK FALSE
PROPERTY ImplementsImageProcessing
