CONSTANTS
  p1 = p1
  p2 = p2
  w1 = w1
  w2 = w2
  w3 = w3
  Processing = {p1, p2}
  Worker = {w1, w2, w3}
  ProcOf <- MCProcOf
  Thread = {t1}
  NoMessage = NoMessage
  MaxFaults = 3
SPECIFICATION FairSpec
INVARIANT
  ReportedResult
PROPERTY
  EveryMergeIsReported
