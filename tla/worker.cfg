CONSTANTS
  w1 = w1
  w2 = w2
  Worker = {w1, w2}
  TotalWorkers <- MCTotalWorkers
  Unreadable = {w2}
  Thread = {t1, t2}
  NoWorker = NoWorker
  MaxFaults = 2
SPECIFICATION FairSpec
INVARIANT
  CallbackTotalIsOwn
PROPERTY
  EveryTileIsReported
