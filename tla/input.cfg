SPECIFICATION FairSpec
CONSTANTS
  Frames <- MCFrames
  InitialFrameMax = 24
  TunedFrameMax = 16
  MaxFrames = 2
  MaxFailures = 1
INVARIANTS
  FramesAreIntact
  MemoryIsDisjoint
PROPERTIES
  ImplementsFrameStream
  EveryFrameArrives
CHECK_DEADLOCK FALSE
