SPECIFICATION Spec
CONSTANTS
  Limits <- MCLimits
  Timeouts <- MCTimeouts
  FrameSize = 2
  Capacity = 3
  MaxQuiet = 3
INVARIANTS FramesAreWhole LiveBrokerIsBelieved
PROPERTIES WaitingClientIsHeard LoginEnds DeadBrokerIsNoticed
