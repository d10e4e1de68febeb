SPECIFICATION AlgorithmsSpec
CONSTANTS
  Sample <- MCSample
  Capabilities <- MCCapabilities
  Rooms = {48, 400}
  Names <- MCNames
  MaxInt = 20
  MaxLargestInt = 127
  ValueMaxInt = 7
  ValueMaxLargestInt = 31
  MaxLexemes = 5
  MaxNested = 7
  MaxMembers = 10
  MaxTrivia = 2
  MaxElements = 3
  Doubles <- MCDoubles
  Elements = {"x", "y"}
  CellSizeX = 2
  CellSizeY = 3
  ImageSizes <- MCImageSizes
  Aoi <- MCAoi
INVARIANTS
  RoundTrip
  CloneIsExact
  MergeTakesPrecedence
  ReadsJson
  CommentsChangeNothing
  NoCommentIsLost
  WhatIsWrittenReadsBack
  TextIsExact
  ArrayIsASequence
  ConversionsAgree
  EveryPixelInOneCell
  CellsAreGeoreferenced
CHECK_DEADLOCK FALSE
