SPECIFICATION Spec
CONSTANTS
  Channels <- TwoChannels
  Sizes <- NoBody
  Clients <- OtherOnly
  MaxMessages = 3
  MaxRequests = 2
  MaxInbox = 3
  MaxHeartbeats = 0
INVARIANTS MessageIsOneDelivery
CHECK_DEADLOCK FALSE
