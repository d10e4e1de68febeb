SPECIFICATION Spec
CONSTANTS
  Channels <- OneChannel
  Sizes <- BodyFrames
  Clients <- ListenerOrOther
  MaxMessages = 2
  MaxRequests = 2
  MaxInbox = 2
  MaxHeartbeats = 1
INVARIANTS ConsumedIsOneDelivery ReplyIsOwn
PROPERTIES EveryDeliveryReturns
CHECK_DEADLOCK FALSE
