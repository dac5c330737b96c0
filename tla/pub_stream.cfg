SPECIFICATION FairSpec
CONSTANTS
  Capacity = 2
  MaxMsgs = 6
  MaxConsumers = 3
  ConsumerMayStall = TRUE
INVARIANT NewestWindow
PROPERTIES StreamPromise StopReturns ConsumerServed
