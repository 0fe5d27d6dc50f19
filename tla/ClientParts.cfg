SPECIFICATION PartsSpec
CONSTANTS
  NSEC = 2
  Stamps <- MCStamps
  MAX_RTT_SEC = 1
  Thold = 1
  MaxResults = 2
  fifoOf <- MCFifo
  childOf <- MCChild
  timerOf <- MCTimer
  udpOf <- MCUdp
INVARIANTS
  PartsTypeOK
  SuccessIsRoundTrip
  ExtremesAreExact
  NothingLost
  LagBounded
PROPERTIES
  ForwardsInOrder
  NothingStuck
  Converges
CHECK_DEADLOCK FALSE
