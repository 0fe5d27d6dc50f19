SPECIFICATION FairSpec
CONSTANTS
  TcpCap = 1
  PipeCap = 3
  UdpCap = 1
  Strangers = TRUE
INVARIANTS
  NoCircularWait
PROPERTIES
  KeepsLooping
