SPECIFICATION Spec
CONSTANTS
  Clients <- Orphan
  NPackets = 1
  Timeout = 1
  ClearEvery = 2
  Period = 2
  MaxSeq = 2
  MaxReload = 1
  MaxPid = 2
  MaxChan = 1
INVARIANTS
  OneChildPerAddress
