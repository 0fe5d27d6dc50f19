SPECIFICATION RunSpec
CONSTANTS
  Clients <- Running
  NPackets = 1
  Timeout = 1
  ClearEvery = 2
  Period = 2
  MaxSeq = 2
  MaxReload = 2
  MaxPid = 6
  MaxChan = 1
INVARIANTS
  ProbesConserved
  ReportsTrue
  DupsExplained
  OneChild
PROPERTIES
  ProbesResolved
  SessionsStarted
CHECK_DEADLOCK FALSE
