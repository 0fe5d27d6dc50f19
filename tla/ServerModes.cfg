SPECIFICATION FairSpec
CONSTANTS
  Addrs = {a1, a2}
  Low = 3
  MaxFd = 5
  UintMod = 3
  LockModes = {FALSE, TRUE}
  Faults = {"recv"}
  MaxPeers = 3
  MaxBacklog = 1
  MaxUdp = 1
INVARIANTS
  AccountingExact
  TimeToSender
PROPERTIES
  DeadClientsRemoved
