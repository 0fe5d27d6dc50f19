SPECIFICATION Spec
CONSTANTS
  Machines <- RawHost
  Suite = {"bt", "ft"}
  ExtraRuns = 2
  Faults = {}
INVARIANTS
  RunsComplete
CHECK_DEADLOCK FALSE
