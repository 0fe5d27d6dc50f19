SPECIFICATION Spec
CONSTANTS
  Machines <- BothHosts
  Suite = {"bt", "ft"}
  ExtraRuns = 2
  Faults = {"cmd"}
INVARIANTS
  LabelsTrue
  HostRestored
  DataSpared
  SavedExactly
CHECK_DEADLOCK FALSE
