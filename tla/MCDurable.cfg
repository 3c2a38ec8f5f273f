SPECIFICATION DurableSpec
CONSTANTS
  t1 = t1
  t2 = t2
  o1 = o1
  o2 = o2
  Tasks = {t1, t2}
  MaxCrashes <- Crashes
  MaxLosses <- Losses
  MaxFaults <- Faults
  Objects = {o1, o2}
  MaxStage = 1
  MaxTrackerCrashes = 1
  MaxTrackerLosses = 1
  MaxTrackerFaults = 2
SYMMETRY Symmetry
INVARIANTS
  GateHolds
  TrackerKeeps
PROPERTIES
  LogsGoForward
