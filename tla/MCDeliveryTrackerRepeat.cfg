SPECIFICATION TrackerSpec
CONSTANTS
  Objects = {o1}
  MaxStage = 3
  MaxTrackerCrashes = 1
  MaxTrackerLosses = 1
  MaxTrackerFaults = 0
INVARIANTS AckedStageKept
