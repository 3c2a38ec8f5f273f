SPECIFICATION GateSpec
CONSTANTS
  t1 = t1
  t2 = t2
  Tasks = {t1, t2}
  MaxCrashes <- OneForGo
  MaxLosses <- Never
  MaxFaults <- OneForGo
INVARIANTS AckedSurvives
