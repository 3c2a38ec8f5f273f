SPECIFICATION AgentsSpec
CONSTANTS
  Frameworks = {"langgraph", "msaf"}
  Tools = {"peek", "wipe"}
  Args = {"one", "true", "big"}
  TypedValue <- Values
  Declared <- Classes
  Cap = 2
  Threshold = 2
  Ceiling <- OwnEffect
  Sessions = {"s"}
  Calls = {1, 2}
  MaxRuns = 3
  MaxRestarts = 1
  ServerTools <- MCTools
  Listings <- MCListings
  ServerIds <- MCServerIds
  GateThreshold = 2
  Guards = {}
  MaxClient = 0
  MaxAsks = 0
  Tasks <- MCTasks
  Plans <- MCPlans
  MaxWorkers = 1
  MaxForged = 0
  CaseObjects = {"o1"}
  MaxScript = 0
  MaxCases = 0
  GraphSize = 1
  Pools = {"t1"}
  Seeds = {1}
  BLOCKS = 1
  MaxRead = 1
  MaxDrawn = 1
CHECK_DEADLOCK FALSE
INVARIANT MsafRunsOnce
