SPECIFICATION AgentsSpec
CONSTANTS
  Frameworks = {"langgraph", "llamaindex", "crewai", "openai", "msaf", "adk", "mcp", "a2a"}
  Tools = {"peek", "wipe"}
  Args = {"one", "true", "big"}
  TypedValue <- Values
  Declared <- Classes
  Cap = 2
  Threshold = 2
  Ceiling <- OwnEffect
  Sessions = {"s"}
  Calls = {1, 2}
  MaxRuns = 2
  MaxRestarts = 1
  ServerTools <- MCTools
  Listings <- MCListings
  ServerIds <- MCServerIds
  GateThreshold = 2
  Guards = {g1, g2, g3}
  MaxClient = 3
  MaxAsks = 2
  Tasks <- MCTasks
  Plans <- MCPlans
  MaxWorkers = 2
  MaxForged = 1
  CaseObjects = {"o1", "o2"}
  MaxScript = 3
  MaxCases = 2
  GraphSize = 3
  Pools = {"t1", "t2"}
  Seeds = {1, 2}
  BLOCKS = 2
  MaxRead = 3
  MaxDrawn = 5
CHECK_DEADLOCK FALSE
INVARIANTS
  GuardedRuns
  GuardianHonest
  PlanCarriedOut
  ConformsToTables
