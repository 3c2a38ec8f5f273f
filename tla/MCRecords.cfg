SPECIFICATION RecordsSpec
CONSTANTS
  NodeIds = {1, 2, 3}
  MaxPosition = 1
  MaxNodes = 3
  Overlap = FALSE
  Frames = {"map", "base", "arm"}
  Threads = {"t1"}
  Authorities = {"relaykey", "roomkey"}
  Watched = {"relaykey"}
  RelayAuth = "relaykey"
  RoomIds = {"den"}
  AuthOf <- RoomAuth
  Payloads = {"x", "y"}
  People = {"ann", "bob"}
  Nobody = "nobody"
  MaxAppends = 5
  MaxAuthorityRestarts = 1
  MaxProofs = 2
  Surfaces = {"name", "task", "ui", "card", "dir"}
  Runs = {1, 2}
  Streams = {"s", "t"}
  Signers = {"k1", "k2"}
  Cards = {"c", "d"}
  TaskStates = {0, 1, 2, 4, 8}
  Actions = {"a", "b"}
  EventKinds = {0, 2, 4}
  MaxIssued <- Issued
  MaxForgeries = 1
  Documents = {"card1", "card2"}
  Operations <- OperationSet
  Formats = {1, 4}
  Events <- EventSet
  Members = {"x", "y"}
  MaxImports = 2
  MaxDirs = 3
  MaxEvents = 2
  Keys <- KeyTable
  Recovery = {"a2"}
  Principals = {"p"}
  MaxSigned = 3
  MaxOther = 1
  MaxBindings = 3
  Times = {0, 1}
  Bad = Bad
  Absent = Absent
  Leaves = {"a", "b"}
  Views = {"one", "two"}
  MaxLog = 3
  MaxCheckpoints = 2
  MaxRecords = 3
  MaxStored = 4
  MaxTampering = 1
  MaxFacts = 5
  VerifyTimes = {0, 1}
  Missing = Missing
CHECK_DEADLOCK FALSE
INVARIANTS
  CausalOrderExact
  AccusedIffForked
  RoomLogsTellAll
  ChainsAreHistories
  IdentityStaysWithItsOwner
  GatewaySpeaksTrue
  ProofsTellOneStory
PROPERTIES
  ReplayIsCanonical
