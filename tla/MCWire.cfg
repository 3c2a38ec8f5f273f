SPECIFICATION SuiteSpec
CONSTANTS
  Drafts <- DraftSet
  Edits = 3
  MaxActs = 2
  MaxShown = 3
  MaxCount = 1
  KnownCext = {22}
  Bad = Bad
  Blank <- BlankCandidate
  Fillings <- FieldValues
  MaxFills = 3
  Streams = {"s"}
  GrantedMax = 2
  Pieces <- PieceSet
  MAX_STREAM_CHUNKS = 2
  MaxLinks = 2
  MaxSeals = 2
  MaxU64 = 7
  MaxMessages = 3
  Alphabet <- Heads
  MaxBytes = 5
  MaxBuild = 2
  MaxHops = 3
  NAMES <- ErrorNames
  OlderEdition = 2
  NA = NA
  Scalars <- ScalarSchemas
  Instances <- InstanceSet
  MaxEdits = 2
CHECK_DEADLOCK FALSE
INVARIANTS
  EnvelopeSpeaksTrue
  FirewallMatchesPeer
  FlowsAsSigned
  WireExact
  SchemasAgree
PROPERTIES
  TerminalIsFinal
