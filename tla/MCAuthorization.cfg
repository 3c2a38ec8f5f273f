SPECIFICATION AuthorizationSpec
CONSTANTS
  w1 = w1
  w2 = w2
  wipe = wipe
  peek = peek
  good = good
  brief = brief
  small = small
  foreign = foreign
  fake = fake
  other = other
  None = None
  Workers = {w1, w2}
  HitlActions = {wipe, peek}
  Effect <- Effects
  HitlApprovals = {good, brief, small, foreign, fake, other}
  Terms <- Circulating
  Threshold = 2
  NonRepudiation = 3
  MaxCalls = 3
  MaxHitlTime = 1
  MaxBack = 1
  MaxCrashes = 1
  MaxFaults = 1
  Anchors = {"root"}
  Issuers = {"root", "a", "b"}
  Bodies <- MCBodies
  Actions <- MCActions
  Charges <- MCCharges
  ToolDefs <- MCToolDefs
  Approvals <- MCApprovals
  Segments = {"x", "y", "z"}
  Human = "human"
  Impostor = "impostor"
  MaxTime = 1
  MaxGrants = 3
  MaxInputs = 4
  Bad = Bad
  Coords <- MCCoords
  Peers <- MCPeers
  GrantWire <- MCGrantWire
  ClaimWire <- MCClaimWire
  Users = {"u1", "u2"}
  UseApprovals <- MCUseApprovals
  UseActions <- MCUseActions
  Keys <- MCKeys
  Rotations <- MCRotations
  RequestBodies <- MCRequests
  Assertions <- MCAssertions
  Evidences <- MCEvidences
  MaxNow = 2
  MaxUses = 3
SYMMETRY Symmetry
CHECK_DEADLOCK FALSE
INVARIANTS
  ActsOnlyApproved
  AuthorityNeverGrows
  ActsWithinApproval
  ClaimsContained
  AdmittedForCause
PROPERTIES
  TrustMovesForward
