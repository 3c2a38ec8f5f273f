SPECIFICATION FairSpec
CONSTANTS
  i1 = i1
  w1 = w1
  w2 = w2
  a1 = a1
  a2 = a2
  None = None
  Instances = {i1}
  Workers = {w1, w2}
  Approvals = {a1, a2}
  InstOf <- OneInstance
  AudienceOf <- Audiences
  Named = {i1}
  Signed = {i1}
  MaxCrashes = 1
  MaxLosses = 1
  MaxFaults = 1
INVARIANTS TypeOK ExactlyOnce PersistBeforeAck ForwardOnly RefusesOnlyForCause
PROPERTIES DurableKept ImplementsSingleUse LockReleased
