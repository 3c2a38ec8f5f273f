SPECIFICATION Spec
CONSTANTS
  r1 = r1
  r2 = r2
  r3 = r3
  L1 = L1
  L2 = L2
  a1 = a1
  a2 = a2
  o1 = o1
  None = None
  Replicas = {r1, r2, r3}
  Ledgers = {L1, L2}
  LedgerOf <- Identity
  Approvals = {a1, a2}
  Observers = {o1}
  Known <- KnowsBoth
  MaxForged = 1
  MaxRestarts = 1
INVARIANTS EvidenceConvicts ConflictDetected
SYMMETRY Symmetric
