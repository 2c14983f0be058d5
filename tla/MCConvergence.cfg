SPECIFICATION Spec
INVARIANTS
  SameEvidenceSameAuthority
  SameEvidenceSameStanding
SYMMETRY Symmetric
CHECK_DEADLOCK FALSE
CONSTANTS
  Members <- MCMembers
  Coordinator = "nil"
  Revisions <- MCRevisions
  Constitution <- MCConstitution
  First <- MCFirst
  Founder0 = "f"
  MaxMembers = 3
  MaxEndorsements = 32
  DefaultFreshness = 64
  DefaultLeaseLifetime = 64
  ConfiguredPolicy <- ShippedPolicy
  Replicas = {north, south}
  north = north
  south = south
  Pools <- MCPools
  Epochs = {2}
