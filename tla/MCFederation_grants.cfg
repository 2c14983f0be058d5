SPECIFICATION Spec
INVARIANTS
  ExclusiveHasOneHolder
  DisputeIsContained
  WithdrawalStands
PROPERTIES
  GrantIsWarranted
  LeaseBacksGrant
  ReconcilingBeginsWithRecovery
CHECK_DEADLOCK FALSE
CONSTANTS
  Members <- MCMembers
  Coordinator = "nil"
  Revisions <- MCRevisions
  Constitution <- MCConstitution
  First <- MCFirst
  Successor <- MCSuccessor
  Founder0 = "f"
  MaxMembers = 3
  MaxEndorsements = 32
  DefaultFreshness = 64
  DefaultLeaseLifetime = 64
  Settings <- GrantsSettings
