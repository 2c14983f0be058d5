SPECIFICATION RetrySpec
INVARIANTS
  NeverConscripted
  StandingIsGrounded
  FenceIsSticky
PROPERTIES
  EpochKeepsStanding
  LossIsContained
  CandidatesBecomeActive
CHECK_DEADLOCK FALSE
CONSTANTS
  Members <- MCMembers
  Coordinator = "nil"
  Revisions <- MCRevisions
  Constitution <- MCConstitution
  First <- MCFirst
  Successor <- MCSuccessor
  Founder0 = "f"
  MaxMembers = 3
  MaxEndorsements = 32
  DefaultFreshness = 64
  DefaultLeaseLifetime = 64
  Settings <- MembersSettings
