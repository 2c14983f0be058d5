SPECIFICATION Spec
CONSTANTS
  h1 = h1
  Holders = {h1}
  Identity = {h1}
  Artifact <- MCArtifact
  MemberArtifact = {}
  Observation = {}
  AuthorityRequest = {}
  LeaseRequest <- MCLeaseRequests
  GenesisArtifact <- MCGenesis
  Batch <- MCBatch
  Commands <- MCCommands
  MayLease <- MCMayLease
  IdentityOf <- MCIdentityOf
  Authorise <- MCAuthorise
  Bootstrap = FALSE
  InitialTick = 0
  MaxLeaseLifetime = 1
  MaxArtifacts = 4
  MaxLeases = 2
  MaxReplay = 2
  MaxPasses = 2
  LastTick = 9
  MaxTick = 3
  MaxIncarnation = 3
  MaxEpoch = 2
INVARIANTS
  AcknowledgedRevocationIsDurable
CHECK_DEADLOCK FALSE
