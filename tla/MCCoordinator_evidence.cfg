SPECIFICATION FairSpec
CONSTANTS
  h1 = h1
  Holders = {h1}
  Identity = {h1}
  Artifact <- MCArtifact
  MemberArtifact <- MCMemberArtifact
  Observation <- MCObservations
  AuthorityRequest <- MCRequests
  LeaseRequest = {}
  GenesisArtifact <- MCGenesis
  Batch <- MCBatch
  Commands <- MCCommands
  MayLease <- MCMayLease
  IdentityOf <- MCIdentityOf
  Authorise <- MCAuthorise
  Bootstrap = TRUE
  InitialTick = 0
  MaxLeaseLifetime = 1
  MaxArtifacts = 4
  MaxLeases = 2
  MaxReplay = 2
  MaxPasses = 2
  LastTick = 9
  MaxTick = 2
  MaxIncarnation = 2
  MaxEpoch = 2
INVARIANTS
  TypeOK
  GrantedAtMostOnce
  DecisionsNeverQuarantined
  MemoryIsReplay
PROPERTIES
  MutexReleased
CHECK_DEADLOCK FALSE
