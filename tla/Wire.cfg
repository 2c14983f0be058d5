SPECIFICATION PayloadSpec
CONSTANTS
  kMaxIdentifierLength = 1
  kMaxShortTextLength = 1
  kMaxTextLength = 2
  kMaxExplanationTextLength = 3
  kMaxSnapshotChunkBytes = 3
  kMaxMembers = 1
  kMaxMembersPerObservation = 1
  kMaxCapabilitiesPerMember = 1
  kMaxScopesPerMember = 1
  kMaxScopesPerLease = 2
  kMaxDelegationTermsPerMember = 2
  kMaxPolicyRules = 2
  kMaxReasonsPerDecision = 1
  kMaxContributionsPerDecision = 1
  kMaxConflicts = 1
  kMaxEffectiveGrantsPerDecision = 1
  kMaxLeases = 2
  kMaxArtifacts = 1
CHECK_DEADLOCK FALSE
INVARIANTS RoundTrip DamageIsRejected
