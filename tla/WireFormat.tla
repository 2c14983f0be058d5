------------------------------- MODULE WireFormat -------------------------------
(********************************************************************************)
(* What every encode of the repository writes and what the decode beside it     *)
(* reads, as sequences of fields: a name, what is written for it, and the bound *)
(* the call passes to the codec.  XEncode and XDecode are translations of two   *)
(* functions of the source.  A nested value contributes its own fields, named   *)
(* after the member that holds it.                                              *)
(********************************************************************************)
EXTENDS Naturals, Sequences

CONSTANTS
  kMaxIdentifierLength, kMaxShortTextLength, kMaxTextLength, kMaxExplanationTextLength,
  kMaxSnapshotChunkBytes, kMaxMembers, kMaxMembersPerObservation,
  kMaxCapabilitiesPerMember, kMaxScopesPerMember, kMaxScopesPerLease,
  kMaxDelegationTermsPerMember, kMaxPolicyRules, kMaxReasonsPerDecision,
  kMaxContributionsPerDecision, kMaxConflicts, kMaxEffectiveGrantsPerDecision,
  kMaxLeases, kMaxArtifacts

\* bounds.hpp: no limit is negative, and an identifier may be a byte long at least.
Limits ==
  /\ kMaxIdentifierLength \in Nat \ {0}
  /\ {kMaxShortTextLength, kMaxTextLength, kMaxExplanationTextLength,
      kMaxSnapshotChunkBytes, kMaxMembers, kMaxMembersPerObservation,
      kMaxCapabilitiesPerMember, kMaxScopesPerMember, kMaxScopesPerLease,
      kMaxDelegationTermsPerMember, kMaxPolicyRules, kMaxReasonsPerDecision,
      kMaxContributionsPerDecision, kMaxConflicts, kMaxEffectiveGrantsPerDecision,
      kMaxLeases, kMaxArtifacts} \subseteq Nat

ASSUME LimitsAssumption == Limits

Field(name, kind, size, limit, sub) ==
  [name |-> <<name>>, kind |-> kind, size |-> size, limit |-> limit, sub |-> sub]

\* Integers of 1, 2, 4 and 8 bytes, identifiers of 16 and digests of 32 are 1 to 6
\* cells of a payload here; lengths and counts are 4-byte integers.
U16(n)  == Field(n, "int", 2, 0, <<>>)
U32(n)  == Field(n, "int", 3, 0, <<>>)
U64(n)  == Field(n, "int", 4, 0, <<>>)
Id(n)   == Field(n, "int", 5, 0, <<>>)
Hash(n) == Field(n, "int", 6, 0, <<>>)

\* 1 stands for true and for the last enumerator, which decode compares with.
Bool(n)   == Field(n, "enum", 1, 1, <<>>)
Enum8(n)  == Field(n, "enum", 1, 1, <<>>)
Enum16(n) == Field(n, "enum", 2, 1, <<>>)

\* An identifier is a text; Named is one that decode does not accept empty.
Text(n, max) == Field(n, "text", 3, max, <<>>)
Name(n)  == Field(n, "text", 3, kMaxIdentifierLength, <<>>)
Named(n) == Field(n, "name", 3, kMaxIdentifierLength, <<>>)
List(n, max, sub) == Field(n, "list", 3, max, sub)

In(member, fields) == [i \in DOMAIN fields |-> [fields[i] EXCEPT !.name = <<member>> \o @]]

Parties == <<Id("member")>>

ScopeGrantEncode == <<Name("scope"), Enum8("verb")>>
ScopeGrantDecode == <<Name("scope"), Enum8("verb")>>

DelegationTermsEncode ==
  In("grant", ScopeGrantEncode) \o <<Enum8("mode"), U32("weight"), U64("not_after"),
    Name("constraint")>>
DelegationTermsDecode ==
  In("grant", ScopeGrantDecode) \o <<Enum8("mode"), U32("weight"), U64("not_after"),
    Name("constraint")>>

ConflictRecordEncode ==
  In("grant", ScopeGrantEncode) \o <<Enum8("kind"), List("claimants", kMaxMembers, Parties),
    Text("detail", kMaxTextLength)>>
ConflictRecordDecode ==
  In("grant", ScopeGrantDecode) \o <<Enum8("kind"), List("claimants", kMaxMembers, Parties),
    Text("detail", kMaxTextLength)>>

CapabilityRequirementEncode ==
  <<Name("capability"), U32("min_version"), U32("max_version"), Bool("mandatory")>>
CapabilityRequirementDecode ==
  <<Name("capability"), U32("min_version"), U32("max_version"), Bool("mandatory")>>

CapabilityStatementEncode ==
  <<Named("capability"), U32("version"), Enum8("evidence"), Hash("evidence_digest")>>
CapabilityStatementDecode ==
  <<Named("capability"), U32("version"), Enum8("evidence"), Hash("evidence_digest")>>

MemberConstitutionEncode ==
  <<Id("domain"), Id("member"), U64("generation"), U32("software_major"),
    U32("software_minor"), U32("software_patch"), List("capabilities",
    kMaxCapabilitiesPerMember, CapabilityStatementEncode), List("requirements",
    kMaxCapabilitiesPerMember, CapabilityRequirementEncode), List("retained",
    kMaxScopesPerMember, ScopeGrantEncode), List("delegated", kMaxDelegationTermsPerMember,
    DelegationTermsEncode), Text("description", kMaxTextLength)>>
MemberConstitutionDecode ==
  <<Id("domain"), Id("member"), U64("generation"), U32("software_major"),
    U32("software_minor"), U32("software_patch"), List("capabilities",
    kMaxCapabilitiesPerMember, CapabilityStatementDecode), List("requirements",
    kMaxCapabilitiesPerMember, CapabilityRequirementDecode), List("retained",
    kMaxScopesPerMember, ScopeGrantDecode), List("delegated", kMaxDelegationTermsPerMember,
    DelegationTermsDecode), Text("description", kMaxTextLength)>>

MemberIdentityEncode ==
  <<Id("domain"), Id("member"), U64("generation"), U64("incarnation"), Hash("constitution"),
    Id("node"), U64("started_at"), Bool("reincarnated")>>
MemberIdentityDecode ==
  <<Id("domain"), Id("member"), U64("generation"), U64("incarnation"), Hash("constitution"),
    Id("node"), U64("started_at"), Bool("reincarnated")>>

MemberDeclarationEncode ==
  In("constitution", MemberConstitutionEncode) \o <<U64("incarnation"), Id("node"),
    U64("declared_at")>>
MemberDeclarationDecode ==
  In("constitution", MemberConstitutionDecode) \o <<U64("incarnation"), Id("node"),
    U64("declared_at")>>

PolicyRuleEncode ==
  <<Name("id"), Enum8("kind"), Bool("enabled"), U64("value"), Name("scope")>> \o
    In("capability", CapabilityRequirementEncode) \o <<List("members", kMaxMembers,
    Parties), Text("description", kMaxShortTextLength)>>
PolicyRuleDecode ==
  <<Name("id"), Enum8("kind"), Bool("enabled"), U64("value"), Name("scope")>> \o
    In("capability", CapabilityRequirementDecode) \o <<List("members", kMaxMembers,
    Parties), Text("description", kMaxShortTextLength)>>

FederationPolicyEncode ==
  <<Name("id"), U64("generation"), List("rules", kMaxPolicyRules, PolicyRuleEncode),
    Text("description", kMaxTextLength)>>
FederationPolicyDecode ==
  <<Name("id"), U64("generation"), List("rules", kMaxPolicyRules, PolicyRuleDecode),
    Text("description", kMaxTextLength)>>

PeerObservationEncode ==
  <<Id("peer"), U64("peer_incarnation"), Enum8("state"), U64("observed_at"), Text("detail",
    kMaxShortTextLength)>>
PeerObservationDecode ==
  <<Id("peer"), U64("peer_incarnation"), Enum8("state"), U64("observed_at"), Text("detail",
    kMaxShortTextLength)>>

MemberObservationEncode ==
  <<Id("observer"), U64("observer_incarnation"), U64("epoch"), U64("recorded_at"),
    List("peers", kMaxMembersPerObservation, PeerObservationEncode)>>
MemberObservationDecode ==
  <<Id("observer"), U64("observer_incarnation"), U64("epoch"), U64("recorded_at"),
    List("peers", kMaxMembersPerObservation, PeerObservationDecode)>>

AuthorityLeaseEncode ==
  <<Id("id"), Id("federation")>> \o In("holder", MemberIdentityEncode) \o <<List("scopes",
    kMaxScopesPerLease, ScopeGrantEncode), U64("issued_epoch"), U64("not_after_epoch"),
    U64("issued_at"), U64("not_after"), Id("issuer_node"), U64("issuer_incarnation"),
    Bool("revoked"), U64("revoked_at"), U16("revoke_reason"), Text("revoke_detail",
    kMaxShortTextLength)>>
AuthorityLeaseDecode ==
  <<Id("id"), Id("federation")>> \o In("holder", MemberIdentityDecode) \o <<List("scopes",
    kMaxScopesPerLease, ScopeGrantDecode), U64("issued_epoch"), U64("not_after_epoch"),
    U64("issued_at"), U64("not_after"), Id("issuer_node"), U64("issuer_incarnation"),
    Bool("revoked"), U64("revoked_at"), U16("revoke_reason"), Text("revoke_detail",
    kMaxShortTextLength)>>

ReasonEncode == <<Enum16("code"), Text("detail", kMaxShortTextLength)>>
ContributionEncode ==
  <<Id("member"), Enum8("role"), U64("generation"), U64("incarnation"),
    Hash("constitution"), Hash("evidence"), U64("epoch"), Bool("identity_current"),
    Text("note", kMaxShortTextLength)>>
ReasonDecode == <<Enum16("code"), Text("detail", kMaxShortTextLength)>>
ContributionDecode ==
  <<Id("member"), Enum8("role"), U64("generation"), U64("incarnation"),
    Hash("constitution"), Hash("evidence"), U64("epoch"), Bool("identity_current"),
    Text("note", kMaxShortTextLength)>>

ExplanationEncode ==
  <<Enum8("outcome"), Enum8("evidence"), List("reasons", kMaxReasonsPerDecision,
    ReasonEncode), List("contributions", kMaxContributionsPerDecision, ContributionEncode),
    List("conflicts", kMaxConflicts, ConflictRecordEncode), List("considered_grants",
    kMaxEffectiveGrantsPerDecision, ScopeGrantEncode), List("effective_grants",
    kMaxEffectiveGrantsPerDecision, ScopeGrantEncode), Bool("limit_reached"),
    Text("summary", kMaxExplanationTextLength)>>
ExplanationDecode ==
  <<Enum8("outcome"), Enum8("evidence"), List("reasons", kMaxReasonsPerDecision,
    ReasonDecode), List("contributions", kMaxContributionsPerDecision, ContributionDecode),
    List("conflicts", kMaxConflicts, ConflictRecordDecode), List("considered_grants",
    kMaxEffectiveGrantsPerDecision, ScopeGrantDecode), List("effective_grants",
    kMaxEffectiveGrantsPerDecision, ScopeGrantDecode), Bool("limit_reached"),
    Text("summary", kMaxExplanationTextLength)>>

AuthorityRequestEncode ==
  <<Id("id"), Id("federation"), U64("epoch_seen")>> \o In("actor", MemberIdentityEncode) \o
    In("requested", ScopeGrantEncode) \o <<Id("lease"), U64("issued_at"),
    Name("constraint")>>
AuthorityRequestDecode ==
  <<Id("id"), Id("federation"), U64("epoch_seen")>> \o In("actor", MemberIdentityDecode) \o
    In("requested", ScopeGrantDecode) \o <<Id("lease"), U64("issued_at"),
    Name("constraint")>>

AuthorityDecisionEncode ==
  <<Id("request"), Enum8("outcome"), Id("federation"), U64("epoch_seen"),
    U64("epoch_current")>> \o In("requested", ScopeGrantEncode) \o In("actor_declared",
    MemberIdentityEncode) \o In("actor_current", MemberIdentityEncode) \o
    <<Enum8("lifecycle"), List("effective_authority", kMaxEffectiveGrantsPerDecision,
    ScopeGrantEncode)>> \o In("explanation", ExplanationEncode) \o <<U64("decided_at")>>
AuthorityDecisionDecode ==
  <<Id("request"), Enum8("outcome"), Id("federation"), U64("epoch_seen"),
    U64("epoch_current")>> \o In("requested", ScopeGrantDecode) \o In("actor_declared",
    MemberIdentityDecode) \o In("actor_current", MemberIdentityDecode) \o
    <<Enum8("lifecycle"), List("effective_authority", kMaxEffectiveGrantsPerDecision,
    ScopeGrantDecode)>> \o In("explanation", ExplanationDecode) \o <<U64("decided_at")>>

ProvenanceEncode ==
  <<Id("node"), Id("member"), U64("generation"), U64("incarnation"), Hash("constitution"),
    U64("epoch"), U64("issued_at")>>
ProvenanceDecode ==
  <<Id("node"), Id("member"), U64("generation"), U64("incarnation"), Hash("constitution"),
    U64("epoch"), U64("issued_at")>>

ArtifactEnvelopeEncode ==
  <<Id("evidence"), Enum16("kind"), Id("federation"), Id("subject")>> \o In("issuer",
    ProvenanceEncode) \o <<Hash("body_digest")>>
ArtifactEnvelopeDecode ==
  <<Id("evidence"), Enum16("kind"), Id("federation"), Id("subject")>> \o In("issuer",
    ProvenanceDecode) \o <<Hash("body_digest")>>

FederationGenesisEncode ==
  <<Id("federation"), Id("coordinator")>> \o In("founder", MemberDeclarationEncode) \o
    <<List("founder_grants", kMaxScopesPerMember, ScopeGrantEncode)>> \o In("policy",
    FederationPolicyEncode) \o <<Text("description", kMaxTextLength), U64("created_at")>>
FederationGenesisDecode ==
  <<Id("federation"), Id("coordinator")>> \o In("founder", MemberDeclarationDecode) \o
    <<List("founder_grants", kMaxScopesPerMember, ScopeGrantDecode)>> \o In("policy",
    FederationPolicyDecode) \o <<Text("description", kMaxTextLength), U64("created_at")>>

ArtifactBodyEncode ==
  In("declaration", MemberDeclarationEncode) \o In("declared_identity",
    MemberIdentityEncode) \o In("genesis", FederationGenesisEncode) \o In("policy",
    FederationPolicyEncode) \o <<U64("epoch"), U64("policy_generation"),
    Hash("policy_digest"), U64("lineage"), List("parties", kMaxMembers, Parties),
    U32("required_endorsements"), U32("required_distinct_parties"), List("delegated_terms",
    kMaxDelegationTermsPerMember, DelegationTermsEncode), List("withdrawn_grants",
    kMaxScopesPerMember, ScopeGrantEncode), Id("lease")>> \o In("lease_holder",
    MemberIdentityEncode) \o <<List("lease_scopes", kMaxScopesPerLease, ScopeGrantEncode),
    U64("lease_issued_epoch"), U64("lease_not_after_epoch"), U64("lease_not_after"),
    U64("lease_issuer_incarnation"), List("observations", kMaxMembersPerObservation,
    PeerObservationEncode), List("unreachable_members", kMaxMembers, Parties),
    Enum8("outcome"), Enum16("reason_code"), Enum16("fence_reason"), Text("reason_text",
    kMaxTextLength), U64("logical_time")>>
ArtifactBodyDecode ==
  In("declaration", MemberDeclarationDecode) \o In("declared_identity",
    MemberIdentityDecode) \o In("genesis", FederationGenesisDecode) \o In("policy",
    FederationPolicyDecode) \o <<U64("epoch"), U64("policy_generation"),
    Hash("policy_digest"), U64("lineage"), List("parties", kMaxMembers, Parties),
    U32("required_endorsements"), U32("required_distinct_parties"), List("delegated_terms",
    kMaxDelegationTermsPerMember, DelegationTermsDecode), List("withdrawn_grants",
    kMaxScopesPerMember, ScopeGrantDecode), Id("lease")>> \o In("lease_holder",
    MemberIdentityDecode) \o <<List("lease_scopes", kMaxScopesPerLease, ScopeGrantDecode),
    U64("lease_issued_epoch"), U64("lease_not_after_epoch"), U64("lease_not_after"),
    U64("lease_issuer_incarnation"), List("observations", kMaxMembersPerObservation,
    PeerObservationDecode), List("unreachable_members", kMaxMembers, Parties),
    Enum8("outcome"), Enum16("reason_code"), Enum16("fence_reason"), Text("reason_text",
    kMaxTextLength), U64("logical_time")>>

ArtifactEncode == In("envelope", ArtifactEnvelopeEncode) \o In("body", ArtifactBodyEncode)
ArtifactDecode == In("envelope", ArtifactEnvelopeDecode) \o In("body", ArtifactBodyDecode)

HelloRequestEncode ==
  <<Id("federation"), Id("node"), U64("incarnation"), U16("protocol_version"),
    Text("product", kMaxShortTextLength)>>
HelloRequestDecode ==
  <<Id("federation"), Id("node"), U64("incarnation"), U16("protocol_version"),
    Text("product", kMaxShortTextLength)>>

WelcomeResponseEncode ==
  <<Id("federation"), Id("coordinator"), U64("coordinator_incarnation"), U64("epoch"),
    U64("logical_time"), Hash("state_digest"), Name("policy_id"), U64("policy_generation"),
    U16("protocol_version"), Text("detail", kMaxTextLength)>>
WelcomeResponseDecode ==
  <<Id("federation"), Id("coordinator"), U64("coordinator_incarnation"), U64("epoch"),
    U64("logical_time"), Hash("state_digest"), Name("policy_id"), U64("policy_generation"),
    U16("protocol_version"), Text("detail", kMaxTextLength)>>

ErrorResponseEncode == <<Enum16("code"), Text("message", kMaxTextLength)>>
ErrorResponseDecode == <<Enum16("code"), Text("message", kMaxTextLength)>>

DigestResponseEncode ==
  <<Hash("state_digest"), U64("epoch"), U64("logical_time"), U64("artifact_count"),
    U64("member_count"), U64("active_member_count"), Bool("reconciling")>>
DigestResponseDecode ==
  <<Hash("state_digest"), U64("epoch"), U64("logical_time"), U64("artifact_count"),
    U64("member_count"), U64("active_member_count"), Bool("reconciling")>>

StateResponseEncode == <<Hash("state_digest"), Text("json", kMaxSnapshotChunkBytes)>>
StateResponseDecode == <<Hash("state_digest"), Text("json", kMaxSnapshotChunkBytes)>>

ArtifactResponseEncode ==
  <<Enum16("code"), Text("detail", kMaxTextLength), Hash("artifact_digest"),
    Hash("state_digest"), Enum8("outcome"), Bool("already_present"), Bool("rejected"),
    U64("artifact_count")>>
ArtifactResponseDecode ==
  <<Enum16("code"), Text("detail", kMaxTextLength), Hash("artifact_digest"),
    Hash("state_digest"), Enum8("outcome"), Bool("already_present"), Bool("rejected"),
    U64("artifact_count")>>

LeaseIssueRequestEncode ==
  <<Id("holder"), List("scopes", kMaxScopesPerLease, ScopeGrantEncode),
    U64("not_after_epoch"), U64("lifetime_ticks")>>
LeaseIssueRequestDecode ==
  <<Id("holder"), List("scopes", kMaxScopesPerLease, ScopeGrantDecode),
    U64("not_after_epoch"), U64("lifetime_ticks")>>

LeaseResponseEncode ==
  <<U16("code"), Text("detail", kMaxTextLength)>> \o In("lease", AuthorityLeaseEncode)
LeaseResponseDecode ==
  <<U16("code"), Text("detail", kMaxTextLength)>> \o In("lease", AuthorityLeaseDecode)

LeaseRevokeRequestEncode == <<Id("lease"), U16("reason"), Text("detail", kMaxTextLength)>>
LeaseRevokeRequestDecode == <<Id("lease"), U16("reason"), Text("detail", kMaxTextLength)>>

TimeAdvanceRequestEncode == <<U64("to")>>
TimeAdvanceRequestDecode == <<U64("to")>>

MemberActionRequestEncode ==
  <<Id("subject"), U64("lineage"), U64("epoch"), U16("reason"), Text("detail",
    kMaxTextLength)>>
MemberActionRequestDecode ==
  <<Id("subject"), U64("lineage"), U64("epoch"), U16("reason"), Text("detail",
    kMaxTextLength)>>

SimpleResponseEncode ==
  <<U16("code"), Text("detail", kMaxTextLength), Hash("state_digest")>>
SimpleResponseDecodeReordered ==
  <<U16("code"), Hash("state_digest"), Text("detail", kMaxTextLength)>>
SimpleResponseDecode ==
  <<U16("code"), Text("detail", kMaxTextLength), Hash("state_digest")>>

ArtifactListResponseEncode ==
  <<List("artifacts", kMaxArtifacts, ArtifactEncode), Hash("state_digest")>>
ArtifactListResponseDecode ==
  <<List("artifacts", kMaxArtifacts, ArtifactDecode), Hash("state_digest")>>

LeaseListResponseEncode == <<List("leases", kMaxLeases, AuthorityLeaseEncode)>>
LeaseListResponseDecode == <<List("leases", kMaxLeases, AuthorityLeaseDecode)>>

ProbeResponseEncode ==
  <<Id("federation"), Id("member"), U64("incarnation"), Id("node"), U64("epoch"),
    U64("logical_time"), Hash("constitution")>>
ProbeResponseDecode ==
  <<Id("federation"), Id("member"), U64("incarnation"), Id("node"), U64("epoch"),
    U64("logical_time"), Hash("constitution")>>

StatsResponseEncode ==
  <<Hash("state_digest"), U64("epoch"), U64("logical_time"), U64("artifacts"),
    U64("rejected_artifacts"), U64("duplicate_artifacts"), U64("members"),
    U64("active_members"), U64("leases"), U64("replay_entries"),
    U64("connections_accepted"), U64("protocol_errors"), U64("journal_records"),
    U64("journal_bytes"), Bool("reconciling"), Text("partition_state", kMaxShortTextLength),
    Text("transport", kMaxTextLength)>>
StatsResponseDecode ==
  <<Hash("state_digest"), U64("epoch"), U64("logical_time"), U64("artifacts"),
    U64("rejected_artifacts"), U64("duplicate_artifacts"), U64("members"),
    U64("active_members"), U64("leases"), U64("replay_entries"),
    U64("connections_accepted"), U64("protocol_errors"), U64("journal_records"),
    U64("journal_bytes"), Bool("reconciling"), Text("partition_state", kMaxShortTextLength),
    Text("transport", kMaxTextLength)>>

Written ==
  [ScopeGrant |-> ScopeGrantEncode, DelegationTerms |-> DelegationTermsEncode,
   ConflictRecord |-> ConflictRecordEncode,
   CapabilityRequirement |-> CapabilityRequirementEncode,
   CapabilityStatement |-> CapabilityStatementEncode,
   MemberConstitution |-> MemberConstitutionEncode,
   MemberIdentity |-> MemberIdentityEncode, MemberDeclaration |-> MemberDeclarationEncode,
   PolicyRule |-> PolicyRuleEncode, FederationPolicy |-> FederationPolicyEncode,
   PeerObservation |-> PeerObservationEncode,
   MemberObservation |-> MemberObservationEncode, AuthorityLease |-> AuthorityLeaseEncode,
   Explanation |-> ExplanationEncode, AuthorityRequest |-> AuthorityRequestEncode,
   AuthorityDecision |-> AuthorityDecisionEncode, Provenance |-> ProvenanceEncode,
   ArtifactEnvelope |-> ArtifactEnvelopeEncode,
   FederationGenesis |-> FederationGenesisEncode, ArtifactBody |-> ArtifactBodyEncode,
   Artifact |-> ArtifactEncode, HelloRequest |-> HelloRequestEncode,
   WelcomeResponse |-> WelcomeResponseEncode, ErrorResponse |-> ErrorResponseEncode,
   DigestResponse |-> DigestResponseEncode, StateResponse |-> StateResponseEncode,
   ArtifactResponse |-> ArtifactResponseEncode,
   LeaseIssueRequest |-> LeaseIssueRequestEncode, LeaseResponse |-> LeaseResponseEncode,
   LeaseRevokeRequest |-> LeaseRevokeRequestEncode,
   TimeAdvanceRequest |-> TimeAdvanceRequestEncode,
   MemberActionRequest |-> MemberActionRequestEncode,
   SimpleResponse |-> SimpleResponseEncode,
   ArtifactListResponse |-> ArtifactListResponseEncode,
   LeaseListResponse |-> LeaseListResponseEncode, ProbeResponse |-> ProbeResponseEncode,
   StatsResponse |-> StatsResponseEncode]

ReadBack ==
  [ScopeGrant |-> ScopeGrantDecode, DelegationTerms |-> DelegationTermsDecode,
   ConflictRecord |-> ConflictRecordDecode,
   CapabilityRequirement |-> CapabilityRequirementDecode,
   CapabilityStatement |-> CapabilityStatementDecode,
   MemberConstitution |-> MemberConstitutionDecode,
   MemberIdentity |-> MemberIdentityDecode, MemberDeclaration |-> MemberDeclarationDecode,
   PolicyRule |-> PolicyRuleDecode, FederationPolicy |-> FederationPolicyDecode,
   PeerObservation |-> PeerObservationDecode,
   MemberObservation |-> MemberObservationDecode, AuthorityLease |-> AuthorityLeaseDecode,
   Explanation |-> ExplanationDecode, AuthorityRequest |-> AuthorityRequestDecode,
   AuthorityDecision |-> AuthorityDecisionDecode, Provenance |-> ProvenanceDecode,
   ArtifactEnvelope |-> ArtifactEnvelopeDecode,
   FederationGenesis |-> FederationGenesisDecode, ArtifactBody |-> ArtifactBodyDecode,
   Artifact |-> ArtifactDecode, HelloRequest |-> HelloRequestDecode,
   WelcomeResponse |-> WelcomeResponseDecode, ErrorResponse |-> ErrorResponseDecode,
   DigestResponse |-> DigestResponseDecode, StateResponse |-> StateResponseDecode,
   ArtifactResponse |-> ArtifactResponseDecode,
   LeaseIssueRequest |-> LeaseIssueRequestDecode, LeaseResponse |-> LeaseResponseDecode,
   LeaseRevokeRequest |-> LeaseRevokeRequestDecode,
   TimeAdvanceRequest |-> TimeAdvanceRequestDecode,
   MemberActionRequest |-> MemberActionRequestDecode,
   SimpleResponse |-> SimpleResponseDecode,
   ArtifactListResponse |-> ArtifactListResponseDecode,
   LeaseListResponse |-> LeaseListResponseDecode, ProbeResponse |-> ProbeResponseDecode,
   StatsResponse |-> StatsResponseDecode]
=================================================================================
