---------------------------------- MODULE Policy ----------------------------------
(***********************************************************************************)
(* Federation policy and capability compatibility: policy.cpp, capability.cpp.     *)
(*                                                                                 *)
(* A policy is the sequence of its rules in canonical order, the order of their    *)
(* identifiers.  Some questions are answered by the first enabled rule of a kind   *)
(* and some by the last one.                                                       *)
(***********************************************************************************)
EXTENDS Scopes, Integers

CONSTANTS
  MaxMembers,             \* kMaxMembers
  MaxEndorsements,        \* kMaxRequiredEndorsements
  DefaultFreshness,       \* kDefaultObservationFreshnessTicks
  DefaultLeaseLifetime    \* kDefaultMaxLeaseLifetimeTicks

ASSUME PolicyBounds ==
  /\ MaxMembers \in Nat \ {0, 1}
  /\ MaxEndorsements \in Nat
  /\ DefaultFreshness \in Nat
  /\ DefaultLeaseLifetime \in Nat

Enabled(policy, kinds) ==
  SelectSeq(policy, LAMBDA r : r.enabled /\ r.kind \in kinds)

LastValue(policy, kind, default) ==
  LET found == Enabled(policy, {kind})
  IN  IF found = <<>> THEN default ELSE Last(found).value

FirstIsSet(policy, kind) ==
  LET found == Enabled(policy, {kind})
  IN  found = <<>> \/ Head(found).value # 0

Smaller(a, b) == IF a < b THEN a ELSE b
Larger(a, b)  == IF a < b THEN b ELSE a

RequiredEndorsements(policy) ==
  Smaller(LastValue(policy, "RequireEndorsements", 1), MaxEndorsements)

RequiredDistinctParties(policy) ==
  Smaller(Larger(LastValue(policy, "RequireDistinctParties", 2), 2), MaxMembers)

ObservationFreshness(policy) ==
  LastValue(policy, "ObservationFreshnessTicks", DefaultFreshness)

MaxLeaseLifetime(policy) ==
  LastValue(policy, "MaxLeaseLifetimeTicks", DefaultLeaseLifetime)

SuspendOnPartition(policy) == FirstIsSet(policy, "SuspendGlobalMutationOnPartition")

SuspendWhileReconciling(policy) ==
  FirstIsSet(policy, "SuspendGlobalMutationWhileReconciling")

\* Two kinds of rule answer this question, with opposite senses; the last of them
\* in canonical order decides.
ReconsentOnGenerationChange(policy) ==
  LET found == Enabled(policy, {"RequireReconsentOnGenerationChange",
                                "AllowGenerationChangeWithoutReconsent"})
  IN  IF found = <<>> THEN TRUE
      ELSE (Last(found).value # 0) = (Last(found).kind = "RequireReconsentOnGenerationChange")

ScopeRules(policy, kind, scope) ==
  SelectSeq(Enabled(policy, {kind}), LAMBDA r : r.scope # <<>> /\ Covers(r.scope, scope))

ScopeDelegationForbidden(policy, scope) ==
  ScopeRules(policy, "ForbidScopeDelegation", scope) # <<>>

LeaseRequired(policy, grant) ==
  /\ grant.verb \in {"mutate", "administer"}
  /\ ScopeRules(policy, "RequireLease", grant.scope) # <<>>

\* precedence_for: the member list of the first rule that covers the grant, as the
\* set a canonical policy holds; NoPrecedence when there is none.
NoPrecedence == {}
PrecedenceFor(policy, grant) ==
  LET found == ScopeRules(policy, "PrecedenceForGrant", grant.scope)
  IN  IF found = <<>> THEN NoPrecedence ELSE Head(found).members
HasPrecedence(policy, grant) == ScopeRules(policy, "PrecedenceForGrant", grant.scope) # <<>>

MandatoryCapabilities(policy) ==
  {r.capability : r \in {x \in ToSet(Enabled(policy, {"RequireCapability"})) :
                           x.capability.name # ""}}

\* validate_policy: rule identifiers are unique and the counts are in range.
ValidPolicy(policy) ==
  /\ \A i, j \in DOMAIN policy : policy[i].id = policy[j].id => i = j
  /\ \A i \in DOMAIN policy : LET r == policy[i] IN
       /\ r.kind = "RequireEndorsements" => r.value <= MaxEndorsements
       /\ r.kind = "RequireDistinctParties" => r.value >= 2
       /\ r.kind = "PrecedenceForGrant" => r.scope # <<>>

(***********************************************************************************)
(* evaluate_compatibility: requirements are [name, min, max, mandatory], statements*)
(* [name, version, evidence].                                                      *)
(***********************************************************************************)
ModelledCapabilities ==
  {"federation.protocol.v1", "federation.transport.framed-tcp",
   "federation.authority.lease", "federation.partition.observation",
   "federation.canonical-state.v1", "federation.membership.multiparty"}

VersionInRange(req, version) ==
  /\ version >= req.min
  /\ req.max = 0 \/ version <= req.max

MatchState(req, statements) ==
  LET mine == {s \in statements : s.name = req.name}
      versions == {s.version : s \in mine}
  IN  IF req.name \notin ModelledCapabilities THEN "Unsupported"
      ELSE IF versions = {} THEN "Unknown"
      ELSE IF Cardinality(versions) > 1 THEN "Conflicting"
      ELSE IF \A v \in versions : ~VersionInRange(req, v) THEN "Incompatible"
      ELSE IF \E s \in mine : s.evidence = "Known" THEN "Satisfied"
      ELSE "Unknown"

EvaluateCompatibility(requirements, statements) ==
  LET Some(state) == \E r \in requirements : MatchState(r, statements) = state
      unknown_mandatory ==
        \E r \in requirements : r.mandatory /\ MatchState(r, statements) = "Unknown"
  IN  CASE Some("Incompatible") -> "Incompatible"
        [] ~Some("Incompatible") /\ Some("Conflicting") -> "Conflicting"
        [] OTHER ->
             IF Some("Unsupported") /\ (unknown_mandatory \/ Cardinality(requirements) = 1)
               THEN "Unsupported"
             ELSE IF unknown_mandatory THEN "Unknown"
             ELSE IF Some("Unsupported") THEN "Unsupported"
             ELSE IF Some("Unknown") THEN "Unknown"
             ELSE "Satisfied"
===================================================================================
