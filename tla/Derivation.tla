-------------------------------- MODULE Derivation --------------------------------
(***********************************************************************************)
(* derive_state of state.cpp: the federation state as a function of the evidence   *)
(* set, the observations, the leases and the clock.  Reasons, digests and counters *)
(* are left out.                                                                   *)
(***********************************************************************************)
EXTENDS Membership, PartitionAssessment

MaxRounds == MaxMembers + 2                           \* kMaxDerivationRounds
Holding     == {"Active", "Degraded"}                 \* lifecycle_holds_federation_authority
EstablishedWhileCurrent == {"Admitted", "Active"}
Established == Holding \union {"Admitted"}

(***********************************************************************************)
(* prepare_artifacts.  The identifier of a member's artefact is a hash of issuer,  *)
(* kind and body; its digest covers the stamp in the envelope as well.  A body that*)
(* names the issuer itself carries the stamp too (declared_at, started_at).  A     *)
(* proposal and an endorsement name the candidate, as their caller declares it, so *)
(* they have one identifier at every tick and from every run of the issuer.  A     *)
(* coordinator record's identifier is a hash of its decision key, which leaves the *)
(* incarnation out.                                                                *)
(***********************************************************************************)
StampedKinds == {"MembershipAcceptance", "MemberReattestation", "DelegationDeclaration",
                 "DelegationWithdrawal", "MembershipLeave", "MembershipFence"}

EvidenceId(a) ==
  [kind |-> a.kind, subject |-> a.subject, issuer |-> a.issuer, lineage |-> a.lineage,
   epoch |-> a.epoch, con |-> a.id.con, what |-> a.what,
   inc |-> IF a.issuer = Coordinator THEN 0 ELSE a.id.inc,
   at  |-> IF a.issuer # Coordinator /\ a.kind \in StampedKinds THEN a.at ELSE NoStamp]

SameContent(a, b) == EvidenceId(a) = EvidenceId(b) /\ a.at = b.at

Quarantined(A) ==
  {a \in A : \E b \in A : EvidenceId(a) = EvidenceId(b) /\ ~SameContent(a, b)}

\* Artifact::validate, for the fields the model keeps.
ValidArtifact(a) ==
  /\ a.kind \in {"MembershipProposal", "MembershipAcceptance", "MembershipEndorsement",
                 "MemberReattestation", "DelegationDeclaration", "FederationGenesis"} =>
       /\ a.id.con \in Revisions
       /\ Constitution[a.id.con].member = a.subject
       /\ ValidConstitution(Constitution[a.id.con].delegated, Constitution[a.id.con].retained)
  /\ a.kind \in {"MembershipAdmission", "MembershipActivation"} =>
       a.id.con \in Revisions /\ Constitution[a.id.con].member = a.subject
  /\ a.kind \in {"MembershipLeave", "MembershipFence", "MembershipRetirement"} =>
       a.subject # Coordinator
  /\ a.kind = "DelegationWithdrawal" => a.what # {}
  /\ a.kind = "PolicyUpdate" => ValidPolicy(a.what.policy)
  /\ a.kind \in {"EpochAdvance", "ReconciliationComplete"} => a.epoch # 0

Prepare(A) == {a \in A \ Quarantined(A) : ValidArtifact(a)}

(***********************************************************************************)
(* Genesis, policy, epoch, reconciliation.                                         *)
(***********************************************************************************)
GenesisOf(P) == Of(P, "FederationGenesis")

Founder(P) ==
  IF Cardinality(GenesisOf(P)) = 1 THEN (CHOOSE g \in GenesisOf(P) : TRUE).subject
  ELSE Coordinator
FounderIdentity(P) ==
  IF Cardinality(GenesisOf(P)) = 1 THEN (CHOOSE g \in GenesisOf(P) : TRUE).id ELSE NoIdentity

\* The highest policy generation, then the smallest identifier; without an update
\* the genesis record's policy, which ensure_genesis copies from the configuration.
StatePolicy(P, configured) ==
  LET updates == Of(P, "PolicyUpdate")
  IN  IF updates = {} THEN configured
      ELSE FirstByEvidence({u \in updates : \A v \in updates : v.what.generation <= u.what.generation}).what.policy

CurrentEpoch(P) == Max({1} \union {a.epoch : a \in Of(P, "EpochAdvance")})

RecoveryAdvances(P) == {a \in Of(P, "EpochAdvance") : a.what \in {"Split", "Indeterminate"}}
RecoveryEpochAny(P) == CurrentEpoch(P)
RecoveryEpoch(P)    == Max({a.epoch : a \in RecoveryAdvances(P)})
Recorded(P)         == \E r \in Of(P, "ReconciliationComplete") : r.epoch >= RecoveryEpoch(P)

(***********************************************************************************)
(* The established-membership fixpoint, from the empty set.                        *)
(***********************************************************************************)
Subjects(P, leases) ==
  ({a.subject : a \in P} \union {l.holder : l \in leases}) \ {Coordinator}
BySubject(P, m) == {a \in P : a.subject = m}

Context(P, policy, established, partition, reconciling) ==
  [epoch |-> CurrentEpoch(P), policy |-> policy, partition |-> partition,
   reconciling |-> reconciling, established |-> established, founder |-> Founder(P),
   founderId |-> FounderIdentity(P), order |-> "evidence"]

\* While standing is being determined, nothing is partitioned or reconciling.
StandingContext(P, policy, established) == Context(P, policy, established, "Connected", FALSE)

Stands(m, C, ctx) == Lifecycle(m, C, Facts(m, C, ctx), ctx) \in Established
StandingStep(P, policy, subjects, established) ==
  {m \in subjects : Stands(m, InLineage(m, BySubject(P, m)),
                           StandingContext(P, policy, established))}

\* One round after another until a round changes nothing or the bound is reached.
Round(P, policy, subjects, last) ==
  IF last.converged THEN last
  ELSE LET next == StandingStep(P, policy, subjects, last.set)
       IN  [set |-> next, converged |-> next = last.set]

StandingFixpointOptimistic(P, policy, subjects) ==
  LET round[n \in 0..MaxRounds] ==
        IF n = 0 THEN [set |-> subjects, converged |-> FALSE]
        ELSE Round(P, policy, subjects, round[n - 1])
  IN  round[MaxRounds].set

StandingFixpoint(P, policy, subjects) ==
  LET round[n \in 0..MaxRounds] ==
        IF n = 0 THEN [set |-> {}, converged |-> FALSE]
        ELSE Round(P, policy, subjects, round[n - 1])
  IN  round[MaxRounds].set

(***********************************************************************************)
(* Conflicts between live claims.                                                  *)
(***********************************************************************************)
DisagreeOnModeOnly(s, t) == s.mode # t.mode \/ ~TermsEquivalent(s, t)
Disagree(s, t) == \/ s.mode # t.mode
                  \/ s.mode = "Exclusive"
                  \/ ~TermsEquivalent(s, t)

Claims(members) ==
  UNION {{[member |-> m, terms |-> t] : t \in members[m].terms} :
           m \in {x \in DOMAIN members : members[x].lifecycle \in Holding}}

ClaimsOn(claims, grant) == {c \in claims : c.terms.grant = grant}

Disputed(claims) ==
  {g \in {c.terms.grant : c \in claims} :
     \E c, d \in ClaimsOn(claims, g) : c # d /\ Disagree(c.terms, d.terms)}

Claimants(claims, grant) == {c.member : c \in ClaimsOn(claims, grant)}

\* A configured precedence settles a dispute only when it names one claimant.
Matching(policy, claims, grant) == PrecedenceFor(policy, grant) \intersect Claimants(claims, grant)
Settled(policy, claims) ==
  {g \in Disputed(claims) : HasPrecedence(policy, g) /\ Cardinality(Matching(policy, claims, g)) = 1}
Contained(policy, claims) == Disputed(claims) \ Settled(policy, claims)

(***********************************************************************************)
(* Effective authority: where each delegated term ends up.                         *)
(***********************************************************************************)
Suspended(policy, reconciling, partition) ==
  \/ reconciling /\ SuspendWhileReconciling(policy)
  \/ partition \in {"Split", "Indeterminate"} /\ SuspendOnPartition(policy)

WithheldFromDisputants(m, member, t, claims, policy, now) ==
  \/ Classify(t.grant.scope) \in {"Unknown", "Local"}
  \/ GrantsCover(member.withdrawn, t.grant)
  \/ \E g \in Disputed(claims) : m \in Claimants(claims, g)
  \/ /\ t.grant \in Settled(policy, claims)
     /\ m \notin Matching(policy, claims, t.grant)
  \/ member.lifecycle \notin Holding

Withheld(m, member, t, claims, policy, now) ==
  \/ Classify(t.grant.scope) \in {"Unknown", "Local"}
  \/ ScopeDelegationForbidden(policy, t.grant.scope)
  \/ GrantsCover(member.withdrawn, t.grant)
  \/ t.not_after # 0 /\ now > t.not_after
  \/ t.grant \in Contained(policy, claims)
  \/ /\ t.grant \in Settled(policy, claims)
     /\ m \notin Matching(policy, claims, t.grant)
  \/ member.lifecycle \notin Holding

Disposition(m, member, t, claims, policy, reconciling, partition, now) ==
  IF Withheld(m, member, t, claims, policy, now) THEN "withheld"
  ELSE IF Classify(t.grant.scope) = "GlobalMutation" /\ Suspended(policy, reconciling, partition)
    THEN "suspended"
  ELSE IF member.lifecycle = "Degraded" /\ t.grant.verb \in {"mutate", "administer"}
    THEN "withheld"
  ELSE "granted"

\* evaluate_lease, under one coordinator incarnation: restarts are in Coordinator.
LeaseStateAt(l, epoch, now) ==
  IF l.revoked THEN "Revoked"
  ELSE IF epoch > l.not_after_epoch \/ epoch < l.issued_epoch THEN "EpochMismatch"
  ELSE IF now > l.not_after THEN "Expired"
  ELSE "Valid"

LeaseViews(leases, epoch, now) ==
  {[lease |-> l, state |-> LeaseStateAt(l, epoch, now)] : l \in leases}

(***********************************************************************************)
(* derive_state, one section after another: each takes what the ones before it     *)
(* computed.  inputs is the rest of DerivationInputs: observations, leases, replay *)
(* ledger, configured policy and clock.                                            *)
(***********************************************************************************)
Grants(ending, where) == {t.grant : t \in {x \in DOMAIN ending : ending[x] = where}}

MemberState(m, d, ending, contained, claims) ==
  [lifecycle |-> d.lifecycle, lineage |-> d.lineage, admitted |-> d.admitted,
   current |-> d.current, matches |-> d.matches, atEpoch |-> d.atEpoch,
   evidence |-> d.evidence, terms |-> d.terms, withdrawn |-> d.withdrawn,
   granted   |-> Grants(ending, "granted"),
   withheld  |-> Grants(ending, "withheld"),
   suspended |-> Grants(ending, "suspended"),
   conflicts |-> {g \in contained : m \in Claimants(claims, g)}]

WithAuthority(ctx, derived, claims, contained, inputs) ==
  [epoch |-> ctx.epoch, policy |-> ctx.policy, now |-> inputs.now, partition |-> ctx.partition,
   reconciling |-> ctx.reconciling, established |-> ctx.established, disputed |-> contained,
   members |-> [m \in DOMAIN derived |->
     MemberState(m, derived[m],
       [t \in derived[m].terms |->
          Disposition(m, derived[m], t, claims, ctx.policy, ctx.reconciling, ctx.partition,
                      inputs.now)],
       contained, claims)],
   leases |-> LeaseViews(inputs.leases, ctx.epoch, inputs.now), replay |-> inputs.replay]

WithClaims(ctx, derived, claims, inputs) ==
  WithAuthority(ctx, derived, claims, Contained(ctx.policy, claims), inputs)

WithMembers(ctx, derived, inputs) == WithClaims(ctx, derived, Claims(derived), inputs)

InContext(P, ctx, inputs) ==
  WithMembers(ctx,
    [m \in Subjects(P, inputs.leases) |-> DeriveMembership(m, BySubject(P, m), ctx)], inputs)

\* A recovery epoch suspends until it is recorded as reconciled and everybody that
\* stands has re-attested.
Reconciling(P, standing) ==
  /\ RecoveryAdvances(P) # {}
  /\ ~(Recorded(P) /\ \A m \in DOMAIN standing : standing[m].reattested)

WithStanding(P, ctx, standing, inputs) ==
  InContext(P,
    Context(P, ctx.policy, ctx.established,
      AssessPartition(ctx.established, [m \in ctx.established |-> standing[m].current.inc],
                      inputs.observations, ctx.epoch, inputs.now, ObservationFreshness(ctx.policy)),
      Reconciling(P, standing)),
    inputs)

FromStanding(P, ctx, inputs) ==
  WithStanding(P, ctx, [m \in ctx.established |-> DeriveMembership(m, BySubject(P, m), ctx)],
               inputs)

UnderPolicy(P, policy, inputs) ==
  FromStanding(P, StandingContext(P, policy, StandingFixpoint(P, policy, Subjects(P, inputs.leases))),
               inputs)

FromPrepared(P, inputs) == UnderPolicy(P, StatePolicy(P, inputs.policy), inputs)

Derive(artifacts, inputs) == FromPrepared(Prepare(artifacts), inputs)
===================================================================================
