-------------------------------- MODULE Membership --------------------------------
(***********************************************************************************)
(* The lifecycle of one member, derived from the artefacts that name it as their   *)
(* subject: assess_multi_party and derive_membership of membership.cpp.            *)
(*                                                                                 *)
(* An artefact is a record                                                         *)
(*   kind, subject, issuer   - issuer = Coordinator for the coordinator's records  *)
(*   lineage, epoch          - body.epoch and issuer.epoch, which every builder    *)
(*                             sets to the same value                              *)
(*   id                      - the declared identity [con, inc]                    *)
(*   what                    - what the kind adds: delegated terms, withdrawn      *)
(*                             grants, a reason code, parties, a policy            *)
(*   at                      - the issuer's stamp: issuer.issued_at, and as what   *)
(*                             the issuer signs (constitution and incarnation)     *)
(*   rank                    - the place of its evidence identifier among those of *)
(*                             the same kind and subject; identifiers are hashes,  *)
(*                             so the order says nothing about the content         *)
(*   nth                     - for a re-attestation, its place in the order of     *)
(*                             arrival; nothing else depends on arrival            *)
(* A constitution is named by a member of Revisions, which stands for its digest;  *)
(* Constitution gives its content.                                                 *)
(***********************************************************************************)
EXTENDS Policy, FiniteSetsExt

CONSTANTS
  Members,        \* member identifiers
  Coordinator,    \* the nil member identifier, which coordinator records carry
  Revisions,      \* constitution digests
  Constitution    \* [Revisions -> [member, generation, delegated, retained, capabilities]]

ASSUME CoordinatorIsNil == Coordinator \notin Members
\* The zero digest is no constitution's, and a generation is unsigned.
ASSUME ConstitutionsAssumption ==
  "none" \notin Revisions /\ \A r \in Revisions : Constitution[r].generation \in Nat

NoIdentity == [con |-> "none", inc |-> 0]

Stamp(tick, by) == [tick |-> tick, by |-> by]
NoStamp         == Stamp(0, NoIdentity)

Generation(id) == IF id.con \in Revisions THEN Constitution[id.con].generation ELSE 0

Of(A, kind)        == {a \in A : a.kind = kind}
Own(m, A)          == {a \in A : a.issuer = m}
FirstByEvidence(A) == CHOOSE a \in A : \A b \in A : a.rank <= b.rank

\* The order in which a caller hands its artefacts over: derive_state sorts them by
\* evidence identifier, decide_locked keeps the order of arrival.
LastIn(order, A) ==
  CHOOSE a \in A : \A b \in A :
    IF order = "evidence" THEN b.rank <= a.rank ELSE b.nth <= a.nth

(***********************************************************************************)
(* assess_multi_party: who took part, and whether that is enough.                  *)
(***********************************************************************************)
AssessMultiParty(candidate, proposer, proposer_active, endorsers, policy) ==
  LET parties == ({proposer, candidate} \union endorsers) \ {Coordinator}
      counted == endorsers \ {Coordinator, candidate, proposer}
  IN  [parties   |-> parties,
       satisfied |-> /\ proposer # candidate
                     /\ proposer_active
                     /\ Cardinality(parties) >= RequiredDistinctParties(policy)
                     /\ Cardinality(counted) >= RequiredEndorsements(policy)]

(***********************************************************************************)
(* 1, 2. A lineage ends with the member's own leave notice and the next one starts *)
(* with the first artefact that names it.                                          *)
(***********************************************************************************)
LineageClosed(m, A, l) ==
  /\ \E a \in Own(m, Of(A, "MembershipLeave")) : a.lineage = l
  /\ \E a \in A : a.lineage = l + 1

CurrentLineage(m, A) ==
  CHOOSE l \in 0..Cardinality(A) :
    /\ ~LineageClosed(m, A, l)
    /\ \A k \in 0..(l - 1) : LineageClosed(m, A, k)

InLineage(m, A) == {a \in A : a.lineage = CurrentLineage(m, A)}

(***********************************************************************************)
(* 3. The operative proposal: never the member's own, the highest generation, and  *)
(* among those the smallest evidence identifier.                                   *)
(***********************************************************************************)
Sponsored(m, C) == Of(C, "MembershipProposal") \ Own(m, C)

NoProposal == [issuer |-> Coordinator, id |-> NoIdentity]

HighestGeneration(proposals) ==
  {p \in proposals : \A q \in proposals : Generation(q.id) <= Generation(p.id)}

OperativeProposal(m, C) ==
  IF Sponsored(m, C) = {} THEN NoProposal
  ELSE FirstByEvidence(HighestGeneration(Sponsored(m, C)))

(***********************************************************************************)
(* 4. Consent, endorsement, re-attestation: the facts the rest is decided from.    *)
(***********************************************************************************)
MatchingAcceptances(m, C, p) ==
  {a \in Own(m, Of(C, "MembershipAcceptance")) : a.id.con = p.id.con}

Endorsers(m, C, p, ctx) ==
  {e.issuer : e \in {x \in Of(C, "MembershipEndorsement") :
     /\ x.issuer \notin {m, p.issuer}
     /\ x.id.con = p.id.con
     /\ x.issuer \in ctx.established}}

AdmittedIdentity(m, p, ctx) ==
  IF p = NoProposal /\ ctx.founder = m THEN ctx.founderId ELSE p.id

FactsAbout(m, C, p, ctx) ==
  [proposal       |-> p,
   acceptances    |-> MatchingAcceptances(m, C, p),
   endorsers      |-> Endorsers(m, C, p, ctx),
   admitted       |-> AdmittedIdentity(m, p, ctx),
   reattestations |-> Own(m, Of(C, "MemberReattestation"))]
Facts(m, C, ctx) == FactsAbout(m, C, OperativeProposal(m, C), ctx)

IdentityConflict(m, C, f) == \E p \in Sponsored(m, C) : p.id.con # f.proposal.id.con

\* The re-attestation that names the identity: by epoch, incarnation, identifier.
LatestReattestation(owned) ==
  CHOOSE a \in owned : \A b \in owned :
    \/ b.epoch < a.epoch
    \/ b.epoch = a.epoch /\ b.id.inc < a.id.inc
    \/ b.epoch = a.epoch /\ b.id.inc = a.id.inc /\ b.rank <= a.rank

CurrentIdentity(f) ==
  IF f.reattestations # {} THEN LatestReattestation(f.reattestations).id
  ELSE IF f.acceptances # {} THEN FirstByEvidence(f.acceptances).id
  ELSE f.admitted

\* facts.declaration: an acceptance does not replace what the proposal declared.
DeclaredIdentity(f) ==
  IF f.reattestations # {} THEN LatestReattestation(f.reattestations).id ELSE f.admitted

(***********************************************************************************)
(* 5, 6. Admission and the fence in force.                                         *)
(***********************************************************************************)
Vouched(m, p, f, ctx) ==
  AssessMultiParty(m, p.issuer, p.issuer \in ctx.established, f.endorsers, ctx.policy).satisfied

AdmissionValidUnasked(m, C, f, ctx) ==
  IF f.proposal # NoProposal THEN Vouched(m, f.proposal, f, ctx) ELSE ctx.founder = m
AdmissionValidAllSponsors(m, C, f, ctx) ==
  IF f.proposal # NoProposal
    THEN f.acceptances # {} /\ \A p \in Sponsored(m, C) : Vouched(m, p, f, ctx)
    ELSE ctx.founder = m
AdmissionValid(m, C, f, ctx) ==
  IF f.proposal # NoProposal
    THEN Vouched(m, f.proposal, f, ctx) /\ f.acceptances # {}
    ELSE ctx.founder = m

Fences(m, C) == {f \in Of(C, "MembershipFence") : f.issuer \in {m, Coordinator}}

FenceInForceIfLater(m, C) ==
  \E f \in Fences(m, C) : \A a \in Of(C, "MembershipActivation") : a.epoch < f.epoch
FenceInForce(m, C) ==
  \E f \in Fences(m, C) : \A a \in Of(C, "MembershipActivation") : a.epoch <= f.epoch

(***********************************************************************************)
(* 7. Activation currency and the lifecycle.  The re-attestation that decides      *)
(* whether the declaration is current is the last one in the caller's order.       *)
(***********************************************************************************)
DeclarationIsCurrent(C, f, ctx) ==
  LET activations == Of(C, "MembershipActivation")
  IN  IF f.reattestations # {} THEN LastIn(ctx.order, f.reattestations).epoch >= ctx.epoch
      ELSE activations # {} =>
             \E a \in activations : a.epoch = ctx.epoch /\ \A b \in activations : b.epoch <= a.epoch

ActivationMatches(m, C, f, ctx) ==
  AdmissionValid(m, C, f, ctx) /\ CurrentIdentity(f).con = f.admitted.con

GenerationChanged(f) ==
  /\ Generation(f.admitted) # 0
  /\ Generation(CurrentIdentity(f)) # Generation(f.admitted)

DegradedByContext(f, ctx) ==
  \/ ctx.reconciling /\ SuspendWhileReconciling(ctx.policy)
  \/ ctx.partition \in {"Split", "Indeterminate"} /\ SuspendOnPartition(ctx.policy)
  \/ /\ MandatoryCapabilities(ctx.policy) # {}
     /\ EvaluateCompatibility(MandatoryCapabilities(ctx.policy),
          Constitution[DeclaredIdentity(f).con].capabilities) # "Satisfied"

Lifecycle(m, C, f, ctx) ==
  IF Of(C, "MembershipRetirement") # {} THEN "Retired"
  ELSE IF Of(C, "MembershipLeave") # {} THEN "Leaving"
  ELSE IF Of(C, "MembershipProposal") = {} /\ ctx.founder # m THEN "Absent"
  ELSE IF FenceInForce(m, C) THEN "Fenced"
  ELSE IF ~AdmissionValid(m, C, f, ctx) THEN "Proposed"
  ELSE IF Of(C, "MembershipActivation") = {} THEN "Admitted"
  ELSE IF ~ActivationMatches(m, C, f, ctx)
    THEN IF GenerationChanged(f) /\ ReconsentOnGenerationChange(ctx.policy)
         THEN "Fenced" ELSE "Admitted"
  ELSE IF ~DeclarationIsCurrent(C, f, ctx) \/ DegradedByContext(f, ctx) THEN "Degraded"
  ELSE "Active"

(***********************************************************************************)
(* 8, 9. Evidence quality, delegated terms, withdrawals.                           *)
(***********************************************************************************)
EvidenceQuality(m, C, f, lifecycle, ctx) ==
  IF IdentityConflict(m, C, f) THEN "Conflicting"
  ELSE IF lifecycle = "Absent" THEN "Unknown"
  ELSE IF lifecycle = "Proposed" THEN "Incomplete"
  ELSE IF ctx.partition = "Indeterminate" THEN "Indeterminate"
  ELSE "Known"

LatestTerms(declarations) ==
  FirstByEvidence({d \in declarations : \A e \in declarations : e.epoch <= d.epoch}).what

DelegatedTerms(m, C, declared) ==
  IF Own(m, Of(C, "DelegationDeclaration")) # {}
    THEN LatestTerms(Own(m, Of(C, "DelegationDeclaration")))
  ELSE IF declared \in Revisions THEN Constitution[declared].delegated
  ELSE {}

WithdrawnGrantsUntilDeclared(m, C) ==
  IF Own(m, Of(C, "DelegationDeclaration")) # {} THEN {}
  ELSE UNION {w.what : w \in Own(m, Of(C, "DelegationWithdrawal"))}
WithdrawnGrants(m, C) == UNION {w.what : w \in Own(m, Of(C, "DelegationWithdrawal"))}

Derived(m, C, lineage, f, lifecycle, ctx) ==
  [lifecycle     |-> lifecycle,
   lineage       |-> lineage,
   admitted      |-> f.admitted,
   current       |-> CurrentIdentity(f),
   reattested    |-> Of(C, "MemberReattestation") # {},
   matches       |-> ActivationMatches(m, C, f, ctx),
   atEpoch       |-> DeclarationIsCurrent(C, f, ctx),
   consented     |-> f.acceptances # {},
   endorsers     |-> f.endorsers,
   evidence      |-> EvidenceQuality(m, C, f, lifecycle, ctx),
   terms         |-> DelegatedTerms(m, C, DeclaredIdentity(f).con),
   withdrawn     |-> WithdrawnGrants(m, C)]

\* derive_membership, from the evidence of a lineage and the facts gathered from it.
DerivedFrom(m, C, lineage, f, ctx) ==
  Derived(m, C, lineage, f, Lifecycle(m, C, f, ctx), ctx)
DerivedIn(m, C, lineage, ctx) == DerivedFrom(m, C, lineage, Facts(m, C, ctx), ctx)
DeriveMembership(m, A, ctx) == DerivedIn(m, InLineage(m, A), CurrentLineage(m, A), ctx)
===================================================================================
