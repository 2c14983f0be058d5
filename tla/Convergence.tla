------------------------------- MODULE Convergence --------------------------------
(***********************************************************************************)
(* Coordinators that hold the same evidence: each receives the artefacts of pool   *)
(* in an order of its own, some of them more than once, and decides after each.    *)
(* An epoch advance is part of the evidence; the operator of each coordinator      *)
(* records it when it likes.                                                       *)
(***********************************************************************************)
EXTENDS Decision

CONSTANTS
  ConfiguredPolicy,  \* CoordinatorConfig::policy
  Replicas,      \* coordinators
  Pools,         \* what members may have sent: one set of artefacts per federation
  Epochs         \* epoch advances recorded at each of them

\* What the runtime of a member builds (member_runtime.cpp).
MemberKinds == {"MembershipProposal", "MembershipAcceptance", "MembershipEndorsement",
                "MembershipLeave", "MembershipFence", "MemberReattestation",
                "DelegationDeclaration", "DelegationWithdrawal"}

Sendable(a) ==
  /\ a.kind \in MemberKinds
  /\ a.issuer \in Members /\ a.subject \in Members
  /\ a.lineage \in Nat /\ a.epoch \in Nat /\ a.rank \in Nat /\ a.id.inc \in Nat
  /\ ValidArtifact(a)
  /\ a.kind \in {"DelegationDeclaration", "DelegationWithdrawal"} => a.issuer = a.subject
  /\ a.kind = "DelegationDeclaration" =>
       \A t \in a.what : Classify(t.grant.scope) \notin {"Unknown", "Local"}

\* Counts and epochs are unsigned, ensure_genesis has validated its record, and an
\* artefact is its content: within a kind and subject, its identifier has one place.
ASSUME PoolsAreSound ==
  /\ Epochs \subseteq Nat
  /\ RequiredEndorsements(ConfiguredPolicy) \in Nat
  /\ RequiredDistinctParties(ConfiguredPolicy) \in Nat
  /\ ValidArtifact(GenesisRecord)
  /\ \A p \in Pools :
       /\ \A a \in p : Sendable(a)
       /\ \A a, b \in p : SameContent(a, b) => a = b
       /\ \A a, b \in p : /\ a.kind = "MemberReattestation" /\ b.kind = a.kind
                         /\ a.subject = b.subject /\ a.rank = b.rank
                         => EvidenceId(a) = EvidenceId(b)

VARIABLES
  pool,          \* what the members of this federation send
  held,          \* the artefacts of each coordinator, its own decisions included
  derived        \* the state each derives from them

vars == <<pool, held, derived>>

Init ==
  /\ pool \in Pools
  /\ LET start == Decide(ConfiguredPolicy, {GenesisRecord}, {}, {}, {}, 1)
     IN  /\ held = [r \in Replicas |-> start.set]
         /\ derived = [r \in Replicas |-> start.view]

Received(r, a) == \E b \in held[r] : SameContent(a, b)

Apply(r, outcome) ==
  /\ held' = [held EXCEPT ![r] = outcome.set]
  /\ derived' = [derived EXCEPT ![r] = outcome.view]
  /\ UNCHANGED pool

\* A re-attestation keeps its place in the order of arrival.
Arrived(r, a) ==
  IF a.kind = "MemberReattestation"
    THEN Placed(a, a.rank, 1 + Cardinality(Of(BySubject(held[r], a.subject), a.kind)))
    ELSE a

\* admit_locked: a copy of what is held already changes nothing.
Deliver(r, a) ==
  IF Received(r, a) THEN UNCHANGED vars
  ELSE Apply(r, Decide(ConfiguredPolicy, held[r] \union {Arrived(r, a)}, {}, {}, {}, 1))

\* advance_epoch records the advance and decides nothing.
AdvanceEpoch(r, e) ==
  LET record == Record("EpochAdvance", Coordinator, Coordinator, 0, e, NoIdentity, "operator", NoStamp)
      A == held[r] \union Recordable(held[r], {record})
  IN  /\ e > derived[r].epoch
      /\ Apply(r, [set |-> A, view |-> View(ConfiguredPolicy, A, {}, {}, {}, 1)])

Next ==
  \E r \in Replicas : \/ \E a \in pool : Deliver(r, a)
                      \/ \E e \in Epochs : AdvanceEpoch(r, e)

Spec == Init /\ [][Next]_vars

(***********************************************************************************)
(* Properties.                                                                     *)
(***********************************************************************************)
\* The evidence a coordinator has accepted: what members sent, and the epoch.
Evidence(r) ==
  {<<EvidenceId(a), a.at>> : a \in {x \in held[r] : \/ x.issuer # Coordinator
                                                      \/ x.kind = "EpochAdvance"}}

\* encode_member_state.  Most of it is derived from what members sent.  The superseded
\* incarnations, the epoch of the admission and a rejected admission record come from the
\* records the coordinator has written; among several admission records the code takes the
\* one with the smallest identifier, and they are all kept here.  Reasons (codes with a
\* text) are left out.
EncodeMember(m, d, C, ctx) ==
  LET f          == Facts(m, C, ctx)
      admissions == {a \in Of(C, "MembershipAdmission") : f.proposal # NoProposal}
      valid      == AdmissionValid(m, C, f, ctx)
      declared   == DeclaredIdentity(f).con
  IN  [lifecycle |-> d.lifecycle, lineage |-> d.lineage, bootstrap |-> ctx.founder = m,
       partition |-> ctx.partition, current |-> d.current, admitted |-> d.admitted,
       admitted_current |-> d.admitted.con = d.current.con,
       activation_current |-> d.matches /\ d.atEpoch,
       retained |-> IF declared \in Revisions THEN Constitution[declared].retained ELSE {},
       terms |-> d.terms, withdrawn |-> d.withdrawn, granted |-> d.granted,
       withheld |-> d.withheld, suspended |-> d.suspended,
       fenced_incarnations |->
         {a.id.inc : a \in Of(C, "MembershipActivation")} \ {d.current.inc},
       admission_digest |->
         {[lineage |-> d.lineage, proposal |-> EvidenceId(p), at |-> p.at,
           con |-> d.current.con, endorsers |-> f.endorsers] :
            p \in {f.proposal} \intersect Of(C, "MembershipProposal")},
       activated_epoch |-> IF d.atEpoch THEN ctx.epoch ELSE 0,
       admitted_epoch |->
         {a.epoch : a \in {x \in admissions : valid /\ x.id.con = d.admitted.con}},
       evidence |-> d.evidence,
       rejected_kinds |-> IF valid THEN {} ELSE {a.kind : a \in admissions}]

\* encode_federation_state: what the state digest covers, but for reasons, the components
\* of a partition (there are no observations here) and what identifies the coordinator.
EncodeState(r) ==
  LET v   == derived[r]
      P   == Prepare(held[r])
      ctx == Context(P, v.policy, v.established, v.partition, v.reconciling)
  IN  [epoch |-> v.epoch, reconciling |-> v.reconciling, policy |-> v.policy,
       logical_time |-> v.now, genesis |-> GenesisOf(P), partition |-> v.partition,
       disputed |-> v.disputed, leases |-> v.leases, replay |-> v.replay,
       members |-> [m \in DOMAIN v.members |->
         EncodeMember(m, v.members[m], InLineage(m, BySubject(P, m)), ctx)]]

\* What evaluate_authority reads of the state, and the lineage it is held in.
Authority(v) ==
  [epoch |-> v.epoch, reconciling |-> v.reconciling, partition |-> v.partition,
   leases |-> v.leases, replay |-> v.replay,
   members |-> [m \in DOMAIN v.members |->
     [lifecycle |-> v.members[m].lifecycle, lineage |-> v.members[m].lineage,
      current |-> v.members[m].current, conflicts |-> v.members[m].conflicts,
      granted |-> v.members[m].granted, withheld |-> v.members[m].withheld,
      suspended |-> v.members[m].suspended]]]

Moved(r) == \E a \in held[r] : a.kind = "EpochAdvance"

\* A member's own fence of an epoch that is over: an activation of a later epoch would
\* lift it, and whether there is one depends on when the epoch moved.
OldFence(r) ==
  \E f \in held[r] : /\ f.kind = "MembershipFence" /\ f.issuer = f.subject
                    /\ f.epoch < derived[r].epoch

\* Under a policy that asks for consent to a new generation, a member that has
\* re-attested one loses its standing if it had been activated before.
Reconstituted(r) ==
  /\ ReconsentOnGenerationChange(ConfiguredPolicy)
  /\ \E a, b \in held[r] :
       /\ a.kind = "MemberReattestation" /\ b.kind \in {"MembershipProposal", "FederationGenesis"}
       /\ a.subject = b.subject /\ Generation(a.id) # Generation(b.id)

\* The founder needs no sponsor, so nothing but the coordinator's own records may say
\* that it came back.
FounderLeft(r) == \E a \in held[r] : a.kind = "MembershipLeave" /\ a.subject = Founder0

\* decide_locked refuses an activation to a member that derive_state has admitted: it
\* reads the evidence before the quarantine, and an admitted sponsor is no sponsor to it.
Stuck(r) ==
  \E m \in DOMAIN derived[r].members :
    /\ derived[r].members[m].lifecycle = "Admitted"
    /\ \A a \in held[r] \union Recordable(held[r], Batch(ConfiguredPolicy, held[r], derived[r])) :
         ~(/\ a.kind = "MembershipActivation"
           /\ a.subject = m /\ a.lineage = derived[r].members[m].lineage)

\* An epoch advance may come before or after the evidence that it makes stale; who
\* stands (the fixpoint of derive_state) does not depend on that, nor on any other order
\* of the evidence, as long as no fence is of an epoch that is over, no generation is
\* waiting for consent and the founder has not left.
SameEvidenceSameStanding ==
  \A r, s \in Replicas :
    /\ Evidence(r) = Evidence(s)
    /\ ~OldFence(r) /\ ~Reconstituted(r) /\ ~FounderLeft(r)
    => derived[r].established = derived[s].established

\* What a member may do does not depend on the order of the evidence (README,
\* architecture.md): two coordinators that have accepted the same evidence answer every
\* authority request alike, as long as the epoch has not moved and neither has a member
\* stuck without its activation.  Once the epoch has moved, the activation a coordinator
\* wrote shows whether it decided before the epoch or after it.
SameEvidenceSameAuthority ==
  \A r, s \in Replicas :
    /\ Evidence(r) = Evidence(s) /\ ~Moved(r)
    /\ ~OldFence(r) /\ ~Reconstituted(r) /\ ~FounderLeft(r)
    /\ ~Stuck(r) /\ ~Stuck(s)
    => Authority(derived[r]) = Authority(derived[s])

\* What architecture.md and canonical-form.md say: the derived state does not depend on
\* whether, or when, the coordinator's decision records were written, so the same evidence
\* in different orders produces the same canonical digest.
DigestIgnoresOrder ==
  \A r, s \in Replicas :
    Evidence(r) = Evidence(s) => EncodeState(r) = EncodeState(s)
===================================================================================
