--------------------------------- MODULE Decision ---------------------------------
(***********************************************************************************)
(* What the coordinator makes of its evidence: the state it derives (derive_locked)*)
(* and the records it issues on its own (decide_locked), as functions of the       *)
(* evidence it holds.                                                              *)
(***********************************************************************************)
EXTENDS Authority

CONSTANTS
  Founder0,         \* the founder of the genesis record
  First             \* [Members -> Revisions]: each member's first constitution

ASSUME GenesisAssumption == Founder0 \in Members /\ First \in [Members -> Revisions]

\* derive_state refuses evidence about more members than kMaxMembers.
ASSUME MembersAreBounded == IsFiniteSet(Members) /\ Cardinality(Members) <= MaxMembers

View(policy, A, obs, ls, rp, t) ==
  Derive(A, [observations |-> obs, leases |-> ls, replay |-> rp, policy |-> policy, now |-> t])

Record(kind, subject, issuer, lineage, epoch, id, what, at) ==
  [kind |-> kind, subject |-> subject, issuer |-> issuer, lineage |-> lineage,
   epoch |-> epoch, id |-> id, what |-> what, at |-> at, rank |-> 0, nth |-> 0]

\* The same artefact with its place among the identifiers and in the order of arrival.
Placed(a, rank, nth) ==
  [kind |-> a.kind, subject |-> a.subject, issuer |-> a.issuer, lineage |-> a.lineage,
   epoch |-> a.epoch, id |-> a.id, what |-> a.what, at |-> a.at, rank |-> rank, nth |-> nth]

RankedKinds == {"MembershipProposal", "MembershipAcceptance", "MemberReattestation",
                "DelegationDeclaration"}

(***********************************************************************************)
(* decide_locked: one pass, then passes until nothing is added.                    *)
(***********************************************************************************)
DecisionContext(policy, A, v) ==
  [epoch |-> v.epoch, policy |-> policy, partition |-> v.partition,
   reconciling |-> v.reconciling,
   established |-> {m \in DOMAIN v.members : v.members[m].lifecycle \in Holding},
   founder |-> (CHOOSE g \in GenesisOf(A) : TRUE).subject,
   founderId |-> (CHOOSE g \in GenesisOf(A) : TRUE).id, order |-> "arrival"]

AdmissionRecord(A, m, d, ctx) ==
  LET proposals == Of(BySubject(A, m), "MembershipProposal")
      p == FirstByEvidence(proposals)
      multi == AssessMultiParty(m, p.issuer, p.issuer \in ctx.established, d.endorsers,
                                ctx.policy)
  IN  IF d.lifecycle = "Proposed" /\ proposals # {} /\ multi.satisfied /\ d.consented
        THEN {Record("MembershipAdmission", m, Coordinator, d.lineage, ctx.epoch, d.current,
                     multi.parties, NoStamp)}
        ELSE {}

ActivationRecordOnReturn(m, d, ctx) ==
  IF d.lifecycle = "Degraded" /\ d.reattested /\ ~d.atEpoch
    THEN {Record("MembershipActivation", m, Coordinator, d.lineage, ctx.epoch, d.current, {}, NoStamp)}
    ELSE {}
ActivationRecord(m, d, ctx) ==
  IF \/ d.lifecycle = "Admitted"
     \/ d.lifecycle = "Degraded" /\ d.reattested /\ ~d.atEpoch
    THEN {Record("MembershipActivation", m, Coordinator, d.lineage, ctx.epoch, d.current, {}, NoStamp)}
    ELSE {}

DecisionsOn(A, m, d, ctx) == AdmissionRecord(A, m, d, ctx) \union ActivationRecord(m, d, ctx)

BatchIn(A, ctx, members) ==
  UNION {DecisionsOn(A, m, DeriveMembership(m, BySubject(A, m), ctx), ctx) : m \in members}
Batch(policy, A, v) == BatchIn(A, DecisionContext(policy, A, v), DOMAIN v.members)

\* record_decision_locked: nothing is written twice under one identifier.
Recordable(A, batch) ==
  {a \in batch : ValidArtifact(a) /\ \A b \in A : EvidenceId(b) # EvidenceId(a)}

Passed(policy, before, new, obs, ls, rp, t) ==
  IF before.done \/ new = {} THEN [set |-> before.set, view |-> before.view, done |-> TRUE]
  ELSE [set  |-> before.set \union new,
        view |-> View(policy, before.set \union new, obs, ls, rp, t), done |-> FALSE]

Pass(policy, before, obs, ls, rp, t) ==
  Passed(policy, before,
         Recordable(before.set, Batch(policy, before.set, before.view)), obs, ls, rp, t)

Undecided(policy, A, obs, ls, rp, t) ==
  [set |-> A, view |-> View(policy, A, obs, ls, rp, t), done |-> FALSE]

DecideOnce(policy, A, obs, ls, rp, t) ==
  Pass(policy, Undecided(policy, A, obs, ls, rp, t), obs, ls, rp, t)

Decide(policy, A, obs, ls, rp, t) ==
  LET pass[n \in 0..(MaxMembers + 2)] ==
        IF n = 0 THEN Undecided(policy, A, obs, ls, rp, t)
        ELSE Pass(policy, pass[n - 1], obs, ls, rp, t)
  IN  pass[MaxMembers + 2]

(***********************************************************************************)
(* ensure_genesis, and what a member that joins submits.                           *)
(***********************************************************************************)
GenesisRecord ==
  Record("FederationGenesis", Founder0, Coordinator, 0, 1,
         [con |-> First[Founder0], inc |-> 1], {}, NoStamp)

FirstIdentity(m) == [con |-> First[m], inc |-> 1]

JoiningEvidence(m) ==
  {Placed(Record("MembershipProposal", m, Founder0, 0, 1, FirstIdentity(m), {},
                 Stamp(1, FirstIdentity(Founder0))), 1, 0),
   Placed(Record("MembershipAcceptance", m, m, 0, 1, FirstIdentity(m), {},
                 Stamp(1, FirstIdentity(m))), 1, 0)}
===================================================================================
