-------------------------------- MODULE Federation --------------------------------
(***********************************************************************************)
(* The federation at work: member runtimes (member_runtime.cpp) that build their   *)
(* evidence and send it over a connection that may break, and the coordinator      *)
(* (coordinator.cpp) that admits it, decides on it and answers authority requests. *)
(*                                                                                 *)
(* The journal is taken as writable here; its failures, restarts of the coordinator*)
(* and lease revocation are the subject of module Coordinator.  view is the state  *)
(* derive_locked returns; the code recomputes it on every call.                    *)
(***********************************************************************************)
EXTENDS Decision

CONSTANTS
  Successor,        \* [Revisions -> Revisions]: the constitution it moves to
  Settings          \* configurations of the federation, and what happens in each

\* What the code's types and limits give: counts and epochs are unsigned.
ASSUME SettingsAreSane ==
  /\ Successor \in [Revisions -> Revisions]
  /\ \A s \in Settings :
       /\ s.joined \subseteq Members
       /\ s.candidates \subseteq Members
       /\ s.ranks \subseteq Nat
       /\ s.epochs \in Nat
       /\ s.lifetimes \subseteq Nat
       /\ RequiredEndorsements(s.policy) \in Nat
       /\ RequiredDistinctParties(s.policy) \in Nat
       /\ MaxLeaseLifetime(s.policy) \in Nat

VARIABLES
  setting,     \* the configuration of this behaviour
  artifacts, observations, leases, replay, tick,   \* FederationCoordinator::Impl
  rt,          \* MemberFabricRuntime::Impl: con, inc, and the cached epoch and tick
  wire,        \* what each member's open call has sent and is not yet answered
  decision,    \* the last authority decision each member was given
  view

vars == <<setting, artifacts, observations, leases, replay, tick, rt, wire, decision, view>>

\* A setting: CoordinatorConfig::policy and kMaxArtifacts, the members that have joined
\* before the behaviour starts, the operations that happen in it with their arguments
\* (places for evidence identifiers among them), and its bounds.
ConfiguredPolicy == setting.policy
MaxArtifacts     == setting.artifacts
Joined           == setting.joined
Ops              == setting.ops             \* pairs of an actor and an operation
Candidates       == setting.candidates      \* who may be proposed and endorsed
Reasons          == setting.reasons         \* of an operator for an epoch advance
WithdrawSets     == setting.withdraw_sets
TermSets         == setting.term_sets
Requested        == setting.requested
Ranks            == setting.ranks
Lifetimes        == setting.lifetimes       \* asked for with a lease; zero is the policy's
MaxEpoch         == setting.epochs
MaxTick          == setting.ticks
MaxIncarnation   == setting.incarnations
MaxLineage       == setting.lineages
MaxRequests      == setting.requests
MaxInFlight      == setting.calls           \* members with a call open
Peers            == {Founder0} \union Joined \union Candidates

Nothing == [kind |-> "none"]

(***********************************************************************************)
(* Evidence.                                                                       *)
(***********************************************************************************)
InFlight == {wire[m] : m \in Members}

\* evidence_id_from: equal content gets the same identifier, new content one that
\* falls anywhere in the order.
RanksFor(a) ==
  LET peers == {b \in artifacts \union InFlight : b.kind = a.kind /\ b.subject = a.subject}
      same  == {b \in peers : EvidenceId(b) = EvidenceId(a)}
  IN  IF a.kind \notin RankedKinds THEN {0}
      ELSE IF same # {} THEN {b.rank : b \in same}
      ELSE Ranks \ {b.rank : b \in peers}

(***********************************************************************************)
(* The coordinator starts from the genesis record, and activates the founder.  The *)
(* members of Joined have been proposed by the founder, have accepted, and are     *)
(* activated with it.                                                              *)
(***********************************************************************************)
Init ==
  /\ setting \in Settings
  /\ LET start == Decide(ConfiguredPolicy,
                         {GenesisRecord} \union UNION {JoiningEvidence(m) : m \in Joined},
                         {}, {}, {}, 1)
     IN  artifacts = start.set /\ view = start.view
  /\ observations = {}
  /\ leases = {}
  /\ replay = {}
  /\ tick = 1
  /\ rt = [m \in Members |-> [con |-> First[m], inc |-> 1, epoch |-> 1, tick |-> 1]]
  /\ wire = [m \in Members |-> Nothing]
  /\ decision = [m \in Members |-> Nothing]

(***********************************************************************************)
(* Member runtimes.  Every operation refreshes the cached clock, builds its        *)
(* artefact and submits it; the artefact is then on the wire.                      *)
(***********************************************************************************)
MayCall(m, op) ==
  /\ <<m, op>> \in Ops
  /\ wire[m] = Nothing
  /\ Cardinality({x \in Members : wire[x] # Nothing}) < MaxInFlight

Identity(m) == [con |-> rt[m].con, inc |-> rt[m].inc]

\* The runtime with another clock in its cache.
Cached(m, epoch, at) == [con |-> rt[m].con, inc |-> rt[m].inc, epoch |-> epoch, tick |-> at]

Send(m, a) ==
  /\ \E r \in RanksFor(a) : wire' = [wire EXCEPT ![m] = Placed(a, r, 0)]
  /\ UNCHANGED <<artifacts, observations, leases, replay, tick, decision, view>>

\* refresh_clock, then a build with the refreshed epoch and tick.
Build(m, op, kind, subject, lineage, id, what) ==
  /\ MayCall(m, op)
  /\ rt' = [rt EXCEPT ![m] = Cached(m, view.epoch, tick)]
  /\ Send(m, Record(kind, subject, m, lineage, view.epoch, id, what, Stamp(tick, Identity(m))))

\* The lineage an operator names: the current one, or the next after a leave.
LineagesFor(c) ==
  IF c \notin DOMAIN view.members THEN {0}
  ELSE {l \in {view.members[c].lineage,
               view.members[c].lineage + (IF view.members[c].lifecycle \in {"Leaving", "Retired"}
                                          THEN 1 ELSE 0)} : l <= MaxLineage}

Propose(m, c, l) == Build(m, "propose", "MembershipProposal", c, l, Identity(c), {})
Endorse(m, c, l) == Build(m, "endorse", "MembershipEndorsement", c, l, Identity(c), {})
Accept(m, l)     == Build(m, "accept", "MembershipAcceptance", m, l, Identity(m), {})
Leave(m, l)      == Build(m, "leave", "MembershipLeave", m, l, Identity(m), {})
SelfFence(m, l)  == Build(m, "self_fence", "MembershipFence", m, l, Identity(m), "self")
Withdraw(m, G, l) ==
  G # {} /\ Build(m, "withdraw", "DelegationWithdrawal", m, l, Identity(m), G)

\* build_reattestation and build_delegation_declaration leave the lineage at zero.
Reattest(m) == Build(m, "reattest", "MemberReattestation", m, 0, Identity(m), {})
DeclareDelegation(m, T) ==
  /\ ValidConstitution(T, Constitution[rt[m].con].retained)
  /\ Build(m, "declare", "DelegationDeclaration", m, 0, Identity(m), T)

\* restart_with_new_incarnation: the artefact carries the clock as it was cached.
Incarnated(m) == [con |-> rt[m].con, inc |-> rt[m].inc + 1]

RestartWithNewIncarnation(m) ==
  /\ MayCall(m, "restart")
  /\ rt[m].inc < MaxIncarnation
  /\ rt' = [rt EXCEPT ![m] = [con |-> rt[m].con, inc |-> rt[m].inc + 1,
                              epoch |-> rt[m].epoch, tick |-> rt[m].tick]]
  /\ Send(m, Record("MemberReattestation", m, m, 0, rt[m].epoch,
                    Incarnated(m), {}, Stamp(rt[m].tick, Incarnated(m))))

\* A new process with a changed constitution (create, attach): the next generation.
Reconfigure(m) ==
  /\ MayCall(m, "reconfigure")
  /\ Successor[rt[m].con] # rt[m].con
  /\ rt[m].inc < MaxIncarnation
  /\ rt' = [rt EXCEPT ![m] = [con |-> Successor[rt[m].con], inc |-> rt[m].inc + 1,
                              epoch |-> view.epoch, tick |-> tick]]
  /\ UNCHANGED <<artifacts, observations, leases, replay, tick, wire, decision, view>>

\* request_authority: the epoch and tick are read first, the question is sent after;
\* the cached epoch is not refreshed.
RequestAuthority(m, g) ==
  /\ MayCall(m, "request")
  /\ Cardinality(replay) < MaxRequests
  /\ \E lease \in {0} \union {l.id : l \in leases} :
       wire' = [wire EXCEPT ![m] =
         [kind |-> "AuthorityRequest", subject |-> m, id |-> Cardinality(replay) + 1, member |-> m,
          epoch |-> view.epoch, actor |-> Identity(m), grant |-> g, lease |-> lease]]
  /\ rt' = [rt EXCEPT ![m] = Cached(m, rt[m].epoch, tick)]
  /\ UNCHANGED <<artifacts, observations, leases, replay, tick, decision, view>>

\* The connection breaks before the coordinator reads the message.
Lose(m) ==
  /\ <<m, "lose">> \in Ops
  /\ wire[m] # Nothing
  /\ wire' = [wire EXCEPT ![m] = Nothing]
  /\ UNCHANGED <<artifacts, observations, leases, replay, tick, rt, decision, view>>

(***********************************************************************************)
(* The coordinator.                                                                *)
(***********************************************************************************)
SameArrived(a) == \E b \in artifacts : SameContent(a, b)

Arrived(a) ==
  IF a.kind = "MemberReattestation"
    THEN Placed(a, a.rank, 1 + Cardinality(Of(BySubject(artifacts, a.subject), a.kind)))
    ELSE a

\* admit_locked and what the submitting runtime does with the answer: submit()
\* refreshes the clock when the reply arrives.
Refreshed(m, v, t) ==
  \/ rt' = [rt EXCEPT ![m] = Cached(m, v.epoch, t)]
  \/ <<m, "lose">> \in Ops /\ rt' = rt

Admit(m) ==
  /\ wire[m].kind \notin {"none", "AuthorityRequest"}
  /\ wire' = [wire EXCEPT ![m] = Nothing]
  /\ LET a == wire[m]
         outcome == Decide(ConfiguredPolicy, artifacts \union {Arrived(a)}, observations,
                           leases, replay, tick)
     IN  IF \/ ~ValidArtifact(a)
            \/ Cardinality(artifacts) >= MaxArtifacts
            \/ SameArrived(a)
           THEN Refreshed(m, view, tick) /\ UNCHANGED <<artifacts, view>>
           ELSE /\ artifacts' = outcome.set
                /\ view' = outcome.view
                /\ Refreshed(m, view', tick)
  /\ UNCHANGED <<observations, leases, replay, tick, decision>>

\* Every operation below ends with next_tick_locked.
Advance(A, obs, ls, rp) ==
  /\ tick < MaxTick
  /\ tick' = tick + 1
  /\ artifacts' = A
  /\ observations' = obs
  /\ leases' = ls
  /\ replay' = rp
  /\ view' = View(ConfiguredPolicy, A, obs, ls, rp, tick + 1)

\* evaluate
Evaluate(m) ==
  /\ wire[m].kind = "AuthorityRequest"
  /\ wire' = [wire EXCEPT ![m] = Nothing]
  /\ decision' = [decision EXCEPT ![m] =
       [request |-> wire[m], outcome |-> EvaluateAuthority(wire[m], view, ConfiguredPolicy)]]
  /\ Advance(artifacts, observations, leases, replay \union {wire[m].id})
  /\ UNCHANGED rt

\* issue_lease: the caller says for how long and up to which epoch; without a say, for
\* as long as the policy allows and for this epoch.
Lifetime(asked) == IF asked = 0 THEN MaxLeaseLifetime(ConfiguredPolicy) ELSE asked

IssueLease(m, g, asked, last) ==
  /\ <<m, "lease">> \in Ops
  /\ m \in DOMAIN view.members
  /\ view.members[m].lifecycle \in Holding
  /\ GrantsCover(view.members[m].granted, g)
  /\ Lifetime(asked) \in 1..MaxLeaseLifetime(ConfiguredPolicy)
  /\ last >= view.epoch
  /\ Advance(artifacts, observations, leases \union
       {[id |-> 1 + Cardinality(leases), holder |-> m, inc |-> view.members[m].current.inc,
         generation |-> Generation(view.members[m].current), scopes |-> {g},
         issued_epoch |-> view.epoch, not_after_epoch |-> last,
         not_after |-> tick + Lifetime(asked), revoked |-> FALSE]}, replay)
  /\ UNCHANGED <<rt, wire, decision>>

\* probe_peers and report_observation: the observer reaches the members in up.
ReportObservation(m, up) ==
  /\ <<m, "observe">> \in Ops
  /\ LET o == [observer |-> m, epoch |-> view.epoch, at |-> tick,
               peers |-> [p \in Peers \ {m} |->
                 IF p \in up THEN [state |-> "Reachable", inc |-> rt[p].inc]
                             ELSE [state |-> "Unreachable", inc |-> 0]]]
     IN  Advance(artifacts, {x \in observations : x.observer # m} \union {o}, leases, replay)
  /\ rt' = [rt EXCEPT ![m] = Cached(m, view.epoch, tick)]
  /\ UNCHANGED <<wire, decision>>

\* make_lifecycle_record and record_decision_locked
Command(op, a) ==
  /\ <<Coordinator, op>> \in Ops
  /\ Advance(artifacts \union Recordable(artifacts, {a}), observations, leases, replay)
  /\ UNCHANGED <<rt, wire, decision>>

FenceMember(m) ==
  /\ m \in DOMAIN view.members
  /\ Command("fence", Record("MembershipFence", m, Coordinator, view.members[m].lineage,
                             view.epoch, NoIdentity, "operator", NoStamp))

RetireMember(m) ==
  /\ m \in DOMAIN view.members
  /\ view.members[m].lifecycle \in {"Leaving", "Fenced"}
  /\ Command("retire", Record("MembershipRetirement", m, Coordinator, view.members[m].lineage,
                              view.epoch, NoIdentity, "operator", NoStamp))

AdvanceEpoch(e, reason) ==
  /\ e > view.epoch
  /\ Command("advance_epoch", Record("EpochAdvance", Coordinator, Coordinator, 0, e, NoIdentity,
                                     reason, NoStamp))

CompleteReconciliation(e) ==
  /\ e <= view.epoch
  /\ Command("reconcile", Record("ReconciliationComplete", Coordinator, Coordinator, 0, e,
                                 NoIdentity, {}, NoStamp))

(***********************************************************************************)
Issue(m) ==
  \/ \E c \in Candidates : \E l \in LineagesFor(c) : Propose(m, c, l) \/ Endorse(m, c, l)
  \/ \E l \in LineagesFor(m) : Accept(m, l) \/ Leave(m, l) \/ SelfFence(m, l)
  \/ \E l \in LineagesFor(m), G \in WithdrawSets : Withdraw(m, G, l)
  \/ \E T \in TermSets : DeclareDelegation(m, T)
  \/ Reattest(m)
  \/ RestartWithNewIncarnation(m)
  \/ Reconfigure(m)
  \/ \E g \in Requested : RequestAuthority(m, g)

Serve(m) ==
  \/ Admit(m)
  \/ Evaluate(m)
  \/ \E g \in Requested, asked \in Lifetimes, last \in 1..MaxEpoch : IssueLease(m, g, asked, last)
  \/ \E up \in SUBSET (Peers \ {m}) : ReportObservation(m, up)

Operate ==
  \/ \E m \in Members : FenceMember(m) \/ RetireMember(m)
  \/ \E e \in 2..MaxEpoch, reason \in Reasons : AdvanceEpoch(e, reason)
  \/ \E e \in 1..MaxEpoch : CompleteReconciliation(e)

Next ==
  /\ (\E m \in Members : Issue(m) \/ Lose(m) \/ Serve(m)) \/ Operate
  /\ UNCHANGED setting

Spec == Init /\ [][Next]_vars

\* Operators keep trying: as long as a candidate is not active, its sponsors propose it
\* and it accepts, again when the connection breaks, and a call repeated often enough
\* gets through (the server reads every connection it accepts).  GetsThrough is the
\* strong fairness of Admit for one kind of call.  A setting says whether its operators
\* do.
LifecycleOf(m) == IF m \in DOMAIN view.members THEN view.members[m].lifecycle ELSE "Absent"
Repeats(c, call) ==
  setting.retrying /\ LifecycleOf(c) \notin Holding /\ call /\ UNCHANGED setting

GetsThrough(m, kind) ==
  []<>(setting.retrying /\ wire[m].kind = kind)
    => []<><<setting.retrying /\ wire[m].kind = kind /\ Admit(m)>>_vars

Retrying(candidates, sponsors) ==
  \A c \in candidates :
    /\ SF_vars(Repeats(c, Accept(c, 0)))
    /\ GetsThrough(c, "MembershipAcceptance")
    /\ \A m \in sponsors :
         /\ SF_vars(Repeats(c, Propose(m, c, 0)))
         /\ GetsThrough(m, "MembershipProposal")

(***********************************************************************************)
(* Properties.                                                                     *)
(***********************************************************************************)
\* The evidence of m's current lineage that the derivation accepts.
Accepted(m) == InLineage(m, BySubject(Prepare(artifacts), m))
\* A member is never conscripted (derive_membership, README): one that holds
\* federation authority has itself accepted, in its current lineage, the
\* constitution it is admitted with, and someone else proposed it.
NeverConscripted ==
  \A m \in Members \ {Founder0} : LifecycleOf(m) \in Holding =>
    /\ \E a \in Accepted(m) : /\ a.kind = "MembershipAcceptance"
                             /\ a.issuer = m
                             /\ a.id.con = view.members[m].current.con
    /\ \E p \in Accepted(m) : p.kind = "MembershipProposal" /\ p.issuer # m

\* Standing is grounded in the founder (derive_state's fixpoint): no group of
\* established members without the founder vouches only for itself.  In every such
\* group somebody was sponsored, and endorsed as often as the policy asks, by
\* established members outside it.
StandingIsGrounded ==
  \A S \in SUBSET (view.established \ {Founder0}) : S # {} =>
    \E m \in S :
      /\ OperativeProposal(m, Accepted(m)).issuer \in view.established \ S
      /\ Cardinality({e.issuer : e \in Of(Accepted(m), "MembershipEndorsement")}
                       \intersect (view.established \ S)) >= RequiredEndorsements(view.policy)

\* Membership must not unravel because of an epoch advance (derive_state): the step
\* that moves the epoch takes nobody's standing away.
EpochKeepsStanding ==
  [][view'.epoch > view.epoch => view.established \subseteq view'.established]_vars

\* Admission does not hang (submit, admit_locked, decide_locked): over connections that
\* break, with calls repeated, lost before or after they are applied, every candidate
\* that is proposed and accepts is admitted and activated in the end.  The exception is a
\* candidate each of whose sponsors has proposed it twice, at different ticks: the two
\* proposals have one identifier, prepare_artifacts keeps neither, and repeating them in
\* the same epoch does not bring them back.
ProposedTwice(c) ==
  LET proposals == Of(BySubject(artifacts, c), "MembershipProposal")
  IN  proposals # {} /\ proposals \subseteq Quarantined(artifacts)
CandidatesBecomeActive ==
  <>[](setting.retrying =>
         \A c \in Candidates : LifecycleOf(c) \in Holding \/ ProposedTwice(c))

\* A fence is sticky (derive_membership, decide_locked): once the coordinator has
\* ordered a fence in a member's current lineage, the member stands no more in that
\* lineage, whatever it re-attests or proposes, and whatever epoch comes.  The later
\* activation that would clear the fence is never issued.
FenceIsSticky ==
  \A m \in Members :
    (\E f \in Accepted(m) : f.kind = "MembershipFence" /\ f.issuer = Coordinator)
      => LifecycleOf(m) \notin Established

\* What one member delegates exclusively no two members hold (derive_state's
\* conflict detection), and a member holds only what it delegates and has not
\* withdrawn.
ExclusiveHasOneHolder ==
  \A m, n \in DOMAIN view.members : m # n =>
    \A t \in view.members[m].terms :
      t.mode = "Exclusive" => ~(t.grant \in view.members[m].granted /\ t.grant \in view.members[n].granted)

\* A dispute is contained (authority-model.md, derive_state's conflict detection): a
\* member that holds authority is denied what it delegates only because it is degraded
\* or withdrew it, because the policy forbids it or its term has run out, or for another
\* live claim on that very grant that disagrees, never for a dispute about another grant.
DisputeIsContained ==
  \A m \in DOMAIN view.members : LifecycleOf(m) \in Holding =>
    \A t \in view.members[m].terms :
      \/ t.grant \notin view.members[m].withheld
      \/ LifecycleOf(m) = "Degraded" /\ t.grant.verb \in {"mutate", "administer"}
      \/ GrantsCover(view.members[m].withdrawn, t.grant)
      \/ ScopeDelegationForbidden(view.policy, t.grant.scope)
      \/ t.not_after # 0 /\ tick > t.not_after
      \/ \E n \in DOMAIN view.members :
           /\ LifecycleOf(n) \in Holding
           /\ \E u \in view.members[n].terms :
                (n # m \/ u # t) /\ u.grant = t.grant /\ Disagree(u, t)

\* A grant of federation authority is warranted at the moment it is given (evaluate): it
\* goes to the newest incarnation of the member the coordinator has heard of, in the
\* current epoch, and no evidence held at that moment takes the authority away.
OfFederation(grant) == Classify(grant.scope) # "Local"
Newest(m) ==
  Max({1} \union {a.id.inc : a \in Own(m, Of(Accepted(m), "MemberReattestation")
                                         \union Of(Accepted(m), "MembershipAcceptance"))})
Warranted(r) ==
  /\ r.epoch = view.epoch
  /\ r.actor.inc = Newest(r.member)
  /\ LifecycleOf(r.member) \in Holding
  /\ \A a \in Own(r.member, Accepted(r.member)) :
       /\ a.kind # "MembershipLeave"
       /\ a.kind = "DelegationWithdrawal" => ~GrantsCover(a.what, r.grant)
  /\ Classify(r.grant.scope) = "GlobalMutation" =>
       /\ SuspendWhileReconciling(view.policy) => ~view.reconciling
       /\ SuspendOnPartition(view.policy) => view.partition = "Connected"
GrantIsWarranted ==
  [][\A m \in Members :
       /\ decision'[m] # decision[m]
       /\ decision'[m].outcome = "Granted"
       /\ OfFederation(decision'[m].request.grant)
       => Warranted(decision'[m].request)]_vars

\* A lease carries nothing into the next run of its holder, into an epoch it was not issued
\* for or past its deadline (evaluate, lease.cpp): where the policy asks for a lease, a
\* grant rests on one that was issued to this very incarnation, in this epoch or in an
\* earlier one for epochs up to this one, for this grant.
LeaseBacksGrant ==
  [][\A m \in Members :
       /\ decision'[m] # decision[m]
       /\ decision'[m].outcome = "Granted"
       /\ OfFederation(decision'[m].request.grant)
       /\ LeaseRequired(ConfiguredPolicy, decision'[m].request.grant)
       => \E l \in leases : /\ l.id = decision'[m].request.lease
                            /\ l.holder = m
                            /\ l.inc = rt[m].inc
                            /\ view.epoch \in l.issued_epoch..l.not_after_epoch
                            /\ tick <= l.not_after
                            /\ GrantsCover(l.scopes, decision'[m].request.grant)]_vars

\* The suspension after a partition begins with a recovery epoch (derive_state): once
\* reconciled, an ordinary epoch advance, a restart or a further re-attestation does not
\* bring it back.  Only a member that newly stands, in its lineage, does: it has not
\* re-attested.
StandsAnew(m) ==
  m \in view'.established /\ (m \in view.established => view'.members[m].lineage # view.members[m].lineage)
ReconcilingBeginsWithRecovery ==
  [][~view.reconciling /\ view'.reconciling =>
       \/ RecoveryAdvances(artifacts') # RecoveryAdvances(artifacts)
       \/ \E m \in DOMAIN view'.members : StandsAnew(m)]_vars

\* "Fenced authority is sticky: it comes back only through fresh evidence" (README): a
\* grant that a member has withdrawn in its current lineage is not granted to it in
\* that lineage, whatever it declares, re-attests or asks for, and however often it
\* withdraws it: a repeated withdrawal has an identifier of its own, so that no two
\* withdrawals quarantine each other.
WithdrawalStands ==
  \A m \in DOMAIN view.members :
    \A w \in Own(m, Of(artifacts, "DelegationWithdrawal")) :
      w.lineage = view.members[m].lineage =>
        \A g \in view.members[m].granted : ~GrantsCover(w.what, g)

\* A fence takes the fenced member's authority and what rests on it, no more, and so does
\* a leave, a retirement or a change of constitution (assess_multi_party, derive_state's
\* fixpoint): a group that loses its standing in a step has somebody about whom evidence
\* was recorded in that step, or whose sponsor or endorser, outside the group, loses its
\* own.  No member goes because another one's sponsor went.
Lost == view.established \ view'.established
LossIsContained ==
  [][\A S \in SUBSET Lost : S # {} =>
       \E n \in S :
         \/ \E a \in artifacts' \ artifacts : a.subject = n
         \/ OperativeProposal(n, Accepted(n)).issuer \in Lost \ S
         \/ \E e \in Of(Accepted(n), "MembershipEndorsement") : e.issuer \in Lost \ S]_vars
===================================================================================
