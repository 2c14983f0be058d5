--------------------------- MODULE FederationProofs ----------------------------
(**************************************************************************************)
(* Proofs about Federation, for any members, constitutions, policies, settings and    *)
(* number of steps. The invariant Inv says that the state the coordinator decides on  *)
(* is the one derived from the evidence on record; what a derived state is like, by   *)
(* the facts of DerivationProofs, then holds of it at every moment.                   *)
(**************************************************************************************)
EXTENDS Federation, DerivationProofs

\* What a member's runtime sends.
MemberKinds ==
  {"MembershipProposal", "MembershipEndorsement", "MembershipAcceptance", "MembershipLeave",
   "MembershipFence", "DelegationWithdrawal", "MemberReattestation", "DelegationDeclaration"}

\* What a member runtime keeps across calls.
Runtime == [con : Revisions, inc : Nat \ {0}, epoch : Nat, tick : Nat]

\* No artefact speaks for a later incarnation than the one that runs.
Heard(a) ==
  a.kind \in {"MembershipAcceptance", "MemberReattestation"} /\ a.issuer \in Members =>
    a.id.inc <= rt[a.issuer].inc

\* What is on its way from m: nothing, an artefact that m built, or a request of m's own.
Sent(m) ==
  /\ wire[m].kind \in MemberKinds \union {"none", "AuthorityRequest"}
  /\ wire[m].kind \in MemberKinds => Genuine(wire[m]) /\ wire[m].issuer = m /\ Heard(wire[m])
  /\ wire[m].kind = "AuthorityRequest" =>
       wire[m].member = m /\ wire[m].actor = Identity(m) /\ wire[m].epoch \in Nat

\* The types the proofs need.
TypeInv ==
  /\ setting \in Settings
  /\ tick \in Nat
  /\ rt \in [Members -> Runtime]
  /\ wire = [m \in Members |-> wire[m]]
  /\ decision = [m \in Members |-> decision[m]]

\* A lease is a member's, for a range of epochs and up to a tick.
ProperLease(l) ==
  l.holder \in Members /\ l.issued_epoch \in Nat /\ l.not_after_epoch \in Nat /\ l.not_after \in Nat

\* There are finitely many leases, all proper.
LeaseInv == IsFiniteSet(leases) /\ \A l \in leases : ProperLease(l)

\* Everything sent or on record is genuine, and speaks for no incarnation to come.
EvidenceInv ==
  /\ \A m \in Members : Sent(m)
  /\ Sound(artifacts)
  /\ \A a \in artifacts : Heard(a)

\* The view is what derive_locked returns on the evidence on record, at every moment: no
\* handler decides on a state left behind, although a command stores several artefacts.
ViewInv == view = View(ConfiguredPolicy, artifacts, observations, leases, replay, tick)

\* The inductive invariant.
Inv == TypeInv /\ LeaseInv /\ EvidenceInv /\ ViewInv

USE DEF Nothing

\* The view's epoch is that of all the evidence, and never 0.
LEMMA ViewEpoch ==
  ASSUME Inv
  PROVE  view.epoch = CurrentEpoch(artifacts) /\ view.epoch \in Nat \ {0}
<1>1. view.epoch = CurrentEpoch(Prepare(artifacts))
  BY ViewFields DEF Inv, ViewInv
<1>2. Sound(artifacts)
  BY DEF Inv, EvidenceInv
<1> QED
  BY <1>1, <1>2, AdvancesAreKept, EpochIsHighest DEF Sound

\* What an action does to the runtimes: only m's incarnation may move, and upwards.
RuntimeStep(m) ==
  /\ rt' \in [Members -> Runtime]
  /\ \A n \in Members \ {m} : rt'[n].con = rt[n].con /\ rt'[n].inc = rt[n].inc
  /\ rt'[m].inc >= rt[m].inc

\* A new record for m that lowers no incarnation is a step of m's runtime.
LEMMA UpdateIsRuntimeStep ==
  ASSUME TypeInv, NEW m \in Members, NEW x \in Runtime, x.inc >= rt[m].inc,
         rt' = [rt EXCEPT ![m] = x]
  PROVE  RuntimeStep(m) /\ rt'[m] = x
<1>1. rt \in [Members -> Runtime]
  BY DEF TypeInv
<1>2. rt'[m] = x /\ \A n \in Members \ {m} : rt'[n] = rt[n]
  BY <1>1
<1>3. rt' \in [Members -> Runtime]
  BY <1>1
<1> QED
  BY <1>2, <1>3 DEF RuntimeStep

\* refresh_clock is a step of m's runtime that leaves the incarnation alone.
LEMMA CachedIsRuntimeStep ==
  ASSUME TypeInv, NEW m \in Members, NEW e \in Nat, NEW t \in Nat,
         rt' = [rt EXCEPT ![m] = Cached(m, e, t)]
  PROVE  RuntimeStep(m) /\ rt'[m].con = rt[m].con /\ rt'[m].inc = rt[m].inc
<1>1. rt[m].con \in Revisions /\ rt[m].inc \in Nat \ {0}
  BY DEF TypeInv, Runtime
<1>2. PICK x : x = Cached(m, e, t)
  OBVIOUS
<1>3. x \in Runtime /\ x.con = rt[m].con /\ x.inc = rt[m].inc
  BY <1>1, <1>2 DEF Runtime, Cached
<1>4. rt' = [rt EXCEPT ![m] = x]
  BY <1>2
<1>5. x.inc >= rt[m].inc
  BY <1>1, <1>3
<1>6. RuntimeStep(m) /\ rt'[m] = x
  BY <1>3, <1>4, <1>5, UpdateIsRuntimeStep
<1> QED
  BY <1>3, <1>6

\* Changing no runtime counts as such a step.
LEMMA SameIsRuntimeStep ==
  ASSUME TypeInv, NEW m \in Members, rt' = rt
  PROVE  RuntimeStep(m) /\ rt'[m].con = rt[m].con /\ rt'[m].inc = rt[m].inc
  BY DEF TypeInv, RuntimeStep, Runtime

\* What is on record stays heard when a runtime moves on.
LEMMA HeardStays ==
  ASSUME NEW m \in Members, RuntimeStep(m), rt \in [Members -> Runtime], NEW a, Genuine(a), Heard(a)
  PROVE  Heard(a)'
<1> SUFFICES ASSUME a.kind \in {"MembershipAcceptance", "MemberReattestation"}, a.issuer \in Members
             PROVE  a.id.inc <= rt'[a.issuer].inc
  BY DEF Heard
<1>1. a.id.inc \in Nat /\ a.id.inc <= rt[a.issuer].inc
  BY DEF Heard, Genuine
<1>2. rt[a.issuer].inc \in Nat /\ rt'[a.issuer].inc \in Nat /\ rt'[a.issuer].inc >= rt[a.issuer].inc
  BY DEF RuntimeStep, Runtime
<1> QED
  BY <1>1, <1>2

\* What is on its way stays sent when the sender did not move.
LEMMA SentStays ==
  ASSUME NEW m \in Members, RuntimeStep(m), TypeInv, NEW n \in Members, Sent(n),
         wire'[n] = wire[n], rt'[n].con = rt[n].con, rt'[n].inc = rt[n].inc
  PROVE  Sent(n)'
<1>2. wire[n].kind \in MemberKinds => Heard(wire[n])'
  <2> SUFFICES ASSUME wire[n].kind \in MemberKinds PROVE Heard(wire[n])'
    OBVIOUS
  <2>1. Genuine(wire[n]) /\ Heard(wire[n])
    BY DEF Sent
  <2>2. PICK a : a = wire[n]
    OBVIOUS
  <2>3. Heard(a)'
    BY <2>1, <2>2, HeardStays DEF TypeInv
  <2> QED
    BY <2>2, <2>3 DEF Heard
<1>3. Identity(n)' = Identity(n)
  BY DEF Identity
<1> QED
  BY <1>2, <1>3 DEF Sent, Heard

\* An empty wire carries nothing wrong.
LEMMA SilenceIsSent ==
  ASSUME NEW n, wire'[n] = Nothing
  PROVE  Sent(n)'
  BY DEF Sent, MemberKinds

\* The rest of the state does not move: what an action must show about the wire.
LEMMA WireKeepsInv ==
  ASSUME Inv, setting' = setting, NEW m \in Members, NEW x, RuntimeStep(m),
         wire' = [wire EXCEPT ![m] = x], Sent(m)',
         UNCHANGED <<artifacts, observations, leases, replay, tick, view>>,
         decision' = [n \in Members |-> decision'[n]]
  PROVE  Inv'
<1>1. \A n \in Members \ {m} : wire'[n] = wire[n]
  BY DEF Inv, TypeInv
<1>2. ASSUME NEW n \in Members PROVE Sent(n)'
  <2>1. CASE n = m
    BY <2>1
  <2>2. CASE n # m
    <3>1. TypeInv /\ Sent(n) /\ wire'[n] = wire[n]
      BY <1>1, <2>2 DEF Inv, EvidenceInv
    <3>2. rt'[n].con = rt[n].con /\ rt'[n].inc = rt[n].inc
      BY <2>2 DEF RuntimeStep
    <3> QED
      BY <3>1, <3>2, SentStays
  <2> QED
    BY <2>1, <2>2
<1>3. \A a \in artifacts : Heard(a)'
  BY HeardStays DEF Inv, EvidenceInv, Sound, TypeInv
<1>4. wire' = [n \in Members |-> wire'[n]]
  BY DEF Inv, TypeInv
<1>5. TypeInv'
  BY <1>4 DEF Inv, TypeInv, RuntimeStep
<1>6. EvidenceInv'
  BY <1>2, <1>3 DEF Inv, EvidenceInv
<1>7. LeaseInv' /\ ViewInv'
  BY DEF Inv, LeaseInv, ViewInv, ConfiguredPolicy
<1> QED
  BY <1>5, <1>6, <1>7 DEF Inv

\* The ranks that stand for content identities are naturals.
LEMMA RanksAreNatural ==
  ASSUME Inv, NEW a, a.kind \in MemberKinds, NEW r \in RanksFor(a)
  PROVE  r \in Nat
<1> DEFINE peers == {b \in artifacts \union InFlight : b.kind = a.kind /\ b.subject = a.subject}
           same  == {b \in peers : EvidenceId(b) = EvidenceId(a)}
<1>1. r = 0 \/ (\E b \in same : r = b.rank) \/ r \in Ranks
  BY DEF RanksFor
<1>2. ASSUME NEW b \in same PROVE b.rank \in Nat
  <2>1. b \in artifacts \/ \E n \in Members : b = wire[n] /\ wire[n].kind \in MemberKinds
    BY DEF InFlight
  <2>2. Genuine(b)
    BY <2>1 DEF Inv, EvidenceInv, Sound, Sent
  <2> QED
    BY <2>2 DEF Genuine
<1>3. Ranks \subseteq Nat
  BY SettingsAreSane DEF Inv, TypeInv, Ranks
<1>4. CASE r = 0
  BY <1>4
<1>5. ASSUME NEW b \in same, r = b.rank PROVE r \in Nat
  BY <1>2, <1>5
<1>6. CASE r \in Ranks
  BY <1>3, <1>6
<1> QED
  BY <1>1, <1>4, <1>5, <1>6, Zenon

\* What an artefact of a member runtime is like when it is built.
Built(m, a) ==
  /\ a.kind \in MemberKinds /\ a.issuer = m /\ a.subject \in Members /\ a.epoch \in Nat
  /\ a.kind = "DelegationWithdrawal" => a.subject = m /\ a.what # {}
  /\ a.kind = "DelegationDeclaration" =>
       \A t \in a.what : Classify(t.grant.scope) \notin {"Unknown", "Local"}
  /\ a.kind \in {"MembershipAcceptance", "MemberReattestation"} => a.id.inc = rt'[m].inc

\* Handing a built artefact to the connection keeps the invariant.
LEMMA SendKeepsInv ==
  ASSUME Inv, setting' = setting, NEW m \in Members, NEW a, Send(m, a), RuntimeStep(m), Built(m, a)
  PROVE  Inv'
<1>1. PICK r \in RanksFor(a) : wire' = [wire EXCEPT ![m] = Placed(a, r, 0)]
  BY DEF Send
<1>2. r \in Nat
  BY RanksAreNatural DEF Built
<1>3. PICK x : x = Placed(a, r, 0)
  OBVIOUS
<1>4. /\ x.kind = a.kind /\ x.issuer = a.issuer /\ x.subject = a.subject /\ x.epoch = a.epoch
      /\ x.id = a.id /\ x.what = a.what /\ x.rank = r
  BY <1>3 DEF Placed
<1>5. rt'[m].inc \in Nat
  BY DEF RuntimeStep, Runtime
<1>6. Genuine(x)
  BY <1>2, <1>4, <1>5, CoordinatorIsNil DEF Genuine, Built, MemberKinds
<1>7. Heard(x)'
  BY <1>4, <1>5 DEF Heard, Built
<1>8. wire'[m] = x
  BY <1>1, <1>3 DEF Inv, TypeInv
<1>9. Sent(m)'
  BY <1>4, <1>6, <1>7, <1>8 DEF Sent, Built, MemberKinds, Heard
<1>10. wire' = [wire EXCEPT ![m] = x]
  BY <1>1, <1>3
<1>11. /\ UNCHANGED <<artifacts, observations, leases, replay, tick, view>>
       /\ decision' = [n \in Members |-> decision'[n]]
  BY DEF Send, Inv, TypeInv
<1> QED
  BY <1>9, <1>10, <1>11, WireKeepsInv

\* Building and sending an artefact keeps the invariant.
LEMMA BuildKeepsInv ==
  ASSUME Inv, setting' = setting, NEW m \in Members, NEW op, NEW kind \in MemberKinds,
         NEW subject \in Members, NEW lineage, NEW id, NEW what, Build(m, op, kind, subject, lineage, id, what),
         kind = "DelegationWithdrawal" => subject = m /\ what # {},
         kind = "DelegationDeclaration" =>
           \A t \in what : Classify(t.grant.scope) \notin {"Unknown", "Local"},
         kind \in {"MembershipAcceptance", "MemberReattestation"} => id.inc = rt[m].inc
  PROVE  Inv'
<1>1. view.epoch \in Nat /\ tick \in Nat
  BY ViewEpoch DEF Inv, TypeInv
<1>2. PICK e, t : e = view.epoch /\ t = tick
  OBVIOUS
<1>3. rt' = [rt EXCEPT ![m] = Cached(m, e, t)]
  BY <1>2 DEF Build
<1>4. RuntimeStep(m) /\ rt'[m].inc = rt[m].inc
  BY <1>1, <1>2, <1>3, CachedIsRuntimeStep DEF Inv
<1>5. PICK at, a : at = Stamp(t, Identity(m)) /\ a = Record(kind, subject, m, lineage, e, id, what, at)
  OBVIOUS
<1>6. Send(m, a)
  BY <1>2, <1>5 DEF Build
<1>7. Built(m, a)
  BY <1>1, <1>2, <1>4, <1>5 DEF Built, Record
<1> QED
  BY <1>4, <1>6, <1>7, SendKeepsInv

\* Every build_* operation of a member runtime keeps the invariant.
LEMMA IssueKeepsInv ==
  ASSUME Inv, setting' = setting, NEW m \in Members, Issue(m)
  PROVE  Inv'
<1>0. TypeInv
  BY DEF Inv
<1>1. ASSUME NEW c \in Members, NEW l, Propose(m, c, l) PROVE Inv'
  <2>1. PICK id : id = Identity(c)
    OBVIOUS
  <2>2. Build(m, "propose", "MembershipProposal", c, l, id, {})
    BY <1>1, <2>1 DEF Propose
  <2> QED
    BY <2>2, BuildKeepsInv DEF MemberKinds
<1>2. ASSUME NEW c \in Members, NEW l, Endorse(m, c, l) PROVE Inv'
  <2>1. PICK id : id = Identity(c)
    OBVIOUS
  <2>2. Build(m, "endorse", "MembershipEndorsement", c, l, id, {})
    BY <1>2, <2>1 DEF Endorse
  <2> QED
    BY <2>2, BuildKeepsInv DEF MemberKinds
<1>3. ASSUME NEW l, Accept(m, l) PROVE Inv'
  <2>1. PICK id : id = Identity(m)
    OBVIOUS
  <2>2. Build(m, "accept", "MembershipAcceptance", m, l, id, {}) /\ id.inc = rt[m].inc
    BY <1>3, <2>1 DEF Accept, Identity
  <2> QED
    BY <2>2, BuildKeepsInv DEF MemberKinds
<1>4. ASSUME NEW l, Leave(m, l) PROVE Inv'
  <2>1. PICK id : id = Identity(m)
    OBVIOUS
  <2>2. Build(m, "leave", "MembershipLeave", m, l, id, {})
    BY <1>4, <2>1 DEF Leave
  <2> QED
    BY <2>2, BuildKeepsInv DEF MemberKinds
<1>5. ASSUME NEW l, SelfFence(m, l) PROVE Inv'
  <2>1. PICK id : id = Identity(m)
    OBVIOUS
  <2>2. Build(m, "self_fence", "MembershipFence", m, l, id, "self")
    BY <1>5, <2>1 DEF SelfFence
  <2> QED
    BY <2>2, BuildKeepsInv DEF MemberKinds
<1>6. ASSUME NEW l, NEW G, Withdraw(m, G, l) PROVE Inv'
  <2>1. PICK id : id = Identity(m)
    OBVIOUS
  <2>2. Build(m, "withdraw", "DelegationWithdrawal", m, l, id, G) /\ G # {}
    BY <1>6, <2>1 DEF Withdraw
  <2> QED
    BY <2>2, BuildKeepsInv DEF MemberKinds
<1>7. ASSUME NEW T, DeclareDelegation(m, T) PROVE Inv'
  <2>1. PICK id : id = Identity(m)
    OBVIOUS
  <2>2. Build(m, "declare", "DelegationDeclaration", m, 0, id, T)
    BY <1>7, <2>1 DEF DeclareDelegation
  <2>3. \A t \in T : Classify(t.grant.scope) \notin {"Unknown", "Local"}
    BY <1>7 DEF DeclareDelegation, ValidConstitution
  <2> QED
    BY <2>2, <2>3, BuildKeepsInv DEF MemberKinds
<1>8. CASE Reattest(m)
  <2>1. PICK id : id = Identity(m)
    OBVIOUS
  <2>2. Build(m, "reattest", "MemberReattestation", m, 0, id, {}) /\ id.inc = rt[m].inc
    BY <1>8, <2>1 DEF Reattest, Identity
  <2> QED
    BY <2>2, BuildKeepsInv DEF MemberKinds
<1>9. rt[m] \in Runtime
  BY <1>0 DEF TypeInv
<1>10. CASE RestartWithNewIncarnation(m)
  <2>1. PICK x : x = [con |-> rt[m].con, inc |-> rt[m].inc + 1, epoch |-> rt[m].epoch, tick |-> rt[m].tick]
    OBVIOUS
  <2>2. x \in Runtime /\ x.inc = rt[m].inc + 1 /\ rt[m].inc \in Nat /\ rt[m].epoch \in Nat
    BY <1>9, <2>1 DEF Runtime
  <2>3. rt' = [rt EXCEPT ![m] = x]
    BY <1>10, <2>1 DEF RestartWithNewIncarnation
  <2>4. x.inc >= rt[m].inc
    BY <2>2
  <2>5. RuntimeStep(m) /\ rt'[m] = x
    BY <1>0, <2>2, <2>3, <2>4, UpdateIsRuntimeStep
  <2>6. PICK a : a = Record("MemberReattestation", m, m, 0, rt[m].epoch,
                            Incarnated(m), {}, Stamp(rt[m].tick, Incarnated(m)))
    OBVIOUS
  <2>7. Send(m, a)
    BY <1>10, <2>6 DEF RestartWithNewIncarnation
  <2>8. Built(m, a)
    BY <2>2, <2>5, <2>6 DEF Built, Record, MemberKinds, Incarnated
  <2> QED
    BY <2>5, <2>7, <2>8, SendKeepsInv
<1>11. CASE Reconfigure(m)
  <2>1. PICK x : x = [con |-> Successor[rt[m].con], inc |-> rt[m].inc + 1, epoch |-> view.epoch, tick |-> tick]
    OBVIOUS
  <2>2. x \in Runtime /\ x.inc = rt[m].inc + 1 /\ rt[m].inc \in Nat
    BY <1>0, <1>9, <2>1, ViewEpoch, SettingsAreSane DEF Runtime, TypeInv
  <2>3. rt' = [rt EXCEPT ![m] = x]
    BY <1>11, <2>1 DEF Reconfigure
  <2>4. x.inc >= rt[m].inc
    BY <2>2
  <2>5. RuntimeStep(m) /\ rt'[m] = x
    BY <1>0, <2>2, <2>3, <2>4, UpdateIsRuntimeStep
  <2>6. wire' = [wire EXCEPT ![m] = Nothing] /\ wire'[m] = Nothing
    BY <1>0, <1>11 DEF Reconfigure, MayCall, TypeInv
  <2>7. UNCHANGED <<artifacts, observations, leases, replay, tick, decision, view>>
    BY <1>11 DEF Reconfigure
  <2> QED
    BY <1>0, <2>5, <2>6, <2>7, SilenceIsSent, WireKeepsInv DEF TypeInv
<1>12. ASSUME NEW g, RequestAuthority(m, g) PROVE Inv'
  <2>1. PICK lease : wire' = [wire EXCEPT ![m] =
         [kind |-> "AuthorityRequest", subject |-> m, id |-> Cardinality(replay) + 1, member |-> m,
          epoch |-> view.epoch, actor |-> Identity(m), grant |-> g, lease |-> lease]]
    BY <1>12 DEF RequestAuthority
  <2>2. PICK x : x = [kind |-> "AuthorityRequest", subject |-> m, id |-> Cardinality(replay) + 1, member |-> m,
          epoch |-> view.epoch, actor |-> Identity(m), grant |-> g, lease |-> lease]
    OBVIOUS
  <2>3. PICK e, t : e = rt[m].epoch /\ t = tick
    OBVIOUS
  <2>4. e \in Nat /\ t \in Nat
    BY <1>0, <1>9, <2>3 DEF TypeInv, Runtime
  <2>5. rt' = [rt EXCEPT ![m] = Cached(m, e, t)]
    BY <1>12, <2>3 DEF RequestAuthority
  <2>6. RuntimeStep(m) /\ rt'[m].con = rt[m].con /\ rt'[m].inc = rt[m].inc
    BY <1>0, <2>4, <2>5, CachedIsRuntimeStep
  <2>7. wire' = [wire EXCEPT ![m] = x] /\ wire'[m] = x
    BY <1>0, <2>1, <2>2 DEF TypeInv
  <2>8. x.kind = "AuthorityRequest" /\ x.member = m /\ x.actor = Identity(m) /\ x.epoch \in Nat
    BY <2>2, ViewEpoch
  <2>9. Identity(m)' = Identity(m)
    BY <2>6 DEF Identity
  <2>10. Sent(m)'
    BY <2>7, <2>8, <2>9 DEF Sent, MemberKinds
  <2>11. UNCHANGED <<artifacts, observations, leases, replay, tick, decision, view>>
    BY <1>12 DEF RequestAuthority
  <2> QED
    BY <1>0, <2>6, <2>7, <2>10, <2>11, WireKeepsInv DEF TypeInv
<1>13. Candidates \subseteq Members
  BY <1>0, SettingsAreSane DEF TypeInv, Candidates
<1> QED
  BY <1>1, <1>2, <1>3, <1>4, <1>5, <1>6, <1>7, <1>8, <1>10, <1>11, <1>12, <1>13 DEF Issue

\* Losing a request on the way keeps the invariant.
LEMMA LoseKeepsInv ==
  ASSUME Inv, setting' = setting, NEW m \in Members, Lose(m)
  PROVE  Inv'
<1>1. wire' = [wire EXCEPT ![m] = Nothing] /\ wire'[m] = Nothing
  BY DEF Lose, Inv, TypeInv
<1>2. UNCHANGED <<artifacts, observations, leases, replay, tick, rt, decision, view>>
  BY DEF Lose
<1>3. RuntimeStep(m)
  BY <1>2, SameIsRuntimeStep DEF Inv
<1> QED
  BY <1>1, <1>2, <1>3, SilenceIsSent, WireKeepsInv DEF Inv, TypeInv

\* A genuine artefact leaves the evidence sound, unless it is an activation or a fence order
\* of another epoch.
LEMMA SoundAdd ==
  ASSUME NEW A, Sound(A), NEW a, Genuine(a), a.kind # "MembershipActivation",
         a.kind = "MembershipFence" /\ a.issuer = Coordinator => a.epoch = CurrentEpoch(A)
  PROVE  Sound(A \union {a})
<1> DEFINE B == A \union {a}
<1>1. IsFiniteSet(B)
  BY FS_AddElement DEF Sound
<1>2. \A b \in B : Genuine(b)
  BY DEF Sound
<1>3. CurrentEpoch(A) \in Nat /\ CurrentEpoch(B) \in Nat /\ CurrentEpoch(A) <= CurrentEpoch(B)
  <2>1. A \subseteq B
    OBVIOUS
  <2> HIDE DEF B
  <2> QED
    BY <1>1, <1>2, <2>1, EpochGrows, EpochIsHighest DEF Sound
<1>4. ASSUME NEW b \in B, b.kind = "MembershipActivation" PROVE b.epoch <= CurrentEpoch(B)
  <2>1. b \in A /\ b.epoch \in Nat /\ b.epoch <= CurrentEpoch(A)
    BY <1>4 DEF Sound, Genuine
  <2> HIDE DEF B
  <2> QED
    BY <1>3, <2>1
<1>5. ASSUME NEW f \in B, NEW b \in B, b.kind = "MembershipActivation",
             f.kind = "MembershipFence", f.issuer = Coordinator,
             b.subject = f.subject, b.lineage = f.lineage
      PROVE  b.epoch <= f.epoch
  <2>1. b \in A /\ b.epoch <= CurrentEpoch(A)
    BY <1>5 DEF Sound
  <2>2. CASE f \in A
    BY <1>5, <2>1, <2>2 DEF Sound, Outranks
  <2>3. CASE f = a
    BY <1>5, <2>1, <2>3
  <2> QED
    BY <2>2, <2>3
<1> QED
  BY <1>1, <1>2, <1>4, <1>5 DEF Sound, Outranks

\* What an operation of the coordinator must show.
LEMMA StepKeepsInv ==
  ASSUME Inv, setting' = setting, NEW m \in Members, RuntimeStep(m),
         rt'[m].con = rt[m].con, rt'[m].inc = rt[m].inc, tick' \in Nat,
         Sound(artifacts'), \A a \in artifacts' : a \in artifacts \/ Heard(a)',
         LeaseInv', ViewInv', wire' = wire \/ wire' = [wire EXCEPT ![m] = Nothing],
         decision' = [n \in Members |-> decision'[n]]
  PROVE  Inv'
<1>1. ASSUME NEW n \in Members PROVE Sent(n)'
  <2>1. CASE wire'[n] = Nothing
    BY <2>1, SilenceIsSent
  <2>2. CASE wire'[n] = wire[n]
    <3>1. TypeInv /\ Sent(n)
      BY DEF Inv, EvidenceInv
    <3>2. rt'[n].con = rt[n].con /\ rt'[n].inc = rt[n].inc
      BY DEF RuntimeStep
    <3> QED
      BY <2>2, <3>1, <3>2, SentStays
  <2> QED
    BY <2>1, <2>2 DEF Inv, TypeInv
<1>2. \A a \in artifacts' : Heard(a)'
  <2>1. \A a \in artifacts : Heard(a)'
    BY HeardStays DEF Inv, EvidenceInv, Sound, TypeInv
  <2> QED
    BY <2>1
<1>3. wire' = [n \in Members |-> wire'[n]]
  BY DEF Inv, TypeInv
<1>4. TypeInv'
  BY <1>3 DEF Inv, TypeInv, RuntimeStep
<1>5. EvidenceInv'
  BY <1>1, <1>2 DEF EvidenceInv
<1> QED
  BY <1>4, <1>5 DEF Inv

\* The refresh after an answer is a step of m's runtime.
LEMMA RefreshedIsRuntimeStep ==
  ASSUME TypeInv, NEW m \in Members, NEW v, v.epoch \in Nat, NEW t \in Nat, Refreshed(m, v, t)
  PROVE  RuntimeStep(m) /\ rt'[m].con = rt[m].con /\ rt'[m].inc = rt[m].inc
<1>1. PICK e : e = v.epoch
  OBVIOUS
<1>2. rt' = [rt EXCEPT ![m] = Cached(m, e, t)] \/ rt' = rt
  BY <1>1 DEF Refreshed
<1> QED
  BY <1>1, <1>2, CachedIsRuntimeStep, SameIsRuntimeStep

\* What arrives is what m built, stamped by the coordinator where it stamps.
LEMMA ArrivedIsGenuine ==
  ASSUME Inv, NEW m \in Members, wire[m].kind \notin {"none", "AuthorityRequest"}
  PROVE  LET a == Arrived(wire[m])
         IN  /\ Genuine(a) /\ a.issuer = m /\ a.kind \in MemberKinds
             /\ a.kind = wire[m].kind /\ a.id = wire[m].id
<1>1. Sent(m)
  BY DEF Inv, EvidenceInv
<1>2. Genuine(wire[m]) /\ wire[m].issuer = m /\ wire[m].kind \in MemberKinds
  BY <1>1 DEF Sent
<1>3. PICK w : w = wire[m]
  OBVIOUS
<1>4. PICK n : n = 1 + Cardinality(Of(BySubject(artifacts, w.subject), w.kind))
  OBVIOUS
<1>5. PICK a : a = Arrived(wire[m])
  OBVIOUS
<1>6. a = w \/ a = Placed(w, w.rank, n)
  BY <1>3, <1>4, <1>5 DEF Arrived
<1>7. /\ a.kind = w.kind /\ a.issuer = w.issuer /\ a.subject = w.subject /\ a.epoch = w.epoch
      /\ a.id = w.id /\ a.what = w.what /\ a.rank = w.rank /\ a.at = w.at
  BY <1>6 DEF Placed
<1>8. Genuine(a)
  BY <1>2, <1>3, <1>7 DEF Genuine
<1> QED
  BY <1>2, <1>3, <1>5, <1>7, <1>8

\* submit_artifact, its decisions included, keeps the invariant.
LEMMA AdmitKeepsInv ==
  ASSUME Inv, setting' = setting, NEW m \in Members, Admit(m)
  PROVE  Inv'
<1>1. /\ wire[m].kind \notin {"none", "AuthorityRequest"}
      /\ wire' = [wire EXCEPT ![m] = Nothing]
      /\ UNCHANGED <<observations, leases, replay, tick, decision>>
  BY DEF Admit
<1>2. PICK a : a = Arrived(wire[m])
  OBVIOUS
<1>3. Genuine(a) /\ a.issuer = m /\ a.kind \in MemberKinds /\ Heard(a)
  <2>1. Heard(wire[m]) /\ wire[m].issuer = m
    BY <1>1, <1>2, ArrivedIsGenuine DEF Inv, EvidenceInv, Sent
  <2> QED
    BY <1>1, <1>2, <2>1, ArrivedIsGenuine DEF Heard
<1>4. /\ tick \in Nat /\ view.epoch \in Nat /\ TypeInv /\ Sound(artifacts)
      /\ IsFiniteSet(leases) /\ \A l \in leases : l.holder \in Members
  BY ViewEpoch DEF Inv, TypeInv, LeaseInv, ProperLease, EvidenceInv
<1>5. decision' = [n \in Members |-> decision'[n]] /\ LeaseInv'
  BY <1>1 DEF Inv, TypeInv, LeaseInv
<1>6. CASE UNCHANGED <<artifacts, view>> /\ Refreshed(m, view, tick)
  <2>1. RuntimeStep(m) /\ rt'[m].con = rt[m].con /\ rt'[m].inc = rt[m].inc
    <3>1. PICK v, t : v = view /\ t = tick
      OBVIOUS
    <3>2. Refreshed(m, v, t)
      BY <1>6, <3>1
    <3> QED
      BY <1>4, <3>1, <3>2, RefreshedIsRuntimeStep
  <2>2. ViewInv' /\ Sound(artifacts')
    BY <1>1, <1>4, <1>6 DEF Inv, ViewInv, ConfiguredPolicy
  <2> QED
    BY <1>1, <1>4, <1>5, <1>6, <2>1, <2>2, StepKeepsInv
<1>7. ASSUME NEW o, o = Decide(ConfiguredPolicy, artifacts \union {a}, observations, leases, replay, tick),
             artifacts' = o.set, view' = o.view, Refreshed(m, view', tick)
      PROVE  Inv'
  <2>1. Sound(artifacts \union {a})
    BY <1>3, <1>4, SoundAdd, CoordinatorIsNil DEF MemberKinds
  <2>2. Stage(o, ConfiguredPolicy, artifacts \union {a}, observations, leases, replay, tick)
    BY <1>4, <1>7, <2>1, DecideIsStage
  <2>3. Sound(artifacts')
    BY <1>7, <2>2 DEF Stage
  <2>4. ViewInv'
    BY <1>1, <1>7, <2>2 DEF Stage, ViewInv, ConfiguredPolicy
  <2>5. view'.epoch \in Nat
    <3>1. view'.epoch = CurrentEpoch(Prepare(artifacts'))
      BY <2>4, ViewFields DEF ViewInv
    <3> QED
      BY <2>3, <3>1, AdvancesAreKept, EpochIsHighest DEF Sound
  <2>6. RuntimeStep(m) /\ rt'[m].con = rt[m].con /\ rt'[m].inc = rt[m].inc
    <3>1. PICK v, t : v = view' /\ t = tick
      OBVIOUS
    <3>2. Refreshed(m, v, t)
      BY <1>7, <3>1
    <3> QED
      BY <1>4, <2>5, <3>1, <3>2, RefreshedIsRuntimeStep
  <2>7. Heard(a)'
    BY <1>3, <1>4, <2>6, HeardStays DEF TypeInv
  <2>8. ASSUME NEW b \in artifacts' PROVE b \in artifacts \/ Heard(b)'
    BY <1>7, <2>2, <2>7 DEF Stage, Grown, Heard
  <2> QED
    BY <1>1, <1>4, <1>5, <2>3, <2>4, <2>6, <2>8, StepKeepsInv
<1> QED
  BY <1>2, <1>6, <1>7 DEF Admit

\* Any command that stores sound evidence and derives anew keeps the invariant.
LEMMA AdvanceKeepsInv ==
  ASSUME Inv, setting' = setting, NEW m \in Members, RuntimeStep(m),
         rt'[m].con = rt[m].con, rt'[m].inc = rt[m].inc,
         NEW A, NEW obs, NEW ls, NEW rp, Advance(A, obs, ls, rp),
         Sound(A), \A a \in A : a \in artifacts \/ Heard(a)',
         IsFiniteSet(ls), \A l \in ls : ProperLease(l),
         wire' = wire \/ wire' = [wire EXCEPT ![m] = Nothing],
         decision' = [n \in Members |-> decision'[n]]
  PROVE  Inv'
<1>1. /\ tick' = tick + 1 /\ artifacts' = A /\ observations' = obs /\ leases' = ls /\ replay' = rp
      /\ view' = View(ConfiguredPolicy, A, obs, ls, rp, tick + 1)
  BY DEF Advance
<1>2. tick' \in Nat
  BY <1>1 DEF Inv, TypeInv
<1>3. ViewInv'
  BY <1>1 DEF ViewInv, ConfiguredPolicy
<1>4. LeaseInv'
  BY <1>1 DEF LeaseInv
<1> QED
  BY <1>1, <1>2, <1>3, <1>4, StepKeepsInv

\* A coordinator command, its decisions included, keeps the invariant.
LEMMA CommandKeepsInv ==
  ASSUME Inv, setting' = setting, NEW op, NEW a, Command(op, a), Genuine(a),
         a.kind \in {"MembershipFence", "MembershipRetirement", "EpochAdvance", "ReconciliationComplete"},
         a.kind = "MembershipFence" => a.epoch = view.epoch
  PROVE  Inv'
<1>1. PICK A : A = artifacts \union Recordable(artifacts, {a})
  OBVIOUS
<1>2. PICK obs, ls, rp : obs = observations /\ ls = leases /\ rp = replay
  OBVIOUS
<1>3. Advance(A, obs, ls, rp) /\ UNCHANGED <<rt, wire, decision>>
  BY <1>1, <1>2 DEF Command
<1>4. A = artifacts \/ A = artifacts \union {a}
  BY <1>1 DEF Recordable
<1>5. Sound(A)
  <2>1. Sound(artifacts) /\ view.epoch = CurrentEpoch(artifacts)
    BY ViewEpoch DEF Inv, EvidenceInv
  <2> QED
    BY <1>4, <2>1, SoundAdd
<1>6. \A b \in A : b \in artifacts \/ Heard(b)'
  BY <1>4 DEF Heard
<1>7. TypeInv /\ decision' = [n \in Members |-> decision'[n]]
  BY <1>3 DEF Inv, TypeInv
<1>8. IsFiniteSet(ls) /\ \A l \in ls : ProperLease(l)
  BY <1>2 DEF Inv, LeaseInv
<1>9. Founder0 \in Members
  BY GenesisAssumption
<1>10. RuntimeStep(Founder0) /\ rt'[Founder0].con = rt[Founder0].con /\ rt'[Founder0].inc = rt[Founder0].inc
  BY <1>3, <1>7, <1>9, SameIsRuntimeStep
<1> QED
  BY <1>3, <1>5, <1>6, <1>7, <1>8, <1>9, <1>10, AdvanceKeepsInv

\* Every coordinator command keeps the invariant.
LEMMA OperateKeepsInv ==
  ASSUME Inv, setting' = setting, Operate
  PROVE  Inv'
<1>0. view.epoch \in Nat \ {0}
  BY ViewEpoch
<1>1. ASSUME NEW m \in Members, FenceMember(m) PROVE Inv'
  <2>1. PICK a : a = Record("MembershipFence", m, Coordinator, view.members[m].lineage,
                            view.epoch, NoIdentity, "operator", NoStamp)
    OBVIOUS
  <2>2. Command("fence", a)
    BY <1>1, <2>1 DEF FenceMember
  <2>3. Genuine(a) /\ a.kind = "MembershipFence" /\ a.epoch = view.epoch
    BY <1>0, <1>1, <2>1 DEF Genuine, Record
  <2> QED
    BY <2>2, <2>3, CommandKeepsInv
<1>2. ASSUME NEW m \in Members, RetireMember(m) PROVE Inv'
  <2>1. PICK a : a = Record("MembershipRetirement", m, Coordinator, view.members[m].lineage,
                            view.epoch, NoIdentity, "operator", NoStamp)
    OBVIOUS
  <2>2. Command("retire", a)
    BY <1>2, <2>1 DEF RetireMember
  <2>3. Genuine(a) /\ a.kind = "MembershipRetirement"
    BY <1>0, <1>2, <2>1 DEF Genuine, Record
  <2> QED
    BY <2>2, <2>3, CommandKeepsInv
<1>3. ASSUME NEW e \in Nat \ {0}, NEW reason, AdvanceEpoch(e, reason) PROVE Inv'
  <2>1. PICK a : a = Record("EpochAdvance", Coordinator, Coordinator, 0, e, NoIdentity, reason, NoStamp)
    OBVIOUS
  <2>2. Command("advance_epoch", a)
    BY <1>3, <2>1 DEF AdvanceEpoch
  <2>3. Genuine(a) /\ a.kind = "EpochAdvance"
    BY <2>1 DEF Genuine, Record
  <2> QED
    BY <2>2, <2>3, CommandKeepsInv
<1>4. ASSUME NEW e \in Nat \ {0}, CompleteReconciliation(e) PROVE Inv'
  <2>1. PICK a : a = Record("ReconciliationComplete", Coordinator, Coordinator, 0, e, NoIdentity, {}, NoStamp)
    OBVIOUS
  <2>2. Command("reconcile", a)
    BY <1>4, <2>1 DEF CompleteReconciliation
  <2>3. Genuine(a) /\ a.kind = "ReconciliationComplete"
    BY <2>1 DEF Genuine, Record
  <2> QED
    BY <2>2, <2>3, CommandKeepsInv
<1>5. MaxEpoch \in Nat
  BY SettingsAreSane DEF Inv, TypeInv, MaxEpoch
<1>6. \A e \in 2..MaxEpoch : e \in Nat \ {0}
  BY <1>5
<1>7. \A e \in 1..MaxEpoch : e \in Nat \ {0}
  BY <1>5
<1> QED
  BY <1>1, <1>2, <1>3, <1>4, <1>6, <1>7 DEF Operate

\* evaluate_authority keeps the invariant.
LEMMA EvaluateKeepsInv ==
  ASSUME Inv, setting' = setting, NEW m \in Members, Evaluate(m)
  PROVE  Inv'
<1>1. PICK A, obs, ls, rp : /\ A = artifacts /\ obs = observations /\ ls = leases
                            /\ rp = replay \union {wire[m].id}
  OBVIOUS
<1>2. Advance(A, obs, ls, rp) /\ wire' = [wire EXCEPT ![m] = Nothing] /\ UNCHANGED rt
  BY <1>1 DEF Evaluate
<1>3. TypeInv /\ Sound(A) /\ \A a \in A : a \in artifacts \/ Heard(a)'
  BY <1>1 DEF Inv, EvidenceInv
<1>4. RuntimeStep(m) /\ rt'[m].con = rt[m].con /\ rt'[m].inc = rt[m].inc
  BY <1>2, <1>3, SameIsRuntimeStep
<1>5. IsFiniteSet(ls) /\ \A l \in ls : ProperLease(l)
  BY <1>1 DEF Inv, LeaseInv
<1>6. decision' = [n \in Members |-> decision'[n]]
  <2>1. PICK x : decision' = [decision EXCEPT ![m] = x]
    BY DEF Evaluate
  <2> QED
    BY <1>3, <2>1 DEF TypeInv
<1> QED
  BY <1>2, <1>3, <1>4, <1>5, <1>6, AdvanceKeepsInv

\* issue_lease keeps the invariant.
LEMMA IssueLeaseKeepsInv ==
  ASSUME Inv, setting' = setting, NEW m \in Members, NEW g, NEW asked, NEW last \in Nat,
         IssueLease(m, g, asked, last)
  PROVE  Inv'
<1>1. PICK l : l = [id |-> 1 + Cardinality(leases), holder |-> m, inc |-> view.members[m].current.inc,
         generation |-> Generation(view.members[m].current), scopes |-> {g},
         issued_epoch |-> view.epoch, not_after_epoch |-> last,
         not_after |-> tick + Lifetime(asked), revoked |-> FALSE]
  OBVIOUS
<1>2. PICK A, obs, ls, rp : /\ A = artifacts /\ obs = observations /\ ls = leases \union {l}
                            /\ rp = replay
  OBVIOUS
<1>3. Advance(A, obs, ls, rp) /\ UNCHANGED <<rt, wire, decision>>
  BY <1>1, <1>2 DEF IssueLease
<1>4. TypeInv /\ Sound(A) /\ \A a \in A : a \in artifacts \/ Heard(a)'
  BY <1>2 DEF Inv, EvidenceInv
<1>5. RuntimeStep(m) /\ rt'[m].con = rt[m].con /\ rt'[m].inc = rt[m].inc
  BY <1>3, <1>4, SameIsRuntimeStep
<1>6. IsFiniteSet(ls) /\ \A x \in ls : ProperLease(x)
  <2>1. MaxLeaseLifetime(ConfiguredPolicy) \in Nat
    BY SettingsAreSane DEF Inv, TypeInv, ConfiguredPolicy
  <2>2. tick + Lifetime(asked) \in Nat
    <3>1. Lifetime(asked) \in 1..MaxLeaseLifetime(ConfiguredPolicy)
      BY DEF IssueLease
    <3> QED
      BY <1>4, <2>1, <3>1 DEF TypeInv
  <2>3. ProperLease(l)
    BY <1>1, <2>2, ViewEpoch DEF ProperLease
  <2>4. IsFiniteSet(ls)
    BY <1>2, FS_AddElement DEF Inv, LeaseInv
  <2> QED
    BY <1>2, <2>3, <2>4 DEF Inv, LeaseInv
<1>7. decision' = [n \in Members |-> decision'[n]]
  BY <1>3, <1>4 DEF TypeInv
<1> QED
  BY <1>3, <1>4, <1>5, <1>6, <1>7, AdvanceKeepsInv

\* report_observation keeps the invariant.
LEMMA ReportKeepsInv ==
  ASSUME Inv, setting' = setting, NEW m \in Members, NEW up, ReportObservation(m, up)
  PROVE  Inv'
<1>1. PICK A, ls, rp : A = artifacts /\ ls = leases /\ rp = replay
  OBVIOUS
<1>2. PICK obs : Advance(A, obs, ls, rp)
  BY <1>1 DEF ReportObservation
<1>3. UNCHANGED <<wire, decision>>
  BY DEF ReportObservation
<1>4. TypeInv /\ Sound(A) /\ \A a \in A : a \in artifacts \/ Heard(a)'
  BY <1>1 DEF Inv, EvidenceInv
<1>5. RuntimeStep(m) /\ rt'[m].con = rt[m].con /\ rt'[m].inc = rt[m].inc
  <2>1. PICK e, t : e = view.epoch /\ t = tick
    OBVIOUS
  <2>2. rt' = [rt EXCEPT ![m] = Cached(m, e, t)]
    BY <2>1 DEF ReportObservation
  <2> QED
    BY <1>4, <2>1, <2>2, ViewEpoch, CachedIsRuntimeStep DEF TypeInv
<1>6. IsFiniteSet(ls) /\ \A l \in ls : ProperLease(l)
  BY <1>1 DEF Inv, LeaseInv
<1>7. decision' = [n \in Members |-> decision'[n]]
  BY <1>3, <1>4 DEF TypeInv
<1> QED
  BY <1>2, <1>3, <1>4, <1>5, <1>6, <1>7, AdvanceKeepsInv

\* The evidence a setting starts with is sound and speaks for first incarnations.
LEMMA StartIsSound ==
  ASSUME NEW joined, IsFiniteSet(joined), joined \subseteq Members
  PROVE  LET A == {GenesisRecord} \union UNION {JoiningEvidence(m) : m \in joined}
         IN  Sound(A) /\ \A a \in A : a.kind \in {"MembershipAcceptance", "MemberReattestation"} => a.id.inc = 1
<1> DEFINE J == {JoiningEvidence(m) : m \in joined}
           A == {GenesisRecord} \union UNION J
<1>1. ASSUME NEW a \in A
      PROVE  /\ Genuine(a) /\ a.kind \in {"FederationGenesis", "MembershipProposal", "MembershipAcceptance"}
             /\ a.kind = "MembershipAcceptance" => a.id.inc = 1
  <2>1. CASE a = GenesisRecord
    BY <2>1, GenesisAssumption DEF GenesisRecord, Record, Genuine
  <2>2. ASSUME NEW m \in joined, a \in JoiningEvidence(m)
        PROVE  /\ Genuine(a) /\ a.kind \in {"FederationGenesis", "MembershipProposal", "MembershipAcceptance"}
               /\ a.kind = "MembershipAcceptance" => a.id.inc = 1
    <3>1. m # Coordinator /\ Founder0 # Coordinator
      BY <2>2, CoordinatorIsNil, GenesisAssumption
    <3>2. PICK id, by, own : /\ id = FirstIdentity(m)
                             /\ by = Stamp(1, FirstIdentity(Founder0)) /\ own = Stamp(1, FirstIdentity(m))
      OBVIOUS
    <3>3. \/ a = Placed(Record("MembershipProposal", m, Founder0, 0, 1, id, {}, by), 1, 0)
          \/ a = Placed(Record("MembershipAcceptance", m, m, 0, 1, id, {}, own), 1, 0)
      BY <2>2, <3>2 DEF JoiningEvidence
    <3> QED
      BY <3>1, <3>2, <3>3 DEF Placed, Record, Genuine, FirstIdentity
  <2> QED
    BY <2>1, <2>2
<1>2. IsFiniteSet(A)
  <2> DEFINE ev == [m \in joined |-> JoiningEvidence(m)]
  <2>1. \A m \in joined : ev[m] = JoiningEvidence(m)
    OBVIOUS
  <2>2. \A m \in joined : IsFiniteSet(JoiningEvidence(m))
    <3> SUFFICES ASSUME NEW m \in joined PROVE IsFiniteSet(JoiningEvidence(m))
      OBVIOUS
    <3>1. PICK x, y : JoiningEvidence(m) = {x, y}
      BY DEF JoiningEvidence
    <3>2. IsFiniteSet({x} \union {y})
      BY FS_Singleton, FS_Union
    <3>3. {x, y} = {x} \union {y}
      OBVIOUS
    <3> QED
      BY <3>1, <3>2, <3>3
  <2> HIDE DEF ev
  <2>3. IsFiniteSet({ev[m] : m \in joined})
    BY FiniteImage
  <2>4. J = {ev[m] : m \in joined}
    BY <2>1
  <2>5. IsFiniteSet(J) /\ \A T \in J : IsFiniteSet(T)
    BY <2>2, <2>3, <2>4
  <2> HIDE DEF J
  <2> QED
    BY <2>5, FS_UNION, FS_Singleton, FS_Union
<1> HIDE DEF A
<1>3. Sound(A)
  BY <1>1, <1>2 DEF Sound, Outranks
<1> QED
  BY <1>1, <1>3 DEF A

\* The invariant holds at the start.
LEMMA InitHasInv ==
  ASSUME Init
  PROVE  Inv
<1>1. setting \in Settings /\ Joined \subseteq Members /\ IsFiniteSet(Joined)
  BY SettingsAreSane, MembersAreBounded, FS_Subset DEF Init, Joined
<1>2. PICK A : A = {GenesisRecord} \union UNION {JoiningEvidence(m) : m \in Joined}
  OBVIOUS
<1>3. Sound(A) /\ \A a \in A : a.kind \in {"MembershipAcceptance", "MemberReattestation"} => a.id.inc = 1
  <2>1. PICK joined : joined = Joined
    OBVIOUS
  <2> QED
    BY <1>1, <1>2, <2>1, StartIsSound
<1>4. PICK o : o = Decide(ConfiguredPolicy, A, {}, {}, {}, 1)
  OBVIOUS
<1>5. artifacts = o.set /\ view = o.view
  BY <1>2, <1>4 DEF Init
<1>6. Stage(o, ConfiguredPolicy, A, {}, {}, {}, 1)
  BY <1>3, <1>4, DecideIsStage, FS_EmptySet
<1>7. /\ observations = {} /\ leases = {} /\ replay = {} /\ tick = 1
      /\ rt = [m \in Members |-> [con |-> First[m], inc |-> 1, epoch |-> 1, tick |-> 1]]
      /\ wire = [m \in Members |-> Nothing] /\ decision = [m \in Members |-> Nothing]
  BY DEF Init
<1>8. TypeInv
  BY <1>1, <1>7, GenesisAssumption DEF TypeInv, Runtime
<1>9. ViewInv /\ Sound(artifacts)
  BY <1>5, <1>6, <1>7 DEF Stage, ViewInv
<1>10. \A m \in Members : Sent(m)
  BY <1>7 DEF Sent, MemberKinds
<1>11. ASSUME NEW a \in artifacts PROVE Heard(a)
  <2>1. a \in A \/ a.kind \in {"MembershipAdmission", "MembershipActivation"}
    BY <1>5, <1>6 DEF Stage, Grown
  <2>2. \A m \in Members : rt[m].inc = 1
    BY <1>7
  <2> QED
    BY <1>3, <2>1, <2>2 DEF Heard
<1>12. EvidenceInv
  BY <1>9, <1>10, <1>11 DEF EvidenceInv
<1>13. LeaseInv
  BY <1>7, FS_EmptySet DEF LeaseInv
<1> QED
  BY <1>8, <1>9, <1>12, <1>13 DEF Inv

\* Every step keeps the invariant.
LEMMA NextKeepsInv ==
  ASSUME Inv, [Next]_vars
  PROVE  Inv'
<1>1. CASE UNCHANGED vars
  BY <1>1 DEF vars, Inv, TypeInv, LeaseInv, EvidenceInv, ViewInv, Sent, Heard, Identity, ConfiguredPolicy
<1>2. CASE Next
  <2>1. setting' = setting
    BY <1>2 DEF Next
  <2>2. ASSUME NEW m \in Members, Issue(m) PROVE Inv'
    BY <2>1, <2>2, IssueKeepsInv
  <2>3. ASSUME NEW m \in Members, Lose(m) PROVE Inv'
    BY <2>1, <2>3, LoseKeepsInv
  <2>4. ASSUME NEW m \in Members, Serve(m) PROVE Inv'
    <3>1. ASSUME NEW g, NEW asked, NEW last \in 1..MaxEpoch, IssueLease(m, g, asked, last)
          PROVE  Inv'
      <4>1. last \in Nat
        BY <3>1, SettingsAreSane DEF Inv, TypeInv, MaxEpoch
      <4> QED
        BY <2>1, <3>1, <4>1, IssueLeaseKeepsInv
    <3> QED
      BY <2>1, <2>4, <3>1, AdmitKeepsInv, EvaluateKeepsInv, ReportKeepsInv DEF Serve
  <2>5. CASE Operate
    BY <2>1, <2>5, OperateKeepsInv
  <2> QED
    BY <1>2, <2>2, <2>3, <2>4, <2>5 DEF Next
<1> QED
  BY <1>1, <1>2

\* Inv is an invariant: the state decisions are taken on is at all times the one derived
\* from the evidence on record, the evidence is sound, and every lease lives within one
\* epoch.
THEOREM Invariance == Spec => []Inv
<1>1. Init => Inv
  BY InitHasInv
<1>2. Inv /\ [Next]_vars => Inv'
  BY NextKeepsInv
<1> QED
  BY <1>1, <1>2, PTL DEF Spec

\* What the theorems below use of the invariant.
LEMMA InvFacts ==
  ASSUME Inv
  PROVE  /\ view = View(ConfiguredPolicy, artifacts, observations, leases, replay, tick)
         /\ Sound(artifacts) /\ IsFiniteSet(leases) /\ tick \in Nat
         /\ view.policy = ConfiguredPolicy
         /\ RequiredEndorsements(ConfiguredPolicy) \in Nat
         /\ RequiredDistinctParties(ConfiguredPolicy) \in Nat
<1>1. view = View(ConfiguredPolicy, artifacts, observations, leases, replay, tick)
  BY DEF Inv, ViewInv
<1>2. Sound(artifacts) /\ IsFiniteSet(leases) /\ tick \in Nat
  BY DEF Inv, EvidenceInv, LeaseInv, TypeInv
<1>3. view.policy = StatePolicy(Prepare(artifacts), ConfiguredPolicy)
  BY <1>1, ViewFields
<1>4. view.policy = ConfiguredPolicy
  BY <1>2, <1>3, PreparedIsSound
<1>5. RequiredEndorsements(ConfiguredPolicy) \in Nat /\ RequiredDistinctParties(ConfiguredPolicy) \in Nat
  BY SettingsAreSane DEF Inv, TypeInv, ConfiguredPolicy
<1> QED
  BY <1>1, <1>2, <1>4, <1>5

\* derive_membership: whoever holds authority accepted the constitution that authorises it, in
\* its current lineage, on a proposal by somebody else, for any members, constitutions, policy
\* and number of steps.
THEOREM NeverConscriptedHolds == Spec => []NeverConscripted
<1>1. ASSUME Inv PROVE NeverConscripted
  <2> SUFFICES ASSUME NEW m \in Members \ {Founder0}, LifecycleOf(m) \in Holding
               PROVE  /\ \E a \in Accepted(m) : /\ a.kind = "MembershipAcceptance"
                                                /\ a.issuer = m
                                                /\ a.id.con = view.members[m].current.con
                      /\ \E p \in Accepted(m) : p.kind = "MembershipProposal" /\ p.issuer # m
    BY DEF NeverConscripted
  <2>1. m \in DOMAIN view.members /\ view.members[m].lifecycle \in Holding
    BY DEF LifecycleOf, Holding
  <2> QED
    BY <1>1, <2>1, InvFacts, NobodyIsConscripted DEF Accepted
<1> QED
  BY <1>1, Invariance, PTL

\* derive_membership, decide_locked: a member fenced by the coordinator is not established
\* again in that lineage, whatever is on record, retried or decided later.
THEOREM FenceIsStickyHolds == Spec => []FenceIsSticky
<1>1. ASSUME Inv PROVE FenceIsSticky
  <2> SUFFICES ASSUME NEW m \in Members, NEW f \in Accepted(m), f.kind = "MembershipFence",
                      f.issuer = Coordinator
               PROVE  LifecycleOf(m) \notin Established
    BY DEF FenceIsSticky
  <2>1. CASE m \notin DOMAIN view.members
    BY <2>1 DEF LifecycleOf, Established, Holding
  <2>2. CASE m \in DOMAIN view.members
    <3>1. view.members[m].lifecycle \notin Established
      BY <1>1, <2>2, InvFacts, FencedDoNotStand DEF Accepted
    <3> QED
      BY <2>2, <3>1 DEF LifecycleOf
  <2> QED
    BY <2>1, <2>2
<1> QED
  BY <1>1, Invariance, PTL

\* derive_state's standing fixpoint: no group without the founder vouches for itself into the
\* federation; somebody in it was sponsored, and endorsed as often as the policy asks, by
\* established members outside it.
THEOREM StandingIsGroundedHolds == Spec => []StandingIsGrounded
<1>1. ASSUME Inv PROVE StandingIsGrounded
  <2> SUFFICES ASSUME NEW S, S \subseteq view.established \ {Founder0}, S # {}
               PROVE  \E m \in S :
      /\ OperativeProposal(m, Accepted(m)).issuer \in view.established \ S
      /\ Cardinality({e.issuer : e \in Of(Accepted(m), "MembershipEndorsement")}
                       \intersect (view.established \ S)) >= RequiredEndorsements(view.policy)
    BY DEF StandingIsGrounded
  <2> QED
    BY <1>1, InvFacts, GroupIsVouchedFor DEF Accepted
<1> QED
  BY <1>1, Invariance, PTL

\* derive_state's conflict detection: no two members are granted what one of them holds
\* exclusively.
THEOREM ExclusiveHasOneHolderHolds == Spec => []ExclusiveHasOneHolder
<1>1. ASSUME Inv PROVE ExclusiveHasOneHolder
  <2> SUFFICES ASSUME NEW m \in DOMAIN view.members, NEW n \in DOMAIN view.members, m # n,
                      NEW x \in view.members[m].terms, x.mode = "Exclusive",
                      x.grant \in view.members[m].granted, x.grant \in view.members[n].granted
               PROVE  FALSE
    BY DEF ExclusiveHasOneHolder
  <2> QED
    BY <1>1, InvFacts, ExclusiveIsHeldOnce
<1> QED
  BY <1>1, Invariance, PTL

\* derive_state: what a member withdrew is not granted to it in that lineage again, however
\* often it withdraws it, since withdrawals never quarantine each other.
THEOREM WithdrawalStandsHolds == Spec => []WithdrawalStands
<1>1. ASSUME Inv PROVE WithdrawalStands
  <2> SUFFICES ASSUME NEW m \in DOMAIN view.members,
                      NEW w \in Own(m, Of(artifacts, "DelegationWithdrawal")),
                      w.lineage = view.members[m].lineage,
                      NEW g \in view.members[m].granted
               PROVE  ~GrantsCover(w.what, g)
    BY DEF WithdrawalStands
  <2>1. w \in artifacts /\ w.kind = "DelegationWithdrawal" /\ w.issuer = m
    BY DEF Own, Of
  <2> QED
    BY <1>1, <2>1, InvFacts, WithdrawnIsNotGranted
<1> QED
  BY <1>1, Invariance, PTL

\* derive_state's conflict detection: a grant is withheld from a holder only for a reason
\* about that grant, so a dispute over one grant leaves the others of its claimants alone.
THEOREM DisputeIsContainedHolds == Spec => []DisputeIsContained
<1>1. ASSUME Inv PROVE DisputeIsContained
  <2> SUFFICES ASSUME NEW m \in DOMAIN view.members, LifecycleOf(m) \in Holding,
                      NEW x \in view.members[m].terms, x.grant \in view.members[m].withheld
               PROVE  \/ LifecycleOf(m) = "Degraded" /\ x.grant.verb \in {"mutate", "administer"}
                      \/ GrantsCover(view.members[m].withdrawn, x.grant)
                      \/ ScopeDelegationForbidden(view.policy, x.grant.scope)
                      \/ x.not_after # 0 /\ tick > x.not_after
                      \/ \E n \in DOMAIN view.members :
                           /\ LifecycleOf(n) \in Holding
                           /\ \E u \in view.members[n].terms :
                                (n # m \/ u # x) /\ u.grant = x.grant /\ Disagree(u, x)
    BY DEF DisputeIsContained
  <2>1. \A n \in DOMAIN view.members : LifecycleOf(n) = view.members[n].lifecycle
    BY DEF LifecycleOf
  <2>2. view.members[m].lifecycle \in Holding
    BY <2>1
  <2> QED
    BY <1>1, <2>1, <2>2, InvFacts, DenialIsContained
<1> QED
  BY <1>1, Invariance, PTL

\* What a step does to the evidence: it only grows, and an epoch advance comes alone.
LEMMA EvidenceGrows ==
  ASSUME Inv, [Next]_vars
  PROVE  /\ setting' = setting /\ artifacts \subseteq artifacts'
         /\ \/ Of(artifacts', "EpochAdvance") = Of(artifacts, "EpochAdvance")
            \/ /\ leases' = leases
               /\ \E a : Genuine(a) /\ a.kind = "EpochAdvance" /\ artifacts' = artifacts \union {a}
<1>0. setting' = setting
  BY DEF Next, vars
<1>1. CASE artifacts' = artifacts
  BY <1>0, <1>1
<1>2. ASSUME NEW m \in Members, Admit(m)
      PROVE  artifacts \subseteq artifacts' /\ Of(artifacts', "EpochAdvance") = Of(artifacts, "EpochAdvance")
  <2>1. wire[m].kind \notin {"none", "AuthorityRequest"}
    BY <1>2 DEF Admit
  <2>2. PICK a : a = Arrived(wire[m])
    OBVIOUS
  <2>3. Genuine(a) /\ a.issuer = m /\ a.kind \in MemberKinds
    BY <2>1, <2>2, ArrivedIsGenuine
  <2>4. Sound(artifacts \union {a}) /\ IsFiniteSet(leases) /\ \A l \in leases : l.holder \in Members
    BY <2>3, SoundAdd, CoordinatorIsNil DEF MemberKinds, Inv, EvidenceInv, LeaseInv, ProperLease
  <2>5. PICK o : o = Decide(ConfiguredPolicy, artifacts \union {a}, observations, leases, replay, tick)
    OBVIOUS
  <2>6. Grown(artifacts \union {a}, o.set)
    BY <2>4, <2>5, DecideIsStage DEF Stage
  <2>7. artifacts' = artifacts \/ artifacts' = o.set
    BY <1>2, <2>2, <2>5 DEF Admit
  <2>8. a.kind # "EpochAdvance"
    BY <2>3 DEF MemberKinds
  <2> QED
    BY <2>6, <2>7, <2>8 DEF Grown, Of
<1>3. ASSUME NEW op, NEW a, Command(op, a), a.kind # "EpochAdvance"
      PROVE  artifacts \subseteq artifacts' /\ Of(artifacts', "EpochAdvance") = Of(artifacts, "EpochAdvance")
  <2>1. artifacts' = artifacts \/ artifacts' = artifacts \union {a}
    BY <1>3 DEF Command, Advance, Recordable
  <2> QED
    BY <1>3, <2>1 DEF Of
<1>4. ASSUME NEW e \in Nat \ {0}, NEW reason, AdvanceEpoch(e, reason), artifacts' # artifacts
      PROVE  /\ leases' = leases
             /\ \E a : Genuine(a) /\ a.kind = "EpochAdvance" /\ artifacts' = artifacts \union {a}
  <2>1. PICK a : a = Record("EpochAdvance", Coordinator, Coordinator, 0, e, NoIdentity, reason, NoStamp)
    OBVIOUS
  <2>2. leases' = leases /\ artifacts' = artifacts \union Recordable(artifacts, {a})
    BY <1>4, <2>1 DEF AdvanceEpoch, Command, Advance
  <2>3. artifacts' = artifacts \union {a}
    BY <1>4, <2>2 DEF Recordable
  <2>4. Genuine(a) /\ a.kind = "EpochAdvance"
    BY <2>1 DEF Genuine, Record
  <2> QED
    BY <2>2, <2>3, <2>4
<1>5. ASSUME NEW m, FenceMember(m)
      PROVE  artifacts \subseteq artifacts' /\ Of(artifacts', "EpochAdvance") = Of(artifacts, "EpochAdvance")
  <2>1. PICK a : a = Record("MembershipFence", m, Coordinator, view.members[m].lineage,
                            view.epoch, NoIdentity, "operator", NoStamp)
    OBVIOUS
  <2>2. Command("fence", a) /\ a.kind # "EpochAdvance"
    BY <1>5, <2>1 DEF FenceMember, Record
  <2> QED
    BY <1>3, <2>2
<1>6. ASSUME NEW m, RetireMember(m)
      PROVE  artifacts \subseteq artifacts' /\ Of(artifacts', "EpochAdvance") = Of(artifacts, "EpochAdvance")
  <2>1. PICK a : a = Record("MembershipRetirement", m, Coordinator, view.members[m].lineage,
                            view.epoch, NoIdentity, "operator", NoStamp)
    OBVIOUS
  <2>2. Command("retire", a) /\ a.kind # "EpochAdvance"
    BY <1>6, <2>1 DEF RetireMember, Record
  <2> QED
    BY <1>3, <2>2
<1>7. ASSUME NEW e, CompleteReconciliation(e)
      PROVE  artifacts \subseteq artifacts' /\ Of(artifacts', "EpochAdvance") = Of(artifacts, "EpochAdvance")
  <2>1. PICK a : a = Record("ReconciliationComplete", Coordinator, Coordinator, 0, e, NoIdentity, {}, NoStamp)
    OBVIOUS
  <2>2. Command("reconcile", a) /\ a.kind # "EpochAdvance"
    BY <1>7, <2>1 DEF CompleteReconciliation, Record
  <2> QED
    BY <1>3, <2>2
<1>8. CASE UNCHANGED vars
  BY <1>1, <1>8 DEF vars
<1>9. ASSUME NEW m \in Members, Issue(m) PROVE artifacts' = artifacts
  BY <1>9 DEF Issue, Propose, Endorse, Accept, Leave, SelfFence, Withdraw, DeclareDelegation, Reattest,
              RestartWithNewIncarnation, Reconfigure, RequestAuthority, Build, Send
<1>10. ASSUME NEW m \in Members, Lose(m) PROVE artifacts' = artifacts
  BY <1>10 DEF Lose
<1>11. ASSUME NEW m \in Members, Serve(m), ~Admit(m) PROVE artifacts' = artifacts
  BY <1>11 DEF Serve, Evaluate, IssueLease, ReportObservation, Advance
<1>12. ASSUME Operate, artifacts' # artifacts
       PROVE  /\ artifacts \subseteq artifacts'
              /\ \/ Of(artifacts', "EpochAdvance") = Of(artifacts, "EpochAdvance")
                 \/ /\ leases' = leases
                    /\ \E a : Genuine(a) /\ a.kind = "EpochAdvance" /\ artifacts' = artifacts \union {a}
  <2>1. MaxEpoch \in Nat
    BY SettingsAreSane DEF Inv, TypeInv, MaxEpoch
  <2>2. \A e \in 2..MaxEpoch : e \in Nat \ {0}
    BY <2>1
  <2>3. ASSUME NEW e \in 2..MaxEpoch, NEW reason \in Reasons, AdvanceEpoch(e, reason)
        PROVE  /\ leases' = leases
               /\ \E a : Genuine(a) /\ a.kind = "EpochAdvance" /\ artifacts' = artifacts \union {a}
    BY <1>4, <1>12, <2>2, <2>3
  <2> QED
    BY <1>5, <1>6, <1>7, <1>12, <2>3 DEF Operate
<1>13. CASE Next
  BY <1>0, <1>1, <1>2, <1>9, <1>10, <1>11, <1>12, <1>13 DEF Next
<1> QED
  BY <1>8, <1>13

\* advance_epoch: the step that moves the epoch takes nobody's standing away.
THEOREM EpochKeepsStandingHolds == Spec => EpochKeepsStanding
<1>1. ASSUME Inv, Inv', [Next]_vars, view'.epoch > view.epoch
      PROVE  view.established \subseteq view'.established
  <2>1. view.epoch = CurrentEpoch(artifacts) /\ view.epoch \in Nat
    BY <1>1, ViewEpoch
  <2>2. view' = View(setting.policy, artifacts', observations', leases', replay', tick') /\ Sound(artifacts')
    BY <1>1, EvidenceGrows DEF Inv, ViewInv, EvidenceInv, ConfiguredPolicy
  <2>3. view'.epoch = CurrentEpoch(artifacts')
    <3>1. view'.epoch = CurrentEpoch(Prepare(artifacts'))
      BY <2>2, ViewFields
    <3> QED
      BY <2>2, <3>1, AdvancesAreKept DEF Sound
  <2>4. Of(artifacts', "EpochAdvance") # Of(artifacts, "EpochAdvance")
    <3>1. Of(artifacts', "EpochAdvance") = Of(artifacts, "EpochAdvance") => CurrentEpoch(artifacts') = CurrentEpoch(artifacts)
      BY DEF CurrentEpoch
    <3> QED
      BY <1>1, <2>1, <2>3, <3>1
  <2>5. PICK a : leases' = leases /\ Genuine(a) /\ a.kind = "EpochAdvance" /\ artifacts' = artifacts \union {a}
    BY <1>1, <2>4, EvidenceGrows
  <2>6. PICK policy, A, ls : policy = ConfiguredPolicy /\ A = artifacts /\ ls = leases
    OBVIOUS
  <2>7. /\ Sound(A) /\ RequiredEndorsements(policy) \in Nat /\ RequiredDistinctParties(policy) \in Nat
        /\ view = View(policy, A, observations, ls, replay, tick)
    BY <1>1, <2>6, InvFacts
  <2>8. view' = View(policy, A \union {a}, observations', ls, replay', tick') /\ Sound(A \union {a})
    BY <2>2, <2>5, <2>6 DEF ConfiguredPolicy
  <2>9. view.established = StandingFixpoint(Prepare(A), policy, Subjects(Prepare(A), ls))
    BY <2>7, ViewFields, PreparedIsSound
  <2>10. view'.established = StandingFixpoint(Prepare(A \union {a}), policy, Subjects(Prepare(A \union {a}), ls))
    BY <2>8, ViewFields, PreparedIsSound
  <2> QED
    BY <2>5, <2>7, <2>9, <2>10, AdvanceKeepsStanding
<1>2. Inv /\ Inv' /\ [Next]_vars => [view'.epoch > view.epoch => view.established \subseteq view'.established]_vars
  BY <1>1
<1> QED
  BY <1>2, Invariance, PTL DEF Spec, EpochKeepsStanding

\* The federation is founded once, and no lease is forgotten.
LEMMA StepAdds ==
  ASSUME Inv, [Next]_vars
  PROVE  leases \subseteq leases' /\ \A b \in artifacts' \ artifacts : b.kind # "FederationGenesis"
<1>1. ASSUME NEW m \in Members, Admit(m)
      PROVE  leases' = leases /\ \A b \in artifacts' \ artifacts : b.kind # "FederationGenesis"
  <2>1. wire[m].kind \notin {"none", "AuthorityRequest"} /\ leases' = leases
    BY <1>1 DEF Admit
  <2>2. PICK a : a = Arrived(wire[m])
    OBVIOUS
  <2>3. Genuine(a) /\ a.issuer = m /\ a.kind \in MemberKinds
    BY <2>1, <2>2, ArrivedIsGenuine
  <2>4. Sound(artifacts \union {a}) /\ IsFiniteSet(leases) /\ \A l \in leases : l.holder \in Members
    BY <2>3, SoundAdd, CoordinatorIsNil DEF MemberKinds, Inv, EvidenceInv, LeaseInv, ProperLease
  <2>5. PICK o : o = Decide(ConfiguredPolicy, artifacts \union {a}, observations, leases, replay, tick)
    OBVIOUS
  <2>6. Grown(artifacts \union {a}, o.set)
    BY <2>4, <2>5, DecideIsStage DEF Stage
  <2>7. artifacts' = artifacts \/ artifacts' = o.set
    BY <1>1, <2>2, <2>5 DEF Admit
  <2> QED
    BY <2>1, <2>3, <2>6, <2>7 DEF Grown, MemberKinds
<1>2. ASSUME NEW op, NEW a, Command(op, a), a.kind # "FederationGenesis"
      PROVE  leases' = leases /\ \A b \in artifacts' \ artifacts : b.kind # "FederationGenesis"
  BY <1>2 DEF Command, Advance, Recordable
<1>3. \A kind, subject, issuer, lineage, epoch, id, what, at :
         Record(kind, subject, issuer, lineage, epoch, id, what, at).kind = kind
  BY DEF Record
<1>4. CASE Operate
  <2>1. ASSUME NEW m, FenceMember(m)
        PROVE  leases' = leases /\ \A b \in artifacts' \ artifacts : b.kind # "FederationGenesis"
    BY <1>2, <1>3, <2>1 DEF FenceMember
  <2>2. ASSUME NEW m, RetireMember(m)
        PROVE  leases' = leases /\ \A b \in artifacts' \ artifacts : b.kind # "FederationGenesis"
    BY <1>2, <1>3, <2>2 DEF RetireMember
  <2>3. ASSUME NEW e, NEW reason, AdvanceEpoch(e, reason)
        PROVE  leases' = leases /\ \A b \in artifacts' \ artifacts : b.kind # "FederationGenesis"
    BY <1>2, <1>3, <2>3 DEF AdvanceEpoch
  <2>4. ASSUME NEW e, CompleteReconciliation(e)
        PROVE  leases' = leases /\ \A b \in artifacts' \ artifacts : b.kind # "FederationGenesis"
    BY <1>2, <1>3, <2>4 DEF CompleteReconciliation
  <2> QED
    BY <1>4, <2>1, <2>2, <2>3, <2>4 DEF Operate
<1>5. ASSUME NEW m \in Members, Issue(m) PROVE artifacts' = artifacts /\ leases' = leases
  BY <1>5 DEF Issue, Propose, Endorse, Accept, Leave, SelfFence, Withdraw, DeclareDelegation, Reattest,
              RestartWithNewIncarnation, Reconfigure, RequestAuthority, Build, Send
<1>6. ASSUME NEW m \in Members, Serve(m), ~Admit(m) PROVE artifacts' = artifacts /\ leases \subseteq leases'
  BY <1>6 DEF Serve, Evaluate, IssueLease, ReportObservation, Advance
<1>7. ASSUME NEW m \in Members, Lose(m) PROVE artifacts' = artifacts /\ leases' = leases
  BY <1>7 DEF Lose
<1>8. CASE UNCHANGED vars
  BY <1>8 DEF vars
<1>9. CASE Next
  BY <1>1, <1>4, <1>5, <1>6, <1>7, <1>9 DEF Next
<1> QED
  BY <1>8, <1>9

\* The members that are derived are no more than kMaxMembers.
LEMMA SubjectsAreBounded ==
  ASSUME NEW A, Sound(A), NEW ls, IsFiniteSet(ls), \A l \in ls : l.holder \in Members
  PROVE  LET subjects == Subjects(Prepare(A), ls)
         IN  IsFiniteSet(subjects) /\ Cardinality(subjects) <= MaxMembers
<1> DEFINE subjects == Subjects(Prepare(A), ls)
<1>1. subjects \subseteq Members
  BY SubjectsAreMembers DEF Sound
<1> HIDE DEF subjects
<1>2. IsFiniteSet(subjects) /\ Cardinality(subjects) <= Cardinality(Members)
  BY <1>1, MembersAreBounded, FS_Subset
<1>3. Cardinality(subjects) \in Nat /\ Cardinality(Members) \in Nat /\ MaxMembers \in Nat
  BY <1>2, MembersAreBounded, FS_CardinalityType, PolicyBounds
<1>4. Cardinality(subjects) <= MaxMembers
  BY <1>2, <1>3, MembersAreBounded
<1> QED
  BY <1>2, <1>4 DEF subjects

\* assess_multi_party, derive_state's fixpoint: whatever step is taken, a group of members that
\* loses its standing has somebody that evidence of that step is about, or whose sponsor or
\* endorser, outside the group, loses its own.  A fence, a leave, a retirement or a changed
\* constitution reaches those that its subject vouched for, and no others.
THEOREM LossIsContainedHolds == Spec => LossIsContained
<1>1. ASSUME Inv, Inv', [Next]_vars, NEW S, S \subseteq Lost, S # {}
      PROVE  \E n \in S :
               \/ \E a \in artifacts' \ artifacts : a.subject = n
               \/ OperativeProposal(n, Accepted(n)).issuer \in Lost \ S
               \/ \E e \in Of(Accepted(n), "MembershipEndorsement") : e.issuer \in Lost \ S
  <2>1. PICK A, B, ls, ks, policy :
             A = artifacts /\ B = artifacts' /\ ls = leases /\ ks = leases' /\ policy = setting.policy
    OBVIOUS
  <2>2. /\ view = View(policy, A, observations, ls, replay, tick) /\ Sound(A)
        /\ RequiredEndorsements(policy) \in Nat /\ RequiredDistinctParties(policy) \in Nat
    BY <1>1, <2>1, InvFacts DEF ConfiguredPolicy
  <2>3. /\ view' = View(policy, B, observations', ks, replay', tick') /\ Sound(B)
        /\ IsFiniteSet(ks) /\ \A l \in ks : l.holder \in Members
    BY <1>1, <2>1, EvidenceGrows DEF Inv, ViewInv, EvidenceInv, LeaseInv, ProperLease, ConfiguredPolicy
  <2>4. A \subseteq B /\ ls \subseteq ks /\ \A b \in B \ A : b.kind # "FederationGenesis"
    BY <1>1, <2>1, EvidenceGrows, StepAdds
  <2>5. PICK D, E : D = view.established /\ E = view'.established
    OBVIOUS
  <2>6. D = StandingFixpoint(Prepare(A), policy, Subjects(Prepare(A), ls))
    BY <2>2, <2>5, ViewFields, PreparedIsSound
  <2>7. E = StandingFixpoint(Prepare(B), policy, Subjects(Prepare(B), ks))
    BY <2>3, <2>5, ViewFields, PreparedIsSound
  <2>8. IsFiniteSet(Subjects(Prepare(B), ks)) /\ Cardinality(Subjects(Prepare(B), ks)) <= MaxMembers
    BY <2>3, SubjectsAreBounded
  <2>9. S \subseteq D \ E
    BY <1>1, <2>5 DEF Lost
  <2>10. PICK n \in S :
           LET C == InLineage(n, BySubject(Prepare(A), n))
           IN  \/ \E b \in B \ A : b.subject = n
               \/ OperativeProposal(n, C).issuer \in (D \ E) \ S
               \/ \E e \in Of(C, "MembershipEndorsement") : e.issuer \in (D \ E) \ S
    BY <1>1, <2>2, <2>3, <2>4, <2>6, <2>7, <2>8, <2>9, LossHasCause
  <2> QED
    BY <2>1, <2>5, <2>10 DEF Accepted, Lost
<1>2. Inv /\ Inv' /\ [Next]_vars =>
        [\A S \in SUBSET Lost : S # {} =>
           \E n \in S :
             \/ \E a \in artifacts' \ artifacts : a.subject = n
             \/ OperativeProposal(n, Accepted(n)).issuer \in Lost \ S
             \/ \E e \in Of(Accepted(n), "MembershipEndorsement") : e.issuer \in Lost \ S]_vars
  BY <1>1
<1> QED
  BY <1>2, Invariance, PTL DEF Spec, LossIsContained

\* kMaxDerivationRounds is enough (derive_state): the standing fixpoint always converges, and
\* the members that stand are the least set that the derivation does not add to.  The reason
\* "the established-member fixpoint did not converge within the configured bound" is never
\* given, and no cycle of members that vouch for each other stands.
StandingConverges ==
  LET P == Prepare(artifacts)
      step(X) == StandingStep(P, view.policy, Subjects(P, leases), X)
  IN  /\ step(view.established) = view.established
      /\ \A X : step(X) \subseteq X => view.established \subseteq X

\* derive_state: in every reachable state the standing set is the least fixed point of one
\* round of the derivation.
THEOREM StandingConvergesHolds == Spec => []StandingConverges
<1>1. ASSUME Inv PROVE StandingConverges
  <2>1. PICK A, ls, policy : A = artifacts /\ ls = leases /\ policy = view.policy
    OBVIOUS
  <2>2. /\ Sound(A) /\ IsFiniteSet(ls) /\ \A l \in ls : l.holder \in Members
        /\ RequiredEndorsements(policy) \in Nat /\ RequiredDistinctParties(policy) \in Nat
    BY <1>1, <2>1, InvFacts DEF Inv, LeaseInv, ProperLease
  <2>3. view.established = StandingFixpoint(Prepare(A), policy, Subjects(Prepare(A), ls))
    BY <1>1, <2>1, InvFacts, ViewFields
  <2>4. IsFiniteSet(Subjects(Prepare(A), ls)) /\ Cardinality(Subjects(Prepare(A), ls)) <= MaxMembers
    BY <2>2, SubjectsAreBounded
  <2>5. PICK P, subjects : P = Prepare(A) /\ subjects = Subjects(P, ls)
    OBVIOUS
  <2>6. IsFiniteSet(P)
    BY <2>2, <2>5, PreparedIsSound
  <2>7. StandingStep(P, policy, subjects, view.established) = view.established
    BY <2>2, <2>3, <2>4, <2>5, <2>6, RoundsConverge
  <2>8. ASSUME NEW X, StandingStep(P, policy, subjects, X) \subseteq X
        PROVE  view.established \subseteq X
    BY <2>2, <2>3, <2>5, <2>6, <2>8, FixpointIsLeast
  <2> QED
    BY <2>1, <2>5, <2>7, <2>8 DEF StandingConverges
<1> QED
  BY <1>1, Invariance, PTL

\* A decision changes only when evaluate_authority answers its member.
LEMMA DecisionIsEvaluated ==
  ASSUME Inv, [Next]_vars, NEW m \in Members, decision'[m] # decision[m]
  PROVE  Evaluate(m)
<1>1. ~UNCHANGED decision
  OBVIOUS
<1>2. Next
  BY <1>1 DEF vars
<1>3. ~Operate
  BY <1>1 DEF Operate, FenceMember, RetireMember, AdvanceEpoch, CompleteReconciliation, Command
<1>4. PICK n \in Members : Issue(n) \/ Lose(n) \/ Serve(n)
  BY <1>2, <1>3 DEF Next
<1>5. ~Issue(n)
  BY <1>1 DEF Issue, Propose, Endorse, Accept, Leave, SelfFence, Withdraw, DeclareDelegation, Reattest,
              RestartWithNewIncarnation, Reconfigure, RequestAuthority, Build, Send
<1>6. ~Lose(n)
  BY <1>1 DEF Lose
<1>7. Evaluate(n)
  BY <1>1, <1>4, <1>5, <1>6 DEF Serve, Admit, IssueLease, ReportObservation
<1>8. PICK x : decision' = [decision EXCEPT ![n] = x]
  BY <1>7 DEF Evaluate
<1>9. n = m
  BY <1>8 DEF Inv, TypeInv
<1> QED
  BY <1>7, <1>9

\* Every lifecycle that is not holding has an outcome of its own in evaluate_authority.
LEMMA LifecycleValues ==
  ASSUME NEW m, NEW C, NEW f, NEW ctx
  PROVE  Lifecycle(m, C, f, ctx) \in DOMAIN LifecycleOutcome \union Holding
  BY DEF Lifecycle, LifecycleOutcome, Holding

\* What a granted request for federation authority has passed.
LEMMA GrantedRequest ==
  ASSUME NEW r, NEW v, NEW policy, EvaluateAuthority(r, v, policy) = "Granted",
         Classify(r.grant.scope) # "Local", r.epoch \in Nat, v.epoch \in Nat,
         \A m \in DOMAIN v.members : v.members[m].lifecycle \in DOMAIN LifecycleOutcome \union Holding
  PROVE  /\ r.epoch = v.epoch
         /\ r.member \in DOMAIN v.members
         /\ v.members[r.member].lifecycle \in Holding
         /\ v.members[r.member].current.inc = r.actor.inc
         /\ GrantsCover(v.members[r.member].granted, r.grant)
         /\ LeaseOutcome(r, v, policy) = "Valid"
         /\ Classify(r.grant.scope) = "GlobalMutation" => ~Suspended(policy, v.reconciling, v.partition)
<1> DEFINE member == v.members[r.member]
<1>1. r.epoch = v.epoch /\ Classify(r.grant.scope) # "Unknown" /\ r.member \in DOMAIN v.members
  BY DEF EvaluateAuthority
<1>2. member.lifecycle \in Holding
  <2>1. member.lifecycle \notin Holding => LifecycleOutcome[member.lifecycle] = "Granted"
    BY <1>1 DEF EvaluateAuthority
  <2>2. member.lifecycle \in DOMAIN LifecycleOutcome \union Holding
    BY <1>1
  <2>3. \A x \in DOMAIN LifecycleOutcome : LifecycleOutcome[x] # "Granted"
    BY DEF LifecycleOutcome
  <2> QED
    BY <2>1, <2>2, <2>3
<1>3. CompareIdentities(member.current, r.actor) = "None"
  BY <1>1, <1>2 DEF EvaluateAuthority
<1>4. GrantsCover(member.granted, r.grant)
  BY <1>1, <1>2, <1>3 DEF EvaluateAuthority, NotHeldOutcome
<1>5. LeaseOutcome(r, v, policy) \in {"Valid", "Refused", "Fenced", "Stale"}
  BY DEF LeaseOutcome
<1>6. LeaseOutcome(r, v, policy) = "Valid" /\ HeldOutcome(r, Classify(r.grant.scope), v, policy) = "Granted"
  BY <1>1, <1>2, <1>3, <1>4, <1>5 DEF EvaluateAuthority
<1> QED
  BY <1>1, <1>2, <1>3, <1>4, <1>6 DEF CompareIdentities, HeldOutcome

\* The lease that a request needed and had.
LEMMA LeaseMeans ==
  ASSUME NEW r, NEW policy, NEW v, NEW ls, NEW epoch \in Nat, NEW now,
         v.leases = LeaseViews(ls, epoch, now), LeaseRequired(policy, r.grant),
         LeaseOutcome(r, v, policy) = "Valid", now \in Nat, \A l \in ls : ProperLease(l)
  PROVE  \E l \in ls : /\ l.id = r.lease /\ l.holder = r.member /\ l.inc = r.actor.inc
                       /\ epoch \in l.issued_epoch..l.not_after_epoch /\ now <= l.not_after
                       /\ GrantsCover(l.scopes, r.grant)
<1> DEFINE found == {w \in v.leases : w.lease.id = r.lease}
<1>1. found # {}
  BY DEF LeaseOutcome
<1>2. PICK w : w = CHOOSE x \in found : TRUE
  OBVIOUS
<1>3. w \in found
  BY <1>1, <1>2
<1>4. /\ w.lease.holder = r.member /\ w.lease.inc = r.actor.inc /\ w.state = "Valid"
      /\ GrantsCover(w.lease.scopes, r.grant)
  BY <1>1, <1>2 DEF LeaseOutcome
<1>5. PICK l \in ls : w = [lease |-> l, state |-> LeaseStateAt(l, epoch, now)]
  BY <1>3 DEF LeaseViews
<1>6. w.lease = l /\ LeaseStateAt(l, epoch, now) = "Valid" /\ l.id = r.lease
  BY <1>3, <1>4, <1>5
<1>7. epoch \in l.issued_epoch..l.not_after_epoch /\ now <= l.not_after
  BY <1>6 DEF LeaseStateAt, ProperLease
<1> QED
  BY <1>4, <1>6, <1>7

\* What the invariant says of a request that is being evaluated.
LEMMA EvaluatedRequest ==
  ASSUME Inv, NEW m \in Members, Evaluate(m), decision'[m].outcome = "Granted",
         OfFederation(decision'[m].request.grant)
  PROVE  LET r == wire[m]
         IN  /\ decision'[m].request = r
             /\ r.member = m /\ r.actor = Identity(m) /\ r.epoch \in Nat
             /\ EvaluateAuthority(r, view, ConfiguredPolicy) = "Granted"
             /\ Classify(r.grant.scope) # "Local"
             /\ \A n \in DOMAIN view.members :
                  view.members[n].lifecycle \in DOMAIN LifecycleOutcome \union Holding
<1>1. decision'[m] = [request |-> wire[m], outcome |-> EvaluateAuthority(wire[m], view, ConfiguredPolicy)]
  BY DEF Evaluate, Inv, TypeInv
<1>2. wire[m].kind = "AuthorityRequest" /\ Sent(m)
  BY DEF Evaluate, Inv, EvidenceInv
<1>3. ASSUME NEW n \in DOMAIN view.members
      PROVE  view.members[n].lifecycle \in DOMAIN LifecycleOutcome \union Holding
  <2>1. PICK ctx : \A k \in DOMAIN view.members :
          view.members[k].lifecycle = DeriveMembership(k, BySubject(Prepare(artifacts), k), ctx).lifecycle
    BY InvFacts, ViewMembers
  <2>2. PICK A : A = BySubject(Prepare(artifacts), n)
    OBVIOUS
  <2>3. view.members[n].lifecycle = DeriveMembership(n, A, ctx).lifecycle
    BY <2>1, <2>2
  <2>4. DeriveMembership(n, A, ctx).lifecycle = Lifecycle(n, InLineage(n, A), Facts(n, InLineage(n, A), ctx), ctx)
    BY DerivedFields
  <2> QED
    BY <2>3, <2>4, LifecycleValues
<1> QED
  BY <1>1, <1>2, <1>3 DEF Sent, OfFederation

\* evaluate_authority: where the policy requires a lease, a federation grant is given only on
\* a lease of the same member and incarnation, issued for epochs that include the current one,
\* not expired, that covers the grant.
THEOREM LeaseBacksGrantHolds == Spec => LeaseBacksGrant
<1> DEFINE Backed(m) ==
       /\ decision'[m] # decision[m]
       /\ decision'[m].outcome = "Granted"
       /\ OfFederation(decision'[m].request.grant)
       /\ LeaseRequired(ConfiguredPolicy, decision'[m].request.grant)
       => \E l \in leases : /\ l.id = decision'[m].request.lease
                            /\ l.holder = m
                            /\ l.inc = rt[m].inc
                            /\ view.epoch \in l.issued_epoch..l.not_after_epoch
                            /\ tick <= l.not_after
                            /\ GrantsCover(l.scopes, decision'[m].request.grant)
<1>1. ASSUME Inv, [Next]_vars, NEW m \in Members
      PROVE  Backed(m)
  <2> SUFFICES ASSUME decision'[m] # decision[m], decision'[m].outcome = "Granted",
                      OfFederation(decision'[m].request.grant),
                      LeaseRequired(ConfiguredPolicy, decision'[m].request.grant)
               PROVE  \E l \in leases : /\ l.id = decision'[m].request.lease
                            /\ l.holder = m
                            /\ l.inc = rt[m].inc
                            /\ view.epoch \in l.issued_epoch..l.not_after_epoch
                            /\ tick <= l.not_after
                            /\ GrantsCover(l.scopes, decision'[m].request.grant)
    OBVIOUS
  <2>1. Evaluate(m)
    BY <1>1, DecisionIsEvaluated
  <2>2. PICK r, v, policy : r = wire[m] /\ v = view /\ policy = ConfiguredPolicy
    OBVIOUS
  <2>3. /\ decision'[m].request = r /\ r.member = m /\ r.actor = Identity(m) /\ r.epoch \in Nat
        /\ EvaluateAuthority(r, v, policy) = "Granted" /\ Classify(r.grant.scope) # "Local"
        /\ \A n \in DOMAIN v.members : v.members[n].lifecycle \in DOMAIN LifecycleOutcome \union Holding
    BY <1>1, <2>1, <2>2, EvaluatedRequest
  <2>4. v.epoch \in Nat /\ v.leases = LeaseViews(leases, v.epoch, tick)
    BY <1>1, <2>2, ViewEpoch, InvFacts, ViewFields
  <2>5. LeaseOutcome(r, v, policy) = "Valid"
    BY <2>3, <2>4, GrantedRequest
  <2>6. \A l \in leases : ProperLease(l)
    BY <1>1 DEF Inv, LeaseInv
  <2>7. PICK l \in leases : /\ l.id = r.lease /\ l.holder = r.member /\ l.inc = r.actor.inc
                            /\ v.epoch \in l.issued_epoch..l.not_after_epoch /\ tick <= l.not_after
                            /\ GrantsCover(l.scopes, r.grant)
    BY <1>1, <2>2, <2>3, <2>4, <2>5, <2>6, LeaseMeans, InvFacts
  <2> QED
    BY <2>2, <2>3, <2>7 DEF Identity
<1>2. Inv /\ [Next]_vars => [\A m \in Members : Backed(m)]_vars
  BY <1>1
<1> QED
  BY <1>2, Invariance, PTL DEF Spec, LeaseBacksGrant

\* A grant that is held names a federation scope exactly, and no withdrawal covers it.
LEMMA HeldGrant ==
  ASSUME NEW policy, NEW A, NEW obs, NEW ls, NEW rp, NEW t, NEW m,
         m \in DOMAIN View(policy, A, obs, ls, rp, t).members,
         NEW g \in View(policy, A, obs, ls, rp, t).members[m].granted
  PROVE  /\ Classify(g.scope) # "Unknown"
         /\ \A w \in InLineage(m, BySubject(Prepare(A), m)) :
              w.kind = "DelegationWithdrawal" /\ w.issuer = m => ~GrantsCover(w.what, g)
<1> DEFINE P == Prepare(A)
           v == View(policy, A, obs, ls, rp, t)
           C == InLineage(m, BySubject(P, m))
           in == Inputs(policy, obs, ls, rp, t)
<1>1. PICK ctx :
        /\ v = WithMembers(ctx, AllDerived(P, ctx, ls), in)
        /\ DOMAIN v.members = Subjects(P, ls)
  <2> HIDE DEF v, in
  <2> QED  BY ViewMembers DEF v, in
<1> DEFINE D == AllDerived(P, ctx, ls)
           d == DeriveMembership(m, BySubject(P, m), ctx)
<1>2. DOMAIN D = Subjects(P, ls) /\ D[m] = d
  BY <1>1 DEF AllDerived
<1>3. d.withdrawn = WithdrawnGrants(m, C)
  BY DerivedFields
<1> HIDE DEF D, d, v, in, P, C
<1>4. g \in Grants([x \in D[m].terms |-> Disposition(m, D[m], x, Claims(D), ctx.policy,
                      ctx.reconciling, ctx.partition, in.now)], "granted")
  <2>1. m \in DOMAIN D /\ g \in WithMembers(ctx, D, in).members[m].granted
    BY <1>1, <1>2 DEF v, D
  <2> QED
    BY <2>1, StateFields
<1>5. PICK x \in D[m].terms : x.grant = g /\ ~Withheld(m, D[m], x, Claims(D), ctx.policy, in.now)
  BY <1>4, GrantedMeans
<1>6. Classify(g.scope) # "Unknown" /\ ~GrantsCover(D[m].withdrawn, g)
  BY <1>5 DEF Withheld
<1>7. ASSUME NEW w \in C, w.kind = "DelegationWithdrawal", w.issuer = m PROVE ~GrantsCover(w.what, g)
  <2>1. w.what \subseteq D[m].withdrawn
    BY <1>2, <1>3, <1>7 DEF WithdrawnGrants, Own, Of
  <2> QED
    BY <1>6, <2>1 DEF GrantsCover
<1> QED
  BY <1>6, <1>7 DEF C, P

\* What a grant that is not a pattern covers, itself.
LEMMA ExactGrant ==
  ASSUME NEW G, NEW q, GrantsCover(G, q), \A g \in G : Classify(g.scope) # "Unknown"
  PROVE  \E g \in G : g.verb = q.verb /\ g.scope = q.scope
<1>1. PICK g \in G : g.verb = q.verb /\ Covers(g.scope, q.scope)
  BY DEF GrantsCover
<1>2. ~IsWildcard(g.scope)
  BY DEF Classify
<1>3. g.scope = q.scope
  BY <1>1, <1>2 DEF Covers, IsWildcard
<1> QED
  BY <1>1, <1>3

\* What a holder's evidence is like when it is granted something.
LEMMA HolderEvidence ==
  ASSUME NEW policy, NEW A, NEW obs, NEW ls, NEW rp, NEW t, Sound(A), NEW m \in Members,
         RequiredEndorsements(policy) \in Nat, RequiredDistinctParties(policy) \in Nat,
         m \in DOMAIN View(policy, A, obs, ls, rp, t).members,
         View(policy, A, obs, ls, rp, t).members[m].lifecycle \in Holding
  PROVE  LET C == InLineage(m, BySubject(Prepare(A), m))
             v == View(policy, A, obs, ls, rp, t)
             inc == v.members[m].current.inc
         IN  /\ \A a \in C : a.kind # "MembershipLeave"
             /\ \/ inc = 1
                \/ \E a \in C : /\ a.kind \in {"MemberReattestation", "MembershipAcceptance"}
                                /\ a.issuer = m /\ a.id.inc = inc
             /\ v.partition \in {"Connected", "Split", "Indeterminate"}
<1> DEFINE P == Prepare(A)
           v == View(policy, A, obs, ls, rp, t)
           B == BySubject(P, m)
           C == InLineage(m, B)
<1>1. PICK ctx :
        /\ ViewContext(ctx, policy, P, ls) /\ v.partition = ctx.partition
        /\ DOMAIN v.members = Subjects(P, ls)
        /\ v.members[m].lifecycle = DeriveMembership(m, B, ctx).lifecycle
        /\ v.members[m].current = DeriveMembership(m, B, ctx).current
  <2> HIDE DEF v
  <2> QED  BY ViewMembers DEF v
<1>2. DeriveMembership(m, B, ctx).lifecycle \in Holding /\ m \in Subjects(P, ls)
  BY <1>1
<1>3. DeriveMembership(m, B, ctx).lifecycle = Lifecycle(m, C, Facts(m, C, ctx), ctx)
  BY DerivedFields
<1>4. \A a \in C : a.kind # "MembershipLeave"
  <2>1. PICK f : f = Facts(m, C, ctx)
    OBVIOUS
  <2>2. Lifecycle(m, C, f, ctx) \in Established
    BY <1>2, <1>3, <2>1 DEF Established
  <2>3. Of(C, "MembershipLeave") = {}
    <3> HIDE DEF C
    <3> QED BY <2>2, HoldingMeans
  <2> QED
    BY <2>3 DEF Of
<1>5. m # Coordinator
  BY CoordinatorIsNil
<1>6. \/ v.members[m].current.inc = 1
      \/ \E a \in C : /\ a.kind \in {"MemberReattestation", "MembershipAcceptance"}
                      /\ a.issuer = m /\ a.id.inc = v.members[m].current.inc
  <2>1. ctx.founder = Founder(P) /\ ctx.founderId = FounderIdentity(P)
    BY <1>1 DEF ViewContext
  <2> HIDE DEF v
  <2> QED
    BY <1>1, <1>2, <1>5, <2>1, CurrentIsHeard
<1>7. ctx.established # {}
  BY <1>1, <1>2, HolderIsNotAlone
<1>8. v.partition \in {"Connected", "Split", "Indeterminate"}
  BY <1>1, <1>7 DEF ViewContext
<1> QED
  BY <1>4, <1>6, <1>8

\* evaluate_authority: a federation grant is given only to the newest incarnation heard of, in
\* the current epoch, of a member that holds authority, did not leave and did not withdraw
\* what it asks for, and not for a global mutation that the policy suspends.
THEOREM GrantIsWarrantedHolds == Spec => GrantIsWarranted
<1> DEFINE Just(m) ==
       /\ decision'[m] # decision[m]
       /\ decision'[m].outcome = "Granted"
       /\ OfFederation(decision'[m].request.grant)
       => Warranted(decision'[m].request)
<1>1. ASSUME Inv, [Next]_vars, NEW m \in Members
      PROVE  Just(m)
  <2> SUFFICES ASSUME decision'[m] # decision[m], decision'[m].outcome = "Granted",
                      OfFederation(decision'[m].request.grant)
               PROVE  Warranted(decision'[m].request)
    OBVIOUS
  <2>1. Evaluate(m)
    BY <1>1, DecisionIsEvaluated
  <2>2. PICK r, v, policy : r = wire[m] /\ v = view /\ policy = ConfiguredPolicy
    OBVIOUS
  <2>3. /\ decision'[m].request = r /\ r.member = m /\ r.actor = Identity(m) /\ r.epoch \in Nat
        /\ EvaluateAuthority(r, v, policy) = "Granted" /\ Classify(r.grant.scope) # "Local"
        /\ \A n \in DOMAIN v.members : v.members[n].lifecycle \in DOMAIN LifecycleOutcome \union Holding
    BY <1>1, <2>1, <2>2, EvaluatedRequest
  <2>4. v.epoch \in Nat
    BY <1>1, <2>2, ViewEpoch
  <2>5. /\ r.epoch = v.epoch
        /\ m \in DOMAIN v.members
        /\ v.members[m].lifecycle \in Holding
        /\ v.members[m].current.inc = r.actor.inc
        /\ GrantsCover(v.members[m].granted, r.grant)
        /\ Classify(r.grant.scope) = "GlobalMutation" => ~Suspended(policy, v.reconciling, v.partition)
    BY <2>3, <2>4, GrantedRequest
  <2>6. /\ v = View(policy, artifacts, observations, leases, replay, tick) /\ v.policy = policy
        /\ Sound(artifacts) /\ RequiredEndorsements(policy) \in Nat /\ RequiredDistinctParties(policy) \in Nat
    BY <1>1, <2>2, InvFacts
  <2> DEFINE inc == rt[m].inc
  <2>7. v.members[m].current.inc = inc
    BY <2>3, <2>5 DEF Identity
  <2>8. /\ \A a \in Accepted(m) : a.kind # "MembershipLeave"
        /\ inc = 1 \/ \E a \in Accepted(m) : /\ a.kind \in {"MemberReattestation", "MembershipAcceptance"}
                                            /\ a.issuer = m /\ a.id.inc = inc
        /\ v.partition \in {"Connected", "Split", "Indeterminate"}
    BY <2>5, <2>6, <2>7, HolderEvidence DEF Accepted
  <2>9. inc = Newest(m)
    <3> DEFINE S == {1} \union {a.id.inc : a \in Own(m, Of(Accepted(m), "MemberReattestation")
                                         \union Of(Accepted(m), "MembershipAcceptance"))}
    <3>1. inc \in Nat \ {0}
      BY <1>1 DEF Inv, TypeInv, Runtime
    <3>2. inc \in S
      BY <2>8 DEF Own, Of
    <3>3. ASSUME NEW y \in S PROVE y \in Nat /\ inc >= y
      <4>1. CASE y = 1
        BY <3>1, <4>1
      <4>2. ASSUME NEW a \in Accepted(m), a.kind \in {"MemberReattestation", "MembershipAcceptance"},
                   a.issuer = m, y = a.id.inc
            PROVE  y \in Nat /\ inc >= y
        <5>1. a \in artifacts
          BY <4>2 DEF Accepted, InLineage, BySubject, Prepare
        <5>2. Heard(a) /\ Genuine(a)
          BY <1>1, <5>1 DEF Inv, EvidenceInv, Sound
        <5> QED
          BY <3>1, <4>2, <5>2 DEF Heard, Genuine
      <4> QED
        BY <4>1, <4>2 DEF Own, Of
    <3> HIDE DEF S, inc
    <3>4. Max(S) \in S /\ \A y \in S : Max(S) >= y
      BY <3>2, <3>3 DEF Max
    <3>5. Max(S) = inc
      <4>1. PICK k : k = Max(S)
        OBVIOUS
      <4>2. k \in Nat /\ inc >= k
        BY <3>3, <3>4, <4>1
      <4>3. k >= inc
        BY <3>2, <3>4, <4>1
      <4> QED
        BY <3>1, <4>1, <4>2, <4>3
    <3> QED
      BY <3>5 DEF Newest, S
  <2>10. \A a \in Own(m, Accepted(m)) :
            /\ a.kind # "MembershipLeave"
            /\ a.kind = "DelegationWithdrawal" => ~GrantsCover(a.what, r.grant)
    <3>1. PICK G : G = v.members[m].granted
      OBVIOUS
    <3>2. \A g \in G : /\ Classify(g.scope) # "Unknown"
                       /\ \A w \in Accepted(m) :
                            w.kind = "DelegationWithdrawal" /\ w.issuer = m => ~GrantsCover(w.what, g)
      BY <2>5, <2>6, <3>1, HeldGrant DEF Accepted
    <3>3. PICK g \in G : g.verb = r.grant.verb /\ g.scope = r.grant.scope
      BY <2>5, <3>1, <3>2, ExactGrant
    <3> SUFFICES ASSUME NEW a \in Own(m, Accepted(m)), a.kind = "DelegationWithdrawal",
                        GrantsCover(a.what, r.grant)
                 PROVE  FALSE
      BY <2>8 DEF Own
    <3>4. GrantsCover(a.what, g)
      BY <3>3 DEF GrantsCover
    <3> QED
      BY <3>2, <3>3, <3>4 DEF Own
  <2>11. LifecycleOf(m) \in Holding
    BY <2>2, <2>5 DEF LifecycleOf
  <2>12. Classify(r.grant.scope) = "GlobalMutation" =>
           /\ SuspendWhileReconciling(policy) => ~v.reconciling
           /\ SuspendOnPartition(policy) => v.partition = "Connected"
    BY <2>5, <2>8 DEF Suspended
  <2>13. r.actor.inc = inc
    BY <2>3 DEF Identity
  <2> HIDE DEF inc
  <2> QED
    BY <2>2, <2>3, <2>5, <2>6, <2>9, <2>10, <2>11, <2>12, <2>13 DEF Warranted
<1>2. Inv /\ [Next]_vars => [\A m \in Members : Just(m)]_vars
  BY <1>1
<1> QED
  BY <1>2, Invariance, PTL DEF Spec, GrantIsWarranted

\* Whoever stands is among the derived members.
LEMMA StandingAreSubjects ==
  ASSUME NEW P, IsFiniteSet(P), NEW policy, NEW subjects,
         RequiredEndorsements(policy) \in Nat, RequiredDistinctParties(policy) \in Nat,
         NEW m \in StandingFixpoint(P, policy, subjects)
  PROVE  m \in subjects
<1>1. PICK S : S = {m}
  OBVIOUS
<1>2. S # {} /\ S \subseteq StandingFixpoint(P, policy, subjects)
  BY <1>1
<1>3. \E n \in S, X \in SUBSET (StandingFixpoint(P, policy, subjects) \ S) :
        n \in StandingStep(P, policy, subjects, X)
  BY <1>2, FixpointIsGrounded
<1> QED
  BY <1>1, <1>3 DEF StandingStep

\* The part of the derived state that reconciliation is about.
LEMMA StandingState ==
  ASSUME NEW policy, NEW A, Sound(A), NEW obs, NEW ls, NEW rp, NEW t
  PROVE  LET P == Prepare(A)
             v == View(policy, A, obs, ls, rp, t)
         IN  /\ v.reconciling = (RecoveryAdvances(P) # {} /\ ~Reconciled(P, v.established))
             /\ v.established = StandingFixpoint(P, policy, Subjects(P, ls))
             /\ DOMAIN v.members = Subjects(P, ls)
             /\ \A m \in Subjects(P, ls) : v.members[m].lineage = CurrentLineage(m, BySubject(P, m))
<1> DEFINE P == Prepare(A)
           v == View(policy, A, obs, ls, rp, t)
<1>1. PICK c :
        /\ ViewContext(c, policy, P, ls) /\ v.reconciling = c.reconciling
        /\ v.established = c.established /\ DOMAIN v.members = Subjects(P, ls)
        /\ \A m \in Subjects(P, ls) : v.members[m].lineage = DeriveMembership(m, BySubject(P, m), c).lineage
  <2> HIDE DEF v
  <2> QED  BY ViewMembers DEF v
<1>2. \A m \in Subjects(P, ls) : v.members[m].lineage = CurrentLineage(m, BySubject(P, m))
  <2> HIDE DEF v, P
  <2> QED  BY <1>1, DerivedFields
<1>3. StatePolicy(P, policy) = policy
  BY PreparedIsSound
<1> HIDE DEF v, P
<1>4. /\ v.reconciling = (RecoveryAdvances(P) # {} /\ ~Reconciled(P, v.established))
      /\ v.established = StandingFixpoint(P, policy, Subjects(P, ls))
  BY <1>1, <1>3 DEF ViewContext
<1> QED
  BY <1>1, <1>2, <1>4 DEF v, P

\* Reconciliation comes back, without a recovery epoch, only with somebody who has not
\* re-attested.
LEMMA ReconcilingReturns ==
  ASSUME NEW policy, RequiredEndorsements(policy) \in Nat, RequiredDistinctParties(policy) \in Nat,
         NEW A, Sound(A), NEW obs, NEW ls, NEW rp, NEW t,
         NEW B, Sound(B), NEW obs2, NEW ls2, NEW rp2, NEW t2,
         A \subseteq B, RecoveryAdvances(B) = RecoveryAdvances(A),
         ~View(policy, A, obs, ls, rp, t).reconciling, View(policy, B, obs2, ls2, rp2, t2).reconciling
  PROVE  LET v == View(policy, A, obs, ls, rp, t)
             w == View(policy, B, obs2, ls2, rp2, t2)
         IN  \E m \in DOMAIN w.members :
               m \in w.established /\ (m \in v.established => w.members[m].lineage # v.members[m].lineage)
<1> DEFINE P == Prepare(A)
           Q == Prepare(B)
           v == View(policy, A, obs, ls, rp, t)
           w == View(policy, B, obs2, ls2, rp2, t2)
           inP(m) == InLineage(m, BySubject(P, m))
           inQ(m) == InLineage(m, BySubject(Q, m))
<1>1. /\ v.reconciling = (RecoveryAdvances(P) # {} /\ ~Reconciled(P, v.established))
      /\ v.established = StandingFixpoint(P, policy, Subjects(P, ls))
      /\ \A m \in Subjects(P, ls) : v.members[m].lineage = CurrentLineage(m, BySubject(P, m))
  BY StandingState
<1>2. /\ w.reconciling = (RecoveryAdvances(Q) # {} /\ ~Reconciled(Q, w.established))
      /\ w.established = StandingFixpoint(Q, policy, Subjects(Q, ls2))
      /\ DOMAIN w.members = Subjects(Q, ls2)
      /\ \A m \in Subjects(Q, ls2) : w.members[m].lineage = CurrentLineage(m, BySubject(Q, m))
  BY StandingState
<1>3. IsFiniteSet(P) /\ IsFiniteSet(Q)
  BY PreparedIsSound
<1>5. RecoveryAdvances(P) = RecoveryAdvances(A) /\ RecoveryAdvances(Q) = RecoveryAdvances(B)
  BY AdvancesAreKept DEF Sound, RecoveryAdvances
<1>6. RecoveryAdvances(Q) # {} /\ ~Reconciled(Q, w.established)
  <2> HIDE DEF v, w, P, Q
  <2> QED  BY <1>2 DEF w
<1>7. Reconciled(P, v.established)
  <2> HIDE DEF v, w, P, Q
  <2> QED  BY <1>1, <1>5, <1>6 DEF v
<1>8. \A x \in P : x.issuer = Coordinator \/ x.kind \in StampedKinds => x \in Q
  <2> SUFFICES ASSUME NEW x \in P, x.issuer = Coordinator \/ x.kind \in StampedKinds
               PROVE  x \in Q
    OBVIOUS
  <2>1. x \in B /\ ValidArtifact(x) /\ \A b \in B : Genuine(b)
    BY DEF Prepare, Sound
  <2> QED
    BY <2>1, StampedIsKept
<1>9. Recorded(Q)
  <2>1. RecoveryEpoch(Q) = RecoveryEpoch(P)
    <3> HIDE DEF P, Q
    <3> QED  BY <1>5 DEF RecoveryEpoch
  <2>2. PICK r \in Of(P, "ReconciliationComplete") : r.epoch >= RecoveryEpoch(P)
    BY <1>7 DEF Reconciled, Recorded
  <2>3. r \in P /\ r.kind = "ReconciliationComplete" /\ r.issuer = Coordinator
    BY <2>2, PreparedIsSound DEF Of, Genuine
  <2>4. r \in Of(Q, "ReconciliationComplete")
    <3> HIDE DEF P, Q
    <3> QED  BY <1>8, <2>3 DEF Of
  <2> HIDE DEF P, Q
  <2> QED
    BY <2>1, <2>2, <2>4 DEF Recorded
<1>10. PICK m \in w.established : Of(inQ(m), "MemberReattestation") = {}
  <2> HIDE DEF P, Q, w
  <2> QED  BY <1>6, <1>9 DEF Reconciled
<1>11. m \in Subjects(Q, ls2)
  <2> HIDE DEF Q, w
  <2> QED  BY <1>2, <1>3, <1>10, StandingAreSubjects
<1>12. ASSUME m \in v.established, w.members[m].lineage = v.members[m].lineage PROVE FALSE
  <2>1. m \in Subjects(P, ls)
    <3> HIDE DEF P, v
    <3> QED  BY <1>1, <1>3, <1>12, StandingAreSubjects
  <2>2. PICK x : x \in Of(inP(m), "MemberReattestation")
    <3> HIDE DEF P, v
    <3> QED  BY <1>7, <1>12 DEF Reconciled
  <2>3. x \in P /\ x.subject = m /\ x.kind = "MemberReattestation" /\ x.lineage = CurrentLineage(m, BySubject(P, m))
    <3> HIDE DEF P
    <3> QED  BY <2>2 DEF Of, InLineage, BySubject
  <2>4. x \in Q
    <3> HIDE DEF P, Q
    <3> QED  BY <1>8, <2>3 DEF StampedKinds
  <2>5. x.lineage = CurrentLineage(m, BySubject(Q, m))
    <3> HIDE DEF P, Q, v, w
    <3> QED  BY <1>1, <1>2, <1>11, <1>12, <2>1, <2>3
  <2>6. x \in Of(inQ(m), "MemberReattestation")
    <3> HIDE DEF P, Q, v, w
    <3> QED  BY <2>3, <2>4, <2>5 DEF Of, InLineage, BySubject
  <2> QED
    BY <1>10, <2>6
<1> HIDE DEF P, Q, v, w
<1>13. \E n \in DOMAIN w.members :
         n \in w.established /\ (n \in v.established => w.members[n].lineage # v.members[n].lineage)
  BY <1>2, <1>10, <1>11, <1>12
<1> QED
  BY <1>13 DEF v, w

\* derive_state: reconciliation is pending again only after a recovery advance, or when a
\* member stands anew that has yet to re-attest.
THEOREM ReconcilingBeginsWithRecoveryHolds == Spec => ReconcilingBeginsWithRecovery
<1> DEFINE Begins ==
      ~view.reconciling /\ view'.reconciling =>
        \/ RecoveryAdvances(artifacts') # RecoveryAdvances(artifacts)
        \/ \E m \in DOMAIN view'.members : StandsAnew(m)
<1>1. ASSUME Inv, Inv', [Next]_vars
      PROVE  Begins
  <2> SUFFICES ASSUME ~view.reconciling, view'.reconciling,
                      RecoveryAdvances(artifacts') = RecoveryAdvances(artifacts)
               PROVE  \E m \in DOMAIN view'.members : StandsAnew(m)
    OBVIOUS
  <2>1. PICK policy : policy = ConfiguredPolicy
    OBVIOUS
  <2>2. /\ view = View(policy, artifacts, observations, leases, replay, tick) /\ Sound(artifacts)
        /\ RequiredEndorsements(policy) \in Nat /\ RequiredDistinctParties(policy) \in Nat
    BY <1>1, <2>1, InvFacts
  <2>3. /\ view' = View(policy, artifacts', observations', leases', replay', tick')
        /\ Sound(artifacts') /\ artifacts \subseteq artifacts'
    BY <1>1, <2>1, EvidenceGrows DEF Inv, ViewInv, EvidenceInv, ConfiguredPolicy
  <2>4. \E m \in DOMAIN view'.members :
          m \in view'.established /\ (m \in view.established => view'.members[m].lineage # view.members[m].lineage)
    BY <2>2, <2>3, ReconcilingReturns
  <2> QED
    BY <2>4 DEF StandsAnew
<1>2. Inv /\ Inv' /\ [Next]_vars => [Begins]_vars
  BY <1>1
<1> QED
  BY <1>2, Invariance, PTL DEF Spec, ReconcilingBeginsWithRecovery
================================================================================
