---------------------------- MODULE ConvergenceProofs -----------------------------
(***********************************************************************************)
(* What coordinators with the same evidence agree on, whatever the order in which  *)
(* it reached them: for any federation, any evidence its members can have sent and *)
(* any policy.  The argument goes through what each coordinator may add to the     *)
(* evidence on its own: a decision always stands beside an acceptance of the member*)
(* it is about, which nothing quarantines, so it adds nothing that the others      *)
(* cannot see as well.                                                             *)
(***********************************************************************************)
EXTENDS Convergence, DerivationProofs

--------------------------------------------------------------------------------
\* A decision of the coordinator that is not about the founder stands beside an acceptance
\* by the member it is about, in the lineage it is about.
Accepted(a, A) ==
  \E c \in A : /\ c.kind = "MembershipAcceptance" /\ c.issuer = a.subject
               /\ c.subject = a.subject /\ c.lineage = a.lineage

\* decide_locked decides nothing about a member other than the founder without its consent.
LEMMA BatchIsAccepted ==
  ASSUME NEW A, NEW ctx, NEW members, NEW a \in BatchIn(A, ctx, members)
  PROVE  a.subject = ctx.founder \/ Accepted(a, A)
<1>1. PICK m \in members : a \in DecisionsOn(A, m, DeriveMembership(m, BySubject(A, m), ctx), ctx)
  BY DEF BatchIn
<1> DEFINE d == DeriveMembership(m, BySubject(A, m), ctx)
           l == CurrentLineage(m, BySubject(A, m))
           C == InLineage(m, BySubject(A, m))
           f == Facts(m, C, ctx)
<1>2. /\ d.lifecycle = Lifecycle(m, C, f, ctx) /\ d.lineage = l
      /\ d.consented = (f.acceptances # {})
  BY DEF DeriveMembership, DerivedIn, DerivedFrom, Derived
<1>3. a.subject = m /\ a.lineage = l
  <2> HIDE DEF C, f, l
  <2>1. CASE a \in AdmissionRecord(A, m, d, ctx)
    <3> HIDE DEF d
    <3> QED  BY <1>2, <2>1 DEF AdmissionRecord, Record
  <2>2. CASE a \in ActivationRecord(m, d, ctx)
    <3> HIDE DEF d
    <3> QED  BY <1>2, <2>2 DEF ActivationRecord, Record
  <2> QED
    BY <1>1, <2>1, <2>2 DEF DecisionsOn
<1>4. d.consented \/ d.lifecycle \in Established
  <2> HIDE DEF C, f, l
  <2>1. CASE a \in AdmissionRecord(A, m, d, ctx)
    <3> HIDE DEF d
    <3> QED  BY <2>1 DEF AdmissionRecord
  <2>2. CASE a \in ActivationRecord(m, d, ctx)
    <3> HIDE DEF d
    <3> QED  BY <2>2 DEF ActivationRecord, Established, Holding
  <2> QED
    BY <1>1, <2>1, <2>2 DEF DecisionsOn
<1> HIDE DEF d
<1>5. f.acceptances # {} \/ ctx.founder = m
  <2>1. CASE d.lifecycle \in Established
    <3> HIDE DEF C, f, l
    <3>1. AdmissionValid(m, C, f, ctx)
      BY <1>2, <2>1, HoldingMeans
    <3> QED
      BY <3>1 DEF AdmissionValid
  <2> QED
    BY <1>2, <1>4, <2>1
<1>6. f.acceptances # {} => Accepted(a, A)
  <2>1. f.acceptances \subseteq {c \in C : c.kind = "MembershipAcceptance" /\ c.issuer = m}
    BY FactFields DEF MatchingAcceptances, Own, Of
  <2>2. \A c \in C : c \in A /\ c.subject = m /\ c.lineage = l
    BY DEF InLineage, BySubject
  <2> HIDE DEF C, f, l
  <2> QED
    BY <1>3, <2>1, <2>2 DEF Accepted
<1> HIDE DEF f, l
<1> QED
  BY <1>3, <1>5, <1>6

--------------------------------------------------------------------------------
\* An artefact of a member, as a coordinator holds it: re-attestations have been placed.
FromPool(a, p) ==
  \/ a \in p /\ a.kind # "MemberReattestation"
  \/ \E b \in p : b.kind = "MemberReattestation" /\ a = Placed(b, b.rank, a.nth)

\* The evidence a coordinator can hold when the members send what is in p.
Kept(A, p) ==
  /\ Sound(A)
  /\ GenesisOf(A) = {GenesisRecord}
  /\ \A a \in A : a.issuer # Coordinator => FromPool(a, p)
  /\ \A a \in A : a.issuer = Coordinator =>
       \/ a.kind \in {"FederationGenesis", "EpochAdvance"}
       \/ /\ a.kind \in {"MembershipAdmission", "MembershipActivation"}
          /\ a.subject = Founder0 \/ Accepted(a, A)

\* What a coordinator holds of a member is what the member sent, but for the place of a
\* re-attestation in the order of arrival.
LEMMA FromPoolIs ==
  ASSUME NEW p \in Pools, NEW a, FromPool(a, p)
  PROVE  /\ Sendable(a)
         /\ \E b \in p : /\ EvidenceId(a) = EvidenceId(b) /\ a.at = b.at
                         /\ a.kind = b.kind /\ a.rank = b.rank /\ a.subject = b.subject
                         /\ a.kind # "MemberReattestation" => a = b
                         /\ a.kind = "MemberReattestation" => a = Placed(b, b.rank, a.nth)
<1>1. CASE a \in p /\ a.kind # "MemberReattestation"
  <2>1. Sendable(a)
    BY <1>1, PoolsAreSound
  <2> QED
    BY <1>1, <2>1
<1>2. CASE ~(a \in p /\ a.kind # "MemberReattestation")
  <2>1. PICK b \in p : b.kind = "MemberReattestation" /\ a = Placed(b, b.rank, a.nth)
    BY <1>2 DEF FromPool
  <2>2. Sendable(b)
    BY PoolsAreSound
  <2>3. /\ a.kind = b.kind /\ a.subject = b.subject /\ a.issuer = b.issuer
        /\ a.lineage = b.lineage /\ a.epoch = b.epoch /\ a.id = b.id /\ a.what = b.what
        /\ a.at = b.at /\ a.rank = b.rank
    <3> DEFINE q == Placed(b, b.rank, a.nth)
    <3>1. /\ q.kind = b.kind /\ q.subject = b.subject /\ q.issuer = b.issuer
          /\ q.lineage = b.lineage /\ q.epoch = b.epoch /\ q.id = b.id /\ q.what = b.what
          /\ q.at = b.at /\ q.rank = b.rank
      BY DEF Placed
    <3> QED
      BY <2>1, <3>1
  <2>4. EvidenceId(a) = EvidenceId(b)
    BY <2>3 DEF EvidenceId
  <2>5. ValidArtifact(a)
    BY <2>2, <2>3 DEF ValidArtifact, Sendable
  <2>6. Sendable(a)
    BY <2>2, <2>3, <2>5 DEF Sendable
  <2> QED
    BY <2>1, <2>3, <2>4, <2>6
<1> QED
  BY <1>1, <1>2

\* An artefact that arrives leaves the evidence of this form.
LEMMA ArrivalKeeps ==
  ASSUME NEW p \in Pools, NEW A, Kept(A, p), NEW a, FromPool(a, p)
  PROVE  Kept(A \union {a}, p)
<1> DEFINE B == A \union {a}
<1>1. Sendable(a)
  BY FromPoolIs
<1>2. a.kind \in MemberKinds /\ a.issuer # Coordinator
  BY <1>1, CoordinatorIsNil DEF Sendable
<1>3. Genuine(a)
  BY <1>1, <1>2 DEF Genuine, Sendable, MemberKinds, ValidArtifact
<1>4. Of(B, "EpochAdvance") = Of(A, "EpochAdvance") /\ GenesisOf(B) = GenesisOf(A)
  BY <1>2 DEF Of, GenesisOf, MemberKinds
<1>5. CurrentEpoch(B) = CurrentEpoch(A)
  BY <1>4 DEF CurrentEpoch
<1>6. IsFiniteSet(B)
  BY FS_AddElement DEF Kept, Sound
<1>7. Outranks(B)
  BY <1>2 DEF Outranks, Kept, Sound, MemberKinds
<1>8. \A b \in B : b.kind = "MembershipActivation" => b.epoch <= CurrentEpoch(B)
  <2> HIDE DEF B
  <2> QED  BY <1>2, <1>5 DEF B, Kept, Sound, MemberKinds
<1>9. Sound(B)
  <2>1. \A b \in B : Genuine(b)
    BY <1>3 DEF Kept, Sound
  <2> HIDE DEF B
  <2> QED  BY <1>6, <1>7, <1>8, <2>1 DEF Sound
<1>10. \A b \in B : b.issuer # Coordinator => FromPool(b, p)
  BY DEF Kept
<1>11. \A b \in B : b.issuer = Coordinator =>
         \/ b.kind \in {"FederationGenesis", "EpochAdvance"}
         \/ /\ b.kind \in {"MembershipAdmission", "MembershipActivation"}
            /\ b.subject = Founder0 \/ Accepted(b, B)
  BY <1>2 DEF Kept, Accepted
<1> HIDE DEF B
<1> QED
  BY <1>4, <1>9, <1>10, <1>11 DEF Kept, B

\* A recorded epoch advance leaves the evidence of this form.
LEMMA AdvanceKeeps ==
  ASSUME NEW p, NEW A, Kept(A, p), NEW a, Genuine(a), a.kind = "EpochAdvance"
  PROVE  Kept(A \union {a}, p)
<1> DEFINE B == A \union {a}
<1>1. a.issuer = Coordinator
  BY DEF Genuine
<1>2. IsFiniteSet(B) /\ \A b \in B : Genuine(b)
  BY FS_AddElement DEF Kept, Sound
<1>3. CurrentEpoch(A) <= CurrentEpoch(B) /\ CurrentEpoch(A) \in Nat /\ CurrentEpoch(B) \in Nat
  BY <1>2, EpochGrows, EpochIsHighest DEF Kept, Sound
<1>4. Outranks(B)
  BY DEF Outranks, Kept, Sound
<1>5. \A b \in B : b.kind = "MembershipActivation" => b.epoch <= CurrentEpoch(B)
  <2> SUFFICES ASSUME NEW b \in B, b.kind = "MembershipActivation" PROVE b.epoch <= CurrentEpoch(B)
    OBVIOUS
  <2>1. b \in A
    OBVIOUS
  <2>2. b.epoch <= CurrentEpoch(A) /\ b.epoch \in Nat
    BY <2>1 DEF Kept, Sound, Genuine
  <2> HIDE DEF B
  <2> QED  BY <1>3, <2>2
<1>6. Sound(B)
  <2> HIDE DEF B
  <2> QED  BY <1>2, <1>4, <1>5 DEF Sound
<1>7. GenesisOf(B) = GenesisOf(A)
  BY DEF GenesisOf, Of
<1>8. \A b \in B : b.issuer # Coordinator => FromPool(b, p)
  BY <1>1 DEF Kept
<1>9. \A b \in B : b.issuer = Coordinator =>
         \/ b.kind \in {"FederationGenesis", "EpochAdvance"}
         \/ /\ b.kind \in {"MembershipAdmission", "MembershipActivation"}
            /\ b.subject = Founder0 \/ Accepted(b, B)
  BY DEF Kept, Accepted
<1> HIDE DEF B
<1> QED
  BY <1>6, <1>7, <1>8, <1>9 DEF Kept, B

\* So do the decisions of a pass.
LEMMA BatchKeeps ==
  ASSUME NEW p, NEW A, Kept(A, p), NEW v, NEW new,
         new \subseteq Batch(ConfiguredPolicy, A, v), Sound(A \union new), Grown(A, A \union new)
  PROVE  Kept(A \union new, p)
<1> DEFINE B == A \union new
           ctx == DecisionContext(ConfiguredPolicy, A, v)
<1>1. ctx.founder = Founder0
  <2>1. (CHOOSE g \in GenesisOf(A) : TRUE) = GenesisRecord
    BY DEF Kept
  <2>2. ctx.founder = (CHOOSE g \in GenesisOf(A) : TRUE).subject
    BY DEF DecisionContext
  <2>3. GenesisRecord.subject = Founder0
    BY DEF GenesisRecord, Record
  <2> HIDE DEF ctx
  <2> QED
    BY <2>1, <2>2, <2>3
<1>2. \A a \in new : a.subject = Founder0 \/ Accepted(a, A)
  <2> SUFFICES ASSUME NEW a \in new PROVE a.subject = Founder0 \/ Accepted(a, A)
    OBVIOUS
  <2>1. a \in BatchIn(A, ctx, DOMAIN v.members)
    BY DEF Batch
  <2> HIDE DEF ctx
  <2> QED
    BY <1>1, <2>1, BatchIsAccepted
<1>3. \A b \in B \ A : b.issuer = Coordinator /\ b.kind \in {"MembershipAdmission", "MembershipActivation"}
  BY DEF Grown
<1>4. GenesisOf(B) = GenesisOf(A)
  <2> HIDE DEF B
  <2> QED  BY <1>3 DEF B, GenesisOf, Of
<1>5. \A b \in B : b.issuer # Coordinator => FromPool(b, p)
  BY <1>3 DEF Kept
<1>6. \A b \in B : b.issuer = Coordinator =>
         \/ b.kind \in {"FederationGenesis", "EpochAdvance"}
         \/ /\ b.kind \in {"MembershipAdmission", "MembershipActivation"}
            /\ b.subject = Founder0 \/ Accepted(b, B)
  BY <1>2, <1>3 DEF Kept, Accepted
<1> HIDE DEF B
<1> QED
  BY <1>4, <1>5, <1>6 DEF Kept, B

\* And decide_locked as a whole, after which the state is the one derived from the evidence.
LEMMA DecideKeeps ==
  ASSUME NEW p, NEW A, Kept(A, p)
  PROVE  LET outcome == Decide(ConfiguredPolicy, A, {}, {}, {}, 1)
         IN  Kept(outcome.set, p) /\ outcome.view = View(ConfiguredPolicy, outcome.set, {}, {}, {}, 1)
<1> DEFINE N == MaxMembers + 2
<1>0. N \in Nat
  BY PolicyBounds
<1>1. PICK f : Passes(f, ConfiguredPolicy, A, {}, {}, {}, 1) /\ Decide(ConfiguredPolicy, A, {}, {}, {}, 1) = f[N]
  BY DecideIsPasses
<1>2. \A n \in Nat : n <= N => Stage(f[n], ConfiguredPolicy, A, {}, {}, {}, 1)
  <2>1. IsFiniteSet({})
    BY FS_EmptySet
  <2> QED
    BY <1>1, <2>1, PassesAreStages DEF Kept
<1>3. f[0].set = A
  BY <1>1 DEF Passes, Undecided
<1>4. \A n \in Nat : n < N => f[n + 1] = Pass(ConfiguredPolicy, f[n], {}, {}, {}, 1)
  BY <1>1 DEF Passes
<1> DEFINE T == {n \in Nat : n <= N => Kept(f[n].set, p)}
<1>5. 0 \in T
  BY <1>3
<1>6. ASSUME NEW n \in Nat, n \in T PROVE n + 1 \in T
  <2> SUFFICES ASSUME n + 1 <= N PROVE Kept(f[n + 1].set, p)
    OBVIOUS
  <2> DEFINE x == f[n]
             new == Recordable(x.set, Batch(ConfiguredPolicy, x.set, x.view))
  <2>1. Kept(x.set, p) /\ n < N /\ n <= N /\ n + 1 \in Nat
    BY <1>0, <1>6
  <2>2. f[n + 1] = Passed(ConfiguredPolicy, x, new, {}, {}, {}, 1)
    BY <1>4, <2>1 DEF Pass
  <2>3. Sound(x.set) /\ Sound(f[n + 1].set)
    BY <1>2, <2>1 DEF Stage
  <2>4. CASE f[n + 1].set = x.set
    BY <2>1, <2>4
  <2>5. CASE f[n + 1].set = x.set \union new
    <3>1. new \subseteq Batch(ConfiguredPolicy, x.set, x.view)
      BY DEF Recordable
    <3> HIDE DEF x, new
    <3>2. Grown(x.set, x.set \union new)
      <4>1. \A b \in new : b.issuer = Coordinator /\ b.kind \in {"MembershipAdmission", "MembershipActivation"}
        BY <3>1, BatchMeans DEF Batch
      <4> QED
        BY <4>1 DEF Grown
    <3> QED
      BY <2>1, <2>3, <2>5, <3>1, <3>2, BatchKeeps
  <2>6. f[n + 1].set \in {x.set, x.set \union new}
    <3> HIDE DEF x, new
    <3> QED  BY <2>2 DEF Passed
  <2> QED
    BY <2>4, <2>5, <2>6
<1>7. N \in T
  <2> HIDE DEF T
  <2> QED  BY <1>0, <1>5, <1>6, SetInduction
<1>8. Kept(f[N].set, p)
  BY <1>0, <1>7
<1> QED
  BY <1>0, <1>1, <1>2, <1>8 DEF Stage

--------------------------------------------------------------------------------
\* What a coordinator has accepted: what members sent, and the epochs.
Gathered(A) ==
  {<<EvidenceId(a), a.at>> : a \in {x \in A : x.issuer # Coordinator \/ x.kind = "EpochAdvance"}}

\* Two coordinators that have accepted the same evidence.
Alike(A, B, p) == p \in Pools /\ Kept(A, p) /\ Kept(B, p) /\ Gathered(A) = Gathered(B)

LEMMA AlikeIsSymmetric ==
  ASSUME NEW p, NEW A, NEW B, Alike(A, B, p)
  PROVE  Alike(B, A, p)
  BY DEF Alike

\* Evidence with the same identifier agrees on what the identifier hashes.
LEMMA SameIdentifier ==
  ASSUME NEW a, NEW b, EvidenceId(a) = EvidenceId(b)
  PROVE  /\ a.kind = b.kind /\ a.subject = b.subject /\ a.issuer = b.issuer
         /\ a.lineage = b.lineage /\ a.epoch = b.epoch
         /\ a.issuer # Coordinator /\ a.kind \in StampedKinds => a.at = b.at
<1>1. \A x : /\ EvidenceId(x).kind = x.kind /\ EvidenceId(x).subject = x.subject
             /\ EvidenceId(x).issuer = x.issuer /\ EvidenceId(x).lineage = x.lineage
             /\ EvidenceId(x).epoch = x.epoch
             /\ EvidenceId(x).at = IF x.issuer # Coordinator /\ x.kind \in StampedKinds THEN x.at ELSE NoStamp
  BY DEF EvidenceId
<1> HIDE DEF EvidenceId
<1> QED
  BY <1>1

\* The same artefact, but for the place of a re-attestation in the order of arrival.
Twin(a, b) ==
  /\ EvidenceId(a) = EvidenceId(b) /\ a.at = b.at
  /\ a.kind = b.kind /\ a.subject = b.subject /\ a.issuer = b.issuer
  /\ a.lineage = b.lineage /\ a.epoch = b.epoch
  /\ a.issuer # Coordinator =>
       /\ a.kind # "MemberReattestation" => a = b
       /\ a.kind = "MemberReattestation" => b = Placed(a, a.rank, b.nth)

\* What one of them has accepted the other has as well.
LEMMA Counterpart ==
  ASSUME NEW p, NEW A, NEW B, Alike(A, B, p), NEW a \in A,
         a.issuer # Coordinator \/ a.kind = "EpochAdvance"
  PROVE  \E b \in B : Twin(a, b)
<1>1. <<EvidenceId(a), a.at>> \in Gathered(B)
  BY DEF Alike, Gathered
<1>2. PICK b \in B : EvidenceId(a) = EvidenceId(b) /\ a.at = b.at
  <2>1. \E b \in {x \in B : x.issuer # Coordinator \/ x.kind = "EpochAdvance"} :
           <<EvidenceId(a), a.at>> = <<EvidenceId(b), b.at>>
    BY <1>1 DEF Gathered
  <2> QED
    BY <2>1
<1>3. /\ a.kind = b.kind /\ a.subject = b.subject /\ a.issuer = b.issuer
      /\ a.lineage = b.lineage /\ a.epoch = b.epoch
  BY <1>2, SameIdentifier
<1>4. ASSUME a.issuer # Coordinator
      PROVE  /\ a.kind # "MemberReattestation" => a = b
             /\ a.kind = "MemberReattestation" => b = Placed(a, a.rank, b.nth)
  <2>1. p \in Pools /\ FromPool(a, p) /\ FromPool(b, p)
    BY <1>3, <1>4 DEF Alike, Kept
  <2>2. PICK x \in p : /\ EvidenceId(a) = EvidenceId(x) /\ a.at = x.at
                       /\ a.kind = x.kind /\ a.rank = x.rank /\ a.subject = x.subject
                       /\ a.kind # "MemberReattestation" => a = x
                       /\ a.kind = "MemberReattestation" => a = Placed(x, x.rank, a.nth)
    BY <2>1, FromPoolIs
  <2>3. PICK y \in p : /\ EvidenceId(b) = EvidenceId(y) /\ b.at = y.at
                       /\ b.kind = y.kind /\ b.rank = y.rank /\ b.subject = y.subject
                       /\ b.kind # "MemberReattestation" => b = y
                       /\ b.kind = "MemberReattestation" => b = Placed(y, y.rank, b.nth)
    BY <2>1, FromPoolIs
  <2>4. SameContent(x, y)
    BY <1>2, <2>2, <2>3 DEF SameContent
  <2>5. x = y
    BY <2>1, <2>4, PoolsAreSound
  <2>6. a.kind = "MemberReattestation" => b = Placed(a, a.rank, b.nth)
    <3> SUFFICES ASSUME a.kind = "MemberReattestation" PROVE b = Placed(a, a.rank, b.nth)
      OBVIOUS
    <3>1. a = Placed(x, x.rank, a.nth) /\ b = Placed(x, x.rank, b.nth)
      BY <1>3, <2>2, <2>3, <2>5
    <3> QED
      BY <3>1 DEF Placed
  <2> QED
    BY <1>3, <2>2, <2>3, <2>5, <2>6
<1> QED
  BY <1>2, <1>3, <1>4 DEF Twin

\* They are in the same epoch.
LEMMA SameEpoch ==
  ASSUME NEW p, NEW A, NEW B, Alike(A, B, p)
  PROVE  CurrentEpoch(A) = CurrentEpoch(B)
<1>1. ASSUME NEW X, NEW Y, Alike(X, Y, p), NEW a \in Of(X, "EpochAdvance")
      PROVE  \E b \in Of(Y, "EpochAdvance") : b.epoch = a.epoch
  <2>1. a \in X /\ a.kind = "EpochAdvance"
    BY DEF Of
  <2>2. PICK b \in Y : Twin(a, b)
    BY <1>1, <2>1, Counterpart
  <2> QED
    BY <2>1, <2>2 DEF Of, Twin
<1>2. Alike(B, A, p)
  BY AlikeIsSymmetric
<1>3. {a.epoch : a \in Of(A, "EpochAdvance")} = {b.epoch : b \in Of(B, "EpochAdvance")}
  <2>1. \A a \in Of(A, "EpochAdvance") : \E b \in Of(B, "EpochAdvance") : b.epoch = a.epoch
    BY <1>1
  <2>2. \A a \in Of(B, "EpochAdvance") : \E b \in Of(A, "EpochAdvance") : b.epoch = a.epoch
    BY <1>1, <1>2
  <2> QED
    BY <2>1, <2>2
<1> QED
  BY <1>3 DEF CurrentEpoch

\* prepare_artifacts keeps the same of both.
LEMMA PreparedAlike ==
  ASSUME NEW p, NEW A, NEW B, Alike(A, B, p), NEW a \in Prepare(A), a.issuer # Coordinator,
         NEW b \in B, EvidenceId(a) = EvidenceId(b), a.at = b.at
  PROVE  b \in Prepare(B)
<1>1. a \in A /\ a \notin Quarantined(A)
  BY DEF Prepare
<1>2. b.issuer # Coordinator
  BY SameIdentifier
<1>3. ValidArtifact(b)
  <2>1. FromPool(b, p) /\ p \in Pools
    BY <1>2 DEF Alike, Kept
  <2> QED
    BY <2>1, FromPoolIs DEF Sendable
<1>4. b \notin Quarantined(B)
  <2> SUFFICES ASSUME NEW c \in B, EvidenceId(b) = EvidenceId(c), b.at # c.at PROVE FALSE
    BY DEF Quarantined, SameContent
  <2>1. c.issuer # Coordinator
    BY <1>2, SameIdentifier
  <2>2. Alike(B, A, p)
    BY AlikeIsSymmetric
  <2>3. PICK d \in A : Twin(c, d)
    BY <2>1, <2>2, Counterpart
  <2>4. EvidenceId(a) = EvidenceId(d) /\ a.at # d.at
    BY <2>3 DEF Twin
  <2> QED
    BY <1>1, <2>4 DEF Quarantined, SameContent
<1> QED
  BY <1>3, <1>4 DEF Prepare

\* What both keep of a member's evidence, apart from re-attestations, is the same.
LEMMA SameKept ==
  ASSUME NEW p, NEW A, NEW B, Alike(A, B, p), NEW kind, kind # "MemberReattestation",
         kind \notin {"FederationGenesis", "EpochAdvance", "MembershipAdmission", "MembershipActivation"}
  PROVE  Of(Prepare(A), kind) = Of(Prepare(B), kind)
<1>1. ASSUME NEW X, NEW Y, Alike(X, Y, p), NEW a \in Of(Prepare(X), kind)
      PROVE  a \in Of(Prepare(Y), kind)
  <2>1. a \in Prepare(X) /\ a \in X /\ a.kind = kind
    BY DEF Of, Prepare
  <2>2. a.issuer # Coordinator
    BY <1>1, <2>1 DEF Alike, Kept
  <2>3. PICK b \in Y : Twin(a, b)
    BY <1>1, <2>1, <2>2, Counterpart
  <2>4. EvidenceId(a) = EvidenceId(b) /\ a.at = b.at /\ a = b
    BY <2>1, <2>2, <2>3 DEF Twin
  <2>5. b \in Prepare(Y)
    BY <1>1, <2>1, <2>2, <2>4, PreparedAlike
  <2> QED
    BY <2>1, <2>4, <2>5 DEF Of
<1>2. Alike(B, A, p)
  BY AlikeIsSymmetric
<1> QED
  BY <1>1, <1>2

\* Both have the genesis record that ensure_genesis wrote.
LEMMA GenesisIsKept ==
  ASSUME NEW p, NEW A, Kept(A, p)
  PROVE  /\ GenesisOf(Prepare(A)) = {GenesisRecord}
         /\ Founder(Prepare(A)) = Founder0
         /\ FounderIdentity(Prepare(A)) = GenesisRecord.id
<1>1. GenesisRecord \in A /\ GenesisRecord.issuer = Coordinator /\ GenesisRecord.subject = Founder0
  <2>1. GenesisRecord \in GenesisOf(A)
    BY DEF Kept
  <2> QED
    BY <2>1 DEF GenesisOf, Of, GenesisRecord, Record
<1>2. GenesisRecord \in Prepare(A)
  BY <1>1, CoordinatorIsKept, PoolsAreSound DEF Kept, Sound, Prepare
<1>3. GenesisOf(Prepare(A)) = {GenesisRecord}
  BY <1>2 DEF Kept, GenesisOf, Of, Prepare
<1>4. Cardinality(GenesisOf(Prepare(A))) = 1
  BY <1>3, FS_Singleton
<1>5. \A g \in GenesisOf(Prepare(A)) : g = GenesisRecord
  BY <1>3
<1>6. Founder(Prepare(A)) = Founder0
  BY <1>1, <1>3, <1>4 DEF Founder
<1>7. FounderIdentity(Prepare(A)) = GenesisRecord.id
  BY <1>3, <1>4 DEF FounderIdentity
<1> QED
  BY <1>3, <1>6, <1>7

--------------------------------------------------------------------------------
\* The acceptance that a decision stands beside is never quarantined: its identifier covers
\* its stamp.
LEMMA AcceptanceIsKept ==
  ASSUME NEW p \in Pools, NEW A, Kept(A, p), NEW a, a.subject # Coordinator, Accepted(a, A)
  PROVE  \E c \in Prepare(A) : /\ c.issuer # Coordinator
                               /\ c.subject = a.subject /\ c.lineage = a.lineage
<1>1. PICK c \in A : /\ c.kind = "MembershipAcceptance" /\ c.issuer = a.subject
                     /\ c.subject = a.subject /\ c.lineage = a.lineage
  BY DEF Accepted
<1>2. ValidArtifact(c)
  BY <1>1, FromPoolIs DEF Kept, Sendable
<1>3. c \notin Quarantined(A)
  BY <1>1, SameIdentifier DEF Quarantined, SameContent, StampedKinds
<1>4. c \in Prepare(A)
  BY <1>2, <1>3 DEF Prepare
<1> QED
  BY <1>1, <1>4

\* What both have of a member's evidence.
About(A, m) == BySubject(Prepare(A), m)

\* While the founder has not left, both see the same lineages of each member end and begin.
LEMMA SameClosings ==
  ASSUME NEW p, NEW A, NEW B, Alike(A, B, p), NEW m \in Members, NEW l \in Nat,
         ~\E a \in A : a.kind = "MembershipLeave" /\ a.subject = Founder0,
         LineageClosed(m, About(A, m), l)
  PROVE  LineageClosed(m, About(B, m), l)
<1>0. p \in Pools /\ Kept(A, p) /\ Kept(B, p)
  BY DEF Alike
<1>1. PICK x \in Own(m, Of(About(A, m), "MembershipLeave")) : x.lineage = l
  BY DEF LineageClosed
<1>2. x \in Of(Prepare(A), "MembershipLeave") /\ x.subject = m /\ x.issuer = m /\ x \in A
  BY <1>1 DEF Own, Of, About, BySubject, Prepare
<1>3. x \in Own(m, Of(About(B, m), "MembershipLeave"))
  <2>1. x \in Of(Prepare(B), "MembershipLeave")
    BY <1>2, SameKept
  <2> QED
    BY <1>2, <2>1 DEF Own, Of, About, BySubject
<1>4. m # Founder0 /\ m # Coordinator
  BY <1>2, CoordinatorIsNil DEF Of
<1>5. PICK y \in About(A, m) : y.lineage = l + 1
  BY DEF LineageClosed
<1>6. y \in Prepare(A) /\ y \in A /\ y.subject = m
  BY <1>5 DEF About, BySubject, Prepare
<1>7. PICK z \in Prepare(A) : z.issuer # Coordinator /\ z.subject = m /\ z.lineage = l + 1
  <2>1. CASE y.issuer # Coordinator
    BY <1>5, <1>6, <2>1
  <2>2. CASE y.issuer = Coordinator
    <3>1. y.kind # "FederationGenesis"
      <4> SUFFICES ASSUME y.kind = "FederationGenesis" PROVE FALSE
        OBVIOUS
      <4>1. y \in GenesisOf(A)
        BY <1>6 DEF GenesisOf, Of
      <4>2. y = GenesisRecord
        BY <1>0, <4>1 DEF Kept
      <4>3. GenesisRecord.subject = Founder0
        BY DEF GenesisRecord, Record
      <4> QED
        BY <1>4, <1>6, <4>2, <4>3
    <3>2. y.kind # "EpochAdvance"
      BY <1>0, <1>4, <1>6 DEF Kept, Sound, Genuine
    <3>3. Accepted(y, A)
      BY <1>0, <1>4, <1>6, <2>2, <3>1, <3>2 DEF Kept
    <3> QED
      BY <1>0, <1>4, <1>5, <1>6, <3>3, AcceptanceIsKept
  <2> QED
    BY <2>1, <2>2
<1>8. z \in A
  BY DEF Prepare
<1>9. PICK w \in B : Twin(z, w)
  BY <1>7, <1>8, Counterpart
<1>10. EvidenceId(z) = EvidenceId(w) /\ z.at = w.at /\ w.subject = m /\ w.lineage = l + 1
  BY <1>7, <1>9 DEF Twin
<1>11. w \in Prepare(B)
  BY <1>7, <1>10, PreparedAlike
<1>12. w \in About(B, m)
  BY <1>10, <1>11 DEF About, BySubject
<1> QED
  BY <1>1, <1>3, <1>10, <1>12 DEF LineageClosed

\* A leave notice of the founder that one has accepted, the other has.
LEMMA SameDeparture ==
  ASSUME NEW p, NEW A, NEW B, Alike(A, B, p),
         NEW a \in A, a.kind = "MembershipLeave", a.subject = Founder0
  PROVE  \E b \in B : b.kind = "MembershipLeave" /\ b.subject = Founder0
<1>1. a.issuer # Coordinator
  BY DEF Alike, Kept
<1>2. PICK b \in B : Twin(a, b)
  BY <1>1, Counterpart
<1> QED
  BY <1>2 DEF Twin

LEMMA SameCurrentLineage ==
  ASSUME NEW p, NEW A, NEW B, Alike(A, B, p), NEW m \in Members,
         ~\E a \in A : a.kind = "MembershipLeave" /\ a.subject = Founder0
  PROVE  CurrentLineage(m, About(A, m)) = CurrentLineage(m, About(B, m))
<1>1. Alike(B, A, p) /\ ~\E b \in B : b.kind = "MembershipLeave" /\ b.subject = Founder0
  BY AlikeIsSymmetric, SameDeparture
<1>2. \A l \in Nat : LineageClosed(m, About(A, m), l) <=> LineageClosed(m, About(B, m), l)
  BY <1>1, SameClosings
<1>3. IsFiniteSet(About(A, m)) /\ IsFiniteSet(About(B, m))
  <2>1. IsFiniteSet(Prepare(A)) /\ IsFiniteSet(Prepare(B))
    BY PreparedIsSound DEF Alike, Kept
  <2>2. About(A, m) \subseteq Prepare(A) /\ About(B, m) \subseteq Prepare(B)
    BY DEF About, BySubject
  <2> QED
    BY <2>1, <2>2, FS_Subset
<1> QED
  BY <1>2, <1>3, SameLineage

\* The evidence of a member's current lineage.
OfMember(A, m) == InLineage(m, About(A, m))

\* Apart from re-attestations and the coordinator's records, it is the same for both.
LEMMA SameOfMember ==
  ASSUME NEW p, NEW A, NEW B, Alike(A, B, p), NEW m \in Members,
         ~\E a \in A : a.kind = "MembershipLeave" /\ a.subject = Founder0,
         NEW kind, kind # "MemberReattestation",
         kind \notin {"FederationGenesis", "EpochAdvance", "MembershipAdmission", "MembershipActivation"}
  PROVE  Of(OfMember(A, m), kind) = Of(OfMember(B, m), kind)
<1>1. CurrentLineage(m, About(A, m)) = CurrentLineage(m, About(B, m))
  BY SameCurrentLineage
<1>2. Of(Prepare(A), kind) = Of(Prepare(B), kind)
  BY SameKept
<1>3. \A X : Of(OfMember(X, m), kind) =
             {a \in Of(Prepare(X), kind) : a.subject = m /\ a.lineage = CurrentLineage(m, About(X, m))}
  BY DEF OfMember, InLineage, About, BySubject, Of
<1> QED
  BY <1>1, <1>2, <1>3

--------------------------------------------------------------------------------
\* Two coordinators agree whether a member stands when they have the same evidence about it
\* apart from re-attestations and their own records, agree on its fence and see no generation
\* that it has not been asked about.
LEMMA StandsAlike ==
  ASSUME NEW m, NEW C, NEW D, NEW c1, NEW c2,
         c1.founder = c2.founder, c1.founderId = c2.founderId, c1.policy = c2.policy,
         c1.established = c2.established,
         \A kind \in {"MembershipRetirement", "MembershipLeave", "MembershipProposal",
                      "MembershipAcceptance", "MembershipEndorsement"} : Of(C, kind) = Of(D, kind),
         FenceInForce(m, C) <=> FenceInForce(m, D),
         ~(GenerationChanged(Facts(m, C, c1)) /\ ReconsentOnGenerationChange(c1.policy)),
         ~(GenerationChanged(Facts(m, D, c2)) /\ ReconsentOnGenerationChange(c2.policy))
  PROVE  Stands(m, C, c1) <=> Stands(m, D, c2)
<1>1. AdmissionValid(m, C, Facts(m, C, c1), c1) <=> AdmissionValid(m, D, Facts(m, D, c2), c2)
  BY SameAdmission
<1>2. /\ Of(C, "MembershipRetirement") = Of(D, "MembershipRetirement")
      /\ Of(C, "MembershipLeave") = Of(D, "MembershipLeave")
      /\ Of(C, "MembershipProposal") = Of(D, "MembershipProposal")
  OBVIOUS
<1> QED
  BY <1>1, <1>2, StandsMeans

\* No fence is of an epoch that is over: then a fence is in force wherever there is one.
LEMMA FencesInForce ==
  ASSUME NEW p, NEW A, Kept(A, p), NEW m \in Members,
         \A f \in A : f.kind = "MembershipFence" /\ f.issuer = f.subject => ~(f.epoch < CurrentEpoch(A))
  PROVE  FenceInForce(m, OfMember(A, m)) <=> Own(m, Of(OfMember(A, m), "MembershipFence")) # {}
<1> DEFINE C == OfMember(A, m)
<1>1. \A a \in C : a \in A /\ a.subject = m
  BY DEF OfMember, InLineage, About, BySubject, Prepare
<1>2. CurrentEpoch(A) \in Nat
  BY EpochIsHighest DEF Kept, Sound
<1>3. \A f \in Fences(m, C) : f \in Own(m, Of(C, "MembershipFence")) /\ f.epoch \in Nat /\ ~(f.epoch < CurrentEpoch(A))
  <2> SUFFICES ASSUME NEW f \in Fences(m, C)
               PROVE  f \in Own(m, Of(C, "MembershipFence")) /\ f.epoch \in Nat /\ ~(f.epoch < CurrentEpoch(A))
    OBVIOUS
  <2>1. f \in C /\ f.kind = "MembershipFence" /\ f.issuer \in {m, Coordinator}
    BY DEF Fences, Of
  <2>2. f \in A /\ f.subject = m
    BY <1>1, <2>1
  <2>3. f.issuer = m
    BY <2>1, <2>2 DEF Kept
  <2>4. f.epoch \in Nat
    BY <2>2 DEF Kept, Sound, Genuine
  <2> QED
    BY <2>1, <2>2, <2>3, <2>4 DEF Own, Of
<1>4. \A a \in Of(C, "MembershipActivation") : a.epoch \in Nat /\ a.epoch <= CurrentEpoch(A)
  BY <1>1 DEF Of, Kept, Sound, Genuine
<1>5. Own(m, Of(C, "MembershipFence")) \subseteq Fences(m, C)
  BY DEF Own, Of, Fences
<1> HIDE DEF C
<1>6. \A f \in Fences(m, C) : \A a \in Of(C, "MembershipActivation") : a.epoch <= f.epoch
  BY <1>2, <1>3, <1>4
<1>7. FenceInForce(m, C) <=> Own(m, Of(C, "MembershipFence")) # {}
  BY <1>3, <1>5, <1>6 DEF FenceInForce
<1> QED
  BY <1>7 DEF C

\* A context in which derive_state can derive the members from the evidence.
FoundedBy(ctx) == ctx.founder = Founder0 /\ ctx.founderId = GenesisRecord.id

\* As long as nobody has re-attested a generation other than the one proposed, none has
\* changed.
LEMMA NoGenerationChanged ==
  ASSUME NEW p \in Pools, NEW A, Kept(A, p), NEW m \in Members, NEW ctx, FoundedBy(ctx),
         \A a, b \in A : /\ a.kind = "MemberReattestation"
                        /\ b.kind \in {"MembershipProposal", "FederationGenesis"}
                        /\ a.subject = b.subject
                        => Generation(a.id) = Generation(b.id)
  PROVE  ~GenerationChanged(Facts(m, OfMember(A, m), ctx))
<1> DEFINE C == OfMember(A, m)
           f == Facts(m, C, ctx)
           q == OperativeProposal(m, C)
<1>1. \A a \in C : a \in A /\ a.subject = m /\ Genuine(a) /\ ValidArtifact(a)
  BY DEF OfMember, InLineage, About, BySubject, Prepare, Kept, Sound
<1>2. IsFiniteSet(C)
  <2>1. IsFiniteSet(A) /\ C \subseteq A
    BY <1>1 DEF Kept, Sound
  <2> QED
    BY <2>1, FS_Subset
<1>3. /\ f.proposal = q /\ f.acceptances = MatchingAcceptances(m, C, q)
      /\ f.admitted = AdmittedIdentity(m, q, ctx) /\ f.reattestations = Own(m, Of(C, "MemberReattestation"))
  BY FactFields
<1> HIDE DEF C, f, q
<1>4. SUFFICES ASSUME Generation(f.admitted) # 0
               PROVE  Generation(CurrentIdentity(f)) = Generation(f.admitted)
  BY DEF GenerationChanged, C, f
<1>5. Generation(NoIdentity) = 0 /\ NoProposal.id = NoIdentity
  BY ConstitutionsAssumption DEF Generation, NoIdentity, NoProposal
\* The admitted identity is a proposal's or the genesis record's.
<1>6. PICK b \in A : /\ b.kind \in {"MembershipProposal", "FederationGenesis"} /\ b.subject = m
                     /\ f.admitted = b.id
                     /\ q # NoProposal => b = q
  <2>1. CASE q = NoProposal /\ ctx.founder = m
    <3>1. f.admitted = GenesisRecord.id
      BY <1>3, <2>1 DEF AdmittedIdentity, FoundedBy
    <3>2. GenesisRecord \in A
      <4>1. GenesisRecord \in GenesisOf(A)
        BY DEF Kept
      <4> QED
        BY <4>1 DEF GenesisOf, Of
    <3>3. GenesisRecord.kind = "FederationGenesis" /\ GenesisRecord.subject = Founder0
      BY DEF GenesisRecord, Record
    <3> QED
      BY <2>1, <3>1, <3>2, <3>3 DEF FoundedBy
  <2>2. CASE ~(q = NoProposal /\ ctx.founder = m)
    <3>1. f.admitted = q.id
      BY <1>3, <2>2 DEF AdmittedIdentity
    <3>2. q # NoProposal
      BY <1>4, <1>5, <3>1
    <3>3. Sponsored(m, C) # {}
      BY <3>2 DEF q, OperativeProposal
    <3>4. q \in Sponsored(m, C)
      BY <1>1, <1>2, <3>3, OperativeIsSponsored DEF q
    <3>5. q \in C /\ q.kind = "MembershipProposal"
      BY <3>4 DEF Sponsored, Of
    <3> QED
      BY <1>1, <3>1, <3>5
  <2> QED
    BY <2>1, <2>2
<1>7. CASE f.reattestations # {}
  <2> DEFINE R == f.reattestations
             a == LatestReattestation(R)
  <2>1. R \subseteq C /\ \A x \in R : x.kind = "MemberReattestation"
    BY <1>3 DEF Own, Of
  <2>2. \A x \in R : x.epoch \in Nat /\ x.id.inc \in Nat /\ x.rank \in Nat
    BY <1>1, <2>1 DEF Genuine
  <2>3. a \in R
    <3>1. IsFiniteSet(R)
      BY <1>2, <2>1, FS_Subset
    <3> HIDE DEF R
    <3> QED  BY <1>7, <2>2, <3>1, LatestExists DEF R
  <2>4. CurrentIdentity(f) = a.id
    BY <1>7 DEF CurrentIdentity
  <2>5. a \in A /\ a.subject = m /\ a.kind = "MemberReattestation"
    BY <1>1, <2>1, <2>3
  <2> HIDE DEF a, R
  <2> QED
    BY <1>6, <2>4, <2>5
<1>8. CASE f.reattestations = {} /\ f.acceptances # {}
  <2> DEFINE R == f.acceptances
             a == FirstByEvidence(R)
  <2>1. R \subseteq C /\ \A x \in R : x.kind = "MembershipAcceptance" /\ x.id.con = q.id.con
    BY <1>3 DEF MatchingAcceptances, Own, Of
  <2>2. a \in R
    <3>1. \A x \in R : x.rank \in Nat
      BY <1>1, <2>1 DEF Genuine
    <3> HIDE DEF R
    <3> QED  BY <1>8, <3>1, FirstExists DEF R
  <2>3. CurrentIdentity(f) = a.id
    BY <1>8 DEF CurrentIdentity
  <2>4. a.id.con = q.id.con /\ a.id.con \in Revisions
    BY <1>1, <2>1, <2>2 DEF ValidArtifact
  <2>5. q # NoProposal
    BY <2>4, ConstitutionsAssumption DEF NoProposal, NoIdentity
  <2>6. f.admitted = q.id
    BY <1>6, <2>5
  <2> HIDE DEF a, R
  <2> QED
    BY <2>3, <2>4, <2>6 DEF Generation
<1>9. CASE f.reattestations = {} /\ f.acceptances = {}
  BY <1>9 DEF CurrentIdentity
<1> QED
  BY <1>7, <1>8, <1>9

--------------------------------------------------------------------------------
\* None of the named exceptions holds of the evidence: the founder has not left, no member's
\* own fence is of an epoch that is over, and no new generation waits for consent.
Orderly(A) ==
  /\ ~\E a \in A : a.kind = "MembershipLeave" /\ a.subject = Founder0
  /\ \A f \in A : f.kind = "MembershipFence" /\ f.issuer = f.subject => ~(f.epoch < CurrentEpoch(A))
  /\ ReconsentOnGenerationChange(ConfiguredPolicy) =>
       \A a, b \in A : /\ a.kind = "MemberReattestation"
                      /\ b.kind \in {"MembershipProposal", "FederationGenesis"}
                      /\ a.subject = b.subject
                      => Generation(a.id) = Generation(b.id)

LEMMA OrderlyAlike ==
  ASSUME NEW p, NEW A, NEW B, Alike(A, B, p), Orderly(A)
  PROVE  Orderly(B)
<1>0. Alike(B, A, p) /\ p \in Pools /\ Kept(A, p) /\ Kept(B, p)
  BY AlikeIsSymmetric DEF Alike
<1>1. ~\E b \in B : b.kind = "MembershipLeave" /\ b.subject = Founder0
  BY <1>0, SameDeparture DEF Orderly
<1>2. ASSUME NEW f \in B, f.kind = "MembershipFence", f.issuer = f.subject
      PROVE  ~(f.epoch < CurrentEpoch(B))
  <2>1. f.issuer # Coordinator
    BY <1>0, <1>2 DEF Kept
  <2>2. PICK g \in A : Twin(f, g)
    BY <1>0, <2>1, Counterpart
  <2>3. g.kind = "MembershipFence" /\ g.issuer = g.subject /\ g.epoch = f.epoch
    BY <1>2, <2>2 DEF Twin
  <2> QED
    BY <2>3, SameEpoch DEF Orderly
<1>3. ASSUME NEW a \in B, NEW b \in B, ReconsentOnGenerationChange(ConfiguredPolicy),
             a.kind = "MemberReattestation", b.kind \in {"MembershipProposal", "FederationGenesis"},
             a.subject = b.subject
      PROVE  Generation(a.id) = Generation(b.id)
  <2>1. PICK x \in A : x.kind = a.kind /\ x.subject = a.subject /\ x.id = a.id
    <3>1. a.issuer # Coordinator
      BY <1>0, <1>3 DEF Kept
    <3>2. PICK x \in A : Twin(a, x)
      BY <1>0, <3>1, Counterpart
    <3>3. x = Placed(a, a.rank, x.nth)
      BY <1>3, <3>1, <3>2 DEF Twin
    <3>4. Placed(a, a.rank, x.nth).id = a.id
      BY DEF Placed
    <3> QED
      BY <3>2, <3>3, <3>4 DEF Twin
  <2>2. b \in A
    <3>1. CASE b.kind = "MembershipProposal"
      <4>1. b.issuer # Coordinator
        BY <1>0, <3>1 DEF Kept
      <4>2. PICK y \in A : Twin(b, y)
        BY <1>0, <4>1, Counterpart
      <4> QED
        BY <3>1, <4>1, <4>2 DEF Twin
    <3>2. CASE b.kind = "FederationGenesis"
      <4>1. b \in GenesisOf(B)
        BY <3>2 DEF GenesisOf, Of
      <4>2. b \in GenesisOf(A)
        BY <1>0, <4>1 DEF Kept
      <4> QED
        BY <4>2 DEF GenesisOf, Of
    <3> QED
      BY <1>3, <3>1, <3>2
  <2> QED
    BY <1>3, <2>1, <2>2 DEF Orderly
<1> QED
  BY <1>1, <1>2, <1>3 DEF Orderly

\* Whom the evidence is about and the genesis record may stand.
LEMMA WhoStandsIsDerived ==
  ASSUME NEW p, NEW A, Kept(A, p), NEW m, NEW ctx, FoundedBy(ctx), Stands(m, OfMember(A, m), ctx)
  PROVE  \/ m = Founder0
         \/ \E a \in Prepare(A) : a.kind = "MembershipProposal" /\ a.subject = m
<1>1. Of(OfMember(A, m), "MembershipProposal") # {} \/ ctx.founder = m
  BY StandsMeans
<1> QED
  BY <1>1 DEF FoundedBy, OfMember, InLineage, About, BySubject, Of

\* A step of the fixpoint finds the same members in the evidence of both.
LEMMA SameStep ==
  ASSUME NEW p, NEW A, NEW B, Alike(A, B, p), Orderly(A), NEW X,
         NEW m \in StandingStep(Prepare(A), ConfiguredPolicy, Subjects(Prepare(A), {}), X)
  PROVE  m \in StandingStep(Prepare(B), ConfiguredPolicy, Subjects(Prepare(B), {}), X)
<1> DEFINE c1 == StandingContext(Prepare(A), ConfiguredPolicy, X)
           c2 == StandingContext(Prepare(B), ConfiguredPolicy, X)
<1>0. p \in Pools /\ Kept(A, p) /\ Kept(B, p) /\ Orderly(B)
  BY OrderlyAlike DEF Alike
<1>1. /\ FoundedBy(c1) /\ FoundedBy(c2)
      /\ c1.policy = ConfiguredPolicy /\ c2.policy = ConfiguredPolicy
      /\ c1.established = X /\ c2.established = X
  <2>1. /\ c1.founder = Founder(Prepare(A)) /\ c1.founderId = FounderIdentity(Prepare(A))
        /\ c2.founder = Founder(Prepare(B)) /\ c2.founderId = FounderIdentity(Prepare(B))
        /\ c1.policy = ConfiguredPolicy /\ c2.policy = ConfiguredPolicy
        /\ c1.established = X /\ c2.established = X
    BY DEF StandingContext, Context
  <2> HIDE DEF c1, c2
  <2> QED
    BY <1>0, <2>1, GenesisIsKept DEF FoundedBy
<1>2. Stands(m, OfMember(A, m), c1) /\ m \in Subjects(Prepare(A), {})
  BY DEF StandingStep, OfMember, About
<1> HIDE DEF c1, c2
<1>3. m \in Members
  <2>1. \A a \in A : Genuine(a)
    BY <1>0 DEF Kept, Sound
  <2> QED
    BY <1>2, <2>1, SubjectsAreMembers
<1>4. \A kind \in {"MembershipRetirement", "MembershipLeave", "MembershipProposal",
                    "MembershipAcceptance", "MembershipEndorsement", "MembershipFence"} :
        Of(OfMember(A, m), kind) = Of(OfMember(B, m), kind)
  BY <1>3, SameOfMember DEF Orderly
<1>5. FenceInForce(m, OfMember(A, m)) <=> FenceInForce(m, OfMember(B, m))
  <2>1. FenceInForce(m, OfMember(A, m)) <=> Own(m, Of(OfMember(A, m), "MembershipFence")) # {}
    BY <1>0, <1>3, FencesInForce DEF Orderly
  <2>2. FenceInForce(m, OfMember(B, m)) <=> Own(m, Of(OfMember(B, m), "MembershipFence")) # {}
    BY <1>0, <1>3, FencesInForce DEF Orderly
  <2>3. Of(OfMember(A, m), "MembershipFence") = Of(OfMember(B, m), "MembershipFence")
    BY <1>4
  <2> QED
    BY <2>1, <2>2, <2>3
<1>6. ReconsentOnGenerationChange(ConfiguredPolicy) =>
        /\ ~GenerationChanged(Facts(m, OfMember(A, m), c1))
        /\ ~GenerationChanged(Facts(m, OfMember(B, m), c2))
  BY <1>0, <1>1, <1>3, NoGenerationChanged DEF Orderly
<1>7. Stands(m, OfMember(B, m), c2)
  <2>1. c1.founder = c2.founder /\ c1.founderId = c2.founderId
    BY <1>1 DEF FoundedBy
  <2> QED
    BY <1>1, <1>2, <1>4, <1>5, <1>6, <2>1, StandsAlike
<1>8. m \in Subjects(Prepare(B), {})
  <2>1. m # Coordinator
    BY <1>3, CoordinatorIsNil
  <2>2. \E b \in Prepare(B) : b.subject = m
    <3>1. CASE m = Founder0
      <4>1. GenesisRecord \in GenesisOf(Prepare(B)) /\ GenesisRecord.subject = Founder0
        BY <1>0, GenesisIsKept DEF GenesisRecord, Record
      <4> QED
        BY <3>1, <4>1 DEF GenesisOf, Of
    <3>2. CASE \E a \in Prepare(B) : a.kind = "MembershipProposal" /\ a.subject = m
      BY <3>2
    <3> QED
      BY <1>0, <1>1, <1>7, <3>1, <3>2, WhoStandsIsDerived
  <2> QED
    BY <2>1, <2>2 DEF Subjects
<1> QED
  BY <1>7, <1>8 DEF StandingStep, c2, OfMember, About

\* So both have the same members standing.
LEMMA SameStanding ==
  ASSUME NEW p, NEW A, NEW B, Alike(A, B, p), Orderly(A)
  PROVE  StandingFixpoint(Prepare(A), ConfiguredPolicy, Subjects(Prepare(A), {})) =
           StandingFixpoint(Prepare(B), ConfiguredPolicy, Subjects(Prepare(B), {}))
<1> DEFINE S == Subjects(Prepare(A), {})
           T == Subjects(Prepare(B), {})
<1>1. Alike(B, A, p) /\ Orderly(B)
  BY AlikeIsSymmetric, OrderlyAlike
<1>2. \A X : StandingStep(Prepare(A), ConfiguredPolicy, S, X) = StandingStep(Prepare(B), ConfiguredPolicy, T, X)
  <2> SUFFICES ASSUME NEW X
               PROVE  StandingStep(Prepare(A), ConfiguredPolicy, S, X) = StandingStep(Prepare(B), ConfiguredPolicy, T, X)
    OBVIOUS
  <2>1. StandingStep(Prepare(A), ConfiguredPolicy, S, X) \subseteq StandingStep(Prepare(B), ConfiguredPolicy, T, X)
    BY SameStep
  <2>2. StandingStep(Prepare(B), ConfiguredPolicy, T, X) \subseteq StandingStep(Prepare(A), ConfiguredPolicy, S, X)
    BY <1>1, SameStep
  <2> HIDE DEF S, T
  <2> QED
    BY <2>1, <2>2
<1> HIDE DEF S, T
<1>3. StandingFixpoint(Prepare(A), ConfiguredPolicy, S) = StandingFixpoint(Prepare(B), ConfiguredPolicy, T)
  BY <1>2, FixpointAgrees
<1> QED
  BY <1>3 DEF S, T

--------------------------------------------------------------------------------
\* At every coordinator: the evidence is what members sent and what decide_locked and
\* advance_epoch added, and the state is the one derived from it.
EvidenceIsKept ==
  /\ pool \in Pools
  /\ held = [r \in Replicas |-> held[r]]
  /\ derived = [r \in Replicas |-> derived[r]]
  /\ \A r \in Replicas : /\ Kept(held[r], pool)
                        /\ derived[r] = View(ConfiguredPolicy, held[r], {}, {}, {}, 1)

LEMMA GenesisAlone ==
  ASSUME NEW p
  PROVE  Kept({GenesisRecord}, p)
<1> DEFINE g == GenesisRecord
           A == {g}
<1>1. /\ g.kind = "FederationGenesis" /\ g.subject = Founder0 /\ g.issuer = Coordinator
      /\ g.epoch = 1 /\ g.rank = 0 /\ g.at = NoStamp /\ g.id.inc = 1
  BY DEF GenesisRecord, Record
<1> HIDE DEF g
<1>2. Genuine(g)
  BY <1>1, GenesisAssumption DEF Genuine
<1>3. Sound(A)
  BY <1>1, <1>2, FS_Singleton DEF Sound, Outranks
<1>4. GenesisOf(A) = {g}
  BY <1>1 DEF GenesisOf, Of
<1> HIDE DEF A
<1>5. \A a \in A : a = g
  BY DEF A
<1>6. Kept(A, p)
  BY <1>1, <1>3, <1>4, <1>5 DEF Kept, g
<1> QED
  BY <1>6 DEF A, g

LEMMA InitKeeps == Init => EvidenceIsKept
<1> SUFFICES ASSUME Init PROVE EvidenceIsKept
  OBVIOUS
<1> DEFINE start == Decide(ConfiguredPolicy, {GenesisRecord}, {}, {}, {}, 1)
<1>1. Kept(start.set, pool) /\ start.view = View(ConfiguredPolicy, start.set, {}, {}, {}, 1)
  BY GenesisAlone, DecideKeeps
<1>2. /\ pool \in Pools
      /\ held = [r \in Replicas |-> start.set] /\ derived = [r \in Replicas |-> start.view]
  BY DEF Init
<1> HIDE DEF start
<1> QED
  BY <1>1, <1>2 DEF EvidenceIsKept

\* A coordinator that moves to kept evidence and the state derived from it.
LEMMA ApplyKeeps ==
  ASSUME EvidenceIsKept, NEW r \in Replicas, NEW outcome, Apply(r, outcome),
         Kept(outcome.set, pool),
         outcome.view = View(ConfiguredPolicy, outcome.set, {}, {}, {}, 1)
  PROVE  EvidenceIsKept'
<1>1. pool' = pool
  BY DEF Apply
<1>2. \A s \in Replicas : /\ held'[s] = IF s = r THEN outcome.set ELSE held[s]
                          /\ derived'[s] = IF s = r THEN outcome.view ELSE derived[s]
  BY DEF Apply, EvidenceIsKept
<1>3. held' = [s \in Replicas |-> held'[s]] /\ derived' = [s \in Replicas |-> derived'[s]]
  BY DEF Apply, EvidenceIsKept
<1>4. \A s \in Replicas : /\ Kept(held'[s], pool)
                          /\ derived'[s] = View(ConfiguredPolicy, held'[s], {}, {}, {}, 1)
  BY <1>2 DEF EvidenceIsKept
<1> QED
  BY <1>1, <1>3, <1>4 DEF EvidenceIsKept

\* What arrives is what a member sent.
LEMMA ArrivedIsFromPool ==
  ASSUME NEW r, NEW a \in pool
  PROVE  FromPool(Arrived(r, a), pool)
<1> DEFINE x == Arrived(r, a)
           n == 1 + Cardinality(Of(BySubject(held[r], a.subject), a.kind))
<1>1. CASE a.kind = "MemberReattestation"
  <2>1. x = Placed(a, a.rank, n)
    BY <1>1 DEF Arrived
  <2> HIDE DEF n, x
  <2>2. x.nth = n
    BY <2>1 DEF Placed
  <2> QED
    BY <1>1, <2>1, <2>2 DEF FromPool, x
<1>2. CASE a.kind # "MemberReattestation"
  BY <1>2 DEF Arrived, FromPool
<1> QED
  BY <1>1, <1>2

LEMMA DeliverKeeps ==
  ASSUME EvidenceIsKept, NEW r \in Replicas, NEW a \in pool, Deliver(r, a)
  PROVE  EvidenceIsKept'
<1>1. CASE Received(r, a)
  BY <1>1 DEF Deliver, vars, EvidenceIsKept
<1>2. CASE ~Received(r, a)
  <2> DEFINE x == Arrived(r, a)
             outcome == Decide(ConfiguredPolicy, held[r] \union {x}, {}, {}, {}, 1)
  <2>1. Apply(r, outcome)
    BY <1>2 DEF Deliver
  <2>2. FromPool(x, pool)
    BY ArrivedIsFromPool
  <2> HIDE DEF x
  <2>3. Kept(held[r] \union {x}, pool)
    BY <2>2, ArrivalKeeps DEF EvidenceIsKept
  <2>4. Kept(outcome.set, pool) /\ outcome.view = View(ConfiguredPolicy, outcome.set, {}, {}, {}, 1)
    BY <2>3, DecideKeeps
  <2> HIDE DEF outcome
  <2> QED
    BY <2>1, <2>4, ApplyKeeps
<1> QED
  BY <1>1, <1>2

LEMMA AdvanceEpochKeeps ==
  ASSUME EvidenceIsKept, NEW r \in Replicas, NEW e \in Epochs, AdvanceEpoch(r, e)
  PROVE  EvidenceIsKept'
<1> DEFINE record == Record("EpochAdvance", Coordinator, Coordinator, 0, e, NoIdentity, "operator", NoStamp)
           new == Recordable(held[r], {record})
           A == held[r] \union new
           outcome == [set |-> A, view |-> View(ConfiguredPolicy, A, {}, {}, {}, 1)]
<1>1. Apply(r, outcome) /\ e > derived[r].epoch
  BY DEF AdvanceEpoch
<1>2. e \in Nat /\ e # 0
  <2>1. derived[r].epoch = CurrentEpoch(held[r])
    BY ViewFields, AdvancesAreKept DEF EvidenceIsKept, Kept, Sound
  <2>2. CurrentEpoch(held[r]) \in Nat
    BY EpochIsHighest DEF EvidenceIsKept, Kept, Sound
  <2> HIDE DEF outcome
  <2> QED
    BY <1>1, <2>1, <2>2, PoolsAreSound
<1>3. Genuine(record) /\ record.kind = "EpochAdvance"
  <2>1. /\ record.kind = "EpochAdvance" /\ record.subject = Coordinator /\ record.issuer = Coordinator
        /\ record.epoch = e /\ record.rank = 0 /\ record.at = NoStamp
    BY DEF Record
  <2> HIDE DEF record
  <2> QED
    BY <1>2, <2>1 DEF Genuine
<1>4. A = held[r] \/ A = held[r] \union {record}
  BY DEF Recordable
<1>5. Kept(A, pool)
  <2> HIDE DEF A, record
  <2> QED
    BY <1>3, <1>4, AdvanceKeeps DEF EvidenceIsKept
<1>6. outcome.set = A /\ outcome.view = View(ConfiguredPolicy, A, {}, {}, {}, 1)
  OBVIOUS
<1> HIDE DEF outcome, A
<1> QED
  BY <1>1, <1>5, <1>6, ApplyKeeps

\* What a coordinator holds is always what members sent and what it decided on it, and its
\* state is always the one derived from that, however often it decided.
THEOREM EvidenceKept == Spec => []EvidenceIsKept
<1>1. EvidenceIsKept /\ [Next]_vars => EvidenceIsKept'
  <2> SUFFICES ASSUME EvidenceIsKept, [Next]_vars PROVE EvidenceIsKept'
    OBVIOUS
  <2>1. ASSUME NEW r \in Replicas, NEW a \in pool, Deliver(r, a) PROVE EvidenceIsKept'
    BY <2>1, DeliverKeeps
  <2>2. ASSUME NEW r \in Replicas, NEW e \in Epochs, AdvanceEpoch(r, e) PROVE EvidenceIsKept'
    BY <2>2, AdvanceEpochKeeps
  <2>3. CASE UNCHANGED vars
    BY <2>3 DEF vars, EvidenceIsKept
  <2> QED
    BY <2>1, <2>2, <2>3 DEF Next
<1> QED
  BY <1>1, InitKeeps, PTL DEF Spec

\* The evidence of a coordinator, in the terms of the lemmas above.
LEMMA EvidenceIsAlike ==
  ASSUME EvidenceIsKept, NEW r \in Replicas, NEW s \in Replicas, Evidence(r) = Evidence(s),
         ~OldFence(r), ~Reconstituted(r), ~FounderLeft(r)
  PROVE  Alike(held[r], held[s], pool) /\ Orderly(held[r])
<1>1. Gathered(held[r]) = Gathered(held[s])
  BY DEF Evidence, Gathered
<1>2. Alike(held[r], held[s], pool)
  BY <1>1 DEF EvidenceIsKept, Alike
<1>3. derived[r].epoch = CurrentEpoch(held[r])
  BY ViewFields, AdvancesAreKept DEF EvidenceIsKept, Kept, Sound
<1> QED
  BY <1>2, <1>3 DEF Orderly, OldFence, Reconstituted, FounderLeft

\* Who stands does not depend on the order of the evidence, nor on when the epoch moved:
\* coordinators that have accepted the same evidence have the same members standing, whatever
\* decisions each of them has written, unless a fence is of an epoch that is over, a new
\* generation waits for consent or the founder has left.
THEOREM SameEvidenceSameStandingHolds == Spec => []SameEvidenceSameStanding
<1>1. EvidenceIsKept => SameEvidenceSameStanding
  <2> SUFFICES ASSUME EvidenceIsKept, NEW r \in Replicas, NEW s \in Replicas,
                      Evidence(r) = Evidence(s), ~OldFence(r), ~Reconstituted(r), ~FounderLeft(r)
               PROVE  derived[r].established = derived[s].established
    BY DEF SameEvidenceSameStanding
  <2>1. Alike(held[r], held[s], pool) /\ Orderly(held[r])
    BY EvidenceIsAlike
  <2>2. \A q \in Replicas : derived[q].established =
          StandingFixpoint(Prepare(held[q]), ConfiguredPolicy, Subjects(Prepare(held[q]), {}))
    <3> SUFFICES ASSUME NEW q \in Replicas
                 PROVE  derived[q].established =
                          StandingFixpoint(Prepare(held[q]), ConfiguredPolicy, Subjects(Prepare(held[q]), {}))
      OBVIOUS
    <3>1. StatePolicy(Prepare(held[q]), ConfiguredPolicy) = ConfiguredPolicy
      BY PreparedIsSound DEF EvidenceIsKept, Kept
    <3>2. derived[q] = View(ConfiguredPolicy, held[q], {}, {}, {}, 1)
      BY DEF EvidenceIsKept
    <3> QED
      BY <3>1, <3>2, ViewFields
  <2> QED
    BY <2>1, <2>2, SameStanding
<1> QED
  BY <1>1, EvidenceKept, PTL

--------------------------------------------------------------------------------
\* Nothing that a coordinator holds is malformed, and no activation is of epoch 0.
Whole(A) ==
  /\ \A a \in A : ValidArtifact(a)
  /\ \A a \in A : a.kind = "MembershipActivation" => a.epoch # 0

\* Nothing is left to decide.
Complete(A, v) == Recordable(A, Batch(ConfiguredPolicy, A, v)) = {}

LEMMA DecideIsWhole ==
  ASSUME NEW A, Sound(A), Whole(A)
  PROVE  LET x == Decide(ConfiguredPolicy, A, {}, {}, {}, 1)
         IN  Whole(x.set) /\ Complete(x.set, x.view)
<1> DEFINE x == Decide(ConfiguredPolicy, A, {}, {}, {}, 1)
<1>1. /\ \A a \in x.set : ValidArtifact(a)
      /\ \A a \in x.set \ A : a.kind = "MembershipActivation" => a.epoch = CurrentEpoch(A)
      /\ Recordable(x.set, Batch(ConfiguredPolicy, x.set, x.view)) = {}
  <2>1. IsFiniteSet({}) /\ \A l \in {} : l.holder \in Members
    BY FS_EmptySet
  <2> QED
    BY <2>1, DecideCompletes DEF Whole
<1>2. CurrentEpoch(A) # 0
  BY EpochIsHighest DEF Sound
<1> HIDE DEF x
<1> QED
  BY <1>1, <1>2 DEF Whole, Complete, x

\* Every coordinator has decided all it can, unless its operator has advanced the epoch: that
\* decides nothing.
DecisionsAreWhole ==
  \A r \in Replicas : /\ Whole(held[r])
                      /\ Moved(r) \/ Complete(held[r], derived[r])

LEMMA InitIsWhole == Init => DecisionsAreWhole
<1> SUFFICES ASSUME Init PROVE DecisionsAreWhole
  OBVIOUS
<1> DEFINE A == {GenesisRecord}
           start == Decide(ConfiguredPolicy, A, {}, {}, {}, 1)
<1>1. Sound(A)
  BY GenesisAlone DEF Kept
<1>2. Whole(A)
  <2>1. GenesisRecord.kind = "FederationGenesis"
    BY DEF GenesisRecord, Record
  <2> QED
    BY <2>1, PoolsAreSound DEF Whole
<1>3. held = [r \in Replicas |-> start.set] /\ derived = [r \in Replicas |-> start.view]
  BY DEF Init
<1> HIDE DEF A
<1>4. Whole(start.set) /\ Complete(start.set, start.view)
  BY <1>1, <1>2, DecideIsWhole
<1> HIDE DEF start
<1> QED
  BY <1>3, <1>4 DEF DecisionsAreWhole

LEMMA ApplyIsWhole ==
  ASSUME EvidenceIsKept, DecisionsAreWhole, NEW r \in Replicas, NEW outcome, Apply(r, outcome),
         Whole(outcome.set),
         \/ \E a \in outcome.set : a.kind = "EpochAdvance"
         \/ Complete(outcome.set, outcome.view)
  PROVE  DecisionsAreWhole'
<1>1. \A s \in Replicas : /\ held'[s] = IF s = r THEN outcome.set ELSE held[s]
                          /\ derived'[s] = IF s = r THEN outcome.view ELSE derived[s]
  BY DEF Apply, EvidenceIsKept
<1> SUFFICES ASSUME NEW s \in Replicas
             PROVE  /\ Whole(held'[s])
                    /\ \/ \E a \in held'[s] : a.kind = "EpochAdvance"
                       \/ Complete(held'[s], derived'[s])
  BY DEF DecisionsAreWhole, Moved
<1>2. CASE s = r
  BY <1>1, <1>2
<1>3. CASE s # r
  BY <1>1, <1>3 DEF DecisionsAreWhole, Moved
<1> QED
  BY <1>2, <1>3

LEMMA DeliverIsWhole ==
  ASSUME EvidenceIsKept, DecisionsAreWhole, NEW r \in Replicas, NEW a \in pool, Deliver(r, a)
  PROVE  DecisionsAreWhole'
<1>1. CASE Received(r, a)
  BY <1>1 DEF Deliver, vars, DecisionsAreWhole, Moved
<1>2. CASE ~Received(r, a)
  <2> DEFINE x == Arrived(r, a)
             A == held[r] \union {x}
             outcome == Decide(ConfiguredPolicy, A, {}, {}, {}, 1)
  <2>1. Apply(r, outcome)
    BY <1>2 DEF Deliver
  <2>2. FromPool(x, pool)
    BY ArrivedIsFromPool
  <2> HIDE DEF x
  <2>3. Sound(A)
    BY <2>2, ArrivalKeeps DEF EvidenceIsKept, Kept
  <2>4. Whole(A)
    <3>1. Sendable(x)
      BY <2>2, FromPoolIs DEF EvidenceIsKept
    <3> QED
      BY <3>1 DEF Whole, DecisionsAreWhole, Sendable, MemberKinds
  <2> HIDE DEF A
  <2>5. Whole(outcome.set) /\ Complete(outcome.set, outcome.view)
    BY <2>3, <2>4, DecideIsWhole
  <2> HIDE DEF outcome
  <2> QED
    BY <2>1, <2>5, ApplyIsWhole
<1> QED
  BY <1>1, <1>2

LEMMA AdvanceEpochIsWhole ==
  ASSUME EvidenceIsKept, DecisionsAreWhole, NEW r \in Replicas, NEW e \in Epochs, AdvanceEpoch(r, e)
  PROVE  DecisionsAreWhole'
<1> DEFINE record == Record("EpochAdvance", Coordinator, Coordinator, 0, e, NoIdentity, "operator", NoStamp)
           new == Recordable(held[r], {record})
           A == held[r] \union new
           outcome == [set |-> A, view |-> View(ConfiguredPolicy, A, {}, {}, {}, 1)]
<1>1. Apply(r, outcome)
  BY DEF AdvanceEpoch
<1>2. \A a \in new : ValidArtifact(a) /\ a.kind = "EpochAdvance"
  <2>1. record.kind = "EpochAdvance"
    BY DEF Record
  <2> HIDE DEF record
  <2> QED
    BY <2>1 DEF Recordable
<1> HIDE DEF new
<1>3. Whole(A)
  BY <1>2 DEF Whole, DecisionsAreWhole
<1>4. CASE new = {}
  <2>1. A = held[r]
    BY <1>4
  <2>2. outcome.view = derived[r] /\ outcome.set = held[r]
    BY <2>1 DEF EvidenceIsKept
  <2>3. (\E a \in A : a.kind = "EpochAdvance") \/ Complete(A, outcome.view)
    <3> HIDE DEF A, outcome
    <3> QED  BY <2>1, <2>2 DEF DecisionsAreWhole, Moved
  <2>4. outcome.set = A
    BY <2>1, <2>2
  <2> HIDE DEF outcome, A
  <2> QED
    BY <1>1, <1>3, <2>3, <2>4, ApplyIsWhole
<1>5. CASE new # {}
  <2>1. \E a \in A : a.kind = "EpochAdvance"
    BY <1>2, <1>5
  <2>2. outcome.set = A
    OBVIOUS
  <2> HIDE DEF outcome, A
  <2> QED
    BY <1>1, <1>3, <2>1, <2>2, ApplyIsWhole
<1> QED
  BY <1>4, <1>5

\* decide_locked leaves nothing to decide: a coordinator whose epoch has not moved has
\* recorded every admission and activation that its evidence calls for, whatever arrived in
\* whatever order, and the bound on its passes cut none of them off.
THEOREM DecisionsWhole == Spec => []DecisionsAreWhole
<1>1. EvidenceIsKept /\ DecisionsAreWhole /\ [Next]_vars => DecisionsAreWhole'
  <2> SUFFICES ASSUME EvidenceIsKept, DecisionsAreWhole, [Next]_vars PROVE DecisionsAreWhole'
    OBVIOUS
  <2>1. ASSUME NEW r \in Replicas, NEW a \in pool, Deliver(r, a) PROVE DecisionsAreWhole'
    BY <2>1, DeliverIsWhole
  <2>2. ASSUME NEW r \in Replicas, NEW e \in Epochs, AdvanceEpoch(r, e) PROVE DecisionsAreWhole'
    BY <2>2, AdvanceEpochIsWhole
  <2>3. CASE UNCHANGED vars
    BY <2>3 DEF vars, DecisionsAreWhole, Moved
  <2> QED
    BY <2>1, <2>2, <2>3 DEF Next
<1> QED
  BY <1>1, InitIsWhole, EvidenceKept, PTL DEF Spec

--------------------------------------------------------------------------------
\* A re-attestation that one takes into account has its twin with the other, at the same
\* place among the identifiers.
LEMMA SameReattestation ==
  ASSUME NEW p, NEW A, NEW B, Alike(A, B, p), Orderly(A), NEW m \in Members,
         NEW a \in Of(OfMember(A, m), "MemberReattestation")
  PROVE  \E b \in Of(OfMember(B, m), "MemberReattestation") :
           b.issuer = a.issuer /\ b.epoch = a.epoch /\ b.id = a.id /\ b.rank = a.rank
<1>1. /\ a \in Prepare(A) /\ a \in A /\ a.kind = "MemberReattestation"
      /\ a.subject = m /\ a.lineage = CurrentLineage(m, About(A, m))
  BY DEF Of, OfMember, InLineage, About, BySubject, Prepare
<1>2. a.issuer # Coordinator
  BY <1>1 DEF Alike, Kept
<1>3. PICK b \in B : Twin(a, b)
  BY <1>1, <1>2, Counterpart
<1>4. /\ EvidenceId(a) = EvidenceId(b) /\ a.at = b.at
      /\ b.kind = a.kind /\ b.subject = a.subject /\ b.issuer = a.issuer
      /\ b.lineage = a.lineage /\ b.epoch = a.epoch
      /\ b = Placed(a, a.rank, b.nth)
  BY <1>1, <1>2, <1>3 DEF Twin
<1>5. b \in Prepare(B)
  BY <1>1, <1>2, <1>4, PreparedAlike
<1>6. CurrentLineage(m, About(A, m)) = CurrentLineage(m, About(B, m))
  BY SameCurrentLineage DEF Orderly
<1>7. b \in Of(OfMember(B, m), "MemberReattestation")
  BY <1>1, <1>4, <1>5, <1>6 DEF Of, OfMember, InLineage, About, BySubject
<1>8. b.id = a.id /\ b.rank = a.rank
  <2> DEFINE x == Placed(a, a.rank, b.nth)
  <2>1. x.id = a.id /\ x.rank = a.rank
    BY DEF Placed
  <2> HIDE DEF x
  <2>2. b = x
    BY <1>4 DEF x
  <2> QED
    BY <2>1, <2>2
<1> QED
  BY <1>4, <1>7, <1>8

\* The re-attestations of a member are its own: their place among the identifiers tells which.
LEMMA PlaceTells ==
  ASSUME NEW p \in Pools, NEW a, NEW b, FromPool(a, p), FromPool(b, p),
         a.kind = "MemberReattestation", b.kind = "MemberReattestation",
         a.subject = b.subject, a.rank = b.rank
  PROVE  a.id = b.id /\ a.epoch = b.epoch
<1>1. PICK x \in p : /\ EvidenceId(a) = EvidenceId(x) /\ a.at = x.at
                     /\ a.kind = x.kind /\ a.rank = x.rank /\ a.subject = x.subject
                     /\ a = Placed(x, x.rank, a.nth)
  BY FromPoolIs
<1>2. PICK y \in p : /\ EvidenceId(b) = EvidenceId(y) /\ b.at = y.at
                     /\ b.kind = y.kind /\ b.rank = y.rank /\ b.subject = y.subject
                     /\ b = Placed(y, y.rank, b.nth)
  BY FromPoolIs
<1>3. EvidenceId(x) = EvidenceId(y)
  <2>1. /\ x.kind = "MemberReattestation" /\ y.kind = x.kind
        /\ x.subject = y.subject /\ x.rank = y.rank
    BY <1>1, <1>2
  <2>2. \A u, w \in p : /\ u.kind = "MemberReattestation" /\ w.kind = u.kind
                        /\ u.subject = w.subject /\ u.rank = w.rank
                        => EvidenceId(u) = EvidenceId(w)
    BY PoolsAreSound
  <2> HIDE DEF EvidenceId
  <2> QED
    BY <2>1, <2>2
<1>4. x.issuer # Coordinator
  <2>1. Sendable(x)
    BY PoolsAreSound
  <2> QED
    BY <2>1, CoordinatorIsNil DEF Sendable
<1>5. x.at = y.at
  BY <1>1, <1>3, <1>4, SameIdentifier DEF StampedKinds
<1>6. x = y
  BY <1>3, <1>5, PoolsAreSound DEF SameContent
<1>7. /\ Placed(x, x.rank, a.nth).id = x.id /\ Placed(x, x.rank, a.nth).epoch = x.epoch
      /\ Placed(x, x.rank, b.nth).id = x.id /\ Placed(x, x.rank, b.nth).epoch = x.epoch
  BY DEF Placed
<1> HIDE DEF Placed
<1> QED
  BY <1>1, <1>2, <1>6, <1>7

\* The last re-attestation in the order of evidence.
LEMMA LastExists ==
  ASSUME NEW S, S # {}, IsFiniteSet(S), \A a \in S : a.rank \in Nat
  PROVE  LET x == LastIn("evidence", S)
         IN  x \in S /\ \A b \in S : b.rank <= x.rank
<1> DEFINE key == [a \in S |-> a.rank]
<1>1. \A a \in S : key[a] = a.rank
  OBVIOUS
<1>2. \E a \in S : \A b \in S : key[b] <= key[a]
  <2> HIDE DEF key
  <2> QED  BY <1>1, GreatestKey
<1>3. \E a \in S : \A b \in S : b.rank <= a.rank
  BY <1>1, <1>2
<1> QED
  BY <1>3 DEF LastIn

\* A member's own re-attestations.
Restated(A, m) == Own(m, Of(OfMember(A, m), "MemberReattestation"))

LEMMA RestatedMeans ==
  ASSUME NEW p, NEW A, Kept(A, p), NEW m \in Members
  PROVE  /\ IsFiniteSet(Restated(A, m))
         /\ \A a \in Restated(A, m) :
              /\ a.epoch \in Nat /\ a.id.inc \in Nat /\ a.rank \in Nat
              /\ a.kind = "MemberReattestation" /\ a.subject = m /\ FromPool(a, p)
<1>1. \A a \in Restated(A, m) : a \in A /\ a.subject = m /\ a.kind = "MemberReattestation" /\ a.issuer = m
  BY DEF Restated, Own, Of, OfMember, InLineage, About, BySubject, Prepare
<1>2. IsFiniteSet(Restated(A, m))
  <2>1. Restated(A, m) \subseteq A
    BY <1>1
  <2> QED
    BY <2>1, FS_Subset DEF Kept, Sound
<1>3. \A a \in Restated(A, m) : a.epoch \in Nat /\ a.id.inc \in Nat /\ a.rank \in Nat
  BY <1>1 DEF Kept, Sound, Genuine
<1>4. \A a \in Restated(A, m) : FromPool(a, p)
  BY <1>1, CoordinatorIsNil DEF Kept
<1> QED
  BY <1>1, <1>2, <1>3, <1>4

\* Both take the same re-attestation of a member for its latest, and for the last one.
LEMMA SameLatest ==
  ASSUME NEW p, NEW A, NEW B, Alike(A, B, p), Orderly(A), NEW m \in Members
  PROVE  /\ Restated(A, m) = {} <=> Restated(B, m) = {}
         /\ Restated(A, m) # {} =>
              /\ LatestReattestation(Restated(A, m)).id = LatestReattestation(Restated(B, m)).id
              /\ LastIn("evidence", Restated(A, m)).epoch = LastIn("evidence", Restated(B, m)).epoch
<1> DEFINE R == Restated(A, m)
           S == Restated(B, m)
<1>0. p \in Pools /\ Kept(A, p) /\ Kept(B, p) /\ Alike(B, A, p) /\ Orderly(B)
  BY AlikeIsSymmetric, OrderlyAlike DEF Alike
<1>1. \A a \in R : \E b \in S : b.epoch = a.epoch /\ b.id = a.id /\ b.rank = a.rank
  BY SameReattestation DEF Restated, Own
<1>2. \A b \in S : \E a \in R : b.epoch = a.epoch /\ b.id = a.id /\ b.rank = a.rank
  BY <1>0, SameReattestation DEF Restated, Own
<1>3. /\ IsFiniteSet(R) /\ IsFiniteSet(S)
      /\ \A a \in R \union S : a.epoch \in Nat /\ a.id.inc \in Nat /\ a.rank \in Nat
  BY <1>0, RestatedMeans
<1>4. \A a \in R, b \in S : a.rank = b.rank => a.id = b.id /\ a.epoch = b.epoch
  BY <1>0, RestatedMeans, PlaceTells
<1> HIDE DEF R, S
<1>5. R = {} <=> S = {}
  BY <1>1, <1>2
<1>6. ASSUME R # {} PROVE LatestReattestation(R).id = LatestReattestation(S).id
  <2> DEFINE x == LatestReattestation(R)
             y == LatestReattestation(S)
  <2>1. /\ x \in R
        /\ \A b \in R : \/ b.epoch < x.epoch
                        \/ b.epoch = x.epoch /\ b.id.inc < x.id.inc
                        \/ b.epoch = x.epoch /\ b.id.inc = x.id.inc /\ b.rank <= x.rank
    BY <1>3, <1>6, LatestExists
  <2>2. /\ y \in S
        /\ \A b \in S : \/ b.epoch < y.epoch
                        \/ b.epoch = y.epoch /\ b.id.inc < y.id.inc
                        \/ b.epoch = y.epoch /\ b.id.inc = y.id.inc /\ b.rank <= y.rank
    BY <1>3, <1>5, <1>6, LatestExists
  <2> HIDE DEF x, y
  <2>3. \/ x.epoch < y.epoch
        \/ x.epoch = y.epoch /\ x.id.inc < y.id.inc
        \/ x.epoch = y.epoch /\ x.id.inc = y.id.inc /\ x.rank <= y.rank
    <3>1. PICK b \in S : b.epoch = x.epoch /\ b.id = x.id /\ b.rank = x.rank
      BY <1>1, <2>1
    <3> QED
      BY <2>2, <3>1
  <2>4. \/ y.epoch < x.epoch
        \/ y.epoch = x.epoch /\ y.id.inc < x.id.inc
        \/ y.epoch = x.epoch /\ y.id.inc = x.id.inc /\ y.rank <= x.rank
    <3>1. PICK a \in R : y.epoch = a.epoch /\ y.id = a.id /\ y.rank = a.rank
      BY <1>2, <2>2
    <3> QED
      BY <2>1, <3>1
  <2>5. x.rank = y.rank
    BY <1>3, <2>1, <2>2, <2>3, <2>4
  <2> QED
    BY <1>4, <2>1, <2>2, <2>5 DEF x, y
<1>7. ASSUME R # {} PROVE LastIn("evidence", R).epoch = LastIn("evidence", S).epoch
  <2> DEFINE x == LastIn("evidence", R)
             y == LastIn("evidence", S)
  <2>1. x \in R /\ \A b \in R : b.rank <= x.rank
    BY <1>3, <1>6, <1>7, LastExists
  <2>2. y \in S /\ \A b \in S : b.rank <= y.rank
    BY <1>3, <1>5, <1>7, LastExists
  <2> HIDE DEF x, y
  <2>3. x.rank <= y.rank
    BY <1>1, <2>1, <2>2
  <2>4. y.rank <= x.rank
    BY <1>2, <2>1, <2>2
  <2>5. x.rank = y.rank
    BY <1>3, <2>1, <2>2, <2>3, <2>4
  <2> QED
    BY <1>4, <2>1, <2>2, <2>5 DEF x, y
<1> QED
  BY <1>5, <1>6, <1>7 DEF R, S

--------------------------------------------------------------------------------
\* derive_state has admitted a member for whom there is no activation.
Waiting(A, v) ==
  \E m \in DOMAIN v.members :
    /\ v.members[m].lifecycle = "Admitted"
    /\ \A a \in A : ~(/\ a.kind = "MembershipActivation"
                      /\ a.subject = m /\ a.lineage = v.members[m].lineage)

\* A coordinator that has decided, whose epoch has not moved, and that keeps nobody waiting.
AtRest(A) ==
  /\ Whole(A) /\ ~\E a \in A : a.kind = "EpochAdvance"
  /\ ~Waiting(A, View(ConfiguredPolicy, A, {}, {}, {}, 1))

\* Nothing but an activation can be missing from the member's standing.
Admissible(A, m, ctx) ==
  LET C == OfMember(A, m)
  IN  /\ Of(C, "MembershipRetirement") = {} /\ Of(C, "MembershipLeave") = {}
      /\ Of(C, "MembershipProposal") # {} \/ ctx.founder = m
      /\ ~FenceInForce(m, C) /\ AdmissionValid(m, C, Facts(m, C, ctx), ctx)

\* The context in which derive_state derives the members, but for partition and reconciliation.
Grounded(A, ctx) ==
  /\ ctx.epoch = CurrentEpoch(Prepare(A)) /\ ctx.policy = ConfiguredPolicy
  /\ ctx.established = StandingFixpoint(Prepare(A), ConfiguredPolicy, Subjects(Prepare(A), {}))
  /\ ctx.founder = Founder(Prepare(A)) /\ ctx.founderId = FounderIdentity(Prepare(A))
  /\ ctx.order = "evidence"

\* So whoever is admissible has been activated.
LEMMA AdmissibleIsActivated ==
  ASSUME NEW p \in Pools, NEW A, Kept(A, p), AtRest(A), NEW m \in Subjects(Prepare(A), {}),
         NEW ctx, Grounded(A, ctx), Admissible(A, m, ctx)
  PROVE  Of(OfMember(A, m), "MembershipActivation") # {}
<1> DEFINE C == OfMember(A, m)
           v == View(ConfiguredPolicy, A, {}, {}, {}, 1)
           l == CurrentLineage(m, About(A, m))
<1> SUFFICES ASSUME Of(C, "MembershipActivation") = {} PROVE FALSE
  OBVIOUS
<1>1. PICK c : /\ ViewContext(c, ConfiguredPolicy, Prepare(A), {})
               /\ DOMAIN v.members = Subjects(Prepare(A), {})
               /\ v.members[m].lifecycle = DeriveMembership(m, About(A, m), c).lifecycle
               /\ v.members[m].lineage = DeriveMembership(m, About(A, m), c).lineage
  <2> HIDE DEF v
  <2> QED  BY ViewMembers DEF v, About
<1>2. StatePolicy(Prepare(A), ConfiguredPolicy) = ConfiguredPolicy
  BY PreparedIsSound DEF Kept
<1>3. /\ c.founder = ctx.founder /\ c.founderId = ctx.founderId
      /\ c.policy = ctx.policy /\ c.established = ctx.established
  BY <1>1, <1>2 DEF ViewContext, Grounded
<1> HIDE DEF v
<1>4. AdmissionValid(m, C, Facts(m, C, c), c)
  <2>1. AdmissionValid(m, C, Facts(m, C, ctx), ctx) <=> AdmissionValid(m, C, Facts(m, C, c), c)
    <3> HIDE DEF C
    <3> QED  BY <1>3, SameAdmission
  <2> QED
    BY <2>1 DEF Admissible
<1>5. /\ Of(C, "MembershipRetirement") = {} /\ Of(C, "MembershipLeave") = {}
      /\ ~(Of(C, "MembershipProposal") = {} /\ c.founder # m) /\ ~FenceInForce(m, C)
  BY <1>3 DEF Admissible
<1> HIDE DEF C, l
<1>6. Lifecycle(m, C, Facts(m, C, c), c) = "Admitted"
  BY <1>4, <1>5 DEF Lifecycle
<1>7. v.members[m].lifecycle = "Admitted" /\ v.members[m].lineage = l
  BY <1>1, <1>6, DerivedFields DEF C, OfMember, l
<1>8. PICK a \in A : a.kind = "MembershipActivation" /\ a.subject = m /\ a.lineage = l
  BY <1>1, <1>7 DEF AtRest, Waiting, v
<1>9. a.issuer = Coordinator
  BY <1>8, FromPoolIs DEF Kept, Sendable, MemberKinds
<1>10. a \in Prepare(A)
  BY <1>9, CoordinatorIsKept DEF Kept, Sound, AtRest, Whole, Prepare
<1>11. a \in Of(C, "MembershipActivation")
  BY <1>8, <1>10 DEF Of, C, OfMember, InLineage, About, BySubject, l
<1> QED
  BY <1>11

\* In the first epoch an activation is of the current epoch.
LEMMA FirstEpoch ==
  ASSUME NEW p \in Pools, NEW A, Kept(A, p), AtRest(A)
  PROVE  /\ CurrentEpoch(Prepare(A)) = 1 /\ Of(Prepare(A), "EpochAdvance") = {}
         /\ \A a \in A : a.kind = "MembershipActivation" => a.epoch = 1
<1>1. Of(A, "EpochAdvance") = {}
  BY DEF AtRest, Of
<1>2. CurrentEpoch(A) = 1
  BY <1>1, EpochIsHighest DEF Kept, Sound
<1>3. CurrentEpoch(Prepare(A)) = 1 /\ Of(Prepare(A), "EpochAdvance") = {}
  BY <1>1, <1>2, AdvancesAreKept DEF Kept, Sound
<1>4. \A a \in A : a.kind = "MembershipActivation" => a.epoch \in Nat /\ a.epoch <= 1 /\ a.epoch # 0
  BY <1>2 DEF Kept, Sound, Genuine, AtRest, Whole
<1>5. \A a \in A : a.kind = "MembershipActivation" => a.epoch = 1
  BY <1>4
<1> QED
  BY <1>3, <1>5

\* The activation of a member, when it has one, makes its declaration current unless it has
\* re-attested.
LEMMA CurrentUnlessRestated ==
  ASSUME NEW p \in Pools, NEW A, Kept(A, p), AtRest(A), NEW m \in Members,
         NEW f, f.reattestations = {}, NEW ctx, ctx.epoch = 1
  PROVE  DeclarationIsCurrent(OfMember(A, m), f, ctx)
<1> DEFINE T == Of(OfMember(A, m), "MembershipActivation")
<1>1. \A a \in T : a.epoch = 1
  BY FirstEpoch DEF Of, OfMember, InLineage, About, BySubject, Prepare
<1>2. T # {} => \E a \in T : a.epoch = ctx.epoch /\ \A b \in T : b.epoch <= a.epoch
  <2> HIDE DEF T
  <2> QED  BY <1>1
<1> QED
  BY <1>2 DEF DeclarationIsCurrent

\* Whom the evidence of one is about, the evidence of the other is about.
LEMMA SameSubjects ==
  ASSUME NEW p, NEW A, NEW B, Alike(A, B, p), NEW m \in Subjects(Prepare(A), {})
  PROVE  m \in Subjects(Prepare(B), {})
<1>0. p \in Pools /\ Kept(A, p) /\ Kept(B, p)
  BY DEF Alike
<1>1. PICK a \in Prepare(A) : a.subject = m /\ m # Coordinator
  BY DEF Subjects
<1>2. a \in A
  BY DEF Prepare
<1>3. SUFFICES \E b \in Prepare(B) : b.subject = m
  BY <1>1 DEF Subjects
<1>4. ASSUME NEW c \in Prepare(A), c.issuer # Coordinator, c.subject = m
      PROVE  \E b \in Prepare(B) : b.subject = m
  <2>1. c \in A
    BY DEF Prepare
  <2>2. PICK b \in B : Twin(c, b)
    BY <1>4, <2>1, Counterpart
  <2>3. EvidenceId(c) = EvidenceId(b) /\ c.at = b.at /\ b.subject = m
    BY <1>4, <2>2 DEF Twin
  <2>4. b \in Prepare(B)
    BY <1>4, <2>3, PreparedAlike
  <2> QED
    BY <2>3, <2>4
<1>5. CASE a.issuer # Coordinator
  BY <1>1, <1>4, <1>5
<1>6. CASE m = Founder0
  <2>1. GenesisRecord \in GenesisOf(Prepare(B)) /\ GenesisRecord.subject = Founder0
    BY <1>0, GenesisIsKept DEF GenesisRecord, Record
  <2> QED
    BY <1>6, <2>1 DEF GenesisOf, Of
<1>7. CASE a.issuer = Coordinator /\ m # Founder0
  <2>1. a.kind # "FederationGenesis" /\ a.kind # "EpochAdvance"
    BY <1>0, <1>1, <1>2, <1>7 DEF Kept, Sound, Genuine
  <2>2. Accepted(a, A)
    BY <1>0, <1>1, <1>2, <1>7, <2>1 DEF Kept
  <2>3. PICK c \in Prepare(A) : c.issuer # Coordinator /\ c.subject = m
    BY <1>0, <1>1, <2>2, AcceptanceIsKept
  <2> QED
    BY <1>4, <2>3
<1> QED
  BY <1>5, <1>6, <1>7

\* Both derive the same membership of each member.
LEMMA SameMembership ==
  ASSUME NEW p, NEW A, NEW B, Alike(A, B, p), Orderly(A), AtRest(A), AtRest(B),
         NEW m \in Subjects(Prepare(A), {}), NEW ctx, Grounded(A, ctx)
  PROVE  DeriveMembership(m, About(A, m), ctx) = DeriveMembership(m, About(B, m), ctx)
<1> DEFINE C == OfMember(A, m)
           D == OfMember(B, m)
           l == CurrentLineage(m, About(A, m))
           f == Facts(m, C, ctx)
           g == Facts(m, D, ctx)
<1>0. /\ p \in Pools /\ Kept(A, p) /\ Kept(B, p) /\ Orderly(B) /\ Alike(B, A, p)
      /\ m \in Subjects(Prepare(B), {})
  BY AlikeIsSymmetric, OrderlyAlike, SameSubjects DEF Alike
<1>1. m \in Members
  BY <1>0, SubjectsAreMembers DEF Kept, Sound
<1>2. ctx.epoch = 1 /\ ctx.policy = ConfiguredPolicy /\ FoundedBy(ctx) /\ ctx.order = "evidence"
  BY <1>0, FirstEpoch, GenesisIsKept DEF Grounded, FoundedBy
<1>3. Grounded(B, ctx)
  <2>1. StandingFixpoint(Prepare(A), ConfiguredPolicy, Subjects(Prepare(A), {})) =
          StandingFixpoint(Prepare(B), ConfiguredPolicy, Subjects(Prepare(B), {}))
    BY SameStanding
  <2>2. CurrentEpoch(Prepare(B)) = 1
    BY <1>0, FirstEpoch
  <2>3. Founder(Prepare(B)) = Founder0 /\ FounderIdentity(Prepare(B)) = GenesisRecord.id
    BY <1>0, GenesisIsKept
  <2> QED
    BY <1>2, <2>1, <2>2, <2>3 DEF Grounded, FoundedBy
\* The evidence: re-attestations and activations may differ.
<1>4. /\ Of(C, "MembershipRetirement") = Of(D, "MembershipRetirement")
      /\ Of(C, "MembershipLeave") = Of(D, "MembershipLeave")
      /\ Of(C, "MembershipFence") = Of(D, "MembershipFence")
      /\ Of(C, "MembershipProposal") = Of(D, "MembershipProposal")
      /\ Of(C, "MembershipAcceptance") = Of(D, "MembershipAcceptance")
      /\ Of(C, "MembershipEndorsement") = Of(D, "MembershipEndorsement")
      /\ Of(C, "DelegationDeclaration") = Of(D, "DelegationDeclaration")
      /\ Of(C, "DelegationWithdrawal") = Of(D, "DelegationWithdrawal")
  BY <1>1, SameOfMember DEF Orderly
<1>5. Of(C, "MemberReattestation") = {} <=> Of(D, "MemberReattestation") = {}
  <2>1. \A a \in Of(C, "MemberReattestation") : \E b \in Of(D, "MemberReattestation") : TRUE
    BY <1>1, SameReattestation
  <2>2. \A b \in Of(D, "MemberReattestation") : \E a \in Of(C, "MemberReattestation") : TRUE
    BY <1>0, <1>1, SameReattestation
  <2> HIDE DEF C, D
  <2> QED
    BY <2>1, <2>2
<1>6. FenceInForce(m, C) <=> FenceInForce(m, D)
  <2>1. FenceInForce(m, C) <=> Own(m, Of(C, "MembershipFence")) # {}
    BY <1>0, <1>1, FencesInForce DEF Orderly
  <2>2. FenceInForce(m, D) <=> Own(m, Of(D, "MembershipFence")) # {}
    BY <1>0, <1>1, FencesInForce DEF Orderly
  <2> HIDE DEF C, D
  <2> QED
    BY <1>4, <2>1, <2>2
<1>7. CurrentLineage(m, About(B, m)) = l
  BY <1>1, SameCurrentLineage DEF Orderly
\* The facts gathered from it.
<1>8. /\ f.proposal = g.proposal /\ f.acceptances = g.acceptances
      /\ f.endorsers = g.endorsers /\ f.admitted = g.admitted
      /\ Sponsored(m, C) = Sponsored(m, D)
  <2>1. \A kind \in {"MembershipProposal", "MembershipAcceptance", "MembershipEndorsement"} :
          Of(C, kind) = Of(D, kind)
    BY <1>4
  <2> HIDE DEF C, D
  <2> QED
    BY <2>1, SameAdmission
<1>9. f.reattestations = Restated(A, m) /\ g.reattestations = Restated(B, m)
  BY FactFields DEF Restated
<1>10. AtRest(A) /\ AtRest(B) /\ Grounded(A, ctx)
  OBVIOUS
<1>11. ASSUME f.reattestations = {}
       PROVE  DeclarationIsCurrent(C, f, ctx) /\ DeclarationIsCurrent(D, g, ctx)
  <2>1. g.reattestations = {}
    BY <1>1, <1>9, <1>11, SameLatest
  <2> HIDE DEF f, g
  <2> QED
    BY <1>0, <1>1, <1>2, <1>11, <2>1, CurrentUnlessRestated
<1>12. Admissible(A, m, ctx) => Of(C, "MembershipActivation") # {}
  BY <1>0, AdmissibleIsActivated
<1>13. Admissible(B, m, ctx) => Of(D, "MembershipActivation") # {}
  BY <1>0, <1>3, AdmissibleIsActivated
<1>14. /\ CurrentIdentity(f) = CurrentIdentity(g) /\ DeclaredIdentity(f) = DeclaredIdentity(g)
       /\ f.reattestations = {} <=> g.reattestations = {}
       /\ f.reattestations # {} =>
            LastIn(ctx.order, f.reattestations).epoch = LastIn(ctx.order, g.reattestations).epoch
  <2>1. /\ Restated(A, m) = {} <=> Restated(B, m) = {}
        /\ Restated(A, m) # {} =>
             /\ LatestReattestation(Restated(A, m)).id = LatestReattestation(Restated(B, m)).id
             /\ LastIn("evidence", Restated(A, m)).epoch = LastIn("evidence", Restated(B, m)).epoch
    BY <1>1, SameLatest
  <2> HIDE DEF C, D, f, g
  <2> QED
    BY <1>2, <1>8, <1>9, <2>1 DEF CurrentIdentity, DeclaredIdentity
<1>15. /\ Admissible(A, m, ctx) <=>
            /\ Of(C, "MembershipRetirement") = {} /\ Of(C, "MembershipLeave") = {}
            /\ Of(C, "MembershipProposal") # {} \/ ctx.founder = m
            /\ ~FenceInForce(m, C) /\ AdmissionValid(m, C, f, ctx)
       /\ Admissible(B, m, ctx) <=>
            /\ Of(D, "MembershipRetirement") = {} /\ Of(D, "MembershipLeave") = {}
            /\ Of(D, "MembershipProposal") # {} \/ ctx.founder = m
            /\ ~FenceInForce(m, D) /\ AdmissionValid(m, D, g, ctx)
  BY DEF Admissible
<1> HIDE DEF C, D, f, g, l
\* What is derived from the facts.
<1>16. AdmissionValid(m, C, f, ctx) = AdmissionValid(m, D, g, ctx)
  BY <1>8 DEF AdmissionValid, Vouched
<1>17. ActivationMatches(m, C, f, ctx) = ActivationMatches(m, D, g, ctx)
  BY <1>8, <1>14, <1>16 DEF ActivationMatches
<1>18. DeclarationIsCurrent(C, f, ctx) = DeclarationIsCurrent(D, g, ctx)
  <2>1. CASE f.reattestations = {}
    BY <1>11, <1>14, <2>1 DEF DeclarationIsCurrent
  <2>2. CASE f.reattestations # {}
    BY <1>14, <2>2 DEF DeclarationIsCurrent
  <2> QED
    BY <2>1, <2>2
<1>19. GenerationChanged(f) <=> GenerationChanged(g)
  BY <1>8, <1>14 DEF GenerationChanged
<1>20. DegradedByContext(f, ctx) <=> DegradedByContext(g, ctx)
  BY <1>14 DEF DegradedByContext
<1>21. Lifecycle(m, C, f, ctx) = Lifecycle(m, D, g, ctx)
  <2>1. CASE Admissible(A, m, ctx)
    <3>1. Admissible(B, m, ctx)
      BY <1>4, <1>6, <1>15, <1>16, <2>1
    <3>2. Of(C, "MembershipActivation") # {} /\ Of(D, "MembershipActivation") # {}
      BY <1>12, <1>13, <2>1, <3>1
    <3> QED
      BY <1>4, <1>6, <1>16, <1>17, <1>18, <1>19, <1>20, <3>2 DEF Lifecycle
  <2>2. CASE ~Admissible(A, m, ctx)
    <3>1. ~Admissible(B, m, ctx)
      BY <1>4, <1>6, <1>15, <1>16, <2>2
    <3> QED
      BY <1>4, <1>6, <1>15, <1>16, <2>2, <3>1 DEF Lifecycle
  <2> QED
    BY <2>1, <2>2
<1>22. \A x : EvidenceQuality(m, C, f, x, ctx) = EvidenceQuality(m, D, g, x, ctx)
  BY <1>8 DEF EvidenceQuality, IdentityConflict
<1>23. /\ \A con : DelegatedTerms(m, C, con) = DelegatedTerms(m, D, con)
       /\ WithdrawnGrants(m, C) = WithdrawnGrants(m, D)
  BY <1>4 DEF DelegatedTerms, WithdrawnGrants
<1>24. \A x : Derived(m, C, l, f, x, ctx) = Derived(m, D, l, g, x, ctx)
  BY <1>5, <1>8, <1>14, <1>17, <1>18, <1>22, <1>23 DEF Derived
<1> QED
  BY <1>7, <1>21, <1>24 DEF DeriveMembership, DerivedIn, DerivedFrom, C, D, f, g, l, OfMember

\* So both derive the same state.
LEMMA SameDerived ==
  ASSUME NEW p, NEW A, NEW B, Alike(A, B, p), Orderly(A), AtRest(A), AtRest(B)
  PROVE  View(ConfiguredPolicy, A, {}, {}, {}, 1) = View(ConfiguredPolicy, B, {}, {}, {}, 1)
<1> DEFINE P == Prepare(A)
           Q == Prepare(B)
           in == Inputs(ConfiguredPolicy, {}, {}, {}, 1)
           S == Subjects(P, {})
           E == StandingFixpoint(P, ConfiguredPolicy, S)
<1>0. p \in Pools /\ Kept(A, p) /\ Kept(B, p) /\ Alike(B, A, p)
  BY AlikeIsSymmetric DEF Alike
<1>1. \A kind \in StateKinds : Of(P, kind) = Of(Q, kind)
  <2>1. Of(P, "FederationGenesis") = Of(Q, "FederationGenesis")
    BY <1>0, GenesisIsKept DEF GenesisOf
  <2>2. Of(P, "EpochAdvance") = Of(Q, "EpochAdvance")
    BY <1>0, FirstEpoch
  <2>3. Of(P, "PolicyUpdate") = Of(Q, "PolicyUpdate") /\ Of(P, "ReconciliationComplete") = Of(Q, "ReconciliationComplete")
    BY SameKept
  <2> QED
    BY <2>1, <2>2, <2>3 DEF StateKinds
<1>2. Subjects(Q, {}) = S
  BY <1>0, SameSubjects
<1>3. StandingFixpoint(Q, ConfiguredPolicy, S) = E
  <2>1. StandingFixpoint(P, ConfiguredPolicy, Subjects(P, {})) =
          StandingFixpoint(Q, ConfiguredPolicy, Subjects(Q, {}))
    BY SameStanding
  <2> QED
    BY <1>2, <2>1
<1>4. StatePolicy(P, ConfiguredPolicy) = ConfiguredPolicy
  BY <1>0, PreparedIsSound DEF Kept
<1>5. E \subseteq S
  <2>1. E \subseteq StandingStep(P, ConfiguredPolicy, S, E)
    BY <1>0, PreparedIsSound, PoolsAreSound, FixpointIsStep DEF Kept
  <2> QED
    BY <2>1 DEF StandingStep
<1>6. ASSUME NEW m \in S \union E, NEW partition, NEW reconciling
      PROVE  LET ctx == Context(P, ConfiguredPolicy, E, partition, reconciling)
             IN  DeriveMembership(m, BySubject(P, m), ctx) = DeriveMembership(m, BySubject(Q, m), ctx)
  <2> DEFINE ctx == Context(P, ConfiguredPolicy, E, partition, reconciling)
  <2>1. Grounded(A, ctx)
    BY DEF Grounded, Context
  <2>2. m \in Subjects(Prepare(A), {})
    BY <1>5
  <2> HIDE DEF ctx
  <2> QED
    BY <2>1, <2>2, SameMembership DEF About, ctx
<1>7. in.leases = {} /\ in.policy = ConfiguredPolicy
  BY DEF Inputs
<1>8. View(ConfiguredPolicy, A, {}, {}, {}, 1) = FromPrepared(P, in) /\ View(ConfiguredPolicy, B, {}, {}, {}, 1) = FromPrepared(Q, in)
  BY DEF View, Derive, Inputs
<1> HIDE DEF P, Q, in, S, E
<1>9. FromPrepared(P, in) = FromPrepared(Q, in)
  <2>1. Subjects(P, in.leases) = S /\ Subjects(Q, in.leases) = S
    BY <1>2, <1>7 DEF S
  <2>2. StandingFixpoint(P, StatePolicy(P, in.policy), S) = E
    BY <1>4, <1>7 DEF E
  <2> QED
    BY <1>1, <1>3, <1>4, <1>6, <1>7, <2>1, <2>2, SameState
<1> QED
  BY <1>8, <1>9

--------------------------------------------------------------------------------
\* The README's and architecture.md's promise, as far as it goes: coordinators that have
\* accepted the same evidence, in whatever order, give every member the same lifecycle and the
\* same authority, as long as the epoch has not moved, no named exception holds and nobody
\* waits for an activation. Their digests may still differ (DigestIgnoresOrder).
THEOREM SameEvidenceSameAuthorityHolds == Spec => []SameEvidenceSameAuthority
<1>1. EvidenceIsKept /\ DecisionsAreWhole => SameEvidenceSameAuthority
  <2> SUFFICES ASSUME EvidenceIsKept, DecisionsAreWhole, NEW r \in Replicas, NEW s \in Replicas,
                      Evidence(r) = Evidence(s), ~Moved(r),
                      ~OldFence(r), ~Reconstituted(r), ~FounderLeft(r), ~Stuck(r), ~Stuck(s)
               PROVE  derived[r] = derived[s]
    BY DEF SameEvidenceSameAuthority
  <2>1. Alike(held[r], held[s], pool) /\ Orderly(held[r])
    BY EvidenceIsAlike
  <2>2. ~Moved(s)
    <3> SUFFICES ASSUME NEW a \in held[s], a.kind = "EpochAdvance" PROVE FALSE
      BY DEF Moved
    <3>1. PICK b \in held[r] : Twin(a, b)
      BY <2>1, AlikeIsSymmetric, Counterpart
    <3> QED
      BY <3>1 DEF Twin, Moved
  <2>3. ASSUME NEW q \in Replicas, ~Moved(q), ~Stuck(q) PROVE AtRest(held[q])
    <3>1. derived[q] = View(ConfiguredPolicy, held[q], {}, {}, {}, 1)
      BY DEF EvidenceIsKept
    <3>2. Whole(held[q]) /\ Recordable(held[q], Batch(ConfiguredPolicy, held[q], derived[q])) = {}
      BY <2>3 DEF DecisionsAreWhole, Complete
    <3>3. ~Waiting(held[q], derived[q])
      BY <2>3, <3>2 DEF Waiting, Stuck
    <3> QED
      BY <2>3, <3>1, <3>2, <3>3 DEF AtRest, Moved
  <2>4. View(ConfiguredPolicy, held[r], {}, {}, {}, 1) = View(ConfiguredPolicy, held[s], {}, {}, {}, 1)
    BY <2>1, <2>2, <2>3, SameDerived
  <2> QED
    BY <2>4 DEF EvidenceIsKept
<1> QED
  BY <1>1, EvidenceKept, DecisionsWhole, PTL
===================================================================================
