--------------------------- MODULE DerivationProofs ----------------------------
(**************************************************************************************)
(* Facts about derive_state and decide_locked for every set of evidence, policy and   *)
(* set of members: what each pass of the derivation returns, that the standing        *)
(* fixpoint is monotone and grounded, and what a derived state says of its members.   *)
(* FederationProofs applies them to the state that the coordinator keeps.             *)
(**************************************************************************************)
EXTENDS Decision, FiniteSetTheorems, WellFoundedInduction, TLAPS

\* A nonempty set of naturals has a least element.
LEMMA NatMinimum ==
  ASSUME NEW S \in SUBSET Nat, S # {}
  PROVE  \E n \in S : \A m \in S : n <= m
<1> DEFINE Below == {0..n : n \in S}
<1>1. \A n \in Nat : 0..n \in FiniteSubsetsOf(Nat)
  BY FS_Interval DEF FiniteSubsetsOf
<1>2. Below \subseteq FiniteSubsetsOf(Nat) /\ Below # {}
  BY <1>1
<1>3. IsWellFoundedOn(StrictSubsetOrdering(Nat), FiniteSubsetsOf(Nat))
  BY FS_StrictSubsetOrderingWellFounded
<1>4. \E x \in Below : \A y \in Below : <<y, x>> \notin StrictSubsetOrdering(Nat)
  <2> HIDE DEF Below
  <2> QED
    BY <1>2, <1>3, WFMin
<1>5. PICK n \in S : \A m \in S : <<0..m, 0..n>> \notin StrictSubsetOrdering(Nat)
  BY <1>4
<1>6. ASSUME NEW m \in S, m < n PROVE FALSE
  <2>1. 0..m \subseteq 0..n /\ 0..m # 0..n
    BY <1>6
  <2>2. 0..m \in SUBSET Nat /\ 0..n \in SUBSET Nat
    OBVIOUS
  <2> QED
    BY <1>5, <2>1, <2>2 DEF StrictSubsetOrdering
<1> QED
  BY <1>6

\* Induction over the naturals with a set in place of a predicate: a set that holds 0 and
\* the successor of each of its naturals holds every natural. The rounds of derive_state's
\* standing fixpoint and the passes of decide_locked are followed with it.
LEMMA SetInduction ==
  ASSUME NEW S, 0 \in S, \A n \in Nat : n \in S => n + 1 \in S
  PROVE  Nat \subseteq S
<1> SUFFICES ASSUME Nat \ S # {} PROVE FALSE
  OBVIOUS
<1>1. PICK n \in Nat \ S : \A m \in Nat \ S : n <= m
  BY NatMinimum
<1>2. n # 0 /\ n - 1 \in Nat /\ n - 1 \in S
  BY <1>1
<1> QED
  BY <1>2

\* A finite nonempty set of naturals has a greatest element.
LEMMA FiniteMaximum ==
  ASSUME NEW S \in SUBSET Nat, S # {}, IsFiniteSet(S)
  PROVE  \E n \in S : \A m \in S : m <= n
<1> DEFINE above(n) == {m \in S : m > n}
           Aboves == {above(n) : n \in S}
<1>1. \A n \in S : above(n) \in FiniteSubsetsOf(Nat)
  <2> SUFFICES ASSUME NEW n \in S PROVE above(n) \in FiniteSubsetsOf(Nat)
    OBVIOUS
  <2>1. IsFiniteSet(above(n))
    BY FS_Subset
  <2> QED
    BY <2>1 DEF FiniteSubsetsOf
<1>2. Aboves \subseteq FiniteSubsetsOf(Nat) /\ Aboves # {}
  BY <1>1
<1>3. \E x \in Aboves : \A y \in Aboves : <<y, x>> \notin StrictSubsetOrdering(Nat)
  <2> HIDE DEF Aboves
  <2> QED
    BY <1>2, FS_StrictSubsetOrderingWellFounded, WFMin
<1>4. PICK n \in S : \A m \in S : <<above(m), above(n)>> \notin StrictSubsetOrdering(Nat)
  BY <1>3
<1>5. ASSUME NEW m \in S, m > n PROVE FALSE
  <2>0. m \in Nat /\ n \in Nat /\ n < m /\ ~(m > m) /\ \A k \in S : k \in Nat /\ (k > m => k > n)
    BY <1>5
  <2>1. above(m) \subseteq above(n) /\ m \in above(n) /\ m \notin above(m)
    BY <1>5, <2>0, Zenon
  <2>2. above(m) \in SUBSET Nat /\ above(n) \in SUBSET Nat
    OBVIOUS
  <2> QED
    BY <1>4, <2>1, <2>2 DEF StrictSubsetOrdering
<1> QED
  BY <1>5

\* The image of a finite set under a function is finite.
LEMMA FiniteImage ==
  ASSUME NEW S, IsFiniteSet(S), NEW f
  PROVE  IsFiniteSet({f[x] : x \in S})
<1> DEFINE T == {f[x] : x \in S}
           g == [x \in S |-> f[x]]
<1>1. g \in Surjection(S, T)
  BY DEF Surjection
<1> QED
  BY <1>1, FS_Surjection

\* A finite nonempty set has an element whose natural key is greatest: what the sorts of
\* derive_state by epoch pick.
LEMMA GreatestKey ==
  ASSUME NEW S, S # {}, IsFiniteSet(S), NEW key, \A x \in S : key[x] \in Nat
  PROVE  \E x \in S : \A y \in S : key[y] <= key[x]
<1> DEFINE K == {key[x] : x \in S}
<1>1. K \in SUBSET Nat /\ K # {}
  OBVIOUS
<1>2. IsFiniteSet(K)
  BY FiniteImage
<1>3. PICK n \in K : \A m \in K : m <= n
  <2> HIDE DEF K
  <2> QED
    BY <1>1, <1>2, FiniteMaximum
<1> QED
  BY <1>3

\* A nonempty set has an element whose natural key is least: what the sorts of derive_state
\* by content identity pick.
LEMMA LeastKey ==
  ASSUME NEW S, S # {}, NEW key, \A x \in S : key[x] \in Nat
  PROVE  \E x \in S : \A y \in S : key[x] <= key[y]
<1> DEFINE K == {key[x] : x \in S}
<1>1. K \in SUBSET Nat /\ K # {}
  OBVIOUS
<1>2. PICK n \in K : \A m \in K : n <= m
  <2> HIDE DEF K
  <2> QED
    BY <1>1, NatMinimum
<1> QED
  BY <1>2

--------------------------------------------------------------------------------
\* What derive_state is given beside the artefacts (DerivationInputs).
Inputs(policy, obs, ls, rp, t) ==
  [observations |-> obs, leases |-> ls, replay |-> rp, policy |-> policy, now |-> t]

\* Whether everybody in E has re-attested and the recovery is on record.
Reconciled(P, E) ==
  /\ Recorded(P)
  /\ \A m \in E : Of(InLineage(m, BySubject(P, m)), "MemberReattestation") # {}

\* What derive_membership reports, field by field.
LEMMA DerivedFields ==
  ASSUME NEW m, NEW A, NEW ctx
  PROVE  LET C == InLineage(m, A)
             d == DeriveMembership(m, A, ctx)
         IN  /\ d.lifecycle = Lifecycle(m, C, Facts(m, C, ctx), ctx)
             /\ d.lineage = CurrentLineage(m, A)
             /\ d.current = CurrentIdentity(Facts(m, C, ctx))
             /\ d.withdrawn = WithdrawnGrants(m, C)
             /\ d.terms = DelegatedTerms(m, C, DeclaredIdentity(Facts(m, C, ctx)).con)
             /\ d.reattested = (Of(C, "MemberReattestation") # {})
  BY DEF DeriveMembership, DerivedIn, DerivedFrom, Derived

\* assess_partition has four verdicts, and reports no partition to assess only for nobody.
LEMMA PartitionValues ==
  ASSUME NEW active, NEW current, NEW observations, NEW epoch, NEW now, NEW freshness
  PROVE  LET p == AssessPartition(active, current, observations, epoch, now, freshness)
         IN  /\ p \in {"Empty", "Connected", "Indeterminate", "Split"}
             /\ p = "Empty" => active = {}
  BY DEF AssessPartition

\* The derived state is WithMembers of a context whose standing is the fixpoint's, whose
\* partition is assessed and whose reconciliation is over when everybody re-attested.
LEMMA ViewInContext ==
  ASSUME NEW policy, NEW A, NEW obs, NEW ls, NEW rp, NEW t
  PROVE  LET P == Prepare(A)
             pol == StatePolicy(P, policy)
             E == StandingFixpoint(P, pol, Subjects(P, ls))
         IN  \E partition, reconciling :
               /\ partition \in {"Empty", "Connected", "Indeterminate", "Split"}
               /\ partition = "Empty" => E = {}
               /\ reconciling = (RecoveryAdvances(P) # {} /\ ~Reconciled(P, E))
               /\ View(policy, A, obs, ls, rp, t) =
                    InContext(P, Context(P, pol, E, partition, reconciling),
                              Inputs(policy, obs, ls, rp, t))
<1> DEFINE in == Inputs(policy, obs, ls, rp, t)
           P == Prepare(A)
           pol == StatePolicy(P, policy)
           E == StandingFixpoint(P, pol, Subjects(P, ls))
           ctx == StandingContext(P, pol, E)
           standing == [m \in ctx.established |-> DeriveMembership(m, BySubject(P, m), ctx)]
           partition == AssessPartition(ctx.established, [m \in ctx.established |-> standing[m].current.inc],
                          in.observations, ctx.epoch, in.now, ObservationFreshness(ctx.policy))
           reconciling == Reconciling(P, standing)
<1>1. in.policy = policy /\ in.leases = ls
  BY DEF Inputs
<1>2. View(policy, A, obs, ls, rp, t) = FromStanding(P, ctx, in)
  BY <1>1 DEF View, Derive, FromPrepared, UnderPolicy, Inputs
<1> HIDE DEF ctx, in, P, pol, E
<1>3. ctx.policy = pol /\ ctx.established = E
  BY DEF ctx, StandingContext, Context
<1>4. FromStanding(P, ctx, in) = InContext(P, Context(P, pol, E, partition, reconciling), in)
  BY <1>3 DEF FromStanding, WithStanding
<1>5. /\ partition \in {"Empty", "Connected", "Indeterminate", "Split"}
      /\ partition = "Empty" => E = {}
  <2> HIDE DEF standing
  <2> QED  BY <1>3, PartitionValues
<1>6. \A m \in E : standing[m].reattested = (Of(InLineage(m, BySubject(P, m)), "MemberReattestation") # {})
  BY <1>3, DerivedFields
<1>7. DOMAIN standing = E
  BY <1>3
<1>8. reconciling = (RecoveryAdvances(P) # {} /\ ~Reconciled(P, E))
  <2> HIDE DEF standing
  <2> QED  BY <1>6, <1>7 DEF Reconciling, Reconciled
<1> HIDE DEF partition, reconciling
<1> QED
  BY <1>2, <1>4, <1>5, <1>8 DEF in, P, pol, E

\* What derive_state reports of each member: its derived membership, and each of its grants
\* where the conflict detection put it.
LEMMA StateFields ==
  ASSUME NEW ctx, NEW derived, NEW in
  PROVE  LET v == WithMembers(ctx, derived, in)
             claims == Claims(derived)
             ending(m) == [t \in derived[m].terms |->
                Disposition(m, derived[m], t, claims, ctx.policy, ctx.reconciling, ctx.partition, in.now)]
         IN /\ v.epoch = ctx.epoch /\ v.policy = ctx.policy /\ v.established = ctx.established
            /\ v.partition = ctx.partition /\ v.reconciling = ctx.reconciling
            /\ v.replay = in.replay /\ v.leases = LeaseViews(in.leases, ctx.epoch, in.now)
            /\ DOMAIN v.members = DOMAIN derived
            /\ \A m \in DOMAIN derived :
                 /\ v.members[m].lifecycle = derived[m].lifecycle
                 /\ v.members[m].lineage = derived[m].lineage
                 /\ v.members[m].current = derived[m].current
                 /\ v.members[m].terms = derived[m].terms
                 /\ v.members[m].withdrawn = derived[m].withdrawn
                 /\ v.members[m].granted = Grants(ending(m), "granted")
                 /\ v.members[m].withheld = Grants(ending(m), "withheld")
                 /\ v.members[m].conflicts = {g \in Contained(ctx.policy, claims) : m \in Claimants(claims, g)}
  BY DEF WithMembers, WithClaims, WithAuthority, MemberState

\* What derive_membership collects before it decides, field by field.
LEMMA FactFields ==
  ASSUME NEW m, NEW C, NEW ctx
  PROVE  LET f == Facts(m, C, ctx)
             p == OperativeProposal(m, C)
         IN  /\ f.proposal = p
             /\ f.acceptances = MatchingAcceptances(m, C, p)
             /\ f.endorsers = Endorsers(m, C, p, ctx)
             /\ f.admitted = AdmittedIdentity(m, p, ctx)
             /\ f.reattestations = Own(m, Of(C, "MemberReattestation"))
  BY DEF Facts, FactsAbout

\* What it takes to hold authority or to stand.
LEMMA HoldingMeans ==
  ASSUME NEW m, NEW C, NEW f, NEW ctx, Lifecycle(m, C, f, ctx) \in Established
  PROVE  /\ ~FenceInForce(m, C)
         /\ AdmissionValid(m, C, f, ctx)
         /\ Of(C, "MembershipLeave") = {}
         /\ Lifecycle(m, C, f, ctx) \in Holding =>
              ActivationMatches(m, C, f, ctx) /\ Of(C, "MembershipActivation") # {}
  BY DEF Lifecycle, Established, Holding

\* A member other than the founder that derive_membership gives authority accepted, itself and
\* in its lineage, the constitution it is authorised by, which somebody else proposed.
LEMMA HoldingIsConsented ==
  ASSUME NEW m, NEW A, NEW ctx, ctx.founder # m,
         DeriveMembership(m, A, ctx).lifecycle \in Holding
  PROVE  /\ \E a \in InLineage(m, A) : /\ a.kind = "MembershipAcceptance"
                                       /\ a.issuer = m
                                       /\ a.id.con = DeriveMembership(m, A, ctx).current.con
         /\ \E p \in InLineage(m, A) : p.kind = "MembershipProposal" /\ p.issuer # m
<1> DEFINE C == InLineage(m, A)
           f == Facts(m, C, ctx)
           p == OperativeProposal(m, C)
<1>1. /\ DeriveMembership(m, A, ctx).lifecycle = Lifecycle(m, C, f, ctx)
      /\ DeriveMembership(m, A, ctx).current = CurrentIdentity(f)
  BY DerivedFields
<1> HIDE DEF C, f
<1>2. AdmissionValid(m, C, f, ctx) /\ ActivationMatches(m, C, f, ctx)
  BY <1>1, HoldingMeans DEF Established
<1>3. f.proposal = p /\ f.acceptances = MatchingAcceptances(m, C, p) /\ f.admitted = AdmittedIdentity(m, p, ctx)
  BY FactFields DEF f
<1>4. p # NoProposal /\ f.acceptances # {} /\ f.admitted = p.id
  BY <1>2, <1>3 DEF AdmissionValid, AdmittedIdentity
<1>5. CurrentIdentity(f).con = p.id.con
  BY <1>2, <1>4 DEF ActivationMatches
<1>6. Sponsored(m, C) # {}
  BY <1>4 DEF OperativeProposal
<1>7. \E x \in C : x.kind = "MembershipProposal" /\ x.issuer # m
  BY <1>6 DEF Sponsored, Of, Own
<1>8. \E a \in C : a.kind = "MembershipAcceptance" /\ a.issuer = m /\ a.id.con = p.id.con
  BY <1>3, <1>4 DEF MatchingAcceptances, Own, Of
<1> QED
  BY <1>1, <1>5, <1>7, <1>8 DEF C

\* The elements of a set of one are equal.
LEMMA CardinalityOne ==
  ASSUME NEW S, Cardinality(S) = 1, NEW x \in S, NEW y \in S, IsFiniteSet(S)
  PROVE  x = y
  BY FS_Singleton

\* A granted term is one that nothing withholds.
LEMMA GrantedMeans ==
  ASSUME NEW m, NEW d, NEW claims, NEW policy, NEW rec, NEW part, NEW now, NEW g,
         g \in Grants([t \in d.terms |-> Disposition(m, d, t, claims, policy, rec, part, now)], "granted")
  PROVE  \E t \in d.terms : t.grant = g /\ ~Withheld(m, d, t, claims, policy, now)
  BY DEF Grants, Disposition

\* Finitely many members claim a grant.
LEMMA ClaimantsFinite ==
  ASSUME NEW derived, IsFiniteSet(DOMAIN derived), NEW g
  PROVE  IsFiniteSet(Claimants(Claims(derived), g))
<1>1. Claimants(Claims(derived), g) \subseteq DOMAIN derived
  BY DEF Claimants, Claims, ClaimsOn
<1> QED
  BY <1>1, FS_Subset

\* Every term of a holding member is a claim (derive_state's claims_by_grant).
LEMMA ClaimOf ==
  ASSUME NEW derived, NEW m \in DOMAIN derived, derived[m].lifecycle \in Holding, NEW t \in derived[m].terms
  PROVE  [member |-> m, terms |-> t] \in ClaimsOn(Claims(derived), t.grant)
<1>1. [member |-> m, terms |-> t] \in Claims(derived)
  BY DEF Claims
<1> QED
  BY <1>1 DEF ClaimsOn

\* A grant that two holding members claim, one of them exclusively, is disputed.
LEMMA ExclusiveClaimDisputed ==
  ASSUME NEW derived, NEW m \in DOMAIN derived, NEW n \in DOMAIN derived, m # n,
         derived[m].lifecycle \in Holding, derived[n].lifecycle \in Holding,
         NEW t \in derived[m].terms, NEW u \in derived[n].terms,
         t.grant = u.grant, t.mode = "Exclusive"
  PROVE  t.grant \in Disputed(Claims(derived))
<1> DEFINE c == [member |-> m, terms |-> t]
           d == [member |-> n, terms |-> u]
<1>1. c \in ClaimsOn(Claims(derived), t.grant) /\ d \in ClaimsOn(Claims(derived), t.grant)
  BY ClaimOf
<1>2. c # d /\ c.terms = t /\ d.terms = u
  OBVIOUS
<1>3. Disagree(t, u)
  BY DEF Disagree
<1>4. t.grant \in {x.terms.grant : x \in Claims(derived)}
  BY <1>1, <1>2 DEF ClaimsOn
<1> HIDE DEF c, d
<1>5. \E x, y \in ClaimsOn(Claims(derived), t.grant) : x # y /\ Disagree(x.terms, y.terms)
  BY <1>1, <1>2, <1>3
<1> QED
  BY <1>4, <1>5 DEF Disputed

\* derive_state never grants two members what one of them holds exclusively.
LEMMA OneHolderOfExclusive ==
  ASSUME NEW ctx, NEW derived, NEW in, IsFiniteSet(DOMAIN derived),
         NEW m \in DOMAIN derived, NEW n \in DOMAIN derived, m # n,
         NEW t \in derived[m].terms, t.mode = "Exclusive",
         t.grant \in WithMembers(ctx, derived, in).members[m].granted,
         t.grant \in WithMembers(ctx, derived, in).members[n].granted
  PROVE  FALSE
<1> DEFINE claims == Claims(derived)
           g == t.grant
<1>1. \A k \in DOMAIN derived :
        g \in WithMembers(ctx, derived, in).members[k].granted =>
          \E x \in derived[k].terms : x.grant = g /\ ~Withheld(k, derived[k], x, claims, ctx.policy, in.now)
  <2> SUFFICES ASSUME NEW k \in DOMAIN derived, g \in WithMembers(ctx, derived, in).members[k].granted
               PROVE  \E x \in derived[k].terms :
                        x.grant = g /\ ~Withheld(k, derived[k], x, claims, ctx.policy, in.now)
    OBVIOUS
  <2>1. g \in Grants([x \in derived[k].terms |->
                Disposition(k, derived[k], x, claims, ctx.policy, ctx.reconciling, ctx.partition, in.now)], "granted")
    BY StateFields
  <2> QED
    BY <2>1 DEF Grants, Disposition
<1>2. PICK s \in derived[m].terms : s.grant = g /\ ~Withheld(m, derived[m], s, claims, ctx.policy, in.now)
  BY <1>1
<1>3. PICK u \in derived[n].terms : u.grant = g /\ ~Withheld(n, derived[n], u, claims, ctx.policy, in.now)
  BY <1>1
<1>4. derived[m].lifecycle \in Holding /\ derived[n].lifecycle \in Holding
  BY <1>2, <1>3 DEF Withheld
<1>5. g \in Disputed(claims)
  BY <1>3, <1>4, ExclusiveClaimDisputed
<1>6. g \in Settled(ctx.policy, claims)
  BY <1>2, <1>5 DEF Withheld, Contained
<1>7. m \in Matching(ctx.policy, claims, g) /\ n \in Matching(ctx.policy, claims, g)
  BY <1>2, <1>3, <1>6 DEF Withheld
<1>8. Cardinality(Matching(ctx.policy, claims, g)) = 1
  BY <1>6 DEF Settled
<1>9. IsFiniteSet(Matching(ctx.policy, claims, g))
  BY ClaimantsFinite, FS_Subset DEF Matching
<1> QED
  BY <1>7, <1>8, <1>9, CardinalityOne

--------------------------------------------------------------------------------
\* What every artefact of the coordinator is like, whoever issued it.
Genuine(a) ==
  /\ a.subject \in Members \union {Coordinator}
  /\ a.epoch \in Nat /\ a.rank \in Nat
  /\ a.kind # "PolicyUpdate"
  /\ a.kind = "FederationGenesis" => a.subject = Founder0 /\ a.id.inc = 1
  /\ a.issuer = Coordinator => a.at = NoStamp
  /\ a.kind \in {"EpochAdvance", "ReconciliationComplete"} =>
       a.issuer = Coordinator /\ a.subject = Coordinator /\ a.epoch # 0
  /\ a.kind = "DelegationWithdrawal" => a.subject = a.issuer /\ a.what # {}
  /\ a.kind = "DelegationDeclaration" =>
       \A t \in a.what : Classify(t.grant.scope) \notin {"Unknown", "Local"}
  /\ a.kind \in {"MembershipAcceptance", "MemberReattestation"} => a.id.inc \in Nat

\* An activation is no later than the current epoch, nor than a fence order of the same
\* lineage.
Outranks(A) ==
  \A f, a \in A :
    /\ a.kind = "MembershipActivation"
    /\ f.kind = "MembershipFence" /\ f.issuer = Coordinator
    /\ a.subject = f.subject /\ a.lineage = f.lineage
    => a.epoch <= f.epoch

\* The evidence a coordinator can have: finite, genuine, with no activation of a later epoch
\* than its own, or than a fence order it overtook.
Sound(A) ==
  /\ IsFiniteSet(A)
  /\ \A a \in A : Genuine(a)
  /\ \A a \in A : a.kind = "MembershipActivation" => a.epoch <= CurrentEpoch(A)
  /\ Outranks(A)

\* The preparation of the evidence (prepare_artifacts) quarantines nothing of the
\* coordinator's.
LEMMA CoordinatorIsKept ==
  ASSUME NEW A, \A a \in A : Genuine(a), NEW a \in A, a.issuer = Coordinator
  PROVE  a \notin Quarantined(A)
<1> SUFFICES ASSUME NEW b \in A, EvidenceId(a) = EvidenceId(b) PROVE a.at = b.at
  BY DEF Quarantined, SameContent
<1>1. EvidenceId(a).issuer = a.issuer /\ EvidenceId(b).issuer = b.issuer
  BY DEF EvidenceId
<1> QED
  BY <1>1 DEF Genuine

\* Every epoch advance survives the preparation, so the epoch is that of all the evidence.
LEMMA AdvancesAreKept ==
  ASSUME NEW A, \A a \in A : Genuine(a)
  PROVE  /\ Of(Prepare(A), "EpochAdvance") = Of(A, "EpochAdvance")
         /\ CurrentEpoch(Prepare(A)) = CurrentEpoch(A)
<1>1. ASSUME NEW a \in A, a.kind = "EpochAdvance" PROVE a \in Prepare(A)
  <2>1. a.issuer = Coordinator /\ a.epoch # 0
    BY <1>1 DEF Genuine
  <2>2. ValidArtifact(a)
    BY <1>1, <2>1 DEF ValidArtifact
  <2> QED
    BY <2>1, <2>2, CoordinatorIsKept DEF Prepare
<1>2. Of(Prepare(A), "EpochAdvance") = Of(A, "EpochAdvance")
  BY <1>1 DEF Of, Prepare
<1> QED
  BY <1>2 DEF CurrentEpoch

\* The epoch is the highest on record, and 1 where there is none.
LEMMA EpochIsHighest ==
  ASSUME NEW A, IsFiniteSet(A), \A a \in A : Genuine(a)
  PROVE  /\ CurrentEpoch(A) \in Nat \ {0}
         /\ \A a \in Of(A, "EpochAdvance") : a.epoch <= CurrentEpoch(A)
         /\ CurrentEpoch(A) = 1 \/ \E a \in Of(A, "EpochAdvance") : a.epoch = CurrentEpoch(A)
<1> DEFINE V == Of(A, "EpochAdvance")
           f == [a \in V |-> a.epoch]
           E == {a.epoch : a \in V}
           S == {1} \union E
<1>1. \A a \in V : a.epoch \in Nat \ {0}
  BY DEF Of, Genuine
<1>2. IsFiniteSet(V)
  BY FS_Subset DEF Of
<1>3. IsFiniteSet({f[x] : x \in V})
  <2> HIDE DEF f, V
  <2> QED
    BY <1>2, FiniteImage
<1>4. {f[x] : x \in V} = E
  OBVIOUS
<1>5. IsFiniteSet(S) /\ S \subseteq Nat \ {0} /\ 1 \in S
  <2>1. IsFiniteSet({1})
    BY FS_Singleton
  <2> HIDE DEF V
  <2>2. E \subseteq Nat \ {0}
    BY <1>1
  <2>3. IsFiniteSet(E)
    BY <1>3, <1>4
  <2> HIDE DEF E
  <2>4. IsFiniteSet({1} \union E)
    BY <2>1, <2>3, FS_Union
  <2> QED
    BY <2>2, <2>4
<1>6. CurrentEpoch(A) = Max(S)
  BY DEF CurrentEpoch
<1>7. Max(S) \in S /\ \A y \in S : Max(S) >= y
  <2> HIDE DEF S
  <2>1. PICK n \in S : \A y \in S : y <= n
    BY <1>5, FiniteMaximum
  <2>2. \A y \in S : n >= y
    BY <1>5, <2>1
  <2> QED
    BY <2>1, <2>2 DEF Max
<1> QED
  BY <1>5, <1>6, <1>7, <1>1

\* The epoch never falls when evidence is added.
LEMMA EpochGrows ==
  ASSUME NEW A, NEW B, IsFiniteSet(B), \A b \in B : Genuine(b), A \subseteq B
  PROVE  CurrentEpoch(A) <= CurrentEpoch(B)
<1>1. IsFiniteSet(A) /\ \A a \in A : Genuine(a)
  BY FS_Subset
<1>2. Of(A, "EpochAdvance") \subseteq Of(B, "EpochAdvance")
  BY DEF Of
<1>3. CurrentEpoch(B) \in Nat \ {0} /\ CurrentEpoch(A) \in Nat \ {0}
  BY <1>1, EpochIsHighest
<1> QED
  BY <1>1, <1>2, <1>3, EpochIsHighest

--------------------------------------------------------------------------------
\* The memberships that derive_state derives, before their claims are compared.
AllDerived(P, ctx, ls) == [m \in Subjects(P, ls) |-> DeriveMembership(m, BySubject(P, m), ctx)]

\* The context derive_state derives the members in.
ViewContext(ctx, policy, P, ls) ==
  /\ ctx.epoch = CurrentEpoch(P) /\ ctx.policy = StatePolicy(P, policy)
  /\ ctx.established = StandingFixpoint(P, ctx.policy, Subjects(P, ls))
  /\ ctx.founder = Founder(P) /\ ctx.founderId = FounderIdentity(P)
  /\ ctx.partition \in {"Empty", "Connected", "Indeterminate", "Split"}
  /\ ctx.partition = "Empty" => ctx.established = {}
  /\ ctx.reconciling = (RecoveryAdvances(P) # {} /\ ~Reconciled(P, ctx.established))

\* The derived state over a context that the evidence determines.
LEMMA ViewOf ==
  ASSUME NEW policy, NEW A, NEW obs, NEW ls, NEW rp, NEW t
  PROVE  \E ctx :
           /\ ViewContext(ctx, policy, Prepare(A), ls)
           /\ View(policy, A, obs, ls, rp, t) =
                WithMembers(ctx, AllDerived(Prepare(A), ctx, ls), Inputs(policy, obs, ls, rp, t))
<1> DEFINE P == Prepare(A)
           pol == StatePolicy(P, policy)
           E == StandingFixpoint(P, pol, Subjects(P, ls))
           in == Inputs(policy, obs, ls, rp, t)
<1>1. PICK partition, reconciling :
               /\ partition \in {"Empty", "Connected", "Indeterminate", "Split"}
               /\ partition = "Empty" => E = {}
               /\ reconciling = (RecoveryAdvances(P) # {} /\ ~Reconciled(P, E))
               /\ View(policy, A, obs, ls, rp, t) =
                    InContext(P, Context(P, pol, E, partition, reconciling), in)
  <2> HIDE DEF in
  <2> QED  BY ViewInContext DEF in
<1> DEFINE ctx == Context(P, pol, E, partition, reconciling)
<1>2. /\ ctx.epoch = CurrentEpoch(P) /\ ctx.policy = pol /\ ctx.established = E
      /\ ctx.founder = Founder(P) /\ ctx.founderId = FounderIdentity(P)
      /\ ctx.partition = partition /\ ctx.reconciling = reconciling
  BY DEF Context
<1>3. in.leases = ls
  BY DEF Inputs
<1>4. View(policy, A, obs, ls, rp, t) = WithMembers(ctx, AllDerived(P, ctx, ls), in)
  BY <1>1, <1>3 DEF InContext, AllDerived
<1>5. ViewContext(ctx, policy, P, ls)
  <2> HIDE DEF ctx, in, P
  <2> QED  BY <1>1, <1>2 DEF ViewContext
<1> QED
  BY <1>4, <1>5

\* The parts of the derived state that no member's authority is needed for.
LEMMA ViewFields ==
  ASSUME NEW policy, NEW A, NEW obs, NEW ls, NEW rp, NEW t
  PROVE  LET v == View(policy, A, obs, ls, rp, t)
             P == Prepare(A)
         IN  /\ v.epoch = CurrentEpoch(P)
             /\ v.policy = StatePolicy(P, policy)
             /\ v.established = StandingFixpoint(P, StatePolicy(P, policy), Subjects(P, ls))
             /\ DOMAIN v.members = Subjects(P, ls)
             /\ v.replay = rp
             /\ v.leases = LeaseViews(ls, CurrentEpoch(P), t)
<1> DEFINE P == Prepare(A)
           in == Inputs(policy, obs, ls, rp, t)
<1>0. PICK ctx : /\ ViewContext(ctx, policy, P, ls)
                 /\ View(policy, A, obs, ls, rp, t) = WithMembers(ctx, AllDerived(P, ctx, ls), in)
  BY ViewOf
<1>1. /\ ctx.epoch = CurrentEpoch(P) /\ ctx.policy = StatePolicy(P, policy)
      /\ ctx.established = StandingFixpoint(P, StatePolicy(P, policy), Subjects(P, ls))
      /\ View(policy, A, obs, ls, rp, t) = WithMembers(ctx, AllDerived(P, ctx, ls), in)
  BY <1>0 DEF ViewContext
<1>2. in.leases = ls /\ in.replay = rp /\ in.now = t
  BY DEF Inputs
<1>3. DOMAIN AllDerived(P, ctx, ls) = Subjects(P, ls)
  BY DEF AllDerived
<1> HIDE DEF in, P
<1> DEFINE D == AllDerived(P, ctx, ls)
           W == WithMembers(ctx, D, in)
<1>4. /\ W.epoch = ctx.epoch /\ W.policy = ctx.policy /\ W.established = ctx.established
      /\ W.replay = in.replay /\ W.leases = LeaseViews(in.leases, ctx.epoch, in.now)
      /\ DOMAIN W.members = DOMAIN D
  BY StateFields
<1> QED
  BY <1>1, <1>2, <1>3, <1>4 DEF P

\* A finite federation derives finitely many members.
LEMMA SubjectsFinite ==
  ASSUME NEW A, NEW ls, IsFiniteSet(A), IsFiniteSet(ls)
  PROVE  IsFiniteSet(Subjects(Prepare(A), ls))
<1> DEFINE P == Prepare(A)
           f == [a \in P |-> a.subject]
           g == [l \in ls |-> l.holder]
           F == {a.subject : a \in P}
           G == {l.holder : l \in ls}
<1>1. IsFiniteSet(P)
  BY FS_Subset DEF Prepare
<1>2. IsFiniteSet({f[x] : x \in P})
  <2> HIDE DEF f, P
  <2> QED  BY <1>1, FiniteImage
<1>3. IsFiniteSet({g[x] : x \in ls})
  <2> HIDE DEF g
  <2> QED  BY FiniteImage
<1>4. {f[x] : x \in P} = F /\ {g[x] : x \in ls} = G
  OBVIOUS
<1>5. IsFiniteSet(F) /\ IsFiniteSet(G)
  BY <1>2, <1>3, <1>4
<1>6. IsFiniteSet(F \union G)
  <2> HIDE DEF F, G
  <2> QED  BY <1>5, FS_Union
<1>7. Subjects(P, ls) \subseteq F \union G
  BY DEF Subjects
<1> HIDE DEF F, G, P
<1>8. IsFiniteSet(Subjects(P, ls))
  BY <1>6, <1>7, FS_Subset
<1> QED
  BY <1>8 DEF P

\* Only members are derived.
LEMMA SubjectsAreMembers ==
  ASSUME NEW A, NEW ls, \A a \in A : Genuine(a), \A l \in ls : l.holder \in Members
  PROVE  Subjects(Prepare(A), ls) \subseteq Members
  BY DEF Subjects, Prepare, Genuine

--------------------------------------------------------------------------------
\* A pass of decide_locked issues finitely many decisions.
LEMMA BatchFinite ==
  ASSUME NEW A, NEW ctx, NEW members, IsFiniteSet(members)
  PROVE  IsFiniteSet(BatchIn(A, ctx, members))
<1> DEFINE dec(m) == DecisionsOn(A, m, DeriveMembership(m, BySubject(A, m), ctx), ctx)
           f == [m \in members |-> dec(m)]
           U == {f[m] : m \in members}
<1>1. IsFiniteSet(U)
  <2> HIDE DEF f
  <2> QED  BY FiniteImage
<1>2. \A m : IsFiniteSet(dec(m))
  <2> SUFFICES ASSUME NEW m PROVE IsFiniteSet(dec(m))
    OBVIOUS
  <2> DEFINE d == DeriveMembership(m, BySubject(A, m), ctx)
  <2>0. IsFiniteSet({}) /\ \A x : IsFiniteSet({x})
    BY FS_EmptySet, FS_Singleton
  <2>1. AdmissionRecord(A, m, d, ctx) = {} \/ \E x : AdmissionRecord(A, m, d, ctx) = {x}
    <3> HIDE DEF d
    <3> QED  BY DEF AdmissionRecord
  <2>2. ActivationRecord(m, d, ctx) = {} \/ \E x : ActivationRecord(m, d, ctx) = {x}
    <3> HIDE DEF d
    <3> QED  BY DEF ActivationRecord
  <2> HIDE DEF d
  <2>3. IsFiniteSet(AdmissionRecord(A, m, d, ctx))
    BY <2>0, <2>1
  <2>4. IsFiniteSet(ActivationRecord(m, d, ctx))
    BY <2>0, <2>2
  <2>5. IsFiniteSet(DecisionsOn(A, m, d, ctx))
    BY <2>3, <2>4, FS_Union DEF DecisionsOn
  <2> QED
    BY <2>5 DEF d
<1>3. \A T \in U : IsFiniteSet(T)
  <2> HIDE DEF dec
  <2> QED  BY <1>2
<1>4. IsFiniteSet(UNION U)
  <2> HIDE DEF U
  <2> QED  BY <1>1, <1>3, FS_UNION
<1>5. BatchIn(A, ctx, members) = UNION U
  BY DEF BatchIn
<1> QED
  BY <1>4, <1>5

\* What decide_locked issues in a pass: admissions and activations of the current epoch, and
\* an activation only where no fence is in force.
LEMMA BatchMeans ==
  ASSUME NEW A, NEW ctx, NEW members, NEW a \in BatchIn(A, ctx, members)
  PROVE  /\ a.issuer = Coordinator /\ a.at = NoStamp /\ a.rank = 0 /\ a.epoch = ctx.epoch
         /\ a.subject \in members
         /\ a.kind \in {"MembershipAdmission", "MembershipActivation"}
         /\ a.kind = "MembershipActivation" =>
              LET m == a.subject
              IN  /\ a.lineage = CurrentLineage(m, BySubject(A, m))
                  /\ ~FenceInForce(m, InLineage(m, BySubject(A, m)))
<1>1. PICK m \in members : a \in DecisionsOn(A, m, DeriveMembership(m, BySubject(A, m), ctx), ctx)
  BY DEF BatchIn
<1> DEFINE d == DeriveMembership(m, BySubject(A, m), ctx)
           C == InLineage(m, BySubject(A, m))
<1>2. d.lifecycle = Lifecycle(m, C, Facts(m, C, ctx), ctx) /\ d.lineage = CurrentLineage(m, BySubject(A, m))
  BY DerivedFields
<1>3. CASE a \in AdmissionRecord(A, m, d, ctx)
  <2> HIDE DEF d, C
  <2>1. /\ a.issuer = Coordinator /\ a.at = NoStamp /\ a.rank = 0 /\ a.epoch = ctx.epoch
        /\ a.kind = "MembershipAdmission" /\ a.subject = m
    BY <1>3 DEF AdmissionRecord, Record
  <2> QED
    BY <2>1
<1>4. CASE a \in ActivationRecord(m, d, ctx)
  <2> HIDE DEF d, C
  <2>1. /\ a.issuer = Coordinator /\ a.at = NoStamp /\ a.rank = 0 /\ a.epoch = ctx.epoch
        /\ a.kind = "MembershipActivation" /\ a.subject = m /\ a.lineage = d.lineage
        /\ d.lifecycle \in {"Admitted", "Degraded"}
    BY <1>4 DEF ActivationRecord, Record
  <2>2. ~FenceInForce(m, C)
    BY <1>2, <2>1, HoldingMeans DEF Established, Holding
  <2> QED
    BY <1>2, <2>1, <2>2 DEF C
<1> QED
  BY <1>1, <1>3, <1>4 DEF DecisionsOn

\* What decisions add to the evidence.
Grown(A, B) ==
  /\ A \subseteq B
  /\ \A b \in B \ A : /\ b.issuer = Coordinator
                      /\ b.kind \in {"MembershipAdmission", "MembershipActivation"}

\* Any part of a pass's decisions leaves the evidence sound, and only adds to it.
LEMMA BatchKeepsSound ==
  ASSUME NEW A, Sound(A), NEW ctx, NEW members, NEW new, IsFiniteSet(members),
         members \subseteq Members \union {Coordinator}, new \subseteq BatchIn(A, ctx, members), ctx.epoch = CurrentEpoch(A)
  PROVE  Sound(A \union new) /\ Grown(A, A \union new)
<1> DEFINE B == A \union new
<1>0. CurrentEpoch(A) \in Nat \ {0}
  BY EpochIsHighest DEF Sound
<1>1. \A a \in new :
         /\ a.issuer = Coordinator /\ a.at = NoStamp /\ a.rank = 0 /\ a.epoch = ctx.epoch
         /\ a.subject \in members
         /\ a.kind \in {"MembershipAdmission", "MembershipActivation"}
         /\ a.kind = "MembershipActivation" =>
              /\ a.lineage = CurrentLineage(a.subject, BySubject(A, a.subject))
              /\ ~FenceInForce(a.subject, InLineage(a.subject, BySubject(A, a.subject)))
  BY BatchMeans
<1>2. IsFiniteSet(B)
  <2>1. IsFiniteSet(new)
    BY BatchFinite, FS_Subset
  <2> QED
    BY <2>1, FS_Union DEF Sound
<1>3. \A b \in B : Genuine(b)
  BY <1>0, <1>1 DEF Sound, Genuine
<1>4. CurrentEpoch(B) = CurrentEpoch(A)
  <2>1. Of(B, "EpochAdvance") = Of(A, "EpochAdvance")
    BY <1>1 DEF Of
  <2> QED
    BY <2>1 DEF CurrentEpoch
<1>5. \A b \in B : b.kind = "MembershipActivation" => b.epoch <= CurrentEpoch(B)
  BY <1>0, <1>1, <1>4 DEF Sound
<1>6. Outranks(B)
  <2> SUFFICES ASSUME NEW f \in B, NEW a \in B,
                      a.kind = "MembershipActivation",
                      f.kind = "MembershipFence", f.issuer = Coordinator,
                      a.subject = f.subject, a.lineage = f.lineage
               PROVE  a.epoch <= f.epoch
    BY DEF Outranks
  <2>1. f \in A
    BY <1>1
  <2>2. CASE a \in A
    BY <2>1, <2>2 DEF Sound, Outranks
  <2>3. CASE a \in new
    <3> DEFINE m == a.subject
               C == InLineage(m, BySubject(A, m))
    <3>1. f \in C
      BY <1>1, <2>1, <2>3 DEF InLineage, BySubject
    <3>2. f \in Fences(m, C)
      BY <3>1 DEF Fences, Of
    <3>3. PICK b \in Of(C, "MembershipActivation") : ~(b.epoch <= f.epoch)
      BY <1>1, <2>3, <3>2 DEF FenceInForce
    <3>4. b \in A /\ b.kind = "MembershipActivation" /\ b.subject = m /\ b.lineage = a.lineage
      BY <1>1, <2>3, <3>3 DEF Of, InLineage, BySubject
    <3>5. b.epoch <= f.epoch
      BY <2>1, <3>4 DEF Sound, Outranks
    <3> QED
      BY <3>3, <3>5
  <2> QED
    BY <2>2, <2>3
<1>7. Grown(A, B)
  BY <1>1 DEF Grown
<1> HIDE DEF B
<1>8. Sound(B)
  BY <1>2, <1>3, <1>5, <1>6 DEF Sound
<1> QED
  BY <1>7, <1>8 DEF B

\* A stage of decide_locked: the state is the one derived from the evidence.
Stage(x, policy, A, obs, ls, rp, t) ==
  /\ Sound(x.set)
  /\ Grown(A, x.set)
  /\ x.view = View(policy, x.set, obs, ls, rp, t)

\* One pass of decide_locked leads from a stage to a stage.
LEMMA PassKeepsStage ==
  ASSUME NEW policy, NEW A, NEW obs, NEW ls, NEW rp, NEW t, NEW x, IsFiniteSet(ls),
         \A l \in ls : l.holder \in Members, Stage(x, policy, A, obs, ls, rp, t)
  PROVE  Stage(Pass(policy, x, obs, ls, rp, t), policy, A, obs, ls, rp, t)
<1> DEFINE B == x.set
           v == x.view
           ctx == DecisionContext(policy, B, v)
           new == Recordable(B, Batch(policy, B, v))
           y == Passed(policy, x, new, obs, ls, rp, t)
<1>1. Sound(B) /\ Grown(A, B) /\ v = View(policy, B, obs, ls, rp, t)
  BY DEF Stage
<1>2. ctx.epoch = CurrentEpoch(B)
  <2>1. v.epoch = CurrentEpoch(Prepare(B))
    BY <1>1, ViewFields
  <2>2. CurrentEpoch(Prepare(B)) = CurrentEpoch(B)
    BY <1>1, AdvancesAreKept DEF Sound
  <2> QED
    BY <2>1, <2>2 DEF DecisionContext
<1>3. IsFiniteSet(DOMAIN v.members) /\ DOMAIN v.members \subseteq Members
  <2>1. DOMAIN v.members = Subjects(Prepare(B), ls)
    BY <1>1, ViewFields
  <2> QED
    BY <1>1, <2>1, SubjectsFinite, SubjectsAreMembers DEF Sound
<1>4. new \subseteq BatchIn(B, ctx, DOMAIN v.members)
  BY DEF Recordable, Batch
<1> HIDE DEF new, ctx
<1>5. Sound(B \union new) /\ Grown(B, B \union new)
  BY <1>1, <1>2, <1>3, <1>4, BatchKeepsSound
<1>6. Grown(A, B \union new)
  BY <1>1, <1>5 DEF Grown
<1>7. CASE x.done \/ new = {}
  <2>1. y.set = B /\ y.view = v
    BY <1>7 DEF Passed
  <2> QED
    BY <1>1, <2>1 DEF Stage, Pass, new
<1>8. CASE ~(x.done \/ new = {})
  <2>1. y.set = B \union new /\ y.view = View(policy, B \union new, obs, ls, rp, t)
    BY <1>8 DEF Passed
  <2> QED
    BY <1>5, <1>6, <2>1 DEF Stage, Pass, new
<1> QED
  BY <1>7, <1>8

\* The passes of decide_locked, one after another.
Passes(f, policy, A, obs, ls, rp, t) ==
  /\ f[0] = Undecided(policy, A, obs, ls, rp, t)
  /\ \A n \in Nat : n < MaxMembers + 2 => f[n + 1] = Pass(policy, f[n], obs, ls, rp, t)

\* decide_locked ends with the last of a sequence of passes.
LEMMA DecideIsPasses ==
  ASSUME NEW policy, NEW A, NEW obs, NEW ls, NEW rp, NEW t
  PROVE  \E f : /\ Passes(f, policy, A, obs, ls, rp, t)
                /\ Decide(policy, A, obs, ls, rp, t) = f[MaxMembers + 2]
<1> DEFINE N == MaxMembers + 2
           c == Undecided(policy, A, obs, ls, rp, t)
           Step(x) == Pass(policy, x, obs, ls, rp, t)
           Fn(g, n) == g = [k \in 0..n |-> IF k = 0 THEN c ELSE Step(g[k - 1])]
           S == {n \in Nat : \E g : Fn(g, n)}
           f == CHOOSE g : Fn(g, N)
<1>0. N \in Nat
  BY PolicyBounds
<1>1. Decide(policy, A, obs, ls, rp, t) = f[N]
  BY DEF Decide
<1>2. 0 \in S
  <2> HIDE DEF c
  <2>1. Fn([k \in 0..0 |-> c], 0)
    OBVIOUS
  <2> QED
    BY <2>1
<1>3. ASSUME NEW n \in Nat, n \in S PROVE n + 1 \in S
  <2>1. PICK g : Fn(g, n)
    BY <1>3
  <2> DEFINE h == [k \in 0..(n + 1) |-> IF k = n + 1 THEN Step(g[n]) ELSE g[k]]
  <2> HIDE DEF c
  <2>2. \A k \in 0..n : g[k] = IF k = 0 THEN c ELSE Step(g[k - 1])
    BY <2>1
  <2>3. \A k \in 0..(n + 1) : h[k] = IF k = 0 THEN c ELSE Step(h[k - 1])
    <3> HIDE DEF Fn
    <3> QED  BY <2>2
  <2>4. Fn(h, n + 1)
    BY <2>3
  <2> HIDE DEF h, Fn
  <2> QED
    BY <2>4
<1>4. N \in S
  <2> HIDE DEF S
  <2> QED  BY <1>0, <1>2, <1>3, SetInduction
<1>5. Fn(f, N)
  <2> HIDE DEF Fn
  <2> QED  BY <1>4
<1>6. \A k \in 0..N : f[k] = IF k = 0 THEN c ELSE Step(f[k - 1])
  <2> HIDE DEF f, c
  <2> QED  BY <1>5
<1>7. f[0] = c /\ \A n \in Nat : n < N => f[n + 1] = Step(f[n])
  <2> HIDE DEF f, c
  <2> QED  BY <1>0, <1>6
<1> HIDE DEF f
<1>8. Passes(f, policy, A, obs, ls, rp, t)
  BY <1>7 DEF Passes
<1> QED
  BY <1>1, <1>8

\* Every pass of decide_locked ends in a stage.
LEMMA PassesAreStages ==
  ASSUME NEW policy, NEW A, NEW obs, NEW ls, NEW rp, NEW t, IsFiniteSet(ls),
         \A l \in ls : l.holder \in Members, Sound(A),
         NEW f, Passes(f, policy, A, obs, ls, rp, t)
  PROVE  \A n \in Nat : n <= MaxMembers + 2 => Stage(f[n], policy, A, obs, ls, rp, t)
<1> DEFINE c == Undecided(policy, A, obs, ls, rp, t)
           T == {n \in Nat : n <= MaxMembers + 2 => Stage(f[n], policy, A, obs, ls, rp, t)}
<1>0. MaxMembers + 2 \in Nat
  BY PolicyBounds
<1>1. f[0] = c /\ \A n \in Nat : n < MaxMembers + 2 => f[n + 1] = Pass(policy, f[n], obs, ls, rp, t)
  BY DEF Passes
<1>2. 0 \in T
  <2>1. c.set = A /\ c.view = View(policy, A, obs, ls, rp, t)
    BY DEF Undecided
  <2> HIDE DEF c
  <2> QED  BY <1>1, <2>1 DEF Stage, Grown
<1> HIDE DEF c
<1>3. ASSUME NEW n \in Nat, n \in T PROVE n + 1 \in T
  <2> SUFFICES ASSUME n + 1 <= MaxMembers + 2 PROVE Stage(f[n + 1], policy, A, obs, ls, rp, t)
    OBVIOUS
  <2>1. Stage(f[n], policy, A, obs, ls, rp, t)
    BY <1>0, <1>3
  <2>2. f[n + 1] = Pass(policy, f[n], obs, ls, rp, t)
    BY <1>0, <1>1
  <2> QED
    BY <2>1, <2>2, PassKeepsStage
<1>4. \A n \in Nat : n \in T
  <2> HIDE DEF T
  <2> QED  BY <1>2, <1>3, SetInduction
<1> QED
  BY <1>4

\* decide_locked ends in a stage, however many passes it made: the state it leaves is the one
\* derived from the evidence it leaves.
LEMMA DecideIsStage ==
  ASSUME NEW policy, NEW A, NEW obs, NEW ls, NEW rp, NEW t, IsFiniteSet(ls),
         \A l \in ls : l.holder \in Members, Sound(A)
  PROVE  Stage(Decide(policy, A, obs, ls, rp, t), policy, A, obs, ls, rp, t)
<1>0. MaxMembers + 2 \in Nat
  BY PolicyBounds
<1>1. PICK f : /\ Passes(f, policy, A, obs, ls, rp, t)
               /\ Decide(policy, A, obs, ls, rp, t) = f[MaxMembers + 2]
  BY DecideIsPasses
<1>2. \A n \in Nat : n <= MaxMembers + 2 => Stage(f[n], policy, A, obs, ls, rp, t)
  BY <1>1, PassesAreStages
<1> QED
  BY <1>0, <1>1, <1>2

--------------------------------------------------------------------------------
\* Two contexts that differ at most in who stands.
SameRules(c1, c2) ==
  /\ c1.founder = c2.founder /\ c1.founderId = c2.founderId
  /\ c1.policy = c2.policy
  /\ RequiredEndorsements(c1.policy) \in Nat
  /\ RequiredDistinctParties(c1.policy) \in Nat

\* What a round of derive_state's fixpoint asks of a member.
LEMMA StandsMeans ==
  ASSUME NEW m, NEW C, NEW ctx
  PROVE  LET f == Facts(m, C, ctx)
         IN  Stands(m, C, ctx) <=>
               /\ Of(C, "MembershipRetirement") = {} /\ Of(C, "MembershipLeave") = {}
               /\ Of(C, "MembershipProposal") # {} \/ ctx.founder = m
               /\ ~FenceInForce(m, C)
               /\ AdmissionValid(m, C, f, ctx)
               /\ \/ Of(C, "MembershipActivation") = {}
                  \/ CurrentIdentity(f).con = f.admitted.con
                  \/ ~(GenerationChanged(f) /\ ReconsentOnGenerationChange(ctx.policy))
  BY DEF Stands, Lifecycle, ActivationMatches, Established, Holding

\* What derive_membership collects depends on who stands only through the endorsers.
LEMMA SameFacts ==
  ASSUME NEW m, NEW C, NEW c1, NEW c2, SameRules(c1, c2)
  PROVE  LET f == Facts(m, C, c1)
             g == Facts(m, C, c2)
         IN  /\ f.proposal = g.proposal /\ f.acceptances = g.acceptances
             /\ f.admitted = g.admitted /\ f.reattestations = g.reattestations
             /\ CurrentIdentity(f) = CurrentIdentity(g)
             /\ GenerationChanged(f) = GenerationChanged(g)
<1> DEFINE f == Facts(m, C, c1)
           g == Facts(m, C, c2)
<1>1. /\ f.proposal = g.proposal /\ f.acceptances = g.acceptances
      /\ f.admitted = g.admitted /\ f.reattestations = g.reattestations
  <2>1. \A p : AdmittedIdentity(m, p, c1) = AdmittedIdentity(m, p, c2)
    BY DEF SameRules, AdmittedIdentity
  <2> QED
    BY <2>1, FactFields
<1> HIDE DEF f, g
<1>2. CurrentIdentity(f) = CurrentIdentity(g)
  BY <1>1 DEF CurrentIdentity
<1>3. GenerationChanged(f) = GenerationChanged(g)
  BY <1>1, <1>2 DEF GenerationChanged
<1> QED
  BY <1>1, <1>2, <1>3 DEF f, g

\* Finite evidence has finitely many issuers.
LEMMA IssuersFinite ==
  ASSUME NEW C, IsFiniteSet(C), NEW X, NEW kind, X \subseteq {e.issuer : e \in Of(C, kind)}
  PROVE  IsFiniteSet(X)
<1> DEFINE E == Of(C, kind)
           f == [e \in E |-> e.issuer]
<1>1. IsFiniteSet(E)
  BY FS_Subset DEF Of
<1>2. IsFiniteSet({f[e] : e \in E})
  <2> HIDE DEF f, E
  <2> QED  BY <1>1, FiniteImage
<1>3. X \subseteq {f[e] : e \in E}
  OBVIOUS
<1> HIDE DEF f, E
<1> QED
  BY <1>2, <1>3, FS_Subset

\* More members standing means more counted endorsers.
LEMMA EndorsersGrow ==
  ASSUME NEW m, NEW C, IsFiniteSet(C), NEW p, NEW c1, NEW c2, c1.established \subseteq c2.established
  PROVE  /\ Endorsers(m, C, p, c1) \subseteq Endorsers(m, C, p, c2)
         /\ IsFiniteSet(Endorsers(m, C, p, c2))
         /\ Endorsers(m, C, p, c1) \subseteq
              {e.issuer : e \in Of(C, "MembershipEndorsement")} \intersect c1.established
<1>1. Endorsers(m, C, p, c1) \subseteq Endorsers(m, C, p, c2)
  BY DEF Endorsers
<1>2. \A c : Endorsers(m, C, p, c) \subseteq
              {e.issuer : e \in Of(C, "MembershipEndorsement")} \intersect c.established
  BY DEF Endorsers
<1> QED
  BY <1>1, <1>2, IssuersFinite

\* assess_multi_party is monotone: what satisfies the policy with some endorsers satisfies it
\* with more of them.
LEMMA SatisfiedGrows ==
  ASSUME NEW m, NEW p, NEW X1, NEW X2, X1 \subseteq X2, NEW E1, NEW E2, E1 \subseteq E2, IsFiniteSet(E2),
         NEW policy, RequiredEndorsements(policy) \in Nat, RequiredDistinctParties(policy) \in Nat,
         AssessMultiParty(m, p, p \in X1, E1, policy).satisfied
  PROVE  AssessMultiParty(m, p, p \in X2, E2, policy).satisfied
<1> DEFINE p1 == ({p, m} \union E1) \ {Coordinator}
           p2 == ({p, m} \union E2) \ {Coordinator}
           n1 == E1 \ {Coordinator, m, p}
           n2 == E2 \ {Coordinator, m, p}
<1>1. p1 \subseteq p2 /\ n1 \subseteq n2
  OBVIOUS
<1>2. IsFiniteSet(p2) /\ IsFiniteSet(n2)
  <2>1. IsFiniteSet(E2 \union {p})
    BY FS_AddElement
  <2>2. IsFiniteSet((E2 \union {p}) \union {m})
    BY <2>1, FS_AddElement
  <2>3. p2 \subseteq (E2 \union {p}) \union {m} /\ n2 \subseteq E2
    OBVIOUS
  <2> HIDE DEF p2, n2
  <2> QED
    BY <2>2, <2>3, FS_Subset
<1>3. /\ Cardinality(p1) <= Cardinality(p2) /\ Cardinality(n1) <= Cardinality(n2)
      /\ Cardinality(p1) \in Nat /\ Cardinality(p2) \in Nat
      /\ Cardinality(n1) \in Nat /\ Cardinality(n2) \in Nat
  <2> HIDE DEF p1, p2, n1, n2
  <2>1. IsFiniteSet(p1) /\ IsFiniteSet(n1)
    BY <1>1, <1>2, FS_Subset
  <2> QED
    BY <1>1, <1>2, <2>1, FS_Subset, FS_CardinalityType
<1>4. /\ p # m /\ p \in X1
      /\ Cardinality(p1) >= RequiredDistinctParties(policy)
      /\ Cardinality(n1) >= RequiredEndorsements(policy)
  BY DEF AssessMultiParty
<1> HIDE DEF n1, n2, p1, p2
<1>5. /\ p # m /\ p \in X2
      /\ Cardinality(p2) >= RequiredDistinctParties(policy)
      /\ Cardinality(n2) >= RequiredEndorsements(policy)
  BY <1>3, <1>4
<1> QED
  BY <1>5 DEF AssessMultiParty, p2, n2

\* Standing is monotone in the standing set: more members standing takes nobody's away.
LEMMA StandsGrows ==
  ASSUME NEW m, NEW C, IsFiniteSet(C), NEW c1, NEW c2, SameRules(c1, c2),
         c1.established \subseteq c2.established, Stands(m, C, c1)
  PROVE  Stands(m, C, c2)
<1> DEFINE f == Facts(m, C, c1)
           g == Facts(m, C, c2)
<1>1. /\ f.proposal = g.proposal /\ f.acceptances = g.acceptances
      /\ f.admitted = g.admitted /\ CurrentIdentity(f) = CurrentIdentity(g)
      /\ GenerationChanged(f) = GenerationChanged(g)
  BY SameFacts
<1>2. f.endorsers = Endorsers(m, C, f.proposal, c1) /\ g.endorsers = Endorsers(m, C, g.proposal, c2)
  BY FactFields
<1>3. f.endorsers \subseteq g.endorsers /\ IsFiniteSet(g.endorsers)
  <2> HIDE DEF f, g
  <2> QED  BY <1>1, <1>2, EndorsersGrow
<1>4. AdmissionValid(m, C, f, c1)
  BY StandsMeans
<1>5. AdmissionValid(m, C, g, c2)
  <2> HIDE DEF f, g
  <2>1. Vouched(m, f.proposal, f, c1) => Vouched(m, f.proposal, g, c2)
    BY <1>3, SatisfiedGrows DEF Vouched, SameRules
  <2> QED
    BY <1>1, <1>4, <2>1 DEF AdmissionValid, SameRules
<1> HIDE DEF f, g
<1> QED
  BY <1>1, <1>5, StandsMeans DEF f, g, SameRules

\* The rounds of the fixpoint, one after another.
Rounds(r, P, policy, subjects) ==
  /\ r[0] = [set |-> {}, converged |-> FALSE]
  /\ \A n \in Nat : n < MaxRounds => r[n + 1] = Round(P, policy, subjects, r[n])

\* The standing fixpoint is the last of a sequence of rounds.
LEMMA FixpointIsRounds ==
  ASSUME NEW P, NEW policy, NEW subjects
  PROVE  \E r : /\ Rounds(r, P, policy, subjects)
                /\ StandingFixpoint(P, policy, subjects) = r[MaxRounds].set
<1> DEFINE N == MaxRounds
           c == [set |-> {}, converged |-> FALSE]
           Step(x) == Round(P, policy, subjects, x)
           Fn(g, n) == g = [k \in 0..n |-> IF k = 0 THEN c ELSE Step(g[k - 1])]
           S == {n \in Nat : \E g : Fn(g, n)}
           f == CHOOSE g : Fn(g, N)
<1>0. N \in Nat
  BY PolicyBounds DEF MaxRounds
<1>1. StandingFixpoint(P, policy, subjects) = f[N].set
  BY DEF StandingFixpoint
<1>2. 0 \in S
  <2> HIDE DEF c
  <2>1. Fn([k \in 0..0 |-> c], 0)
    OBVIOUS
  <2> QED
    BY <2>1
<1>3. ASSUME NEW n \in Nat, n \in S PROVE n + 1 \in S
  <2>1. PICK g : Fn(g, n)
    BY <1>3
  <2> DEFINE h == [k \in 0..(n + 1) |-> IF k = n + 1 THEN Step(g[n]) ELSE g[k]]
  <2> HIDE DEF c
  <2>2. \A k \in 0..n : g[k] = IF k = 0 THEN c ELSE Step(g[k - 1])
    BY <2>1
  <2>3. \A k \in 0..(n + 1) : h[k] = IF k = 0 THEN c ELSE Step(h[k - 1])
    <3> HIDE DEF Fn
    <3> QED  BY <2>2
  <2>4. Fn(h, n + 1)
    BY <2>3
  <2> HIDE DEF h, Fn
  <2> QED
    BY <2>4
<1>4. N \in S
  <2> HIDE DEF S
  <2> QED  BY <1>0, <1>2, <1>3, SetInduction
<1>5. Fn(f, N)
  <2> HIDE DEF Fn
  <2> QED  BY <1>4
<1>6. \A k \in 0..N : f[k] = IF k = 0 THEN c ELSE Step(f[k - 1])
  <2> HIDE DEF f, c
  <2> QED  BY <1>5
<1>7. f[0] = c /\ \A n \in Nat : n < N => f[n + 1] = Step(f[n])
  <2> HIDE DEF f, c
  <2> QED  BY <1>0, <1>6
<1> HIDE DEF f
<1>8. Rounds(f, P, policy, subjects)
  BY <1>7 DEF Rounds
<1> QED
  BY <1>1, <1>8

\* A round leaves the set alone or applies one step to it.
LEMMA RoundMeans ==
  ASSUME NEW P, NEW policy, NEW subjects, NEW x
  PROVE  LET y == Round(P, policy, subjects, x)
         IN  y.set \in {x.set, StandingStep(P, policy, subjects, x.set)}
  BY DEF Round

\* The step of the standing fixpoint is monotone.
LEMMA StepGrows ==
  ASSUME NEW P, IsFiniteSet(P), NEW policy, NEW subjects, NEW X, NEW Y, X \subseteq Y,
         RequiredEndorsements(policy) \in Nat, RequiredDistinctParties(policy) \in Nat
  PROVE  StandingStep(P, policy, subjects, X) \subseteq StandingStep(P, policy, subjects, Y)
<1> DEFINE c1 == StandingContext(P, policy, X)
           c2 == StandingContext(P, policy, Y)
<1>1. /\ c1.founder = c2.founder /\ c1.founderId = c2.founderId
      /\ c1.policy = policy /\ c2.policy = policy
      /\ c1.established = X /\ c2.established = Y
  BY DEF StandingContext, Context
<1>2. \A m : IsFiniteSet(InLineage(m, BySubject(P, m)))
  <2> SUFFICES ASSUME NEW m PROVE IsFiniteSet(InLineage(m, BySubject(P, m)))
    OBVIOUS
  <2>1. InLineage(m, BySubject(P, m)) \subseteq P
    BY DEF InLineage, BySubject
  <2> QED
    BY <2>1, FS_Subset
<1> HIDE DEF c1, c2
<1>3. SameRules(c1, c2)
  BY <1>1 DEF SameRules
<1>4. \A m : LET C == InLineage(m, BySubject(P, m)) IN Stands(m, C, c1) => Stands(m, C, c2)
  BY <1>1, <1>2, <1>3, StandsGrows
<1> QED
  BY <1>4 DEF StandingStep, c1, c2

\* Each round's set is within the next one's, and within what a step makes of it.
LEMMA RoundsRise ==
  ASSUME NEW P, IsFiniteSet(P), NEW policy, NEW subjects, NEW r, Rounds(r, P, policy, subjects),
         RequiredEndorsements(policy) \in Nat, RequiredDistinctParties(policy) \in Nat
  PROVE  LET Step(X) == StandingStep(P, policy, subjects, X)
         IN  /\ \A n \in Nat : n <= MaxRounds => r[n].set \subseteq Step(r[n].set)
             /\ \A n \in Nat : n < MaxRounds => r[n].set \subseteq r[n + 1].set
<1> DEFINE Step(X) == StandingStep(P, policy, subjects, X)
           T == {n \in Nat : n <= MaxRounds => r[n].set \subseteq Step(r[n].set)}
<1>0. MaxRounds \in Nat
  BY PolicyBounds DEF MaxRounds
<1>1. \A n \in Nat : n < MaxRounds => r[n + 1].set \in {r[n].set, Step(r[n].set)}
  BY RoundMeans DEF Rounds
<1>2. 0 \in T
  <2>1. r[0].set = {}
    BY DEF Rounds
  <2> QED
    BY <2>1
<1>3. ASSUME NEW n \in Nat, n \in T PROVE n + 1 \in T
  <2> SUFFICES ASSUME n + 1 <= MaxRounds PROVE r[n + 1].set \subseteq Step(r[n + 1].set)
    OBVIOUS
  <2>1. n < MaxRounds /\ r[n].set \subseteq Step(r[n].set)
    BY <1>0, <1>3
  <2>2. r[n].set \subseteq r[n + 1].set
    BY <1>1, <2>1
  <2>3. Step(r[n].set) \subseteq Step(r[n + 1].set)
    BY <2>2, StepGrows
  <2> QED
    BY <1>1, <2>1, <2>3
<1>4. \A n \in Nat : n <= MaxRounds => r[n].set \subseteq Step(r[n].set)
  <2> HIDE DEF T
  <2>1. Nat \subseteq T
    BY <1>2, <1>3, SetInduction
  <2> QED
    BY <2>1 DEF T
<1>5. \A n \in Nat : n < MaxRounds => r[n].set \subseteq r[n + 1].set
  BY <1>0, <1>1, <1>4
<1> QED
  BY <1>4, <1>5

\* Every round's set is within the last one's.
LEMMA RoundsGrow ==
  ASSUME NEW P, IsFiniteSet(P), NEW policy, NEW subjects, NEW r, Rounds(r, P, policy, subjects),
         RequiredEndorsements(policy) \in Nat, RequiredDistinctParties(policy) \in Nat
  PROVE  \A n \in Nat : n <= MaxRounds => r[n].set \subseteq r[MaxRounds].set
<1>0. MaxRounds \in Nat
  BY PolicyBounds DEF MaxRounds
<1>5. \A n \in Nat : n < MaxRounds => r[n].set \subseteq r[n + 1].set
  BY RoundsRise
<1> DEFINE U == {k \in Nat : k <= MaxRounds => r[MaxRounds - k].set \subseteq r[MaxRounds].set}
<1>6. 0 \in U
  BY <1>0
<1>7. ASSUME NEW k \in Nat, k \in U PROVE k + 1 \in U
  <2> SUFFICES ASSUME k + 1 <= MaxRounds
               PROVE  r[MaxRounds - (k + 1)].set \subseteq r[MaxRounds].set
    OBVIOUS
  <2> DEFINE j == MaxRounds - (k + 1)
  <2>1. j \in Nat /\ j < MaxRounds /\ j + 1 = MaxRounds - k /\ k <= MaxRounds
    BY <1>0
  <2>2. r[MaxRounds - k].set \subseteq r[MaxRounds].set
    BY <1>7, <2>1
  <2> HIDE DEF j
  <2>3. r[j].set \subseteq r[j + 1].set
    BY <1>5, <2>1
  <2> QED
    BY <2>1, <2>2, <2>3 DEF j
<1>8. Nat \subseteq U
  <2> HIDE DEF U
  <2> QED  BY <1>6, <1>7, SetInduction
<1> SUFFICES ASSUME NEW n \in Nat, n <= MaxRounds PROVE r[n].set \subseteq r[MaxRounds].set
  OBVIOUS
<1>9. MaxRounds - n \in Nat /\ MaxRounds - n <= MaxRounds /\ MaxRounds - (MaxRounds - n) = n
  BY <1>0
<1> QED
  BY <1>8, <1>9

\* No part of the standing set holds itself up: some member of any part stands by a step from
\* members that stand outside that part.
LEMMA FixpointIsGrounded ==
  ASSUME NEW P, IsFiniteSet(P), NEW policy, NEW subjects,
         RequiredEndorsements(policy) \in Nat, RequiredDistinctParties(policy) \in Nat,
         NEW S, S # {}, S \subseteq StandingFixpoint(P, policy, subjects)
  PROVE  \E m \in S, X \in SUBSET (StandingFixpoint(P, policy, subjects) \ S) :
           m \in StandingStep(P, policy, subjects, X)
<1> DEFINE E == StandingFixpoint(P, policy, subjects)
<1>1. PICK r : Rounds(r, P, policy, subjects) /\ E = r[MaxRounds].set
  BY FixpointIsRounds
<1>0. MaxRounds \in Nat
  BY PolicyBounds DEF MaxRounds
<1> HIDE DEF E
<1> DEFINE T == {n \in Nat : n <= MaxRounds /\ r[n].set \intersect S # {}}
<1>2. MaxRounds \in T
  BY <1>0, <1>1 DEF E
<1>3. PICK n \in T : \A k \in T : n <= k
  BY <1>2, NatMinimum
<1>4. n # 0
  <2>1. r[0].set = {}
    BY <1>1 DEF Rounds
  <2> QED
    BY <1>3, <2>1
<1>5. n - 1 \in Nat /\ n - 1 < MaxRounds /\ n - 1 <= MaxRounds /\ (n - 1) + 1 = n /\ n - 1 \notin T
  BY <1>0, <1>3, <1>4
<1> DEFINE X == r[n - 1].set
<1>6. X \intersect S = {}
  BY <1>5
<1>7. X \subseteq E
  BY <1>1, <1>5, RoundsGrow
<1>8. r[n].set \in {X, StandingStep(P, policy, subjects, X)}
  BY <1>1, <1>5, RoundMeans DEF Rounds
<1>9. PICK m \in S : m \in r[n].set
  BY <1>3
<1>10. m \in StandingStep(P, policy, subjects, X)
  BY <1>6, <1>8, <1>9
<1> QED
  BY <1>6, <1>7, <1>10 DEF E

\* Whoever stands does so by a step from those that stand.
LEMMA FixpointIsStep ==
  ASSUME NEW P, IsFiniteSet(P), NEW policy, NEW subjects,
         RequiredEndorsements(policy) \in Nat, RequiredDistinctParties(policy) \in Nat
  PROVE  LET E == StandingFixpoint(P, policy, subjects)
         IN  E \subseteq StandingStep(P, policy, subjects, E)
<1>0. MaxRounds \in Nat /\ MaxRounds <= MaxRounds
  BY PolicyBounds DEF MaxRounds
<1>1. PICK r : Rounds(r, P, policy, subjects) /\ StandingFixpoint(P, policy, subjects) = r[MaxRounds].set
  BY FixpointIsRounds
<1> QED
  BY <1>0, <1>1, RoundsRise

\* The standing set is the least: it is within every set that a step does not leave.
LEMMA FixpointIsLeast ==
  ASSUME NEW P, IsFiniteSet(P), NEW policy, NEW subjects,
         RequiredEndorsements(policy) \in Nat, RequiredDistinctParties(policy) \in Nat,
         NEW X, StandingStep(P, policy, subjects, X) \subseteq X
  PROVE  StandingFixpoint(P, policy, subjects) \subseteq X
<1>0. MaxRounds \in Nat /\ MaxRounds <= MaxRounds
  BY PolicyBounds DEF MaxRounds
<1>1. PICK r : Rounds(r, P, policy, subjects) /\ StandingFixpoint(P, policy, subjects) = r[MaxRounds].set
  BY FixpointIsRounds
<1> DEFINE T == {n \in Nat : n <= MaxRounds => r[n].set \subseteq X}
<1>2. 0 \in T
  BY <1>1 DEF Rounds
<1>3. ASSUME NEW n \in Nat, n \in T PROVE n + 1 \in T
  <2> SUFFICES ASSUME n + 1 <= MaxRounds PROVE r[n + 1].set \subseteq X
    OBVIOUS
  <2>1. n < MaxRounds /\ r[n].set \subseteq X
    BY <1>0, <1>3
  <2>2. r[n + 1].set \in {r[n].set, StandingStep(P, policy, subjects, r[n].set)}
    BY <1>1, <2>1, RoundMeans DEF Rounds
  <2>3. StandingStep(P, policy, subjects, r[n].set) \subseteq X
    BY <2>1, StepGrows
  <2> QED
    BY <2>1, <2>2, <2>3
<1>4. MaxRounds \in T
  <2> HIDE DEF T
  <2> QED  BY <1>0, <1>2, <1>3, SetInduction
<1> QED
  BY <1>0, <1>1, <1>4

\* kMaxDerivationRounds is enough: as long as there are no more members than kMaxMembers, the
\* rounds reach a set that a further round does not change.  A round that is not the last
\* adds somebody.
LEMMA RoundsConverge ==
  ASSUME NEW P, IsFiniteSet(P), NEW policy, NEW subjects, IsFiniteSet(subjects),
         Cardinality(subjects) <= MaxMembers,
         RequiredEndorsements(policy) \in Nat, RequiredDistinctParties(policy) \in Nat
  PROVE  LET E == StandingFixpoint(P, policy, subjects)
         IN  StandingStep(P, policy, subjects, E) = E
<1> DEFINE Step(X) == StandingStep(P, policy, subjects, X)
<1>0. MaxMembers \in Nat /\ MaxRounds \in Nat /\ MaxRounds > MaxMembers
  BY PolicyBounds DEF MaxRounds
<1>1. PICK r : Rounds(r, P, policy, subjects) /\ StandingFixpoint(P, policy, subjects) = r[MaxRounds].set
  BY FixpointIsRounds
<1>2. /\ r[0] = [set |-> {}, converged |-> FALSE]
      /\ \A n \in Nat : n < MaxRounds =>
           r[n + 1] = IF r[n].converged THEN r[n]
                      ELSE [set |-> Step(r[n].set), converged |-> Step(r[n].set) = r[n].set]
  BY <1>1 DEF Rounds, Round
<1>3. \A n \in Nat : n < MaxRounds => r[n].set \subseteq r[n + 1].set
  BY <1>1, RoundsRise
<1> DEFINE Good(n) == \/ r[n].converged /\ Step(r[n].set) = r[n].set
                      \/ /\ ~r[n].converged /\ IsFiniteSet(r[n].set) /\ r[n].set \subseteq subjects
                         /\ Cardinality(r[n].set) >= n
           T == {n \in Nat : n <= MaxRounds => Good(n)}
<1> HIDE DEF Step
<1>4. 0 \in T
  <2>1. IsFiniteSet({}) /\ Cardinality({}) = 0
    BY FS_EmptySet
  <2>2. r[0].set = {} /\ r[0].converged = FALSE
    BY <1>2
  <2> QED
    BY <2>1, <2>2
<1>5. ASSUME NEW n \in Nat, n \in T PROVE n + 1 \in T
  <2> SUFFICES ASSUME n + 1 <= MaxRounds PROVE Good(n + 1)
    OBVIOUS
  <2>1. n < MaxRounds /\ n <= MaxRounds /\ Good(n)
    BY <1>0, <1>5
  <2>2. CASE r[n].converged
    <3>1. r[n + 1] = r[n]
      BY <1>2, <2>1, <2>2
    <3> QED
      BY <2>1, <2>2, <3>1
  <2>3. CASE ~r[n].converged
    <3>1. r[n + 1] = [set |-> Step(r[n].set), converged |-> Step(r[n].set) = r[n].set]
      BY <1>2, <2>1, <2>3
    <3>2. r[n + 1].set = Step(r[n].set) /\ r[n + 1].converged = (Step(r[n].set) = r[n].set)
      BY <3>1
    <3>3. Step(r[n].set) \subseteq subjects
      BY DEF Step, StandingStep
    <3>4. CASE Step(r[n].set) = r[n].set
      BY <3>2, <3>4
    <3>5. CASE Step(r[n].set) # r[n].set
      <4> DEFINE X == r[n].set
                 Y == Step(r[n].set)
      <4>1. X \subseteq Y /\ X # Y
        BY <1>3, <2>1, <3>2, <3>5
      <4>2. IsFiniteSet(X) /\ IsFiniteSet(Y) /\ Cardinality(X) >= n
        BY <2>1, <2>3, <3>3, FS_Subset
      <4> HIDE DEF X, Y
      <4>3. Cardinality(X) <= Cardinality(Y) /\ Cardinality(X) # Cardinality(Y)
        BY <4>1, <4>2, FS_Subset
      <4>4. Cardinality(X) \in Nat /\ Cardinality(Y) \in Nat
        BY <4>2, FS_CardinalityType
      <4>5. Cardinality(Y) >= n + 1
        BY <4>2, <4>3, <4>4
      <4> QED
        BY <3>2, <3>3, <3>5, <4>2, <4>5 DEF X, Y
    <3> QED
      BY <3>4, <3>5
  <2> QED
    BY <2>2, <2>3
<1>6. MaxRounds \in T
  <2> HIDE DEF T
  <2> QED  BY <1>0, <1>4, <1>5, SetInduction
<1>7. ASSUME NEW S, S = r[MaxRounds].set, IsFiniteSet(S), S \subseteq subjects, Cardinality(S) >= MaxRounds
      PROVE  FALSE
  <2>1. Cardinality(S) <= Cardinality(subjects) /\ Cardinality(S) \in Nat /\ Cardinality(subjects) \in Nat
    BY <1>7, FS_Subset, FS_CardinalityType
  <2> QED
    BY <1>0, <1>7, <2>1
<1>8. Step(r[MaxRounds].set) = r[MaxRounds].set
  BY <1>0, <1>6, <1>7
<1> QED
  BY <1>1, <1>8 DEF Step

\* Evidence whose steps agree has the same standing set, whoever else it is about.
LEMMA FixpointAgrees ==
  ASSUME NEW P, NEW Q, NEW policy, NEW S, NEW T,
         \A X : StandingStep(P, policy, S, X) = StandingStep(Q, policy, T, X)
  PROVE  StandingFixpoint(P, policy, S) = StandingFixpoint(Q, policy, T)
<1>0. MaxRounds \in Nat
  BY PolicyBounds DEF MaxRounds
<1>1. PICK r : Rounds(r, P, policy, S) /\ StandingFixpoint(P, policy, S) = r[MaxRounds].set
  BY FixpointIsRounds
<1>2. PICK s : Rounds(s, Q, policy, T) /\ StandingFixpoint(Q, policy, T) = s[MaxRounds].set
  BY FixpointIsRounds
<1>3. \A x : Round(P, policy, S, x) = Round(Q, policy, T, x)
  BY DEF Round
<1> DEFINE U == {n \in Nat : n <= MaxRounds => r[n] = s[n]}
<1>4. 0 \in U
  BY <1>1, <1>2 DEF Rounds
<1>5. ASSUME NEW n \in Nat, n \in U PROVE n + 1 \in U
  BY <1>0, <1>1, <1>2, <1>3, <1>5 DEF Rounds
<1>6. MaxRounds \in U
  <2> HIDE DEF U
  <2> QED  BY <1>0, <1>4, <1>5, SetInduction
<1> QED
  BY <1>0, <1>1, <1>2, <1>6

--------------------------------------------------------------------------------
\* The derived state is WithMembers of the memberships derived in such a context.
LEMMA ViewMembers ==
  ASSUME NEW policy, NEW A, NEW obs, NEW ls, NEW rp, NEW t
  PROVE  LET P == Prepare(A)
             v == View(policy, A, obs, ls, rp, t)
         IN  \E ctx :
               /\ ViewContext(ctx, policy, P, ls)
               /\ v = WithMembers(ctx, AllDerived(P, ctx, ls), Inputs(policy, obs, ls, rp, t))
               /\ v.partition = ctx.partition /\ v.reconciling = ctx.reconciling
               /\ v.established = ctx.established /\ v.policy = ctx.policy /\ v.epoch = ctx.epoch
               /\ DOMAIN v.members = Subjects(P, ls)
               /\ \A m \in Subjects(P, ls) :
                    LET d == DeriveMembership(m, BySubject(P, m), ctx)
                    IN  /\ v.members[m].lifecycle = d.lifecycle
                        /\ v.members[m].lineage = d.lineage
                        /\ v.members[m].current = d.current
                        /\ v.members[m].terms = d.terms
                        /\ v.members[m].withdrawn = d.withdrawn
<1> DEFINE P == Prepare(A)
           in == Inputs(policy, obs, ls, rp, t)
           v == View(policy, A, obs, ls, rp, t)
<1>1. PICK ctx : ViewContext(ctx, policy, P, ls) /\ v = WithMembers(ctx, AllDerived(P, ctx, ls), in)
  BY ViewOf
<1> HIDE DEF in, P
<1> DEFINE D == AllDerived(P, ctx, ls)
           W == WithMembers(ctx, D, in)
<1>2. DOMAIN D = Subjects(P, ls) /\ \A m \in Subjects(P, ls) : D[m] = DeriveMembership(m, BySubject(P, m), ctx)
  BY DEF AllDerived
<1> HIDE DEF D
<1>3. /\ W.epoch = ctx.epoch /\ W.policy = ctx.policy /\ W.established = ctx.established
      /\ W.partition = ctx.partition /\ W.reconciling = ctx.reconciling
      /\ DOMAIN W.members = DOMAIN D
      /\ \A m \in DOMAIN D :
           /\ W.members[m].lifecycle = D[m].lifecycle
           /\ W.members[m].lineage = D[m].lineage
           /\ W.members[m].current = D[m].current
           /\ W.members[m].terms = D[m].terms
           /\ W.members[m].withdrawn = D[m].withdrawn
  BY DEF WithMembers, WithClaims, WithAuthority, MemberState
<1>4. v = W
  BY <1>1 DEF D
<1> HIDE DEF W, v
<1>5. /\ v.partition = ctx.partition /\ v.reconciling = ctx.reconciling
      /\ v.established = ctx.established /\ v.policy = ctx.policy /\ v.epoch = ctx.epoch
      /\ DOMAIN v.members = Subjects(P, ls)
  BY <1>2, <1>3, <1>4
<1>6. \A m \in Subjects(P, ls) :
                    LET d == DeriveMembership(m, BySubject(P, m), ctx)
                    IN  /\ v.members[m].lifecycle = d.lifecycle
                        /\ v.members[m].lineage = d.lineage
                        /\ v.members[m].current = d.current
                        /\ v.members[m].terms = d.terms
                        /\ v.members[m].withdrawn = d.withdrawn
  BY <1>2, <1>3, <1>4
<1> QED
  BY <1>1, <1>5, <1>6 DEF P, v, in

\* Nobody but the genesis's subject is ever the founder.
LEMMA FounderIsGenesis ==
  ASSUME NEW P, \A a \in P : Genuine(a)
  PROVE  Founder(P) \in {Founder0, Coordinator}
<1>1. CASE Cardinality(GenesisOf(P)) = 1
  <2>1. GenesisOf(P) # {}
    BY <1>1, FS_EmptySet
  <2>2. \A g \in GenesisOf(P) : g.subject = Founder0
    BY DEF GenesisOf, Of, Genuine
  <2> QED
    BY <1>1, <2>1, <2>2 DEF Founder
<1> QED
  BY <1>1 DEF Founder

\* What the preparation keeps of sound evidence is genuine, valid and finite, and leaves the
\* configured policy in force.
LEMMA PreparedIsSound ==
  ASSUME NEW A, Sound(A)
  PROVE  /\ IsFiniteSet(Prepare(A)) /\ Prepare(A) \subseteq A
         /\ \A a \in Prepare(A) : Genuine(a) /\ ValidArtifact(a)
         /\ \A policy : StatePolicy(Prepare(A), policy) = policy
<1>1. Prepare(A) \subseteq A /\ \A a \in Prepare(A) : Genuine(a) /\ ValidArtifact(a)
  BY DEF Prepare, Sound
<1>2. IsFiniteSet(Prepare(A))
  BY <1>1, FS_Subset DEF Sound
<1>3. Of(Prepare(A), "PolicyUpdate") = {}
  BY <1>1 DEF Of, Genuine
<1> QED
  BY <1>1, <1>2, <1>3 DEF StatePolicy

\* Nobody but the founder holds authority that it did not accept or that it proposed itself.
LEMMA NobodyIsConscripted ==
  ASSUME NEW policy, NEW A, NEW obs, NEW ls, NEW rp, NEW t, Sound(A),
         NEW m \in Members \ {Founder0},
         m \in DOMAIN View(policy, A, obs, ls, rp, t).members,
         View(policy, A, obs, ls, rp, t).members[m].lifecycle \in Holding
  PROVE  LET C == InLineage(m, BySubject(Prepare(A), m))
         IN  /\ \E a \in C : /\ a.kind = "MembershipAcceptance"
                             /\ a.issuer = m
                             /\ a.id.con = View(policy, A, obs, ls, rp, t).members[m].current.con
             /\ \E p \in C : p.kind = "MembershipProposal" /\ p.issuer # m
<1> DEFINE P == Prepare(A)
           v == View(policy, A, obs, ls, rp, t)
<1>1. PICK ctx : /\ ViewContext(ctx, policy, P, ls)
                 /\ v.members[m].lifecycle = DeriveMembership(m, BySubject(P, m), ctx).lifecycle
                 /\ v.members[m].current = DeriveMembership(m, BySubject(P, m), ctx).current
  <2> HIDE DEF v
  <2> QED  BY ViewMembers DEF v
<1>2. ctx.founder # m
  BY <1>1, FounderIsGenesis, PreparedIsSound, CoordinatorIsNil DEF ViewContext
<1> HIDE DEF v, P
<1>3. DeriveMembership(m, BySubject(P, m), ctx).lifecycle \in Holding
  BY <1>1 DEF v
<1> QED
  BY <1>1, <1>2, <1>3, HoldingIsConsented DEF v, P

\* Nobody that a fence order of its lineage names is established, whatever else is on record.
LEMMA FencedDoNotStand ==
  ASSUME NEW policy, NEW A, NEW obs, NEW ls, NEW rp, NEW t, Sound(A), NEW m,
         m \in DOMAIN View(policy, A, obs, ls, rp, t).members,
         NEW f \in InLineage(m, BySubject(Prepare(A), m)),
         f.kind = "MembershipFence", f.issuer = Coordinator
  PROVE  View(policy, A, obs, ls, rp, t).members[m].lifecycle \notin Established
<1> DEFINE P == Prepare(A)
           v == View(policy, A, obs, ls, rp, t)
           C == InLineage(m, BySubject(P, m))
<1>1. PICK ctx : v.members[m].lifecycle = DeriveMembership(m, BySubject(P, m), ctx).lifecycle
  <2> HIDE DEF v
  <2> QED  BY ViewMembers DEF v
<1>2. DeriveMembership(m, BySubject(P, m), ctx).lifecycle = Lifecycle(m, C, Facts(m, C, ctx), ctx)
  BY DerivedFields
<1>3. f \in Fences(m, C)
  BY DEF Fences, Of
<1>4. \A a \in Of(C, "MembershipActivation") : a.epoch <= f.epoch
  <2> SUFFICES ASSUME NEW a \in Of(C, "MembershipActivation") PROVE a.epoch <= f.epoch
    OBVIOUS
  <2>1. a \in A /\ f \in A /\ a.subject = f.subject /\ a.lineage = f.lineage /\ a.kind = "MembershipActivation"
    BY DEF Of, InLineage, BySubject, Prepare
  <2> QED
    BY <2>1 DEF Sound, Outranks
<1>5. FenceInForce(m, C)
  BY <1>3, <1>4 DEF FenceInForce
<1> HIDE DEF v, C
<1> QED
  BY <1>1, <1>2, <1>5, HoldingMeans DEF v

\* Any group of established members other than the founder has a member whose proposer and
\* endorsers the policy requires, all standing, are outside the group.
LEMMA GroupIsVouchedFor ==
  ASSUME NEW policy, NEW A, NEW obs, NEW ls, NEW rp, NEW t, Sound(A),
         RequiredEndorsements(policy) \in Nat, RequiredDistinctParties(policy) \in Nat,
         NEW S, S # {}, S \subseteq View(policy, A, obs, ls, rp, t).established \ {Founder0}
  PROVE  LET v == View(policy, A, obs, ls, rp, t)
         IN  \E m \in S :
               LET C == InLineage(m, BySubject(Prepare(A), m))
               IN  /\ OperativeProposal(m, C).issuer \in v.established \ S
                   /\ Cardinality({e.issuer : e \in Of(C, "MembershipEndorsement")}
                                    \intersect (v.established \ S)) >= RequiredEndorsements(v.policy)
<1> DEFINE P == Prepare(A)
           v == View(policy, A, obs, ls, rp, t)
           subjects == Subjects(P, ls)
           E == StandingFixpoint(P, policy, subjects)
<1>1. v.policy = policy /\ v.established = E
  BY ViewFields, PreparedIsSound
<1> HIDE DEF v
<1>2. PICK m \in S, X \in SUBSET (E \ S) : m \in StandingStep(P, policy, subjects, X)
  <2>1. S \subseteq E
    BY <1>1 DEF v
  <2> HIDE DEF P, E
  <2> QED  BY <2>1, PreparedIsSound, FixpointIsGrounded DEF P, E
<1> DEFINE C == InLineage(m, BySubject(P, m))
           ctx == StandingContext(P, policy, X)
           f == Facts(m, C, ctx)
           p == OperativeProposal(m, C)
<1>3. ctx.founder = Founder(P) /\ ctx.policy = policy /\ ctx.established = X
  BY DEF StandingContext, Context
<1>4. Stands(m, C, ctx) /\ m \in subjects
  BY <1>2 DEF StandingStep
<1>5. ctx.founder # m
  <2>1. m # Founder0
    BY <1>1 DEF v
  <2>2. m # Coordinator
    BY <1>4 DEF Subjects
  <2> QED
    BY <1>3, <2>1, <2>2, FounderIsGenesis, PreparedIsSound
<1>6. f.proposal = p /\ f.endorsers = Endorsers(m, C, p, ctx)
  BY FactFields
<1>7. IsFiniteSet(C)
  <2>1. C \subseteq P
    BY DEF InLineage, BySubject
  <2> HIDE DEF C, P
  <2> QED  BY <2>1, PreparedIsSound, FS_Subset DEF P
<1> HIDE DEF ctx, C, f, p
<1>8. AdmissionValid(m, C, f, ctx)
  BY <1>4, StandsMeans DEF f
<1>9. Vouched(m, p, f, ctx)
  BY <1>5, <1>6, <1>8 DEF AdmissionValid
<1>10. p.issuer \in X /\ Cardinality(f.endorsers \ {Coordinator, m, p.issuer}) >= RequiredEndorsements(policy)
  BY <1>3, <1>9 DEF Vouched, AssessMultiParty
<1> DEFINE N == f.endorsers \ {Coordinator, m, p.issuer}
           I == {e.issuer : e \in Of(C, "MembershipEndorsement")}
           W == I \intersect (E \ S)
<1>11. f.endorsers \subseteq I \intersect X
  BY <1>3, <1>6, <1>7, EndorsersGrow
<1>12. IsFiniteSet(W)
  <2>1. W \subseteq I
    OBVIOUS
  <2> QED  BY <1>7, <2>1, IssuersFinite
<1>13. N \subseteq W
  BY <1>2, <1>11
<1>14. Cardinality(N) <= Cardinality(W) /\ Cardinality(N) \in Nat /\ Cardinality(W) \in Nat
  <2> HIDE DEF N, W
  <2>1. IsFiniteSet(N)
    BY <1>12, <1>13, FS_Subset
  <2> QED  BY <1>12, <1>13, <2>1, FS_Subset, FS_CardinalityType
<1>15. Cardinality(W) >= RequiredEndorsements(policy)
  <2> HIDE DEF W
  <2> QED  BY <1>10, <1>14
<1>16. p.issuer \in E \ S
  BY <1>2, <1>10
<1> HIDE DEF E, P
<1> QED
  BY <1>1, <1>15, <1>16 DEF v, C, p, P

\* Evidence whose identifier covers its stamp, and what the coordinator records, is never
\* quarantined: equal identifiers mean equal content (prepare_artifacts).
LEMMA StampedIsKept ==
  ASSUME NEW A, \A a \in A : Genuine(a), NEW x \in A, ValidArtifact(x),
         x.issuer = Coordinator \/ x.kind \in StampedKinds
  PROVE  x \in Prepare(A)
<1>1. CASE x.issuer = Coordinator
  BY <1>1, CoordinatorIsKept DEF Prepare
<1>2. CASE x.issuer # Coordinator /\ x.kind \in StampedKinds
  <2>1. ASSUME NEW b \in A, EvidenceId(x) = EvidenceId(b) PROVE SameContent(x, b)
    <3>1. EvidenceId(x).at = x.at /\ EvidenceId(x).kind = x.kind /\ EvidenceId(x).issuer = x.issuer
      BY <1>2 DEF EvidenceId
    <3>2. EvidenceId(b).kind = b.kind /\ EvidenceId(b).issuer = b.issuer
      BY DEF EvidenceId
    <3>3. b.issuer # Coordinator /\ b.kind \in StampedKinds
      BY <1>2, <2>1, <3>1, <3>2
    <3>4. EvidenceId(b).at = b.at
      BY <3>3 DEF EvidenceId
    <3> QED
      BY <2>1, <3>1, <3>4 DEF SameContent
  <2> QED
    BY <2>1 DEF Prepare, Quarantined
<1> QED
  BY <1>1, <1>2

\* A grant that the member's own withdrawal covers is not granted in that lineage.
LEMMA WithdrawnIsNotGranted ==
  ASSUME NEW policy, NEW A, NEW obs, NEW ls, NEW rp, NEW t, Sound(A), NEW m,
         m \in DOMAIN View(policy, A, obs, ls, rp, t).members,
         NEW w \in A, w.kind = "DelegationWithdrawal", w.issuer = m,
         w.lineage = View(policy, A, obs, ls, rp, t).members[m].lineage,
         NEW g \in View(policy, A, obs, ls, rp, t).members[m].granted
  PROVE  ~GrantsCover(w.what, g)
<1> DEFINE P == Prepare(A)
           v == View(policy, A, obs, ls, rp, t)
           C == InLineage(m, BySubject(P, m))
           in == Inputs(policy, obs, ls, rp, t)
<1>1. PICK ctx :
        /\ v = WithMembers(ctx, AllDerived(P, ctx, ls), in)
        /\ DOMAIN v.members = Subjects(P, ls)
        /\ v.members[m].lineage = DeriveMembership(m, BySubject(P, m), ctx).lineage
  <2> HIDE DEF v, in
  <2> QED  BY ViewMembers DEF v, in
<1> DEFINE D == AllDerived(P, ctx, ls)
           d == DeriveMembership(m, BySubject(P, m), ctx)
<1>2. DOMAIN D = Subjects(P, ls) /\ D[m] = d
  BY <1>1 DEF AllDerived
<1>3. d.lineage = CurrentLineage(m, BySubject(P, m)) /\ d.withdrawn = WithdrawnGrants(m, C)
  BY DerivedFields
<1>4. w \in P
  <2>1. ValidArtifact(w)
    BY DEF ValidArtifact, Sound, Genuine
  <2>2. w.kind \in StampedKinds /\ \A a \in A : Genuine(a)
    BY DEF StampedKinds, Sound
  <2> QED
    BY <2>1, <2>2, StampedIsKept
<1>5. w \in C
  <2>1. w.subject = m
    BY DEF Sound, Genuine
  <2> QED
    BY <1>1, <1>3, <1>4, <2>1 DEF InLineage, BySubject
<1>6. w.what \subseteq d.withdrawn
  BY <1>3, <1>5 DEF WithdrawnGrants, Own, Of
<1> HIDE DEF D, d, v, in, P, C
<1>7. g \in Grants([x \in D[m].terms |-> Disposition(m, D[m], x, Claims(D), ctx.policy,
                      ctx.reconciling, ctx.partition, in.now)], "granted")
  <2>1. m \in DOMAIN D /\ g \in WithMembers(ctx, D, in).members[m].granted
    BY <1>1, <1>2 DEF v, D
  <2> QED
    BY <2>1, StateFields
<1>8. PICK x \in D[m].terms : x.grant = g /\ ~Withheld(m, D[m], x, Claims(D), ctx.policy, in.now)
  BY <1>7, GrantedMeans
<1>9. ~GrantsCover(D[m].withdrawn, g)
  BY <1>8 DEF Withheld
<1> QED
  BY <1>2, <1>6, <1>9 DEF GrantsCover

\* The derived state never grants two members what one of them holds exclusively.
LEMMA ExclusiveIsHeldOnce ==
  ASSUME NEW policy, NEW A, NEW obs, NEW ls, NEW rp, NEW t, Sound(A), IsFiniteSet(ls),
         NEW m \in DOMAIN View(policy, A, obs, ls, rp, t).members,
         NEW n \in DOMAIN View(policy, A, obs, ls, rp, t).members, m # n,
         NEW x \in View(policy, A, obs, ls, rp, t).members[m].terms, x.mode = "Exclusive",
         x.grant \in View(policy, A, obs, ls, rp, t).members[m].granted,
         x.grant \in View(policy, A, obs, ls, rp, t).members[n].granted
  PROVE  FALSE
<1> DEFINE P == Prepare(A)
           v == View(policy, A, obs, ls, rp, t)
           in == Inputs(policy, obs, ls, rp, t)
<1>1. PICK ctx :
        /\ v = WithMembers(ctx, AllDerived(P, ctx, ls), in)
        /\ DOMAIN v.members = Subjects(P, ls)
        /\ v.members[m].terms = DeriveMembership(m, BySubject(P, m), ctx).terms
  <2> HIDE DEF v, in
  <2> QED  BY ViewMembers DEF v, in
<1> DEFINE D == AllDerived(P, ctx, ls)
<1>2. DOMAIN D = Subjects(P, ls) /\ D[m].terms = v.members[m].terms
  BY <1>1 DEF AllDerived
<1>3. IsFiniteSet(DOMAIN D)
  BY <1>2, SubjectsFinite DEF Sound
<1> HIDE DEF D, v, in, P
<1> QED
  BY <1>1, <1>2, <1>3, OneHolderOfExclusive DEF v, D

--------------------------------------------------------------------------------
\* The first artefact in the order of evidence identities is one of them.
LEMMA FirstExists ==
  ASSUME NEW S, S # {}, \A a \in S : a.rank \in Nat
  PROVE  FirstByEvidence(S) \in S
<1> DEFINE key == [a \in S |-> a.rank]
<1>1. \A a \in S : key[a] = a.rank
  OBVIOUS
<1>2. \E a \in S : \A b \in S : key[a] <= key[b]
  <2> HIDE DEF key
  <2> QED  BY <1>1, LeastKey
<1> QED
  BY <1>1, <1>2 DEF FirstByEvidence

\* A finite nonempty set of artefacts has one of the greatest epoch.
LEMMA GreatestEpochs ==
  ASSUME NEW S, S # {}, IsFiniteSet(S), \A a \in S : a.epoch \in Nat
  PROVE  \E a \in S : \A b \in S : b.epoch <= a.epoch
<1> DEFINE key == [a \in S |-> a.epoch]
<1>1. \A a \in S : key[a] = a.epoch
  OBVIOUS
<1>2. \E a \in S : \A b \in S : key[b] <= key[a]
  <2> HIDE DEF key
  <2> QED  BY <1>1, GreatestKey
<1> QED
  BY <1>1, <1>2

\* The latest re-attestation is one of the re-attestations.
LEMMA LatestExists ==
  ASSUME NEW S, S # {}, IsFiniteSet(S),
         \A a \in S : a.epoch \in Nat /\ a.id.inc \in Nat /\ a.rank \in Nat
  PROVE  LET x == LatestReattestation(S)
         IN  /\ x \in S
             /\ \A b \in S : \/ b.epoch < x.epoch
                             \/ b.epoch = x.epoch /\ b.id.inc < x.id.inc
                             \/ b.epoch = x.epoch /\ b.id.inc = x.id.inc /\ b.rank <= x.rank
<1>1. PICK x \in S : \A b \in S : b.epoch <= x.epoch
  BY GreatestEpochs
<1> DEFINE T == {a \in S : a.epoch = x.epoch}
           k1 == [a \in T |-> a.id.inc]
<1>2. T # {} /\ IsFiniteSet(T) /\ \A a \in T : k1[a] = a.id.inc /\ a.id.inc \in Nat
  BY FS_Subset
<1>3. PICK y \in T : \A b \in T : b.id.inc <= y.id.inc
  <2>1. \E a \in T : \A b \in T : k1[b] <= k1[a]
    <3> HIDE DEF T, k1
    <3> QED  BY <1>2, GreatestKey
  <2> QED
    BY <1>2, <2>1
<1> DEFINE U == {a \in T : a.id.inc = y.id.inc}
           k2 == [a \in U |-> a.rank]
<1>4. U # {} /\ IsFiniteSet(U) /\ \A a \in U : k2[a] = a.rank /\ a.rank \in Nat
  <2>1. IsFiniteSet(U)
    <3> HIDE DEF T
    <3> QED  BY <1>2, FS_Subset
  <2> QED
    BY <2>1
<1>5. PICK z \in U : \A b \in U : b.rank <= z.rank
  <2>1. \E a \in U : \A b \in U : k2[b] <= k2[a]
    <3> HIDE DEF U, k2
    <3> QED  BY <1>4, GreatestKey
  <2> QED
    BY <1>4, <2>1
<1>6. z \in S /\ z.epoch = x.epoch /\ z.id.inc = y.id.inc
  OBVIOUS
<1>7. \A b \in S : \/ b.epoch < z.epoch
                   \/ b.epoch = z.epoch /\ b.id.inc < z.id.inc
                   \/ b.epoch = z.epoch /\ b.id.inc = z.id.inc /\ b.rank <= z.rank
  BY <1>1, <1>3, <1>5, <1>6
<1> HIDE DEF T, U
<1> QED
  BY <1>6, <1>7 DEF LatestReattestation

\* The operative proposal, when anybody sponsored the member, is a sponsor's.
LEMMA OperativeIsSponsored ==
  ASSUME NEW m, NEW C, IsFiniteSet(C), \A a \in C : Genuine(a), Sponsored(m, C) # {}
  PROVE  OperativeProposal(m, C) \in Sponsored(m, C)
<1> DEFINE S == Sponsored(m, C)
           H == HighestGeneration(S)
           key == [p \in S |-> Generation(p.id)]
<1>1. IsFiniteSet(S) /\ \A p \in S : p.rank \in Nat
  <2>1. S \subseteq C
    BY DEF Sponsored, Of
  <2> QED
    BY <2>1, FS_Subset DEF Genuine
<1>2. \A p \in S : key[p] = Generation(p.id) /\ Generation(p.id) \in Nat
  BY ConstitutionsAssumption DEF Generation
<1>3. \E p \in S : \A q \in S : key[q] <= key[p]
  <2> HIDE DEF S, key
  <2> QED  BY <1>1, <1>2, GreatestKey DEF S
<1>4. H # {} /\ H \subseteq S
  BY <1>2, <1>3 DEF HighestGeneration
<1>5. FirstByEvidence(H) \in H
  <2> HIDE DEF H, S
  <2> QED  BY <1>1, <1>4, FirstExists
<1> QED
  BY <1>4, <1>5 DEF OperativeProposal

\* The evidence of a member's lineage is finite, genuine, valid and about that member.
LEMMA EvidenceOfLineage ==
  ASSUME NEW A, Sound(A), NEW m
  PROVE  LET C == InLineage(m, BySubject(Prepare(A), m))
         IN  /\ IsFiniteSet(C) /\ C \subseteq Prepare(A)
             /\ \A a \in C : Genuine(a) /\ ValidArtifact(a) /\ a.subject = m /\ a \in A
<1>1. /\ InLineage(m, BySubject(Prepare(A), m)) \subseteq Prepare(A)
      /\ \A a \in InLineage(m, BySubject(Prepare(A), m)) : a.subject = m
  BY DEF InLineage, BySubject
<1> QED
  BY <1>1, PreparedIsSound, FS_Subset

\* Terms whose scopes are all known and federal.
Federal(T) == \A x \in T : Classify(x.grant.scope) \notin {"Unknown", "Local"}

\* A valid proposal, re-attestation or genesis delegates no local scope.
LEMMA ValidIsFederal ==
  ASSUME NEW a, ValidArtifact(a),
         a.kind \in {"MembershipProposal", "MemberReattestation", "FederationGenesis"}
  PROVE  Federal(Constitution[a.id.con].delegated)
  BY DEF ValidArtifact, ValidConstitution, Federal

\* The constitution a member is taken to have declared delegates no local scope.
LEMMA DeclaredIsFederal ==
  ASSUME NEW A, Sound(A), NEW m, NEW ctx, ctx.founderId = FounderIdentity(Prepare(A)),
         LET C == InLineage(m, BySubject(Prepare(A), m))
         IN  DeclaredIdentity(Facts(m, C, ctx)).con \in Revisions
  PROVE  LET C == InLineage(m, BySubject(Prepare(A), m))
         IN  Federal(Constitution[DeclaredIdentity(Facts(m, C, ctx)).con].delegated)
<1> DEFINE P == Prepare(A)
           C == InLineage(m, BySubject(P, m))
           f == Facts(m, C, ctx)
           p == OperativeProposal(m, C)
           R == Own(m, Of(C, "MemberReattestation"))
<1>1. IsFiniteSet(C) /\ \A a \in C : Genuine(a) /\ ValidArtifact(a)
  BY EvidenceOfLineage
<1>2. f.reattestations = R /\ f.admitted = AdmittedIdentity(m, p, ctx)
  BY FactFields
<1>3. NoIdentity.con \notin Revisions
  BY ConstitutionsAssumption DEF NoIdentity
<1>4. CASE R # {}
  <2>1. IsFiniteSet(R) /\ \A a \in R : a \in C /\ a.kind = "MemberReattestation"
    BY <1>1, FS_Subset DEF Own, Of
  <2>2. \A a \in R : a.epoch \in Nat /\ a.id.inc \in Nat /\ a.rank \in Nat
    <3> HIDE DEF R, C
    <3> QED  BY <1>1, <2>1 DEF Genuine
  <2>3. LatestReattestation(R) \in R
    <3> HIDE DEF R
    <3> QED  BY <1>4, <2>1, <2>2, LatestExists
  <2>4. DeclaredIdentity(f) = LatestReattestation(R).id
    <3> HIDE DEF R, f
    <3> QED  BY <1>2, <1>4 DEF DeclaredIdentity
  <2> HIDE DEF R, f, C
  <2>5. Federal(Constitution[LatestReattestation(R).id.con].delegated)
    BY <1>1, <2>1, <2>3, ValidIsFederal
  <2> QED
    BY <2>4, <2>5 DEF f, C, P
<1>5. CASE R = {}
  <2>1. DeclaredIdentity(f) = AdmittedIdentity(m, p, ctx)
    <3> HIDE DEF R, f, p
    <3> QED  BY <1>2, <1>5 DEF DeclaredIdentity
  <2>2. CASE p = NoProposal /\ ctx.founder = m
    <3>1. DeclaredIdentity(f) = FounderIdentity(P)
      <4> HIDE DEF f, p, P
      <4> QED  BY <2>1, <2>2 DEF AdmittedIdentity, P
    <3>2. FounderIdentity(P) # NoIdentity
      BY <1>3, <3>1
    <3>3. Cardinality(GenesisOf(P)) = 1
      BY <3>2 DEF FounderIdentity
    <3>4. GenesisOf(P) # {}
      BY <3>3, FS_EmptySet
    <3>5. \A g \in GenesisOf(P) : Federal(Constitution[g.id.con].delegated)
      <4> SUFFICES ASSUME NEW g \in GenesisOf(P) PROVE Federal(Constitution[g.id.con].delegated)
        OBVIOUS
      <4>1. ValidArtifact(g) /\ g.kind = "FederationGenesis"
        BY PreparedIsSound DEF GenesisOf, Of
      <4> QED
        BY <4>1, ValidIsFederal
    <3>6. Federal(Constitution[FounderIdentity(P).con].delegated)
      <4> HIDE DEF P
      <4> QED  BY <3>3, <3>4, <3>5 DEF FounderIdentity
    <3> HIDE DEF f, C
    <3> QED
      BY <3>1, <3>6 DEF f, C
  <2>3. CASE ~(p = NoProposal /\ ctx.founder = m)
    <3>1. DeclaredIdentity(f) = p.id
      <4> HIDE DEF f, p
      <4> QED  BY <2>1, <2>3 DEF AdmittedIdentity
    <3>2. Sponsored(m, C) # {}
      <4>1. p.id # NoIdentity
        BY <1>3, <3>1
      <4> QED
        BY <4>1 DEF OperativeProposal, NoProposal
    <3>3. p \in Sponsored(m, C)
      <4> HIDE DEF C
      <4> QED  BY <1>1, <3>2, OperativeIsSponsored
    <3>4. p \in C /\ p.kind = "MembershipProposal"
      BY <3>3 DEF Sponsored, Of
    <3>5. Federal(Constitution[p.id.con].delegated)
      <4> HIDE DEF p, C
      <4> QED  BY <1>1, <3>4, ValidIsFederal
    <3> HIDE DEF f, C, p
    <3> QED
      BY <3>1, <3>5 DEF f, C
  <2> QED
    BY <2>2, <2>3
<1> QED
  BY <1>4, <1>5

\* No term of a derived member is about a local or unknown scope.
LEMMA TermsAreFederal ==
  ASSUME NEW A, Sound(A), NEW m, NEW ctx, ctx.founderId = FounderIdentity(Prepare(A))
  PROVE  Federal(DeriveMembership(m, BySubject(Prepare(A), m), ctx).terms)
<1> DEFINE P == Prepare(A)
           C == InLineage(m, BySubject(P, m))
           con == DeclaredIdentity(Facts(m, C, ctx)).con
           N == Own(m, Of(C, "DelegationDeclaration"))
           L == {d \in N : \A e \in N : e.epoch <= d.epoch}
<1>1. DeriveMembership(m, BySubject(P, m), ctx).terms = DelegatedTerms(m, C, con)
  BY DerivedFields
<1>2. IsFiniteSet(C) /\ \A a \in C : Genuine(a)
  BY EvidenceOfLineage
<1>3. CASE N # {}
  <2>1. IsFiniteSet(N) /\ \A a \in N : a \in C /\ a.kind = "DelegationDeclaration"
    BY <1>2, FS_Subset DEF Own, Of
  <2>2. \A a \in N : a.epoch \in Nat /\ a.rank \in Nat /\ Federal(a.what)
    <3> HIDE DEF N, C
    <3> QED  BY <1>2, <2>1 DEF Genuine, Federal
  <2> HIDE DEF N
  <2>3. L # {} /\ L \subseteq N
    BY <1>3, <2>1, <2>2, GreatestEpochs
  <2>4. FirstByEvidence(L) \in L
    <3> HIDE DEF L
    <3> QED  BY <2>2, <2>3, FirstExists
  <2>5. DelegatedTerms(m, C, con) = FirstByEvidence(L).what
    <3> HIDE DEF C, con
    <3> QED  BY <1>3 DEF DelegatedTerms, LatestTerms, N
  <2> HIDE DEF L, C, con
  <2> QED
    BY <1>1, <2>2, <2>3, <2>4, <2>5 DEF P
<1>4. CASE N = {} /\ con \in Revisions
  <2>1. DelegatedTerms(m, C, con) = Constitution[con].delegated
    <3> HIDE DEF C, con
    <3> QED  BY <1>4 DEF DelegatedTerms
  <2>2. Federal(Constitution[con].delegated)
    BY <1>4, DeclaredIsFederal
  <2> HIDE DEF C, con
  <2> QED
    BY <1>1, <2>1, <2>2 DEF P
<1>5. CASE N = {} /\ con \notin Revisions
  <2>1. DelegatedTerms(m, C, con) = {}
    <3> HIDE DEF C, con
    <3> QED  BY <1>5 DEF DelegatedTerms
  <2> HIDE DEF C, con
  <2> QED
    BY <1>1, <2>1 DEF P, Federal
<1> QED
  BY <1>3, <1>4, <1>5

\* A claim is a term of a holding member.
LEMMA ClaimMeans ==
  ASSUME NEW derived, NEW g, NEW c \in ClaimsOn(Claims(derived), g)
  PROVE  \E n \in DOMAIN derived : \E u \in derived[n].terms :
           /\ derived[n].lifecycle \in Holding
           /\ c = [member |-> n, terms |-> u] /\ c.terms = u /\ u.grant = g
<1>1. c \in Claims(derived) /\ c.terms.grant = g
  BY DEF ClaimsOn
<1>2. PICK n \in DOMAIN derived : \E u \in derived[n].terms :
        derived[n].lifecycle \in Holding /\ c = [member |-> n, terms |-> u]
  BY <1>1 DEF Claims
<1> QED
  BY <1>1, <1>2

\* Where two terms disagree, any third disagrees with one of them.
LEMMA DisagreeIsShared ==
  ASSUME NEW s, NEW u, NEW x, Disagree(s, u)
  PROVE  (Disagree(s, x) \/ Disagree(u, x)) /\ Disagree(u, s)
  BY DEF Disagree, TermsEquivalent

\* A disputed grant of a term has another claim that disagrees with the term.
LEMMA DisputeHasOpponent ==
  ASSUME NEW derived, NEW m \in DOMAIN derived, derived[m].lifecycle \in Holding,
         NEW x \in derived[m].terms, x.grant \in Disputed(Claims(derived))
  PROVE  \E n \in DOMAIN derived : \E u \in derived[n].terms :
           /\ derived[n].lifecycle \in Holding
           /\ n # m \/ u # x
           /\ u.grant = x.grant /\ Disagree(u, x)
<1> DEFINE K == ClaimsOn(Claims(derived), x.grant)
           o == [member |-> m, terms |-> x]
<1>1. PICK c \in K, d \in K : c # d /\ Disagree(c.terms, d.terms)
  BY DEF Disputed
<1>2. \E e \in K : e # o /\ Disagree(e.terms, x)
  <2>0. o.terms = x
    OBVIOUS
  <2> HIDE DEF K, o
  <2>1. CASE c = o
    <3>1. d # o /\ Disagree(d.terms, x)
      BY <1>1, <2>0, <2>1, DisagreeIsShared
    <3> QED  BY <3>1
  <2>2. CASE d = o
    <3>1. c # o /\ Disagree(c.terms, x)
      BY <1>1, <2>0, <2>2
    <3> QED  BY <3>1
  <2>3. CASE c # o /\ d # o
    <3>1. Disagree(c.terms, x) \/ Disagree(d.terms, x)
      BY <1>1, DisagreeIsShared
    <3> QED  BY <2>3, <3>1
  <2> QED
    BY <2>1, <2>2, <2>3
<1>3. PICK e \in K : e # o /\ Disagree(e.terms, x)
  BY <1>2
<1>4. PICK n \in DOMAIN derived : \E u \in derived[n].terms :
           /\ derived[n].lifecycle \in Holding
           /\ e = [member |-> n, terms |-> u] /\ e.terms = u /\ u.grant = x.grant
  BY ClaimMeans
<1>5. PICK u \in derived[n].terms :
           /\ derived[n].lifecycle \in Holding
           /\ e = [member |-> n, terms |-> u] /\ e.terms = u /\ u.grant = x.grant
  BY <1>4
<1>6. n # m \/ u # x
  BY <1>3, <1>5
<1> QED
  BY <1>3, <1>5, <1>6

\* Why a holder is denied what it delegates.
LEMMA DenialHasReason ==
  ASSUME NEW ctx, NEW derived, NEW in, NEW m \in DOMAIN derived, derived[m].lifecycle \in Holding,
         Federal(derived[m].terms), NEW x \in derived[m].terms,
         x.grant \in WithMembers(ctx, derived, in).members[m].withheld
  PROVE  \/ derived[m].lifecycle = "Degraded" /\ x.grant.verb \in {"mutate", "administer"}
         \/ GrantsCover(derived[m].withdrawn, x.grant)
         \/ ScopeDelegationForbidden(ctx.policy, x.grant.scope)
         \/ x.not_after # 0 /\ in.now > x.not_after
         \/ \E n \in DOMAIN derived : \E u \in derived[n].terms :
              /\ derived[n].lifecycle \in Holding
              /\ n # m \/ u # x
              /\ u.grant = x.grant /\ Disagree(u, x)
<1> DEFINE claims == Claims(derived)
           ending == [y \in derived[m].terms |-> Disposition(m, derived[m], y, claims, ctx.policy,
                        ctx.reconciling, ctx.partition, in.now)]
<1>1. x.grant \in Grants(ending, "withheld")
  BY StateFields
<1>2. PICK y \in derived[m].terms :
        /\ y.grant = x.grant
        /\ Disposition(m, derived[m], y, claims, ctx.policy, ctx.reconciling, ctx.partition, in.now) = "withheld"
  BY <1>1 DEF Grants
<1>3. \/ Withheld(m, derived[m], y, claims, ctx.policy, in.now)
      \/ derived[m].lifecycle = "Degraded" /\ y.grant.verb \in {"mutate", "administer"}
  BY <1>2 DEF Disposition
<1>4. CASE Withheld(m, derived[m], y, claims, ctx.policy, in.now)
  <2>1. Classify(y.grant.scope) \notin {"Unknown", "Local"}
    BY DEF Federal
  <2>2. \/ ScopeDelegationForbidden(ctx.policy, x.grant.scope)
        \/ GrantsCover(derived[m].withdrawn, x.grant)
        \/ y.not_after # 0 /\ in.now > y.not_after
        \/ x.grant \in Disputed(claims)
    BY <1>2, <1>4, <2>1 DEF Withheld, Contained, Settled
  <2>3. CASE y.not_after # 0 /\ in.now > y.not_after /\ y.not_after # x.not_after
    <3>1. y # x /\ Disagree(y, x)
      BY <2>3 DEF Disagree, TermsEquivalent
    <3> QED  BY <1>2, <3>1
  <2>4. CASE x.grant \in Disputed(claims)
    BY <2>4, DisputeHasOpponent
  <2> QED
    BY <2>2, <2>3, <2>4
<1> QED
  BY <1>2, <1>3, <1>4

\* In the derived state a withheld grant of a holder has a reason about that very grant: the
\* holder's degradation or withdrawal, the policy, the end of its term, or another live claim
\* on the same grant that disagrees.
LEMMA DenialIsContained ==
  ASSUME NEW policy, NEW A, NEW obs, NEW ls, NEW rp, NEW t, Sound(A),
         NEW m \in DOMAIN View(policy, A, obs, ls, rp, t).members,
         View(policy, A, obs, ls, rp, t).members[m].lifecycle \in Holding,
         NEW x \in View(policy, A, obs, ls, rp, t).members[m].terms,
         x.grant \in View(policy, A, obs, ls, rp, t).members[m].withheld
  PROVE  LET v == View(policy, A, obs, ls, rp, t)
         IN  \/ v.members[m].lifecycle = "Degraded" /\ x.grant.verb \in {"mutate", "administer"}
             \/ GrantsCover(v.members[m].withdrawn, x.grant)
             \/ ScopeDelegationForbidden(v.policy, x.grant.scope)
             \/ x.not_after # 0 /\ t > x.not_after
             \/ \E n \in DOMAIN v.members :
                  /\ v.members[n].lifecycle \in Holding
                  /\ \E u \in v.members[n].terms :
                       (n # m \/ u # x) /\ u.grant = x.grant /\ Disagree(u, x)
<1> DEFINE P == Prepare(A)
           v == View(policy, A, obs, ls, rp, t)
           in == Inputs(policy, obs, ls, rp, t)
<1>1. PICK ctx :
        /\ ViewContext(ctx, policy, P, ls)
        /\ v = WithMembers(ctx, AllDerived(P, ctx, ls), in)
        /\ v.policy = ctx.policy
        /\ DOMAIN v.members = Subjects(P, ls)
        /\ \A k \in Subjects(P, ls) :
             LET d == DeriveMembership(k, BySubject(P, k), ctx)
             IN  /\ v.members[k].lifecycle = d.lifecycle
                 /\ v.members[k].terms = d.terms
                 /\ v.members[k].withdrawn = d.withdrawn
  <2> HIDE DEF v, in
  <2> QED  BY ViewMembers DEF v, in
<1> DEFINE D == AllDerived(P, ctx, ls)
<1>2. /\ DOMAIN D = Subjects(P, ls)
      /\ \A k \in Subjects(P, ls) : D[k] = DeriveMembership(k, BySubject(P, k), ctx)
  BY DEF AllDerived
<1>3. in.now = t
  BY DEF Inputs
<1>4. Federal(DeriveMembership(m, BySubject(P, m), ctx).terms)
  BY <1>1, TermsAreFederal DEF ViewContext
<1> HIDE DEF D, v, in, P
<1>5. /\ DOMAIN D = DOMAIN v.members
      /\ \A k \in DOMAIN D : /\ v.members[k].lifecycle = D[k].lifecycle
                             /\ v.members[k].terms = D[k].terms
                             /\ v.members[k].withdrawn = D[k].withdrawn
  BY <1>1, <1>2
<1>6. m \in DOMAIN D /\ D[m].lifecycle \in Holding /\ x \in D[m].terms /\ Federal(D[m].terms)
  BY <1>1, <1>2, <1>4, <1>5 DEF v
<1>7. x.grant \in WithMembers(ctx, D, in).members[m].withheld
  BY <1>1 DEF v, D
<1>8. \/ D[m].lifecycle = "Degraded" /\ x.grant.verb \in {"mutate", "administer"}
      \/ GrantsCover(D[m].withdrawn, x.grant)
      \/ ScopeDelegationForbidden(ctx.policy, x.grant.scope)
      \/ x.not_after # 0 /\ in.now > x.not_after
      \/ \E n \in DOMAIN D : \E u \in D[n].terms :
              /\ D[n].lifecycle \in Holding
              /\ n # m \/ u # x
              /\ u.grant = x.grant /\ Disagree(u, x)
  BY <1>6, <1>7, DenialHasReason
<1> QED
  BY <1>1, <1>3, <1>5, <1>6, <1>8 DEF v

\* The incarnation that is current for a holder is one the coordinator heard of.
LEMMA CurrentIsHeard ==
  ASSUME NEW A, Sound(A), NEW m, m # Coordinator, NEW ctx,
         ctx.founder = Founder(Prepare(A)), ctx.founderId = FounderIdentity(Prepare(A)),
         DeriveMembership(m, BySubject(Prepare(A), m), ctx).lifecycle \in Holding
  PROVE  LET C == InLineage(m, BySubject(Prepare(A), m))
             inc == DeriveMembership(m, BySubject(Prepare(A), m), ctx).current.inc
         IN  \/ inc = 1
             \/ \E a \in C : /\ a.kind \in {"MemberReattestation", "MembershipAcceptance"}
                             /\ a.issuer = m /\ a.id.inc = inc
<1> DEFINE P == Prepare(A)
           C == InLineage(m, BySubject(P, m))
           f == Facts(m, C, ctx)
           p == OperativeProposal(m, C)
           R == Own(m, Of(C, "MemberReattestation"))
           M == MatchingAcceptances(m, C, p)
           d == DeriveMembership(m, BySubject(P, m), ctx)
<1>1. IsFiniteSet(C) /\ \A a \in C : Genuine(a)
  BY EvidenceOfLineage
<1>2. f.reattestations = R /\ f.admitted = AdmittedIdentity(m, p, ctx) /\ f.proposal = p /\ f.acceptances = M
  BY FactFields
<1>3. d.lifecycle = Lifecycle(m, C, f, ctx) /\ d.current = CurrentIdentity(f)
  BY DerivedFields
<1>4. AdmissionValid(m, C, f, ctx)
  <2> HIDE DEF C, f, d
  <2> QED  BY <1>3, HoldingMeans DEF Established, d, P
<1>5. CASE R # {}
  <2>1. IsFiniteSet(R) /\ \A a \in R : a \in C /\ a.kind = "MemberReattestation" /\ a.issuer = m
    BY <1>1, FS_Subset DEF Own, Of
  <2>2. \A a \in R : a.epoch \in Nat /\ a.id.inc \in Nat /\ a.rank \in Nat
    <3> HIDE DEF R, C
    <3> QED  BY <1>1, <2>1 DEF Genuine
  <2>3. LatestReattestation(R) \in R
    <3> HIDE DEF R
    <3> QED  BY <1>5, <2>1, <2>2, LatestExists
  <2> HIDE DEF R, f, C, d, M
  <2>4. d.current = LatestReattestation(R).id
    BY <1>2, <1>3, <1>5 DEF CurrentIdentity
  <2> QED
    BY <2>1, <2>3, <2>4 DEF d, C, P
<1>6. CASE R = {} /\ M # {}
  <2>1. \A a \in M : a \in C /\ a.kind = "MembershipAcceptance" /\ a.issuer = m
    BY DEF MatchingAcceptances, Own, Of
  <2> HIDE DEF R, f, C, d, M
  <2>2. \A a \in M : a.rank \in Nat
    BY <1>1, <2>1 DEF Genuine
  <2>3. FirstByEvidence(M) \in M
    BY <1>6, <2>2, FirstExists
  <2>4. d.current = FirstByEvidence(M).id
    BY <1>2, <1>3, <1>6 DEF CurrentIdentity
  <2> QED
    BY <2>1, <2>3, <2>4 DEF d, C, P
<1>7. CASE R = {} /\ M = {}
  <2> HIDE DEF R, f, C, d, M, p, P
  <2>1. d.current = AdmittedIdentity(m, p, ctx)
    BY <1>2, <1>3, <1>7 DEF CurrentIdentity
  <2>2. p = NoProposal /\ ctx.founder = m
    BY <1>2, <1>4, <1>7 DEF AdmissionValid
  <2>3. d.current = FounderIdentity(P) /\ Founder(P) = m
    BY <2>1, <2>2 DEF AdmittedIdentity, P
  <2>4. Cardinality(GenesisOf(P)) = 1
    BY <2>3 DEF Founder
  <2>5. GenesisOf(P) # {}
    BY <2>4, FS_EmptySet
  <2>6. \A g \in GenesisOf(P) : g.id.inc = 1
    BY PreparedIsSound DEF GenesisOf, Of, Genuine, P
  <2>7. FounderIdentity(P).inc = 1
    BY <2>4, <2>5, <2>6 DEF FounderIdentity
  <2> QED
    BY <2>3, <2>7 DEF d, P
<1> QED
  BY <1>5, <1>6, <1>7

--------------------------------------------------------------------------------
\* An epoch advance leaves every member's evidence as it was.
LEMMA AdvanceAddsNothingElse ==
  ASSUME NEW A, \A x \in A : Genuine(x), NEW a, Genuine(a), a.kind = "EpochAdvance"
  PROVE  \A m : m # Coordinator =>
           BySubject(Prepare(A \union {a}), m) = BySubject(Prepare(A), m)
<1> DEFINE B == A \union {a}
<1>1. \A x \in B : Genuine(x)
  OBVIOUS
<1>2. \A x \in A : x \in Quarantined(B) <=> x \in Quarantined(A)
  <2> SUFFICES ASSUME NEW x \in A, EvidenceId(x) = EvidenceId(a), ~SameContent(x, a) PROVE FALSE
    BY DEF Quarantined
  <2>1. EvidenceId(x).issuer = x.issuer /\ EvidenceId(a).issuer = a.issuer
    BY DEF EvidenceId
  <2>2. a.issuer = Coordinator /\ a.at = NoStamp /\ x.issuer = Coordinator /\ x.at = NoStamp
    BY <2>1 DEF Genuine
  <2> QED
    BY <2>2 DEF SameContent
<1>3. a.subject = Coordinator
  BY DEF Genuine
<1> QED
  BY <1>2, <1>3 DEF BySubject, Prepare

\* An epoch advance changes nobody's standing.
LEMMA AdvanceKeepsStanding ==
  ASSUME NEW policy, NEW A, Sound(A), NEW ls, NEW a, Genuine(a), a.kind = "EpochAdvance",
         RequiredEndorsements(policy) \in Nat, RequiredDistinctParties(policy) \in Nat
  PROVE  LET P == Prepare(A)
             Q == Prepare(A \union {a})
         IN  StandingFixpoint(P, policy, Subjects(P, ls)) = StandingFixpoint(Q, policy, Subjects(Q, ls))
<1> DEFINE P == Prepare(A)
           Q == Prepare(A \union {a})
           B == A \union {a}
<1>1. \A m : m # Coordinator => BySubject(Q, m) = BySubject(P, m)
  BY AdvanceAddsNothingElse DEF Sound
<1>2. Subjects(Q, ls) = Subjects(P, ls)
  <2>1. \A m : m # Coordinator => ((\E x \in Q : x.subject = m) <=> (\E x \in P : x.subject = m))
    <3> HIDE DEF P, Q
    <3> QED  BY <1>1 DEF BySubject
  <2> HIDE DEF P, Q
  <2> QED
    BY <2>1 DEF Subjects
<1>3. GenesisOf(Q) = GenesisOf(P)
  <2>1. Founder0 # Coordinator
    BY GenesisAssumption, CoordinatorIsNil
  <2>2. \A x \in P \union Q : x.kind = "FederationGenesis" => x.subject = Founder0
    BY DEF Prepare, Sound, Genuine
  <2> HIDE DEF P, Q
  <2> QED
    BY <1>1, <2>1, <2>2 DEF GenesisOf, Of, BySubject
<1>4. Founder(Q) = Founder(P) /\ FounderIdentity(Q) = FounderIdentity(P)
  <2> HIDE DEF P, Q
  <2> DEFINE Only(G) == CHOOSE g \in G : TRUE
  <2>1. \A X : /\ Founder(X) = IF Cardinality(GenesisOf(X)) = 1 THEN Only(GenesisOf(X)).subject ELSE Coordinator
               /\ FounderIdentity(X) =
                    IF Cardinality(GenesisOf(X)) = 1 THEN Only(GenesisOf(X)).id ELSE NoIdentity
    BY DEF Founder, FounderIdentity
  <2> HIDE DEF Only
  <2> QED  BY <1>3, <2>1
<1>5. \A m : m # Coordinator => IsFiniteSet(InLineage(m, BySubject(P, m)))
  BY EvidenceOfLineage
<1> DEFINE subjects == Subjects(P, ls)
<1>6. \A X : StandingStep(P, policy, subjects, X) = StandingStep(Q, policy, subjects, X)
  <2> SUFFICES ASSUME NEW X
               PROVE  StandingStep(P, policy, subjects, X) = StandingStep(Q, policy, subjects, X)
    OBVIOUS
  <2> DEFINE c1 == StandingContext(P, policy, X)
             c2 == StandingContext(Q, policy, X)
  <2>1. /\ c1.founder = Founder(P) /\ c1.founderId = FounderIdentity(P)
        /\ c2.founder = Founder(Q) /\ c2.founderId = FounderIdentity(Q)
        /\ c1.policy = policy /\ c2.policy = policy
        /\ c1.established = X /\ c2.established = X
    BY DEF StandingContext, Context
  <2>2. \A m \in subjects : m # Coordinator
    BY DEF Subjects
  <2> HIDE DEF c1, c2, P, Q, subjects
  <2>3. SameRules(c1, c2) /\ SameRules(c2, c1)
    BY <1>4, <2>1 DEF SameRules
  <2>4. \A m \in subjects : LET C == InLineage(m, BySubject(P, m))
                           IN  Stands(m, C, c1) <=> Stands(m, C, c2)
    <3> SUFFICES ASSUME NEW m \in subjects
                 PROVE  LET C == InLineage(m, BySubject(P, m))
                        IN  Stands(m, C, c1) <=> Stands(m, C, c2)
      OBVIOUS
    <3> DEFINE C == InLineage(m, BySubject(P, m))
    <3>1. IsFiniteSet(C)
      BY <1>5, <2>2
    <3> HIDE DEF C
    <3> QED
      BY <2>1, <2>3, <3>1, StandsGrows DEF C
  <2>5. \A m \in subjects : BySubject(Q, m) = BySubject(P, m)
    BY <1>1, <2>2
  <2> QED
    BY <2>4, <2>5 DEF StandingStep, c1, c2
<1> HIDE DEF P, Q, subjects
<1>7. StandingFixpoint(P, policy, subjects) = StandingFixpoint(Q, policy, subjects)
  BY <1>6, FixpointAgrees
<1> QED
  BY <1>2, <1>7 DEF P, Q, subjects

--------------------------------------------------------------------------------
\* The founder is the one of the genesis record.
LEMMA SameGenesis ==
  ASSUME NEW P, NEW Q, GenesisOf(P) = GenesisOf(Q)
  PROVE  Founder(P) = Founder(Q) /\ FounderIdentity(P) = FounderIdentity(Q)
<1> DEFINE Only(G) == CHOOSE g \in G : TRUE
<1>1. \A X : /\ Founder(X) = IF Cardinality(GenesisOf(X)) = 1 THEN Only(GenesisOf(X)).subject ELSE Coordinator
             /\ FounderIdentity(X) =
                  IF Cardinality(GenesisOf(X)) = 1 THEN Only(GenesisOf(X)).id ELSE NoIdentity
  BY DEF Founder, FounderIdentity
<1> HIDE DEF Only
<1> QED  BY <1>1

\* What prepare_artifacts makes of an artefact depends on the others of its kind about the
\* same member only.
LEMMA PreparedStays ==
  ASSUME NEW A, NEW B, A \subseteq B, NEW a \in A,
         \A b \in B \ A : b.kind # a.kind \/ b.subject # a.subject
  PROVE  a \in Prepare(A) <=> a \in Prepare(B)
<1>1. \A x, y : EvidenceId(x) = EvidenceId(y) => x.kind = y.kind /\ x.subject = y.subject
  <2>1. \A x : EvidenceId(x).kind = x.kind /\ EvidenceId(x).subject = x.subject
    BY DEF EvidenceId
  <2> QED
    BY <2>1
<1>2. a \in Quarantined(A) <=> a \in Quarantined(B)
  BY <1>1 DEF Quarantined
<1> QED
  BY <1>2 DEF Prepare

\* A member keeps its standing under a new standing set that still has its sponsor and the
\* endorsers that counted.
LEMMA StandsWithout ==
  ASSUME NEW m, NEW C, IsFiniteSet(C), NEW c1, NEW c2, SameRules(c1, c2), Stands(m, C, c1),
         LET p == OperativeProposal(m, C)
         IN  /\ p.issuer \in c1.established => p.issuer \in c2.established
             /\ \A e \in Of(C, "MembershipEndorsement") :
                  e.issuer \in c1.established => e.issuer \in c2.established
  PROVE  Stands(m, C, c2)
<1> DEFINE f == Facts(m, C, c1)
           g == Facts(m, C, c2)
           p == OperativeProposal(m, C)
<1>1. /\ f.proposal = g.proposal /\ f.acceptances = g.acceptances
      /\ f.admitted = g.admitted /\ CurrentIdentity(f) = CurrentIdentity(g)
      /\ GenerationChanged(f) = GenerationChanged(g)
  BY SameFacts
<1>2. /\ f.proposal = p
      /\ f.endorsers = Endorsers(m, C, p, c1) /\ g.endorsers = Endorsers(m, C, p, c2)
  BY <1>1, FactFields
<1>3. f.endorsers \subseteq g.endorsers
  <2> HIDE DEF f, g, p
  <2>1. Endorsers(m, C, p, c1) \subseteq Endorsers(m, C, p, c2)
    BY DEF Endorsers, Of
  <2> QED  BY <1>2, <2>1
<1>4. IsFiniteSet(g.endorsers)
  <2>1. g.endorsers \subseteq {e.issuer : e \in Of(C, "MembershipEndorsement")}
    <3> HIDE DEF f, g, p
    <3> QED  BY <1>2 DEF Endorsers
  <2> HIDE DEF f, g, p
  <2> QED  BY <2>1, IssuersFinite
<1>5. AdmissionValid(m, C, f, c1)
  BY StandsMeans
<1>6. AdmissionValid(m, C, g, c2)
  <2> HIDE DEF f, g
  <2>1. Vouched(m, p, f, c1) => Vouched(m, p, g, c2)
    <3> SUFFICES ASSUME Vouched(m, p, f, c1) PROVE Vouched(m, p, g, c2)
      OBVIOUS
    <3>1. p.issuer \in c1.established /\ p.issuer \in {p.issuer}
      BY DEF Vouched, AssessMultiParty
    <3>2. {p.issuer} \subseteq c2.established
      BY <3>1
    <3>3. AssessMultiParty(m, p.issuer, p.issuer \in {p.issuer}, f.endorsers, c1.policy).satisfied
      BY <3>1 DEF Vouched
    <3> HIDE DEF p
    <3> QED
      BY <1>3, <1>4, <3>2, <3>3, SatisfiedGrows DEF Vouched, SameRules
  <2> QED
    BY <1>1, <1>2, <1>5, <2>1 DEF AdmissionValid, SameRules
<1> HIDE DEF f, g
<1> QED
  BY <1>1, <1>6, StandsMeans DEF f, g, SameRules

\* Evidence that is added about some members takes the standing of others only where it takes
\* that of their sponsors or endorsers: a group that loses its standing has a member that new
\* evidence is about, or whose sponsor or endorser, outside the group, loses its own.
LEMMA LossHasCause ==
  ASSUME NEW policy, RequiredEndorsements(policy) \in Nat, RequiredDistinctParties(policy) \in Nat,
         NEW A, NEW B, Sound(A), Sound(B), A \subseteq B,
         \A b \in B \ A : b.kind # "FederationGenesis",
         NEW ls, NEW ks, ls \subseteq ks,
         IsFiniteSet(Subjects(Prepare(B), ks)), Cardinality(Subjects(Prepare(B), ks)) <= MaxMembers,
         NEW D, NEW E, D = StandingFixpoint(Prepare(A), policy, Subjects(Prepare(A), ls)),
         E = StandingFixpoint(Prepare(B), policy, Subjects(Prepare(B), ks)),
         NEW S, S # {}, S \subseteq D \ E
  PROVE  \E n \in S :
           LET C == InLineage(n, BySubject(Prepare(A), n))
           IN  \/ \E b \in B \ A : b.subject = n
               \/ OperativeProposal(n, C).issuer \in (D \ E) \ S
               \/ \E e \in Of(C, "MembershipEndorsement") : e.issuer \in (D \ E) \ S
<1> DEFINE P == Prepare(A)
           Q == Prepare(B)
<1>0. /\ IsFiniteSet(P) /\ IsFiniteSet(Q)
      /\ \A a \in P : a \in A /\ Genuine(a)
  BY PreparedIsSound
<1>1. PICK m \in S, X \in SUBSET (D \ S) : m \in StandingStep(P, policy, Subjects(P, ls), X)
  <2> HIDE DEF P, Q
  <2> QED  BY <1>0, FixpointIsGrounded DEF P
<1> DEFINE C == InLineage(m, BySubject(P, m))
<1> SUFFICES ASSUME \A b \in B \ A : b.subject # m,
                    OperativeProposal(m, C).issuer \notin (D \ E) \ S,
                    \A e \in Of(C, "MembershipEndorsement") : e.issuer \notin (D \ E) \ S
             PROVE  FALSE
  BY <1>1
<1>2. BySubject(Q, m) = BySubject(P, m)
  <2>1. \A b \in B : b.subject = m => b \in A /\ (b \in P <=> b \in Q)
    BY PreparedStays
  <2>2. P \subseteq A /\ Q \subseteq B
    BY DEF Prepare
  <2> HIDE DEF P, Q
  <2> QED
    BY <2>1, <2>2 DEF BySubject
<1>3. GenesisOf(P) = GenesisOf(Q)
  <2>1. \A b \in B : b.kind = "FederationGenesis" => b \in A /\ (b \in P <=> b \in Q)
    BY PreparedStays
  <2>2. P \subseteq A /\ Q \subseteq B
    BY DEF Prepare
  <2> HIDE DEF P, Q
  <2> QED
    BY <2>1, <2>2 DEF GenesisOf, Of
<1>4. Founder(P) = Founder(Q) /\ FounderIdentity(P) = FounderIdentity(Q)
  BY <1>3, SameGenesis
<1> DEFINE c1 == StandingContext(P, policy, X)
           c2 == StandingContext(Q, policy, E)
<1>5. /\ c1.founder = Founder(P) /\ c1.founderId = FounderIdentity(P)
      /\ c2.founder = Founder(Q) /\ c2.founderId = FounderIdentity(Q)
      /\ c1.policy = policy /\ c2.policy = policy
      /\ c1.established = X /\ c2.established = E
  BY DEF StandingContext, Context
<1>6. Stands(m, C, c1) /\ m \in Subjects(P, ls)
  BY <1>1 DEF StandingStep
<1>7. IsFiniteSet(C)
  <2>1. C \subseteq P
    BY DEF InLineage, BySubject
  <2> HIDE DEF C, P
  <2> QED  BY <1>0, <2>1, FS_Subset
<1> HIDE DEF c1, c2, P, Q
<1>8. SameRules(c1, c2)
  BY <1>4, <1>5 DEF SameRules
<1>9. Stands(m, C, c2)
  <2>1. \A x : x \in X /\ x \notin (D \ E) \ S => x \in E
    OBVIOUS
  <2> HIDE DEF C
  <2> QED  BY <1>5, <1>6, <1>7, <1>8, <2>1, StandsWithout
<1>10. m \in Subjects(Q, ks)
  BY <1>2, <1>6 DEF Subjects, BySubject
<1>11. m \in StandingStep(Q, policy, Subjects(Q, ks), E)
  BY <1>2, <1>9, <1>10 DEF StandingStep, c2
<1>12. StandingStep(Q, policy, Subjects(Q, ks), E) = E
  BY <1>0, RoundsConverge DEF Q
<1> QED
  BY <1>1, <1>11, <1>12

--------------------------------------------------------------------------------
\* Whoever stands with nobody's help is in the standing set.
LEMMA FirstRoundStands ==
  ASSUME NEW P, IsFiniteSet(P), NEW policy, NEW subjects,
         RequiredEndorsements(policy) \in Nat, RequiredDistinctParties(policy) \in Nat
  PROVE  StandingStep(P, policy, subjects, {}) \subseteq StandingFixpoint(P, policy, subjects)
<1>1. PICK r : Rounds(r, P, policy, subjects) /\ StandingFixpoint(P, policy, subjects) = r[MaxRounds].set
  BY FixpointIsRounds
<1>2. MaxRounds \in Nat /\ 0 < MaxRounds /\ 1 <= MaxRounds
  BY PolicyBounds DEF MaxRounds
<1>3. r[0 + 1] = Round(P, policy, subjects, r[0]) /\ r[0].set = {} /\ ~r[0].converged
  BY <1>1, <1>2 DEF Rounds
<1>4. r[1].set = StandingStep(P, policy, subjects, {})
  BY <1>3 DEF Round
<1>5. r[1].set \subseteq r[MaxRounds].set
  BY <1>1, <1>2, RoundsGrow
<1> QED
  BY <1>1, <1>4, <1>5

\* Where somebody holds authority somebody stands, so there is a partition to assess.
LEMMA HolderIsNotAlone ==
  ASSUME NEW A, Sound(A), NEW ls, NEW policy, NEW ctx, ViewContext(ctx, policy, Prepare(A), ls),
         RequiredEndorsements(policy) \in Nat, RequiredDistinctParties(policy) \in Nat,
         NEW m \in Subjects(Prepare(A), ls),
         DeriveMembership(m, BySubject(Prepare(A), m), ctx).lifecycle \in Holding
  PROVE  ctx.established # {}
<1> SUFFICES ASSUME ctx.established = {} PROVE FALSE
  OBVIOUS
<1> DEFINE P == Prepare(A)
           C == InLineage(m, BySubject(P, m))
           c2 == StandingContext(P, policy, {})
           subjects == Subjects(P, ls)
<1>1. ctx.policy = policy /\ ctx.founder = Founder(P) /\ ctx.founderId = FounderIdentity(P)
      /\ StandingFixpoint(P, policy, subjects) = {}
  BY PreparedIsSound DEF ViewContext
<1>2. DeriveMembership(m, BySubject(P, m), ctx).lifecycle = Lifecycle(m, C, Facts(m, C, ctx), ctx)
  BY DerivedFields
<1>3. c2.founder = Founder(P) /\ c2.founderId = FounderIdentity(P) /\ c2.policy = policy /\ c2.established = {}
  BY DEF StandingContext, Context
<1>4. IsFiniteSet(C) /\ IsFiniteSet(P)
  BY EvidenceOfLineage, PreparedIsSound
<1> HIDE DEF c2, C, P, subjects
<1>5. Stands(m, C, ctx)
  BY <1>2 DEF Stands, Established, P
<1>6. SameRules(ctx, c2)
  BY <1>1, <1>3 DEF SameRules
<1>7. Stands(m, C, c2)
  BY <1>3, <1>4, <1>5, <1>6, StandsGrows
<1>8. m \in StandingStep(P, policy, subjects, {})
  BY <1>7 DEF StandingStep, C, c2, P, subjects
<1> QED
  BY <1>1, <1>4, <1>8, FirstRoundStands

--------------------------------------------------------------------------------
\* Each lineage that is closed has a leave notice of its own, so finite evidence has a
\* lineage that is not closed, and derive_membership's search for the current one ends.
LEMMA LineageIs ==
  ASSUME NEW m, NEW A, IsFiniteSet(A)
  PROVE  LET l == CurrentLineage(m, A)
         IN  l \in Nat /\ ~LineageClosed(m, A, l) /\ \A k \in 0..(l - 1) : LineageClosed(m, A, k)
<1> DEFINE n == Cardinality(A)
           Q(l) == ~LineageClosed(m, A, l) /\ \A k \in 0..(l - 1) : LineageClosed(m, A, k)
           Open == {l \in Nat : ~LineageClosed(m, A, l)}
<1>0. n \in Nat
  BY FS_CardinalityType
<1>1. \E l \in 0..n : ~LineageClosed(m, A, l)
  <2> SUFFICES ASSUME \A l \in 0..n : LineageClosed(m, A, l) PROVE FALSE
    OBVIOUS
  <2> DEFINE f == [l \in 0..n |-> CHOOSE a \in A : a.lineage = l]
  <2>1. \A l \in 0..n : \E a \in A : a.lineage = l
    BY DEF LineageClosed, Own, Of
  <2>2. \A l \in 0..n : f[l] \in A /\ f[l].lineage = l
    BY <2>1
  <2>3. f \in [0..n -> A]
    BY <2>2
  <2>4. f \in Injection(0..n, A)
    <3>1. \A a, b \in 0..n : f[a] = f[b] => a = b
      BY <2>2
    <3> HIDE DEF f, n
    <3> QED  BY <2>3, <3>1 DEF Injection, IsInjective
  <2> HIDE DEF f
  <2>5. Cardinality(0..n) <= n
    BY <2>4, FS_Injection
  <2>6. Cardinality(0..n) = n + 1
    <3> HIDE DEF n
    <3>1. 0 \in Int /\ n \in Int /\ ~(0 > n)
      BY <1>0
    <3>2. Cardinality(0..n) = n - 0 + 1
      BY <3>1, FS_Interval
    <3> QED
      BY <1>0, <3>2
  <2> HIDE DEF n
  <2> QED
    BY <1>0, <2>5, <2>6
<1> HIDE DEF n
<1>2. Open \subseteq Nat /\ Open # {}
  BY <1>0, <1>1
<1>3. PICK l \in Open : \A k \in Open : l <= k
  BY <1>2, NatMinimum
<1>4. Q(l)
  BY <1>3
<1>5. l \in 0..n
  BY <1>0, <1>1, <1>3
<1>6. CurrentLineage(m, A) = CHOOSE k \in 0..n : Q(k)
  BY DEF CurrentLineage, n
<1>7. CurrentLineage(m, A) \in 0..n /\ Q(CurrentLineage(m, A))
  <2> HIDE DEF Q
  <2> QED  BY <1>4, <1>5, <1>6
<1> QED
  BY <1>0, <1>7

\* The current lineage depends on the evidence only through the lineages that are closed.
LEMMA SameLineage ==
  ASSUME NEW m, NEW A, NEW B, IsFiniteSet(A), IsFiniteSet(B),
         \A l \in Nat : LineageClosed(m, A, l) <=> LineageClosed(m, B, l)
  PROVE  CurrentLineage(m, A) = CurrentLineage(m, B)
<1> DEFINE x == CurrentLineage(m, A)
           y == CurrentLineage(m, B)
<1>1. x \in Nat /\ ~LineageClosed(m, A, x) /\ \A k \in 0..(x - 1) : LineageClosed(m, A, k)
  BY LineageIs
<1>2. y \in Nat /\ ~LineageClosed(m, B, y) /\ \A k \in 0..(y - 1) : LineageClosed(m, B, k)
  BY LineageIs
<1> HIDE DEF x, y
<1>3. ~(x < y)
  <2> SUFFICES ASSUME x < y PROVE FALSE
    OBVIOUS
  <2>1. x \in 0..(y - 1)
    BY <1>1, <1>2
  <2> QED
    BY <1>1, <1>2, <2>1
<1>4. ~(y < x)
  <2> SUFFICES ASSUME y < x PROVE FALSE
    OBVIOUS
  <2>1. y \in 0..(x - 1)
    BY <1>1, <1>2
  <2> QED
    BY <1>1, <1>2, <2>1
<1>5. x = y
  BY <1>1, <1>2, <1>3, <1>4
<1> QED
  BY <1>5 DEF x, y

--------------------------------------------------------------------------------
\* What admission is decided from: who stands, and proposals, acceptances and endorsements.
LEMMA SameAdmission ==
  ASSUME NEW m, NEW C, NEW D, NEW c1, NEW c2,
         c1.founder = c2.founder, c1.founderId = c2.founderId, c1.policy = c2.policy,
         c1.established = c2.established,
         \A kind \in {"MembershipProposal", "MembershipAcceptance", "MembershipEndorsement"} :
           Of(C, kind) = Of(D, kind)
  PROVE  LET f == Facts(m, C, c1)
             g == Facts(m, D, c2)
         IN  /\ f.proposal = g.proposal /\ f.acceptances = g.acceptances
             /\ f.endorsers = g.endorsers /\ f.admitted = g.admitted
             /\ Sponsored(m, C) = Sponsored(m, D)
             /\ AdmissionValid(m, C, f, c1) <=> AdmissionValid(m, D, g, c2)
<1> DEFINE f == Facts(m, C, c1)
           g == Facts(m, D, c2)
           p == OperativeProposal(m, C)
<1>1. /\ Of(C, "MembershipProposal") = Of(D, "MembershipProposal")
      /\ Of(C, "MembershipAcceptance") = Of(D, "MembershipAcceptance")
      /\ Of(C, "MembershipEndorsement") = Of(D, "MembershipEndorsement")
  OBVIOUS
<1>2. Sponsored(m, C) = Sponsored(m, D)
  <2> HIDE DEF f, g, p
  <2>1. \A X : Sponsored(m, X) = {x \in Of(X, "MembershipProposal") : x.issuer # m}
    BY DEF Sponsored, Own, Of
  <2> QED
    BY <1>1, <2>1
<1>3. OperativeProposal(m, D) = p
  BY <1>2 DEF OperativeProposal
<1>4. MatchingAcceptances(m, C, p) = MatchingAcceptances(m, D, p)
  BY <1>1 DEF MatchingAcceptances
<1>5. Endorsers(m, C, p, c1) = Endorsers(m, D, p, c2)
  BY <1>1 DEF Endorsers
<1>6. AdmittedIdentity(m, p, c1) = AdmittedIdentity(m, p, c2)
  BY DEF AdmittedIdentity
<1>7. /\ f.proposal = p /\ f.acceptances = MatchingAcceptances(m, C, p)
      /\ f.endorsers = Endorsers(m, C, p, c1) /\ f.admitted = AdmittedIdentity(m, p, c1)
  BY FactFields
<1>8. /\ g.proposal = p /\ g.acceptances = MatchingAcceptances(m, D, p)
      /\ g.endorsers = Endorsers(m, D, p, c2) /\ g.admitted = AdmittedIdentity(m, p, c2)
  BY <1>3, FactFields
<1> HIDE DEF f, g, p
<1>9. f.proposal = g.proposal /\ f.acceptances = g.acceptances /\ f.endorsers = g.endorsers
  BY <1>4, <1>5, <1>7, <1>8
<1>10. AdmissionValid(m, C, f, c1) <=> AdmissionValid(m, D, g, c2)
  BY <1>9 DEF AdmissionValid, Vouched
<1> QED
  BY <1>2, <1>6, <1>7, <1>8, <1>9, <1>10 DEF f, g
--------------------------------------------------------------------------------
\* What decide_locked issues: a record of the member's current lineage and identity; an
\* admission only where the member has accepted.
LEMMA DecisionMeans ==
  ASSUME NEW A, NEW ctx, NEW members, NEW a \in BatchIn(A, ctx, members)
  PROVE  LET m == a.subject
             d == DeriveMembership(m, BySubject(A, m), ctx)
         IN  /\ m \in members
             /\ a = Record(a.kind, m, Coordinator, d.lineage, ctx.epoch, d.current, a.what, NoStamp)
             /\ a.lineage = CurrentLineage(m, BySubject(A, m))
             /\ a.kind \in {"MembershipAdmission", "MembershipActivation"}
             /\ a.kind = "MembershipAdmission" => d.consented
             /\ a.kind = "MembershipActivation" => a.what = {}
<1>1. PICK m \in members : a \in DecisionsOn(A, m, DeriveMembership(m, BySubject(A, m), ctx), ctx)
  BY DEF BatchIn
<1> DEFINE d == DeriveMembership(m, BySubject(A, m), ctx)
<1>2. d.lineage = CurrentLineage(m, BySubject(A, m))
  BY DerivedFields
<1> HIDE DEF d
<1>3. CASE a \in AdmissionRecord(A, m, d, ctx)
  <2>1. /\ a = Record("MembershipAdmission", m, Coordinator, d.lineage, ctx.epoch, d.current, a.what, NoStamp)
        /\ a.kind = "MembershipAdmission" /\ a.subject = m /\ a.lineage = d.lineage /\ d.consented
    BY <1>3 DEF AdmissionRecord, Record
  <2> QED
    BY <1>2, <2>1 DEF d
<1>4. CASE a \in ActivationRecord(m, d, ctx)
  <2>1. /\ a = Record("MembershipActivation", m, Coordinator, d.lineage, ctx.epoch, d.current, a.what, NoStamp)
        /\ a.kind = "MembershipActivation" /\ a.subject = m /\ a.lineage = d.lineage /\ a.what = {}
    BY <1>4 DEF ActivationRecord, Record
  <2> QED
    BY <1>2, <2>1 DEF d
<1> QED
  BY <1>1, <1>3, <1>4 DEF DecisionsOn, d

\* Records of the current lineage, or of one that other evidence names, open no lineage.
LEMMA LineageKept ==
  ASSUME NEW m, NEW X, NEW Y, IsFiniteSet(X), IsFiniteSet(Y), X \subseteq Y,
         \A y \in Y \ X : /\ y.kind # "MembershipLeave"
                          /\ \/ y.lineage = CurrentLineage(m, X)
                             \/ \E x \in X : x.lineage = y.lineage
  PROVE  CurrentLineage(m, Y) = CurrentLineage(m, X)
<1>1. /\ CurrentLineage(m, X) \in Nat
      /\ \A k \in 0..(CurrentLineage(m, X) - 1) : LineageClosed(m, X, k)
  BY LineageIs
<1>2. ASSUME NEW l \in Nat PROVE LineageClosed(m, X, l) <=> LineageClosed(m, Y, l)
  <2>1. ASSUME LineageClosed(m, X, l) PROVE LineageClosed(m, Y, l)
    BY <2>1 DEF LineageClosed, Own, Of
  <2>2. ASSUME LineageClosed(m, Y, l) PROVE LineageClosed(m, X, l)
    <3>1. \E a \in Own(m, Of(X, "MembershipLeave")) : a.lineage = l
      BY <2>2 DEF LineageClosed, Own, Of
    <3>2. PICK y \in Y : y.lineage = l + 1
      BY <2>2 DEF LineageClosed
    <3>3. CASE \E x \in X : x.lineage = l + 1
      BY <3>1, <3>3 DEF LineageClosed
    <3>4. CASE l + 1 = CurrentLineage(m, X)
      <4>1. l \in 0..(CurrentLineage(m, X) - 1)
        BY <1>1, <3>4
      <4> QED
        BY <1>1, <4>1
    <3> QED
      BY <3>2, <3>3, <3>4
  <2> QED
    BY <2>1, <2>2
<1> QED
  BY <1>2, SameLineage

\* The kinds of evidence derive_membership reads: all but the admissions on record.
DerivedKinds ==
  {"MembershipProposal", "MembershipAcceptance", "MembershipEndorsement", "MembershipLeave",
   "MembershipFence", "MembershipRetirement", "MembershipActivation", "MemberReattestation",
   "DelegationDeclaration", "DelegationWithdrawal"}

LEMMA SameKinds ==
  ASSUME NEW m, NEW C, NEW D, NEW l, NEW ctx, \A kind \in DerivedKinds : Of(C, kind) = Of(D, kind)
  PROVE  DerivedIn(m, C, l, ctx) = DerivedIn(m, D, l, ctx)
<1>1. /\ Of(C, "MembershipProposal") = Of(D, "MembershipProposal")
      /\ Of(C, "MembershipAcceptance") = Of(D, "MembershipAcceptance")
      /\ Of(C, "MembershipEndorsement") = Of(D, "MembershipEndorsement")
      /\ Of(C, "MembershipLeave") = Of(D, "MembershipLeave")
      /\ Of(C, "MembershipFence") = Of(D, "MembershipFence")
      /\ Of(C, "MembershipRetirement") = Of(D, "MembershipRetirement")
      /\ Of(C, "MembershipActivation") = Of(D, "MembershipActivation")
      /\ Of(C, "MemberReattestation") = Of(D, "MemberReattestation")
      /\ Of(C, "DelegationDeclaration") = Of(D, "DelegationDeclaration")
      /\ Of(C, "DelegationWithdrawal") = Of(D, "DelegationWithdrawal")
  BY DEF DerivedKinds
<1>2. Sponsored(m, C) = Sponsored(m, D)
  <2>1. \A X : Sponsored(m, X) = {x \in Of(X, "MembershipProposal") : x.issuer # m}
    BY DEF Sponsored, Own, Of
  <2> QED
    BY <1>1, <2>1
<1>3. OperativeProposal(m, C) = OperativeProposal(m, D)
  BY <1>2 DEF OperativeProposal
<1> DEFINE p == OperativeProposal(m, C)
<1> HIDE DEF p
<1>4. FactsAbout(m, C, p, ctx) = FactsAbout(m, D, p, ctx)
  BY <1>1 DEF FactsAbout, MatchingAcceptances, Endorsers
<1>5. Facts(m, C, ctx) = Facts(m, D, ctx)
  BY <1>3, <1>4 DEF Facts, p
<1> DEFINE f == Facts(m, C, ctx)
<1> HIDE DEF f
<1>6. AdmissionValid(m, C, f, ctx) = AdmissionValid(m, D, f, ctx)
  BY DEF AdmissionValid
<1>7. DeclarationIsCurrent(C, f, ctx) = DeclarationIsCurrent(D, f, ctx)
  BY <1>1 DEF DeclarationIsCurrent
<1>8. FenceInForce(m, C) = FenceInForce(m, D)
  BY <1>1 DEF FenceInForce, Fences
<1>9. ActivationMatches(m, C, f, ctx) = ActivationMatches(m, D, f, ctx)
  BY <1>6 DEF ActivationMatches
<1>10. Lifecycle(m, C, f, ctx) = Lifecycle(m, D, f, ctx)
  BY <1>1, <1>6, <1>7, <1>8, <1>9 DEF Lifecycle
<1>11. \A x : EvidenceQuality(m, C, f, x, ctx) = EvidenceQuality(m, D, f, x, ctx)
  BY <1>2 DEF EvidenceQuality, IdentityConflict
<1>12. /\ \A con : DelegatedTerms(m, C, con) = DelegatedTerms(m, D, con)
       /\ WithdrawnGrants(m, C) = WithdrawnGrants(m, D)
  BY <1>1 DEF DelegatedTerms, WithdrawnGrants
<1>13. \A x : Derived(m, C, l, f, x, ctx) = Derived(m, D, l, f, x, ctx)
  BY <1>1, <1>7, <1>9, <1>11, <1>12 DEF Derived
<1> QED
  BY <1>5, <1>10, <1>13 DEF DerivedIn, DerivedFrom, f
\* Admissions beside evidence of their lineage.
Admissions(P, Q) ==
  /\ P \subseteq Q
  /\ \A b \in Q \ P : /\ b.kind = "MembershipAdmission"
                      /\ \E a \in P : a.subject = b.subject /\ a.lineage = b.lineage

\* Such admissions change nothing for anybody.
LEMMA AdmissionsAreIdle ==
  ASSUME NEW P, NEW Q, IsFiniteSet(P), IsFiniteSet(Q), Admissions(P, Q), NEW m, NEW ctx
  PROVE  DeriveMembership(m, BySubject(P, m), ctx) = DeriveMembership(m, BySubject(Q, m), ctx)
<1> DEFINE X == BySubject(P, m)
           Y == BySubject(Q, m)
<1>1. X \subseteq Y /\ X \subseteq P /\ Y \subseteq Q
  BY DEF BySubject, Admissions
<1>2. IsFiniteSet(X) /\ IsFiniteSet(Y)
  <2> HIDE DEF X, Y
  <2> QED  BY <1>1, FS_Subset
<1>3. \A y \in Y \ X : y.kind = "MembershipAdmission" /\ \E x \in X : x.lineage = y.lineage
  BY DEF BySubject, Admissions
<1> HIDE DEF X, Y
<1>4. CurrentLineage(m, Y) = CurrentLineage(m, X)
  BY <1>1, <1>2, <1>3, LineageKept
<1> DEFINE l == CurrentLineage(m, X)
           C == InLineage(m, X)
           D == InLineage(m, Y)
<1> HIDE DEF l
<1>5. C = {x \in X : x.lineage = l} /\ D = {y \in Y : y.lineage = l}
  BY <1>4 DEF InLineage, l
<1>6. ASSUME NEW kind \in DerivedKinds PROVE Of(C, kind) = Of(D, kind)
  BY <1>1, <1>3, <1>5 DEF Of, DerivedKinds
<1> HIDE DEF C, D
<1>7. DerivedIn(m, C, l, ctx) = DerivedIn(m, D, l, ctx)
  BY <1>6, SameKinds
<1> QED
  BY <1>4, <1>7 DEF DeriveMembership, C, D, l, X, Y

\* derive_state reads a set of evidence through the kinds below, the members it names, who
\* stands, and what each member derives to.
StateKinds == {"FederationGenesis", "PolicyUpdate", "EpochAdvance", "ReconciliationComplete"}

LEMMA SameState ==
  ASSUME NEW P, NEW Q, NEW in, \A kind \in StateKinds : Of(P, kind) = Of(Q, kind),
         Subjects(P, in.leases) = Subjects(Q, in.leases),
         LET policy == StatePolicy(P, in.policy)
             S == Subjects(P, in.leases)
             E == StandingFixpoint(P, policy, S)
         IN  /\ E = StandingFixpoint(Q, policy, S)
             /\ \A m \in S \union E : \A partition, reconciling :
                  LET ctx == Context(P, policy, E, partition, reconciling)
                  IN  DeriveMembership(m, BySubject(P, m), ctx)
                        = DeriveMembership(m, BySubject(Q, m), ctx)
  PROVE  FromPrepared(P, in) = FromPrepared(Q, in)
<1> DEFINE policy == StatePolicy(P, in.policy)
           S == Subjects(P, in.leases)
           E == StandingFixpoint(P, policy, S)
<1>1. /\ GenesisOf(P) = GenesisOf(Q) /\ Of(P, "PolicyUpdate") = Of(Q, "PolicyUpdate")
      /\ Of(P, "EpochAdvance") = Of(Q, "EpochAdvance")
      /\ Of(P, "ReconciliationComplete") = Of(Q, "ReconciliationComplete")
  BY DEF StateKinds, GenesisOf
<1>2. StatePolicy(Q, in.policy) = policy
  BY <1>1 DEF StatePolicy
<1>3. CurrentEpoch(P) = CurrentEpoch(Q) /\ Founder(P) = Founder(Q) /\ FounderIdentity(P) = FounderIdentity(Q)
  BY <1>1 DEF CurrentEpoch, Founder, FounderIdentity
<1>4. RecoveryAdvances(P) = RecoveryAdvances(Q)
  BY <1>1 DEF RecoveryAdvances
<1>5. Recorded(P) = Recorded(Q)
  BY <1>1, <1>4 DEF Recorded, RecoveryEpoch
<1>6. \A pol, est, part, rec : Context(P, pol, est, part, rec) = Context(Q, pol, est, part, rec)
  BY <1>3 DEF Context
<1>7. E = StandingFixpoint(Q, policy, S) /\ Subjects(Q, in.leases) = S
  OBVIOUS
<1>8. ASSUME NEW m \in S \union E, NEW part, NEW rec
      PROVE  DeriveMembership(m, BySubject(P, m), Context(P, policy, E, part, rec))
               = DeriveMembership(m, BySubject(Q, m), Context(P, policy, E, part, rec))
  OBVIOUS
<1> DEFINE ctx == StandingContext(P, policy, E)
           standing == [m \in E |-> DeriveMembership(m, BySubject(P, m), ctx)]
<1> HIDE DEF policy, S, E
<1>9. ctx = StandingContext(Q, policy, E) /\ ctx = Context(P, policy, E, "Connected", FALSE)
  BY <1>6 DEF StandingContext
<1>10. ctx.established = E /\ ctx.policy = policy /\ ctx.epoch = CurrentEpoch(P)
  BY DEF StandingContext, Context
<1> HIDE DEF ctx
<1>11. \A m \in E : DeriveMembership(m, BySubject(P, m), ctx) = DeriveMembership(m, BySubject(Q, m), ctx)
  BY <1>8, <1>9
<1>12. standing = [m \in E |-> DeriveMembership(m, BySubject(Q, m), ctx)]
  BY <1>11
<1> HIDE DEF standing
<1>13. Reconciling(P, standing) = Reconciling(Q, standing)
  BY <1>4, <1>5 DEF Reconciling
<1> DEFINE part == AssessPartition(E, [m \in E |-> standing[m].current.inc],
                      in.observations, ctx.epoch, in.now, ObservationFreshness(policy))
           last == Context(P, policy, E, part, Reconciling(P, standing))
<1>14. last = Context(Q, policy, E, part, Reconciling(Q, standing))
  BY <1>6, <1>13
<1>15. \A m \in S : DeriveMembership(m, BySubject(P, m), last) = DeriveMembership(m, BySubject(Q, m), last)
  BY <1>8
<1> HIDE DEF part, last
<1>16. InContext(P, last, in) = InContext(Q, last, in)
  <2>1. [m \in S |-> DeriveMembership(m, BySubject(P, m), last)]
          = [m \in S |-> DeriveMembership(m, BySubject(Q, m), last)]
    BY <1>15
  <2> QED
    BY <1>7, <2>1 DEF InContext, S
<1>17. WithStanding(P, ctx, standing, in) = WithStanding(Q, ctx, standing, in)
  BY <1>10, <1>14, <1>16 DEF WithStanding, part, last
<1>18. FromStanding(P, ctx, in) = FromStanding(Q, ctx, in)
  BY <1>10, <1>12, <1>17 DEF FromStanding, standing
<1> QED
  BY <1>2, <1>7, <1>9, <1>18 DEF FromPrepared, UnderPolicy, ctx, policy, S, E

\* Nor do they change the state.
LEMMA AdmissionsKeepState ==
  ASSUME NEW P, NEW Q, IsFiniteSet(P), IsFiniteSet(Q), Admissions(P, Q), NEW in
  PROVE  FromPrepared(P, in) = FromPrepared(Q, in)
<1>1. \A kind \in StateKinds : Of(P, kind) = Of(Q, kind)
  BY DEF Admissions, Of, StateKinds
<1>2. Subjects(P, in.leases) = Subjects(Q, in.leases)
  <2>1. {a.subject : a \in P} = {a.subject : a \in Q}
    BY DEF Admissions
  <2> QED
    BY <2>1 DEF Subjects
<1>3. \A m, ctx : DeriveMembership(m, BySubject(P, m), ctx) = DeriveMembership(m, BySubject(Q, m), ctx)
  BY AdmissionsAreIdle
<1> DEFINE policy == StatePolicy(P, in.policy)
           S == Subjects(P, in.leases)
           E == StandingFixpoint(P, policy, S)
<1>4. \A ctx : \A m : Stands(m, InLineage(m, BySubject(P, m)), ctx)
                        <=> Stands(m, InLineage(m, BySubject(Q, m)), ctx)
  <2> SUFFICES ASSUME NEW ctx, NEW m
               PROVE  Stands(m, InLineage(m, BySubject(P, m)), ctx)
                        <=> Stands(m, InLineage(m, BySubject(Q, m)), ctx)
    OBVIOUS
  <2>1. \A X : Stands(m, InLineage(m, X), ctx) <=> DeriveMembership(m, X, ctx).lifecycle \in Established
    <3> SUFFICES ASSUME NEW X PROVE Stands(m, InLineage(m, X), ctx) <=> DeriveMembership(m, X, ctx).lifecycle \in Established
      OBVIOUS
    <3>1. DeriveMembership(m, X, ctx).lifecycle
            = Lifecycle(m, InLineage(m, X), Facts(m, InLineage(m, X), ctx), ctx)
      BY DerivedFields
    <3> QED
      BY <3>1 DEF Stands
  <2> QED
    BY <1>3, <2>1
<1>5. \A X : StandingContext(P, policy, X) = StandingContext(Q, policy, X)
  <2>1. /\ GenesisOf(P) = GenesisOf(Q) /\ Of(P, "EpochAdvance") = Of(Q, "EpochAdvance")
    BY <1>1 DEF StateKinds, GenesisOf
  <2>2. CurrentEpoch(P) = CurrentEpoch(Q) /\ Founder(P) = Founder(Q) /\ FounderIdentity(P) = FounderIdentity(Q)
    BY <2>1 DEF CurrentEpoch, Founder, FounderIdentity
  <2> QED
    BY <2>2 DEF StandingContext, Context
<1> HIDE DEF policy, S, E
<1>6. \A X : StandingStep(P, policy, S, X) = StandingStep(Q, policy, S, X)
  BY <1>4, <1>5 DEF StandingStep
<1>7. E = StandingFixpoint(Q, policy, S)
  BY <1>6, FixpointAgrees DEF E
<1> QED
  BY <1>1, <1>2, <1>3, <1>7, SameState DEF policy, S, E

\* A pass that records admissions only leaves the next pass nothing to record: the members
\* it admits have accepted, and an acceptance is never quarantined.
LEMMA AdmissionsSettle ==
  ASSUME NEW policy, NEW A, NEW obs, NEW ls, NEW rp, NEW t, Sound(A), IsFiniteSet(ls),
         \A l \in ls : l.holder \in Members, \A a \in A : ValidArtifact(a),
         NEW new, new = Recordable(A, Batch(policy, A, View(policy, A, obs, ls, rp, t))),
         \A a \in new : a.kind = "MembershipAdmission"
  PROVE  LET B == A \union new
         IN  Recordable(B, Batch(policy, B, View(policy, B, obs, ls, rp, t))) = {}
<1> DEFINE v == View(policy, A, obs, ls, rp, t)
           B == A \union new
           w == View(policy, B, obs, ls, rp, t)
           P == Prepare(A)
           Q == Prepare(B)
           ctx == DecisionContext(policy, A, v)
           batch == Batch(policy, A, v)
           in == Inputs(policy, obs, ls, rp, t)
<1>1. DOMAIN v.members = Subjects(P, ls) /\ v.epoch = CurrentEpoch(P)
  <2> HIDE DEF v, P
  <2> QED  BY ViewFields DEF v, P
<1>2. Coordinator \notin DOMAIN v.members
  BY <1>1 DEF Subjects
<1>3. DOMAIN v.members \subseteq Members /\ IsFiniteSet(DOMAIN v.members)
  <2>1. Subjects(P, ls) \subseteq Members
    BY SubjectsAreMembers DEF Sound
  <2>2. IsFiniteSet(Subjects(P, ls))
    BY SubjectsFinite DEF Sound
  <2> QED
    BY <1>1, <2>1, <2>2
<1>4. ctx.epoch = CurrentEpoch(A)
  <2>1. CurrentEpoch(P) = CurrentEpoch(A)
    BY AdvancesAreKept DEF Sound
  <2> HIDE DEF v, P
  <2> QED  BY <1>1, <2>1 DEF DecisionContext
<1> HIDE DEF v, w
<1>5. batch = BatchIn(A, ctx, DOMAIN v.members)
  BY DEF Batch
<1> HIDE DEF ctx
<1>6. new \subseteq batch /\ \A a \in new : ValidArtifact(a) /\ \A b \in A : EvidenceId(b) # EvidenceId(a)
  BY DEF Recordable, v
<1>7. Sound(B)
  BY <1>3, <1>4, <1>5, <1>6, BatchKeepsSound
<1>8. ASSUME NEW a \in new
      PROVE  /\ a.issuer = Coordinator
             /\ \E x \in P : /\ x.kind = "MembershipAcceptance" /\ x.subject = a.subject
                             /\ x.lineage = a.lineage
  <2> DEFINE m == a.subject
             X == BySubject(A, m)
             C == InLineage(m, X)
  <2>1. a \in BatchIn(A, ctx, DOMAIN v.members)
    BY <1>5, <1>6
  <2>2. /\ m \in DOMAIN v.members /\ a.lineage = CurrentLineage(m, X)
        /\ DeriveMembership(m, X, ctx).consented /\ a.issuer = Coordinator
    <3>1. /\ m \in DOMAIN v.members
          /\ a = Record(a.kind, m, Coordinator, DeriveMembership(m, X, ctx).lineage, ctx.epoch,
                        DeriveMembership(m, X, ctx).current, a.what, NoStamp)
          /\ a.lineage = CurrentLineage(m, X)
          /\ a.kind = "MembershipAdmission" => DeriveMembership(m, X, ctx).consented
      BY <2>1, DecisionMeans
    <3>2. a.issuer = Coordinator
      BY <3>1 DEF Record
    <3> QED
      BY <3>1, <3>2
  <2>3. Facts(m, C, ctx).acceptances # {}
    BY <2>2 DEF DeriveMembership, DerivedIn, DerivedFrom, Derived
  <2>4. MatchingAcceptances(m, C, OperativeProposal(m, C)) # {}
    BY <2>3, FactFields
  <2>5. PICK x \in C : x.kind = "MembershipAcceptance" /\ x.issuer = m
    BY <2>4 DEF MatchingAcceptances, Own, Of
  <2>6. x \in A /\ x.subject = m /\ x.lineage = a.lineage
    BY <2>2, <2>5 DEF InLineage, BySubject
  <2>7. x \notin Quarantined(A)
    BY <1>2, <2>2, <2>5 DEF Quarantined, SameContent, EvidenceId, StampedKinds
  <2>8. x \in P
    BY <2>6, <2>7 DEF Prepare
  <2> QED
    BY <2>2, <2>5, <2>6, <2>8
<1>9. Admissions(A, B)
  <2>1. P \subseteq A
    BY DEF Prepare
  <2> QED
    BY <1>8, <2>1 DEF Admissions
<1>10. P \subseteq Q /\ Q \ P \subseteq new
  <2>1. ASSUME NEW a \in P PROVE a \in Q
    <3>1. a \in A /\ ValidArtifact(a) /\ a \notin Quarantined(A)
      BY DEF Prepare
    <3>2. a \notin Quarantined(B)
      BY <1>6, <3>1 DEF Quarantined
    <3> QED
      BY <3>1, <3>2 DEF Prepare
  <2>2. ASSUME NEW a \in Q, a \in A PROVE a \in P
    BY <2>2 DEF Prepare, Quarantined
  <2> QED
    BY <2>1, <2>2 DEF Prepare
<1>11. Admissions(P, Q)
  BY <1>8, <1>10 DEF Admissions
<1>12. IsFiniteSet(A) /\ IsFiniteSet(B) /\ IsFiniteSet(P) /\ IsFiniteSet(Q)
  <2>1. IsFiniteSet(A) /\ IsFiniteSet(B)
    BY <1>7 DEF Sound
  <2>2. P \subseteq A /\ Q \subseteq B
    BY DEF Prepare
  <2> HIDE DEF P, Q, B
  <2> QED  BY <2>1, <2>2, FS_Subset
<1>13. w = v
  <2>1. v = FromPrepared(P, in) /\ w = FromPrepared(Q, in)
    BY DEF v, w, View, Derive, Inputs
  <2> HIDE DEF P, Q, in, B
  <2> QED  BY <1>11, <1>12, <2>1, AdmissionsKeepState
<1>14. DecisionContext(policy, B, v) = ctx
  <2>1. GenesisOf(B) = GenesisOf(A)
    BY <1>9 DEF GenesisOf, Of, Admissions
  <2> QED
    BY <2>1 DEF DecisionContext, ctx
<1>15. ASSUME NEW m PROVE DecisionsOn(B, m, DeriveMembership(m, BySubject(B, m), ctx), ctx)
                            = DecisionsOn(A, m, DeriveMembership(m, BySubject(A, m), ctx), ctx)
  <2>1. DeriveMembership(m, BySubject(B, m), ctx) = DeriveMembership(m, BySubject(A, m), ctx)
    BY <1>9, <1>12, AdmissionsAreIdle
  <2>2. Of(BySubject(B, m), "MembershipProposal") = Of(BySubject(A, m), "MembershipProposal")
    BY <1>9 DEF Admissions, BySubject, Of
  <2> HIDE DEF B
  <2>3. \A d : AdmissionRecord(B, m, d, ctx) = AdmissionRecord(A, m, d, ctx)
    BY <2>2 DEF AdmissionRecord
  <2> QED
    BY <2>1, <2>3 DEF DecisionsOn
<1>16. Batch(policy, B, v) = batch
  <2> HIDE DEF B, batch
  <2>1. Batch(policy, B, v) = BatchIn(B, ctx, DOMAIN v.members)
    BY <1>14 DEF Batch
  <2>2. BatchIn(B, ctx, DOMAIN v.members) = BatchIn(A, ctx, DOMAIN v.members)
    BY <1>15 DEF BatchIn
  <2> QED
    BY <1>5, <2>1, <2>2
<1>17. Recordable(B, batch) = {}
  <2> SUFFICES ASSUME NEW a \in Recordable(B, batch) PROVE FALSE
    OBVIOUS
  <2>1. a \in batch /\ ValidArtifact(a) /\ \A b \in B : EvidenceId(b) # EvidenceId(a)
    BY DEF Recordable
  <2>2. a \in new
    <3>1. new = Recordable(A, batch)
      BY DEF v
    <3> HIDE DEF batch
    <3> QED  BY <2>1, <3>1 DEF Recordable
  <2> QED
    BY <2>1, <2>2
<1> QED
  BY <1>13, <1>16, <1>17 DEF w

\* The lineage and the identity that decide_locked derives for a member stay what they are
\* while it records decisions.
LEMMA IdentityIsGiven ==
  ASSUME NEW m, NEW X, NEW Y, IsFiniteSet(X), IsFiniteSet(Y), X \subseteq Y,
         \A y \in Y \ X : /\ y.kind \in {"MembershipAdmission", "MembershipActivation"}
                          /\ y.lineage = CurrentLineage(m, X),
         NEW c1, NEW c2, c1.founder = c2.founder, c1.founderId = c2.founderId
  PROVE  /\ CurrentLineage(m, Y) = CurrentLineage(m, X)
         /\ DeriveMembership(m, Y, c2).current = DeriveMembership(m, X, c1).current
<1>1. CurrentLineage(m, Y) = CurrentLineage(m, X)
  BY LineageKept
<1> DEFINE l == CurrentLineage(m, X)
           C == InLineage(m, X)
           D == InLineage(m, Y)
<1>2. C = {x \in X : x.lineage = l} /\ D = {y \in Y : y.lineage = l}
  BY <1>1 DEF InLineage
<1>3. \A kind \in {"MembershipProposal", "MembershipAcceptance", "MemberReattestation"} :
        Of(C, kind) = Of(D, kind)
  BY <1>2 DEF Of
<1> HIDE DEF l, C, D
<1>4. /\ Of(C, "MembershipProposal") = Of(D, "MembershipProposal")
      /\ Of(C, "MembershipAcceptance") = Of(D, "MembershipAcceptance")
      /\ Of(C, "MemberReattestation") = Of(D, "MemberReattestation")
  BY <1>3
<1>5. OperativeProposal(m, C) = OperativeProposal(m, D)
  <2>1. \A Z : Sponsored(m, Z) = {x \in Of(Z, "MembershipProposal") : x.issuer # m}
    BY DEF Sponsored, Own, Of
  <2>2. Sponsored(m, C) = Sponsored(m, D)
    BY <1>4, <2>1
  <2> QED
    BY <2>2 DEF OperativeProposal
<1> DEFINE p == OperativeProposal(m, C)
           f == Facts(m, C, c1)
           g == Facts(m, D, c2)
<1>6. f.acceptances = MatchingAcceptances(m, C, p) /\ g.acceptances = MatchingAcceptances(m, D, p)
  BY <1>5, FactFields
<1>7. f.acceptances = g.acceptances
  BY <1>4, <1>6 DEF MatchingAcceptances
<1>8. f.admitted = g.admitted
  <2>1. f.admitted = AdmittedIdentity(m, p, c1) /\ g.admitted = AdmittedIdentity(m, p, c2)
    BY <1>5, FactFields
  <2> QED
    BY <2>1 DEF AdmittedIdentity
<1>9. f.reattestations = g.reattestations
  <2>1. f.reattestations = Own(m, Of(C, "MemberReattestation"))
        /\ g.reattestations = Own(m, Of(D, "MemberReattestation"))
    BY FactFields
  <2> QED
    BY <1>4, <2>1
<1> HIDE DEF f, g
<1>10. CurrentIdentity(f) = CurrentIdentity(g)
  BY <1>7, <1>8, <1>9 DEF CurrentIdentity
<1> QED
  BY <1>1, <1>10, DerivedFields DEF f, g, C, D

\* The activation that decide_locked may issue for a member, while it decides on A.
ActivationOn(A, m, ctx) ==
  Record("MembershipActivation", m, Coordinator, CurrentLineage(m, BySubject(A, m)),
         CurrentEpoch(A), DeriveMembership(m, BySubject(A, m), ctx).current, {}, NoStamp)

\* What a sequence of passes has recorded beyond A.
Issued(A, B, ctx) ==
  /\ A \subseteq B
  /\ \A b \in B \ A :
       /\ b.kind \in {"MembershipAdmission", "MembershipActivation"}
       /\ b.lineage = CurrentLineage(b.subject, BySubject(A, b.subject))
       /\ b.kind = "MembershipActivation" => EvidenceId(b) = EvidenceId(ActivationOn(A, b.subject, ctx))

\* Each pass adds to it.
LEMMA PassIssues ==
  ASSUME NEW A, NEW B, IsFiniteSet(A), IsFiniteSet(B), NEW c, NEW ctx, Issued(A, B, c),
         ctx.founder = c.founder, ctx.founderId = c.founderId, ctx.epoch = CurrentEpoch(A),
         NEW members, NEW new, new \subseteq BatchIn(B, ctx, members)
  PROVE  Issued(A, B \union new, c)
<1> SUFFICES ASSUME NEW b \in new \ B
             PROVE  /\ b.kind \in {"MembershipAdmission", "MembershipActivation"}
                    /\ b.lineage = CurrentLineage(b.subject, BySubject(A, b.subject))
                    /\ b.kind = "MembershipActivation" =>
                         EvidenceId(b) = EvidenceId(ActivationOn(A, b.subject, c))
  BY DEF Issued
<1> DEFINE m == b.subject
           X == BySubject(A, m)
           Y == BySubject(B, m)
           d == DeriveMembership(m, Y, ctx)
<1>1. /\ b = Record(b.kind, m, Coordinator, d.lineage, ctx.epoch, d.current, b.what, NoStamp)
      /\ b.lineage = CurrentLineage(m, Y)
      /\ b.kind \in {"MembershipAdmission", "MembershipActivation"}
      /\ b.kind = "MembershipActivation" => b.what = {}
  <2>1. b \in BatchIn(B, ctx, members)
    OBVIOUS
  <2> QED
    BY <2>1, DecisionMeans
<1>2. X \subseteq A /\ Y \subseteq B /\ X \subseteq Y
  BY DEF BySubject, Issued
<1>3. IsFiniteSet(X) /\ IsFiniteSet(Y)
  <2> HIDE DEF X, Y
  <2> QED  BY <1>2, FS_Subset
<1>4. \A y \in Y \ X : /\ y.kind \in {"MembershipAdmission", "MembershipActivation"}
                       /\ y.lineage = CurrentLineage(m, X)
  BY DEF BySubject, Issued
<1>5. d.lineage = CurrentLineage(m, Y)
  BY DerivedFields
<1>6. /\ CurrentLineage(m, Y) = CurrentLineage(m, X)
      /\ d.current = DeriveMembership(m, X, c).current
  <2> HIDE DEF X, Y
  <2> QED  BY <1>2, <1>3, <1>4, IdentityIsGiven
<1> HIDE DEF d, Y
<1>7. ASSUME b.kind = "MembershipActivation" PROVE EvidenceId(b) = EvidenceId(ActivationOn(A, m, c))
  <2>1. b = ActivationOn(A, m, c)
    BY <1>1, <1>5, <1>6, <1>7 DEF ActivationOn
  <2> QED
    BY <2>1
<1> QED
  BY <1>1, <1>6, <1>7

\* The members that were activated beyond A.
Activated(A, B) == {b.subject : b \in Of(B \ A, "MembershipActivation")}

\* One pass over B, of a sequence that began with A.
Progress(policy, A, B, c, obs, ls, rp, t) ==
  LET D == B \union Recordable(B, Batch(policy, B, View(policy, B, obs, ls, rp, t)))
  IN  /\ Issued(A, D, c) /\ \A b \in D : ValidArtifact(b)
      /\ Activated(A, B) \subseteq Activated(A, D)
      /\ \/ Recordable(D, Batch(policy, D, View(policy, D, obs, ls, rp, t))) = {}
         \/ \E m \in Members : m \in Activated(A, D) \ Activated(A, B)

\* A pass that does not complete the decisions activates somebody who was not activated by
\* the passes before it: a second activation would have the identifier of the first.
LEMMA PassActivates ==
  ASSUME NEW policy, NEW A, NEW obs, NEW ls, NEW rp, NEW t, Sound(A), IsFiniteSet(ls),
         \A l \in ls : l.holder \in Members, NEW B, Sound(B), Grown(A, B),
         \A b \in B : ValidArtifact(b), NEW c,
         c = DecisionContext(policy, A, View(policy, A, obs, ls, rp, t)), Issued(A, B, c)
  PROVE  Progress(policy, A, B, c, obs, ls, rp, t)
<1> DEFINE v == View(policy, B, obs, ls, rp, t)
           new == Recordable(B, Batch(policy, B, v))
           ctx == DecisionContext(policy, B, v)
           D == B \union new
           start == DecisionContext(policy, A, View(policy, A, obs, ls, rp, t))
<1>1. v.epoch = CurrentEpoch(Prepare(B)) /\ DOMAIN v.members = Subjects(Prepare(B), ls)
  <2> HIDE DEF v
  <2> QED  BY ViewFields DEF v
<1>2. CurrentEpoch(Prepare(B)) = CurrentEpoch(B)
  BY AdvancesAreKept DEF Sound
<1>3. Of(B, "EpochAdvance") = Of(A, "EpochAdvance") /\ GenesisOf(B) = GenesisOf(A)
  BY DEF Grown, Of, GenesisOf
<1>4. CurrentEpoch(B) = CurrentEpoch(A)
  BY <1>3 DEF CurrentEpoch
<1>5. DOMAIN v.members \subseteq Members
  BY <1>1, SubjectsAreMembers DEF Sound
<1> HIDE DEF v
<1>6. ctx.epoch = CurrentEpoch(A) /\ ctx.founder = start.founder /\ ctx.founderId = start.founderId
  <2>1. ctx.epoch = CurrentEpoch(A)
    BY <1>1, <1>2, <1>4 DEF DecisionContext
  <2>2. ctx.founder = start.founder /\ ctx.founderId = start.founderId
    BY <1>3 DEF DecisionContext
  <2> QED
    BY <2>1, <2>2
<1>7. Batch(policy, B, v) = BatchIn(B, ctx, DOMAIN v.members)
  BY DEF Batch
<1> HIDE DEF ctx
<1>8. /\ new \subseteq BatchIn(B, ctx, DOMAIN v.members)
      /\ \A a \in new : ValidArtifact(a) /\ \A b \in B : EvidenceId(b) # EvidenceId(a)
  BY <1>7 DEF Recordable
<1>9. c = start
  OBVIOUS
<1> HIDE DEF start, new
<1>10. IsFiniteSet(A) /\ IsFiniteSet(B)
  BY DEF Sound
<1>11. Issued(A, D, c)
  BY <1>6, <1>8, <1>9, <1>10, PassIssues
<1>12. \A b \in D : ValidArtifact(b)
  BY <1>8
<1>13. Activated(A, B) \subseteq Activated(A, D)
  BY DEF Activated, Of
<1>14. CASE \A a \in new : a.kind = "MembershipAdmission"
  <2>1. Recordable(D, Batch(policy, D, View(policy, D, obs, ls, rp, t))) = {}
    BY <1>14, AdmissionsSettle DEF v, new
  <2> QED
    BY <1>11, <1>12, <1>13, <2>1 DEF Progress, new, v
<1>15. CASE \E a \in new : a.kind # "MembershipAdmission"
  <2>1. PICK a \in new : a.kind # "MembershipAdmission"
    BY <1>15
  <2>2. a \in BatchIn(B, ctx, DOMAIN v.members) /\ a \notin B /\ a \in D
    BY <1>8
  <2>3. a.kind = "MembershipActivation" /\ a.subject \in Members
    <3>1. a.subject \in DOMAIN v.members /\ a.kind \in {"MembershipAdmission", "MembershipActivation"}
      BY <2>2, DecisionMeans
    <3> QED
      BY <1>5, <2>1, <3>1
  <2>4. a \in D \ A
    BY <2>2 DEF Grown
  <2>5. a.subject \in Activated(A, D)
    BY <2>3, <2>4 DEF Activated, Of
  <2>6. a.subject \notin Activated(A, B)
    <3> SUFFICES ASSUME NEW b \in B \ A, b.kind = "MembershipActivation", b.subject = a.subject
                 PROVE  FALSE
      BY DEF Activated, Of
    <3>1. EvidenceId(b) = EvidenceId(ActivationOn(A, b.subject, c))
      BY DEF Issued
    <3>2. EvidenceId(a) = EvidenceId(ActivationOn(A, a.subject, c))
      BY <1>11, <2>3, <2>4 DEF Issued
    <3> QED
      BY <1>8, <3>1, <3>2
  <2> QED
    BY <1>11, <1>12, <1>13, <2>3, <2>5, <2>6 DEF Progress, new, v
<1> QED
  BY <1>14, <1>15

\* decide_locked's comment "Bounded": kMaxMembers + 2 passes complete the decisions, nothing
\* is left to record after them; the activations they record are of the current epoch.
LEMMA DecideCompletes ==
  ASSUME NEW policy, NEW A, NEW obs, NEW ls, NEW rp, NEW t, IsFiniteSet(ls),
         \A l \in ls : l.holder \in Members, Sound(A), \A a \in A : ValidArtifact(a)
  PROVE  LET x == Decide(policy, A, obs, ls, rp, t)
         IN  /\ \A a \in x.set : ValidArtifact(a)
             /\ \A a \in x.set \ A : a.kind = "MembershipActivation" => a.epoch = CurrentEpoch(A)
             /\ Recordable(x.set, Batch(policy, x.set, x.view)) = {}
<1>0. MaxMembers + 2 \in Nat /\ MaxMembers + 1 \in Nat /\ MaxMembers \in Nat /\ MaxMembers + 1 < MaxMembers + 2
      /\ (MaxMembers + 1) + 1 = MaxMembers + 2
  BY PolicyBounds
<1>1. PICK f : /\ Passes(f, policy, A, obs, ls, rp, t)
               /\ Decide(policy, A, obs, ls, rp, t) = f[MaxMembers + 2]
  BY DecideIsPasses
<1>2. \A n \in Nat : n <= MaxMembers + 2 => Stage(f[n], policy, A, obs, ls, rp, t)
  BY <1>1, PassesAreStages
<1> DEFINE c == DecisionContext(policy, A, View(policy, A, obs, ls, rp, t))
           rest(n) == Recordable(f[n].set, Batch(policy, f[n].set, f[n].view))
           G(n) == Activated(A, f[n].set)
           Good(n) == /\ Issued(A, f[n].set, c) /\ \A a \in f[n].set : ValidArtifact(a)
                      /\ f[n].done => rest(n) = {}
                      /\ rest(n) = {} \/ \E M \in SUBSET Members : M \subseteq G(n) /\ Cardinality(M) >= n
           T == {n \in Nat : n <= MaxMembers + 2 => Good(n)}
<1>3. IsFiniteSet(Members) /\ Cardinality(Members) \in Nat /\ Cardinality(Members) <= MaxMembers
  BY MembersAreBounded, FS_CardinalityType
<1>4. 0 \in T
  <2>1. f[0].set = A /\ f[0].done = FALSE
    BY <1>1 DEF Passes, Undecided
  <2>2. Issued(A, A, c)
    BY DEF Issued
  <2>3. {} \subseteq G(0) /\ Cardinality({}) >= 0
    BY FS_EmptySet
  <2> HIDE DEF c, G, rest
  <2> QED
    BY <2>1, <2>2, <2>3
<1>5. ASSUME NEW n \in Nat, n <= MaxMembers + 2, Good(n), n + 1 <= MaxMembers + 2 PROVE Good(n + 1)
  <2> DEFINE x == f[n]
             new == rest(n)
             D == x.set \union new
  <2>1. Stage(x, policy, A, obs, ls, rp, t)
    BY <1>2, <1>5
  <2>2. f[n + 1] = Passed(policy, x, new, obs, ls, rp, t)
    <3>1. n < MaxMembers + 2
      BY <1>0, <1>5
    <3> QED
      BY <1>1, <3>1 DEF Passes, Pass
  <2>3. CASE x.done \/ new = {}
    <3>1. f[n + 1].set = x.set /\ f[n + 1].view = x.view /\ f[n + 1].done = TRUE
      <4> HIDE DEF x, new
      <4> QED  BY <2>2, <2>3 DEF Passed
    <3>2. rest(n) = {}
      BY <1>5, <2>3
    <3>3. rest(n + 1) = {}
      BY <3>1, <3>2
    <3>4. Issued(A, f[n + 1].set, c) /\ \A a \in f[n + 1].set : ValidArtifact(a)
      BY <1>5, <3>1
    <3> HIDE DEF rest, c, G
    <3> QED
      BY <3>3, <3>4
  <2>4. CASE ~(x.done \/ new = {})
    <3>1. /\ f[n + 1].set = D /\ f[n + 1].done = FALSE
          /\ f[n + 1].view = View(policy, D, obs, ls, rp, t)
      <4> HIDE DEF x, new
      <4> QED  BY <2>2, <2>4 DEF Passed
    <3>2. Sound(x.set) /\ Grown(A, x.set) /\ x.view = View(policy, x.set, obs, ls, rp, t)
      BY <2>1 DEF Stage
    <3>3. new = Recordable(x.set, Batch(policy, x.set, View(policy, x.set, obs, ls, rp, t)))
      BY <3>2
    <3>4. Issued(A, x.set, c) /\ \A a \in x.set : ValidArtifact(a)
      BY <1>5
    <3>5. PICK M \in SUBSET Members : M \subseteq G(n) /\ Cardinality(M) >= n
      BY <1>5, <2>4
    <3> HIDE DEF x, new
    <3>6. /\ Issued(A, D, c) /\ \A b \in D : ValidArtifact(b)
          /\ Activated(A, x.set) \subseteq Activated(A, D)
          /\ \/ Recordable(D, Batch(policy, D, View(policy, D, obs, ls, rp, t))) = {}
             \/ \E m \in Members : m \in Activated(A, D) \ Activated(A, x.set)
      <4> DEFINE B == x.set
                 e == c
      <4>1. Issued(A, B, e) /\ Sound(B) /\ Grown(A, B) /\ \A b \in B : ValidArtifact(b)
        BY <3>2, <3>4
      <4>2. e = DecisionContext(policy, A, View(policy, A, obs, ls, rp, t))
        OBVIOUS
      <4> HIDE DEF e, B, D, G, rest, Good, T
      <4>3. Progress(policy, A, B, e, obs, ls, rp, t)
        BY <4>1, <4>2, PassActivates
      <4>4. new = Recordable(B, Batch(policy, B, View(policy, B, obs, ls, rp, t)))
        BY <3>3 DEF B
      <4> QED
        BY <4>3, <4>4 DEF Progress, e, D, B
    <3>7. \/ rest(n + 1) = {}
          \/ \E m \in Members : m \in G(n + 1) \ G(n)
      BY <3>1, <3>6 DEF x
    <3>8. G(n) \subseteq G(n + 1)
      BY <3>1, <3>6 DEF x
    <3>9. rest(n + 1) = {} \/ \E N \in SUBSET Members : N \subseteq G(n + 1) /\ Cardinality(N) >= n + 1
      <4> HIDE DEF rest, G
      <4> SUFFICES ASSUME NEW m \in Members, m \in G(n + 1) \ G(n)
                   PROVE  \E N \in SUBSET Members : N \subseteq G(n + 1) /\ Cardinality(N) >= n + 1
        BY <3>7
      <4>1. IsFiniteSet(M) /\ m \notin M
        BY <1>3, <3>5, FS_Subset
      <4>2. Cardinality(M \union {m}) = Cardinality(M) + 1 /\ Cardinality(M) \in Nat
        BY <4>1, FS_AddElement, FS_CardinalityType
      <4>3. Cardinality(M \union {m}) >= n + 1
        BY <3>5, <4>2
      <4> QED
        BY <3>5, <3>8, <4>3
    <3>10. Issued(A, f[n + 1].set, c) /\ \A a \in f[n + 1].set : ValidArtifact(a)
      BY <3>1, <3>6
    <3> HIDE DEF rest, c, G, D
    <3> QED
      BY <3>1, <3>9, <3>10
  <2> QED
    BY <2>3, <2>4
<1>6. \A n \in Nat : n \in T => n + 1 \in T
  <2> SUFFICES ASSUME NEW n \in Nat, n \in T, n + 1 <= MaxMembers + 2 PROVE Good(n + 1)
    <3> HIDE DEF Good
    <3> QED  OBVIOUS
  <2>1. n <= MaxMembers + 2
    BY <1>0
  <2> HIDE DEF Good
  <2> QED
    BY <1>5, <2>1
<1>7. \A n \in Nat : n \in T
  <2> HIDE DEF T
  <2> QED  BY <1>4, <1>6, SetInduction
<1>8. Good(MaxMembers + 1) /\ Good(MaxMembers + 2)
  <2> HIDE DEF Good
  <2> QED  BY <1>0, <1>7
<1>9. rest(MaxMembers + 1) = {}
  <2> SUFFICES ASSUME NEW M \in SUBSET Members, Cardinality(M) >= MaxMembers + 1 PROVE FALSE
    BY <1>8
  <2>1. Cardinality(M) \in Nat /\ Cardinality(M) <= Cardinality(Members)
    BY <1>3, FS_Subset, FS_CardinalityType
  <2> QED
    BY <1>0, <1>3, <2>1
<1>10. f[MaxMembers + 2].set = f[MaxMembers + 1].set /\ f[MaxMembers + 2].view = f[MaxMembers + 1].view
  <2> DEFINE n == MaxMembers + 1
             new == rest(n)
  <2>1. f[n + 1] = Passed(policy, f[n], new, obs, ls, rp, t)
    BY <1>0, <1>1 DEF Passes, Pass
  <2>2. f[n + 1].set = f[n].set /\ f[n + 1].view = f[n].view
    <3>1. new = {}
      BY <1>9
    <3> HIDE DEF new, n
    <3> QED
      BY <2>1, <3>1 DEF Passed
  <2> QED
    BY <1>0, <2>2
<1>11. rest(MaxMembers + 2) = {}
  BY <1>9, <1>10
<1>12. \A a \in f[MaxMembers + 2].set \ A : a.kind = "MembershipActivation" => a.epoch = CurrentEpoch(A)
  <2> SUFFICES ASSUME NEW a \in f[MaxMembers + 2].set \ A, a.kind = "MembershipActivation"
               PROVE  a.epoch = CurrentEpoch(A)
    OBVIOUS
  <2> DEFINE b == ActivationOn(A, a.subject, c)
  <2>1. EvidenceId(a) = EvidenceId(b)
    BY <1>8 DEF Issued
  <2>2. b.epoch = CurrentEpoch(A)
    BY DEF ActivationOn, Record
  <2>3. \A x : EvidenceId(x).epoch = x.epoch
    BY DEF EvidenceId
  <2> HIDE DEF b
  <2> QED
    BY <2>1, <2>2, <2>3
<1> HIDE DEF c, rest, G
<1> QED
  BY <1>1, <1>8, <1>11, <1>12 DEF rest
================================================================================
