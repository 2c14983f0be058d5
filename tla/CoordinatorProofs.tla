-------------------------- MODULE CoordinatorProofs --------------------------
(***************************************************************************)
(* Proofs about the coordinator, for every derivation that is well formed, *)
(* every number of restarts and every journal.                             *)
(***************************************************************************)
EXTENDS Coordinator, SequenceTheorems, TLAPS

-----------------------------------------------------------------------------
(* Records *)

LEMMA RecordFields ==
  ASSUME NEW r \in Record \cup {NoRecord}
  PROVE  /\ r # NoRecord => r \in Record
         /\ r.type = "Artifact" => r \in Record /\ r.artifact \in Artifact
         /\ r.type = "Lease" => r \in Record /\ r.lease \in Lease
         /\ r.type = "LeaseRevocation" => r \in Record /\ r.id \in Nat
         /\ r.type = "RequestDecision" =>
              r \in Record /\ r.request \in RequestId /\ r.outcome \in Outcome /\ r.decided_at \in Nat
         /\ r.type = "PartitionObservation" => r \in Record /\ r.observation \in Observation
         /\ r.type = "TickHighWater" => r \in Record /\ r.value \in Nat
         /\ r.type = "CoordinatorIncarnation" => r \in Record /\ r.value \in Nat
  BY DEF Record, NoRecord

LEMMA RecordConstructors ==
  /\ \A a \in Artifact : ArtifactRecord(a) \in Record /\ ArtifactRecord(a) # NoRecord
  /\ \A l \in Lease : LeaseRecord(l) \in Record
  /\ \A id \in Nat : RevocationRecord(id) \in Record
  /\ \A id \in RequestId, o \in Outcome, t \in Nat : DecisionRecord(id, o, t) \in Record
  /\ \A o \in Observation : ObservationRecord(o) \in Record
  /\ \A t \in Nat : TickRecord(t) \in Record /\ IncarnationRecord(t) \in Record
  BY DEF Record, NoRecord, ArtifactRecord, LeaseRecord, RevocationRecord, DecisionRecord,
         ObservationRecord, TickRecord, IncarnationRecord

LEMMA RecoveredTyped ==
  ASSUME NEW j \in Seq(Record)
  PROVE  /\ RecoveredLeases(j) \subseteq Lease
         /\ RecoveredRevocations(j) \subseteq Nat
         /\ RecoveredObservations(j) \subseteq Observation
         /\ RecoveredReplay(j) \subseteq [request : RequestId, decided_at : Nat]
         /\ DOMAIN RecoveredArtifacts(j) \subseteq Nat
         /\ \A i \in DOMAIN RecoveredArtifacts(j) : RecoveredArtifacts(j)[i] \in Artifact
         /\ PersistedTicks(j) \subseteq Nat
         /\ PersistedIncarnations(j) \subseteq Nat
         /\ LeaseSequences(j) \subseteq Nat
<1>1. \A i \in DOMAIN j : j[i] \in Record /\ i \in Nat
  OBVIOUS
<1>2. \A r \in Elements(j) : r \in Record
  BY <1>1 DEF Elements
<1>3. RecoveredLeases(j) \subseteq Lease
  BY <1>1, RecordFields DEF RecoveredLeases
<1>4. RecoveredObservations(j) \subseteq Observation
  BY <1>1, RecordFields DEF RecoveredObservations
<1>5. RecoveredRevocations(j) \subseteq Nat
  BY <1>2, RecordFields DEF RecoveredRevocations, OfType
<1>6. RecoveredReplay(j) \subseteq [request : RequestId, decided_at : Nat]
  BY <1>2, RecordFields DEF RecoveredReplay, OfType
<1>7. /\ DOMAIN RecoveredArtifacts(j) \subseteq Nat
      /\ \A i \in DOMAIN RecoveredArtifacts(j) : RecoveredArtifacts(j)[i] \in Artifact
  BY <1>1, RecordFields DEF RecoveredArtifacts
<1>8. PersistedTicks(j) \subseteq Nat
  BY <1>2, RecordFields, BoundsAssumption DEF PersistedTicks, OfType, Lease
<1>9. PersistedIncarnations(j) \subseteq Nat
  BY <1>2, RecordFields DEF PersistedIncarnations, OfType
<1>10. LeaseSequences(j) \subseteq Nat
  BY <1>1 DEF LeaseSequences
<1> QED
  BY <1>3, <1>4, <1>5, <1>6, <1>7, <1>8, <1>9, <1>10
-----------------------------------------------------------------------------
(* Type correctness *)

\* What the thread that holds the mutex has in flight at each program point.
Inflight ==
  /\ pc \in {"down", "idle"} => inflight = NoRecord
  /\ pc = "boot" => inflight = IncarnationRecord(incarnation)
  /\ pc = "genesis" =>
       /\ inflight = ArtifactRecord(GenesisArtifact(tick))
       /\ GenesisArtifact(tick) \in CoordinatorArtifact
  /\ pc = "decide" =>
       \/ inflight = NoRecord
       \/ batch # <<>> /\ inflight = ArtifactRecord(Head(batch))
  /\ pc = "submit" => \E a \in MemberArtifact : inflight = ArtifactRecord(a)
  /\ pc = "command" => \E a \in CoordinatorArtifact : inflight = ArtifactRecord(a)
  /\ pc = "op" => inflight.type \in {"Lease", "LeaseRevocation", "RequestDecision",
                                     "PartitionObservation", "TickHighWater"}

Typed == StateTyped /\ Inflight

LEMMA EmptyTyped ==
  /\ DOMAIN [i \in {} |-> NoRecord] = {}
  /\ \A S : <<>> \in Seq(S)
  /\ 0 \in 0..MaxPasses
  BY BoundsAssumption

LEMMA InitTyped == Init => Typed
<1> SUFFICES ASSUME Init PROVE Typed
  OBVIOUS
<1>1. Inflight
  BY DEF Init, Inflight
<1>2. DOMAIN artifacts \subseteq Nat /\ \A i \in DOMAIN artifacts : artifacts[i] \in Artifact
  BY EmptyTyped DEF Init
<1>3. journal \in Seq(Record) /\ batch \in Seq(CoordinatorArtifact) /\ passes \in 0..MaxPasses
  BY EmptyTyped DEF Init
<1>4. granted \in [RequestId -> Nat]
  BY DEF Init
<1> QED
  BY <1>1, <1>2, <1>3, <1>4, BoundsAssumption DEF Init, Typed, StateTyped

LEMMA LostTyped ==
  ASSUME Typed, MemoryLost, stray' \in {stray, inflight, NoRecord}, UNCHANGED <<journal, history>>
  PROVE  Typed'
  BY BoundsAssumption, EmptyTyped DEF Typed, StateTyped, Inflight, MemoryLost, history

\* A record that Commit appends leaves the journal typed.
LEMMA CommitTyped ==
  ASSUME Typed, Commit, inflight \in Record
  PROVE  /\ journal' \in Seq(Record) /\ journal' = Append(journal, inflight)
         /\ inflight' = NoRecord /\ stray' = NoRecord
         /\ Len(journal) + 1 \in Nat
  BY DEF Typed, StateTyped, Commit

\* Pushing an artefact keeps the evidence typed.
LEMMA PushTyped ==
  ASSUME Typed, NEW a \in Artifact, Push(a)
  PROVE  DOMAIN artifacts' \subseteq Nat /\ \A i \in DOMAIN artifacts' : artifacts'[i] \in Artifact
  BY DEF Typed, StateTyped, Push

LEMMA TypedStep ==
  ASSUME Typed, DerivationWellFormed, [Next]_vars
  PROVE  Typed'
<1> USE DEF memory, loop, history
<1>1. CASE LoadJournal
  <2>1. PICK j \in {journal} \cup (IF stray = NoRecord THEN {} ELSE {Append(journal, stray)}) :
          /\ \E t \in PersistedTicks(j), n \in PersistedIncarnations(j), s \in LeaseSequences(j) :
               /\ tick' = t /\ incarnation' = n + 1 /\ lease_sequence' = s + 1
               /\ Start("boot", IncarnationRecord(n + 1))
          /\ journal' = j
          /\ leases' = RecoveredLeases(j)
          /\ revoked' = RecoveredRevocations(j)
          /\ observations' = RecoveredObservations(j)
          /\ replay' = RecoveredReplay(j)
          /\ artifacts' = RecoveredArtifacts(j)
    BY <1>1 DEF LoadJournal
  <2>2. j \in Seq(Record)
    <3>1. CASE j = journal
      BY <3>1 DEF Typed, StateTyped
    <3>2. CASE stray # NoRecord /\ j = Append(journal, stray)
      <4>1. stray \in Record /\ journal \in Seq(Record)
        BY <3>2 DEF Typed, StateTyped
      <4> QED
        BY <3>2, <4>1
    <3> QED
      BY <2>1, <3>1, <3>2
  <2>3. tick' \in Nat /\ incarnation' \in Nat /\ lease_sequence' \in Nat
    BY <2>1, <2>2, RecoveredTyped
  <2>4. pc' = "boot" /\ inflight' = IncarnationRecord(incarnation')
    BY <2>1, <2>2, RecoveredTyped DEF Start
  <2>5. /\ DOMAIN artifacts' \subseteq Nat /\ \A i \in DOMAIN artifacts' : artifacts'[i] \in Artifact
        /\ leases' \subseteq Lease /\ revoked' \subseteq Nat /\ observations' \subseteq Observation
        /\ replay' \subseteq [request : RequestId, decided_at : Nat]
    BY <2>1, <2>2, RecoveredTyped
  <2> QED
    BY <1>1, <2>1, <2>2, <2>3, <2>4, <2>5, RecordConstructors
    DEF LoadJournal, Typed, StateTyped, Inflight
<1>2. CASE EnsureGenesis
  <2>1. inflight \in Record
    BY <1>2, RecordConstructors DEF EnsureGenesis, Typed, StateTyped, Inflight
  <2>2. GenesisArtifact(tick) \in Artifact /\ GenesisArtifact(tick) \in CoordinatorArtifact
    BY DEF DerivationWellFormed, CoordinatorArtifact
  <2>3. Len(journal) + 2 \in Nat /\ journal' \in Seq(Record) /\ tick' = tick
    BY <1>2, <2>1 DEF EnsureGenesis, Typed, StateTyped
  <2>4. DOMAIN artifacts' \subseteq Nat /\ \A i \in DOMAIN artifacts' : artifacts'[i] \in Artifact
    BY <1>2, <2>2, <2>3 DEF EnsureGenesis, Typed, StateTyped
  <2>5. \/ pc' = "decide" /\ inflight' = NoRecord
        \/ pc' = "genesis" /\ inflight' = ArtifactRecord(GenesisArtifact(tick))
    BY <1>2 DEF EnsureGenesis, Start
  <2>6. inflight' \in Record \cup {NoRecord}
    BY <2>2, <2>5, RecordConstructors
  <2>7. Inflight'
    BY <2>2, <2>3, <2>5 DEF Inflight
  <2> QED
    BY <1>2, <2>3, <2>4, <2>5, <2>6, <2>7 DEF EnsureGenesis, Typed, StateTyped
<1>3. CASE GenesisRecorded
  <2>1. inflight \in Record
    BY <1>3, RecordConstructors DEF GenesisRecorded, Typed, StateTyped, Inflight, CoordinatorArtifact
  <2> QED
    BY <1>3, <2>1, CommitTyped DEF GenesisRecorded, Typed, StateTyped, Inflight
<1>4. CASE DecidePass
  <2>1. passes' \in 0..MaxPasses
    BY <1>4, BoundsAssumption DEF DecidePass, Typed, StateTyped
  <2> QED
    BY <1>4, <2>1, BoundsAssumption
    DEF DecidePass, Typed, StateTyped, Inflight, DerivationWellFormed, Released
<1>5. CASE RecordDecision
  <2>1. Head(batch) \in CoordinatorArtifact /\ Tail(batch) \in Seq(CoordinatorArtifact)
    BY <1>5 DEF RecordDecision, Typed, StateTyped
  <2>2. ArtifactRecord(Head(batch)) \in Record
    BY <2>1, RecordConstructors DEF CoordinatorArtifact
  <2> QED
    BY <1>5, <2>1, <2>2 DEF RecordDecision, Typed, StateTyped, Inflight
<1>6. CASE DecisionRecorded
  <2>1. batch # <<>> /\ inflight = ArtifactRecord(Head(batch))
    BY <1>6 DEF DecisionRecorded, Typed, Inflight
  <2>2. Head(batch) \in Artifact /\ Tail(batch) \in Seq(CoordinatorArtifact)
    BY <2>1 DEF Typed, StateTyped, CoordinatorArtifact
  <2>3. inflight \in Record /\ inflight.artifact \in Artifact
    BY <2>1, <2>2, RecordConstructors DEF ArtifactRecord
  <2>4. journal' \in Seq(Record) /\ inflight' = NoRecord /\ stray' = NoRecord
    BY <1>6, <2>3, CommitTyped DEF DecisionRecorded
  <2>5. DOMAIN artifacts' \subseteq Nat /\ \A i \in DOMAIN artifacts' : artifacts'[i] \in Artifact
    BY <1>6, <2>3, PushTyped DEF DecisionRecorded
  <2> QED
    BY <1>6, <2>2, <2>4, <2>5 DEF DecisionRecorded, Typed, StateTyped, Inflight
<1>7. CASE \E a \in MemberArtifact : Submit(a)
  <2>1. PICK a \in MemberArtifact : Submit(a)
    BY <1>7
  <2>2. ArtifactRecord(a) \in Record
    BY MemberAssumption, RecordConstructors
  <2> QED
    BY <2>1, <2>2 DEF Submit, Start, Typed, StateTyped, Inflight
<1>8. CASE Submitted
  <2>1. inflight \in Record /\ inflight.artifact \in Artifact
    BY <1>8, MemberAssumption, RecordConstructors DEF Submitted, Typed, Inflight, ArtifactRecord
  <2>2. journal' \in Seq(Record) /\ inflight' = NoRecord /\ stray' = NoRecord
    BY <1>8, <2>1, CommitTyped DEF Submitted
  <2>3. DOMAIN artifacts' \subseteq Nat /\ \A i \in DOMAIN artifacts' : artifacts'[i] \in Artifact
    BY <1>8, <2>1, PushTyped DEF Submitted
  <2> QED
    BY <1>8, <2>2, <2>3 DEF Submitted, Typed, StateTyped, Inflight
<1>9. CASE \E a \in Commands(View) : Command(a)
  <2>1. PICK a \in Commands(View) : Command(a)
    BY <1>9
  <2>2. a \in CoordinatorArtifact /\ ArtifactRecord(a) \in Record
    BY RecordConstructors DEF DerivationWellFormed, CoordinatorArtifact
  <2> QED
    BY <2>1, <2>2 DEF Command, Ready, Idle, NextTick, Start, Typed, StateTyped, Inflight
<1>10. CASE CommandRecorded
  <2>1. inflight \in Record /\ inflight.artifact \in Artifact
    BY <1>10, RecordConstructors
    DEF CommandRecorded, Typed, Inflight, ArtifactRecord, CoordinatorArtifact
  <2>2. journal' \in Seq(Record) /\ inflight' = NoRecord /\ stray' = NoRecord
    BY <1>10, <2>1, CommitTyped DEF CommandRecorded
  <2>3. DOMAIN artifacts' \subseteq Nat /\ \A i \in DOMAIN artifacts' : artifacts'[i] \in Artifact
    BY <1>10, <2>1, PushTyped DEF CommandRecorded
  <2>4. tick' \in Nat /\ pc' = "idle"
    BY <1>10 DEF CommandRecorded, NextTick, Released, Typed, StateTyped
  <2> QED
    BY <1>10, <2>2, <2>3, <2>4 DEF CommandRecorded, Typed, StateTyped, Inflight
<1>11. CASE \E r \in AuthorityRequest : Evaluate(r)
  <2>1. PICK r \in AuthorityRequest : Evaluate(r)
    BY <1>11
  <2>2. Times \subseteq Nat
    BY ArtifactAssumption DEF Times, Accepted, Elements, Typed, StateTyped
  <2>3. \A t \in Times : DecisionRecord(r.id, Authorise(View, r), t) \in Record
    BY <2>2, RecordConstructors DEF DerivationWellFormed, RequestId
  <2> QED
    BY <2>1, <2>3
    DEF Evaluate, Ready, Idle, NextTick, Start, DecisionRecord, Typed, StateTyped, Inflight
<1>12. CASE Evaluated
  <2>1. /\ inflight \in Record /\ inflight.request \in RequestId /\ inflight.decided_at \in Nat
    BY <1>12, RecordFields DEF Evaluated, Typed, StateTyped
  <2>2. granted' \in [RequestId -> Nat]
    BY <1>12, <2>1 DEF Evaluated, Typed, StateTyped
  <2>3. replay' \subseteq [request : RequestId, decided_at : Nat]
    BY <1>12, <2>1 DEF Evaluated, Typed, StateTyped
  <2>4. journal' \in Seq(Record) /\ inflight' = NoRecord /\ stray' = NoRecord
    BY <1>12, <2>1, CommitTyped DEF Evaluated
  <2>5. tick' \in Nat /\ pc' = "idle"
    BY <1>12 DEF Evaluated, NextTick, Released, Typed, StateTyped
  <2> QED
    BY <1>12, <2>2, <2>3, <2>4, <2>5 DEF Evaluated, Typed, StateTyped, Inflight
<1>13. CASE \E r \in LeaseRequest : IssueLease(r)
  <2>1. PICK r \in LeaseRequest : IssueLease(r)
    BY <1>13
  <2>2. Epochs \subseteq Nat
    BY ArtifactAssumption DEF Epochs, Advances, Accepted, Elements, Typed, StateTyped
  <2> DEFINE lifetime == IF r.lifetime = 0 THEN MaxLeaseLifetime ELSE r.lifetime
             made(epoch) == [id |-> lease_sequence, holder |-> IdentityOf(View, r),
                             issued_epoch |-> epoch,
                             not_after_epoch |-> IF r.not_after_epoch = 0 THEN epoch
                                                 ELSE r.not_after_epoch,
                             issued_at |-> tick, not_after |-> tick + lifetime,
                             issuer_incarnation |-> incarnation]
  <2>3. \A epoch \in Epochs : made(epoch) \in Lease
    BY <2>2, BoundsAssumption, RequestAssumption DEF Lease, DerivationWellFormed, Typed, StateTyped
  <2>4. \E epoch \in Epochs : pc' = "op" /\ inflight' = LeaseRecord(made(epoch))
    BY <2>1 DEF IssueLease, Start
  <2>5. inflight' \in Record /\ inflight'.type = "Lease" /\ pc' = "op"
    BY <2>3, <2>4, RecordConstructors DEF LeaseRecord
  <2> QED
    BY <2>1, <2>5 DEF IssueLease, Typed, StateTyped, Inflight
<1>14. CASE LeaseIssued
  <2>1. inflight \in Record /\ inflight.lease \in Lease
    BY <1>14, RecordFields DEF LeaseIssued, Typed, StateTyped
  <2>2. journal' \in Seq(Record) /\ inflight' = NoRecord /\ stray' = NoRecord
    BY <1>14, <2>1, CommitTyped DEF LeaseIssued
  <2>3. leases' \subseteq Lease /\ revoked' \subseteq Nat /\ issued' \subseteq Lease
    BY <1>14, <2>1 DEF LeaseIssued, Typed, StateTyped
  <2>4. tick' \in Nat /\ lease_sequence' \in Nat /\ pc' = "idle"
    BY <1>14 DEF LeaseIssued, NextTick, Released, Typed, StateTyped
  <2> QED
    BY <1>14, <2>2, <2>3, <2>4 DEF LeaseIssued, Typed, StateTyped, Inflight
<1>15. CASE \E l \in leases : RevokeLease(l.id)
  <2>1. PICK l \in leases : RevokeLease(l.id)
    BY <1>15
  <2>2. l.id \in Nat /\ RevocationRecord(l.id) \in Record
    BY RecordConstructors DEF Typed, StateTyped, Lease
  <2> QED
    BY <2>1, <2>2 DEF RevokeLease, Start, RevocationRecord, Typed, StateTyped, Inflight
<1>16. CASE LeaseRevoked
  <2>1. inflight \in Record /\ inflight.id \in Nat
    BY <1>16, RecordFields DEF LeaseRevoked, Typed, StateTyped
  <2>2. journal' \in Seq(Record) /\ inflight' = NoRecord /\ stray' = NoRecord
    BY <1>16, <2>1, CommitTyped DEF LeaseRevoked
  <2>3. acked' \subseteq Nat
    BY <1>16, <2>1 DEF LeaseRevoked, Typed, StateTyped
  <2>4. tick' \in Nat /\ pc' = "idle"
    BY <1>16 DEF LeaseRevoked, NextTick, Released, Typed, StateTyped
  <2> QED
    BY <1>16, <2>2, <2>3, <2>4 DEF LeaseRevoked, Typed, StateTyped, Inflight
<1>17. CASE \E l \in leases : RevokeAgain(l.id)
  BY <1>17 DEF RevokeAgain, Typed, StateTyped, Inflight, Lease
<1>18. CASE \E o \in Observation : ReportObservation(o)
  BY <1>18, RecordConstructors
  DEF ReportObservation, Start, ObservationRecord, Typed, StateTyped, Inflight
<1>19. CASE ObservationReported
  <2>1. inflight \in Record /\ inflight.observation \in Observation
    BY <1>19, RecordFields DEF ObservationReported, Typed, StateTyped
  <2>2. journal' \in Seq(Record) /\ inflight' = NoRecord /\ stray' = NoRecord
    BY <1>19, <2>1, CommitTyped DEF ObservationReported
  <2>3. tick' \in Nat /\ pc' = "idle" /\ observations' \subseteq Observation
    BY <1>19, <2>1 DEF ObservationReported, NextTick, Released, Typed, StateTyped
  <2> QED
    BY <1>19, <2>2, <2>3 DEF ObservationReported, Typed, StateTyped, Inflight
<1>20. CASE \E t \in 0..MaxTick : AdvanceTime(t)
  <2>1. PICK t \in 0..MaxTick : AdvanceTime(t)
    BY <1>20
  <2>2. t \in Nat /\ TickRecord(t) \in Record
    BY RecordConstructors, BoundsAssumption
  <2> QED
    BY <2>1, <2>2 DEF AdvanceTime, Start, TickRecord, Typed, StateTyped, Inflight
<1>21. CASE TimeAdvanced
  <2>1. inflight \in Record
    BY <1>21, RecordFields DEF TimeAdvanced, Typed, StateTyped
  <2> QED
    BY <1>21, <2>1, CommitTyped DEF TimeAdvanced, Released, Typed, StateTyped, Inflight
<1>22. CASE AppendFailed
  BY <1>22 DEF AppendFailed, Leftover, Released, Typed, StateTyped, Inflight
<1>23. CASE DecisionFailed
  <2>1. Tail(batch) \in Seq(CoordinatorArtifact)
    BY <1>23 DEF DecisionFailed, Typed, StateTyped, Inflight
  <2> QED
    BY <1>23, <2>1 DEF DecisionFailed, Leftover, Typed, StateTyped, Inflight
<1>24. CASE CreateFailed
  BY <1>24, LostTyped DEF CreateFailed, Leftover
<1>25. CASE Stop
  BY <1>25 DEF Stop, Idle, Typed, StateTyped, Inflight
<1>26. CASE Crash
  BY <1>26, LostTyped DEF Crash, Leftover
<1>27. CASE UNCHANGED vars
  BY <1>27 DEF vars, Typed, StateTyped, Inflight
<1> QED
  BY <1>1, <1>2, <1>3, <1>4, <1>5, <1>6, <1>7, <1>8, <1>9, <1>10, <1>11, <1>12, <1>13, <1>14,
     <1>15, <1>16, <1>17, <1>18, <1>19, <1>20, <1>21, <1>22, <1>23, <1>24, <1>25, <1>26, <1>27
  DEF Next

\* Type correctness: memory, journal and history keep their types through
\* every operation, failed append, crash and recovery, as long as the
\* derivation returns records of the coordinator.
THEOREM TypeCorrect == Spec /\ []DerivationWellFormed => []TypeOK
<1>1. Init => Typed
  BY InitTyped
<1>2. Typed /\ DerivationWellFormed /\ [Next]_vars => Typed'
  BY TypedStep
<1>3. Typed /\ DerivationWellFormed => TypeOK
  BY DEF Typed, TypeOK
<1> QED
  BY <1>1, <1>2, <1>3, PTL DEF Spec
-----------------------------------------------------------------------------
(* The inductive invariant *)

\* Memory is what recovery would rebuild from the journal.
Replayed ==
  /\ pc = "down" => leases = {} /\ DOMAIN artifacts = {}
  /\ pc # "down" => /\ leases = RecoveredLeases(journal)
                    /\ replay = RecoveredReplay(journal)
                    /\ observations = RecoveredObservations(journal)
  /\ pc \notin {"down", "genesis"} => artifacts = RecoveredArtifacts(journal)
  /\ pc = "genesis" => artifacts = RecoveredArtifacts(Append(journal, inflight))

IsLease(r) == r.type = "Lease"

\* A lease's identifier is at most its journal position, so that the number
\* rebuilt from positions is above every identifier handed out.
Numbered ==
  /\ \A i \in DOMAIN journal : IsLease(journal[i]) => journal[i].lease.id <= i
  /\ \A i, k \in DOMAIN journal :
       IsLease(journal[i]) /\ IsLease(journal[k]) /\ journal[i].lease.id = journal[k].lease.id
         => i = k
  /\ IsLease(stray) =>
       /\ stray.lease.id <= Len(journal) + 1
       /\ \A i \in DOMAIN journal : IsLease(journal[i]) => journal[i].lease.id # stray.lease.id
  /\ IsLease(inflight) => inflight.lease.id = lease_sequence
  /\ pc # "down" =>
       /\ lease_sequence <= Len(journal) + 1
       /\ \A i \in DOMAIN journal : IsLease(journal[i]) => journal[i].lease.id < lease_sequence
  /\ \A l \in issued : LeaseRecord(l) \in Elements(journal)

LeaseIn(j, id) == \E i \in DOMAIN j : IsLease(j[i]) /\ j[i].lease.id = id

RevocationsFollow(j) ==
  \A i \in DOMAIN j : j[i].type = "LeaseRevocation" => LeaseIn(j, j[i].id)

\* A revocation on disk, on its way there, or left behind has its lease on disk.
Revocations ==
  /\ RevocationsFollow(journal)
  /\ stray.type = "LeaseRevocation" => LeaseIn(journal, stray.id)
  /\ inflight.type = "LeaseRevocation" => LeaseIn(journal, inflight.id) /\ inflight.id \in revoked
  /\ pc # "down" => RecoveredRevocations(journal) \subseteq revoked

DecidedIn(j, id) == \E i \in DOMAIN j : j[i].type = "RequestDecision" /\ j[i].request = id

\* A request is answered once its decision is on disk, and never again.
Ledger ==
  /\ inflight.type = "RequestDecision" => ~HasReplay(inflight.request)
  /\ \A id \in RequestId :
       /\ granted[id] <= 1
       /\ granted[id] > 0 => DecidedIn(journal, id)

Decides(r) == r.type = "Artifact" /\ r.artifact \in CoordinatorArtifact

UsesEvidence(j, e) ==
  \E i \in DOMAIN j : j[i].type = "Artifact" /\ j[i].artifact.evidence = e

EvidenceOnce(j) ==
  \A i, k \in DOMAIN j :
    /\ Decides(j[i]) /\ j[k].type = "Artifact"
    /\ j[i].artifact.evidence = j[k].artifact.evidence
    => i = k

\* An evidence identifier of the coordinator is used once.
Evidence ==
  /\ EvidenceOnce(journal)
  /\ Decides(stray) => ~UsesEvidence(journal, stray.artifact.evidence)
  /\ Decides(inflight) => ~UsesEvidence(journal, inflight.artifact.evidence)

IncarnationIn(j, n) ==
  \E i \in DOMAIN j : j[i].type = "CoordinatorIncarnation" /\ j[i].value >= n

LeasesSuperseded(j) ==
  \A i \in DOMAIN j : IsLease(j[i]) => IncarnationIn(j, j[i].lease.issuer_incarnation)

\* An incarnation is on disk before it issues a lease.
Incarnations ==
  /\ LeasesSuperseded(journal)
  /\ IsLease(stray) => IncarnationIn(journal, stray.lease.issuer_incarnation)
  /\ IsLease(inflight) => inflight.lease.issuer_incarnation = incarnation
  /\ pc \notin {"down", "boot"} => IncarnationIn(journal, incarnation)
  /\ pc = "boot" => \A l \in leases : l.issuer_incarnation < incarnation

\* The epoch a lease of the running incarnation was issued in has been reached.
Reached ==
  /\ IsLease(inflight) => inflight.lease.issued_epoch \in Epochs
  /\ \A l \in leases : l.issuer_incarnation = incarnation =>
       \E e \in Epochs : e >= l.issued_epoch

IInv ==
  Typed /\ Replayed /\ Numbered /\ Revocations /\ Ledger /\ Evidence /\ Incarnations /\ Reached
-----------------------------------------------------------------------------
(* What appending a record does to what recovery rebuilds *)

LEMMA AppendFacts ==
  ASSUME NEW j \in Seq(Record), NEW r \in Record
  PROVE  /\ Append(j, r) \in Seq(Record)
         /\ Len(Append(j, r)) = Len(j) + 1
         /\ DOMAIN j = 1..Len(j) /\ Len(j) \in Nat
         /\ DOMAIN Append(j, r) = DOMAIN j \cup {Len(j) + 1}
         /\ Len(j) + 1 \notin DOMAIN j
         /\ \A i \in DOMAIN j : Append(j, r)[i] = j[i] /\ i < Len(j) + 1
         /\ Append(j, r)[Len(j) + 1] = r
         /\ \A i \in DOMAIN j : j[i] \in Record
  OBVIOUS

LEMMA AppendElements ==
  ASSUME NEW j \in Seq(Record), NEW r \in Record
  PROVE  /\ Elements(Append(j, r)) = Elements(j) \cup {r}
         /\ \A t : r.type # t => OfType(Append(j, r), t) = OfType(j, t)
         /\ \A t : r.type = t => OfType(Append(j, r), t) = OfType(j, t) \cup {r}
<1>1. Elements(Append(j, r)) = Elements(j) \cup {r}
  BY AppendFacts DEF Elements
<1> QED
  BY <1>1 DEF OfType

LEMMA LeasesAppend ==
  ASSUME NEW j \in Seq(Record), NEW r \in Record
  PROVE  /\ r.type # "Lease" => RecoveredLeases(Append(j, r)) = RecoveredLeases(j)
         /\ r.type = "Lease" => RecoveredLeases(Append(j, r)) =
              {l \in RecoveredLeases(j) : l.id # r.lease.id} \cup {r.lease}
<1> DEFINE a == Append(j, r)
           n == Len(j) + 1
           Newest(s, k) == /\ s[k].type = "Lease"
                           /\ \A m \in DOMAIN s :
                                m > k /\ s[m].type = "Lease" => s[m].lease.id # s[k].lease.id
<1>1. /\ DOMAIN a = DOMAIN j \cup {n} /\ n \notin DOMAIN j /\ a[n] = r
      /\ \A i \in DOMAIN j : a[i] = j[i] /\ i < n /\ i \in Nat
      /\ n \in Nat
  BY AppendFacts
<1>2. \A s : RecoveredLeases(s) = {s[i].lease : i \in {k \in DOMAIN s : Newest(s, k)}}
  BY DEF RecoveredLeases
<1> HIDE DEF a, n
<1>3. \A k \in DOMAIN j : Newest(a, k) <=>
        Newest(j, k) /\ (r.type = "Lease" => r.lease.id # j[k].lease.id)
  BY <1>1
<1>4. Newest(a, n) <=> r.type = "Lease"
  BY <1>1
<1> HIDE DEF Newest
<1>5. ASSUME r.type # "Lease" PROVE RecoveredLeases(a) = RecoveredLeases(j)
  <2>1. {k \in DOMAIN a : Newest(a, k)} = {k \in DOMAIN j : Newest(j, k)}
    BY <1>1, <1>3, <1>4, <1>5
  <2> QED
    BY <1>1, <1>2, <2>1
<1>6. ASSUME r.type = "Lease"
      PROVE RecoveredLeases(a) = {l \in RecoveredLeases(j) : l.id # r.lease.id} \cup {r.lease}
  <2>1. {k \in DOMAIN a : Newest(a, k)} =
          {k \in DOMAIN j : Newest(j, k) /\ r.lease.id # j[k].lease.id} \cup {n}
    BY <1>1, <1>3, <1>4, <1>6
  <2> QED
    BY <1>1, <1>2, <2>1
<1> QED
  BY <1>5, <1>6 DEF a

LEMMA ObservationsAppend ==
  ASSUME NEW j \in Seq(Record), NEW r \in Record
  PROVE  /\ r.type # "PartitionObservation" =>
              RecoveredObservations(Append(j, r)) = RecoveredObservations(j)
         /\ r.type = "PartitionObservation" => RecoveredObservations(Append(j, r)) =
              {o \in RecoveredObservations(j) : o.observer # r.observation.observer}
                \cup {r.observation}
<1> DEFINE a == Append(j, r)
           n == Len(j) + 1
           Newest(s, k) == /\ s[k].type = "PartitionObservation"
                           /\ \A m \in DOMAIN s :
                                m > k /\ s[m].type = "PartitionObservation"
                                   => s[m].observation.observer # s[k].observation.observer
<1>1. /\ DOMAIN a = DOMAIN j \cup {n} /\ n \notin DOMAIN j /\ a[n] = r
      /\ \A i \in DOMAIN j : a[i] = j[i] /\ i < n /\ i \in Nat
      /\ n \in Nat
  BY AppendFacts
<1>2. \A s : RecoveredObservations(s) = {s[i].observation : i \in {k \in DOMAIN s : Newest(s, k)}}
  BY DEF RecoveredObservations
<1> HIDE DEF a, n
<1>3. \A k \in DOMAIN j : Newest(a, k) <=>
        /\ Newest(j, k)
        /\ r.type = "PartitionObservation" => r.observation.observer # j[k].observation.observer
  BY <1>1
<1>4. Newest(a, n) <=> r.type = "PartitionObservation"
  BY <1>1
<1> HIDE DEF Newest
<1>5. ASSUME r.type # "PartitionObservation"
      PROVE RecoveredObservations(a) = RecoveredObservations(j)
  <2>1. {k \in DOMAIN a : Newest(a, k)} = {k \in DOMAIN j : Newest(j, k)}
    BY <1>1, <1>3, <1>4, <1>5
  <2> QED
    BY <1>1, <1>2, <2>1
<1>6. ASSUME r.type = "PartitionObservation"
      PROVE RecoveredObservations(a) =
              {o \in RecoveredObservations(j) : o.observer # r.observation.observer}
                \cup {r.observation}
  <2>1. {k \in DOMAIN a : Newest(a, k)} =
          {k \in DOMAIN j : Newest(j, k) /\ r.observation.observer # j[k].observation.observer}
            \cup {n}
    BY <1>1, <1>3, <1>4, <1>6
  <2> QED
    BY <1>1, <1>2, <2>1
<1> QED
  BY <1>5, <1>6 DEF a

LEMMA ReplayAppend ==
  ASSUME NEW j \in Seq(Record), NEW r \in Record
  PROVE  /\ r.type # "RequestDecision" => RecoveredReplay(Append(j, r)) = RecoveredReplay(j)
         /\ r.type = "RequestDecision" => RecoveredReplay(Append(j, r)) =
              RecoveredReplay(j) \cup {[request |-> r.request, decided_at |-> r.decided_at]}
<1>1. r.type # "RequestDecision" =>
        OfType(Append(j, r), "RequestDecision") = OfType(j, "RequestDecision")
  BY AppendElements
<1>2. r.type = "RequestDecision" =>
        OfType(Append(j, r), "RequestDecision") = OfType(j, "RequestDecision") \cup {r}
  BY AppendElements
<1> QED
  BY <1>1, <1>2 DEF RecoveredReplay

LEMMA RevocationsAppend ==
  ASSUME NEW j \in Seq(Record), NEW r \in Record
  PROVE  /\ r.type # "LeaseRevocation" =>
              RecoveredRevocations(Append(j, r)) = RecoveredRevocations(j)
         /\ r.type = "LeaseRevocation" =>
              RecoveredRevocations(Append(j, r)) = RecoveredRevocations(j) \cup {r.id}
<1>1. r.type # "LeaseRevocation" =>
        OfType(Append(j, r), "LeaseRevocation") = OfType(j, "LeaseRevocation")
  BY AppendElements
<1>2. r.type = "LeaseRevocation" =>
        OfType(Append(j, r), "LeaseRevocation") = OfType(j, "LeaseRevocation") \cup {r}
  BY AppendElements
<1> QED
  BY <1>1, <1>2 DEF RecoveredRevocations

LEMMA ArtifactsAppend ==
  ASSUME NEW j \in Seq(Record), NEW r \in Record
  PROVE  /\ r.type # "Artifact" => RecoveredArtifacts(Append(j, r)) = RecoveredArtifacts(j)
         /\ r.type = "Artifact" => RecoveredArtifacts(Append(j, r)) =
              [i \in DOMAIN RecoveredArtifacts(j) \cup {Len(j) + 1} |->
                 IF i = Len(j) + 1 THEN r.artifact ELSE RecoveredArtifacts(j)[i]]
<1>1. ASSUME r.type # "Artifact"
      PROVE  RecoveredArtifacts(Append(j, r)) = RecoveredArtifacts(j)
  <2>1. {k \in DOMAIN Append(j, r) : Append(j, r)[k].type = "Artifact"} =
          {k \in DOMAIN j : j[k].type = "Artifact"}
    BY <1>1, AppendFacts
  <2> QED
    BY <2>1, AppendFacts DEF RecoveredArtifacts
<1>2. ASSUME r.type = "Artifact"
      PROVE  RecoveredArtifacts(Append(j, r)) =
               [i \in DOMAIN RecoveredArtifacts(j) \cup {Len(j) + 1} |->
                  IF i = Len(j) + 1 THEN r.artifact ELSE RecoveredArtifacts(j)[i]]
  <2>1. {k \in DOMAIN Append(j, r) : Append(j, r)[k].type = "Artifact"} =
          {k \in DOMAIN j : j[k].type = "Artifact"} \cup {Len(j) + 1}
    BY <1>2, AppendFacts
  <2>2. DOMAIN RecoveredArtifacts(j) = {k \in DOMAIN j : j[k].type = "Artifact"}
    BY DEF RecoveredArtifacts
  <2> QED
    BY <2>1, <2>2, AppendFacts DEF RecoveredArtifacts
<1> QED
  BY <1>1, <1>2
-----------------------------------------------------------------------------
(* The shapes of a step.  Every action of a running coordinator appends the   *)
(* record in flight, or puts one in flight, or fails to append it.            *)

Running == pc \notin {"down", "boot", "genesis"}

\* What may be put in flight, and what is known of it then.
Proposed(r) ==
  \/ r = NoRecord
  \/ \E a \in MemberArtifact : r = ArtifactRecord(a)
  \/ \E a \in CoordinatorArtifact : r = ArtifactRecord(a) /\ ~HasEvidence(a.evidence)
  \/ /\ IsLease(r) /\ r \in Record
     /\ r.lease.id = lease_sequence /\ r.lease.issuer_incarnation = incarnation
     /\ r.lease.issued_epoch \in Epochs
  \/ \E l \in leases : r = RevocationRecord(l.id) /\ l.id \in revoked'
  \/ r.type = "RequestDecision" /\ ~HasReplay(r.request)
  \/ r.type \in {"PartitionObservation", "TickHighWater"}

Waits ==
  /\ Running /\ Running'
  /\ Proposed(inflight') \/ inflight' = inflight
  /\ ClockHasRoom => tick' >= tick
  /\ revoked \subseteq revoked'
  /\ UNCHANGED <<journal, stray, artifacts, leases, observations, replay, incarnation,
                 lease_sequence, issued, granted>>

Fails ==
  /\ Running /\ Running'
  /\ inflight' = NoRecord /\ stray' \in {stray, inflight, NoRecord}
  /\ UNCHANGED <<journal, memory, history>>

Lost ==
  /\ pc # "down"
  /\ MemoryLost /\ stray' \in {stray, inflight, NoRecord}
  /\ UNCHANGED <<journal, history>>

Extends ==
  /\ pc # "down" /\ pc' \notin {"down", "boot"}
  /\ inflight \in Record
  /\ journal' = Append(journal, inflight) /\ stray' = NoRecord
  /\ pc' # "genesis" => inflight' = NoRecord
  /\ pc' = "genesis" => pc = "boot" /\ ~HasEvidence(inflight'.artifact.evidence)
  /\ IF IsLease(inflight)
     THEN /\ Running
          /\ lease_sequence' = lease_sequence + 1
          /\ revoked' = revoked \ {inflight.lease.id}
          /\ issued' = issued \cup {inflight.lease}
     ELSE UNCHANGED <<lease_sequence, revoked, issued>>
  /\ IF inflight.type = "RequestDecision"
     THEN granted' \in {granted, [granted EXCEPT ![inflight.request] = @ + 1]}
     ELSE UNCHANGED granted
  /\ incarnation' = incarnation
  /\ ClockHasRoom => tick' >= tick

\* The record in flight reached the disk.
Commits ==
  \/ EnsureGenesis \/ GenesisRecorded \/ DecisionRecorded \/ Submitted \/ CommandRecorded
  \/ Evaluated \/ LeaseIssued \/ LeaseRevoked \/ ObservationReported \/ TimeAdvanced

LEMMA CommitExtends ==
  ASSUME Typed, DerivationWellFormed, Commits
  PROVE  Extends
<1> USE DEF memory, loop, history, ClockHasRoom
<1>0. tick \in Nat /\ tick + 1 >= tick /\ tick >= tick
  BY DEF Typed, StateTyped
<1>1. CASE EnsureGenesis
  <2>1. inflight = IncarnationRecord(incarnation) /\ inflight \in Record
    BY <1>1, RecordConstructors DEF EnsureGenesis, Typed, StateTyped, Inflight
  <2>2. ~IsLease(inflight) /\ inflight.type # "RequestDecision"
    BY <2>1 DEF IncarnationRecord, IsLease
  <2>3. \/ pc' = "decide" /\ inflight' = NoRecord
        \/ pc' = "genesis" /\ ~HasEvidence(inflight'.artifact.evidence)
    BY <1>1 DEF EnsureGenesis, Start, ArtifactRecord, HasEvidence, DerivationWellFormed
  <2> QED
    BY <1>0, <1>1, <2>1, <2>2, <2>3 DEF EnsureGenesis, Extends
<1>2. CASE GenesisRecorded
  <2>1. inflight \in Record /\ inflight.type = "Artifact"
    BY <1>2, RecordConstructors
    DEF GenesisRecorded, Typed, Inflight, ArtifactRecord, CoordinatorArtifact
  <2> QED
    BY <1>0, <1>2, <2>1 DEF GenesisRecorded, Commit, Extends, IsLease
<1>3. CASE DecisionRecorded
  <2>1. inflight \in Record /\ inflight.type = "Artifact"
    <3>1. batch # <<>> /\ inflight = ArtifactRecord(Head(batch)) /\ Head(batch) \in Artifact
      BY <1>3 DEF DecisionRecorded, Typed, StateTyped, Inflight, CoordinatorArtifact
    <3> QED
      BY <3>1, RecordConstructors DEF ArtifactRecord
  <2> QED
    BY <1>0, <1>3, <2>1 DEF DecisionRecorded, Commit, Extends, IsLease
<1>4. CASE Submitted
  <2>1. inflight \in Record /\ inflight.type = "Artifact"
    BY <1>4, MemberAssumption, RecordConstructors DEF Submitted, Typed, Inflight, ArtifactRecord
  <2> QED
    BY <1>0, <1>4, <2>1 DEF Submitted, Commit, Extends, IsLease
<1>5. CASE CommandRecorded
  <2>1. inflight \in Record /\ inflight.type = "Artifact"
    BY <1>5, RecordConstructors
    DEF CommandRecorded, Typed, Inflight, ArtifactRecord, CoordinatorArtifact
  <2> QED
    BY <1>0, <1>5, <2>1 DEF CommandRecorded, Commit, NextTick, Released, Extends, IsLease
<1>6. CASE Evaluated
  <2>1. inflight \in Record
    BY <1>6, RecordFields DEF Evaluated, Typed, StateTyped
  <2> QED
    BY <1>0, <1>6, <2>1 DEF Evaluated, Commit, NextTick, Released, Extends, IsLease
<1>7. CASE LeaseIssued
  <2>1. inflight \in Record
    BY <1>7, RecordFields DEF LeaseIssued, Typed, StateTyped
  <2> QED
    BY <1>0, <1>7, <2>1 DEF LeaseIssued, Commit, NextTick, Released, Extends, IsLease, Running
<1>8. CASE LeaseRevoked
  <2>1. inflight \in Record
    BY <1>8, RecordFields DEF LeaseRevoked, Typed, StateTyped
  <2> QED
    BY <1>0, <1>8, <2>1 DEF LeaseRevoked, Commit, NextTick, Released, Extends, IsLease
<1>9. CASE ObservationReported
  <2>1. inflight \in Record
    BY <1>9, RecordFields DEF ObservationReported, Typed, StateTyped
  <2> QED
    BY <1>0, <1>9, <2>1 DEF ObservationReported, Commit, NextTick, Released, Extends, IsLease
<1>10. CASE TimeAdvanced
  <2>1. inflight \in Record
    BY <1>10, RecordFields DEF TimeAdvanced, Typed, StateTyped
  <2> QED
    BY <1>0, <1>10, <2>1 DEF TimeAdvanced, Commit, Released, Extends, IsLease
<1> QED
  BY <1>1, <1>2, <1>3, <1>4, <1>5, <1>6, <1>7, <1>8, <1>9, <1>10 DEF Commits

LEMMA StepCases ==
  ASSUME Typed, DerivationWellFormed, [Next]_vars
  PROVE  LoadJournal \/ Commits \/ Waits \/ Fails \/ Lost \/ UNCHANGED vars
<1> USE DEF memory, loop, history, ClockHasRoom
<1>0. tick \in Nat /\ tick + 1 >= tick /\ tick >= tick
  BY DEF Typed, StateTyped
<1>1. CASE DecidePass
  BY <1>0, <1>1 DEF DecidePass, Released, Waits, Running, Proposed
<1>2. CASE RecordDecision
  <2>1. Head(batch) \in CoordinatorArtifact
    BY <1>2 DEF RecordDecision, Typed, StateTyped
  <2>2. Proposed(inflight')
    BY <1>2, <2>1 DEF RecordDecision, Proposed
  <2> QED
    BY <1>0, <1>2, <2>2 DEF RecordDecision, Waits, Running
<1>3. CASE \E a \in MemberArtifact : Submit(a)
  <2>1. PICK a \in MemberArtifact : Submit(a)
    BY <1>3
  <2>2. Proposed(inflight')
    BY <2>1 DEF Submit, Start, Proposed
  <2> QED
    BY <1>0, <2>1, <2>2 DEF Submit, Idle, Start, Waits, Running
<1>4. CASE \E a \in Commands(View) : Command(a)
  <2>1. PICK a \in Commands(View) : Command(a)
    BY <1>4
  <2>2. a \in CoordinatorArtifact
    BY DEF DerivationWellFormed
  <2>3. Proposed(inflight')
    BY <2>1, <2>2 DEF Command, Ready, Idle, Start, Proposed, Typed, Inflight
  <2> QED
    BY <1>0, <2>1, <2>3 DEF Command, Ready, Idle, NextTick, Start, Waits, Running
<1>5. CASE \E r \in AuthorityRequest : Evaluate(r)
  <2>1. PICK r \in AuthorityRequest : Evaluate(r)
    BY <1>5
  <2>2. Proposed(inflight')
    BY <2>1 DEF Evaluate, Ready, Idle, Start, DecisionRecord, Proposed, Typed, Inflight
  <2> QED
    BY <1>0, <2>1, <2>2 DEF Evaluate, Ready, Idle, NextTick, Start, Waits, Running
<1>6. CASE \E r \in LeaseRequest : IssueLease(r)
  <2>1. PICK r \in LeaseRequest : IssueLease(r)
    BY <1>6
  <2>2. inflight' \in Record
    <3>1. Typed'
      BY TypedStep
    <3>2. IsLease(inflight')
      BY <2>1 DEF IssueLease, Start, LeaseRecord, IsLease
    <3> QED
      BY <3>1, <3>2 DEF Typed, StateTyped, IsLease, NoRecord
  <2>3. Proposed(inflight')
    BY <2>1, <2>2 DEF IssueLease, Start, LeaseRecord, IsLease, Proposed
  <2> QED
    BY <1>0, <2>1, <2>3 DEF IssueLease, Ready, Idle, Start, Waits, Running
<1>7. CASE \E l \in leases : RevokeLease(l.id)
  <2>1. PICK l \in leases : RevokeLease(l.id)
    BY <1>7
  <2>2. Proposed(inflight')
    BY <2>1 DEF RevokeLease, Start, Proposed
  <2> QED
    BY <1>0, <2>1, <2>2 DEF RevokeLease, Ready, Idle, Start, Waits, Running
<1>8. CASE \E l \in leases : RevokeAgain(l.id)
  BY <1>0, <1>8 DEF RevokeAgain, Idle, Waits, Running
<1>9. CASE \E o \in Observation : ReportObservation(o)
  <2>1. PICK o \in Observation : ReportObservation(o)
    BY <1>9
  <2>2. Proposed(inflight')
    BY <2>1 DEF ReportObservation, Start, ObservationRecord, Proposed
  <2> QED
    BY <1>0, <2>1, <2>2 DEF ReportObservation, Ready, Idle, Start, Waits, Running
<1>10. CASE \E t \in 0..MaxTick : AdvanceTime(t)
  <2>1. PICK t \in 0..MaxTick : AdvanceTime(t)
    BY <1>10
  <2>2. Proposed(inflight')
    BY <2>1 DEF AdvanceTime, Start, TickRecord, Proposed
  <2>3. tick' >= tick
    BY <1>0, <2>1, BoundsAssumption DEF AdvanceTime
  <2> QED
    BY <2>1, <2>2, <2>3 DEF AdvanceTime, Idle, Start, Waits, Running
<1>11. CASE AppendFailed
  BY <1>11 DEF AppendFailed, Leftover, Released, Fails, Running
<1>12. CASE DecisionFailed
  BY <1>12 DEF DecisionFailed, Leftover, Fails, Running
<1>13. CASE CreateFailed
  BY <1>13 DEF CreateFailed, Leftover, Lost
<1>14. CASE Stop
  BY <1>0, <1>14 DEF Stop, Idle, Waits, Running
<1>15. CASE Crash
  BY <1>15 DEF Crash, Leftover, Lost
<1> QED
  BY <1>1, <1>2, <1>3, <1>4, <1>5, <1>6, <1>7, <1>8, <1>9, <1>10, <1>11, <1>12, <1>13,
     <1>14, <1>15
  DEF Next, Commits

LEMMA StepShape ==
  ASSUME Typed, DerivationWellFormed, [Next]_vars
  PROVE  LoadJournal \/ Extends \/ Waits \/ Fails \/ Lost \/ UNCHANGED vars
  BY StepCases, CommitExtends

-----------------------------------------------------------------------------
(* Memory is a replay of the journal *)

\* What a commit does to memory is what appending the record does to recovery.
LEMMA ReplayedCommit ==
  ASSUME Typed, Replayed, inflight \in Record, journal' = Append(journal, inflight),
         pc # "down", pc' \notin {"down", "genesis"},
         leases' = IF inflight.type = "Lease"
                   THEN {l \in leases : l.id # inflight.lease.id} \cup {inflight.lease} ELSE leases,
         replay' = IF inflight.type = "RequestDecision"
                   THEN replay \cup {[request |-> inflight.request,
                                      decided_at |-> inflight.decided_at]}
                   ELSE replay,
         observations' = IF inflight.type = "PartitionObservation"
                         THEN {o \in observations : o.observer # inflight.observation.observer}
                                \cup {inflight.observation}
                         ELSE observations,
         \/ pc = "genesis" /\ UNCHANGED artifacts
         \/ pc # "genesis" /\ inflight.type # "Artifact" /\ UNCHANGED artifacts
         \/ pc # "genesis" /\ inflight.type = "Artifact" /\ Push(inflight.artifact)
  PROVE  Replayed'
<1>1. journal \in Seq(Record)
  BY DEF Typed, StateTyped
<1>2. leases' = RecoveredLeases(journal')
  BY <1>1, LeasesAppend DEF Replayed
<1>3. replay' = RecoveredReplay(journal')
  BY <1>1, ReplayAppend DEF Replayed
<1>4. observations' = RecoveredObservations(journal')
  BY <1>1, ObservationsAppend DEF Replayed
<1>5. artifacts' = RecoveredArtifacts(journal')
  <2>1. inflight.type # "Artifact" => RecoveredArtifacts(journal') = RecoveredArtifacts(journal)
    BY <1>1, ArtifactsAppend
  <2>2. inflight.type = "Artifact" => RecoveredArtifacts(journal') =
          [i \in DOMAIN RecoveredArtifacts(journal) \cup {Len(journal) + 1} |->
             IF i = Len(journal) + 1 THEN inflight.artifact ELSE RecoveredArtifacts(journal)[i]]
    BY <1>1, ArtifactsAppend
  <2>3. CASE pc = "genesis" /\ UNCHANGED artifacts
    BY <2>3 DEF Replayed
  <2>4. CASE pc # "genesis" /\ inflight.type # "Artifact" /\ UNCHANGED artifacts
    BY <2>1, <2>4 DEF Replayed
  <2>5. CASE pc # "genesis" /\ inflight.type = "Artifact" /\ Push(inflight.artifact)
    <3>1. artifacts = RecoveredArtifacts(journal)
      BY <2>5 DEF Replayed
    <3> QED
      BY <2>2, <2>5, <3>1 DEF Push
  <2> QED
    BY <2>3, <2>4, <2>5
<1> QED
  BY <1>2, <1>3, <1>4, <1>5 DEF Replayed

LEMMA ReplayedStep ==
  ASSUME Typed, DerivationWellFormed, Replayed, [Next]_vars
  PROVE  Replayed'
<1> USE DEF memory, loop, history
<1>0. journal \in Seq(Record)
  BY DEF Typed, StateTyped
<1>1. CASE LoadJournal
  BY <1>1 DEF LoadJournal, Start, Replayed
<1>2. CASE EnsureGenesis
  <2>1. inflight = IncarnationRecord(incarnation) /\ inflight \in Record
    BY <1>2, RecordConstructors DEF EnsureGenesis, Typed, StateTyped, Inflight
  <2>2. inflight.type = "CoordinatorIncarnation"
    BY <2>1 DEF IncarnationRecord
  <2>3. /\ leases' = RecoveredLeases(journal') /\ replay' = RecoveredReplay(journal')
        /\ observations' = RecoveredObservations(journal')
        /\ artifacts = RecoveredArtifacts(journal')
        /\ journal' \in Seq(Record) /\ Len(journal') + 1 = Len(journal) + 2
    <3>1. journal' = Append(journal, inflight) /\ UNCHANGED <<leases, replay, observations>>
      BY <1>2 DEF EnsureGenesis
    <3>2. /\ leases = RecoveredLeases(journal) /\ replay = RecoveredReplay(journal)
          /\ observations = RecoveredObservations(journal)
          /\ artifacts = RecoveredArtifacts(journal)
      BY <1>2 DEF EnsureGenesis, Replayed
    <3>3. RecoveredLeases(journal') = RecoveredLeases(journal)
      BY <1>0, <2>1, <2>2, <3>1, LeasesAppend
    <3>4. RecoveredReplay(journal') = RecoveredReplay(journal)
      BY <1>0, <2>1, <2>2, <3>1, ReplayAppend
    <3>5. RecoveredObservations(journal') = RecoveredObservations(journal)
      BY <1>0, <2>1, <2>2, <3>1, ObservationsAppend
    <3>6. RecoveredArtifacts(journal') = RecoveredArtifacts(journal)
      BY <1>0, <2>1, <2>2, <3>1, ArtifactsAppend
    <3>7. journal' \in Seq(Record) /\ Len(journal') + 1 = Len(journal) + 2
      BY <1>0, <2>1, <3>1
    <3> QED
      BY <3>1, <3>2, <3>3, <3>4, <3>5, <3>6, <3>7
  <2>4. CASE pc' = "decide" /\ UNCHANGED artifacts
    BY <2>3, <2>4 DEF Replayed
  <2>5. CASE pc' = "genesis"
    <3> DEFINE genesis == GenesisArtifact(tick)
    <3>1. /\ artifacts' = [i \in DOMAIN artifacts \cup {Len(journal) + 2} |->
                             IF i = Len(journal) + 2 THEN genesis ELSE artifacts[i]]
          /\ inflight' = ArtifactRecord(genesis)
      BY <1>2, <2>5 DEF EnsureGenesis, Start
    <3>2. inflight' \in Record /\ inflight'.type = "Artifact" /\ inflight'.artifact = genesis
      BY <3>1, RecordConstructors DEF DerivationWellFormed, CoordinatorArtifact, ArtifactRecord
    <3>3. RecoveredArtifacts(Append(journal', inflight')) =
            [i \in DOMAIN RecoveredArtifacts(journal') \cup {Len(journal') + 1} |->
               IF i = Len(journal') + 1 THEN inflight'.artifact
               ELSE RecoveredArtifacts(journal')[i]]
      BY <2>3, <3>2, ArtifactsAppend
    <3>4. artifacts' = RecoveredArtifacts(Append(journal', inflight'))
      BY <2>3, <3>1, <3>2, <3>3
    <3> QED
      BY <2>3, <2>5, <3>4 DEF Replayed
  <2> QED
    BY <1>2, <2>4, <2>5 DEF EnsureGenesis, Start
<1>3. CASE GenesisRecorded
  <2>1. inflight \in Record /\ inflight.type = "Artifact"
    BY <1>3, RecordConstructors
    DEF GenesisRecorded, Typed, Inflight, ArtifactRecord, CoordinatorArtifact
  <2> QED
    BY <1>3, <2>1, ReplayedCommit DEF GenesisRecorded, Commit
<1>4. CASE DecisionRecorded
  <2>1. inflight \in Record /\ inflight.type = "Artifact"
    <3>1. batch # <<>> /\ inflight = ArtifactRecord(Head(batch)) /\ Head(batch) \in Artifact
      BY <1>4 DEF DecisionRecorded, Typed, StateTyped, Inflight, CoordinatorArtifact
    <3> QED
      BY <3>1, RecordConstructors DEF ArtifactRecord
  <2> QED
    BY <1>4, <2>1, ReplayedCommit DEF DecisionRecorded, Commit
<1>5. CASE Submitted
  <2>1. inflight \in Record /\ inflight.type = "Artifact"
    BY <1>5, MemberAssumption, RecordConstructors DEF Submitted, Typed, Inflight, ArtifactRecord
  <2> QED
    BY <1>5, <2>1, ReplayedCommit DEF Submitted, Commit
<1>6. CASE CommandRecorded
  <2>1. inflight \in Record /\ inflight.type = "Artifact"
    BY <1>6, RecordConstructors
    DEF CommandRecorded, Typed, Inflight, ArtifactRecord, CoordinatorArtifact
  <2> QED
    BY <1>6, <2>1, ReplayedCommit DEF CommandRecorded, Commit, Released
<1>7. CASE Evaluated
  <2>1. inflight \in Record
    BY <1>7, RecordFields DEF Evaluated, Typed, StateTyped
  <2> QED
    BY <1>7, <2>1, ReplayedCommit DEF Evaluated, Commit, Released
<1>8. CASE LeaseIssued
  <2>1. inflight \in Record
    BY <1>8, RecordFields DEF LeaseIssued, Typed, StateTyped
  <2> QED
    BY <1>8, <2>1, ReplayedCommit DEF LeaseIssued, Commit, Released
<1>9. CASE LeaseRevoked
  <2>1. inflight \in Record
    BY <1>9, RecordFields DEF LeaseRevoked, Typed, StateTyped
  <2> QED
    BY <1>9, <2>1, ReplayedCommit DEF LeaseRevoked, Commit, Released
<1>10. CASE ObservationReported
  <2>1. inflight \in Record
    BY <1>10, RecordFields DEF ObservationReported, Typed, StateTyped
  <2> QED
    BY <1>10, <2>1, ReplayedCommit DEF ObservationReported, Commit, Released
<1>11. CASE TimeAdvanced
  <2>1. inflight \in Record
    BY <1>11, RecordFields DEF TimeAdvanced, Typed, StateTyped
  <2> QED
    BY <1>11, <2>1, ReplayedCommit DEF TimeAdvanced, Commit, Released
<1>12. CASE Waits
  BY <1>12 DEF Waits, Running, Replayed
<1>13. CASE Fails
  BY <1>13 DEF Fails, Running, Replayed
<1>14. CASE Lost
  BY <1>14 DEF Lost, MemoryLost, Replayed
<1>15. CASE UNCHANGED vars
  BY <1>15 DEF vars, Replayed
<1> QED
  <2>1. LoadJournal \/ Commits \/ Waits \/ Fails \/ Lost \/ UNCHANGED vars
    BY StepCases
  <2> QED
    BY <2>1, <1>1, <1>2, <1>3, <1>4, <1>5, <1>6, <1>7, <1>8, <1>9, <1>10, <1>11, <1>12, <1>13,
       <1>14, <1>15 DEF Commits
-----------------------------------------------------------------------------
(* Lease identifiers *)

\* What recovery leaves in memory, in terms of the journal it adopts.
LEMMA Loaded ==
  ASSUME Typed, LoadJournal
  PROVE  /\ journal \in Seq(Record) /\ journal' \in Seq(Record)
         /\ journal' = journal \/ (stray \in Record /\ journal' = Append(journal, stray))
         /\ stray' = NoRecord /\ pc' = "boot" /\ UNCHANGED history
         /\ inflight' = IncarnationRecord(incarnation')
         /\ leases' = RecoveredLeases(journal') /\ revoked' = RecoveredRevocations(journal')
         /\ \A n \in PersistedIncarnations(journal') : n < incarnation'
         /\ \A i \in LeaseSequences(journal') : i < lease_sequence'
         /\ lease_sequence' <= Len(journal') + 1
<1>1. PICK j \in {journal} \cup (IF stray = NoRecord THEN {} ELSE {Append(journal, stray)}) :
        /\ \E n \in PersistedIncarnations(j), s \in LeaseSequences(j) :
             /\ IsGreatest(n, PersistedIncarnations(j)) /\ incarnation' = n + 1
             /\ IsGreatest(s, LeaseSequences(j)) /\ lease_sequence' = s + 1
             /\ Start("boot", IncarnationRecord(n + 1))
        /\ journal' = j
        /\ leases' = RecoveredLeases(j) /\ revoked' = RecoveredRevocations(j)
  BY DEF LoadJournal
<1>2. PICK n \in PersistedIncarnations(j), s \in LeaseSequences(j) :
        /\ IsGreatest(n, PersistedIncarnations(j)) /\ incarnation' = n + 1
        /\ IsGreatest(s, LeaseSequences(j)) /\ lease_sequence' = s + 1
        /\ Start("boot", IncarnationRecord(n + 1))
  BY <1>1
<1>3. journal \in Seq(Record) /\ stray \in Record \cup {NoRecord}
  BY DEF Typed, StateTyped
<1>4. j = journal \/ (stray \in Record /\ j = Append(journal, stray))
  BY <1>1, <1>3
<1>5. j \in Seq(Record)
  BY <1>3, <1>4
<1>6. PersistedIncarnations(j) \subseteq Nat /\ LeaseSequences(j) \subseteq Nat
  BY <1>5, RecoveredTyped
<1>7. \A m \in PersistedIncarnations(j) : m < incarnation'
  BY <1>2, <1>6 DEF IsGreatest
<1>8. \A i \in LeaseSequences(j) : i < lease_sequence'
  BY <1>2, <1>6 DEF IsGreatest
<1>9. lease_sequence' <= Len(j) + 1
  BY <1>2, <1>5 DEF LeaseSequences
<1> QED
  BY <1>1, <1>2, <1>3, <1>4, <1>5, <1>7, <1>8, <1>9 DEF LoadJournal, Start, history

LEMMA NotLease ==
  /\ ~IsLease(NoRecord)
  /\ \A n : ~IsLease(IncarnationRecord(n))
  /\ \A a : ~IsLease(ArtifactRecord(a))
  /\ \A n : ~IsLease(RevocationRecord(n))
  BY DEF IsLease, NoRecord, IncarnationRecord, ArtifactRecord, RevocationRecord

LEMMA NumberedStep ==
  ASSUME Typed, DerivationWellFormed, Numbered, [Next]_vars
  PROVE  Numbered'
<1>0. /\ Typed' /\ journal \in Seq(Record) /\ DOMAIN journal = 1..Len(journal)
      /\ lease_sequence \in Nat /\ Len(journal) \in Nat
      /\ \A i \in DOMAIN journal : journal[i] \in Record
      /\ \A r \in Record : IsLease(r) => r.lease.id \in Nat
  <2>1. Typed'
    BY TypedStep
  <2>2. journal \in Seq(Record) /\ lease_sequence \in Nat
    BY DEF Typed, StateTyped
  <2>3. \A r \in Record : IsLease(r) => r.lease.id \in Nat
    BY RecordFields DEF IsLease, Lease
  <2> QED
    BY <2>1, <2>2, <2>3
<1>1. CASE LoadJournal
  <2>1. \A i \in DOMAIN journal' : IsLease(journal'[i]) => journal'[i].lease.id <= i
    BY <1>0, <1>1, Loaded, AppendFacts DEF Numbered
  <2>2. \A i, k \in DOMAIN journal' :
          IsLease(journal'[i]) /\ IsLease(journal'[k]) /\ journal'[i].lease.id = journal'[k].lease.id
            => i = k
    BY <1>0, <1>1, Loaded, AppendFacts DEF Numbered
  <2>3. \A i \in DOMAIN journal' : IsLease(journal'[i]) => i \in LeaseSequences(journal')
    BY DEF LeaseSequences, IsLease
  <2>4. \A i \in DOMAIN journal' : IsLease(journal'[i]) => journal'[i].lease.id < lease_sequence'
    <3> SUFFICES ASSUME NEW i \in DOMAIN journal', IsLease(journal'[i])
                 PROVE  journal'[i].lease.id < lease_sequence'
      OBVIOUS
    <3>1. journal'[i].lease.id <= i /\ i < lease_sequence'
      BY <1>1, <2>1, <2>3, Loaded
    <3>2. journal'[i] \in Record /\ i \in Nat /\ lease_sequence' \in Nat
      BY <1>0 DEF Typed, StateTyped
    <3> QED
      BY <1>0, <3>1, <3>2
  <2>5. \A l \in issued' : LeaseRecord(l) \in Elements(journal')
    <3>1. issued' = issued /\ (journal' = journal
             \/ (stray \in Record /\ journal' = Append(journal, stray)))
      BY <1>1, Loaded DEF history
    <3>2. Elements(journal) \subseteq Elements(journal')
      <4>1. CASE journal' = journal
        BY <4>1
      <4>2. CASE stray \in Record /\ journal' = Append(journal, stray)
        <5>1. Elements(Append(journal, stray)) = Elements(journal) \cup {stray}
          BY <1>0, <4>2, AppendElements
        <5> QED
          BY <4>2, <5>1
      <4> QED
        BY <3>1, <4>1, <4>2
    <3> QED
      BY <3>1, <3>2 DEF Numbered
  <2> QED
    BY <1>1, <2>1, <2>2, <2>4, <2>5, Loaded, NotLease DEF Numbered
<1>2. CASE Extends
  <2>1. /\ journal' = Append(journal, inflight) /\ inflight \in Record /\ stray' = NoRecord
        /\ pc # "down"
    BY <1>2 DEF Extends
  <2>2. ~IsLease(inflight') /\ ~IsLease(stray')
    BY <1>0, <1>2, NotLease DEF Extends, Typed, Inflight
  <2>3. CASE ~IsLease(inflight)
    <3>1. UNCHANGED <<lease_sequence, issued>>
      BY <1>2, <2>3 DEF Extends
    <3>2. \A i \in DOMAIN journal' : IsLease(journal'[i]) =>
            i \in DOMAIN journal /\ journal'[i] = journal[i]
      BY <1>0, <2>1, <2>3, AppendFacts
    <3>3. lease_sequence' <= Len(journal') + 1
      BY <1>0, <2>1, <3>1, AppendFacts DEF Numbered
    <3>4. \A l \in issued' : LeaseRecord(l) \in Elements(journal')
      BY <1>0, <2>1, <3>1, AppendElements DEF Numbered
    <3> QED
      BY <2>1, <2>2, <3>1, <3>2, <3>3, <3>4 DEF Numbered
  <2>4. CASE IsLease(inflight)
    <3>1. /\ lease_sequence' = lease_sequence + 1 /\ issued' = issued \cup {inflight.lease}
          /\ inflight.lease.id = lease_sequence
      BY <1>2, <2>4 DEF Extends, Numbered
    <3>2. /\ DOMAIN journal' = DOMAIN journal \cup {Len(journal) + 1}
          /\ Len(journal) + 1 \notin DOMAIN journal
          /\ journal'[Len(journal) + 1] = inflight
          /\ \A i \in DOMAIN journal : journal'[i] = journal[i]
          /\ Len(journal') = Len(journal) + 1
      BY <1>0, <2>1, AppendFacts
    <3>3. /\ lease_sequence <= Len(journal) + 1
          /\ \A i \in DOMAIN journal : IsLease(journal[i]) => journal[i].lease.id < lease_sequence
      BY <2>1 DEF Numbered
    <3>4. \A i \in DOMAIN journal' : IsLease(journal'[i]) => journal'[i].lease.id <= i
      BY <3>1, <3>2, <3>3 DEF Numbered
    <3>5. \A i, k \in DOMAIN journal' :
            IsLease(journal'[i]) /\ IsLease(journal'[k]) /\ journal'[i].lease.id = journal'[k].lease.id
              => i = k
      BY <1>0, <3>1, <3>2, <3>3 DEF Numbered
    <3>6. /\ lease_sequence' <= Len(journal') + 1
          /\ \A i \in DOMAIN journal' : IsLease(journal'[i]) => journal'[i].lease.id < lease_sequence'
      BY <1>0, <3>1, <3>2, <3>3
    <3>7. inflight = LeaseRecord(inflight.lease)
      BY <2>1, <2>4 DEF Record, IsLease, LeaseRecord
    <3>8. \A l \in issued' : LeaseRecord(l) \in Elements(journal')
      BY <1>0, <2>1, <3>1, <3>7, AppendElements DEF Numbered
    <3> QED
      BY <2>2, <3>4, <3>5, <3>6, <3>8 DEF Numbered
  <2> QED
    BY <2>3, <2>4
<1>3. CASE Waits
  <2>1. IsLease(inflight') => inflight'.lease.id = lease_sequence
    BY <1>3, NotLease DEF Waits, Proposed, Numbered, IsLease
  <2> QED
    BY <1>3, <2>1 DEF Waits, Running, Numbered
<1>4. CASE Fails
  <2>1. IsLease(stray') =>
          /\ stray'.lease.id <= Len(journal) + 1
          /\ \A i \in DOMAIN journal : IsLease(journal[i]) => journal[i].lease.id # stray'.lease.id
    BY <1>0, <1>4, NotLease DEF Fails, Running, Numbered
  <2> QED
    BY <1>4, <2>1, NotLease DEF Fails, Running, Numbered, memory, history
<1>5. CASE Lost
  <2>1. IsLease(stray') =>
          /\ stray'.lease.id <= Len(journal) + 1
          /\ \A i \in DOMAIN journal : IsLease(journal[i]) => journal[i].lease.id # stray'.lease.id
    BY <1>0, <1>5, NotLease DEF Lost, Numbered
  <2> QED
    BY <1>5, <2>1, NotLease DEF Lost, MemoryLost, Numbered, history
<1>6. CASE UNCHANGED vars
  BY <1>6 DEF vars, memory, history, Numbered
<1> QED
  BY <1>1, <1>2, <1>3, <1>4, <1>5, <1>6, StepShape
-----------------------------------------------------------------------------
(* Revocations *)

LEMMA LeaseInAppend ==
  ASSUME NEW j \in Seq(Record), NEW r \in Record
  PROVE  \A id : LeaseIn(j, id) => LeaseIn(Append(j, r), id)
  BY AppendFacts DEF LeaseIn

LEMMA RevocationsFollowAppend ==
  ASSUME NEW j \in Seq(Record), NEW r \in Record, RevocationsFollow(j),
         r.type = "LeaseRevocation" => LeaseIn(j, r.id)
  PROVE  RevocationsFollow(Append(j, r))
  BY AppendFacts, LeaseInAppend DEF RevocationsFollow

\* Recovered leases are the leases of journal records.
LEMMA RecoveredFrom ==
  ASSUME NEW j, NEW l \in RecoveredLeases(j)
  PROVE  \E i \in DOMAIN j : IsLease(j[i]) /\ j[i].lease = l
  BY DEF RecoveredLeases, IsLease

LEMMA NotRevocation ==
  /\ NoRecord.type # "LeaseRevocation"
  /\ \A n : IncarnationRecord(n).type # "LeaseRevocation"
  /\ \A a : ArtifactRecord(a).type # "LeaseRevocation"
  BY DEF NoRecord, IncarnationRecord, ArtifactRecord

LEMMA RevocationsStep ==
  ASSUME Typed, DerivationWellFormed, Replayed, Numbered, Revocations, [Next]_vars
  PROVE  Revocations'
<1>0. Typed' /\ journal \in Seq(Record)
  BY TypedStep DEF Typed, StateTyped
<1>1. CASE LoadJournal
  <2>1. journal' = journal \/ (stray \in Record /\ journal' = Append(journal, stray))
    BY <1>1, Loaded
  <2>2. RevocationsFollow(journal')
    BY <1>0, <2>1, RevocationsFollowAppend DEF Revocations
  <2>3. /\ stray' = NoRecord /\ inflight' = IncarnationRecord(incarnation')
        /\ revoked' = RecoveredRevocations(journal')
    BY <1>1, Loaded
  <2>4. stray'.type # "LeaseRevocation" /\ inflight'.type # "LeaseRevocation"
    BY <2>3, NotRevocation
  <2> QED
    BY <2>2, <2>3, <2>4 DEF Revocations
<1>2. CASE Extends
  <2>1. /\ journal' = Append(journal, inflight) /\ inflight \in Record /\ stray' = NoRecord
        /\ pc # "down"
    BY <1>2 DEF Extends
  <2>3. RevocationsFollow(journal')
    BY <1>0, <2>1, RevocationsFollowAppend DEF Revocations
  <2>4. inflight'.type # "LeaseRevocation" /\ stray'.type # "LeaseRevocation"
    BY <1>0, <1>2, <2>1, NotRevocation DEF Extends, Typed, Inflight
  <2>5. RecoveredRevocations(journal') \subseteq revoked'
    <3>1. CASE IsLease(inflight)
      <4>1. inflight.lease.id = lease_sequence /\ revoked' = revoked \ {inflight.lease.id}
        BY <1>2, <3>1 DEF Extends, Numbered
      <4>2. RecoveredRevocations(journal') = RecoveredRevocations(journal)
        BY <1>0, <2>1, <3>1, RevocationsAppend DEF IsLease
      <4>3. RecoveredRevocations(journal) \subseteq revoked
        BY <2>1 DEF Revocations
      <4>4. \A id \in RecoveredRevocations(journal) : LeaseIn(journal, id)
        BY DEF RecoveredRevocations, OfType, Elements, Revocations, RevocationsFollow
      <4>5. \A id : LeaseIn(journal, id) => id < lease_sequence
        BY <2>1 DEF LeaseIn, Numbered
      <4>6. lease_sequence \in Nat
        BY DEF Typed, StateTyped
      <4>7. lease_sequence \notin RecoveredRevocations(journal)
        BY <4>4, <4>5, <4>6
      <4> QED
        BY <4>1, <4>2, <4>3, <4>7
    <3>2. CASE ~IsLease(inflight)
      <4>1. UNCHANGED revoked
        BY <1>2, <3>2 DEF Extends
      <4>2. RecoveredRevocations(journal) \subseteq revoked
        BY <2>1 DEF Revocations
      <4>3. inflight.type = "LeaseRevocation" => inflight.id \in revoked
        BY DEF Revocations
      <4>4. \/ RecoveredRevocations(journal') = RecoveredRevocations(journal)
            \/ /\ inflight.type = "LeaseRevocation"
               /\ RecoveredRevocations(journal') = RecoveredRevocations(journal) \cup {inflight.id}
        BY <1>0, <2>1, RevocationsAppend
      <4> QED
        BY <4>1, <4>2, <4>3, <4>4
    <3> QED
      BY <3>1, <3>2
  <2> QED
    BY <2>3, <2>4, <2>5 DEF Revocations
<1>3. CASE Waits
  <2>1. leases = RecoveredLeases(journal)
    BY <1>3 DEF Waits, Running, Replayed
  <2>2. \A l \in leases : LeaseIn(journal, l.id)
    BY <2>1, RecoveredFrom DEF LeaseIn
  <2>3. inflight'.type = "LeaseRevocation" => LeaseIn(journal, inflight'.id) /\ inflight'.id \in revoked'
    <3>1. CASE inflight' = inflight
      BY <1>3, <3>1 DEF Waits, Revocations
    <3>2. CASE \E l \in leases : inflight' = RevocationRecord(l.id) /\ l.id \in revoked'
      BY <2>2, <3>2 DEF RevocationRecord
    <3>3. CASE inflight' # inflight
               /\ ~\E l \in leases : inflight' = RevocationRecord(l.id) /\ l.id \in revoked'
      BY <1>3, <3>3, NotRevocation DEF Waits, Proposed, IsLease
    <3> QED
      BY <3>1, <3>2, <3>3
  <2> QED
    BY <1>3, <2>3 DEF Waits, Running, Revocations
<1>4. CASE Fails
  <2>1. stray'.type = "LeaseRevocation" => LeaseIn(journal, stray'.id)
    BY <1>4, NotRevocation DEF Fails, Revocations
  <2> QED
    BY <1>4, <2>1, NotRevocation DEF Fails, Running, Revocations, memory
<1>5. CASE Lost
  <2>1. stray'.type = "LeaseRevocation" => LeaseIn(journal, stray'.id)
    BY <1>5, NotRevocation DEF Lost, Revocations
  <2> QED
    BY <1>5, <2>1, NotRevocation DEF Lost, MemoryLost, Revocations
<1>6. CASE UNCHANGED vars
  BY <1>6 DEF vars, memory, Revocations
<1> QED
  BY <1>1, <1>2, <1>3, <1>4, <1>5, <1>6, StepShape
-----------------------------------------------------------------------------
(* The replay ledger *)

LEMMA NotDecision ==
  /\ NoRecord.type # "RequestDecision"
  /\ \A n : IncarnationRecord(n).type # "RequestDecision"
  /\ \A a : ArtifactRecord(a).type # "RequestDecision"
  /\ \A n : RevocationRecord(n).type # "RequestDecision"
  BY DEF NoRecord, IncarnationRecord, ArtifactRecord, RevocationRecord

LEMMA DecidedInAppend ==
  ASSUME NEW j \in Seq(Record), NEW r \in Record
  PROVE  /\ \A id : DecidedIn(j, id) => DecidedIn(Append(j, r), id)
         /\ r.type = "RequestDecision" => DecidedIn(Append(j, r), r.request)
  BY AppendFacts DEF DecidedIn

\* The ledger rebuilt from a journal has every request decided there.
LEMMA DecidedReplay ==
  ASSUME NEW j, NEW id, DecidedIn(j, id)
  PROVE  \E entry \in RecoveredReplay(j) : entry.request = id
<1>1. PICK i \in DOMAIN j : j[i].type = "RequestDecision" /\ j[i].request = id
  BY DEF DecidedIn
<1>2. j[i] \in OfType(j, "RequestDecision")
  BY <1>1 DEF OfType, Elements
<1>3. [request |-> j[i].request, decided_at |-> j[i].decided_at] \in RecoveredReplay(j)
  BY <1>2 DEF RecoveredReplay
<1> QED
  BY <1>1, <1>3

LEMMA LedgerStep ==
  ASSUME Typed, DerivationWellFormed, Replayed, Ledger, [Next]_vars
  PROVE  Ledger'
<1>0. Typed' /\ journal \in Seq(Record) /\ granted \in [RequestId -> Nat]
  BY TypedStep DEF Typed, StateTyped
<1>1. CASE LoadJournal
  <2>1. journal' = journal \/ (stray \in Record /\ journal' = Append(journal, stray))
    BY <1>1, Loaded
  <2>2. \A id : DecidedIn(journal, id) => DecidedIn(journal', id)
    BY <1>0, <2>1, DecidedInAppend
  <2>3. inflight'.type # "RequestDecision" /\ UNCHANGED granted
    BY <1>1, Loaded, NotDecision DEF history
  <2> QED
    BY <2>2, <2>3 DEF Ledger
<1>2. CASE Extends
  <2>1. /\ journal' = Append(journal, inflight) /\ inflight \in Record /\ pc # "down"
    BY <1>2 DEF Extends
  <2>2. \A id : DecidedIn(journal, id) => DecidedIn(journal', id)
    BY <1>0, <2>1, DecidedInAppend
  <2>3. inflight'.type # "RequestDecision"
    BY <1>0, <1>2, NotDecision DEF Extends, Typed, Inflight
  <2>4. CASE inflight.type # "RequestDecision"
    <3>1. UNCHANGED granted
      BY <1>2, <2>4 DEF Extends
    <3> QED
      BY <2>2, <2>3, <3>1 DEF Ledger
  <2>5. CASE inflight.type = "RequestDecision"
    <3>1. inflight.request \in RequestId
      BY <2>1, <2>5, RecordFields
    <3>2. DecidedIn(journal', inflight.request)
      BY <1>0, <2>1, <2>5, DecidedInAppend
    <3>3. ~DecidedIn(journal, inflight.request)
      <4>1. ~HasReplay(inflight.request) /\ replay = RecoveredReplay(journal)
        BY <2>1, <2>5 DEF Ledger, Replayed
      <4> QED
        BY <4>1, DecidedReplay DEF HasReplay
    <3>4. granted[inflight.request] = 0
      BY <1>0, <3>1, <3>3 DEF Ledger
    <3>5. granted' \in {granted, [granted EXCEPT ![inflight.request] = @ + 1]}
      BY <1>2, <2>5 DEF Extends
    <3>6. \A id \in RequestId : granted'[id] <= 1 /\ (granted'[id] > 0 => DecidedIn(journal', id))
      <4> SUFFICES ASSUME NEW id \in RequestId
                   PROVE  granted'[id] <= 1 /\ (granted'[id] > 0 => DecidedIn(journal', id))
        OBVIOUS
      <4>1. CASE id = inflight.request
        BY <1>0, <3>1, <3>2, <3>4, <3>5, <4>1
      <4>2. CASE id # inflight.request
        <5>1. granted'[id] = granted[id]
          BY <1>0, <3>1, <3>5, <4>2
        <5> QED
          BY <2>2, <5>1 DEF Ledger
      <4> QED
        BY <4>1, <4>2
    <3> QED
      BY <2>3, <3>6 DEF Ledger
  <2> QED
    BY <2>4, <2>5
<1>3. CASE Waits
  <2>1. inflight'.type = "RequestDecision" => ~HasReplay(inflight'.request)
    BY <1>3, NotDecision DEF Waits, Proposed, Ledger, IsLease
  <2> QED
    BY <1>3, <2>1 DEF Waits, Ledger, HasReplay
<1>4. CASE Fails
  BY <1>4, NotDecision DEF Fails, Ledger, memory, history
<1>5. CASE Lost
  BY <1>5, NotDecision DEF Lost, MemoryLost, Ledger, history
<1>6. CASE UNCHANGED vars
  BY <1>6 DEF vars, memory, history, Ledger, HasReplay
<1> QED
  BY <1>1, <1>2, <1>3, <1>4, <1>5, <1>6, StepShape
-----------------------------------------------------------------------------
(* Evidence identifiers *)

LEMMA EvidenceOnceAppend ==
  ASSUME NEW j \in Seq(Record), NEW r \in Record, EvidenceOnce(j),
         Decides(r) => ~UsesEvidence(j, r.artifact.evidence)
  PROVE  EvidenceOnce(Append(j, r))
<1> DEFINE a == Append(j, r)
           n == Len(j) + 1
<1>1. /\ DOMAIN a = DOMAIN j \cup {n} /\ n \notin DOMAIN j /\ a[n] = r
      /\ \A i \in DOMAIN j : a[i] = j[i] /\ j[i] \in Record
  BY AppendFacts
<1>2. \A q \in Record : q.type = "Artifact" => q.artifact \in Artifact
  BY RecordFields
<1>3. \A p, q \in Record :
        Decides(p) /\ q.type = "Artifact" /\ p.artifact.evidence = q.artifact.evidence => Decides(q)
  BY <1>2, ArtifactAssumption DEF Decides, CoordinatorArtifact
<1> HIDE DEF a, n
<1>4. ASSUME NEW i \in DOMAIN a, NEW k \in DOMAIN a, Decides(a[i]), a[k].type = "Artifact",
             a[i].artifact.evidence = a[k].artifact.evidence
      PROVE  i = k
  <2>1. CASE i \in DOMAIN j /\ k \in DOMAIN j
    BY <1>1, <1>4, <2>1 DEF EvidenceOnce
  <2>2. CASE i = n /\ k \in DOMAIN j
    BY <1>1, <1>4, <2>2 DEF UsesEvidence
  <2>3. CASE i \in DOMAIN j /\ k = n
    <3>1. Decides(j[i]) /\ Decides(r) /\ j[i].artifact.evidence = r.artifact.evidence
      BY <1>1, <1>3, <1>4, <2>3
    <3>2. j[i].type = "Artifact"
      BY <3>1 DEF Decides
    <3> QED
      BY <2>3, <3>1, <3>2 DEF UsesEvidence
  <2> QED
    BY <1>1, <2>1, <2>2, <2>3
<1> QED
  BY <1>4 DEF EvidenceOnce, a

\* The identifiers in memory are those in the journal memory was rebuilt from.
LEMMA EvidenceRecovered ==
  ASSUME NEW j, artifacts = RecoveredArtifacts(j), NEW e, ~HasEvidence(e)
  PROVE  ~UsesEvidence(j, e)
<1> SUFFICES ASSUME NEW i \in DOMAIN j, j[i].type = "Artifact", j[i].artifact.evidence = e
             PROVE  FALSE
  BY DEF UsesEvidence
<1>1. i \in DOMAIN artifacts /\ artifacts[i] = j[i].artifact
  BY DEF RecoveredArtifacts
<1> QED
  BY <1>1 DEF HasEvidence, Elements

LEMMA NotDecides ==
  /\ ~Decides(NoRecord)
  /\ \A n : ~Decides(IncarnationRecord(n)) /\ IncarnationRecord(n).type # "Artifact"
  /\ \A n : ~Decides(RevocationRecord(n))
  /\ \A a \in MemberArtifact : ~Decides(ArtifactRecord(a))
  BY DEF Decides, NoRecord, IncarnationRecord, RevocationRecord, ArtifactRecord,
         CoordinatorArtifact

LEMMA UsesEvidenceAppend ==
  ASSUME NEW j \in Seq(Record), NEW r \in Record, r.type # "Artifact"
  PROVE  \A e : UsesEvidence(Append(j, r), e) => UsesEvidence(j, e)
  BY AppendFacts DEF UsesEvidence

LEMMA EvidenceStep ==
  ASSUME Typed, DerivationWellFormed, Replayed, Evidence, [Next]_vars
  PROVE  Evidence'
<1>0. Typed' /\ journal \in Seq(Record)
  BY TypedStep DEF Typed, StateTyped
<1>1. CASE LoadJournal
  <2>1. journal' = journal \/ (stray \in Record /\ journal' = Append(journal, stray))
    BY <1>1, Loaded
  <2>2. EvidenceOnce(journal')
    BY <1>0, <2>1, EvidenceOnceAppend DEF Evidence
  <2>3. stray' = NoRecord /\ inflight' = IncarnationRecord(incarnation')
    BY <1>1, Loaded
  <2> QED
    BY <2>2, <2>3, NotDecides DEF Evidence
<1>2. CASE Extends
  <2>1. /\ journal' = Append(journal, inflight) /\ inflight \in Record /\ stray' = NoRecord
    BY <1>2 DEF Extends
  <2>2. EvidenceOnce(journal')
    BY <1>0, <2>1, EvidenceOnceAppend DEF Evidence
  <2>3. Decides(inflight') => ~UsesEvidence(journal', inflight'.artifact.evidence)
    <3>1. CASE pc' # "genesis"
      BY <1>2, <3>1, NotDecides DEF Extends
    <3>2. CASE pc' = "genesis"
      <4>1. pc = "boot" /\ ~HasEvidence(inflight'.artifact.evidence)
        BY <1>2, <3>2 DEF Extends
      <4>2. artifacts = RecoveredArtifacts(journal) /\ inflight = IncarnationRecord(incarnation)
        BY <4>1 DEF Replayed, Typed, Inflight
      <4>3. ~UsesEvidence(journal, inflight'.artifact.evidence)
        BY <4>1, <4>2, EvidenceRecovered
      <4>4. inflight.type # "Artifact"
        BY <4>2, NotDecides
      <4> QED
        BY <1>0, <2>1, <4>3, <4>4, UsesEvidenceAppend
    <3> QED
      BY <3>1, <3>2
  <2> QED
    BY <2>1, <2>2, <2>3, NotDecides DEF Evidence
<1>3. CASE Waits
  <2>1. Decides(inflight') => ~UsesEvidence(journal, inflight'.artifact.evidence)
    <3>1. CASE inflight' = inflight
      BY <3>1 DEF Evidence
    <3>2. CASE \E a \in CoordinatorArtifact :
                 inflight' = ArtifactRecord(a) /\ ~HasEvidence(a.evidence)
      <4>1. PICK a \in CoordinatorArtifact :
              inflight' = ArtifactRecord(a) /\ ~HasEvidence(a.evidence)
        BY <3>2
      <4>2. artifacts = RecoveredArtifacts(journal)
        BY <1>3 DEF Waits, Running, Replayed
      <4>3. inflight'.artifact.evidence = a.evidence
        BY <4>1 DEF ArtifactRecord
      <4> QED
        BY <4>1, <4>2, <4>3, EvidenceRecovered
    <3>3. CASE inflight' # inflight /\ ~\E a \in CoordinatorArtifact :
                 inflight' = ArtifactRecord(a) /\ ~HasEvidence(a.evidence)
      <4>1. \/ inflight' = NoRecord \/ \E a \in MemberArtifact : inflight' = ArtifactRecord(a)
            \/ \E n : inflight' = RevocationRecord(n)
            \/ inflight'.type \in {"Lease", "RequestDecision", "PartitionObservation", "TickHighWater"}
        BY <1>3, <3>3 DEF Waits, Proposed, IsLease
      <4> QED
        BY <4>1, NotDecides DEF Decides
    <3> QED
      BY <3>1, <3>2, <3>3
  <2> QED
    BY <1>3, <2>1 DEF Waits, Evidence
<1>4. CASE Fails
  <2>1. Decides(stray') => ~UsesEvidence(journal, stray'.artifact.evidence)
    BY <1>4, NotDecides DEF Fails, Evidence
  <2> QED
    BY <1>4, <2>1, NotDecides DEF Fails, Evidence
<1>5. CASE Lost
  <2>1. Decides(stray') => ~UsesEvidence(journal, stray'.artifact.evidence)
    BY <1>5, NotDecides DEF Lost, Evidence
  <2> QED
    BY <1>5, <2>1, NotDecides DEF Lost, MemoryLost, Evidence
<1>6. CASE UNCHANGED vars
  BY <1>6 DEF vars, Evidence
<1> QED
  BY <1>1, <1>2, <1>3, <1>4, <1>5, <1>6, StepShape
-----------------------------------------------------------------------------
(* Incarnations *)

LEMMA IncarnationInAppend ==
  ASSUME NEW j \in Seq(Record), NEW r \in Record
  PROVE  \A n : IncarnationIn(j, n) => IncarnationIn(Append(j, r), n)
  BY AppendFacts DEF IncarnationIn

LEMMA LeasesSupersededAppend ==
  ASSUME NEW j \in Seq(Record), NEW r \in Record, LeasesSuperseded(j),
         IsLease(r) => IncarnationIn(j, r.lease.issuer_incarnation)
  PROVE  LeasesSuperseded(Append(j, r))
  BY AppendFacts, IncarnationInAppend DEF LeasesSuperseded

\* A lease recovered from the journal was issued by an incarnation on disk.
LEMMA RecoveredOlder ==
  ASSUME NEW j \in Seq(Record), LeasesSuperseded(j), NEW n \in Nat,
         \A m \in PersistedIncarnations(j) : m < n
  PROVE  \A l \in RecoveredLeases(j) : l.issuer_incarnation < n
<1> SUFFICES ASSUME NEW l \in RecoveredLeases(j) PROVE l.issuer_incarnation < n
  OBVIOUS
<1>1. PICK i \in DOMAIN j : IsLease(j[i]) /\ j[i].lease = l
  BY RecoveredFrom
<1>2. IncarnationIn(j, l.issuer_incarnation)
  BY <1>1 DEF LeasesSuperseded
<1>3. PICK k \in DOMAIN j :
        j[k].type = "CoordinatorIncarnation" /\ j[k].value >= l.issuer_incarnation
  BY <1>2 DEF IncarnationIn
<1>4. j[k].value \in PersistedIncarnations(j)
  BY <1>3 DEF PersistedIncarnations, OfType, Elements
<1>5. j[k].value \in Nat /\ l.issuer_incarnation \in Nat
  <2>1. PersistedIncarnations(j) \subseteq Nat /\ RecoveredLeases(j) \subseteq Lease
    BY RecoveredTyped
  <2> QED
    BY <1>4, <2>1 DEF Lease
<1> QED
  BY <1>3, <1>4, <1>5

LEMMA IncarnationsStep ==
  ASSUME Typed, DerivationWellFormed, Incarnations, [Next]_vars
  PROVE  Incarnations'
<1>0. Typed' /\ journal \in Seq(Record) /\ incarnation \in Nat /\ incarnation' \in Nat
  BY TypedStep DEF Typed, StateTyped
<1>1. CASE LoadJournal
  <2>1. /\ journal' = journal \/ (stray \in Record /\ journal' = Append(journal, stray))
        /\ journal' \in Seq(Record)
    BY <1>1, Loaded
  <2>2. LeasesSuperseded(journal')
    BY <1>0, <2>1, LeasesSupersededAppend DEF Incarnations
  <2>3. /\ stray' = NoRecord /\ inflight' = IncarnationRecord(incarnation') /\ pc' = "boot"
        /\ leases' = RecoveredLeases(journal')
        /\ \A n \in PersistedIncarnations(journal') : n < incarnation'
    BY <1>1, Loaded
  <2>4. \A l \in leases' : l.issuer_incarnation < incarnation'
    BY <1>0, <2>1, <2>2, <2>3, RecoveredOlder
  <2> QED
    BY <2>2, <2>3, <2>4, NotLease DEF Incarnations
<1>2. CASE Extends
  <2>1. /\ journal' = Append(journal, inflight) /\ inflight \in Record /\ stray' = NoRecord
        /\ pc # "down" /\ pc' \notin {"down", "boot"} /\ incarnation' = incarnation
        /\ IsLease(inflight) => Running
    BY <1>2 DEF Extends
  <2>2. IsLease(inflight) => IncarnationIn(journal, inflight.lease.issuer_incarnation)
    BY <2>1 DEF Running, Incarnations
  <2>3. LeasesSuperseded(journal')
    BY <1>0, <2>1, <2>2, LeasesSupersededAppend DEF Incarnations
  <2>4. IncarnationIn(journal', incarnation)
    <3>1. CASE pc = "boot"
      <4>1. inflight = IncarnationRecord(incarnation)
        BY <3>1 DEF Typed, Inflight
      <4>2. inflight.type = "CoordinatorIncarnation" /\ inflight.value >= incarnation
        BY <1>0, <4>1 DEF IncarnationRecord
      <4> QED
        BY <1>0, <2>1, <4>2, AppendFacts DEF IncarnationIn
    <3>2. CASE pc # "boot"
      BY <1>0, <2>1, <3>2, IncarnationInAppend DEF Incarnations
    <3> QED
      BY <3>1, <3>2
  <2>5. ~IsLease(inflight') /\ ~IsLease(stray')
    BY <1>0, <1>2, NotLease DEF Extends, Typed, Inflight
  <2> QED
    BY <2>1, <2>3, <2>4, <2>5 DEF Incarnations
<1>3. CASE Waits
  <2>1. IsLease(inflight') => inflight'.lease.issuer_incarnation = incarnation
    BY <1>3, NotLease DEF Waits, Proposed, Incarnations, IsLease
  <2> QED
    BY <1>3, <2>1 DEF Waits, Running, Incarnations
<1>4. CASE Fails
  <2>1. IsLease(stray') => IncarnationIn(journal, stray'.lease.issuer_incarnation)
    BY <1>4, NotLease DEF Fails, Running, Incarnations
  <2> QED
    BY <1>4, <2>1, NotLease DEF Fails, Running, Incarnations, memory
<1>5. CASE Lost
  <2>1. IsLease(inflight) => pc \notin {"down", "boot"}
    BY NotLease DEF Typed, Inflight
  <2>2. IsLease(stray') => IncarnationIn(journal, stray'.lease.issuer_incarnation)
    BY <1>5, <2>1, NotLease DEF Lost, Incarnations
  <2> QED
    BY <1>5, <2>2, NotLease DEF Lost, MemoryLost, Incarnations
<1>6. CASE UNCHANGED vars
  BY <1>6 DEF vars, memory, Incarnations
<1> QED
  BY <1>1, <1>2, <1>3, <1>4, <1>5, <1>6, StepShape
-----------------------------------------------------------------------------
(* Epochs *)

\* The journal memory was rebuilt from, counting the genesis record that
\* ensure_genesis pushes before it appends it.
LEMMA EvidenceSource ==
  ASSUME Typed, Replayed, Evidence, pc # "down"
  PROVE  \E j \in Seq(Record) : artifacts = RecoveredArtifacts(j) /\ EvidenceOnce(j)
<1>0. journal \in Seq(Record)
  BY DEF Typed, StateTyped
<1>1. CASE pc # "genesis"
  BY <1>0, <1>1 DEF Replayed, Evidence
<1>2. CASE pc = "genesis"
  <2>1. inflight \in Record
    BY <1>2, RecordConstructors DEF Typed, Inflight, CoordinatorArtifact
  <2>2. artifacts = RecoveredArtifacts(Append(journal, inflight))
    BY <1>2 DEF Replayed
  <2>3. EvidenceOnce(Append(journal, inflight))
    BY <1>0, <2>1, EvidenceOnceAppend DEF Evidence
  <2>4. Append(journal, inflight) \in Seq(Record)
    BY <1>0, <2>1
  <2> QED
    BY <2>2, <2>3, <2>4
<1> QED
  BY <1>1, <1>2

\* The evidence identifier of a coordinator artefact occurs once in memory.
LEMMA EvidenceUnique == Typed /\ Replayed /\ Evidence => DecisionsNeverQuarantined
<1> SUFFICES ASSUME Typed, Replayed, Evidence PROVE DecisionsNeverQuarantined
  OBVIOUS
<1>1. CASE pc = "down"
  BY <1>1 DEF Replayed, DecisionsNeverQuarantined
<1>2. CASE pc # "down"
  <2>1. PICK j \in Seq(Record) : artifacts = RecoveredArtifacts(j) /\ EvidenceOnce(j)
    BY <1>2, EvidenceSource
  <2>2. \A i \in DOMAIN artifacts :
          i \in DOMAIN j /\ j[i].type = "Artifact" /\ artifacts[i] = j[i].artifact
    BY <2>1 DEF RecoveredArtifacts
  <2> QED
    BY <2>1, <2>2 DEF DecisionsNeverQuarantined, EvidenceOnce, Decides
<1> QED
  BY <1>1, <1>2

LEMMA RecoveredArtifactsGrow ==
  ASSUME NEW j \in Seq(Record), NEW r \in Record
  PROVE  Elements(RecoveredArtifacts(j)) \subseteq Elements(RecoveredArtifacts(Append(j, r)))
<1> SUFFICES ASSUME NEW i \in DOMAIN RecoveredArtifacts(j)
             PROVE  RecoveredArtifacts(j)[i] \in Elements(RecoveredArtifacts(Append(j, r)))
  BY DEF Elements
<1>1. i \in DOMAIN j /\ j[i].type = "Artifact" /\ RecoveredArtifacts(j)[i] = j[i].artifact
  BY DEF RecoveredArtifacts
<1>2. i \in DOMAIN Append(j, r) /\ Append(j, r)[i] = j[i]
  BY <1>1, AppendFacts
<1>3. /\ i \in DOMAIN RecoveredArtifacts(Append(j, r))
      /\ RecoveredArtifacts(Append(j, r))[i] = j[i].artifact
  BY <1>1, <1>2 DEF RecoveredArtifacts
<1> QED
  BY <1>1, <1>3 DEF Elements

LEMMA ArtifactsGrow ==
  ASSUME Typed, Typed', Replayed, Replayed', Extends
  PROVE  Elements(artifacts) \subseteq Elements(artifacts')
<1>1. /\ journal \in Seq(Record) /\ journal' \in Seq(Record) /\ inflight \in Record
      /\ journal' = Append(journal, inflight) /\ pc # "down" /\ pc' # "down"
      /\ pc' = "genesis" => pc = "boot"
  BY DEF Extends, Typed, StateTyped
<1>2. CASE pc = "genesis"
  <2>1. artifacts = RecoveredArtifacts(journal') /\ pc' # "genesis"
    BY <1>1, <1>2 DEF Replayed
  <2>2. artifacts' = RecoveredArtifacts(journal')
    BY <1>1, <2>1 DEF Replayed
  <2> QED
    BY <2>1, <2>2
<1>3. CASE pc # "genesis"
  <2>1. artifacts = RecoveredArtifacts(journal)
    BY <1>1, <1>3 DEF Replayed
  <2>2. Elements(artifacts) \subseteq Elements(RecoveredArtifacts(journal'))
    BY <1>1, <2>1, RecoveredArtifactsGrow
  <2>3. CASE pc' # "genesis"
    BY <1>1, <2>2, <2>3 DEF Replayed
  <2>4. CASE pc' = "genesis"
    <3>1. inflight' \in Record
      BY <2>4, RecordConstructors DEF Typed, Inflight, CoordinatorArtifact
    <3>2. artifacts' = RecoveredArtifacts(Append(journal', inflight'))
      BY <2>4 DEF Replayed
    <3> QED
      BY <1>1, <2>2, <3>1, <3>2, RecoveredArtifactsGrow
  <2> QED
    BY <2>3, <2>4
<1> QED
  BY <1>2, <1>3

\* An epoch that was reached stays reached, and the clock does not go back.
LEMMA EpochsGrow ==
  ASSUME Typed, Typed', Replayed, Replayed', Evidence', Extends
  PROVE  Epochs \subseteq Epochs'
<1>1. Elements(artifacts) \subseteq Elements(artifacts')
  BY ArtifactsGrow
<1>2. \A a \in Elements(artifacts') : a \in CoordinatorArtifact => a \in Accepted(Elements(artifacts'))
  <2>1. DecisionsNeverQuarantined'
    BY EvidenceUnique, PTL
  <2> QED
    BY <2>1 DEF DecisionsNeverQuarantined, Elements, Accepted
<1>3. Elements(artifacts) \subseteq Artifact
  BY DEF Typed, StateTyped, Elements
<1>4. \A a \in Advances : a \in Elements(artifacts) /\ a.kind = "EpochAdvance"
  BY DEF Advances, Accepted
<1>5. \A a \in Advances : a \in CoordinatorArtifact
  BY <1>3, <1>4, MemberAssumption DEF CoordinatorArtifact
<1>6. Advances \subseteq Advances'
  BY <1>1, <1>2, <1>4, <1>5 DEF Advances
<1> QED
  BY <1>6 DEF Epochs

\* What a commit adds to the lease table is the lease in flight.
LEMMA LeasesExtend ==
  ASSUME Typed, Replayed, Replayed', Extends
  PROVE  \A l \in leases' : l \in leases \/ (IsLease(inflight) /\ l = inflight.lease)
<1>1. /\ journal \in Seq(Record) /\ inflight \in Record
      /\ journal' = Append(journal, inflight) /\ pc # "down" /\ pc' # "down"
  BY DEF Extends, Typed, StateTyped
<1>2. leases = RecoveredLeases(journal) /\ leases' = RecoveredLeases(Append(journal, inflight))
  BY <1>1 DEF Replayed
<1>3. CASE IsLease(inflight)
  BY <1>1, <1>2, <1>3, LeasesAppend DEF IsLease
<1>4. CASE ~IsLease(inflight)
  BY <1>1, <1>2, <1>4, LeasesAppend DEF IsLease
<1> QED
  BY <1>3, <1>4

LEMMA ReachedStep ==
  ASSUME Typed, DerivationWellFormed, Replayed, Reached, Typed', Replayed', Evidence',
         Incarnations', [Next]_vars
  PROVE  Reached'
<1>1. CASE LoadJournal
  <2>1. pc' = "boot" /\ inflight' = IncarnationRecord(incarnation')
    BY <1>1, Loaded
  <2>2. \A l \in leases' : l.issuer_incarnation < incarnation'
    BY <2>1 DEF Incarnations
  <2>3. incarnation' \in Nat
    BY DEF Typed, StateTyped
  <2>4. \A l \in leases' : l.issuer_incarnation # incarnation'
    BY <2>2, <2>3
  <2> QED
    BY <2>1, <2>4, NotLease DEF Reached
<1>2. CASE Extends
  <2>1. Epochs \subseteq Epochs'
    BY <1>2, EpochsGrow
  <2>2. \A l \in leases' : l \in leases \/ (IsLease(inflight) /\ l = inflight.lease)
    BY <1>2, LeasesExtend
  <2>3. ~IsLease(inflight') /\ incarnation' = incarnation
    BY <1>2, NotLease DEF Extends, Typed, Inflight
  <2>4. IsLease(inflight) => inflight \in Record /\ inflight.lease.issued_epoch \in Nat
    BY RecordFields DEF Typed, StateTyped, IsLease, Lease
  <2>5. IsLease(inflight) => \E e \in Epochs : e >= inflight.lease.issued_epoch
    BY <2>4 DEF Reached
  <2> QED
    BY <2>1, <2>2, <2>3, <2>5 DEF Reached
<1>3. CASE Waits
  <2>1. IsLease(inflight') => inflight'.lease.issued_epoch \in Epochs
    BY <1>3, NotLease DEF Waits, Proposed, Reached, IsLease
  <2>2. Epochs' = Epochs
    BY <1>3 DEF Waits, Epochs, Advances
  <2> QED
    BY <1>3, <2>1, <2>2 DEF Waits, Reached
<1>4. CASE Fails
  <2>1. Epochs' = Epochs
    BY <1>4 DEF Fails, memory, Epochs, Advances
  <2> QED
    BY <1>4, <2>1, NotLease DEF Fails, memory, Reached
<1>5. CASE Lost
  BY <1>5, NotLease DEF Lost, MemoryLost, Reached
<1>6. CASE UNCHANGED vars
  <2>1. Epochs' = Epochs
    BY <1>6 DEF vars, memory, Epochs, Advances
  <2> QED
    BY <1>6, <2>1 DEF vars, memory, Reached
<1> QED
  BY <1>1, <1>2, <1>3, <1>4, <1>5, <1>6, StepShape
-----------------------------------------------------------------------------
(* The invariant is inductive *)

LEMMA InitInvariant == Init => IInv
<1> SUFFICES ASSUME Init PROVE IInv
  OBVIOUS
<1>1. Typed
  BY InitTyped
<1>2. DOMAIN journal = {} /\ DOMAIN artifacts = {} /\ pc = "down" /\ leases = {} /\ issued = {}
  BY DEF Init
<1>3. ~IsLease(stray) /\ ~IsLease(inflight) /\ ~Decides(stray) /\ ~Decides(inflight)
  BY NotLease, NotDecides DEF Init
<1>4. stray.type # "LeaseRevocation" /\ inflight.type # "LeaseRevocation"
  BY NotRevocation DEF Init
<1>5. inflight.type # "RequestDecision" /\ \A id \in RequestId : granted[id] = 0
  BY NotDecision DEF Init
<1>6. Replayed /\ Numbered
  BY <1>2, <1>3 DEF Replayed, Numbered
<1>7. Revocations
  BY <1>2, <1>4 DEF Revocations, RevocationsFollow
<1>8. Ledger
  BY <1>5 DEF Ledger
<1>9. Evidence /\ Incarnations
  BY <1>2, <1>3 DEF Evidence, EvidenceOnce, Incarnations, LeasesSuperseded
<1>10. Reached
  BY <1>2, <1>3 DEF Reached
<1> QED
  BY <1>1, <1>6, <1>7, <1>8, <1>9, <1>10 DEF IInv

LEMMA InvariantStep == IInv /\ DerivationWellFormed /\ [Next]_vars => IInv'
<1> SUFFICES ASSUME Typed, Replayed, Numbered, Revocations, Ledger, Evidence, Incarnations,
                    Reached, DerivationWellFormed, [Next]_vars
             PROVE  IInv'
  BY DEF IInv
<1>1. Typed'
  BY TypedStep
<1>2. Replayed'
  BY ReplayedStep
<1>3. Numbered'
  BY NumberedStep
<1>4. Revocations'
  BY RevocationsStep
<1>5. Ledger'
  BY LedgerStep
<1>6. Evidence'
  BY EvidenceStep
<1>7. Incarnations'
  BY IncarnationsStep
<1>8. Reached'
  BY <1>1, <1>2, <1>6, <1>7, ReachedStep
<1> QED
  BY <1>1, <1>2, <1>3, <1>4, <1>5, <1>6, <1>7, <1>8 DEF IInv

\* The inductive invariant holds in every state of every behaviour.
THEOREM Invariant == Spec /\ []DerivationWellFormed => []IInv
  BY InitInvariant, InvariantStep, PTL DEF Spec
-----------------------------------------------------------------------------
(* What follows *)

\* Two leases with one identifier are at one journal position.
LEMMA IdsUnique == Typed /\ Numbered => LeaseIdsUnique
<1> SUFFICES ASSUME Typed, Numbered, NEW a \in issued, NEW b \in issued, a.id = b.id
             PROVE  a = b
  BY DEF LeaseIdsUnique
<1>1. PICK i \in DOMAIN journal : journal[i] = LeaseRecord(a)
  BY DEF Numbered, Elements
<1>2. PICK k \in DOMAIN journal : journal[k] = LeaseRecord(b)
  BY DEF Numbered, Elements
<1>3. /\ IsLease(journal[i]) /\ journal[i].lease = a
      /\ IsLease(journal[k]) /\ journal[k].lease = b
  BY <1>1, <1>2 DEF LeaseRecord, IsLease
<1> QED
  BY <1>3 DEF Numbered

\* Lease identifiers are never reused, whatever is restarted or fails: the
\* number issue_lease uses is above every identifier in the journal.
THEOREM UniqueLeaseIds == Spec /\ []DerivationWellFormed => []LeaseIdsUnique
<1>1. IInv => LeaseIdsUnique
  BY IdsUnique DEF IInv
<1> QED
  BY <1>1, Invariant, PTL

\* evaluate never grants one request twice.
THEOREM AtMostOneGrant == Spec /\ []DerivationWellFormed => []GrantedAtMostOnce
<1>1. IInv => GrantedAtMostOnce
  BY DEF IInv, Ledger, GrantedAtMostOnce
<1> QED
  BY <1>1, Invariant, PTL

\* What callers were told is on disk: the leases that were returned and the
\* requests that were granted.
THEOREM DurableBeforeReply == Spec /\ []DerivationWellFormed => []AcknowledgedIsDurable
<1>1. ASSUME IInv PROVE AcknowledgedIsDurable
  <2>1. \A l \in issued : LeaseRecord(l) \in Elements(journal)
    BY <1>1 DEF IInv, Numbered
  <2>2. \A id : DecidedIn(journal, id) =>
          \E r \in OfType(journal, "RequestDecision") : r.request = id
    BY DEF DecidedIn, OfType, Elements
  <2>3. \A id \in RequestId : granted[id] > 0 => DecidedIn(journal, id)
    BY <1>1 DEF IInv, Ledger
  <2> QED
    BY <2>1, <2>2, <2>3 DEF AcknowledgedIsDurable
<1>2. IInv => AcknowledgedIsDurable
  BY <1>1
<1> QED
  BY <1>2, Invariant, PTL

\* Recovery never refuses a journal for a revocation without its lease.
THEOREM RevocationsHaveLeases == Spec /\ []DerivationWellFormed => []NoOrphanRevocation
<1>1. ASSUME IInv PROVE NoOrphanRevocation
  <2>1. \A id : LeaseIn(journal, id) => \E q \in OfType(journal, "Lease") : q.lease.id = id
    BY DEF LeaseIn, IsLease, OfType, Elements
  <2>2. \A r \in OfType(journal, "LeaseRevocation") : LeaseIn(journal, r.id)
    BY <1>1 DEF IInv, Revocations, RevocationsFollow, OfType, Elements
  <2> QED
    BY <2>1, <2>2 DEF NoOrphanRevocation
<1>2. IInv => NoOrphanRevocation
  BY <1>1
<1> QED
  BY <1>2, Invariant, PTL

\* A restart rebuilds the memory of the running coordinator.
THEOREM RestartRebuildsMemory == Spec /\ []DerivationWellFormed => []MemoryIsReplay
<1>1. IInv => MemoryIsReplay
  BY DEF IInv, Replayed, Revocations, MemoryIsReplay
<1> QED
  BY <1>1, Invariant, PTL

\* No decision of the coordinator is quarantined by a second one.
THEOREM DecisionsStand == Spec /\ []DerivationWellFormed => []DecisionsNeverQuarantined
<1>1. IInv => DecisionsNeverQuarantined
  BY EvidenceUnique DEF IInv
<1> QED
  BY <1>1, Invariant, PTL
-----------------------------------------------------------------------------
(* A lease that cannot be spent stays unspendable *)

Highest(l) == IF l.not_after_epoch > l.issued_epoch THEN l.not_after_epoch ELSE l.issued_epoch

\* evaluate_lease says Valid when every check passes.
LEMMA ValidMeans ==
  ASSUME NEW l
  PROVE  LeaseState(l) = "Valid" <=>
           /\ l.id \notin revoked /\ l.issuer_incarnation = incarnation
           /\ ~\E e \in Epochs : e > Highest(l)
           /\ ~\A e \in Epochs : e < l.issued_epoch
           /\ ~\E t \in Times : t > l.not_after
  BY DEF LeaseState, Highest

\* The same, of the next state.
LEMMA SpendableNext ==
  ASSUME NEW l, Spendable(l)'
  PROVE  /\ l \in leases' /\ l.id \notin revoked' /\ l.issuer_incarnation = incarnation'
         /\ ~\E e \in Epochs' : e > Highest(l)
         /\ ~\E t \in Times' : t > l.not_after
  BY DEF Spendable, LeaseState, Highest

\* Every time the derivation has seen is reached again after a step that
\* only adds evidence.
LEMMA TimesGrow ==
  ASSUME Typed, Typed', tick' >= tick, Elements(artifacts) \subseteq Elements(artifacts'),
         DecisionsNeverQuarantined', NEW t \in Times
  PROVE  \E u \in Times' : u >= t
<1>0. tick \in Nat /\ tick' \in Nat /\ Elements(artifacts) \subseteq Artifact /\ tick' \in Times'
  BY DEF Typed, StateTyped, Elements, Times
<1>1. CASE t = tick
  BY <1>0, <1>1
<1>2. CASE \E a \in Accepted(Elements(artifacts)) : t = a.time
  <2>1. PICK a \in Elements(artifacts) : t = a.time
    BY <1>2 DEF Accepted
  <2>2. a \in Artifact /\ a.time \in Nat
    BY <1>0, ArtifactAssumption
  <2>3. CASE a \in MemberArtifact
    BY <1>0, <2>1, <2>3, MemberAssumption
  <2>4. CASE a \in CoordinatorArtifact
    <3>1. a \in Accepted(Elements(artifacts'))
      BY <2>4 DEF DecisionsNeverQuarantined, Elements, Accepted
    <3>2. a.time \in Times'
      BY <3>1 DEF Times
    <3> QED
      BY <2>1, <2>2, <3>2
  <2> QED
    BY <2>2, <2>3, <2>4 DEF CoordinatorArtifact
<1> QED
  BY <1>1, <1>2 DEF Times

LEMMA SpendableBefore ==
  ASSUME IInv, IInv', DerivationWellFormed, ClockHasRoom, [Next]_vars,
         NEW l \in issued, Spendable(l)'
  PROVE  Spendable(l)
<1>0. /\ Typed /\ Typed' /\ Replayed /\ Replayed' /\ Evidence /\ Evidence' /\ Incarnations'
      /\ Numbered /\ Reached /\ l \in Lease
  BY DEF IInv, Typed, StateTyped
<1>1. /\ l \in leases' /\ l.id \notin revoked' /\ l.issuer_incarnation = incarnation'
      /\ ~\E e \in Epochs' : e > Highest(l)
      /\ ~\E t \in Times' : t > l.not_after
  BY SpendableNext
<1>2. DecisionsNeverQuarantined'
  BY <1>0, EvidenceUnique, PTL
\* What is left to show once the lease was in the table before the step.
<1>3. ASSUME l \in leases, l.id \notin revoked, incarnation' = incarnation,
             Epochs \subseteq Epochs', \A t \in Times : \E u \in Times' : u >= t
      PROVE  Spendable(l)
  <2>1. ~\E e \in Epochs : e > Highest(l)
    BY <1>1, <1>3
  <2>2. ~\A e \in Epochs : e < l.issued_epoch
    <3>1. PICK e \in Epochs : e >= l.issued_epoch
      BY <1>0, <1>1, <1>3 DEF Reached
    <3>2. Epochs \subseteq Nat
      <4>1. \A a \in Advances : a \in Artifact
        BY <1>0 DEF Typed, StateTyped, Advances, Accepted, Elements
      <4> QED
        BY <4>1, ArtifactAssumption DEF Epochs
    <3>3. e \in Nat /\ l.issued_epoch \in Nat
      BY <1>0, <3>2 DEF Lease
    <3> QED
      BY <3>1, <3>3
  <2>3. ~\E t \in Times : t > l.not_after
    <3>1. Times \subseteq Nat /\ Times' \subseteq Nat
      <4>1. \A a \in Accepted(Elements(artifacts)) : a \in Artifact
        BY <1>0 DEF Typed, StateTyped, Accepted, Elements
      <4>2. \A a \in Accepted(Elements(artifacts')) : a \in Artifact
        BY <1>0 DEF Typed, StateTyped, Accepted, Elements
      <4>3. tick \in Nat /\ tick' \in Nat
        BY <1>0 DEF Typed, StateTyped
      <4> QED
        BY <4>1, <4>2, <4>3, ArtifactAssumption DEF Times
    <3>2. l.not_after \in Nat
      BY <1>0 DEF Lease
    <3> SUFFICES ASSUME NEW t \in Times, t > l.not_after PROVE FALSE
      OBVIOUS
    <3>3. PICK u \in Times' : u >= t
      BY <1>3
    <3> QED
      BY <1>1, <3>1, <3>2, <3>3
  <2> QED
    BY <1>1, <1>3, <2>1, <2>2, <2>3, ValidMeans DEF Spendable
<1>4. CASE LoadJournal
  <2>1. pc' = "boot"
    BY <1>0, <1>4, Loaded
  <2>2. l.issuer_incarnation < incarnation' /\ incarnation' \in Nat
    BY <1>0, <1>1, <2>1 DEF Incarnations, Typed, StateTyped
  <2> QED
    BY <1>1, <2>2
<1>5. CASE Extends
  <2>1. IsLease(inflight) => inflight.lease.id # l.id
    <3>1. LeaseRecord(l) \in Elements(journal) /\ pc # "down"
      BY <1>0, <1>5 DEF Numbered, Extends
    <3>2. PICK i \in DOMAIN journal : journal[i] = LeaseRecord(l)
      BY <3>1 DEF Elements
    <3>3. IsLease(journal[i]) /\ journal[i].lease = l
      BY <3>2 DEF IsLease, LeaseRecord
    <3>4. l.id < lease_sequence /\ lease_sequence \in Nat
      BY <1>0, <3>1, <3>3 DEF Numbered, Typed, StateTyped
    <3>5. IsLease(inflight) => inflight.lease.id = lease_sequence
      BY <1>0 DEF Numbered
    <3>6. l.id \in Nat
      BY <1>0 DEF Lease
    <3> QED
      BY <3>4, <3>5, <3>6
  <2>2. l \in leases
    BY <1>0, <1>1, <1>5, <2>1, LeasesExtend
  <2>3. l.id \notin revoked
    BY <1>1, <1>5, <2>1 DEF Extends
  <2>4. Epochs \subseteq Epochs'
    BY <1>0, <1>5, EpochsGrow
  <2>5. Elements(artifacts) \subseteq Elements(artifacts')
    BY <1>0, <1>5, ArtifactsGrow
  <2>6. tick' >= tick /\ incarnation' = incarnation
    BY <1>5 DEF Extends
  <2>7. \A t \in Times : \E u \in Times' : u >= t
    BY <1>0, <1>2, <2>5, <2>6, TimesGrow
  <2> QED
    BY <1>3, <2>2, <2>3, <2>4, <2>6, <2>7
<1>6. CASE Waits \/ Fails \/ UNCHANGED vars
  <2>1. /\ UNCHANGED <<artifacts, leases, incarnation>> /\ revoked \subseteq revoked'
        /\ tick' = tick \/ tick' >= tick
    BY <1>6 DEF Waits, Fails, vars, memory
  <2>2. tick' >= tick
    BY <1>0, <2>1 DEF Typed, StateTyped
  <2>3. Epochs' = Epochs
    BY <2>1 DEF Epochs, Advances
  <2>4. \A t \in Times : \E u \in Times' : u >= t
    BY <1>0, <1>2, <2>1, <2>2, TimesGrow
  <2> QED
    BY <1>1, <1>3, <2>1, <2>3, <2>4
<1>7. CASE Lost
  BY <1>1, <1>7 DEF Lost, MemoryLost
<1> QED
  BY <1>0, <1>4, <1>5, <1>6, <1>7, StepShape

\* A lease that was handed out and is dead stays dead: through restarts,
\* failed appends, late records and other leases being issued, as long as the
\* clock has not come to the end of its type.
THEOREM DeadLeases == Spec /\ []DerivationWellFormed /\ []ClockHasRoom => DeadLeaseStaysDead
<1>1. IInv /\ IInv' /\ DerivationWellFormed /\ ClockHasRoom /\ [Next]_vars =>
        [\A l \in issued : ~Spendable(l) => ~Spendable(l)']_vars
  BY SpendableBefore
<1> QED
  BY <1>1, Invariant, PTL DEF Spec, DeadLeaseStaysDead

------------------------------------------------------------------------------
(* The records are a Log *)

\* A history variable: the appends whose success the journal has reported.
VARIABLE appends

\* Spec, with those appends counted.
CountingSpec ==
  /\ Init /\ appends = 0
  /\ [][Next /\ appends' = IF Commits THEN appends + 1 ELSE appends]_<<vars, appends>>

\* What a failed append left behind: the next open finds it or does not.
Unsettled == IF stray = NoRecord THEN <<>> ELSE <<stray>>

\* The promise of the journal, with the coordinator's records as its history.
L == INSTANCE Log WITH Payloads <- Record, log <- journal, pending <- Unsettled,
                       acked <- appends, generation <- 0

\* A sequence of one record has two prefixes.
LEMMA OneElement ==
  ASSUME NEW S, NEW x \in S
  PROVE  /\ SubSeq(<<x>>, 1, 0) = <<>> /\ SubSeq(<<x>>, 2, 1) = <<>>
         /\ SubSeq(<<x>>, 1, 1) = <<x>>
<1> DEFINE s == <<x>>
<1>1. s \in Seq(S) /\ Len(s) = 1 /\ s[1] = x
  OBVIOUS
<1> HIDE DEF s
<1>2. SubSeq(s, 1, 0) = <<>> /\ SubSeq(s, 2, 1) = <<>>
  BY <1>1
<1>3. SubSeq(s, 1, 1) = s
  <2>1. SubSeq(s, 1, 1) \in Seq(S) /\ Len(SubSeq(s, 1, 1)) = 1 /\ SubSeq(s, 1, 1)[1] = s[1]
    BY <1>1
  <2> QED
    BY <1>1, <2>1, SeqEqual
<1> QED
  BY <1>2, <1>3 DEF s

\* What may be kept of what is unsettled: nothing, or the stray record.
LEMMA UnsettledPrefixes ==
  ASSUME stray \in Record \cup {NoRecord}
  PROVE  /\ <<>> \in L!Prefixes(Unsettled) /\ Unsettled \in L!Prefixes(Unsettled)
         /\ stray # NoRecord => Unsettled = <<stray>>
         /\ stray = NoRecord => Unsettled = <<>>
<1>1. CASE stray = NoRecord
  <2>1. Unsettled = <<>> /\ SubSeq(<<>>, 1, 0) = <<>> /\ 0 \in 0..Len(<<>>)
    BY <1>1 DEF Unsettled
  <2> QED
    BY <1>1, <2>1 DEF L!Prefixes
<1>2. CASE stray # NoRecord
  <2> DEFINE s == <<stray>>
  <2>1. Unsettled = s /\ s \in Seq(Record) /\ Len(s) = 1
    BY <1>2 DEF Unsettled
  <2>2. SubSeq(s, 1, 0) = <<>> /\ SubSeq(s, 1, 1) = s
    BY <1>2, OneElement
  <2> HIDE DEF s
  <2>3. SubSeq(s, 1, 0) \in L!Prefixes(s) /\ SubSeq(s, 1, 1) \in L!Prefixes(s)
    BY <2>1 DEF L!Prefixes
  <2> QED
    BY <1>2, <2>1, <2>2, <2>3 DEF s
<1> QED
  BY <1>1, <1>2

\* A reported append is one of the log's.
LEMMA ExtendsAcknowledges ==
  ASSUME Typed, Extends, appends' = appends + 1
  PROVE  L!Acknowledge
<1>1. journal \in Seq(Record) /\ inflight \in Record /\ stray \in Record \cup {NoRecord}
  BY DEF Typed, StateTyped, Extends
<1>2. <<>> \in L!Prefixes(Unsettled)
  BY <1>1, UnsettledPrefixes
<1>3. journal' = journal \o <<>> \o <<inflight>>
  BY <1>1 DEF Extends
<1>4. Unsettled' = <<>>
  BY DEF Extends, Unsettled
<1> QED
  BY <1>1, <1>2, <1>3, <1>4 DEF L!Acknowledge

\* Recovery finds the stray record or loses it.
LEMMA LoadSettles ==
  ASSUME Typed, LoadJournal, appends' = appends
  PROVE  L!Settle
<1>1. /\ journal \in Seq(Record) /\ stray' = NoRecord /\ stray \in Record \cup {NoRecord}
      /\ journal' = journal \/ (stray \in Record /\ journal' = Append(journal, stray))
  BY Loaded DEF Typed, StateTyped
<1>2. Unsettled' = <<>>
  BY <1>1 DEF Unsettled
<1>3. CASE journal' = journal
  <2>1. journal' = journal \o SubSeq(<<>>, 1, 0) /\ Unsettled' = SubSeq(<<>>, 1, 0)
        /\ Len(<<>>) = 0 /\ 0 \in 0..0
    BY <1>1, <1>2, <1>3
  <2>2. <<>> \in L!Prefixes(Unsettled)
    BY <1>1, UnsettledPrefixes
  <2> QED
    BY <2>1, <2>2 DEF L!Settle
<1>4. CASE stray \in Record /\ journal' = Append(journal, stray)
  <2> DEFINE s == <<stray>>
  <2>1. s \in Seq(Record) /\ Len(s) = 1 /\ stray # NoRecord
    BY <1>4 DEF NoRecord, Record
  <2>2. SubSeq(s, 1, 1) = s /\ SubSeq(s, 2, 1) = <<>>
    BY <1>4, OneElement
  <2>0. journal' = journal \o s
    BY <1>1, <1>4
  <2>3. s \in L!Prefixes(Unsettled)
    BY <1>1, <2>1, UnsettledPrefixes
  <2> HIDE DEF s
  <2> QED
    BY <1>2, <2>0, <2>1, <2>2, <2>3 DEF L!Settle
<1> QED
  BY <1>1, <1>3, <1>4

\* A failed append, or a loss of memory, leaves the history as it is, and unsettled what was
\* unsettled before, or the record that was in flight, or nothing.
LEMMA FailuresKeepTheLog ==
  ASSUME Typed, Fails \/ Lost, appends' = appends
  PROVE  L!Next \/ UNCHANGED L!vars
<1>1. /\ journal \in Seq(Record) /\ stray \in Record \cup {NoRecord}
      /\ inflight \in Record \cup {NoRecord} /\ journal' = journal
      /\ stray' \in {stray, inflight, NoRecord}
  BY DEF Typed, StateTyped, Fails, Lost
<1>2. <<>> \in L!Prefixes(Unsettled)
  BY <1>1, UnsettledPrefixes
<1>3. CASE stray' = stray
  BY <1>1, <1>3 DEF L!vars, Unsettled
<1>4. CASE stray' = NoRecord
  <2>1. journal' = journal \o SubSeq(<<>>, 1, 0) /\ Unsettled' = SubSeq(<<>>, 1, 0)
        /\ Len(<<>>) = 0 /\ 0 \in 0..0
    BY <1>1, <1>4 DEF Unsettled
  <2>2. L!Settle
    BY <1>2, <2>1 DEF L!Settle
  <2> QED
    BY <2>2 DEF L!Next
<1>5. CASE stray' = inflight /\ inflight \in Record
  <2>1. Unsettled' = Append(<<>>, inflight)
    <3>1. inflight # NoRecord
      BY <1>5 DEF NoRecord, Record
    <3> QED
      BY <1>5, <3>1 DEF Unsettled
  <2>2. L!Fail
    BY <1>1, <1>2, <1>5, <2>1 DEF L!Fail
  <2> QED
    BY <2>2 DEF L!Next
<1> QED
  BY <1>1, <1>3, <1>4, <1>5

\* The coordinator's records are a history that only grows at its end: every operation,
\* failed append, crash and restart is a step of the log that journal.hpp promises, so what
\* was reported a success is never overtaken, reordered or lost.
THEOREM CoordinatorImplementsLog == CountingSpec /\ []DerivationWellFormed => L!Spec
<1>1. Init /\ appends = 0 => L!Init
  BY DEF Init, L!Init, Unsettled
<1>2. ASSUME Typed, DerivationWellFormed,
             [Next /\ appends' = IF Commits THEN appends + 1 ELSE appends]_<<vars, appends>>
      PROVE  [L!Next]_(L!vars)
  <2>1. CASE UNCHANGED <<vars, appends>>
    BY <2>1 DEF vars, L!vars, Unsettled
  <2>2. CASE Next /\ Commits /\ appends' = appends + 1
    BY <1>2, <2>2, CommitExtends, ExtendsAcknowledges DEF L!Next
  <2>3. CASE Next /\ ~Commits /\ appends' = appends
    <3>1. LoadJournal \/ Waits \/ Fails \/ Lost \/ UNCHANGED vars
      BY <1>2, <2>3, StepCases
    <3>2. CASE LoadJournal
      BY <1>2, <2>3, <3>2, LoadSettles DEF L!Next
    <3>3. CASE Waits \/ UNCHANGED vars
      BY <2>3, <3>3 DEF Waits, vars, L!vars, Unsettled
    <3>4. CASE Fails \/ Lost
      BY <1>2, <2>3, <3>4, FailuresKeepTheLog
    <3> QED
      BY <3>1, <3>2, <3>3, <3>4
  <2> QED
    BY <1>2, <2>1, <2>2, <2>3
<1>3. IInv => Typed
  BY DEF IInv
<1>4. CountingSpec => Spec
  <2>1. Init /\ appends = 0 => Init
    OBVIOUS
  <2>2. [Next /\ appends' = IF Commits THEN appends + 1 ELSE appends]_<<vars, appends>>
          => [Next]_vars
    BY DEF vars
  <2> QED
    BY <2>1, <2>2, PTL DEF CountingSpec, Spec
<1> QED
  BY <1>1, <1>2, <1>3, <1>4, Invariant, PTL DEF CountingSpec, L!Spec
==============================================================================
