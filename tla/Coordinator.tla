----------------------------- MODULE Coordinator -----------------------------
(***************************************************************************)
(* FederationCoordinator (src/src/coordinator.cpp): the durable state      *)
(* machine around the pure derivation of federation state.  Every public   *)
(* operation runs under one mutex, changes memory, and appends at most one *)
(* record at a time to the journal.  An append is two steps here: the      *)
(* operation puts the record in flight, and then the disk confirms it, or  *)
(* refuses it, or the process dies; the mutex is held in between.          *)
(*                                                                         *)
(* What the evidence means (derive_state, decide_locked's choice of        *)
(* records, evaluate_authority) is a parameter, so that what is proved     *)
(* here holds for every derivation.                                        *)
(***************************************************************************)
EXTENDS Naturals, Sequences, FiniteSets

CONSTANTS
  Artifact,            \* every artefact: records with kind, evidence, epoch, time
  MemberArtifact,      \* the artefacts members submit
  Observation,         \* member observations: records with an observer
  AuthorityRequest,    \* authority requests: records with an id
  LeaseRequest,        \* lease requests: records with holder, lifetime, not_after_epoch
  Identity,            \* declared member identities
  Bootstrap,           \* config.bootstrap
  InitialTick,         \* config.initial_tick
  MaxLeaseLifetime,    \* policy.max_lease_lifetime_ticks()
  MaxArtifacts,        \* kMaxArtifacts
  MaxLeases,           \* kMaxLeases
  MaxReplay,           \* kMaxReplayEntries
  MaxPasses,           \* kMaxMembers + 2, the passes of decide_locked
  LastTick,            \* the largest Tick, 2^64 - 1
  MaxTick,             \* bound: the largest tick a behaviour reaches
  MaxIncarnation,      \* bound: how often the coordinator is started
  GenesisArtifact(_),  \* the genesis record made at a tick
  Batch(_),            \* decision records decide_locked prepares from a view
  Commands(_),         \* lifecycle records the operator commands may ask for
  MayLease(_, _),      \* issue_lease's checks against the derived member state
  IdentityOf(_, _),    \* the holder identity the derivation has for a request
  Authorise(_, _)      \* evaluate_authority after its federation and replay checks

ASSUME BoundsAssumption ==
  /\ Bootstrap \in BOOLEAN
  /\ InitialTick \in Nat /\ MaxLeaseLifetime \in Nat
  /\ MaxArtifacts \in Nat /\ MaxLeases \in Nat /\ MaxReplay \in Nat
  /\ MaxPasses \in Nat /\ LastTick \in Nat /\ MaxTick \in Nat /\ MaxIncarnation \in Nat

\* Members neither advance the epoch nor date their evidence: their runtime
\* builds no EpochAdvance and leaves body.logical_time unset.
ASSUME MemberAssumption ==
  /\ MemberArtifact \subseteq Artifact
  /\ \A a \in MemberArtifact : a.kind # "EpochAdvance" /\ a.time = 0

ASSUME ArtifactAssumption ==
  /\ \A a \in Artifact : a.epoch \in Nat /\ a.time \in Nat
  /\ \A a \in Artifact \ MemberArtifact, b \in MemberArtifact : a.evidence # b.evidence

ASSUME RequestAssumption ==
  \A r \in LeaseRequest : r.lifetime \in Nat /\ r.not_after_epoch \in Nat

VARIABLES
  pc,             \* what the thread holding the mutex is doing
  inflight,       \* the record whose append has been started
  journal,        \* the records on disk that recovery is bound to return
  stray,          \* a record written past size_bytes_ by an append that failed
  journal_open,   \* Journal::is_open()
  artifacts,      \* the evidence, by the journal sequence it is recorded at
  leases, revoked, observations, replay,
  tick, incarnation, lease_sequence,
  batch, passes, progressed,   \* decide_locked's loop
  issued,         \* history: leases returned to callers
  granted,        \* history: how often each request was answered Granted
  acked           \* history: leases whose revocation was reported as success

memory == <<artifacts, leases, revoked, observations, replay, tick,
            incarnation, lease_sequence>>
loop == <<batch, passes, progressed>>
history == <<issued, granted, acked>>
vars == <<pc, inflight, journal, stray, journal_open, memory, loop, history>>
-----------------------------------------------------------------------------
(* Records *)

CoordinatorArtifact == Artifact \ MemberArtifact
RequestId == {r.id : r \in AuthorityRequest}
Outcome == {"Granted", "Degraded", "Refused", "Fenced", "Stale", "Conflicting",
            "Incomplete", "Unknown", "Unsupported", "Invalid", "Replayed"}
Lease == [id : Nat, holder : Identity, issued_epoch : Nat, not_after_epoch : Nat,
          issued_at : Nat, not_after : Nat, issuer_incarnation : Nat]
Record ==
       [type : {"Artifact"}, artifact : Artifact]
  \cup [type : {"Lease"}, lease : Lease]
  \cup [type : {"LeaseRevocation"}, id : Nat]
  \cup [type : {"RequestDecision"}, request : RequestId, outcome : Outcome, decided_at : Nat]
  \cup [type : {"PartitionObservation"}, observation : Observation]
  \cup [type : {"TickHighWater"}, value : Nat]
  \cup [type : {"CoordinatorIncarnation"}, value : Nat]

NoRecord == [type |-> "None"]
ArtifactRecord(a) == [type |-> "Artifact", artifact |-> a]
LeaseRecord(l) == [type |-> "Lease", lease |-> l]
RevocationRecord(id) == [type |-> "LeaseRevocation", id |-> id]
DecisionRecord(id, outcome, at) ==
  [type |-> "RequestDecision", request |-> id, outcome |-> outcome, decided_at |-> at]
ObservationRecord(o) == [type |-> "PartitionObservation", observation |-> o]
TickRecord(t) == [type |-> "TickHighWater", value |-> t]
IncarnationRecord(n) == [type |-> "CoordinatorIncarnation", value |-> n]

Elements(s) == {s[i] : i \in DOMAIN s}
OfType(j, type) == {r \in Elements(j) : r.type = type}

\* An element of S at least as large as every other: what a running
\* std::max over S ends with.
IsGreatest(n, S) == n \in S /\ \A m \in S : m <= n
-----------------------------------------------------------------------------
(* The derived federation state, as far as the coordinator itself uses it *)

\* prepare_artifacts: an identifier used with two different contents
\* quarantines every copy.
Accepted(S) == {a \in S : \A b \in S : b.evidence = a.evidence => b = a}

Advances == {a \in Accepted(Elements(artifacts)) : a.kind = "EpochAdvance"}
Epochs == {1} \cup {a.epoch : a \in Advances}

\* state.logical_time is the greatest of these.
Times == {tick} \cup {a.time : a \in Accepted(Elements(artifacts))}

View == [artifacts |-> artifacts, leases |-> leases, revoked |-> revoked,
         observations |-> observations, tick |-> tick, incarnation |-> incarnation]

\* Mutant: evaluate_lease does not compare the issuer's incarnation.
LeaseStateAnyIssuer(l) ==
  CASE l.id \in revoked                    -> "Revoked"
    [] \E e \in Epochs : e > l.not_after_epoch -> "EpochMismatch"
    [] \E t \in Times : t > l.not_after    -> "Expired"
    [] OTHER                               -> "Valid"

\* evaluate_lease: the first failing check names the state.
LeaseState(l) ==
  LET highest == IF l.not_after_epoch > l.issued_epoch
                 THEN l.not_after_epoch ELSE l.issued_epoch
  IN CASE l.id \in revoked                       -> "Revoked"
       [] l.issuer_incarnation # incarnation      -> "StaleIssuer"
       [] \/ \E e \in Epochs : e > highest
          \/ \A e \in Epochs : e < l.issued_epoch -> "EpochMismatch"
       [] \E t \in Times : t > l.not_after        -> "Expired"
       [] OTHER                                   -> "Valid"

HasReplay(id) == \E entry \in replay : entry.request = id
HasEvidence(e) == \E a \in Elements(artifacts) : a.evidence = e
-----------------------------------------------------------------------------
(* Appending *)

\* The operation holds the mutex and has started an append.
Start(at, record) == pc' = at /\ inflight' = record

\* The append was flushed: the record follows everything recovered so far
\* and replaces whatever an earlier failed append left behind it.
Commit ==
  /\ journal_open
  /\ journal' = Append(journal, inflight)
  /\ inflight' = NoRecord
  /\ stray' = NoRecord

\* artifacts.push_back: the artefact joins the evidence in arrival order.
Push(a) ==
  LET n == Len(journal) + 1
  IN artifacts' = [i \in DOMAIN artifacts \cup {n} |-> IF i = n THEN a ELSE artifacts[i]]

\* next_tick_locked(), which a successful operation ends with: unsigned addition.
NextTick == tick' = IF tick = LastTick THEN 0 ELSE tick + 1

\* The mutex is free; Ready also keeps the clock within the model's bound.
Idle == pc = "idle"
Ready == Idle /\ (tick < MaxTick \/ tick = LastTick)
Released == pc' = "idle"
-----------------------------------------------------------------------------
(* create(): recovery, genesis, first decisions *)

Init ==
  /\ pc = "down" /\ inflight = NoRecord
  /\ journal = <<>> /\ stray = NoRecord /\ journal_open = FALSE
  /\ artifacts = [i \in {} |-> NoRecord] /\ leases = {} /\ revoked = {} /\ observations = {}
  /\ replay = {} /\ tick = InitialTick /\ incarnation = 1 /\ lease_sequence = 1
  /\ batch = <<>> /\ passes = 0 /\ progressed = FALSE
  /\ issued = {} /\ granted = [id \in RequestId |-> 0]
  /\ acked = {}

\* The newest record for each key: later records overwrite earlier ones.
RecoveredLeases(j) ==
  {j[i].lease : i \in {k \in DOMAIN j :
     /\ j[k].type = "Lease"
     /\ \A m \in DOMAIN j :
          m > k /\ j[m].type = "Lease" => j[m].lease.id # j[k].lease.id}}
RecoveredObservations(j) ==
  {j[i].observation : i \in {k \in DOMAIN j :
     /\ j[k].type = "PartitionObservation"
     /\ \A m \in DOMAIN j :
          m > k /\ j[m].type = "PartitionObservation"
             => j[m].observation.observer # j[k].observation.observer}}
RecoveredRevocations(j) == {r.id : r \in OfType(j, "LeaseRevocation")}
\* Mutant: recovery skips decision records.
RecoveredReplaySkipped(j) == {}
RecoveredReplay(j) ==
  {[request |-> r.request, decided_at |-> r.decided_at] : r \in OfType(j, "RequestDecision")}
RecoveredArtifacts(j) ==
  [i \in {k \in DOMAIN j : j[k].type = "Artifact"} |-> j[i].artifact]

PersistedTicks(j) ==
  {InitialTick}
    \cup {r.lease.issued_at : r \in OfType(j, "Lease")}
    \cup {r.decided_at : r \in OfType(j, "RequestDecision")}
    \cup {r.value : r \in OfType(j, "TickHighWater")}
PersistedIncarnations(j) == {0} \cup {r.value : r \in OfType(j, "CoordinatorIncarnation")}
\* Mutant: recovery does not look for the highest lease record.
LeaseSequencesForgotten(j) == {0}
LeaseSequences(j) == {0} \cup {i \in DOMAIN j : j[i].type = "Lease"}

\* load_journal: recovery returns the committed records, and a record left
\* behind by a failed append if its bytes reached the disk whole.  A journal
\* with a revocation of an unknown lease is refused.
LoadJournal ==
  /\ pc = "down"
  /\ \E j \in {journal} \cup (IF stray = NoRecord THEN {} ELSE {Append(journal, stray)}) :
       /\ RecoveredRevocations(j) \subseteq {l.id : l \in RecoveredLeases(j)}
       /\ \E t \in PersistedTicks(j), n \in PersistedIncarnations(j), s \in LeaseSequences(j) :
            /\ IsGreatest(t, PersistedTicks(j)) /\ tick' = t
            /\ IsGreatest(n, PersistedIncarnations(j)) /\ n < MaxIncarnation
            /\ incarnation' = n + 1
            /\ IsGreatest(s, LeaseSequences(j)) /\ lease_sequence' = s + 1
            /\ Start("boot", IncarnationRecord(n + 1))
       /\ journal' = j
       /\ leases' = RecoveredLeases(j)
       /\ revoked' = RecoveredRevocations(j)
       /\ observations' = RecoveredObservations(j)
       /\ replay' = RecoveredReplay(j)
       /\ artifacts' = RecoveredArtifacts(j)
  /\ stray' = NoRecord /\ journal_open' = TRUE
  /\ UNCHANGED <<loop, history>>

\* The incarnation is on disk; ensure_genesis pushes the genesis record and
\* starts its append unless the history already has one.
EnsureGenesis ==
  /\ pc = "boot"
  /\ journal_open
  /\ journal' = Append(journal, inflight)
  /\ stray' = NoRecord
  /\ LET genesis == GenesisArtifact(tick)
     IN IF \/ \E a \in Elements(artifacts) : a.kind = "FederationGenesis"
           \/ ~Bootstrap
        THEN Start("decide", NoRecord) /\ UNCHANGED artifacts
        ELSE /\ artifacts' = [i \in DOMAIN artifacts \cup {Len(journal) + 2} |->
                               IF i = Len(journal) + 2 THEN genesis ELSE artifacts[i]]
             /\ Start("genesis", ArtifactRecord(genesis))
  /\ UNCHANGED <<leases, revoked, observations, replay, tick, incarnation,
                 lease_sequence, journal_open, loop, history>>

GenesisRecorded ==
  /\ pc = "genesis"
  /\ Commit
  /\ pc' = "decide"
  /\ UNCHANGED <<memory, journal_open, loop, history>>
-----------------------------------------------------------------------------
(* decide_locked *)

\* Mutant: one pass too many.
DecidePassOneMore ==
  /\ pc = "decide" /\ inflight = NoRecord /\ batch = <<>>
  /\ IF passes > MaxPasses \/ Batch(View) = <<>> \/ (passes > 0 /\ ~progressed)
     THEN Released /\ passes' = 0 /\ progressed' = FALSE /\ UNCHANGED batch
     ELSE batch' = Batch(View) /\ passes' = passes + 1 /\ progressed' = FALSE /\ UNCHANGED pc
  /\ UNCHANGED <<inflight, journal, stray, journal_open, memory, history>>

\* Mutant: the loop runs until a pass records nothing.
DecidePassUnbounded ==
  /\ pc = "decide" /\ inflight = NoRecord /\ batch = <<>>
  /\ IF Batch(View) = <<>>
     THEN Released /\ progressed' = FALSE /\ UNCHANGED batch
     ELSE batch' = Batch(View) /\ progressed' = FALSE /\ UNCHANGED pc
  /\ UNCHANGED <<passes, inflight, journal, stray, journal_open, memory, history>>

DecidePass ==
  /\ pc = "decide" /\ inflight = NoRecord /\ batch = <<>>
  /\ LET records == Batch(View)
         done == \/ passes = MaxPasses
                 \/ records = <<>>
                 \/ passes > 0 /\ ~progressed
     IN IF done
        THEN Released /\ passes' = 0 /\ progressed' = FALSE /\ UNCHANGED batch
        ELSE /\ batch' = records /\ passes' = passes + 1 /\ progressed' = FALSE
             /\ UNCHANGED pc
  /\ UNCHANGED <<inflight, journal, stray, journal_open, memory, history>>

\* Mutant: no has_evidence_locked before the append.
RecordDecisionUnchecked ==
  /\ pc = "decide" /\ inflight = NoRecord /\ batch # <<>>
  /\ inflight' = ArtifactRecord(Head(batch)) /\ UNCHANGED <<batch, progressed>>
  /\ UNCHANGED <<pc, passes, journal, stray, journal_open, memory, history>>

\* record_decision_locked for the next record of the batch: a decision that
\* is already recorded succeeds without a second record.
RecordDecision ==
  /\ pc = "decide" /\ inflight = NoRecord /\ batch # <<>>
  /\ IF HasEvidence(Head(batch).evidence)
     THEN batch' = Tail(batch) /\ progressed' = TRUE /\ UNCHANGED inflight
     ELSE inflight' = ArtifactRecord(Head(batch)) /\ UNCHANGED <<batch, progressed>>
  /\ UNCHANGED <<pc, passes, journal, stray, journal_open, memory, history>>

DecisionRecorded ==
  /\ pc = "decide" /\ inflight # NoRecord
  /\ Commit
  /\ Push(inflight.artifact)
  /\ batch' = Tail(batch) /\ progressed' = TRUE
  /\ UNCHANGED <<pc, passes, leases, revoked, observations, replay, tick, incarnation,
                 lease_sequence, journal_open, history>>
-----------------------------------------------------------------------------
(* Public operations *)

\* submit_artifact: identical evidence changes nothing, an identifier reused
\* with other content is recorded as well.
Submit(a) ==
  /\ Idle
  /\ Cardinality(DOMAIN artifacts) < MaxArtifacts
  /\ a \notin Elements(artifacts)
  /\ Start("submit", ArtifactRecord(a))
  /\ UNCHANGED <<journal, stray, journal_open, memory, loop, history>>

Submitted ==
  /\ pc = "submit"
  /\ Commit
  /\ Push(inflight.artifact)
  /\ pc' = "decide"
  /\ UNCHANGED <<leases, revoked, observations, replay, tick, incarnation,
                 lease_sequence, journal_open, loop, history>>

\* fence_member, retire_member, advance_epoch, complete_reconciliation
Command(a) ==
  /\ Ready
  /\ IF HasEvidence(a.evidence)
     THEN NextTick /\ UNCHANGED <<pc, inflight>>
     ELSE Start("command", ArtifactRecord(a)) /\ UNCHANGED tick
  /\ UNCHANGED <<journal, stray, journal_open, artifacts, leases, revoked, observations,
                 replay, incarnation, lease_sequence, loop, history>>

CommandRecorded ==
  /\ pc = "command"
  /\ Commit /\ NextTick /\ Released
  /\ Push(inflight.artifact)
  /\ UNCHANGED <<leases, revoked, observations, replay, incarnation, lease_sequence,
                 journal_open, loop, history>>

\* evaluate: a request already in the ledger is answered Replayed and only
\* moves the clock; a fresh one is answered once its decision is on disk.
Evaluate(request) ==
  /\ Ready
  /\ IF HasReplay(request.id)
     THEN NextTick /\ UNCHANGED <<pc, inflight>>
     ELSE /\ Authorise(View, request) # "Invalid"
          /\ Cardinality(replay) < MaxReplay
          /\ \E t \in Times :
               /\ IsGreatest(t, Times)
               /\ Start("op", DecisionRecord(request.id, Authorise(View, request), t))
          /\ UNCHANGED tick
  /\ UNCHANGED <<journal, stray, journal_open, artifacts, leases, revoked, observations,
                 replay, incarnation, lease_sequence, loop, history>>

\* Mutant: the answer does not wait for the flush.
Evaluated ==
  /\ pc = "op" /\ inflight.type = "RequestDecision"
  /\ Commit /\ NextTick /\ Released
  /\ replay' = replay \cup {[request |-> inflight.request, decided_at |-> inflight.decided_at]}
  /\ granted' = IF inflight.outcome = "Granted"
                THEN [granted EXCEPT ![inflight.request] = @ + 1] ELSE granted
  /\ UNCHANGED <<artifacts, leases, revoked, observations, incarnation, lease_sequence,
                 journal_open, loop, issued, acked>>

\* Mutant: the lease enters the table before its append is confirmed.
IssueLeaseEarly(request) ==
  /\ Ready
  /\ MayLease(View, request)
  /\ \E epoch \in Epochs :
       LET lease == [id |-> lease_sequence, holder |-> IdentityOf(View, request),
                     issued_epoch |-> epoch, not_after_epoch |-> epoch, issued_at |-> tick,
                     not_after |-> tick + 1, issuer_incarnation |-> incarnation]
       IN Start("op", LeaseRecord(lease)) /\ leases' = leases \cup {lease}
  /\ UNCHANGED <<journal, stray, journal_open, artifacts, revoked, observations, replay,
                 tick, incarnation, lease_sequence, loop, history>>

\* issue_lease: an unset lifetime is the policy's maximum, an unset epoch
\* bound the current epoch; the identifier is derived from lease_sequence.
IssueLease(request) ==
  /\ Ready
  /\ MayLease(View, request)
  /\ Cardinality(leases) < MaxLeases
  /\ LET lifetime == IF request.lifetime = 0 THEN MaxLeaseLifetime ELSE request.lifetime
     IN /\ lifetime \in 1..MaxLeaseLifetime /\ tick + lifetime <= LastTick
        /\ \E epoch \in Epochs :
             /\ IsGreatest(epoch, Epochs)
             /\ request.not_after_epoch = 0 \/ request.not_after_epoch >= epoch
             /\ Start("op", LeaseRecord(
                  [id |-> lease_sequence,
                   holder |-> IdentityOf(View, request),
                   issued_epoch |-> epoch,
                   not_after_epoch |-> IF request.not_after_epoch = 0 THEN epoch
                                       ELSE request.not_after_epoch,
                   issued_at |-> tick,
                   not_after |-> tick + lifetime,
                   issuer_incarnation |-> incarnation]))
  /\ UNCHANGED <<journal, stray, journal_open, memory, loop, history>>

\* Mutant: the lease is returned before its append is flushed.
LeaseIssuedUnflushed ==
  /\ pc = "op" /\ inflight.type = "Lease"
  /\ stray' = inflight /\ inflight' = NoRecord /\ NextTick /\ Released
  /\ leases' = leases \cup {inflight.lease}
  /\ lease_sequence' = lease_sequence + 1
  /\ issued' = issued \cup {inflight.lease}
  /\ UNCHANGED <<journal, revoked, artifacts, observations, replay, incarnation,
                 journal_open, loop, granted, acked>>

LeaseIssued ==
  /\ pc = "op" /\ inflight.type = "Lease"
  /\ Commit /\ NextTick /\ Released
  /\ leases' = {l \in leases : l.id # inflight.lease.id} \cup {inflight.lease}
  /\ revoked' = revoked \ {inflight.lease.id}
  /\ lease_sequence' = lease_sequence + 1
  /\ issued' = issued \cup {inflight.lease}
  /\ UNCHANGED <<artifacts, observations, replay, incarnation, journal_open, loop,
                 granted, acked>>

\* revoke_lease marks the lease in memory before the append is confirmed (and
\* before a detail that is too long is refused, which AppendFailed stands for).
RevokeLease(id) ==
  /\ Ready
  /\ id \in {l.id : l \in leases} \ revoked
  /\ revoked' = revoked \cup {id}
  /\ Start("op", RevocationRecord(id))
  /\ UNCHANGED <<journal, stray, journal_open, artifacts, leases, observations, replay,
                 tick, incarnation, lease_sequence, loop, history>>

LeaseRevoked ==
  /\ pc = "op" /\ inflight.type = "LeaseRevocation"
  /\ Commit /\ NextTick /\ Released
  /\ acked' = acked \cup {inflight.id}
  /\ UNCHANGED <<artifacts, leases, revoked, observations, replay, incarnation,
                 lease_sequence, journal_open, loop, issued, granted>>

\* A lease already marked revoked is reported as revoked, with no append.
RevokeAgain(id) ==
  /\ Idle
  /\ id \in {l.id : l \in leases} \cap revoked
  /\ acked' = acked \cup {id}
  /\ UNCHANGED <<pc, inflight, journal, stray, journal_open, memory, loop, issued, granted>>

\* Mutant: the observation enters memory before its append is confirmed.
ReportObservationEarly(o) ==
  /\ Ready
  /\ Start("op", ObservationRecord(o))
  /\ observations' = observations \cup {o}
  /\ UNCHANGED <<journal, stray, journal_open, artifacts, leases, revoked, replay, tick,
                 incarnation, lease_sequence, loop, history>>

ReportObservation(o) ==
  /\ Ready
  /\ Start("op", ObservationRecord(o))
  /\ UNCHANGED <<journal, stray, journal_open, memory, loop, history>>

ObservationReported ==
  /\ pc = "op" /\ inflight.type = "PartitionObservation"
  /\ Commit /\ NextTick /\ Released
  /\ observations' = {o \in observations : o.observer # inflight.observation.observer}
                       \cup {inflight.observation}
  /\ UNCHANGED <<artifacts, leases, revoked, replay, incarnation, lease_sequence,
                 journal_open, loop, history>>

\* advance_time moves the clock before the append is confirmed.
AdvanceTime(to) ==
  /\ Idle
  /\ to > tick
  /\ tick' = to
  /\ Start("op", TickRecord(to))
  /\ UNCHANGED <<journal, stray, journal_open, artifacts, leases, revoked, observations,
                 replay, incarnation, lease_sequence, loop, history>>

TimeAdvanced ==
  /\ pc = "op" /\ inflight.type = "TickHighWater"
  /\ Commit /\ Released
  /\ UNCHANGED <<memory, journal_open, loop, history>>
-----------------------------------------------------------------------------
(* Failures *)

\* What the process knew is gone; only the file remains.
MemoryLost ==
  /\ pc' = "down" /\ inflight' = NoRecord /\ journal_open' = FALSE
  /\ artifacts' = [i \in {} |-> NoRecord] /\ leases' = {} /\ revoked' = {}
  /\ observations' = {} /\ replay' = {}
  /\ tick' = InitialTick /\ incarnation' = 1 /\ lease_sequence' = 1
  /\ batch' = <<>> /\ passes' = 0 /\ progressed' = FALSE

\* What an unconfirmed append may leave behind size_bytes_: the record whole
\* (written, not flushed), a fragment that recovery discards, or nothing, so
\* that an older stray record survives.
Leftover == stray' \in {stray, inflight, NoRecord}

\* append() fails in a public operation: an error is returned, the size and
\* the sequence stay, memory keeps what was changed before the append.  A
\* closed journal refuses before it writes.
AppendFailed ==
  /\ pc \in {"submit", "command", "op"}
  /\ IF journal_open THEN Leftover ELSE UNCHANGED stray
  /\ inflight' = NoRecord /\ Released
  /\ UNCHANGED <<journal, journal_open, memory, loop, history>>

\* The batch goes on after a record that could not be appended.
DecisionFailed ==
  /\ pc = "decide" /\ inflight # NoRecord
  /\ IF journal_open THEN Leftover ELSE UNCHANGED stray
  /\ inflight' = NoRecord /\ batch' = Tail(batch)
  /\ UNCHANGED <<pc, passes, progressed, journal, journal_open, memory, history>>

\* create() returns an error and there is no coordinator.
CreateFailed ==
  /\ pc \in {"boot", "genesis"}
  /\ Leftover /\ MemoryLost
  /\ UNCHANGED <<journal, history>>

\* stop() closes the journal; the object stays and answers its callers.
Stop ==
  /\ Idle /\ journal_open
  /\ journal_open' = FALSE
  /\ UNCHANGED <<pc, inflight, journal, stray, memory, loop, history>>

Crash ==
  /\ pc # "down"
  /\ IF inflight = NoRecord \/ ~journal_open THEN UNCHANGED stray ELSE Leftover
  /\ MemoryLost
  /\ UNCHANGED <<journal, history>>
-----------------------------------------------------------------------------
Next ==
  \/ LoadJournal \/ EnsureGenesis \/ GenesisRecorded
  \/ DecidePass \/ RecordDecision \/ DecisionRecorded
  \/ \E a \in MemberArtifact : Submit(a)
  \/ Submitted
  \/ \E a \in Commands(View) : Command(a)
  \/ CommandRecorded
  \/ \E r \in AuthorityRequest : Evaluate(r)
  \/ Evaluated
  \/ \E r \in LeaseRequest : IssueLease(r)
  \/ LeaseIssued
  \/ \E l \in leases : RevokeLease(l.id)
  \/ LeaseRevoked
  \/ \E l \in leases : RevokeAgain(l.id)
  \/ \E o \in Observation : ReportObservation(o)
  \/ ObservationReported
  \/ \E t \in 0..MaxTick : AdvanceTime(t)
  \/ TimeAdvanced
  \/ AppendFailed \/ DecisionFailed \/ CreateFailed
  \/ Stop \/ Crash

Spec == Init /\ [][Next]_vars

\* The thread that holds the mutex finishes: a disk operation returns, one way
\* or the other, and the loop of decide_locked keeps going.
Progress ==
  \/ EnsureGenesis \/ GenesisRecorded \/ DecidePass \/ RecordDecision
  \/ DecisionRecorded \/ DecisionFailed \/ Submitted \/ CommandRecorded \/ Evaluated
  \/ LeaseIssued \/ LeaseRevoked \/ ObservationReported \/ TimeAdvanced
  \/ AppendFailed \/ CreateFailed

FairSpec == Spec /\ WF_vars(Progress)
-----------------------------------------------------------------------------
(* Properties *)

\* What is asked of the derivation: it makes coordinator artefacts, and only
\* the genesis record has the identifier of the genesis record.
DerivationWellFormed ==
  /\ Batch(View) \in Seq(CoordinatorArtifact)
  /\ Commands(View) \subseteq CoordinatorArtifact
  /\ GenesisArtifact(tick) \in CoordinatorArtifact
  /\ \A a \in Elements(artifacts) :
       a.evidence = GenesisArtifact(tick).evidence => a.kind = "FederationGenesis"
  /\ \A r \in LeaseRequest : IdentityOf(View, r) \in Identity
  /\ \A r \in AuthorityRequest : Authorise(View, r) \in Outcome

StateTyped ==
  /\ pc \in {"down", "boot", "genesis", "decide", "idle", "submit", "command", "op"}
  /\ inflight \in Record \cup {NoRecord} /\ stray \in Record \cup {NoRecord}
  /\ journal \in Seq(Record) /\ journal_open \in BOOLEAN
  /\ DOMAIN artifacts \subseteq Nat /\ \A i \in DOMAIN artifacts : artifacts[i] \in Artifact
  /\ leases \subseteq Lease /\ revoked \subseteq Nat /\ observations \subseteq Observation
  /\ replay \subseteq [request : RequestId, decided_at : Nat]
  /\ tick \in Nat /\ incarnation \in Nat /\ lease_sequence \in Nat
  /\ batch \in Seq(CoordinatorArtifact) /\ passes \in 0..MaxPasses /\ progressed \in BOOLEAN
  /\ issued \subseteq Lease /\ granted \in [RequestId -> Nat] /\ acked \subseteq Nat

\* Type invariant of the coordinator's memory, its journal and its history, and
\* of what the derivation returns in every state the coordinator reaches.
TypeOK == StateTyped /\ DerivationWellFormed

\* Two leases ever handed to callers never share an identifier, although
\* lease_sequence is not persisted and is rebuilt from journal sequence
\* numbers after every restart (load_journal, issue_lease).
LeaseIdsUnique == \A a, b \in issued : a.id = b.id => a = b

\* A lease is spendable when the table holds it and evaluate_lease says Valid.
Spendable(l) == l \in leases /\ LeaseState(l) = "Valid"

\* A lease that was handed out and cannot be spent any more (revoked, expired,
\* its epoch passed, its issuer restarted, the coordinator down) never becomes
\* spendable again: not by a restart, a failed revocation or a late record.
DeadLeaseStaysDead == [][\A l \in issued : ~Spendable(l) => ~Spendable(l)']_vars

\* The clock is not at the last value of its type, from which it wraps.
ClockHasRoom == tick # LastTick

\* A request identifier is answered Granted at most once over the whole life of
\* the journal, restarts and failed appends included (evaluate, load_journal).
GrantedAtMostOnce == \A id \in RequestId : granted[id] <= 1

\* What a caller was told happened is on disk: leases that were returned and
\* requests that were granted are in the journal (append before reply).
AcknowledgedIsDurable ==
  /\ \A l \in issued : LeaseRecord(l) \in Elements(journal)
  /\ \A id \in RequestId : granted[id] > 0 =>
       \E r \in OfType(journal, "RequestDecision") : r.request = id

\* No decision record of the coordinator is ever quarantined: its evidence
\* identifier is used once, although a decision may be taken again after a
\* failed append or a restart at another tick (record_decision_locked).
DecisionsNeverQuarantined ==
  \A i, k \in DOMAIN artifacts :
    /\ artifacts[i] \in CoordinatorArtifact
    /\ artifacts[i].evidence = artifacts[k].evidence
    => i = k

\* While the coordinator runs, a restart would rebuild exactly the evidence,
\* leases, ledger and observations it has in memory.
MemoryIsReplay ==
  pc \notin {"down", "genesis"} =>
    /\ artifacts = RecoveredArtifacts(journal)
    /\ leases = RecoveredLeases(journal)
    /\ replay = RecoveredReplay(journal)
    /\ observations = RecoveredObservations(journal)
    /\ RecoveredRevocations(journal) \subseteq revoked

\* The journal never holds a revocation without its lease, so recovery never
\* refuses the history as Corrupt for that reason (load_journal).
NoOrphanRevocation ==
  \A r \in OfType(journal, "LeaseRevocation") :
    \E q \in OfType(journal, "Lease") : q.lease.id = r.id

\* Every operation gives the mutex back: the passes of decide_locked are
\* bounded even when they only find decisions that are recorded already.
MutexReleased == (pc \notin {"idle", "down"}) ~> (pc \in {"idle", "down"})

\* docs/authority-model.md: "Revocations are durable".  A revocation that was
\* reported as success is on disk.
AcknowledgedRevocationIsDurable ==
  \A id \in acked : RevocationRecord(id) \in Elements(journal)
==============================================================================
