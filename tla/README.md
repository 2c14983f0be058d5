# Fabric Federation: TLA+ models, model checking and proofs

Fabric Federation is a C++ library in which independently administered members share
authority under a federation they have agreed to. A *coordinator* keeps a journal of signed
evidence (artefacts), derives the federation's state from it as a pure function, and answers
authority requests, issues leases and takes membership decisions from that state. This
directory holds the specifications of that program, the configurations TLC checks them with,
and the proofs TLAPS checks.

## The system

| Part | State | Operations | Correct when |
| --- | --- | --- | --- |
| Coordinator (`src/src/coordinator.cpp`) | artefacts, leases, observations, replay ledger, tick, incarnation, lease sequence, journal handle; one mutex | `create`, `submit_artifact`, `evaluate`, `issue_lease`, `revoke_lease`, `report_observation`, `advance_time`, `fence_member`, `retire_member`, `advance_epoch`, `complete_reconciliation`, `start`, `stop` | what it told a caller survives a restart; memory is what recovery would rebuild; dead authority stays dead |
| Journal (`journal.cpp`) | file, end of the good bytes, next sequence | `open` (scan, torn-tail truncation), `append`, `load`, `compact`, `close` | acknowledged records are recovered, in order; a damaged history is refused, never rewritten |
| Lease evaluation (`lease.cpp`) | none | `evaluate_lease` | the first failing binding names the state |
| State derivation (`state.cpp`) | none (pure) | `derive_state` | independent of arrival order; conflicts withhold the grant from everybody |
| Membership (`membership.cpp`) | none (pure) | `derive_membership`, `assess_multi_party` | only admitted, consenting, current members hold authority |
| Partition (`partition.cpp`) | none (pure) | `assess_partition` | isolation is derived from fresh mutual observations only |
| Authority (`authority.cpp`) | none (pure) | `evaluate_authority` | granted only for what is held, at the current epoch, once per request |
| Decisions (`coordinator.cpp`: `decide_locked`, `admit_locked`) | the artefacts | admit, activate, fence, retire | derived from evidence, taken once, independent of arrival order |
| Server (`coordinator.cpp`, `net.cpp`) | listener, connection queue, worker threads, active sockets, stop flags | `accept_loop`, `worker_loop`, `serve`, `stop` | bounded queue; `stop` returns; every connection is answered or closed |
| Protocol and client (`protocol.cpp`, `client.cpp`) | connection, correlation number | hello, request and reply frames | a reply answers the request it belongs to |
| Member runtime (`member_runtime.cpp`) | declared identity, coordinator connection, probe listener | propose, accept, re-attest, delegate, withdraw, probe, report | retries are idempotent |
| Codec and payloads (`codec.cpp`, the `encode` and `decode` of every structure) | none (pure) | `Writer`, `Reader`, `decode_payload` | what one side encodes the other decodes, damaged payloads are refused |
| Text, hashing, names, JSON, process, applications | none | formatting and I/O | outside the models |

How they interact: members and operators call the coordinator, directly or through the
server, one call at a time under its mutex. Every call derives the state again from the
evidence in memory, and every change is one record appended to the journal before memory
changes (with three exceptions, all modelled: the genesis record, a revocation and the clock
change memory first). Recovery replays the records into memory.

What is hard here: an append can fail after the bytes reached the disk, and the process can
die between any two steps, so a restarted coordinator may know less, or one record more, than
its callers were told; identifiers, the clock and the incarnation are reconstructed rather
than stored; decisions are retried at a different tick under the same identifier; evidence
arrives in any order, twice, or with a cached epoch, and who stands depends on who else
stands; members restart, withdraw and are fenced while their requests are on the way; clients
share a connection between threads; nothing has a timeout; and the server's and the probe
listener's threads meet `stop` at every point. `PROJECT.json` lists these hazards with the
lines where they bite.

## Modules

| Module | What it is |
| --- | --- |
| `Coordinator` | the durable state machine of `FederationCoordinator`, parameterised by the derivation |
| `MCCoordinator` | a small derivation (a proposal, its retry, its admission, epoch advances) and the values of the constants |
| `CoordinatorProofs` | the proofs about `Coordinator` |
| `ServerPool` | accept thread, connection queue, workers and `stop` |
| `ServerPoolProofs` | the proofs about `ServerPool` |
| `Log` | what the journal promises: a history that grows at its end or is replaced as a whole |
| `JournalFile`, `MCJournal` | the journal's file: scan, torn tails, append, compaction, failing I/O and crashes; implements `Log` |
| `JournalProofs` | the proofs about `JournalFile`, the refinement of `Log` among them |
| `Scopes`, `Policy` | scopes, grants and which covers which; the rules of a policy and what they add up to |
| `Membership` | `derive_membership` and `assess_multi_party` for one member |
| `PartitionAssessment` | `assess_partition` over the observations a coordinator holds |
| `Derivation` | `derive_state`: quarantine, epoch, the standing fixpoint, reconciliation, claims, conflicts, grants |
| `Authority` | `evaluate_authority`, its checks in their order |
| `Decision` | `decide_locked` on top of the derivation: the records the coordinator writes by itself |
| `Federation`, `MCFederation` | member runtimes, breaking connections and the coordinator, composed |
| `DerivationProofs` | facts about `derive_state` and `decide_locked` for any evidence, and induction over the naturals in the form the provers can use |
| `FederationProofs` | the proofs about `Federation` |
| `Convergence`, `MCConvergence` | several coordinators that receive the same evidence in different orders |
| `ConvergenceProofs` | the proofs about `Convergence` |
| `Session`, `MCSession` | one client connection shared by threads, and the worker that serves it |
| `SessionProofs` | the proofs about `Session`, and about the payloads of `Wire` |
| `Probing`, `MCProbing` | probes between members, the listener thread and its shutdown |
| `ProbingProofs` | the proofs about `Probing` |
| `WireFormat` | the fields every `encode` writes and every `decode` reads, with their bounds |
| `Wire` | the reader and the writer, and a payload's way from one to the other |

`Scopes` and `Policy` are extended by `Membership`, that and `PartitionAssessment` by
`Derivation`, and so on through `Authority` and `Decision` to `Federation` and `Convergence`:
both run the same derivation. `Coordinator` leaves the derivation open, because what it says
about restarts and leases does not depend on it; `Federation` leaves the journal's failures
out for the same reason.

### Coordinator

The mutex makes operations exclusive, so the model has one program counter. An operation that
appends is two actions: one that does what comes before the append and puts the record *in
flight* (`IssueLease`), and one that does what follows its success (`LeaseIssued`). In between
the append may fail (`AppendFailed`, `DecisionFailed`, `CreateFailed`) or the process may die
(`Crash`). Early returns are the guards.

* `journal` is the sequence of records that recovery is bound to return. `stray` is a record
  that a failed append left whole on the disk behind the end the journal accounts for;
  recovery may return it, a later append overwrites it.
* `artifacts` maps the journal position an artefact was recorded at to the artefact: the
  arrival order, with the positions other records take left out.
* A lease identifier is a digest of the federation and `lease_sequence`; it is modelled by the
  number. `lease_sequence` is rebuilt from the *journal sequence* of the last lease record.
* The logical clock and the incarnation are rebuilt from records (`PersistedTicks`,
  `PersistedIncarnations`); `LoadJournal` takes their greatest elements.
* `revoked` holds the identifiers whose lease has its `revoked` flag set.
* `issued`, `granted` and `acked` are history: what callers were told.
* `next_tick_locked` adds 1 to an unsigned number of which `LastTick` is the last value.
* The derivation is a parameter (`Batch`, `Commands`, `MayLease`, `IdentityOf`, `Authorise`).
  The coordinator's own use of it (quarantine, epoch, logical time, lease states) is defined
  in the module. `DerivationWellFormed` says what is asked of the parameters; the runs check
  it, as a part of `TypeOK`.

Assumptions: members' artefacts carry no logical time and are never epoch advances, which is
what `member_runtime.cpp` builds; a coordinator artefact and a member artefact never share an
evidence identifier (identifiers are digests over the kind and the issuer's key). The
coordinator has a journal and a valid configuration.

### ServerPool

Each thread has a program counter; a step is what happens between two points where another
thread, a client or `stop` can interfere.

* `queue_mutex` sections are one step, except the one of a worker that goes to sleep: the
  predicate of `queue_cv.wait` (`WorkerDecidesToWait`) and the block that releases the mutex
  (`WorkerBlocks`) are two, and `queue_owner` keeps everybody else out in between. `stopping`
  is an atomic that `stop` sets, and notifies about, without that mutex.
* `active` is the registry of weak references, `doomed` the owning references
  `shutdown_connections` collects, `open` the sockets whose handle is open: it closes with the
  last reference.
* Clients connect, send, fall silent and disconnect at any time. A frame is a hello that
  `serve` accepts, or another one; a read ends with a frame, when the client is gone, or when
  the socket was shut down. What a request does is module `Coordinator`.
* Whether closing a listening socket ends a blocked `accept` depends on the platform (on Linux
  it does not): `CloseListener` chooses, and `held` is set when the accept goes on. An `accept`
  may also fail for reasons of its own (`AcceptRefused`).

Not modelled: a second `start`, writes that block because a client does not read, and the
unsynchronised access of two threads to the listener's handle.

### JournalFile

The file is a sequence of cells; a record takes at least two, the first with its length and
sequence number, the last with its digest, and the header is a record of its own. A cell knows
the record it was written for, so a digest is right exactly when all cells of a record are in
place; where the scan meets the middle of some other record, every outcome the code has is
possible. `Scan` returns how far the file is good and the payloads it passed; `Recovery` is
what the scan may report about the file. `flushed` leading cells survive anything; a crash keeps a prefix of the rest. A
write, a flush, a truncation or a rename may fail, an append may be cut at any cell; `faulted`
remembers that some operation failed without a crash. `ImplementsLog` maps the flushed,
complete records to `Log`'s history and the complete records behind them to its pending ones.

Left out: a second process that opens the same file, directory entries that are lost in a
crash, a header of another version, and `truncate_torn_tail = false`, which nothing sets.

### The derivation: Scopes to Decision

Artefacts are records: kind, subject, issuer, lineage, epoch, the identity (constitution and
incarnation) they speak of, what they carry, a *stamp* and a *rank*. `derive_state` sorts
artefacts by identifier (state.cpp:438); an identifier is a digest, so its place among others is
arbitrary, and `Federation` gives a new artefact any free place.

The stamp is the part of the envelope that may differ between two artefacts with one body: the
tick of issue and the constitution and incarnation of the issuer (`Provenance::encode`). An
identifier hashes the body (`evidence_id_from`). The bodies of `StampedKinds` carry the
declaration or the identity of their issuer, with the tick it was declared at, so that a
repetition at another tick is another artefact (acceptances, re-attestations, declarations,
withdrawals, leaves, a member's own fence). A proposal and an endorsement carry the
candidate's declaration instead, which the applications leave without a time: repeated at
another tick they keep their identifier (`EvidenceId`) and change their content
(`SameContent`), and `prepare_artifacts` quarantines both. Each operator stands for one section of the C++
function and is named after what it computes. The recursion in the fixpoint and in the
decision passes is written with recursive functions. `derive_membership` and `derive_state` are
cut at their sections, each an operator that takes what the sections before it computed
(`Facts`, then `Lifecycle`, then `Derived`; `FromPrepared` to `WithAuthority`).

Abstracted: texts, explanations and rendering; identifiers and digests are values; a
constitution is a model value with the fields the derivation reads.

### Federation and Convergence

A member's operation reads the coordinator's clock (`refresh_clock`), builds its artefact and
puts it on the wire; `Admit` is `admit_locked` with everything it does, up to the decisions;
`Lose` breaks the connection, before or after the coordinator has acted, and the caller
repeats. Authority requests carry the epoch and the run their sender knew when it asked.
Operators fence, retire, move the epoch and record a reconciliation.

`setting` is fixed in the initial state: the configured policy, `kMaxArtifacts`, the members
that joined before the behaviour begins (`Init` gives them the evidence that `Joining`
produces), which operations happen with which arguments, and the bounds. One run thereby
covers several configurations, each with the operations that bear on one question.

In `Convergence` each coordinator receives the artefacts of `pool`, one of `Pools`, in its own
order, repeated and equivocating ones included, decides after each, and is compared with the
others when both hold the same evidence. `Authority` is what `evaluate_authority` reads of a
state; `EncodeState` is what the state digest covers, but for reasons, the components of a
partition (nobody observes here) and the coordinator's own identity. A pool
is a set of what member runtimes build (`Sendable`). Epoch advances are evidence too, recorded
when the operator of each coordinator likes. The clock stays where it is, since the order of
arrival is what the module is about.

### Session

`pc` follows each thread through `exchange`: take the mutex, write, read, and for
`query_digest` take it again to store the answer. A frame is its type, the call it belongs to
and what it carries. `Break` is a connection that fails, `CloseClient` another thread's
`close`, `Clock` what other connections do to the coordinator's clock. The worker's step is
`handle_message`, one action per kind of case; its last branch answers types no client of this
library sends and is not reached. The handshake may be refused for its version or federation.

### Probing

Each member has a control thread, which probes, opens and closes the listener, and a listener
thread, which serves one connection at a time. Ports are ephemeral: a port that was closed may
be given to another member, and a member may crash and come back with another incarnation.
`federation` says which federation each member belongs to; a probe from another one is dropped.
A `Stop` whose close leaves the accept pending puts the listener thread in state "held". The
backlog is unbounded; refreshing the clock from the coordinator in the listener thread is left
out.

### WireFormat and Wire

For each of the structures with an `encode` and a `decode`, `XEncode` and `XDecode` are the
two functions as sequences of fields, each with its width and the bound the call passes; they
are translated separately, so that `RoundTrip` compares two pieces of code. `Wire` takes a
structure, sets one field to each of its edges (zero, one, its bound, one past it) and the
others to a plain value, encodes it, lets it arrive whole, cut or extended, and decodes it.
Widths are scaled to one to six cells. A text is its length and a list its count; the elements
of a list are plain, as every element type is checked by itself. Characters, UTF-8, sorted
order within a collection and the inverted version range of a capability are left out.

### Bounds

In `Coordinator`, `MaxTick`, `MaxIncarnation` and `MaxEpoch` bound the clock, the restarts and
the epochs. Two to three incarnations are enough for a lease or a decision to meet a restart
before, during and after the operation that follows it, three ticks for a lease of lifetime 1
to be issued, to expire and to be compared with a later one; `MaxLeases = 2` and
`MaxPasses = 2` reach the limits that are 8192 and 258 in the code. `LastTick` is out of reach.
Other capacities are chosen so that both sides of their test are taken. There is no deadlock
check: a coordinator that was stopped, or whose journal is refused, may stay as it is for ever.

The server run has two workers (one can be woken for a connection the other takes), two
connections, `MaxPending = 1` (the second finds the queue full, or a worker busy) and one
failing accept; the accept loop gives up after the second failure in a row instead of the 65th.
A client has at most one unread frame. A stopped server stays stopped, hence no deadlock check.

The journal run has two payloads of different length (so that a record may leave a remnant
behind a shorter one), four records at most and a replacement of the history. The bound on the
number of records is out of reach, see below.

The federation runs have a founder and one or two members: two candidates are the least that
can vouch for each other, and the exclusive claims of two members the least that conflict.

| Setting | Run | What happens in it |
| --- | --- | --- |
| `Joining` | members | two candidates, proposed by anybody and endorsed by each other, under a policy with a mandatory capability |
| `Epochs` | members | a member joins, restarts and re-attests on a breaking connection while the operator fences, retires and moves the epoch |
| `Rejoining` | members | a member leaves, changes its constitution and comes back in the next lineage |
| `SelfFencing` | members | a member fences itself or leaves, and comes back as it was |
| `Sponsoring` | members | two members sponsor a third; anybody is fenced |
| `Conflicts` | grants | two claimants of an exclusive grant, one with precedence, withdraw, declare anew, leave and are fenced |
| `Requests` | grants | requests for global mutation while the member restarts, withdraws, is observed and the epoch moves, on a connection that breaks |
| `Leasing` | grants | the same under a policy that asks for a lease, with leases of several lifetimes, for this epoch or for the next one too, that expire and outlive runs |
| `Recovering` | grants | recovery and ordinary epochs, re-attestations and reconciliation records |
| `Unreliable` | members | two sponsors and a candidate on connections that break; all repeat their calls, and the clock moves between two of them |

They have one or two epochs beyond the first, two incarnations (a run and its successor),
lineages 0 and 1 (before and after a leave), and as many ticks as it takes for a lease to expire
or an identifier to be built twice. `MaxArtifacts` stops the growth of the evidence; all other
conditions of `admit_locked` come before that test.

The convergence run has two coordinators, which are interchangeable, one epoch advance at
each, and seven pools: two members that join, the second through the first, with a repeated
proposal, a re-attestation of the second epoch, or an amended constitution; a member
that re-attests two constitutions and comes back to its first; one that leaves and returns; one
that fences itself in the first epoch or in the second. The pool of `convergence_reordered` is
a proposal, its acceptance and a re-attestation by the next incarnation. The session run has two threads with one call each beyond the handshake, the
least that interleave; all request types occur. The probing run has two members, two
incarnations and a round of probing each. `Wire` covers every field of every structure at each
edge.

There is no deadlock check where calls are bounded in number: an instance ends when all have
been made.

## Runs

| Run | Properties | Shows |
| --- | --- | --- |
| `coordinator_leases` | `LeaseIdsUnique`, `AcknowledgedIsDurable`, `NoOrphanRevocation`, `DeadLeaseStaysDead` | lease identifiers are never reused across restarts; leases returned to callers and granted requests are on disk; no revocation is on disk without its lease; a lease that could not be spent once is never spendable again |
| `coordinator_evidence` | `TypeOK`, `GrantedAtMostOnce`, `DecisionsNeverQuarantined`, `MemoryIsReplay`, `MutexReleased` | types; one grant per request; no decision of the coordinator is quarantined by its own retry; memory is what a restart would rebuild; every operation gives the mutex back |
| `coordinator_revoke` | `AcknowledgedRevocationIsDurable` | expects a violation, see Findings |
| `server` | `TypeOK`, `OneHolder`, `RegistryIsLive`, `StoppedIsQuiet`, `StopReturnsOrIsStuck`, `ConnectionServed` | types and the queue's bound; every open connection is in one place, and closed when it is nowhere; the registry holds live connections only; the journal outlives the workers; a returned `stop` leaves nothing behind; no queued connection waits while a worker is free; `stop` returns or is in one of three situations: `AcceptStuck`, `LostWakeup`, `LateHello` |
| `journal` | `CrashLeavesWritable`, `ImplementsLog`, `RecoveredIsServed` | the file implements `Log`: what was acknowledged is history, whatever fails or crashes, until it is replaced as a whole; what an open recovers is what `load` returns; without I/O errors a crash at any point leaves a journal that opens writable |
| `federation_members` | `NeverConscripted`, `StandingIsGrounded`, `FenceIsSticky`, `EpochKeepsStanding`, `LossIsContained`, `CandidatesBecomeActive` | who holds authority was proposed by somebody else and accepted; standing is grounded in the founder; a fence is never lifted within a lineage; whoever loses its standing has new evidence about it or had a sponsor or endorser that lost its own, and no group loses it for each other's sake; an epoch advance takes nobody's standing; in `Unreliable`, every candidate whose parties repeat their calls becomes active, unless all its proposals quarantine each other |
| `federation_grants` | `ExclusiveHasOneHolder`, `DisputeIsContained`, `WithdrawalStands`, `GrantIsWarranted`, `LeaseBacksGrant`, `ReconcilingBeginsWithRecovery` | what is delegated exclusively has one holder at most; a dispute reaches only the grant it is about; a withdrawn grant stays withdrawn, however often it is withdrawn; a granted request comes from the current run of a member that stands, at the current epoch, for what it holds, and rests on a lease of this run, for epochs that include this one, where the policy asks for one; reconciling begins only with a recovery epoch, or with a member that newly stands and has not re-attested |
| `convergence` | `SameEvidenceSameAuthority`, `SameEvidenceSameStanding` | standing depends neither on the order, the repetition or the equivocation of the evidence nor on when an epoch advance was recorded; nor do lifecycles, identities and authority as long as the epoch has not moved; but for the situations below |
| `convergence_reordered` | `DigestIgnoresOrder` | expects a violation, see Findings |
| `session` | `AnswerIsOwn`, `SuccessWasDone`, `CallsReturn` | an answer belongs to the call it is returned for; success means the operation took effect once; every call returns |
| `probing` | `ReachableWasRunning`, `ProbesFinish`, `StopReturns` | who is reported reachable was running, as the reported incarnation, during the probe; probes and stops return but for a listener whose thread has died, and an accept the close did not end |
| `wire_codec` | `RoundTrip`, `DamageIsRejected` | every structure decodes to what was encoded, at all its bounds; cut or extended payloads are refused |

Fairness in `FairSpec` is weak fairness of the thread that holds the mutex: a file operation
returns, with success or an error, and the loop in `decide_locked` goes on. No fairness is
assumed of callers, of restarts or of success.

In `ServerPool`, `FairSpec` is weak fairness of the accept thread, of each worker and of the
thread in `stop`: a thread that can take a step is scheduled in the end. It does not make
`accept` fail, clients act, spurious wakeups happen or `stop` be called.

In `Federation`, `Retrying` says that, in a setting that is `retrying`, the sponsors of a
candidate and the candidate keep calling as long as the candidate does not hold authority, and that a call repeated for
ever gets through in the end (strong fairness, as the connection may break each time): the
retries of the applications, and a network that is not down for ever. In `Session` it is weak
fairness of each thread and of the worker, and strong fairness of taking the mutex, which
`std::mutex` does not promise but every implementation in use gives in the long run; the
connection may break or not. In `Probing` it is weak fairness of the threads. In the last two no
timeout, failure or help from outside is assumed.

### Findings

Two runs expect a violation.

`coordinator_revoke`: `revoke_lease` sets the flag before the append and
keeps it when the append fails; the caller's retry is then answered with success although
nothing was written, and after a restart the lease is not revoked.

`convergence_reordered`: a member is proposed, accepts, and re-attests as its next incarnation.
Where the acceptance arrives first, the coordinator activates the first incarnation, which the
re-attestation then supersedes; where the re-attestation arrives first, it activates the second
and nothing is superseded. The superseded incarnations are read from the coordinator's own
activation records (membership.cpp:568) and the digest covers them (state.cpp:111), so that the
two digests differ although the evidence is the same. What the members may do is the same
(`SameEvidenceSameAuthority`).

`PROJECT.json` quotes the statements of the documents these contradict.

### Where the code and its documents part

The models show more places where the code does not do what a document, a comment or a test
says. The property is then stated with the exception named, so that the run shows that there
is no other:

* `StopReturnsOrIsStuck` (server). `stop` stores `stopping` and notifies without `queue_mutex`:
  a worker that found its predicate false before the store and blocks after the second
  notification sleeps for ever (`LostWakeup`, coordinator.cpp:765). A worker that has taken a
  connection registers it after `shutdown_connections` has copied the registry, and reads a
  hello before it looks at `stopping` (`LateHello`, line 1446). On Linux `close` does not end a
  pending `accept` (`AcceptStuck`, net.cpp:300).
* `StopReturns`, `ProbesFinish` (probing). The same `close` in `stop_probe_listener`; and the
  first accept that fails ends the listener thread and leaves the listener open, so that peers
  connect and wait for ever (member_runtime.cpp:719).
* `CrashLeavesWritable` (journal). A failed append leaves its bytes behind the end; the next one
  overwrites only its own length, and if it is shorter, or is cut by a crash, the next open
  finds the rest and refuses the journal (journal.cpp:677).
* `CandidatesBecomeActive` (federation). A proposal repeated at another tick, because the
  answer to the first was lost, has the identifier of the first (member_runtime.cpp:22, 215) and
  another content (line 191); both are quarantined, and repeating them in the same epoch does
  not help. If that happened to every proposal of a candidate, it is not admitted:
  `ProposedTwice`.
* `LossIsContained` (federation). Admissions are evaluated again at every derivation, so
  fencing a sponsor takes the standing of everybody it sponsored (membership.cpp:439).
* `SameEvidenceSameAuthority` (convergence). The epoch at which a coordinator happened to decide
  shows in the lifecycle it derives (membership.cpp:587): `Moved`. `decide_locked` derives a
  member again, from the evidence before its quarantine and with the Active members as the only
  sponsors; a sponsor that is established but not Active, since it re-attested an amended
  constitution, is none to it (coordinator.cpp:447), so that the newcomer stays Admitted
  without an activation: `Stuck`.
* `SameEvidenceSameStanding` (convergence), and with it the authority. A member's own fence of a
  past epoch is overtaken by an activation of a later one (membership.cpp:629), which is written
  only if the member returned after the epoch moved: `OldFence`. A member that has re-attested
  another generation, under a policy that asks for consent to it, loses the standing that an
  activation written before the re-attestation would show it had: `Reconstituted`. The founder
  needs no sponsor, and when it has left, whether its next lineage is derived depends on the
  coordinator's own records that name it: `FounderLeft`.
* `DeadLeaseStaysDead` (coordinator). The theorem has the hypothesis that the clock has room:
  `advance_time` accepts the last tick there is, and the next operation adds 1 to it unchecked
  (coordinator.cpp:140).

Others were met while modelling and no run is about them:

* Operations end with `next_tick_locked`, which is not persisted: a restarted coordinator may
  resume at an earlier tick. No lease profits (`DeadLeaseStaysDead`).
* `append` does not check the record bound that `open` enforces (journal.cpp:490): the theorems
  about the journal have a hypothesis for it. `compact` does not look at the mode the journal was opened in (line 744).
* A proposal that names the founder takes the founder's standing (membership.cpp:425); a founder
  that left stands again when somebody else's artefact names its next lineage (line 524).
* Of two re-attestations the last in canonical order counts, not the one of the current epoch
  (membership.cpp:592), and re-attestations from before a recovery epoch lift its suspension
  (state.cpp:746). A restarted member re-attests with its cached epoch (member_runtime.cpp:514).
* A federation that has been reconciled is reconciling again when another member comes to stand,
  until that one re-attests: the test asks everybody that is active (state.cpp:746). A member that
  came back in a later lineage cannot re-attest, as its runtime builds the re-attestation with
  lineage 0 (member_runtime.cpp:262).
* A withdrawn exclusive claim keeps the grant in dispute (state.cpp:824).
* Under a policy that asks for a third-party endorsement nobody can join a federation of one
  (membership.cpp:439).
* `query_digest` stores its answer after it has released the mutex, so an older one may replace
  a newer one (client.cpp:103).
* A revocation is accepted with a detail of up to 4096 bytes, of which a lease may carry 256
  when it is listed (coordinator.cpp:964).

## Proofs

Every theorem holds for every value of the constants that satisfies the named assumptions,
and for behaviours of any length. Each component has one inductive invariant; the properties
follow from it, or, for an action property, from it and one step.

### Coordinator

`CoordinatorProofs`, for every derivation and any number of operations, failed appends,
crashes and restarts:

| Theorem | Property | Along which argument |
| --- | --- | --- |
| `TypeCorrect` | `TypeOK` | what `Submitted` or `DecisionRecorded` pushes is whatever is in flight, so the invariant carries for each program point what kind of record that can be (`Typed`) |
| `UniqueLeaseIds` | `LeaseIdsUnique` | a lease's identifier is never greater than the journal position of its record, and below `lease_sequence`; a restart sets the sequence from a position (`Numbered`) |
| `RevocationsHaveLeases` | `NoOrphanRevocation` | a revocation is in flight only for a lease in memory, and memory is the journal's (`Revocations`) |
| `AtMostOneGrant` | `GrantedAtMostOnce` | granted requests are in the ledger and the ledger is rebuilt whole (`Ledger`) |
| `DurableBeforeReply` | `AcknowledgedIsDurable` | issued leases and granted requests have their record (`Numbered`, `Ledger`) |
| `DecisionsStand` | `DecisionsNeverQuarantined` | a decision is put in flight when its identifier is not in memory, hence not in the journal (`Evidence`) |
| `RestartRebuildsMemory` | `MemoryIsReplay` | each operation does to memory what replay does with its record (`Replayed`) |
| `DeadLeases` | `DeadLeaseStaysDead` | a step keeps the incarnation and does not move clock, epoch or revocations back, or it is a restart, whose incarnation no issued lease has (`Incarnations`, `Reached`); under the hypothesis `[]ClockHasRoom`, since the clock wraps at the end of its type |

| `CoordinatorImplementsLog` | | `CountingSpec`, which is `Spec` with a history variable that counts the reported appends, implements the same `Log` that the journal's file implements: a commit acknowledges, a recovery settles the stray record or loses it, a failure leaves one record unsettled at most |

They rest on one inductive invariant, `IInv` (theorem `Invariant`), the conjunction of the
parts named above. None of the properties is inductive by itself: whether a restart is
harmless depends on what the journal holds, and whether an append is harmless depends on what
the operation checked before it. The part `Replayed` links the two, and `Typed` remembers at
each program point what was checked.

Instead of treating some thirty actions against eight parts, the proof first shows
(`StepShape`) that every step is, for memory, journal and stray record, one of six: a recovery,
an append that extends the journal by what is in flight, a step that puts a record in flight,
a failed append, a loss of memory, or a stutter. Each part then has one lemma per shape.

`CoordinatorImplementsLog` says of the coordinator what `ImplementsLog` says of the file: the
history of records only grows at its end, and nothing that was reported a success is ever lost,
reordered or overtaken. The two meet in `Log`; that the coordinator's steps are some of the
log's is proved, the coordinator never compacts. The step was checked by TLC on the two
instances of `MCCoordinator` (2,713,090 and 845,853 states) before it was proved.

The hypothesis `[]DerivationWellFormed` stands for the derivation's C++ types and for the way
coordinator records are built; it is checked by TLC for the derivation in `MCCoordinator`.

### Federation

`FederationProofs` rests on `DerivationProofs`, facts about `derive_state` and `decide_locked`
for any set of evidence, policy and members.

| Theorem | Property | Along which argument |
| --- | --- | --- |
| `Invariance` | (`Inv`) | the view the coordinator decides on is the derived one at every moment, the evidence is `Sound`, messages are what their senders build, a lease is a member's, with a range of epochs and a deadline |
| `NeverConscriptedHolds` | `NeverConscripted` | `derive_membership` gives authority to the subject of the genesis record, who is `Founder0` in all sound evidence, or on the member's own acceptance, in its lineage, of a proposal by somebody else |
| `StandingIsGroundedHolds` | `StandingIsGrounded` | the standing step is monotone, so the rounds grow; of a group without the founder the member that stands in the earliest round was vouched for by those of an earlier one |
| `FenceIsStickyHolds` | `FenceIsSticky` | no activation on record is later than a fence order of its lineage (`Outranks`, a part of `Sound`), so no evidence overtakes the fence |
| `ExclusiveHasOneHolderHolds` | `ExclusiveHasOneHolder` | two live claims on an exclusive grant conflict, and a grant in conflict is withheld from both |
| `DisputeIsContainedHolds` | `DisputeIsContained` | the reasons for which `Withheld` takes a grant away, one by one |
| `WithdrawalStandsHolds` | `WithdrawalStands` | the identifier of a withdrawal covers its stamp, so no withdrawal is quarantined (`StampedIsKept`), and what a withdrawal in the lineage covers is withheld |
| `EpochKeepsStandingHolds` | `EpochKeepsStanding` | an epoch advance comes alone, is never quarantined, and changes no input of the standing fixpoint |
| `GrantIsWarrantedHolds` | `GrantIsWarranted` | the checks of `evaluate_authority` against a view that is the derived one, and against messages whose sender may have restarted since |
| `LeaseBacksGrantHolds` | `LeaseBacksGrant` | the same, with the leases of the view: a lease that is "Valid" has the epoch in its range and the tick within its deadline |
| `ReconcilingBeginsWithRecoveryHolds` | `ReconcilingBeginsWithRecovery` | re-attestations and reconciliation records are never lost from what is derived, so "all re-attested" fails anew only for a recovery epoch or a member that stands anew |

| `LossIsContainedHolds` | `LossIsContained` | the standing step is monotone and has converged, so a group whose vouchers from outside all keep their standing, and about which nothing is recorded, keeps its own |
| `StandingConvergesHolds` | | each round that is no fixpoint adds a member, and there are at most `MaxMembers` of them |

Why the invariant: none of the properties speaks of the evidence alone or of the view alone,
and neither says anything about the next state without the other. `ViewInv` says
`view = View(...)` of what is on record. It is not obvious, as a command stores several
artefacts, with a derivation and a round of decisions after each. `Sound` carries what the
coordinator's own decisions guarantee and no derivation checks again: activations of no later
epoch than the current one, and of none later than a fence they would overtake.

Rounds and passes are recursive functions. Where an argument goes by induction over their
number it uses `SetInduction` (in `DerivationProofs`): a set that holds 0 and every successor
holds every natural. It takes a set where the library's theorems take a predicate, and is
itself derived from the well-foundedness of inclusion among finite sets.

Assumptions: `GenesisAssumption`, `CoordinatorIsNil` and `ConstitutionsAssumption` (the
founder is a member, the nil identifier is not, the zero digest is no constitution's),
`PolicyBounds` and `SettingsAreSane` (the numbers a policy adds up to are naturals, a setting
names members), and `MembersAreBounded` (members are finitely many and at most `MaxMembers`,
as the library bounds them by `kMaxMembers`). TLC evaluates them on the federation runs.

### Convergence

`ConvergenceProofs` rests on `DerivationProofs` as well, for any number of coordinators, any
pools of evidence and any order of delivery.

| Theorem | Property | Along which argument |
| --- | --- | --- |
| `EvidenceKept` | (`EvidenceIsKept`) | what a coordinator holds is its genesis record, artefacts of the pool, epoch advances and decisions, each beside the acceptance it is about; its state is the one derived from that |
| `DecisionsWhole` | (`DecisionsAreWhole`) | a pass that leaves something to decide has recorded something, and there are fewer records to write than passes to write them in (`DecideCompletes`); so, until the operator moves the epoch, every admission and activation the evidence calls for is on record |
| `SameEvidenceSameStandingHolds` | `SameEvidenceSameStanding` | both quarantine the same artefacts (`PreparedAlike`) and are in the same epoch; apart from re-attestations and the coordinator's own records they have the same evidence of each member's current lineage (`SameOfMember`), which is all a step of the standing fixpoint looks at (`StandsAlike`), so the fixpoints are equal |
| `SameEvidenceSameAuthorityHolds` | `SameEvidenceSameAuthority` | with the same members standing, whoever is admissible has been activated at both (`AdmissibleIsActivated`, from `DecisionsWhole`), both take the same re-attestation for a member's latest (`SameLatest`), and so derive the same membership of each member, of which `Authority` is a part |

`DecisionsWhole` is what the last theorem needs beyond the evidence: a lifecycle shows
whether a decision has been written, so two coordinators agree only because neither leaves one
unwritten. Besides the assumptions of the federation there is `PoolsAreSound`: a pool holds what
members' runtimes build, and each artefact of it is its content.

### Server, session and probes

| Theorem | Property | Along which argument |
| --- | --- | --- |
| `PoolInvariance`, `PoolTypes` | `TypeOK` | the invariant `PoolInv` below; types alone are not inductive, as a worker's position says whether it has a connection |
| `OneHolderHolds` | `OneHolder` | a connection's places (accept thread, queue, a worker, the references that `stop` collected) are kept `Apart`, and the handle is open exactly while one of them has it |
| `RegistryIsLiveHolds` | `RegistryIsLive` | a worker enters and leaves the registry while it serves |
| `StoppedIsQuietHolds` | `StoppedIsQuiet` | positions of `stop` imply positions of the threads it has joined |
| `SessionInvariance`, `AnswerIsOwnHolds` | `AnswerIsOwn` | whoever holds the mutex owns what is on the wire: at most one frame, in one direction, of the call that waits for it (`WireInv`) |
| `SuccessWasDoneHolds` | `SuccessWasDone` | a call on its way has not taken effect, an answer on its way has, once |
| `ReachableWasRunningHolds` | `ReachableWasRunning` | whoever runs while a member probes is a witness of the probing, and a reply comes from a witness of the same federation; a port may have changed hands since |

`PoolInv`, `SessionInv` and `ProbeInv` were checked by TLC before they were proved, on
instances at least as large as the runs' (two workers and three connections; two threads with
two calls each, 500,535 states; the instance of `MCProbing`, 319,044 states). Assumptions:
`PoolAssumption`, `SessionAssumption`, `ProbingAssumption`: `None` and "free" are nobody's
names, there are finitely many workers, bounds are naturals, requests are operations of the
client, and a probe has at least one target (`probe_peers` of none reports nothing).

### The codec

`SessionProofs` also holds the theorems about the payloads of a session's frames, of artefacts
and of journal records: it extends `Wire`, whose specification is `PayloadSpec`, as well as
`Session`. They hold for any limits of `bounds.hpp`; the assumption is `LimitsAssumption`:
limits are naturals and an identifier may be at least one byte long.

| Theorem | Property | Along which argument |
| --- | --- | --- |
| `PayloadIsSafe` | (`PayloadInv`) | the value is one the program may hold, what was encoded is its encoding, what has arrived is that, or shares its cells and has another length |
| `RoundTripHolds` | `RoundTrip` | every `decode` reads the fields its `encode` writes (`EncodeMirrorsDecode`, one step for each of the 39 pairs), and reading follows writing (`ReadingFollows`) |
| `DamageIsRejectedHolds` | `DamageIsRejected` | as long as a payload agrees with the encoding, what is accepted is what was written and ends where it ended; a payload that ends elsewhere was not read whole |

The writer and the reader are recursive functions over the fields. `EncodingIsWritten` and
`ReadingIsTaken` show that each has a solution for every sequence of fields
(`RecursionExists`), and `ReadingFollows` goes along the fields by `BoundedInduction`: after
each field both are at the same cell, and what was read is what was written. An element of a
collection counts by its size, so a collection's content is the same for both sides.

### Journal

| Theorem | Property | Along which argument |
| --- | --- | --- |
| `JournalInvariance` | (`JournalInv`) | the file is made of records; an open, writable journal is positioned behind whole records, with at most the remains of a failed write after it; unless an operation failed there is nothing after it |
| `CrashLeavesWritableHolds` | `CrashLeavesWritable` | a prefix of a file that ends with its last record, or within it, is such a file again, and an open repairs it |
| `RecoveredIsServedHolds` | `RecoveredIsServed` | what an open scanned is the longest chain of the file, and truncating behind it leaves its history: the settled records and the pending ones |
| `JournalImplementsLog` | `ImplementsLog` | the histories of the flushed prefix and of the file are prefixes of one another, so each step settles, loses, appends or replaces records of `Log`, or stutters |
| `RecordsFitSuffices` | | if the byte bound admits no more records than the record bound, the hypothesis of the others holds |

The lemmas are about *chains*, the offsets of the records that the scan passes: the scan's
recursion returns the longest chain (`ScanIs`), a prefix of the file has a prefix of it
(`TruncateChain`, `HistoryOfPrefix`), an append extends it (`AppendedIs`), a compaction writes
one from the start (`CompactedIs`). The invariant was checked by TLC on the instance of
`MCJournal` (17,458 states).

The first four have the hypothesis `RoomForRecords`: no append, successful or not, is made where
the file already has `max_records` records.
Without it they are false, since `append` checks the bytes only (journal.cpp:671) and the next
open refuses the record beyond the bound (line 490). The instance of `MCJournal` satisfies
`RecordsFit`, from which `RecordsFitSuffices` derives the hypothesis; the default options do
not, and no caller sees to it. The assumptions are `LengthAssumption` (a record takes at least
two cells), `ModesAssumption` and `BoundsAssumption`.

### What stays with TLC

Liveness, as the prover has no rules for fairness: `MutexReleased`, `CandidatesBecomeActive`,
`CallsReturn`, `ProbesFinish`, `StopReturns`, `StopReturnsOrIsStuck`, `ConnectionServed`.

Every invariant and every action property of a passing run is stated by a theorem. The
inductive invariants, in parentheses in the tables, are proved and are no run's properties.

## Not modelled

* JSON, text, SHA-256, random numbers, rendering: functions over characters and bytes, which a
  bounded model does not reach. Digests are modelled as the identity of what they cover.
* The applications and process control: command lines and operating-system calls around the
  library; what they do to its state is modelled.
* The coordinator without a journal, and its statistics counters.
* Blocking writes to a client that does not read, a second `start` of the server.
* The syntax of identifiers and capability names; `intersect_grants`, which nothing calls, and
  `evaluate_local_authority`, a lookup in the member's own constitution.

## What is left

All components with state are modelled, and every safety property the runs check is proved.
What would come next:

1. The liveness properties, for a prover with rules for fairness.
2. The composition of `Coordinator` and `JournalFile`: both implement `Log`; that a coordinator
   whose records are the payloads of the file behaves as `Coordinator` says is not stated.
