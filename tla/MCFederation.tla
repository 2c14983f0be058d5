------------------------------- MODULE MCFederation -------------------------------
(***********************************************************************************)
(* Three members: f founds the federation, a and b join it.  a2 is a's second      *)
(* generation.                                                                     *)
(***********************************************************************************)
EXTENDS Federation

MCMembers   == {"f", "a", "b"}
MCRevisions == {"f1", "a1", "a2", "b1"}

Advertise == [scope |-> <<"federation", "route", "advertise">>, verb |-> "mutate"]
Publish   == [scope |-> <<"federation", "capacity", "publish">>, verb |-> "write"]
Observing == [scope |-> <<"federation", "health", "report">>, verb |-> "observe"]
Disk      == [scope |-> <<"domain", "disk">>, verb |-> "administer"]

Term(g, mode) == [grant |-> g, mode |-> mode, weight |-> 1, not_after |-> 0, constraint |-> ""]

Con(m, gen, delegated) ==
  [member |-> m, generation |-> gen, delegated |-> delegated, retained |-> {Disk},
   capabilities |-> {[name |-> "federation.protocol.v1", version |-> 1, evidence |-> "Known"]}]

\* An observation stays granted while its holder is degraded.
Delegated ==
  {Term(Advertise, "Shared"), Term(Publish, "Exclusive"), Term(Observing, "Shared")}

MCConstitution ==
  [f1 |-> Con("f", 1, {Term(Advertise, "Shared")}),
   a1 |-> Con("a", 1, Delegated),
   a2 |-> Con("a", 2, {Term(Advertise, "Shared")}),
   b1 |-> Con("b", 1, Delegated)]

MCFirst     == [f |-> "f1", a |-> "a1", b |-> "b1"]
MCSuccessor == [f1 |-> "f1", a1 |-> "a2", a2 |-> "a2", b1 |-> "b1"]

Rule(id, kind, value, scope) ==
  [id |-> id, kind |-> kind, enabled |-> TRUE, value |-> value, scope |-> scope,
   capability |-> [name |-> ""], members |-> {}]

\* The shipped policy: a sponsor and the candidate, no third party.
ShippedPolicy ==
  <<Rule(1, "RequireEndorsements", 0, <<>>), Rule(2, "RequireDistinctParties", 2, <<>>)>>

\* The same with a mandatory capability.
CapabilityPolicy ==
  Append(ShippedPolicy,
    [Rule(3, "RequireCapability", 0, <<>>) EXCEPT !.capability =
       [name |-> "federation.protocol.v1", min |-> 1, max |-> 0, mandatory |-> TRUE]])

\* A lease for every mutation, with a partition that suspends nothing.
LeasePolicy ==
  ShippedPolicy \o
  <<Rule(3, "RequireLease", 0, <<"federation", "*">>),
    Rule(4, "MaxLeaseLifetimeTicks", 2, <<>>),
    Rule(5, "SuspendGlobalMutationOnPartition", 0, <<>>)>>

\* One claimant of capacity has precedence.
PrecedencePolicy ==
  Append(ShippedPolicy, [Rule(3, "PrecedenceForGrant", 0, <<"federation", "capacity", "*">>)
                           EXCEPT !.members = {"a"}])

(***********************************************************************************)
(* The settings.  Each one gives the operations a few actors, so that the ones that *)
(* interact meet in every order.                                                   *)
(***********************************************************************************)
All(actors, ops) == actors \X ops
Operator(ops)    == {Coordinator} \X ops

Plain ==
  [policy |-> ShippedPolicy, artifacts |-> 12, joined |-> {}, candidates |-> {"a"},
   ops |-> {}, reasons |-> {"operator"}, withdraw_sets |-> {}, term_sets |-> {},
   requested |-> {}, ranks |-> {1}, lifetimes |-> {0}, epochs |-> 1, ticks |-> 1, incarnations |-> 1,
   lineages |-> 0, requests |-> 0, calls |-> 1, retrying |-> FALSE]

\* a and b join, sponsored by anybody and endorsed by each other.
Joining ==
  [Plain EXCEPT !.policy = CapabilityPolicy, !.artifacts = 9, !.candidates = {"a", "b"},
     !.ops = All({"f"}, {"propose"}) \union
             All({"a", "b"}, {"propose", "accept", "endorse"})]

\* a joins while the operator fences, retires and moves the epoch; a restarts and
\* re-attests, on a connection that breaks.
Epochs ==
  [Plain EXCEPT !.artifacts = 10, !.epochs = 2, !.ticks = 3, !.incarnations = 2,
     !.ops = All({"f"}, {"propose"}) \union
             All({"a"}, {"accept", "reattest", "restart", "lose"}) \union
             Operator({"fence", "retire", "advance_epoch"})]

\* a leaves, changes its constitution and comes back.
Rejoining ==
  [Plain EXCEPT !.artifacts = 9, !.joined = {"a"}, !.ticks = 2, !.incarnations = 2,
     !.lineages = 1, !.ranks = {1, 2},
     !.ops = All({"f"}, {"propose"}) \union
             All({"a"}, {"accept", "leave", "reconfigure", "reattest"}) \union
             Operator({"retire"})]

\* a fences itself, or leaves, and comes back as it was.
SelfFencing ==
  [Rejoining EXCEPT !.ops = All({"f"}, {"propose"}) \union
                            All({"a"}, {"accept", "leave", "self_fence", "reattest"}) \union
                            Operator({"retire"})]

\* f and a sponsor b; the operator fences.
Sponsoring ==
  [Plain EXCEPT !.joined = {"a"}, !.candidates = {"b"}, !.ticks = 2, !.ranks = {1, 2},
     !.ops = All({"f", "a"}, {"propose"}) \union All({"b"}, {"accept"}) \union
             Operator({"fence"})]

\* f and a both sponsor b, on connections that break, and everybody keeps trying, while
\* f's lease moves the clock.
Unreliable ==
  [Plain EXCEPT !.joined = {"a"}, !.candidates = {"b"}, !.ranks = {1, 2}, !.calls = 2,
     !.policy = LeasePolicy, !.retrying = TRUE, !.ticks = 2, !.requested = {Advertise},
     !.ops = All({"f", "a"}, {"propose", "lose"}) \union All({"b"}, {"accept", "lose"}) \union
             All({"f"}, {"lease"})]

MembersSettings == {Joining, Epochs, Rejoining, SelfFencing, Sponsoring, Unreliable}
RetrySpec       == Spec /\ Retrying({"b"}, {"f", "a"})

\* a and b, who both claim the exclusive Publish, change what they delegate.
Conflicts ==
  [Plain EXCEPT !.policy = PrecedencePolicy, !.joined = {"a", "b"}, !.ticks = 2,
     !.ranks = {1, 2}, !.withdraw_sets = {{Publish}},
     !.term_sets = {{Term(Observing, "Shared"), Term(Publish, "Shared")},
                    {Term(Observing, "Shared")}},
     !.ops = All({"a", "b"}, {"withdraw", "declare", "leave"}) \union Operator({"fence"})]

\* a asks for authority while it restarts, withdraws, is observed, and the epoch moves, on
\* a connection that breaks: the coordinator may not have heard of the restart.
Requests ==
  [Plain EXCEPT !.artifacts = 7, !.joined = {"a"}, !.epochs = 2, !.ticks = 4,
     !.incarnations = 2, !.requests = 1, !.requested = {Advertise},
     !.withdraw_sets = {{Advertise}},
     !.ops = All({"a"}, {"request", "restart", "withdraw", "observe", "lose"}) \union
             All({"f"}, {"observe"}) \union Operator({"advance_epoch"})]

\* The same question under a policy that asks for a lease, which may be for this epoch
\* or for the next one too.
Leasing ==
  [Plain EXCEPT !.policy = LeasePolicy, !.joined = {"a"}, !.epochs = 2, !.ticks = 4,
     !.lifetimes = {0, 1, 3},
     !.incarnations = 2, !.requests = 1, !.requested = {Advertise},
     !.ops = All({"a"}, {"request", "restart", "reattest", "lease"}) \union
             Operator({"advance_epoch"})]

\* The epoch moves on a split; both members re-attest and the operator records the
\* reconciliation.
Recovering ==
  [Plain EXCEPT !.artifacts = 10, !.joined = {"a"}, !.epochs = 3, !.ticks = 4,
     !.incarnations = 2, !.reasons = {"Split", "operator"},
     !.ops = All({"f", "a"}, {"reattest"}) \union All({"a"}, {"restart"}) \union
             Operator({"advance_epoch", "reconcile"})]

GrantsSettings == {Conflicts, Requests, Leasing, Recovering}
===================================================================================
