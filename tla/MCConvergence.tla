------------------------------- MODULE MCConvergence ------------------------------
(***********************************************************************************)
(* f founds the federation; a is sponsored by f and then sponsors b.               *)
(***********************************************************************************)
EXTENDS Convergence

CONSTANTS north, south

MCMembers   == {"f", "a", "b"}
MCRevisions == {"f1", "a1", "a1x", "a2", "b1"}

Advertise == [scope |-> <<"federation", "route", "advertise">>, verb |-> "mutate"]
Publish   == [scope |-> <<"federation", "capacity", "publish">>, verb |-> "write"]
Disk      == [scope |-> <<"domain", "disk">>, verb |-> "administer"]

Term(g, mode) == [grant |-> g, mode |-> mode, weight |-> 1, not_after |-> 0, constraint |-> ""]
Con(m, generation, delegated) ==
  [member |-> m, generation |-> generation, delegated |-> delegated, retained |-> {Disk},
   capabilities |-> {}]

MCConstitution ==
  [f1 |-> Con("f", 1, {Term(Advertise, "Shared")}),
   a1 |-> Con("a", 1, {Term(Advertise, "Shared"), Term(Publish, "Exclusive")}),
   a1x |-> Con("a", 1, {Term(Advertise, "Shared")}),
   a2 |-> Con("a", 2, {Term(Advertise, "Shared")}),
   b1 |-> Con("b", 1, {Term(Advertise, "Shared"), Term(Publish, "Exclusive")})]
MCFirst == [f |-> "f1", a |-> "a1", b |-> "b1"]

Rule(id, kind, value) ==
  [id |-> id, kind |-> kind, enabled |-> TRUE, value |-> value, scope |-> <<>>,
   capability |-> [name |-> ""], members |-> {}]
ShippedPolicy == <<Rule(1, "RequireEndorsements", 0), Rule(2, "RequireDistinctParties", 2)>>

Id(m) == [con |-> MCFirst[m], inc |-> 1]
Sent(kind, subject, issuer, what, rank) ==
  [Record(kind, subject, issuer, 0, 1, Id(subject), what, Stamp(1, Id(issuer))) EXCEPT !.rank = rank]

JoinA == {Sent("MembershipProposal", "a", "f", {}, 1), Sent("MembershipAcceptance", "a", "a", {}, 1)}
JoinB == {Sent("MembershipProposal", "b", "a", {}, 1), Sent("MembershipAcceptance", "b", "b", {}, 1)}

\* f repeats its proposal of a one tick later: the same identifier, another content,
\* and both are quarantined.  f has re-attested in the second epoch.
Repeated == [Sent("MembershipProposal", "a", "f", {}, 1) EXCEPT !.at = Stamp(2, Id("f"))]
Restated == [Sent("MemberReattestation", "f", "f", {}, 1) EXCEPT !.epoch = 2]

\* a has amended its constitution, has moved to its next generation, or is back to the
\* first one.
Restart(con, inc, rank) ==
  LET id == [con |-> con, inc |-> inc]
  IN  [Sent("MemberReattestation", "a", "a", {}, rank) EXCEPT !.id = id, !.at = Stamp(1, id)]
Amended      == Restart("a1x", 2, 2)
Reconfigured == Restart("a2", 2, 3)
Reverted     == Restart("a1", 3, 1)

\* a leaves, and is sponsored again for its next lineage.
Left   == Sent("MembershipLeave", "a", "a", {}, 0)
Rejoin == {[x EXCEPT !.lineage = 1, !.rank = 2] : x \in JoinA}

\* a fences itself, in the first epoch or in the second.
Fenced(e) == [Sent("MembershipFence", "a", "a", "self", 0) EXCEPT !.epoch = e]

MCPools == {JoinA \union JoinB \union {Repeated},
            JoinA \union JoinB \union {Restated},
            JoinA \union JoinB \union {Amended},
            JoinA \union {Amended, Reconfigured, Reverted},
            JoinA \union Rejoin \union {Left},
            JoinA \union {Fenced(1)},
            JoinA \union {Fenced(2)}}

\* a restarts before it is activated, or after it.
Reordered == {JoinA \union {Restart("a1", 2, 1)}}

Symmetric == Permutations(Replicas)
===================================================================================
