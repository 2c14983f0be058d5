---------------------------- MODULE MCCoordinator ----------------------------
(***************************************************************************)
(* A small derivation for the coordinator: one proposal (and a retry of it *)
(* under the same evidence identifier), the admission it leads to, and     *)
(* operator commands that advance the epoch.                               *)
(***************************************************************************)
EXTENDS Coordinator

CONSTANTS MaxEpoch, Holders

MCRecord(kind, evidence, epoch, time) ==
  [kind |-> kind, evidence |-> evidence, epoch |-> epoch, time |-> time]

MCMemberArtifact == {MCRecord("MembershipProposal", <<"proposal", 1>>, 1, 0),
                     MCRecord("MembershipProposal", <<"proposal", 1>>, 2, 0)}
MCGenesis(t) == MCRecord("FederationGenesis", <<"genesis", 1>>, 1, t)
MCAdmission(t) == MCRecord("MembershipAdmission", <<"admission", 1>>, 1, t)
MCAdvance(e, t) == MCRecord("EpochAdvance", <<"epoch", e>>, e, t)
MCArtifact ==
  MCMemberArtifact
    \cup {MCGenesis(t) : t \in 0..MaxTick} \cup {MCAdmission(t) : t \in 0..MaxTick}
    \cup {MCAdvance(e, t) : e \in 2..MaxEpoch, t \in 0..MaxTick}

MCEpochs(v) ==
  {1} \cup {a.epoch : a \in {b \in Accepted(Elements(v.artifacts)) : b.kind = "EpochAdvance"}}

\* An accepted proposal calls for its admission, again and again.
MCBatch(v) ==
  IF \E a \in Accepted(Elements(v.artifacts)) : a.kind = "MembershipProposal"
  THEN <<MCAdmission(v.tick)>> ELSE <<>>
MCCommands(v) ==
  {MCAdvance(e, v.tick) : e \in {n \in 2..MaxEpoch : \A m \in MCEpochs(v) : m < n}}
MCMayLease(v, r) == TRUE
MCIdentityOf(v, r) == r.holder
MCAuthorise(v, r) ==
  IF IsGreatest(r.epoch_seen, MCEpochs(v)) THEN "Granted" ELSE "Stale"

MCRequests == [id : {1}, epoch_seen : {1, 2}]
MCLeaseRequests == {[holder |-> h, lifetime |-> 1, not_after_epoch |-> e]
                      : h \in Holders, e \in {0, MaxEpoch}}
MCObservations == {[observer |-> h, seen |-> TRUE] : h \in Holders}
==============================================================================
