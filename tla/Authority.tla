--------------------------------- MODULE Authority --------------------------------
(***********************************************************************************)
(* evaluate_authority and evaluate_local_authority of authority.cpp: the answer to *)
(* a request, from a derived state.  An explanation's reasons are reduced to the   *)
(* outcome; view.replay holds the identifiers already decided.                     *)
(***********************************************************************************)
EXTENDS Derivation

CompareIdentitiesAnyRun(recorded, presented) ==
  IF Generation(recorded) # Generation(presented) THEN "Generation"
  ELSE IF recorded.con # presented.con THEN "Constitution"
  ELSE "None"

\* compare_identities, for a member whose domain and node never change.
CompareIdentities(recorded, presented) ==
  IF Generation(recorded) # Generation(presented) THEN "Generation"
  ELSE IF recorded.con # presented.con THEN "Constitution"
  ELSE IF recorded.inc # presented.inc THEN "Incarnation"
  ELSE "None"

\* The lifecycles that end the evaluation, and how.
LifecycleOutcome ==
  [Absent |-> "Unknown", Proposed |-> "Incomplete", Admitted |-> "Incomplete",
   Retired |-> "Refused", Leaving |-> "Fenced", Fenced |-> "Fenced"]

\* Section 8: why a grant the member does not hold is not given.
NotHeldOutcome(member, requested, policy) ==
  IF GrantsCover(member.withdrawn, requested) THEN "Refused"
  ELSE IF ScopeDelegationForbidden(policy, requested.scope) THEN "Refused"
  ELSE IF requested \in member.suspended THEN "Fenced"
  ELSE IF requested \in member.withheld THEN "Degraded"
  ELSE "Refused"

LeaseOutcomeAnyRun(request, view, policy) ==
  LET found == {v \in view.leases : v.lease.id = request.lease}
      l == (CHOOSE v \in found : TRUE).lease
      state == (CHOOSE v \in found : TRUE).state
  IN  IF ~LeaseRequired(policy, request.grant) THEN "Valid"
      ELSE IF found = {} THEN "Refused"
      ELSE IF l.holder # request.member THEN "Fenced"
      ELSE IF state # "Valid" \/ ~GrantsCover(l.scopes, request.grant) THEN "Refused"
      ELSE "Valid"

\* Section 9: "Valid" when no lease is needed or the one presented is good.
LeaseOutcome(request, view, policy) ==
  LET found == {v \in view.leases : v.lease.id = request.lease}
      l == (CHOOSE v \in found : TRUE).lease
      state == (CHOOSE v \in found : TRUE).state
  IN  IF ~LeaseRequired(policy, request.grant) THEN "Valid"
      ELSE IF found = {} THEN "Refused"
      ELSE IF \/ l.holder # request.member
              \/ l.inc # request.actor.inc
              \/ l.generation # Generation(request.actor) THEN "Fenced"
      ELSE IF state = "Revoked" THEN "Fenced"
      ELSE IF state = "ScopeNotCovered" THEN "Refused"
      ELSE IF state # "Valid" THEN "Stale"
      ELSE IF ~GrantsCover(l.scopes, request.grant) THEN "Refused"
      ELSE "Valid"

\* What is left to check for authority that is held and backed by a lease.
HeldOutcome(request, class, view, policy) ==
  IF class = "GlobalMutation" /\ Suspended(policy, view.reconciling, view.partition) THEN "Fenced"
  ELSE IF view.members[request.member].lifecycle = "Degraded"
          /\ request.grant.verb \in {"mutate", "administer"} THEN "Degraded"
  ELSE "Granted"

\* evaluate_authority.  The policy is the coordinator's configured one, also when the
\* evidence holds a policy update.
EvaluateAuthority(request, view, policy) ==
  LET class  == Classify(request.grant.scope)
      member == view.members[request.member]
      lease  == LeaseOutcome(request, view, policy)
  IN  IF request.id \in view.replay THEN "Replayed"
      ELSE IF request.epoch > view.epoch THEN "Refused"
      ELSE IF request.epoch < view.epoch THEN "Stale"
      ELSE IF class = "Local" THEN "Granted"
      ELSE IF class = "Unknown" THEN "Unsupported"
      ELSE IF request.member \notin DOMAIN view.members THEN "Unknown"
      ELSE IF member.lifecycle \notin Holding THEN LifecycleOutcome[member.lifecycle]
      ELSE IF CompareIdentities(member.current, request.actor) # "None" THEN "Fenced"
      ELSE IF GrantsCover(member.conflicts, request.grant) THEN "Conflicting"
      ELSE IF ~GrantsCover(member.granted, request.grant)
        THEN NotHeldOutcome(member, request.grant, policy)
      ELSE IF lease # "Valid" THEN lease
      ELSE HeldOutcome(request, class, view, policy)
===================================================================================
