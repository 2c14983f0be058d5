---------------------------------- MODULE Scopes ----------------------------------
(***********************************************************************************)
(* Scopes, grants, delegation terms and the scope catalogue: names.cpp, scope.cpp. *)
(*                                                                                 *)
(* A qualified name is the sequence of its segments.  "*" may stand only as the    *)
(* last segment, and the prefix test on the text "a.b.*" is the prefix test on the *)
(* segments, because the prefix that is compared ends in the separator.            *)
(***********************************************************************************)
EXTENDS Naturals, Sequences, FiniteSets, SequencesExt

IsWildcard(s) == s # <<>> /\ Last(s) = "*"

\* qualified_name_covers: the name p, used as a pattern, covers the name c.
Covers(p, c) ==
  \/ p = c
  \/ /\ p # <<>>
     /\ c # <<>>
     /\ Last(p) = "*"
     /\ IsStrictPrefix(Front(p), c)

GrantsCover(G, query) ==
  \E g \in G : g.verb = query.verb /\ Covers(g.scope, query.scope)

(***********************************************************************************)
(* ScopeCatalog::builtin and ScopeCatalog::classify.                               *)
(***********************************************************************************)
GlobalMutationScopes ==
  {<<"federation", "membership", "admit">>, <<"federation", "delegation", "grant">>,
   <<"federation", "policy", "adopt">>, <<"federation", "epoch", "advance">>,
   <<"federation", "route", "advertise">>}

FederationScopes ==
  {<<"federation", "membership", "observe">>, <<"federation", "membership", "propose">>,
   <<"federation", "delegation", "observe">>, <<"federation", "policy", "observe">>,
   <<"federation", "policy", "endorse">>, <<"federation", "epoch", "observe">>,
   <<"federation", "route", "observe">>, <<"federation", "capacity", "publish">>,
   <<"federation", "health", "report">>, <<"federation", "evidence", "attest">>,
   <<"federation", "lease", "observe">>}

Classify(scope) ==
  IF IsWildcard(scope) THEN "Unknown"
  ELSE IF scope \in GlobalMutationScopes THEN "GlobalMutation"
  ELSE IF scope \in FederationScopes THEN "Federation"
  ELSE IF Len(scope) > 1 /\ Head(scope) = "domain" THEN "Local"
  ELSE "Unknown"

\* terms_equivalent: everything but the grant, which the caller grouped by.
TermsEquivalent(a, b) ==
  /\ a.mode = b.mode
  /\ a.weight = b.weight
  /\ a.not_after = b.not_after
  /\ a.constraint = b.constraint

\* validate_constitution, without the bounds on the sizes of its lists: what is
\* delegated is federation authority named exactly, what is retained is local,
\* and the two do not overlap.
ValidConstitution(delegated, retained) ==
  /\ \A t \in delegated :
       Classify(t.grant.scope) \notin {"Unknown", "Local"} /\ Head(t.grant.scope) # "domain"
  /\ \A r \in retained :
       /\ Classify(r.scope) = "Local"
       /\ \A t \in delegated :
            t.grant.verb = r.verb =>
              ~Covers(t.grant.scope, r.scope) /\ ~Covers(r.scope, t.grant.scope)
===================================================================================
