---------------------------- MODULE PartitionAssessment ---------------------------
(***********************************************************************************)
(* assess_partition of partition.cpp: what the members' reachability observations  *)
(* say about the set of established members.                                       *)
(*                                                                                 *)
(* The coordinator keeps the last observation of every observer, so observations   *)
(* is a set with one record per observer: [observer, epoch, at, peers], where peers*)
(* maps each probed peer to [state, inc].  probe_peers stamps the observation and  *)
(* all its entries with the same tick, at.                                         *)
(***********************************************************************************)
EXTENDS Naturals, FiniteSets, FiniteSetsExt

\* The observations that count: of the current epoch, and fresh.
Usable(observations, active, epoch, now, freshness) ==
  {o \in observations : /\ o.observer \in active
                        /\ o.epoch = epoch
                        /\ freshness # 0 => o.at <= now /\ now - o.at <= freshness}

\* latest: the usable entries, by (observer, peer).
Entries(usable, active) ==
  UNION {{[observer |-> o.observer, peer |-> p, state |-> o.peers[p].state, inc |-> o.peers[p].inc] :
            p \in {x \in active \ {o.observer} : x \in DOMAIN o.peers}} : o \in usable}

\* An entry that reached the incarnation the federation believes is running.
Reaches(e, current) == e.state = "Reachable" /\ e.inc # 0 /\ e.inc = current[e.peer]

\* An edge needs both endpoints.
ConfirmedEdges(entries, current) ==
  {{e.observer, e.peer} : e \in {x \in entries :
     /\ Reaches(x, current)
     /\ \E y \in entries : /\ y.observer = x.peer
                           /\ y.peer = x.observer
                           /\ Reaches(y, current)}}

(***********************************************************************************)
(* DisjointSet: union by rank.  The path halving of find changes no root.          *)
(***********************************************************************************)
Singletons(S) == [parent |-> [x \in S |-> x], rank |-> [x \in S |-> 0]]

Root(ds, x) ==
  LET climb[y \in DOMAIN ds.parent] == IF ds.parent[y] = y THEN y ELSE climb[ds.parent[y]]
  IN  climb[x]

Unite(edge, ds) ==
  LET x == CHOOSE v \in edge : TRUE
      y == CHOOSE v \in edge : v # x
      ra == Root(ds, x)
      rb == Root(ds, y)
      top == IF ds.rank[ra] < ds.rank[rb] THEN rb ELSE ra
      low == IF top = ra THEN rb ELSE ra
  IN  IF ra = rb THEN ds
      ELSE [parent |-> [ds.parent EXCEPT ![low] = top],
            rank   |-> IF ds.rank[ra] = ds.rank[rb]
                         THEN [ds.rank EXCEPT ![top] = @ + 1] ELSE ds.rank]

Components(active, edges) ==
  LET ds == FoldSet(Unite, Singletons(active), edges)
  IN  {{y \in active : Root(ds, y) = Root(ds, x)} : x \in active}

\* current maps every active member to the incarnation its evidence supports.
AssessPartition(active, current, observations, epoch, now, freshness) ==
  LET usable   == Usable(observations, active, epoch, now, freshness)
      entries  == Entries(usable, active)
      observed == {e.observer : e \in entries} \union {e.peer : e \in entries}
  IN  IF active = {} THEN "Empty"
      ELSE IF Cardinality(active) = 1 THEN "Connected"
      ELSE IF observed # active THEN "Indeterminate"
      ELSE IF Cardinality(Components(active, ConfirmedEdges(entries, current))) = 1
        THEN "Connected" ELSE "Split"
===================================================================================
