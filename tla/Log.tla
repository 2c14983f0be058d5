---------------------------------- MODULE Log ----------------------------------
(********************************************************************************)
(* What the journal promises (journal.hpp, persistence.md): a history that only *)
(* grows at its end.  pending holds the records whose append was not            *)
(* acknowledged, or was recovered and not flushed since: they may or may not    *)
(* become history.  acked counts the appends that were reported a success since *)
(* the last replacement of the history (compaction, or a truncating open);      *)
(* generation counts the replacements.  Nothing else takes a record away.       *)
(********************************************************************************)
EXTENDS Naturals, Sequences

CONSTANT Payloads

VARIABLES log, pending, acked, generation
vars == <<log, pending, acked, generation>>

Prefixes(s) == {SubSeq(s, 1, n) : n \in 0..Len(s)}

Init == log = <<>> /\ pending = <<>> /\ acked = 0 /\ generation = 0

\* An acknowledged append: what was recovered before it is settled with it.
Acknowledge ==
  /\ \E p \in Payloads, kept \in Prefixes(pending) : log' = log \o kept \o <<p>>
  /\ pending' = <<>>
  /\ acked' = acked + 1
  /\ UNCHANGED generation

\* An append that fails: the record may turn up later, the one before it may not.
Fail ==
  /\ \E p \in Payloads, kept \in Prefixes(pending) : pending' \in {kept, Append(kept, p)}
  /\ UNCHANGED <<log, acked, generation>>

\* The system goes down or the journal is flushed: pending records are lost from
\* the end, or settled.
Settle ==
  /\ \E kept \in Prefixes(pending) :
       \E n \in 0..Len(kept) :
         /\ log' = log \o SubSeq(kept, 1, n)
         /\ pending' = SubSeq(kept, n + 1, Len(kept))
  /\ UNCHANGED <<acked, generation>>

Replace ==
  /\ log' \in Seq(Payloads)
  /\ pending' = <<>>
  /\ acked' = 0
  /\ generation' = generation + 1

Next == Acknowledge \/ Fail \/ Settle \/ Replace

Spec == Init /\ [][Next]_vars
================================================================================
