----------------------------- MODULE ProbingProofs -----------------------------
(********************************************************************************)
(* Proofs about Probing, for any members, ports, peer lists and bounds.         *)
(********************************************************************************)
EXTENDS Probing, TLAPS

\* m is in the middle of probe_peers.
Probing(m) == control[m] \in {"connect", "send", "receive"}

\* A peer to probe, what is recorded of one, its answer, and the connection to it.
Target == [member : Members, endpoint : Endpoints]
Entry == [peer : Members, state : {"Reachable", "Unreachable", "Unknown"}, incarnation : Nat]
Reply == [member : Members, incarnation : Nat]
Conn == [to : Members \cup {None}, sent : BOOLEAN, reply : Reply \cup {None}, closed : BOOLEAN]

\* The types the proofs need.
TypeInv ==
  /\ incarnation \in [Members -> Nat]
  /\ control \in [Members -> {"idle", "connect", "send", "receive", "join", "down"}]
  /\ todo \in [Members -> Seq(Target)] /\ observed \in [Members -> Seq(Entry)]
  /\ DOMAIN witness = Members /\ DOMAIN thread = Members /\ DOMAIN serving = Members
  /\ conn \in [Members -> Conn]
  /\ \A m \in Members : Probing(m) => todo[m] # <<>>

\* What a prober was told: by a peer of its federation, of an incarnation it ran as.
ReplyInv ==
  \A m \in Members :
    control[m] \in {"send", "receive"} /\ conn[m].reply # None =>
      /\ <<conn[m].reply.member, conn[m].reply.incarnation>> \in witness[m]
      /\ federation[conn[m].reply.member] = federation[m]

\* Whoever runs while m probes is a witness of m's probing.
WitnessInv ==
  \A m, x \in Members : Probing(m) /\ Running(x) => <<x, incarnation[x]>> \in witness[m]

\* A listener's thread runs in a running process, and answers only its own federation.
ThreadInv ==
  \A m \in Members :
    /\ thread[m] # "none" => Running(m)
    /\ thread[m] = "respond" /\ serving[m] \in Members => federation[serving[m]] = federation[m]

\* The inductive invariant.
ProbeInv == TypeInv /\ ReplyInv /\ WitnessInv /\ ThreadInv /\ ReachableWasRunning

\* The invariant holds before anybody probes.
LEMMA InitHasProbeInv == Init => ProbeInv
<1>. SUFFICES ASSUME Init PROVE ProbeInv
  OBVIOUS
<1>1. TypeInv
  <2>1. NoConn \in Conn
    BY DEF NoConn, Conn
  <2>. QED BY <2>1 DEF Init, TypeInv, Probing
<1>2. ReplyInv /\ WitnessInv /\ ThreadInv /\ ReachableWasRunning
  BY DEF Init, ReplyInv, WitnessInv, ThreadInv, ReachableWasRunning, Probing
<1>. QED BY <1>1, <1>2 DEF ProbeInv

\* No connection has another reply.
SameReplies == conn' \in [Members -> Conn] /\ \A p \in Members : conn'[p].reply = conn[p].reply

\* Closing connections changes no reply.
LEMMA ClosingKeepsReplies ==
  ASSUME conn \in [Members -> Conn], NEW W, Closed(W)
  PROVE  SameReplies
<1>1. \A c \in Conn : LET d == [c EXCEPT !.closed = TRUE] IN d \in Conn /\ d.reply = c.reply
  BY DEF Conn
<1>. QED BY <1>1 DEF Closed, SameReplies

\* The start of probe_peers keeps the invariant.
LEMMA ProbeKeeps ==
  ASSUME ProbeInv, NEW m \in Members, NEW targets \in PeerLists[m], ProbePeers(m, targets),
         UNCHANGED federation
  PROVE  ProbeInv'
<1>. USE DEF listenerVars
<1>. TypeInv /\ ReplyInv /\ WitnessInv /\ ThreadInv /\ ReachableWasRunning
  BY DEF ProbeInv
<1>0. /\ control[m] = "idle" /\ control' = [control EXCEPT ![m] = "connect"]
      /\ todo' = [todo EXCEPT ![m] = targets] /\ observed' = [observed EXCEPT ![m] = <<>>]
      /\ witness' = [witness EXCEPT ![m] = {<<x, incarnation[x]>> : x \in {y \in Members : Running(y)}}]
      /\ UNCHANGED <<incarnation, thread, serving, conn, federation>>
  BY DEF ProbePeers
<1>1. targets \in Seq(Target) /\ targets # <<>>
  BY ProbingAssumption DEF Target
<1>2. /\ \A x \in Members : Running(x)' <=> Running(x)
      /\ \A x \in Members : x # m => /\ control'[x] = control[x] /\ witness'[x] = witness[x]
                                     /\ observed'[x] = observed[x] /\ todo'[x] = todo[x]
      /\ control'[m] = "connect" /\ observed'[m] = <<>> /\ todo'[m] = targets
      /\ witness'[m] = {<<x, incarnation[x]>> : x \in {y \in Members : Running(y)}}
  BY <1>0 DEF Running, TypeInv
<1>3. TypeInv'
  <2>1. /\ incarnation' \in [Members -> Nat] /\ conn' \in [Members -> Conn]
        /\ control' \in [Members -> {"idle", "connect", "send", "receive", "join", "down"}]
        /\ DOMAIN witness' = Members /\ DOMAIN thread' = Members /\ DOMAIN serving' = Members
    BY <1>0 DEF TypeInv
  <2>2. todo' \in [Members -> Seq(Target)] /\ observed' \in [Members -> Seq(Entry)]
    BY <1>0, <1>1 DEF TypeInv
  <2>3. \A x \in Members : Probing(x)' => todo'[x] # <<>>
    BY <1>1, <1>2 DEF TypeInv, Probing
  <2>. QED BY <2>1, <2>2, <2>3 DEF TypeInv
<1>4. ReplyInv'
  BY <1>0, <1>2 DEF ReplyInv
<1>5. WitnessInv'
  BY <1>0, <1>2 DEF WitnessInv, Probing
<1>6. ThreadInv'
  BY <1>0, <1>2 DEF ThreadInv
<1>7. ReachableWasRunning'
  BY <1>0, <1>2 DEF ReachableWasRunning
<1>. QED BY <1>3, <1>4, <1>5, <1>6, <1>7 DEF ProbeInv

\* An entry is recorded: one that says Reachable says what the reply says.
LEMMA RecordKeeps ==
  ASSUME ProbeInv, NEW m \in Members, NEW state \in {"Reachable", "Unreachable", "Unknown"},
         NEW inc \in Nat, Probing(m), Record(m, state, inc), UNCHANGED federation,
         state = "Reachable" => /\ <<Head(todo[m]).member, inc>> \in witness[m]
                                /\ federation[Head(todo[m]).member] = federation[m]
  PROVE  ProbeInv'
<1>. USE DEF listenerVars
<1>. TypeInv /\ ReplyInv /\ WitnessInv /\ ThreadInv /\ ReachableWasRunning
  BY DEF ProbeInv
<1>0. PICK e : e = [peer |-> Head(todo[m]).member, state |-> state, incarnation |-> inc]
  OBVIOUS
<1>1. /\ observed' = [observed EXCEPT ![m] = Append(@, e)] /\ todo' = [todo EXCEPT ![m] = Tail(@)]
      /\ control' = [control EXCEPT ![m] = IF Len(todo[m]) = 1 THEN "idle" ELSE "connect"]
      /\ conn' = [conn EXCEPT ![m] = NoConn]
      /\ UNCHANGED <<incarnation, witness, thread, serving, federation>>
  BY <1>0 DEF Record
<1>2. /\ todo[m] \in Seq(Target) /\ todo[m] # <<>> /\ Head(todo[m]) \in Target
      /\ Tail(todo[m]) \in Seq(Target) /\ (Len(todo[m]) # 1 => Tail(todo[m]) # <<>>)
  <2>1. todo[m] \in Seq(Target) /\ todo[m] # <<>>
    BY DEF TypeInv
  <2>2. /\ Head(todo[m]) \in Target /\ Tail(todo[m]) \in Seq(Target)
        /\ Len(Tail(todo[m])) = Len(todo[m]) - 1 /\ Len(todo[m]) \in Nat
    BY <2>1
  <2>3. Len(todo[m]) # 1 => Tail(todo[m]) # <<>>
    <3>1. Len(<<>>) = 0
      OBVIOUS
    <3>2. Len(todo[m]) # 1 => Len(Tail(todo[m])) # 0
      BY <2>2
    <3>. QED BY <3>1, <3>2, Zenon
  <2>. QED BY <2>1, <2>2, <2>3
<1>3. e \in Entry /\ NoConn \in Conn
  BY <1>0, <1>2 DEF Entry, Target, NoConn, Conn
<1>4. /\ observed'[m] = Append(observed[m], e) /\ todo'[m] = Tail(todo[m])
      /\ control'[m] \in {"idle", "connect"} /\ (control'[m] = "connect" <=> Len(todo[m]) # 1)
      /\ \A x \in Members : x # m => /\ control'[x] = control[x] /\ conn'[x] = conn[x]
                                     /\ observed'[x] = observed[x] /\ todo'[x] = todo[x]
      /\ \A x \in Members : Running(x)' => Running(x)
      /\ \A x \in Members : Running(x) => Running(x)'
  BY <1>1 DEF TypeInv, Running, Probing
<1>5. TypeInv'
  <2>1. /\ incarnation' \in [Members -> Nat] /\ conn' \in [Members -> Conn]
        /\ control' \in [Members -> {"idle", "connect", "send", "receive", "join", "down"}]
        /\ DOMAIN witness' = Members /\ DOMAIN thread' = Members /\ DOMAIN serving' = Members
    BY <1>1, <1>3 DEF TypeInv
  <2>2. todo' \in [Members -> Seq(Target)]
    BY <1>1, <1>2 DEF TypeInv
  <2>3. observed' \in [Members -> Seq(Entry)]
    BY <1>1, <1>3 DEF TypeInv
  <2>4. \A x \in Members : Probing(x)' => todo'[x] # <<>>
    BY <1>2, <1>4 DEF TypeInv, Probing
  <2>. QED BY <2>1, <2>2, <2>3, <2>4 DEF TypeInv
<1>6. ReplyInv'
  BY <1>1, <1>4 DEF ReplyInv
<1>7. WitnessInv'
  <2>1. \A x \in Members : Probing(x)' => Probing(x)
    BY <1>4 DEF Probing
  <2>. QED BY <1>1, <1>4, <2>1 DEF WitnessInv
<1>8. ThreadInv'
  BY <1>1, <1>4 DEF ThreadInv
<1>9. ReachableWasRunning'
  <2>. DEFINE Told(x, f) == f.state = "Reachable" => /\ <<f.peer, f.incarnation>> \in witness[x]
                                                     /\ federation[f.peer] = federation[x]
  <2>0. \A x \in Members : \A i \in DOMAIN observed[x] : Told(x, observed[x][i])
    BY DEF ReachableWasRunning
  <2>1. Told(m, e)
    BY <1>0
  <2>2. observed[m] \in Seq(Entry)
    BY DEF TypeInv
  <2>. SUFFICES \A x \in Members : \A i \in DOMAIN observed'[x] : Told(x, observed'[x][i])
    <3>1. witness' = witness /\ federation' = federation
      BY <1>1
    <3>. QED BY <3>1, Zenon DEF ReachableWasRunning
  <2>. HIDE DEF Told
  <2>3. ASSUME NEW x \in Members, x # m, NEW i \in DOMAIN observed'[x] PROVE Told(x, observed'[x][i])
    <3>1. observed'[x] = observed[x]
      BY <2>3, <1>4
    <3>. QED BY <3>1, <2>0, Zenon
  <2>4. ASSUME NEW i \in DOMAIN observed'[m] PROVE Told(m, observed'[m][i])
    <3>1. (i \in DOMAIN observed[m] /\ observed'[m][i] = observed[m][i]) \/ observed'[m][i] = e
      BY <2>2, <1>3, <1>4
    <3>. QED BY <3>1, <2>0, <2>1, Zenon
  <2>. QED BY <2>3, <2>4
<1>. QED BY <1>5, <1>6, <1>7, <1>8, <1>9 DEF ProbeInv

\* A prober moves on: connected, or its probe sent.
LEMMA ExchangeKeeps ==
  ASSUME ProbeInv, NEW m \in Members, Connect(m) \/ Send(m), UNCHANGED federation
  PROVE  ProbeInv'
<1>. USE DEF listenerVars
<1>. TypeInv /\ ReplyInv /\ WitnessInv /\ ThreadInv /\ ReachableWasRunning
  BY DEF ProbeInv
<1>1. /\ Probing(m) /\ \E to \in {"send", "receive"} : control' = [control EXCEPT ![m] = to]
      /\ UNCHANGED <<incarnation, todo, observed, witness, thread, serving, federation>>
  BY DEF Connect, Send, Probing
<1>2. /\ conn' \in [Members -> Conn] /\ \A x \in Members : x # m => conn'[x] = conn[x]
      /\ conn'[m].reply = None \/ (control[m] = "send" /\ conn'[m].reply = conn[m].reply)
  <2>1. CASE Connect(m)
    <3>1. PICK x \in Members : conn' = [conn EXCEPT ![m] = [NoConn EXCEPT !.to = x]]
      BY <2>1 DEF Connect, At
    <3>2. [NoConn EXCEPT !.to = x] \in Conn /\ [NoConn EXCEPT !.to = x].reply = None
      BY DEF NoConn, Conn
    <3>. QED BY <3>1, <3>2 DEF TypeInv
  <2>2. CASE Send(m)
    <3>1. conn' = [conn EXCEPT ![m].sent = TRUE] /\ control[m] = "send" /\ conn[m] \in Conn
      BY <2>2 DEF Send, TypeInv
    <3>2. \A c \in Conn : LET d == [c EXCEPT !.sent = TRUE] IN d \in Conn /\ d.reply = c.reply
      BY DEF Conn
    <3>. QED BY <3>1, <3>2 DEF TypeInv
  <2>. QED BY <2>1, <2>2
<1>3. /\ control'[m] \in {"send", "receive"}
      /\ \A x \in Members : x # m => control'[x] = control[x]
      /\ \A x \in Members : Running(x)' <=> Running(x)
      /\ \A x \in Members : Probing(x)' <=> Probing(x)
  BY <1>1 DEF TypeInv, Running, Probing
<1>4. TypeInv'
  <2>1. control' \in [Members -> {"idle", "connect", "send", "receive", "join", "down"}]
    BY <1>1 DEF TypeInv
  <2>. QED BY <2>1, <1>1, <1>2, <1>3 DEF TypeInv
<1>5. ReplyInv'
  BY <1>1, <1>2, <1>3 DEF ReplyInv
<1>6. WitnessInv' /\ ThreadInv'
  BY <1>1, <1>3 DEF WitnessInv, ThreadInv
<1>7. ReachableWasRunning'
  BY <1>1 DEF ReachableWasRunning
<1>. QED BY <1>4, <1>5, <1>6, <1>7 DEF ProbeInv

\* Every step of a probe keeps the invariant.
LEMMA ProberKeeps ==
  ASSUME ProbeInv, NEW m \in Members, Prober(m), UNCHANGED federation
  PROVE  ProbeInv'
<1>. TypeInv /\ ReplyInv
  BY DEF ProbeInv
<1>1. CASE ConnectFails(m) \/ ExchangeFails(m)
  BY <1>1, RecordKeeps DEF ConnectFails, ExchangeFails, Probing
<1>2. CASE Receive(m)
  <2>1. /\ conn[m].reply \in Reply /\ control[m] = "receive" /\ Probing(m)
        /\ <<conn[m].reply.member, conn[m].reply.incarnation>> \in witness[m]
        /\ federation[conn[m].reply.member] = federation[m]
    BY <1>2 DEF Receive, TypeInv, Conn, ReplyInv, Probing
  <2>2. CASE conn[m].reply.member = Head(todo[m]).member
    <3>1. PICK inc \in Nat : inc = conn[m].reply.incarnation
      BY <2>1 DEF Reply
    <3>2. Record(m, "Reachable", inc)
      BY <1>2, <2>2, <3>1 DEF Receive
    <3>. QED BY <2>1, <2>2, <3>1, <3>2, RecordKeeps
  <2>3. CASE conn[m].reply.member # Head(todo[m]).member
    <3>1. Record(m, "Unknown", 0)
      BY <1>2, <2>3 DEF Receive
    <3>. QED BY <2>1, <3>1, RecordKeeps
  <2>. QED BY <2>2, <2>3
<1>3. CASE Connect(m) \/ Send(m)
  BY <1>3, ExchangeKeeps
<1>. QED BY <1>1, <1>2, <1>3 DEF Prober

\* The steps that leave the control threads and the replies alone: the listener thread's
\* own, up to the response, and those that open and close a listener.
LEMMA ListenerKeeps ==
  ASSUME ProbeInv, UNCHANGED <<federation, incarnation, todo, observed, witness>>,
         control' \in [Members -> {"idle", "connect", "send", "receive", "join", "down"}],
         \A x \in Members : Probing(x)' => control'[x] = control[x],
         \A x \in Members : Running(x)' <=> Running(x),
         SameReplies, ThreadInv', DOMAIN thread' = Members, DOMAIN serving' = Members
  PROVE  ProbeInv'
<1>. TypeInv /\ ReplyInv /\ WitnessInv /\ ReachableWasRunning
  BY DEF ProbeInv
<1>1. TypeInv'
  <2>1. \A x \in Members : Probing(x)' => todo'[x] # <<>>
    BY DEF TypeInv, Probing
  <2>. QED BY <2>1 DEF TypeInv, SameReplies
<1>2. ReplyInv'
  BY DEF ReplyInv, SameReplies, Probing
<1>3. WitnessInv'
  BY DEF WitnessInv, Probing
<1>4. ReachableWasRunning'
  BY DEF ReachableWasRunning
<1>. QED BY <1>1, <1>2, <1>3, <1>4 DEF ProbeInv

\* No connection changed means no reply did.
LEMMA SameIsSame ==
  ASSUME TypeInv, UNCHANGED conn
  PROVE  SameReplies
  BY DEF TypeInv, SameReplies

\* Starting and stopping the listener keeps the invariant.
LEMMA StartStopKeeps ==
  ASSUME ProbeInv, NEW m \in Members, Start(m) \/ Stop(m) \/ Join(m), UNCHANGED federation
  PROVE  ProbeInv'
<1>. USE DEF controlVars
<1>. TypeInv /\ ThreadInv
  BY DEF ProbeInv
<1>1. /\ UNCHANGED <<federation, incarnation, todo, observed, witness, serving>>
      /\ Running(m) /\ \E to \in {"idle", "join"} : control' = [control EXCEPT ![m] = to]
  <2>1. CASE Start(m)
    BY <2>1 DEF Start, Running, TypeInv
  <2>2. CASE Stop(m)
    BY <2>2 DEF Stop, Running
  <2>3. CASE Join(m)
    BY <2>3 DEF Join, Running
  <2>. QED BY <2>1, <2>2, <2>3
<1>2. /\ control' \in [Members -> {"idle", "connect", "send", "receive", "join", "down"}]
      /\ \A x \in Members : Probing(x)' => control'[x] = control[x]
      /\ \A x \in Members : Running(x)' <=> Running(x)
  BY <1>1 DEF TypeInv, Running, Probing
<1>3. thread' = thread \/ \E to \in {"top", "held", "none"} : thread' = [thread EXCEPT ![m] = to]
  BY DEF Start, Stop, Join
<1>4. ThreadInv' /\ DOMAIN thread' = Members
  BY <1>1, <1>2, <1>3 DEF ThreadInv, TypeInv
<1>5. SameReplies
  BY SameIsSame, ClosingKeepsReplies DEF Start, Stop, Join, TypeInv
<1>. QED BY <1>1, <1>2, <1>4, <1>5, ListenerKeeps DEF TypeInv

\* Accepting and reading a probe keeps the invariant.
LEMMA ServingKeeps ==
  ASSUME ProbeInv, NEW m \in Members, Top(m) \/ Accept(m) \/ AcceptFails(m) \/ Read(m),
         UNCHANGED federation
  PROVE  ProbeInv'
<1>. USE DEF controlVars
<1>. TypeInv /\ ThreadInv
  BY DEF ProbeInv
<1>1. UNCHANGED <<federation, incarnation, control, todo, observed, witness>>
  BY DEF Top, Accept, AcceptFails, Read
<1>2. SameReplies
  BY SameIsSame, ClosingKeepsReplies DEF Top, Accept, AcceptFails, Read, TypeInv
<1>3. \A x \in Members : Running(x)' <=> Running(x)
  BY <1>1 DEF Running
<1>4. ThreadInv' /\ DOMAIN thread' = Members /\ DOMAIN serving' = Members
  <2>1. CASE Top(m) \/ Accept(m) \/ AcceptFails(m)
    <3>1. /\ thread[m] # "none"
          /\ \E to \in {"accept", "exited", "read"} : thread' = [thread EXCEPT ![m] = to]
          /\ serving' = serving \/ \E p : serving' = [serving EXCEPT ![m] = p]
      BY <2>1 DEF Top, Accept, AcceptFails
    <3>. QED BY <1>1, <1>3, <3>1 DEF ThreadInv, TypeInv
  <2>2. CASE Read(m)
    <3>1. thread[m] = "read"
      BY <2>2 DEF Read
    <3>2. CASE serving[m] # None /\ federation[serving[m]] = federation[m]
      <4>1. thread' = [thread EXCEPT ![m] = "respond"] /\ serving' = serving
        BY <2>2, <3>2 DEF Read
      <4>. QED BY <1>1, <1>3, <3>1, <3>2, <4>1 DEF ThreadInv, TypeInv
    <3>3. CASE ~(serving[m] # None /\ federation[serving[m]] = federation[m])
      <4>1. thread' = [thread EXCEPT ![m] = "top"] /\ serving' = [serving EXCEPT ![m] = None]
        BY <2>2, <3>3 DEF Read
      <4>. QED BY <1>1, <1>3, <3>1, <4>1 DEF ThreadInv, TypeInv
    <3>. QED BY <3>2, <3>3
  <2>. QED BY <2>1, <2>2
<1>. QED BY <1>1, <1>2, <1>3, <1>4, ListenerKeeps DEF TypeInv

\* The reply names the responder and the incarnation it runs as: a witness of every probe
\* that is under way.
LEMMA RespondKeeps ==
  ASSUME ProbeInv, NEW m \in Members, Respond(m), UNCHANGED federation
  PROVE  ProbeInv'
<1>. USE DEF controlVars
<1>. TypeInv /\ ReplyInv /\ WitnessInv /\ ThreadInv /\ ReachableWasRunning
  BY DEF ProbeInv
<1>0. PICK r : r = [member |-> m, incarnation |-> incarnation[m]]
  OBVIOUS
<1>1. /\ thread[m] = "respond" /\ thread' = [thread EXCEPT ![m] = "top"]
      /\ serving' = [serving EXCEPT ![m] = None]
      /\ UNCHANGED <<federation, incarnation, control, todo, observed, witness>>
  BY DEF Respond
<1>2. r \in Reply /\ r.member = m /\ r.incarnation = incarnation[m]
  BY <1>0 DEF Reply, TypeInv
<1>3. \A c \in Conn : LET d == [c EXCEPT !.reply = r, !.closed = TRUE] IN d \in Conn /\ d.reply = r
  BY <1>2 DEF Conn
<1>4. /\ conn' \in [Members -> Conn]
      /\ \A p \in Members : p # serving[m] => conn'[p] = conn[p]
      /\ \A p \in Members : p = serving[m] => conn'[p].reply \in {conn[p].reply, r}
  <2>1. CASE serving[m] \in Members /\ serving[m] # None
    <3>1. PICK p \in Members : p = serving[m]
      BY <2>1
    <3>2. conn' = [conn EXCEPT ![p].reply = r, ![p].closed = TRUE]
      BY <2>1, <3>1, <1>0 DEF Respond
    <3>3. conn' = [conn EXCEPT ![p] = [conn[p] EXCEPT !.reply = r, !.closed = TRUE]]
      BY <3>2 DEF TypeInv, Conn
    <3>. QED BY <3>1, <3>3, <1>3 DEF TypeInv
  <2>2. CASE serving[m] = None
    BY <2>2 DEF Respond, TypeInv
  <2>3. CASE serving[m] \notin Members /\ serving[m] # None
    BY <2>3 DEF Respond, TypeInv
  <2>. QED BY <2>1, <2>2, <2>3
<1>5. /\ \A x \in Members : Running(x)' <=> Running(x)
      /\ \A x \in Members : Probing(x)' <=> Probing(x)
  BY <1>1 DEF Running, Probing
<1>6. TypeInv'
  BY <1>1, <1>4, <1>5 DEF TypeInv
<1>7. ReplyInv'
  <2>1. Running(m)
    BY <1>1 DEF ThreadInv
  <2>2. ASSUME NEW p \in Members, p = serving[m], control[p] \in {"send", "receive"}
        PROVE  <<m, incarnation[m]>> \in witness[p] /\ federation[m] = federation[p]
    BY <2>1, <2>2, <1>1 DEF WitnessInv, ThreadInv, Probing
  <2>. QED BY <1>1, <1>2, <1>4, <2>2 DEF ReplyInv
<1>8. WitnessInv'
  BY <1>1, <1>5 DEF WitnessInv
<1>9. ThreadInv'
  BY <1>1, <1>5 DEF ThreadInv, TypeInv
<1>10. ReachableWasRunning'
  BY <1>1 DEF ReachableWasRunning
<1>. QED BY <1>6, <1>7, <1>8, <1>9, <1>10 DEF ProbeInv

\* Coming back, as a new incarnation or as the same one, keeps the invariant.
LEMMA NextRunKeeps ==
  ASSUME ProbeInv, NEW m \in Members, NewIncarnation(m) \/ Restart(m), UNCHANGED federation
  PROVE  ProbeInv'
<1>. USE DEF listenerVars
<1>. TypeInv /\ ReplyInv /\ WitnessInv /\ ThreadInv /\ ReachableWasRunning
  BY DEF ProbeInv
<1>1. /\ incarnation' = [incarnation EXCEPT ![m] = @ + 1]
      /\ witness' = [x \in Members |-> witness[x] \union {<<m, incarnation[m] + 1>>}]
      /\ control' = [control EXCEPT ![m] = "idle"]
      /\ UNCHANGED <<federation, todo, observed, thread, serving, conn>>
  <2>1. CASE NewIncarnation(m)
    BY <2>1 DEF NewIncarnation, NextRun, TypeInv
  <2>2. CASE Restart(m)
    BY <2>2 DEF Restart, NextRun
  <2>. QED BY <2>1, <2>2
<1>2. /\ control'[m] = "idle" /\ \A x \in Members : x # m => control'[x] = control[x]
      /\ incarnation'[m] = incarnation[m] + 1
      /\ \A x \in Members : x # m => incarnation'[x] = incarnation[x]
      /\ \A x \in Members : witness'[x] = witness[x] \union {<<m, incarnation[m] + 1>>}
  BY <1>1 DEF TypeInv
<1>3. TypeInv'
  <2>1. \A x \in Members : Probing(x)' => todo'[x] # <<>>
    BY <1>1, <1>2 DEF TypeInv, Probing
  <2>. QED BY <1>1, <2>1 DEF TypeInv
<1>4. ReplyInv'
  BY <1>1, <1>2 DEF ReplyInv
<1>5. WitnessInv'
  BY <1>2 DEF WitnessInv, Probing, Running
<1>6. ThreadInv'
  BY <1>1, <1>2 DEF ThreadInv, Running
<1>7. ReachableWasRunning'
  BY <1>1, <1>2 DEF ReachableWasRunning
<1>. QED BY <1>3, <1>4, <1>5, <1>6, <1>7 DEF ProbeInv

\* A crash keeps the invariant.
LEMMA CrashKeeps ==
  ASSUME ProbeInv, NEW m \in Members, Crash(m), UNCHANGED federation
  PROVE  ProbeInv'
<1>. TypeInv /\ ReplyInv /\ WitnessInv /\ ThreadInv /\ ReachableWasRunning
  BY DEF ProbeInv
<1>1. /\ control' = [control EXCEPT ![m] = "down"]
      /\ todo' = [todo EXCEPT ![m] = <<>>] /\ observed' = [observed EXCEPT ![m] = <<>>]
      /\ thread' = [thread EXCEPT ![m] = "none"]
      /\ serving' = [x \in Members |-> IF x = m \/ serving[x] = m THEN None ELSE serving[x]]
      /\ UNCHANGED <<incarnation, witness, federation>>
  BY DEF Crash
<1>2. /\ control'[m] = "down" /\ observed'[m] = <<>> /\ thread'[m] = "none"
      /\ \A x \in Members : x # m => /\ control'[x] = control[x] /\ todo'[x] = todo[x]
                                     /\ observed'[x] = observed[x] /\ thread'[x] = thread[x]
      /\ \A x \in Members : x # m => serving'[x] \in {serving[x], None}
  BY <1>1 DEF TypeInv
<1>3. conn' \in [Members -> Conn] /\ \A p \in Members : p # m => conn'[p].reply = conn[p].reply
  <2>1. NoConn \in Conn
    BY DEF NoConn, Conn
  <2>2. \A c \in Conn : LET d == [c EXCEPT !.closed = TRUE] IN d \in Conn /\ d.reply = c.reply
    BY DEF Conn
  <2>. QED BY <2>1, <2>2 DEF Crash, TypeInv
<1>4. TypeInv'
  <2>1. \A x \in Members : Probing(x)' => todo'[x] # <<>>
    BY <1>2 DEF TypeInv, Probing
  <2>2. todo' \in [Members -> Seq(Target)] /\ observed' \in [Members -> Seq(Entry)]
    BY <1>1 DEF TypeInv
  <2>. QED BY <1>1, <1>3, <2>1, <2>2 DEF TypeInv
<1>5. ReplyInv'
  BY <1>1, <1>2, <1>3 DEF ReplyInv
<1>6. WitnessInv'
  BY <1>1, <1>2 DEF WitnessInv, Probing, Running
<1>7. ThreadInv'
  BY <1>1, <1>2, ProbingAssumption DEF ThreadInv, Running
<1>8. ReachableWasRunning'
  BY <1>1, <1>2 DEF ReachableWasRunning
<1>. QED BY <1>4, <1>5, <1>6, <1>7, <1>8 DEF ProbeInv

\* Every step keeps the invariant.
LEMMA NextKeepsProbeInv == ProbeInv /\ [Next]_vars => ProbeInv'
<1>. SUFFICES ASSUME ProbeInv, [Next]_vars PROVE ProbeInv'
  OBVIOUS
<1>1. CASE UNCHANGED vars
  <2>. USE <1>1 DEF vars, controlVars, listenerVars
  <2>1. TypeInv' /\ ReplyInv' /\ WitnessInv' /\ ThreadInv'
    BY DEF ProbeInv, TypeInv, ReplyInv, WitnessInv, ThreadInv, Probing, Running
  <2>2. ReachableWasRunning'
    BY DEF ProbeInv, ReachableWasRunning
  <2>. QED BY <2>1, <2>2 DEF ProbeInv
<1>2. ASSUME NEW m \in Members, NEW targets \in PeerLists[m], ProbePeers(m, targets),
             UNCHANGED federation
      PROVE  ProbeInv'
  BY <1>2, ProbeKeeps
<1>3. ASSUME NEW m \in Members, UNCHANGED federation,
             \/ Prober(m) \/ Start(m) \/ Stop(m) \/ Join(m) \/ Thread(m)
             \/ NewIncarnation(m) \/ Crash(m) \/ Restart(m)
      PROVE  ProbeInv'
  BY <1>3, ProberKeeps, StartStopKeeps, ServingKeeps, RespondKeeps, NextRunKeeps, CrashKeeps
     DEF Thread
<1>. QED BY <1>1, <1>2, <1>3 DEF Next

\* probe_peers: a peer it reports as reachable is a member of its own federation that ran,
\* as the reported incarnation, while the probe was under way, whatever crashed, restarted
\* or answered at the same port meanwhile.
THEOREM ReachableWasRunningHolds == Spec => []ReachableWasRunning
<1>1. Init => ProbeInv
  BY InitHasProbeInv
<1>2. ProbeInv /\ [Next]_vars => ProbeInv'
  BY NextKeepsProbeInv
<1>3. ProbeInv => ReachableWasRunning
  BY DEF ProbeInv
<1>. QED BY <1>1, <1>2, <1>3, PTL DEF Spec
================================================================================
