-------------------------------- MODULE Probing --------------------------------
(********************************************************************************)
(* Reachability probes between members (member_runtime.cpp).  The control       *)
(* thread of a member opens and closes its listener and probes peers; one       *)
(* listener thread answers one connection at a time.  Nothing has a timeout.    *)
(* A process may crash and come back with a new incarnation and another port,   *)
(* and a listener may be closed while a peer waits for its answer.              *)
(********************************************************************************)
EXTENDS Naturals, Sequences, FiniteSets

CONSTANTS
  Members,
  Endpoints,         \* ports
  Configurations,    \* functions [Members -> the federation a member is configured for]
  PeerLists,         \* [Members -> sets of sequences of targets [member, endpoint]]
  MaxIncarnation,    \* bound on restarts
  MaxProbes,         \* bound on the calls of probe_peers of a member
  MaxFailures,       \* bound on accepts that fail by themselves
  None

\* A probe of no peers reports nothing.
ASSUME ProbingAssumption ==
  /\ None \notin Members
  /\ \A m \in Members : \A targets \in PeerLists[m] :
       targets \in Seq([member : Members, endpoint : Endpoints]) /\ targets # <<>>

VARIABLES
  federation,        \* config.federation of each
  incarnation,       \* config.incarnation
  control,           \* where the control thread is
  todo,              \* the targets probe_peers has left
  observed,          \* the entries of its observation
  witness,           \* <<m, i>>: member m ran as incarnation i during the probe
  probes,            \* calls made
  port,              \* bound_probe_port
  open,              \* probe_open; the listener is closed when it is reset
  thread,            \* where the listener thread is
  serving,           \* the prober whose connection it holds
  backlog,           \* probers whose connections it has not accepted
  conn,              \* the connection of each prober
  failures           \* accepts that failed

controlVars  == <<incarnation, control, todo, observed, witness, probes>>
listenerVars == <<port, open, thread, serving, backlog>>
vars == <<federation, controlVars, listenerVars, conn, failures>>

NoConn == [to |-> None, sent |-> FALSE, reply |-> None, closed |-> FALSE]
Running(m) == control[m] # "down"

Init ==
  /\ federation \in Configurations
  /\ incarnation = [m \in Members |-> 1] /\ control = [m \in Members |-> "idle"]
  /\ todo = [m \in Members |-> <<>>] /\ observed = [m \in Members |-> <<>>]
  /\ witness = [m \in Members |-> {}] /\ probes = [m \in Members |-> 0]
  /\ port = [m \in Members |-> None] /\ open = [m \in Members |-> FALSE]
  /\ thread = [m \in Members |-> "none"] /\ serving = [m \in Members |-> None]
  /\ backlog = [m \in Members |-> <<>>] /\ conn = [m \in Members |-> NoConn]
  /\ failures = 0

(********************************************************************************)
(* probe_peers.                                                                 *)
(********************************************************************************)
\* An accept that a close did not end keeps the port.
Listening(x) == open[x] \/ thread[x] = "held"

ProbePeers(m, targets) ==
  /\ control[m] = "idle" /\ probes[m] < MaxProbes
  /\ probes' = [probes EXCEPT ![m] = @ + 1]
  /\ control' = [control EXCEPT ![m] = "connect"]
  /\ todo' = [todo EXCEPT ![m] = targets]
  /\ observed' = [observed EXCEPT ![m] = <<>>]
  /\ witness' = [witness EXCEPT ![m] = {<<x, incarnation[x]>> : x \in {y \in Members : Running(y)}}]
  /\ UNCHANGED <<incarnation, listenerVars, conn, failures>>

\* One entry is recorded, the socket goes out of scope, the next peer is next.
Record(m, state, inc) ==
  /\ observed' = [observed EXCEPT ![m] =
       Append(@, [peer |-> Head(todo[m]).member, state |-> state, incarnation |-> inc])]
  /\ todo' = [todo EXCEPT ![m] = Tail(@)]
  /\ control' = [control EXCEPT ![m] = IF Len(todo[m]) = 1 THEN "idle" ELSE "connect"]
  /\ conn' = [conn EXCEPT ![m] = NoConn]
  /\ UNCHANGED <<incarnation, witness, probes, listenerVars, failures>>

At(e) == {x \in Members : port[x] = e /\ Listening(x)}

Connect(m) ==
  /\ control[m] = "connect"
  /\ \E x \in At(Head(todo[m]).endpoint) :
       /\ conn' = [conn EXCEPT ![m] = [NoConn EXCEPT !.to = x]]
       /\ backlog' = [backlog EXCEPT ![x] = Append(@, m)]
  /\ control' = [control EXCEPT ![m] = "send"]
  /\ UNCHANGED <<incarnation, todo, observed, witness, probes, port, open, thread, serving, failures>>

ConnectFails(m) ==
  /\ control[m] = "connect" /\ At(Head(todo[m]).endpoint) = {}
  /\ Record(m, "Unreachable", 0)

Send(m) ==
  /\ control[m] = "send" /\ ~conn[m].closed
  /\ conn' = [conn EXCEPT ![m].sent = TRUE]
  /\ control' = [control EXCEPT ![m] = "receive"]
  /\ UNCHANGED <<incarnation, todo, observed, witness, probes, listenerVars, failures>>

\* The send or the read finds the connection closed.
ExchangeFails(m) ==
  /\ control[m] \in {"send", "receive"} /\ conn[m].closed /\ conn[m].reply = None
  /\ Record(m, "Unreachable", 0)

\* Another member at the endpoint is Unknown.
ReceiveAny(m) ==
  /\ control[m] = "receive" /\ conn[m].reply # None
  /\ Record(m, "Reachable", conn[m].reply.incarnation)

Receive(m) ==
  /\ control[m] = "receive" /\ conn[m].reply # None
  /\ IF conn[m].reply.member = Head(todo[m]).member
     THEN Record(m, "Reachable", conn[m].reply.incarnation)
     ELSE Record(m, "Unknown", 0)

(********************************************************************************)
(* The listener.                                                                *)
(********************************************************************************)
\* The port is taken unless another listener has it.
BindLoopback(m, e) == At(e) = {} /\ port' = [port EXCEPT ![m] = e]

\* start_probe_listener, when it is not open: the port bound before, or any that is free.
Start(m) ==
  /\ control[m] = "idle" /\ ~open[m]
  /\ \E e \in IF port[m] = None THEN Endpoints ELSE {port[m]} : BindLoopback(m, e)
  /\ open' = [open EXCEPT ![m] = TRUE]
  /\ thread' = [thread EXCEPT ![m] = "top"]
  /\ UNCHANGED <<controlVars, serving, backlog, conn, failures>>

Closed(waiting) ==
  conn' = [p \in Members |-> IF p \in waiting THEN [conn[p] EXCEPT !.closed = TRUE] ELSE conn[p]]

Waiting(m) == {backlog[m][i] : i \in DOMAIN backlog[m]}

\* stop_probe_listener: the flag, the close, then the join.  The close resets what nobody
\* accepted and ends an accept in progress; on some systems (Linux) it does neither.
StopUnclosed(m) ==
  /\ control[m] = "idle" /\ open[m]
  /\ open' = [open EXCEPT ![m] = FALSE]
  /\ control' = [control EXCEPT ![m] = "join"]
  /\ UNCHANGED <<incarnation, todo, observed, witness, probes, port, thread, serving, backlog, conn, failures>>

Stop(m) ==
  /\ control[m] = "idle" /\ open[m]
  /\ open' = [open EXCEPT ![m] = FALSE]
  /\ \/ Closed(Waiting(m)) /\ backlog' = [backlog EXCEPT ![m] = <<>>] /\ UNCHANGED thread
     \/ /\ thread[m] = "accept" /\ thread' = [thread EXCEPT ![m] = "held"]
        /\ UNCHANGED <<conn, backlog>>
  /\ control' = [control EXCEPT ![m] = "join"]
  /\ UNCHANGED <<incarnation, todo, observed, witness, probes, port, serving, failures>>

Join(m) ==
  /\ control[m] = "join" /\ thread[m] = "exited"
  /\ thread' = [thread EXCEPT ![m] = "none"]
  /\ control' = [control EXCEPT ![m] = "idle"]
  /\ UNCHANGED <<incarnation, todo, observed, witness, probes, port, open, serving, backlog, conn, failures>>

\* The loop's condition.
Top(m) ==
  /\ thread[m] = "top"
  /\ thread' = [thread EXCEPT ![m] = IF open[m] THEN "accept" ELSE "exited"]
  /\ UNCHANGED <<controlVars, port, open, serving, backlog, conn, failures>>

Accept(m) ==
  /\ thread[m] \in {"accept", "held"} /\ backlog[m] # <<>>
  /\ serving' = [serving EXCEPT ![m] = Head(backlog[m])]
  /\ backlog' = [backlog EXCEPT ![m] = Tail(@)]
  /\ thread' = [thread EXCEPT ![m] = "read"]
  /\ UNCHANGED <<controlVars, port, open, conn, failures>>

\* An accept ended by the close, or one that fails by itself: either leaves the loop.
AcceptFails(m) ==
  /\ thread[m] = "accept"
  /\ \/ ~open[m] /\ UNCHANGED failures
     \/ failures < MaxFailures /\ failures' = failures + 1
  /\ thread' = [thread EXCEPT ![m] = "exited"]
  /\ UNCHANGED <<controlVars, port, open, serving, backlog, conn>>

ReadUntilSent(m) ==
  /\ thread[m] = "read" /\ serving[m] # None /\ conn[serving[m]].sent
  /\ thread' = [thread EXCEPT ![m] = "respond"]
  /\ UNCHANGED <<controlVars, port, open, serving, backlog, conn, failures>>

\* A probe of this federation is answered; any other is dropped, and so is a connection
\* whose prober is gone.
Read(m) ==
  /\ thread[m] = "read" /\ (serving[m] # None => conn[serving[m]].sent)
  /\ IF serving[m] # None /\ federation[serving[m]] = federation[m]
     THEN /\ thread' = [thread EXCEPT ![m] = "respond"]
          /\ UNCHANGED <<serving, conn>>
     ELSE /\ thread' = [thread EXCEPT ![m] = "top"]
          /\ serving' = [serving EXCEPT ![m] = None]
          /\ Closed({serving[m]})
  /\ UNCHANGED <<controlVars, port, open, backlog, failures>>

\* The incarnation is read while the control thread may be writing it.
Respond(m) ==
  /\ thread[m] = "respond"
  /\ conn' = IF serving[m] = None THEN conn
             ELSE [conn EXCEPT ![serving[m]].reply = [member |-> m, incarnation |-> incarnation[m]],
                               ![serving[m]].closed = TRUE]
  /\ thread' = [thread EXCEPT ![m] = "top"]
  /\ serving' = [serving EXCEPT ![m] = None]
  /\ UNCHANGED <<controlVars, port, open, backlog, failures>>

(********************************************************************************)
(* Incarnations and processes.                                                  *)
(********************************************************************************)
NextRun(m) ==
  /\ incarnation[m] < MaxIncarnation
  /\ incarnation' = [incarnation EXCEPT ![m] = @ + 1]
  /\ witness' = [x \in Members |-> witness[x] \union {<<m, incarnation[m] + 1>>}]

\* restart_with_new_incarnation, of the runtime; its listener goes on.
NewIncarnation(m) ==
  /\ control[m] = "idle" /\ NextRun(m)
  /\ UNCHANGED <<control, todo, observed, probes, listenerVars, conn, failures>>

\* The process ends: its connections are closed on both sides.
Crash(m) ==
  /\ Running(m)
  /\ control' = [control EXCEPT ![m] = "down"]
  /\ todo' = [todo EXCEPT ![m] = <<>>] /\ observed' = [observed EXCEPT ![m] = <<>>]
  /\ port' = [port EXCEPT ![m] = None] /\ open' = [open EXCEPT ![m] = FALSE]
  /\ thread' = [thread EXCEPT ![m] = "none"]
  /\ serving' = [x \in Members |-> IF x = m \/ serving[x] = m THEN None ELSE serving[x]]
  /\ backlog' = [x \in Members |-> IF x = m THEN <<>> ELSE SelectSeq(backlog[x], LAMBDA p : p # m)]
  /\ conn' = [p \in Members |->
                IF p = m THEN NoConn
                ELSE IF conn[p].to = m THEN [conn[p] EXCEPT !.closed = TRUE] ELSE conn[p]]
  /\ UNCHANGED <<incarnation, witness, probes, failures>>

\* A new process of the member, under a greater incarnation.
Restart(m) ==
  /\ control[m] = "down" /\ NextRun(m)
  /\ control' = [control EXCEPT ![m] = "idle"]
  /\ UNCHANGED <<todo, observed, probes, listenerVars, conn, failures>>

Prober(m) == Connect(m) \/ ConnectFails(m) \/ Send(m) \/ ExchangeFails(m) \/ Receive(m)
Thread(m) == Top(m) \/ Accept(m) \/ AcceptFails(m) \/ Read(m) \/ Respond(m)

Next ==
  /\ \E m \in Members :
       \/ \E targets \in PeerLists[m] : ProbePeers(m, targets)
       \/ Prober(m) \/ Start(m) \/ Stop(m) \/ Join(m) \/ Thread(m)
       \/ NewIncarnation(m) \/ Crash(m) \/ Restart(m)
  /\ UNCHANGED federation

Spec == Init /\ [][Next]_vars

\* Both threads of a running process keep running.
FairSpec ==
  /\ Spec
  /\ \A m \in Members :
       /\ WF_vars(Prober(m) /\ UNCHANGED federation)
       /\ WF_vars(Join(m) /\ UNCHANGED federation)
       /\ WF_vars(Thread(m) /\ UNCHANGED federation)

(********************************************************************************)
(* Properties.                                                                  *)
(********************************************************************************)
\* probe_peers "returns what was actually observed": a peer it reports as reachable
\* is a member of the same federation that ran as the reported incarnation while the
\* probe was under way, whoever else took over its endpoint meanwhile.
ReachableWasRunning ==
  \A m \in Members : \A i \in DOMAIN observed[m] :
    LET entry == observed[m][i]
    IN  entry.state = "Reachable" =>
          /\ <<entry.peer, entry.incarnation>> \in witness[m]
          /\ federation[entry.peer] = federation[m]

\* A listener thread that left its loop because one accept failed: the listener is open,
\* takes connections and serves nobody.
Deaf(m) == open[m] /\ thread[m] = "exited"

\* Every probe_peers returns, although the members probe each other at the same time and
\* stop, crash and restart; it may wait only for a peer that is deaf.
ProbesFinish ==
  \A m \in Members :
    control[m] = "connect" ~> \/ control[m] \in {"idle", "down"}
                              \/ conn[m].to # None /\ Deaf(conn[m].to)

\* stop_probe_listener returns, unless the system keeps the accept it was to end: then
\* the join waits for one more peer to connect.
StopReturns ==
  \A m \in Members : control[m] = "join" ~> (control[m] # "join" \/ thread[m] = "held")
================================================================================
