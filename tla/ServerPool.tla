------------------------------ MODULE ServerPool ------------------------------
(***************************************************************************)
(* The server side of FederationCoordinator (src/src/coordinator.cpp): one *)
(* accept thread feeds a bounded queue, a pool of workers serves one       *)
(* connection each, and stop() takes the threads down while clients are    *)
(* connecting, talking or silent.                                          *)
(*                                                                         *)
(* What a request does to the federation is module Coordinator; here a     *)
(* request is something that is read, handled and answered.                *)
(***************************************************************************)
EXTENDS Naturals, Sequences, FiniteSets

CONSTANTS
  Worker,             \* the worker threads
  Socket,             \* the connections clients make
  None,               \* no socket, no lock holder
  MaxPending,         \* config.max_pending_connections
  MaxFailures         \* consecutive accept failures before the thread gives up

ASSUME PoolAssumption ==
  /\ MaxPending \in Nat /\ MaxFailures \in Nat
  /\ None \notin Worker \cup Socket /\ IsFiniteSet(Worker)

VARIABLES
  stopper,        \* where start() and stop() are
  stopping,       \* the atomic flag
  listening,      \* listener.valid()
  backlog,        \* connections the operating system has and nobody accepted
  acceptor,       \* program counter of the accept thread
  accepted,       \* the socket the accept thread holds
  failures,       \* consecutive_failures
  held,           \* the listener is closed and an accept in progress keeps it
  queue,          \* accepted connections nobody serves yet
  queue_owner,    \* the worker that keeps queue_mutex beyond one step
  worker,         \* program counters of the workers
  socket,         \* the socket each worker holds
  active,         \* active_sockets, the registry of live connections
  doomed,         \* the sockets shutdown_connections has collected
  shut,           \* sockets shutdown_both was called on
  open,           \* sockets whose handle is open in this process
  inbox,          \* the message a client has sent and nobody has read
  gone,           \* sockets whose client disconnected
  journal_open    \* Journal::is_open()

serverVars == <<stopper, stopping, listening, journal_open>>
acceptVars == <<acceptor, accepted, failures, held>>
poolVars == <<queue, queue_owner, worker, socket>>
socketVars == <<active, doomed, shut, open>>
clientVars == <<inbox, gone>>
vars == <<serverVars, backlog, acceptVars, poolVars, socketVars, clientVars>>

\* What a frame is to serve(): a hello it accepts, or any other frame.
Message == {"Hello", "Other"}

Init ==
  /\ stopper = "created" /\ stopping = FALSE /\ listening = FALSE /\ journal_open = TRUE
  /\ backlog = {} /\ acceptor = "off" /\ accepted = None /\ failures = 0 /\ held = FALSE
  /\ queue = <<>> /\ queue_owner = None
  /\ worker = [w \in Worker |-> "off"] /\ socket = [w \in Worker |-> None]
  /\ active = {} /\ doomed = {} /\ shut = {} /\ open = {}
  /\ inbox = [s \in Socket |-> None] /\ gone = {}
-----------------------------------------------------------------------------
(* Clients *)

\* A closed listener still takes connections while an accept it did not end
\* holds it.
Reachable == listening \/ held

Connected(s) == s \in (backlog \cup open) \ gone
Fresh(s) == s \notin backlog \cup open \cup gone

Connect(s) ==
  /\ Reachable /\ Fresh(s)
  /\ backlog' = backlog \cup {s} /\ inbox' = [inbox EXCEPT ![s] = None]
  /\ UNCHANGED <<serverVars, acceptVars, poolVars, socketVars, gone>>

\* A client has at most one unread message.
Send(s, message) ==
  /\ Connected(s) /\ inbox[s] = None
  /\ inbox' = [inbox EXCEPT ![s] = message]
  /\ UNCHANGED <<serverVars, backlog, acceptVars, poolVars, socketVars, gone>>

Disconnect(s) ==
  /\ Connected(s)
  /\ gone' = gone \cup {s}
  /\ UNCHANGED <<serverVars, backlog, acceptVars, poolVars, socketVars, inbox>>
-----------------------------------------------------------------------------
(* accept_loop *)

AcceptorChecks ==
  /\ acceptor = "top"
  /\ acceptor' = IF stopping \/ ~listening THEN "exited" ELSE "accept"
  /\ UNCHANGED <<serverVars, backlog, accepted, failures, held, poolVars, socketVars, clientVars>>

Accept(s) ==
  /\ acceptor = "accept" /\ s \in backlog
  /\ backlog' = backlog \ {s} /\ open' = open \cup {s}
  /\ accepted' = s /\ failures' = 0 /\ held' = FALSE /\ acceptor' = "push"
  /\ UNCHANGED <<serverVars, poolVars, active, doomed, shut, clientVars>>

\* accept() returned an error.
AcceptError ==
  /\ acceptor = "accept"
  /\ failures' = IF stopping \/ ~listening THEN failures ELSE failures + 1
  /\ acceptor' = IF stopping \/ ~listening \/ failures = MaxFailures THEN "exited" ELSE "top"
  /\ held' = FALSE
  /\ UNCHANGED <<serverVars, backlog, accepted, poolVars, socketVars, clientVars>>

\* The error is that the listener is closed.
AcceptEnds == ~listening /\ ~held /\ AcceptError

\* The system refuses for a reason of its own, or the call came after the close.
AcceptRefused == AcceptError

\* Mutant: the bound is tested after the push.
AcceptorPushesLate ==
  /\ acceptor = "push" /\ queue_owner = None
  /\ IF Len(queue) > MaxPending
     THEN open' = open \ {accepted} /\ acceptor' = "top" /\ UNCHANGED queue
     ELSE queue' = Append(queue, accepted) /\ acceptor' = "notify" /\ UNCHANGED open
  /\ accepted' = None
  /\ UNCHANGED <<serverVars, backlog, failures, held, queue_owner, worker, socket, active, doomed,
                 shut, clientVars>>

\* Under queue_mutex: a connection that finds the queue full is closed.
AcceptorPushes ==
  /\ acceptor = "push" /\ queue_owner = None
  /\ IF Len(queue) >= MaxPending
     THEN open' = open \ {accepted} /\ acceptor' = "top" /\ UNCHANGED queue
     ELSE queue' = Append(queue, accepted) /\ acceptor' = "notify" /\ UNCHANGED open
  /\ accepted' = None
  /\ UNCHANGED <<serverVars, backlog, failures, held, queue_owner, worker, socket, active, doomed,
                 shut, clientVars>>

Asleep == {w \in Worker : worker[w] = "asleep"}
Wake(W) == worker' = [w \in Worker |-> IF w \in W THEN "loop" ELSE worker[w]]

\* Mutant: nobody is notified.
AcceptorNotifiesNobody ==
  /\ acceptor = "notify"
  /\ acceptor' = "top"
  /\ UNCHANGED <<serverVars, backlog, accepted, failures, held, poolVars, socketVars, clientVars>>

\* notify_one, after queue_mutex was released.
AcceptorNotifies ==
  /\ acceptor = "notify"
  /\ acceptor' = "top"
  /\ IF Asleep = {} THEN UNCHANGED worker ELSE \E w \in Asleep : Wake({w})
  /\ UNCHANGED <<serverVars, backlog, accepted, failures, held, queue, queue_owner, socket,
                 socketVars, clientVars>>
-----------------------------------------------------------------------------
(* worker_loop *)

At(w, from, to) == worker[w] = from /\ worker' = [worker EXCEPT ![w] = to]

\* Mutant: the connection stays in the queue.
WorkerTakesCopy(w) ==
  /\ At(w, "loop", "popped") /\ queue_owner = None
  /\ queue # <<>>
  /\ socket' = [socket EXCEPT ![w] = Head(queue)]
  /\ UNCHANGED <<serverVars, backlog, acceptVars, queue, queue_owner, socketVars, clientVars>>

WorkerTakes(w) ==
  /\ At(w, "loop", "popped") /\ queue_owner = None
  /\ queue # <<>>
  /\ socket' = [socket EXCEPT ![w] = Head(queue)] /\ queue' = Tail(queue)
  /\ UNCHANGED <<serverVars, backlog, acceptVars, queue_owner, socketVars, clientVars>>

WorkerExits(w) ==
  /\ At(w, "loop", "exited") /\ queue_owner = None
  /\ queue = <<>> /\ stopping
  /\ UNCHANGED <<serverVars, backlog, acceptVars, queue, queue_owner, socket, socketVars,
                 clientVars>>

\* The predicate of queue_cv.wait is false; the worker has not blocked yet and
\* still holds queue_mutex.
WorkerDecidesToWait(w) ==
  /\ At(w, "loop", "drowsy") /\ queue_owner = None
  /\ queue = <<>> /\ ~stopping
  /\ queue_owner' = w
  /\ UNCHANGED <<serverVars, backlog, acceptVars, queue, socket, socketVars, clientVars>>

\* wait blocks and releases queue_mutex in one step.
WorkerBlocks(w) ==
  /\ At(w, "drowsy", "asleep")
  /\ queue_owner' = None
  /\ UNCHANGED <<serverVars, backlog, acceptVars, queue, socket, socketVars, clientVars>>

SpuriousWakeup(w) ==
  /\ At(w, "asleep", "loop")
  /\ UNCHANGED <<serverVars, backlog, acceptVars, queue, queue_owner, socket, socketVars,
                 clientVars>>
-----------------------------------------------------------------------------
(* serve *)

Register(w) ==
  /\ At(w, "popped", "hello")
  /\ active' = active \cup {socket[w]}
  /\ UNCHANGED <<serverVars, backlog, acceptVars, queue, queue_owner, socket, doomed, shut,
                 open, clientVars>>

\* A blocking read ends with a message, or without one when the client is gone
\* or the connection was shut down.
Reads(w, message) == inbox[socket[w]] = message /\ inbox' = [inbox EXCEPT ![socket[w]] = None]
ReadEnds(w) ==
  socket[w] \in shut \/ (socket[w] \in gone /\ inbox[socket[w]] = None)

\* The handshake: anything but a hello ends the connection, and so does a
\* welcome that cannot be written.
ReadHello(w) ==
  /\ worker[w] = "hello"
  /\ \/ /\ Reads(w, "Hello")
        /\ \/ worker' = [worker EXCEPT ![w] = "check"]
           \/ socket[w] \in gone \cup shut /\ worker' = [worker EXCEPT ![w] = "leave"]
     \/ Reads(w, "Other") /\ worker' = [worker EXCEPT ![w] = "leave"]
     \/ ReadEnds(w) /\ worker' = [worker EXCEPT ![w] = "leave"] /\ UNCHANGED inbox
  /\ UNCHANGED <<serverVars, backlog, acceptVars, queue, queue_owner, socket, socketVars, gone>>

CheckStopping(w) ==
  /\ worker[w] = "check"
  /\ worker' = [worker EXCEPT ![w] = IF stopping THEN "leave" ELSE "read"]
  /\ UNCHANGED <<serverVars, backlog, acceptVars, queue, queue_owner, socket, socketVars,
                 clientVars>>

\* A request is handled and answered; a goodbye, an invalid frame, a second
\* hello, a failed request or a failed answer ends the connection.
ReadRequest(w) ==
  /\ worker[w] = "read"
  /\ \/ Reads(w, "Other") /\ \E to \in {"check", "leave"} : worker' = [worker EXCEPT ![w] = to]
     \/ Reads(w, "Hello") /\ worker' = [worker EXCEPT ![w] = "leave"]
     \/ ReadEnds(w) /\ worker' = [worker EXCEPT ![w] = "leave"] /\ UNCHANGED inbox
  /\ UNCHANGED <<serverVars, backlog, acceptVars, queue, queue_owner, socket, socketVars, gone>>

\* Mutant: an early return forgets to unregister.
LeaveRegistered(w) ==
  /\ At(w, "leave", "loop")
  /\ open' = open \ ({socket[w]} \ doomed)
  /\ socket' = [socket EXCEPT ![w] = None]
  /\ UNCHANGED <<serverVars, backlog, acceptVars, queue, queue_owner, active, doomed, shut,
                 clientVars>>

\* unregister, and the last reference to the socket closes it: the worker's own,
\* unless shutdown_connections has one.
Leave(w) ==
  /\ At(w, "leave", "loop")
  /\ active' = active \ {socket[w]} /\ open' = open \ ({socket[w]} \ doomed)
  /\ socket' = [socket EXCEPT ![w] = None]
  /\ UNCHANGED <<serverVars, backlog, acceptVars, queue, queue_owner, doomed, shut, clientVars>>
-----------------------------------------------------------------------------
(* start and stop *)

Start ==
  /\ stopper = "created"
  /\ stopper' = "running" /\ listening' = TRUE /\ stopping' = FALSE
  /\ acceptor' = "top" /\ worker' = [w \in Worker |-> "loop"]
  /\ UNCHANGED <<journal_open, backlog, accepted, failures, held, queue, queue_owner, socket,
                 socketVars, clientVars>>

StopBegins ==
  /\ stopper = "running"
  /\ stopper' = "close" /\ stopping' = TRUE
  /\ UNCHANGED <<listening, journal_open, backlog, acceptVars, poolVars, socketVars, clientVars>>

\* Whether closing the listener ends an accept in progress is up to the system
\* (on Linux it does not).  Connections nobody accepted are reset, unless that
\* accept keeps the listener.
CloseListener ==
  /\ stopper = "close"
  /\ stopper' = "join_acceptor" /\ listening' = FALSE
  /\ held' \in {FALSE, acceptor = "accept"}
  /\ IF held'
     THEN UNCHANGED <<backlog, gone>>
     ELSE backlog' = {} /\ gone' = gone \cup backlog
  /\ UNCHANGED <<stopping, journal_open, acceptor, accepted, failures, poolVars, socketVars, inbox>>

\* Mutant: stop does not wait for the accept thread.
JoinAcceptorAtOnce ==
  /\ stopper = "join_acceptor"
  /\ stopper' = "notify"
  /\ UNCHANGED <<stopping, listening, journal_open, backlog, acceptVars, poolVars, socketVars,
                 clientVars>>

JoinAcceptor ==
  /\ stopper = "join_acceptor" /\ acceptor = "exited"
  /\ stopper' = "notify"
  /\ UNCHANGED <<stopping, listening, journal_open, backlog, acceptVars, poolVars, socketVars,
                 clientVars>>

\* notify_all, before and after shutdown_connections, without queue_mutex.
NotifyAll ==
  /\ stopper \in {"notify", "notify_again"}
  /\ stopper' = IF stopper = "notify" THEN "collect" ELSE "join_workers"
  /\ Wake(Asleep)
  /\ UNCHANGED <<stopping, listening, journal_open, backlog, acceptVars, queue, queue_owner,
                 socket, socketVars, clientVars>>

\* shutdown_connections copies and clears the registry under sockets_mutex.
CollectConnections ==
  /\ stopper = "collect"
  /\ stopper' = "shut" /\ doomed' = active \cap open /\ active' = {}
  /\ UNCHANGED <<stopping, listening, journal_open, backlog, acceptVars, poolVars, shut, open,
                 clientVars>>

Served == {socket[w] : w \in Worker}

\* Mutant: the connections are collected and not shut down.
ShutNothing ==
  /\ stopper = "shut"
  /\ stopper' = "notify_again" /\ doomed' = {} /\ open' = open \ (doomed \ Served)
  /\ UNCHANGED <<shut, stopping, listening, journal_open, backlog, acceptVars, poolVars, active,
                 clientVars>>

\* ... and shuts the collected sockets down with no lock held, closing those
\* their worker has left in the meantime.
ShutConnections ==
  /\ stopper = "shut"
  /\ stopper' = "notify_again" /\ shut' = shut \cup doomed
  /\ doomed' = {} /\ open' = open \ (doomed \ Served)
  /\ UNCHANGED <<stopping, listening, journal_open, backlog, acceptVars, poolVars, active,
                 clientVars>>

\* Mutant: one worker that has exited is enough.
JoinOneWorker ==
  /\ stopper = "join_workers" /\ \E w \in Worker : worker[w] = "exited"
  /\ stopper' = "stopped" /\ queue' = <<>> /\ journal_open' = FALSE
  /\ open' = open \ {queue[i] : i \in DOMAIN queue}
  /\ UNCHANGED <<stopping, listening, backlog, acceptVars, queue_owner, worker, socket, active,
                 doomed, shut, clientVars>>

\* All workers are joined, the queue is cleared, the journal is closed.
JoinWorkers ==
  /\ stopper = "join_workers" /\ \A w \in Worker : worker[w] = "exited"
  /\ stopper' = "stopped" /\ queue' = <<>> /\ journal_open' = FALSE
  /\ open' = open \ {queue[i] : i \in DOMAIN queue}
  /\ UNCHANGED <<stopping, listening, backlog, acceptVars, queue_owner, worker, socket, active,
                 doomed, shut, clientVars>>
-----------------------------------------------------------------------------
AcceptorStep ==
  \/ AcceptorChecks \/ AcceptorPushes \/ AcceptorNotifies
  \/ AcceptEnds \/ \E s \in Socket : Accept(s)

WorkerStep(w) ==
  \/ WorkerTakes(w) \/ WorkerExits(w) \/ WorkerDecidesToWait(w) \/ WorkerBlocks(w)
  \/ Register(w) \/ ReadHello(w) \/ CheckStopping(w) \/ ReadRequest(w) \/ Leave(w)

StopStep ==
  \/ CloseListener \/ JoinAcceptor \/ NotifyAll \/ CollectConnections \/ ShutConnections
  \/ JoinWorkers

Next ==
  \/ \E s \in Socket : Connect(s) \/ Disconnect(s) \/ (\E m \in Message : Send(s, m))
  \/ AcceptorStep \/ AcceptRefused
  \/ \E w \in Worker : WorkerStep(w) \/ SpuriousWakeup(w)
  \/ Start \/ StopBegins \/ StopStep

Spec == Init /\ [][Next]_vars

\* Every thread of the server that can take a step takes one.  Nothing is
\* assumed of clients, of spurious wakeups or of the caller of stop.
FairSpec ==
  /\ Spec
  /\ WF_vars(AcceptorStep) /\ WF_vars(StopStep)
  /\ \A w \in Worker : WF_vars(WorkerStep(w))
-----------------------------------------------------------------------------
(* Properties *)

\* The positions of the threads, where connections are, and the bound of the
\* queue (pending connections never exceed MaxPending, accept_loop).
TypeOK ==
  /\ stopper \in {"created", "running", "close", "join_acceptor", "notify", "collect", "shut",
                  "notify_again", "join_workers", "stopped"}
  /\ stopping \in BOOLEAN /\ listening \in BOOLEAN /\ journal_open \in BOOLEAN
  /\ acceptor \in {"off", "top", "accept", "push", "notify", "exited"}
  /\ accepted \in Socket \cup {None} /\ failures \in 0..MaxFailures + 1
  /\ held \in BOOLEAN /\ (held => acceptor = "accept" /\ ~listening)
  /\ queue \in Seq(Socket) /\ Len(queue) <= MaxPending
  /\ queue_owner \in Worker \cup {None}
  /\ worker \in [Worker -> {"off", "loop", "drowsy", "asleep", "popped", "hello", "check",
                            "read", "leave", "exited"}]
  /\ socket \in [Worker -> Socket \cup {None}]
  /\ backlog \subseteq Socket /\ active \subseteq Socket /\ doomed \subseteq Socket
  /\ shut \subseteq Socket /\ open \subseteq Socket /\ gone \subseteq Socket
  /\ inbox \in [Socket -> Message \cup {None}]

\* The places a connection can be in: with the accept thread, at a position of
\* the queue, with a worker (the accept thread as position 0).
Holders(s) ==
  {h \in {<<0, accepted>>} \cup {<<i, queue[i]>> : i \in DOMAIN queue}
          \cup {<<w, socket[w]>> : w \in Worker} : h[2] = s}

\* A connection is never with two threads or at two places of the queue, and
\* its handle is open exactly while it is somewhere, stop()'s list of doomed
\* connections included: none is leaked, closed under its worker or served
\* twice (accept_loop, worker_loop, serve, shutdown_connections).
OneHolder ==
  \A s \in Socket :
    /\ Cardinality(Holders(s)) <= 1
    /\ s \in open <=> (Holders(s) # {} \/ s \in doomed)

\* The registry stop() shuts down from holds only connections a worker is
\* serving (serve's unregister on every return path).
RegistryIsLive == \A s \in active : \E w \in Worker : socket[w] = s

\* Nothing outlives stop(): the journal is closed when no worker can handle a
\* request any more, and once it has returned no connection is open and no
\* thread is left (stop, accept_loop, worker_loop).
StoppedIsQuiet ==
  /\ ~journal_open => \A w \in Worker : worker[w] = "exited"
  /\ stopper = "stopped" => open = {} /\ queue = <<>> /\ acceptor = "exited"

Queued(s) == \E i \in DOMAIN queue : queue[i] = s
Reading(w) == worker[w] \in {"hello", "read"}

\* A queued connection does not wait while a worker is free, whatever the order
\* of pushes, notifications and waits: it is taken, unless clients keep every
\* worker that stop() has not ended in a read (accept_loop, worker_loop).
ConnectionServed ==
  \A s \in Socket :
    Queued(s) ~> (~Queued(s) \/ \A w \in Worker : Reading(w) \/ worker[w] = "exited")

\* The ways stop() may stay in a join for ever: an accept that closing the
\* listener does not end, a worker that blocked after the last notification,
\* a worker that waits for the hello of a connection registered too late.
AcceptStuck == stopper = "join_acceptor" /\ held
LostWakeup == stopper = "join_workers" /\ \E w \in Worker : worker[w] = "asleep"
LateHello ==
  stopper = "join_workers" /\ \E w \in Worker : worker[w] = "hello" /\ socket[w] \notin shut

\* These three are the only ones: otherwise stop() returns, with no help from
\* the clients, every worker blocked in a read released by shutdown_both()
\* (docs/architecture.md and docs/concurrency.md name no exception).
StopReturnsOrIsStuck ==
  stopping ~> (stopper = "stopped" \/ AcceptStuck \/ LostWakeup \/ LateHello)
==============================================================================
