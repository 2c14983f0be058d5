--------------------------- MODULE ServerPoolProofs ---------------------------
(***************************************************************************)
(* Proofs about ServerPool, for every number of workers, connections and   *)
(* every bound: where connections are while the accept thread, the workers *)
(* and stop() pass them on, and what is left when stop() has returned.     *)
(***************************************************************************)
EXTENDS ServerPool, FiniteSetTheorems, TLAPS

\* Where a worker holds a connection, and where stop() has joined the acceptor.
Serving == {"popped", "hello", "check", "read", "leave"}
Late == {"notify", "collect", "shut", "notify_again", "join_workers", "stopped"}

\* TypeOK without and with what it says of the flags.
DataOK ==
  /\ stopper \in {"created", "running", "close", "join_acceptor", "notify", "collect", "shut",
                  "notify_again", "join_workers", "stopped"}
  /\ acceptor \in {"off", "top", "accept", "push", "notify", "exited"}
  /\ accepted \in Socket \cup {None} /\ failures \in 0..MaxFailures + 1
  /\ queue \in Seq(Socket) /\ Len(queue) <= MaxPending
  /\ queue_owner \in Worker \cup {None}
  /\ worker \in [Worker -> {"off", "loop", "drowsy", "asleep", "popped", "hello", "check",
                            "read", "leave", "exited"}]
  /\ socket \in [Worker -> Socket \cup {None}]
  /\ backlog \subseteq Socket /\ active \subseteq Socket /\ doomed \subseteq Socket
  /\ shut \subseteq Socket /\ open \subseteq Socket /\ gone \subseteq Socket
  /\ inbox \in [Socket -> Message \cup {None}]

\* The flags, and the accept that the closing of the listener waits for.
FlagsOK ==
  /\ stopping \in BOOLEAN /\ listening \in BOOLEAN /\ journal_open \in BOOLEAN
  /\ held \in BOOLEAN /\ (held => acceptor = "accept" /\ ~listening)

\* How the threads' positions are related: to what they hold, to the failures
\* counted, and to the position of stop().
ThreadInv ==
  /\ accepted # None <=> acceptor = "push"
  /\ \A w \in Worker : socket[w] # None <=> worker[w] \in Serving
  /\ failures <= MaxFailures \/ acceptor = "exited"
  /\ stopper = "created" => acceptor = "off" /\ \A w \in Worker : worker[w] = "off"
  /\ stopper \in Late => acceptor = "exited"
  /\ doomed # {} => stopper = "shut"
  /\ ~journal_open => stopper = "stopped"
  /\ stopper = "stopped" => queue = <<>> /\ \A w \in Worker : worker[w] = "exited"

\* No connection is with two threads, or in the queue twice, or both.
Apart ==
  /\ \A i \in 1..Len(queue) : queue[i] # accepted
  /\ \A i, j \in 1..Len(queue) : queue[i] = queue[j] => i = j
  /\ \A w \in Worker : socket[w] # None => socket[w] # accepted
  /\ \A w \in Worker, i \in 1..Len(queue) : socket[w] # queue[i]
  /\ \A v, w \in Worker : socket[v] = socket[w] /\ socket[v] # None => v = w

\* Whoever may still close the handle of s has it.
Handle(s) ==
  \/ s = accepted
  \/ \E i \in 1..Len(queue) : queue[i] = s
  \/ \E w \in Worker : socket[w] = s
  \/ s \in doomed

\* Where connections are: apart, open exactly while somebody has them, registered while served.
PlaceInv ==
  /\ Apart
  /\ \A s \in Socket : s \in open <=> Handle(s)
  /\ backlog \cap open = {}
  /\ \A i \in 1..Len(queue) : queue[i] \notin doomed
  /\ RegistryIsLive

\* The inductive invariant.
PoolInv == DataOK /\ FlagsOK /\ ThreadInv /\ PlaceInv

-----------------------------------------------------------------------------
\* The invariant holds before start().
LEMMA InitHasPoolInv == Init => PoolInv
<1>. SUFFICES ASSUME Init PROVE PoolInv
  OBVIOUS
<1>1. DataOK
  BY PoolAssumption DEF Init, DataOK
<1>f. FlagsOK
  BY Zenon DEF Init, FlagsOK
<1>2. ThreadInv
  BY PoolAssumption DEF Init, ThreadInv, Serving, Late
<1>3. PlaceInv
  BY PoolAssumption DEF Init, PlaceInv, Apart, Handle, RegistryIsLive
<1>. QED BY <1>f, <1>1, <1>2, <1>3 DEF PoolInv

\* Waking workers changes only workers that sleep, which hold no connection.
LEMMA WakeKeeps ==
  ASSUME DataOK, ThreadInv, NEW W \in SUBSET Worker, W \subseteq Asleep, Wake(W)
  PROVE  /\ worker' \in [Worker -> {"off", "loop", "drowsy", "asleep", "popped", "hello", "check",
                            "read", "leave", "exited"}]
         /\ \A w \in Worker : worker'[w] \in Serving <=> worker[w] \in Serving
         /\ \A w \in Worker : worker[w] = "exited" => worker'[w] = "exited"
  BY DEF DataOK, Asleep, Wake, Serving

\* What clients do keeps the invariant.
LEMMA ClientKeeps ==
  ASSUME PoolInv, NEW s \in Socket,
         Connect(s) \/ Disconnect(s) \/ (\E m \in Message : Send(s, m))
  PROVE  PoolInv'
<1>. USE DEF serverVars, acceptVars, poolVars, socketVars
<1>. PoolInv /\ DataOK /\ FlagsOK /\ ThreadInv /\ PlaceInv
  BY DEF PoolInv
<1>1. DataOK'
  BY DEF DataOK, Connect, Disconnect, Send
<1>f. FlagsOK'
  <2>1. UNCHANGED <<stopping, listening, journal_open, held, acceptor>>
    BY DEF Connect, Disconnect, Send
  <2>. QED BY <2>1, Zenon DEF FlagsOK
<1>2. ThreadInv'
  BY DEF ThreadInv, Connect, Disconnect, Send
<1>3. PlaceInv'
  BY DEF PlaceInv, Apart, Handle, RegistryIsLive, Connect, Disconnect, Send, Fresh
<1>. QED BY <1>f, <1>1, <1>2, <1>3 DEF PoolInv

\* accept() handing over a connection keeps the invariant.
LEMMA AcceptKeeps ==
  ASSUME PoolInv, NEW s \in Socket, Accept(s)
  PROVE  PoolInv'
<1>. USE DEF serverVars, poolVars, clientVars
<1>. PoolInv /\ DataOK /\ FlagsOK /\ ThreadInv /\ PlaceInv
  BY DEF PoolInv
<1>0. s \notin open /\ s # None /\ accepted = None
  BY PoolAssumption DEF PlaceInv, Accept, ThreadInv
<1>1. DataOK'
  BY PoolAssumption DEF DataOK, Accept
<1>f. FlagsOK'
  BY PoolAssumption, Zenon DEF FlagsOK, Accept
<1>2. ThreadInv'
  BY <1>0, PoolAssumption DEF DataOK, ThreadInv, Accept, Late
<1>3. Apart'
  BY <1>0 DEF PlaceInv, Apart, Handle, Accept, DataOK
<1>4. \A t \in Socket : t \in open' <=> Handle(t)'
  BY <1>0, PoolAssumption DEF PlaceInv, Handle, Accept
<1>5. /\ backlog' \cap open' = {} /\ RegistryIsLive'
      /\ \A i \in 1..Len(queue') : queue'[i] \notin doomed'
  BY DEF PlaceInv, Accept, RegistryIsLive
<1>. QED BY <1>f, <1>1, <1>2, <1>3, <1>4, <1>5 DEF PoolInv, PlaceInv

\* The accept loop's checks and its failed accepts keep the invariant.
LEMMA AcceptLoopKeeps ==
  ASSUME PoolInv, AcceptorChecks \/ AcceptError
  PROVE  PoolInv'
<1>. USE DEF serverVars, poolVars, socketVars, clientVars
<1>. PoolInv /\ DataOK /\ FlagsOK /\ ThreadInv /\ PlaceInv
  BY DEF PoolInv
<1>1. DataOK'
  BY PoolAssumption DEF DataOK, ThreadInv, AcceptorChecks, AcceptError
<1>f. FlagsOK'
  <2>1. UNCHANGED <<stopping, listening, journal_open>>
    BY DEF AcceptorChecks, AcceptError
  <2>2. held' = FALSE
    BY DEF AcceptorChecks, AcceptError, FlagsOK
  <2>. QED BY <2>1, <2>2, Zenon DEF FlagsOK
<1>2. ThreadInv'
  BY PoolAssumption DEF DataOK, ThreadInv, AcceptorChecks, AcceptError, Late
<1>3. PlaceInv'
  BY DEF PlaceInv, Apart, Handle, RegistryIsLive, AcceptorChecks, AcceptError
<1>. QED BY <1>f, <1>1, <1>2, <1>3 DEF PoolInv

\* Queueing, or refusing, an accepted connection keeps the invariant.
LEMMA PushKeeps ==
  ASSUME PoolInv, AcceptorPushes
  PROVE  PoolInv'
<1>. USE DEF serverVars, clientVars
<1>. PoolInv /\ DataOK /\ FlagsOK /\ ThreadInv /\ PlaceInv
  BY DEF PoolInv
<1>0. accepted \in Socket /\ accepted # None /\ doomed = {} /\ stopper \notin Late
  BY DEF DataOK, ThreadInv, AcceptorPushes, Late
<1>a. CASE Len(queue) >= MaxPending
  <2>1. /\ open' = open \ {accepted} /\ acceptor' = "top" /\ queue' = queue /\ accepted' = None
        /\ UNCHANGED <<serverVars, backlog, failures, held, queue_owner, worker, socket, active, doomed,
                 shut, clientVars>> /\ acceptor = "push"
    BY <1>a DEF AcceptorPushes
  <2>2. DataOK'
    BY <2>1 DEF DataOK
  <2>f. FlagsOK'
    BY <2>1, Zenon DEF FlagsOK
  <2>3. ThreadInv'
    BY <2>1, <1>0 DEF ThreadInv, Late
  <2>4. Apart'
    BY <2>1, PoolAssumption DEF PlaceInv, Apart, DataOK
  <2>5. \A t \in Socket : t \in open' <=> Handle(t)'
    BY <2>1, <1>0, PoolAssumption DEF PlaceInv, Apart, Handle
  <2>6. /\ backlog' \cap open' = {} /\ RegistryIsLive'
        /\ \A i \in 1..Len(queue') : queue'[i] \notin doomed'
    BY <2>1 DEF PlaceInv, RegistryIsLive
  <2>. QED BY <2>f, <2>2, <2>3, <2>4, <2>5, <2>6 DEF PoolInv, PlaceInv
<1>b. CASE ~(Len(queue) >= MaxPending)
  <2>1. /\ queue' = Append(queue, accepted) /\ acceptor' = "notify" /\ open' = open /\ accepted' = None
        /\ UNCHANGED <<serverVars, backlog, failures, held, queue_owner, worker, socket, active, doomed,
                 shut, clientVars>> /\ acceptor = "push"
    BY <1>b DEF AcceptorPushes
  <2>a. /\ queue' \in Seq(Socket) /\ Len(queue') = Len(queue) + 1 /\ Len(queue) \in Nat
        /\ \A i \in 1..Len(queue) : queue'[i] = queue[i]
        /\ queue'[Len(queue) + 1] = accepted
    BY <2>1, <1>0 DEF DataOK
  <2>2. DataOK'
    BY <2>1, <2>a, <1>b, PoolAssumption DEF DataOK
  <2>f. FlagsOK'
    BY <2>1, <2>a, <1>b, PoolAssumption, Zenon DEF FlagsOK
  <2>3. ThreadInv'
    BY <2>1, <1>0 DEF ThreadInv, Late
  <2>4. Apart'
    <3>1. \A i \in 1..Len(queue') : queue'[i] # None
      BY <2>a, PoolAssumption
    <3>2. \A i, j \in 1..Len(queue') : queue'[i] = queue'[j] => i = j
      BY <2>a DEF PlaceInv, Apart
    <3>3. \A w \in Worker, i \in 1..Len(queue') : socket[w] # queue'[i]
      BY <2>a, <1>0 DEF PlaceInv, Apart
    <3>. QED BY <2>1, <3>1, <3>2, <3>3 DEF PlaceInv, Apart
  <2>5. \A t \in Socket : t \in open' <=> Handle(t)'
    <3>. SUFFICES ASSUME NEW t \in Socket PROVE Handle(t) <=> Handle(t)'
      BY <2>1 DEF PlaceInv
    <3>1. (\E i \in 1..Len(queue') : queue'[i] = t) <=> (t = accepted \/ \E i \in 1..Len(queue) : queue[i] = t)
      BY <2>a
    <3>. QED BY <2>1, <3>1, PoolAssumption DEF Handle
  <2>6. /\ backlog' \cap open' = {} /\ RegistryIsLive'
        /\ \A i \in 1..Len(queue') : queue'[i] \notin doomed'
    BY <2>1, <1>0 DEF PlaceInv, RegistryIsLive
  <2>. QED BY <2>f, <2>2, <2>3, <2>4, <2>5, <2>6 DEF PoolInv, PlaceInv
<1>. QED BY <1>a, <1>b

\* Waking workers, for one connection or for the stop, keeps the invariant.
LEMMA NotifyKeeps ==
  ASSUME PoolInv, AcceptorNotifies \/ NotifyAll
  PROVE  PoolInv'
<1>. USE DEF serverVars, acceptVars, socketVars, clientVars
<1>. PoolInv /\ DataOK /\ FlagsOK /\ ThreadInv /\ PlaceInv
  BY DEF PoolInv
<1>0. /\ worker' \in [Worker -> {"off", "loop", "drowsy", "asleep", "popped", "hello", "check",
                            "read", "leave", "exited"}]
      /\ \A w \in Worker : worker'[w] \in Serving <=> worker[w] \in Serving
      /\ \A w \in Worker : worker[w] = "exited" => worker'[w] = "exited"
  <2>1. worker' = worker \/ \E W \in SUBSET Asleep : Wake(W)
    BY Zenon DEF AcceptorNotifies, NotifyAll
  <2>2. CASE worker' = worker
    BY <2>2 DEF DataOK
  <2>3. CASE \E W \in SUBSET Asleep : Wake(W)
    <3>1. PICK W \in SUBSET Asleep : Wake(W)
      BY <2>3
    <3>2. W \in SUBSET Worker /\ W \subseteq Asleep
      BY DEF Asleep
    <3>. QED BY <3>1, <3>2, WakeKeeps
  <2>. QED BY <2>1, <2>2, <2>3
<1>1. DataOK'
  BY <1>0 DEF DataOK, AcceptorNotifies, NotifyAll
<1>f. FlagsOK'
  <2>1. UNCHANGED <<stopping, listening, journal_open, held>>
    BY DEF AcceptorNotifies, NotifyAll
  <2>2. acceptor = "accept" => acceptor' = acceptor
    BY DEF AcceptorNotifies, NotifyAll
  <2>. QED BY <2>1, <2>2, Zenon DEF FlagsOK
<1>2. ThreadInv'
  BY <1>0 DEF ThreadInv, AcceptorNotifies, NotifyAll, Late
<1>3. PlaceInv'
  BY DEF PlaceInv, Apart, Handle, RegistryIsLive, AcceptorNotifies, NotifyAll
<1>. QED BY <1>f, <1>1, <1>2, <1>3 DEF PoolInv

\* A worker taking a connection, going to sleep or leaving keeps the invariant.
LEMMA TakeKeeps ==
  ASSUME PoolInv, NEW w \in Worker, WorkerTakes(w)
  PROVE  PoolInv'
<1>. USE DEF serverVars, acceptVars, socketVars, clientVars
<1>. PoolInv /\ DataOK /\ FlagsOK /\ ThreadInv /\ PlaceInv
  BY DEF PoolInv
<1>0. /\ worker[w] = "loop" /\ worker' = [worker EXCEPT ![w] = "popped"] /\ queue # <<>>
      /\ socket' = [socket EXCEPT ![w] = Head(queue)] /\ queue' = Tail(queue)
      /\ UNCHANGED <<serverVars, backlog, acceptVars, queue_owner, socketVars, clientVars>>
  BY DEF WorkerTakes, At
<1>a. /\ queue' \in Seq(Socket) /\ Len(queue) \in Nat \ {0} /\ Len(queue') = Len(queue) - 1
      /\ \A i \in 1..Len(queue') : queue'[i] = queue[i + 1] /\ i + 1 \in 1..Len(queue)
      /\ Head(queue) = queue[1] /\ Head(queue) \in Socket /\ 1 \in 1..Len(queue)
  BY <1>0 DEF DataOK
<1>b. /\ socket[w] = None /\ socket'[w] = queue[1] /\ queue[1] # None
      /\ \A v \in Worker : v # w => socket'[v] = socket[v]
  BY <1>0, <1>a, PoolAssumption DEF ThreadInv, DataOK, Serving
<1>1. DataOK'
  <2>1. Len(queue') <= MaxPending
    BY <1>a, PoolAssumption DEF DataOK
  <2>. QED BY <1>0, <1>a, <2>1 DEF DataOK
<1>f. FlagsOK'
  BY <1>0, <1>a, Zenon DEF FlagsOK
<1>2. ThreadInv'
  <2>1. \A v \in Worker : socket'[v] # None <=> worker'[v] \in Serving
    BY <1>0, <1>b DEF ThreadInv, DataOK, Serving
  <2>2. stopper \notin {"stopped", "created"}
    BY <1>0 DEF ThreadInv
  <2>. QED BY <1>0, <2>1, <2>2 DEF ThreadInv
<1>3. Apart'
  <2>1. \A i \in 1..Len(queue') : queue'[i] # accepted
    BY <1>a DEF PlaceInv, Apart
  <2>2. \A i, j \in 1..Len(queue') : queue'[i] = queue'[j] => i = j
    BY <1>a DEF PlaceInv, Apart
  <2>3. \A v \in Worker : socket'[v] # None => socket'[v] # accepted
    BY <1>a, <1>b DEF PlaceInv, Apart
  <2>4. \A v \in Worker, i \in 1..Len(queue') : socket'[v] # queue'[i]
    <3>. SUFFICES ASSUME NEW v \in Worker, NEW i \in 1..Len(queue') PROVE socket'[v] # queue[i + 1]
      BY <1>a
    <3>1. CASE v = w
      BY <3>1, <1>a, <1>b DEF PlaceInv, Apart
    <3>2. CASE v # w
      BY <3>2, <1>a, <1>b DEF PlaceInv, Apart
    <3>. QED BY <3>1, <3>2
  <2>5. \A u, v \in Worker : socket'[u] = socket'[v] /\ socket'[u] # None => u = v
    BY <1>a, <1>b DEF PlaceInv, Apart
  <2>. QED BY <1>0, <2>1, <2>2, <2>3, <2>4, <2>5 DEF Apart
<1>4. \A t \in Socket : t \in open' <=> Handle(t)'
  <2>. SUFFICES ASSUME NEW t \in Socket PROVE Handle(t) <=> Handle(t)'
    BY <1>0 DEF PlaceInv
  <2>1. (\E i \in 1..Len(queue) : queue[i] = t) <=> (t = queue[1] \/ \E i \in 1..Len(queue') : queue'[i] = t)
    <3>1. ASSUME NEW i \in 1..Len(queue), i # 1 PROVE i - 1 \in 1..Len(queue') /\ queue'[i - 1] = queue[i]
      BY <3>1, <1>a
    <3>. QED BY <3>1, <1>a
  <2>2. (\E v \in Worker : socket'[v] = t) <=> (t = queue[1] \/ \E v \in Worker : socket[v] = t)
    BY <1>b, PoolAssumption
  <2>. QED BY <1>0, <2>1, <2>2 DEF Handle
<1>5. backlog' \cap open' = {}
  BY <1>0 DEF PlaceInv
<1>6. \A i \in 1..Len(queue') : queue'[i] \notin doomed'
  BY <1>0, <1>a DEF PlaceInv
<1>7. RegistryIsLive'
  BY <1>0, <1>b, PoolAssumption DEF PlaceInv, RegistryIsLive, DataOK
<1>. QED BY <1>f, <1>1, <1>2, <1>3, <1>4, <1>5, <1>6, <1>7 DEF PoolInv, PlaceInv

\* The steps of a worker that pass no connection on.
Walks(w) ==
  \/ WorkerExits(w) \/ WorkerDecidesToWait(w) \/ WorkerBlocks(w) \/ SpuriousWakeup(w)
  \/ ReadHello(w) \/ CheckStopping(w) \/ ReadRequest(w)

\* What a worker does on its own connection keeps the invariant.
LEMMA WalkKeeps ==
  ASSUME PoolInv, NEW w \in Worker, Walks(w)
  PROVE  PoolInv'
<1>. USE DEF serverVars, acceptVars, socketVars, clientVars
<1>. PoolInv /\ DataOK /\ FlagsOK /\ ThreadInv /\ PlaceInv
  BY DEF PoolInv
<1>0. /\ \E to \in {"loop", "drowsy", "asleep", "check", "read", "leave", "exited"} :
           /\ worker' = [worker EXCEPT ![w] = to]
           /\ worker[w] \in Serving <=> to \in Serving
      /\ worker[w] \notin {"exited", "off"}
  BY DEF Walks, WorkerExits, WorkerDecidesToWait, WorkerBlocks, SpuriousWakeup, ReadHello,
         CheckStopping, ReadRequest, At, Serving
<1>a. /\ UNCHANGED <<serverVars, backlog, acceptVars, queue, socket, socketVars, gone>>
      /\ queue_owner' \in {queue_owner, w, None}
  BY DEF Walks, WorkerExits, WorkerDecidesToWait, WorkerBlocks, SpuriousWakeup, ReadHello,
         CheckStopping, ReadRequest
<1>b. inbox' \in [Socket -> Message \cup {None}]
  <2>1. CASE inbox' = inbox
    BY <2>1 DEF DataOK
  <2>2. ASSUME NEW m \in Message, Reads(w, m) PROVE <1>b
    BY <2>2 DEF DataOK, Reads
  <2>. QED BY <2>1, <2>2 DEF Walks, WorkerExits, WorkerDecidesToWait, WorkerBlocks, SpuriousWakeup,
         ReadHello, CheckStopping, ReadRequest, Message
<1>1. DataOK'
  BY <1>0, <1>a, <1>b DEF DataOK
<1>f. FlagsOK'
  BY <1>0, <1>a, <1>b, Zenon DEF FlagsOK
<1>2. ThreadInv'
  <2>1. \A v \in Worker : worker'[v] \in Serving <=> worker[v] \in Serving
    BY <1>0 DEF DataOK
  <2>. QED BY <1>0, <1>a, <2>1 DEF ThreadInv
<1>3. PlaceInv'
  BY <1>a DEF PlaceInv, Apart, Handle, RegistryIsLive
<1>. QED BY <1>f, <1>1, <1>2, <1>3 DEF PoolInv

\* Registering a connection among the active ones keeps the invariant.
LEMMA RegisterKeeps ==
  ASSUME PoolInv, NEW w \in Worker, Register(w)
  PROVE  PoolInv'
<1>. USE DEF serverVars, acceptVars, clientVars
<1>. PoolInv /\ DataOK /\ FlagsOK /\ ThreadInv /\ PlaceInv
  BY DEF PoolInv
<1>0. /\ worker[w] = "popped" /\ worker' = [worker EXCEPT ![w] = "hello"]
      /\ active' = active \cup {socket[w]}
      /\ UNCHANGED <<serverVars, backlog, acceptVars, queue, queue_owner, socket, doomed, shut,
                     open, clientVars>>
  BY DEF Register, At
<1>a. socket[w] \in Socket
  BY <1>0 DEF DataOK, ThreadInv, Serving
<1>1. DataOK'
  BY <1>0, <1>a DEF DataOK
<1>f. FlagsOK'
  BY <1>0, <1>a, Zenon DEF FlagsOK
<1>2. ThreadInv'
  BY <1>0 DEF ThreadInv, DataOK, Serving
<1>3. PlaceInv'
  BY <1>0, <1>a DEF PlaceInv, Apart, Handle, RegistryIsLive
<1>. QED BY <1>f, <1>1, <1>2, <1>3 DEF PoolInv

\* Unregistering a connection and closing it keeps the invariant.
LEMMA LeaveKeeps ==
  ASSUME PoolInv, NEW w \in Worker, Leave(w)
  PROVE  PoolInv'
<1>. USE DEF serverVars, acceptVars, clientVars
<1>. PoolInv /\ DataOK /\ FlagsOK /\ ThreadInv /\ PlaceInv
  BY DEF PoolInv
<1>0. /\ worker[w] = "leave" /\ worker' = [worker EXCEPT ![w] = "loop"]
      /\ active' = active \ {socket[w]} /\ open' = open \ ({socket[w]} \ doomed)
      /\ socket' = [socket EXCEPT ![w] = None]
      /\ UNCHANGED <<serverVars, backlog, acceptVars, queue, queue_owner, doomed, shut, clientVars>>
  BY DEF Leave, At
<1>a. socket[w] \in Socket /\ socket[w] # None
  BY <1>0 DEF DataOK, ThreadInv, Serving
<1>b. /\ socket'[w] = None
      /\ \A v \in Worker : v # w => socket'[v] = socket[v] /\ socket[v] # socket[w]
  BY <1>0, <1>a DEF DataOK, PlaceInv, Apart
<1>1. DataOK'
  BY <1>0, <1>a DEF DataOK
<1>f. FlagsOK'
  BY <1>0, <1>a, Zenon DEF FlagsOK
<1>2. ThreadInv'
  <2>1. \A v \in Worker : socket'[v] # None <=> worker'[v] \in Serving
    BY <1>0, <1>b DEF ThreadInv, DataOK, Serving
  <2>2. stopper \notin {"stopped", "created"}
    BY <1>0 DEF ThreadInv
  <2>. QED BY <1>0, <2>1, <2>2 DEF ThreadInv
<1>3. Apart'
  <2>1. \A v \in Worker, i \in 1..Len(queue) : socket'[v] # queue[i]
    <3>1. \A i \in 1..Len(queue) : queue[i] \in Socket
      BY DEF DataOK
    <3>. QED BY <1>b, <3>1, PoolAssumption DEF PlaceInv, Apart
  <2>. QED BY <1>0, <1>b, <2>1 DEF PlaceInv, Apart
<1>4. \A t \in Socket : t \in open' <=> Handle(t)'
  <2>. SUFFICES ASSUME NEW t \in Socket PROVE t \in open' <=> Handle(t)'
    OBVIOUS
  <2>1. (\E v \in Worker : socket'[v] = t) <=> (t # socket[w] /\ \E v \in Worker : socket[v] = t)
    BY <1>b, PoolAssumption
  <2>2. CASE t = socket[w]
    BY <2>1, <2>2, <1>0, <1>a DEF PlaceInv, Apart, Handle
  <2>3. CASE t # socket[w]
    BY <2>1, <2>3, <1>0 DEF PlaceInv, Handle
  <2>. QED BY <2>2, <2>3
<1>5. backlog' \cap open' = {}
  BY <1>0 DEF PlaceInv
<1>6. \A i \in 1..Len(queue') : queue'[i] \notin doomed'
  BY <1>0 DEF PlaceInv
<1>7. RegistryIsLive'
  BY <1>0, <1>b DEF PlaceInv, RegistryIsLive
<1>. QED BY <1>f, <1>1, <1>2, <1>3, <1>4, <1>5, <1>6, <1>7 DEF PoolInv, PlaceInv

\* start() keeps the invariant.
LEMMA StartKeeps ==
  ASSUME PoolInv, Start
  PROVE  PoolInv'
<1>. USE DEF serverVars, acceptVars, socketVars, clientVars
<1>. PoolInv /\ DataOK /\ FlagsOK /\ ThreadInv /\ PlaceInv
  BY DEF PoolInv
<1>0. /\ stopper = "created" /\ acceptor = "off" /\ accepted = None /\ journal_open /\ doomed = {}
      /\ failures <= MaxFailures /\ \A w \in Worker : socket[w] = None
  BY DEF Start, ThreadInv, FlagsOK, Serving
<1>1. DataOK'
  BY DEF Start, DataOK
<1>f. FlagsOK'
  BY <1>0, Zenon DEF Start, FlagsOK
<1>2. ThreadInv'
  BY <1>0 DEF Start, ThreadInv, Serving, Late
<1>3. PlaceInv'
  BY DEF Start, PlaceInv, Apart, Handle, RegistryIsLive
<1>. QED BY <1>f, <1>1, <1>2, <1>3 DEF PoolInv

\* Raising the flag, and joining the accept thread, keeps the invariant.
LEMMA StopBeginsKeeps ==
  ASSUME PoolInv, StopBegins \/ JoinAcceptor
  PROVE  PoolInv'
<1>. USE DEF acceptVars, poolVars, socketVars, clientVars
<1>. PoolInv /\ DataOK /\ FlagsOK /\ ThreadInv /\ PlaceInv
  BY DEF PoolInv
<1>1. DataOK'
  BY DEF DataOK, StopBegins, JoinAcceptor
<1>f. FlagsOK'
  <2>1. UNCHANGED <<listening, journal_open, held, acceptor>> /\ stopping' \in BOOLEAN
    BY DEF StopBegins, JoinAcceptor, FlagsOK
  <2>. QED BY <2>1, Zenon DEF FlagsOK
<1>2. ThreadInv'
  BY DEF ThreadInv, StopBegins, JoinAcceptor, Late
<1>3. PlaceInv'
  BY DEF PlaceInv, Apart, Handle, RegistryIsLive, StopBegins, JoinAcceptor
<1>. QED BY <1>f, <1>1, <1>2, <1>3 DEF PoolInv

\* Closing the listener keeps the invariant.
LEMMA CloseKeeps ==
  ASSUME PoolInv, CloseListener
  PROVE  PoolInv'
<1>. USE DEF poolVars, socketVars
<1>. PoolInv /\ DataOK /\ FlagsOK /\ ThreadInv /\ PlaceInv
  BY DEF PoolInv
<1>0. /\ stopper = "close" /\ stopper' = "join_acceptor" /\ backlog' \subseteq backlog
      /\ UNCHANGED <<stopping, journal_open, acceptor, accepted, failures, poolVars, socketVars, inbox>>
  BY DEF CloseListener
<1>a. gone' \subseteq Socket
  BY DEF CloseListener, DataOK
<1>b. held' \in {FALSE, acceptor = "accept"} /\ listening' = FALSE
  BY Zenon DEF CloseListener
<1>1. DataOK'
  BY <1>0, <1>a DEF DataOK
<1>f. FlagsOK'
  BY <1>0, <1>b, Zenon DEF FlagsOK
<1>2. ThreadInv'
  BY <1>0 DEF ThreadInv, Late
<1>3. PlaceInv'
  BY <1>0 DEF PlaceInv, Apart, Handle, RegistryIsLive
<1>. QED BY <1>f, <1>1, <1>2, <1>3 DEF PoolInv

\* Collecting the connections to shut down keeps the invariant.
LEMMA CollectKeeps ==
  ASSUME PoolInv, CollectConnections
  PROVE  PoolInv'
<1>. USE DEF acceptVars, poolVars, clientVars
<1>. PoolInv /\ DataOK /\ FlagsOK /\ ThreadInv /\ PlaceInv
  BY DEF PoolInv
<1>0. doomed = {}
  BY DEF CollectConnections, ThreadInv
<1>1. DataOK'
  BY DEF DataOK, CollectConnections
<1>f. FlagsOK'
  BY Zenon DEF FlagsOK, CollectConnections
<1>2. ThreadInv'
  BY DEF ThreadInv, CollectConnections, Late
<1>3. Apart' /\ backlog' \cap open' = {} /\ RegistryIsLive'
  BY DEF PlaceInv, Apart, RegistryIsLive, CollectConnections
<1>4. \A s \in doomed' : \E w \in Worker : socket[w] = s
  BY DEF CollectConnections, PlaceInv, RegistryIsLive
<1>5. \A i \in 1..Len(queue') : queue'[i] \notin doomed'
  BY <1>4 DEF CollectConnections, PlaceInv, Apart
<1>6. \A s \in Socket : s \in open' <=> Handle(s)'
  BY <1>0, <1>4 DEF CollectConnections, PlaceInv, Handle
<1>. QED BY <1>f, <1>1, <1>2, <1>3, <1>5, <1>6 DEF PoolInv, PlaceInv

\* Shutting the collected connections down keeps the invariant.
LEMMA ShutKeeps ==
  ASSUME PoolInv, ShutConnections
  PROVE  PoolInv'
<1>. USE DEF acceptVars, poolVars, clientVars
<1>. PoolInv /\ DataOK /\ FlagsOK /\ ThreadInv /\ PlaceInv
  BY DEF PoolInv
<1>0. accepted = None
  BY DEF ShutConnections, ThreadInv, Late
<1>1. DataOK'
  BY DEF DataOK, ShutConnections
<1>f. FlagsOK'
  BY Zenon DEF FlagsOK, ShutConnections
<1>2. ThreadInv'
  BY DEF ThreadInv, ShutConnections, Late
<1>3. Apart' /\ backlog' \cap open' = {} /\ RegistryIsLive'
  BY DEF PlaceInv, Apart, RegistryIsLive, ShutConnections
<1>4. \A i \in 1..Len(queue') : queue'[i] \notin doomed'
  BY DEF ShutConnections
<1>5. \A s \in Socket : s \in open' <=> Handle(s)'
  BY <1>0, PoolAssumption DEF ShutConnections, PlaceInv, Handle, Served
<1>. QED BY <1>f, <1>1, <1>2, <1>3, <1>4, <1>5 DEF PoolInv, PlaceInv

\* Joining the workers, and closing what is left, keeps the invariant.
LEMMA JoinWorkersKeeps ==
  ASSUME PoolInv, JoinWorkers
  PROVE  PoolInv'
<1>. USE DEF acceptVars, clientVars
<1>. PoolInv /\ DataOK /\ FlagsOK /\ ThreadInv /\ PlaceInv
  BY DEF PoolInv
<1>0. /\ stopper = "join_workers" /\ \A w \in Worker : worker[w] = "exited"
      /\ stopper' = "stopped" /\ queue' = <<>> /\ journal_open' = FALSE
      /\ open' = open \ {queue[i] : i \in DOMAIN queue}
      /\ UNCHANGED <<stopping, listening, backlog, acceptVars, queue_owner, worker, socket, active,
                     doomed, shut, clientVars>>
  BY DEF JoinWorkers
<1>a. /\ accepted = None /\ doomed = {} /\ DOMAIN queue = 1..Len(queue)
      /\ \A w \in Worker : socket[w] = None
  <2>1. accepted = None /\ doomed = {}
    BY <1>0 DEF ThreadInv, Late
  <2>2. DOMAIN queue = 1..Len(queue)
    BY DEF DataOK
  <2>3. \A w \in Worker : socket[w] = None
    BY <1>0 DEF ThreadInv, Serving
  <2>. QED BY <2>1, <2>2, <2>3
<1>1. DataOK'
  BY <1>0, PoolAssumption DEF DataOK
<1>f. FlagsOK'
  BY <1>0, Zenon DEF FlagsOK
<1>2. ThreadInv'
  BY <1>0 DEF ThreadInv, Late
<1>3. Apart' /\ backlog' \cap open' = {} /\ RegistryIsLive'
  BY <1>0 DEF PlaceInv, Apart, RegistryIsLive
<1>4. \A i \in 1..Len(queue') : queue'[i] \notin doomed'
  BY <1>0
<1>5. \A s \in Socket : s \in open' <=> Handle(s)'
  BY <1>0, <1>a, PoolAssumption DEF PlaceInv, Handle
<1>. QED BY <1>f, <1>1, <1>2, <1>3, <1>4, <1>5 DEF PoolInv, PlaceInv

\* Every step keeps the invariant.
LEMMA NextKeepsPoolInv == PoolInv /\ [Next]_vars => PoolInv'
<1>. SUFFICES ASSUME PoolInv, [Next]_vars PROVE PoolInv'
  OBVIOUS
<1>1. CASE UNCHANGED vars
  <2>. USE <1>1 DEF vars, serverVars, acceptVars, poolVars, socketVars, clientVars
  <2>1. DataOK'
    BY DEF PoolInv, DataOK
  <2>2. FlagsOK'
    BY Zenon DEF PoolInv, FlagsOK
  <2>3. ThreadInv' /\ PlaceInv'
    BY DEF PoolInv, ThreadInv, PlaceInv, Apart, Handle, RegistryIsLive
  <2>. QED BY <2>1, <2>2, <2>3 DEF PoolInv
<1>2. CASE \E s \in Socket : Connect(s) \/ Disconnect(s) \/ (\E m \in Message : Send(s, m))
  BY <1>2, ClientKeeps
<1>3. CASE AcceptorStep
  BY <1>3, AcceptLoopKeeps, PushKeeps, NotifyKeeps, AcceptKeeps DEF AcceptorStep, AcceptEnds
<1>4. CASE AcceptRefused
  BY <1>4, AcceptLoopKeeps DEF AcceptRefused
<1>5. ASSUME NEW w \in Worker, WorkerStep(w) \/ SpuriousWakeup(w) PROVE PoolInv'
  BY <1>5, TakeKeeps, WalkKeeps, RegisterKeeps, LeaveKeeps DEF WorkerStep, Walks
<1>6. CASE Start
  BY <1>6, StartKeeps
<1>7. CASE StopBegins
  BY <1>7, StopBeginsKeeps
<1>8. CASE StopStep
  BY <1>8, CloseKeeps, StopBeginsKeeps, NotifyKeeps, CollectKeeps, ShutKeeps, JoinWorkersKeeps
     DEF StopStep
<1>. QED BY <1>1, <1>2, <1>3, <1>4, <1>5, <1>6, <1>7, <1>8 DEF Next

\* PoolInv is an invariant of the server, for every number of workers and connections.
THEOREM PoolInvariance == Spec => []PoolInv
<1>1. Init => PoolInv
  BY InitHasPoolInv
<1>2. PoolInv /\ [Next]_vars => PoolInv'
  BY NextKeepsPoolInv
<1>. QED BY <1>1, <1>2, PTL DEF Spec

\* TypeOK is an invariant: in particular accept_loop never queues more than MaxPending
\* connections, and its failure count stays within its bound.
THEOREM PoolTypes == Spec => []TypeOK
<1>1. PoolInv => TypeOK
  BY Zenon DEF PoolInv, DataOK, FlagsOK, TypeOK
<1>. QED BY <1>1, PoolInvariance, PTL

\* accept_loop, worker_loop and stop(): a connection is with one thread or at one place of
\* the queue, and its handle is open exactly while it is somewhere: none is leaked, closed
\* under its worker or served twice.
THEOREM OneHolderHolds == Spec => []OneHolder
<1>1. PoolInv => OneHolder
  <2>. SUFFICES ASSUME PoolInv, NEW s \in Socket
                PROVE  /\ Cardinality(Holders(s)) <= 1
                       /\ s \in open <=> (Holders(s) # {} \/ s \in doomed)
    BY DEF OneHolder
  <2>0. DataOK /\ PlaceInv /\ Apart /\ s # None /\ DOMAIN queue = 1..Len(queue)
    BY PoolAssumption DEF PoolInv, PlaceInv, DataOK
  <2>1. \A g, h \in Holders(s) : g = h
    <3>. SUFFICES ASSUME NEW g \in Holders(s), NEW h \in Holders(s) PROVE g = h
      OBVIOUS
    <3>0. g[2] = s /\ h[2] = s
      BY DEF Holders
    <3>1. \A k \in Holders(s) : 
             \/ k = <<0, accepted>> 
             \/ \E i \in DOMAIN queue : k = <<i, queue[i]>>
             \/ \E w \in Worker : k = <<w, socket[w]>>
      BY Zenon DEF Holders
    <3>2. CASE accepted = s
      <4>1. ASSUME NEW k \in Holders(s) PROVE k = <<0, accepted>>
        <5>1. k[2] = s
          BY DEF Holders
        <5>. QED BY <5>1, <3>1, <3>2, <2>0 DEF Apart
      <4>. QED BY <4>1
    <3>3. CASE \E i \in DOMAIN queue : queue[i] = s
      <4>0. PICK i \in DOMAIN queue : queue[i] = s
        BY <3>3
      <4>1. ASSUME NEW k \in Holders(s) PROVE k = <<i, queue[i]>>
        <5>1. k[2] = s
          BY DEF Holders
        <5>. QED BY <5>1, <3>1, <4>0, <2>0 DEF Apart
      <4>. QED BY <4>1
    <3>4. CASE \E w \in Worker : socket[w] = s
      <4>0. PICK w \in Worker : socket[w] = s
        BY <3>4
      <4>1. ASSUME NEW k \in Holders(s) PROVE k = <<w, socket[w]>>
        <5>1. k[2] = s
          BY DEF Holders
        <5>. QED BY <5>1, <3>1, <4>0, <2>0 DEF Apart
      <4>. QED BY <4>1
    <3>. QED BY <3>0, <3>1, <3>2, <3>3, <3>4
  <2>2. Cardinality(Holders(s)) <= 1
    <3>1. CASE Holders(s) = {}
      BY <3>1, FS_EmptySet
    <3>2. CASE Holders(s) # {}
      <4>1. PICK h : h \in Holders(s)
        BY <3>2
      <4>2. Holders(s) = {h}
        BY <4>1, <2>1
      <4>. QED BY <4>2, FS_Singleton
    <3>. QED BY <3>1, <3>2
  <2>3. Handle(s) <=> (Holders(s) # {} \/ s \in doomed)
    <3>1. ASSUME s = accepted PROVE <<0, accepted>> \in Holders(s)
      BY <3>1 DEF Holders
    <3>2. ASSUME NEW i \in DOMAIN queue, queue[i] = s PROVE <<i, queue[i]>> \in Holders(s)
      BY <3>2 DEF Holders
    <3>3. ASSUME NEW w \in Worker, socket[w] = s PROVE <<w, socket[w]>> \in Holders(s)
      BY <3>3 DEF Holders
    <3>4. ASSUME NEW h \in Holders(s) PROVE Handle(s)
      <4>1. h[2] = s
        BY DEF Holders
      <4>2. \/ h = <<0, accepted>>
            \/ \E i \in DOMAIN queue : h = <<i, queue[i]>>
            \/ \E w \in Worker : h = <<w, socket[w]>>
        BY Zenon DEF Holders
      <4>. QED BY <4>1, <4>2, <2>0 DEF Handle
    <3>. QED BY <3>1, <3>2, <3>3, <3>4, <2>0 DEF Handle
  <2>. QED BY <2>0, <2>2, <2>3 DEF PlaceInv
<1>. QED BY <1>1, PoolInvariance, PTL

\* serve and stop(): a registered connection is one that a worker holds, so stop() never shuts
\* down a connection whose handle was closed.
THEOREM RegistryIsLiveHolds == Spec => []RegistryIsLive
<1>1. PoolInv => RegistryIsLive
  BY DEF PoolInv, PlaceInv
<1>. QED BY <1>1, PoolInvariance, PTL

\* stop(): the journal is closed only when every worker has exited, and once stop() has
\* returned no connection is open or queued and the accept thread has ended.
THEOREM StoppedIsQuietHolds == Spec => []StoppedIsQuiet
<1>1. PoolInv => StoppedIsQuiet
  <2>. SUFFICES ASSUME PoolInv PROVE StoppedIsQuiet
    OBVIOUS
  <2>. DataOK /\ ThreadInv /\ PlaceInv
    BY DEF PoolInv
  <2>1. ~journal_open => \A w \in Worker : worker[w] = "exited"
    BY Zenon DEF ThreadInv
  <2>2. ASSUME stopper = "stopped" PROVE open = {} /\ queue = <<>> /\ acceptor = "exited"
    <3>1. queue = <<>> /\ acceptor = "exited" /\ accepted = None /\ doomed = {}
      BY <2>2 DEF ThreadInv, Late
    <3>2. \A w \in Worker : socket[w] = None
      BY <2>2 DEF ThreadInv, Serving
    <3>3. \A s \in Socket : ~Handle(s)
      BY <3>1, <3>2, PoolAssumption DEF Handle
    <3>. QED BY <3>1, <3>3 DEF PlaceInv, DataOK
  <2>. QED BY <2>1, <2>2 DEF StoppedIsQuiet
<1>. QED BY <1>1, PoolInvariance, PTL
================================================================================
