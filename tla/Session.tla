-------------------------------- MODULE Session --------------------------------
(********************************************************************************)
(* One connection between a CoordinatorClient shared by threads (client.cpp)    *)
(* and the worker that serves it (serve and handle_message in coordinator.cpp). *)
(*                                                                              *)
(* A frame is a record of its type, the call it belongs to and what it carries: *)
(* the logical time for a digest, the code for an answer to a command.  A       *)
(* connection delivers frames in order or breaks.  There is no timeout on       *)
(* either side (net.hpp).  Clock stands for what other connections do to the    *)
(* coordinator meanwhile.                                                       *)
(********************************************************************************)
EXTENDS Naturals, Sequences, FiniteSets

CONSTANTS
  Threads,         \* that share the client
  Requests,        \* the message types they send
  Hellos,          \* [federation, version] a client may present
  Federation,      \* the coordinator's federation
  Version,         \* kWireProtocolVersion
  MaxCalls,        \* bound on calls per thread
  MaxTick          \* bound on the coordinator's clock

VARIABLES
  pc,              \* [Threads -> where in a call]
  call,            \* [Threads -> the call in progress: type and identifier]
  result,          \* [Threads -> what the last call returned]
  calls,           \* [Threads -> calls made]
  mutex,           \* mutex_: a thread, or "free"
  client,          \* socket_ and handshake: "new", "hello", "connected", "refused", "closed"
  asked,           \* the federation the client was connected for
  welcome,         \* welcome_.logical_time
  up, down,        \* frames on the way to the worker and to the client
  broken,          \* the connection is gone
  worker,          \* "hello", "ready", "answering", "closed"
  answer,          \* the frame the worker is about to write
  done,            \* calls whose operation took effect, with how often
  tick             \* the coordinator's clock

clientVars == <<pc, call, result, calls, mutex, client, asked, welcome>>
serverVars == <<worker, answer, done, tick>>
wireVars   == <<up, down, broken>>
vars       == <<clientVars, serverVars, wireVars>>

CallId(t, n) == <<t, n>>
Ids == Threads \X (1..MaxCalls)
Frame(type, id, value) == [type |-> type, id |-> id, value |-> value]
NoCall == Frame("none", <<>>, 0)

(********************************************************************************)
(* Which answer each call expects (client) and gets (handle_message).           *)
(********************************************************************************)
ExpectedQuery ==
  [QueryDigest |-> "DigestValue", QueryState |-> "StateValue", StatsQuery |-> "StatsValue",
   AuthorityQuery |-> "AuthorityResult"]
ExpectedEvidence == [SubmitArtifact |-> "SubmitArtifactResult"]
ExpectedLease    == [IssueLease |-> "LeaseResult", RevokeLease |-> "SimpleResult"]
ExpectedReport   == [ReportObservation |-> "SimpleResult", AdvanceTime |-> "SimpleResult"]
ExpectedAction   == [FenceMember |-> "SimpleResult", AdvanceEpoch |-> "SimpleResult",
                     CompleteReconciliation |-> "SimpleResult"]
ExpectedList     == [QueryArtifacts |-> "ArtifactListValue", QueryLeases |-> "LeaseListValue",
                     Ping |-> "Pong"]

Expected(type) ==
  CASE type \in DOMAIN ExpectedQuery    -> ExpectedQuery[type]
    [] type \in DOMAIN ExpectedEvidence -> ExpectedEvidence[type]
    [] type \in DOMAIN ExpectedLease    -> ExpectedLease[type]
    [] type \in DOMAIN ExpectedReport   -> ExpectedReport[type]
    [] type \in DOMAIN ExpectedAction   -> ExpectedAction[type]
    [] type \in DOMAIN ExpectedList     -> ExpectedList[type]

\* What a caller can ask for: the operations of the client.
RequestTypes ==
  UNION {DOMAIN ExpectedQuery, DOMAIN ExpectedEvidence, DOMAIN ExpectedLease,
         DOMAIN ExpectedReport, DOMAIN ExpectedAction, DOMAIN ExpectedList}

ASSUME SessionAssumption ==
  /\ MaxCalls \in Nat /\ MaxTick \in Nat
  /\ "free" \notin Threads /\ Requests \subseteq RequestTypes

Init ==
  /\ pc = [t \in Threads |-> "idle"] /\ call = [t \in Threads |-> NoCall]
  /\ result = [t \in Threads |-> NoCall] /\ calls = [t \in Threads |-> 0]
  /\ mutex = "free" /\ client = "new" /\ asked = Federation /\ welcome = 0
  /\ up = <<>> /\ down = <<>> /\ broken = FALSE
  /\ worker = "hello" /\ answer = NoCall /\ done = [i \in Ids |-> 0] /\ tick = 0

(********************************************************************************)
(* The client.                                                                  *)
(********************************************************************************)
\* connect: the hello is sent on a fresh connection, before anybody shares the client.
SendHello(h) ==
  /\ client = "new" /\ client' = "hello"
  /\ asked' = h.federation
  /\ up' = Append(up, Frame("Hello", <<>>, h))
  /\ UNCHANGED <<pc, call, result, calls, mutex, welcome, down, broken, serverVars>>

Gone == broken \/ worker = "closed"

\* The welcome, an error, another federation, or the end of the stream.
ReadWelcome ==
  /\ client = "hello"
  /\ \/ /\ down # <<>>
        /\ down' = Tail(down)
        /\ IF Head(down).type = "Welcome" /\ Head(down).value.federation = asked
           THEN client' = "connected" /\ welcome' = Head(down).value.tick
           ELSE client' = "refused" /\ UNCHANGED welcome
     \/ /\ down = <<>> /\ Gone
        /\ client' = "refused"
        /\ UNCHANGED <<down, welcome>>
  /\ UNCHANGED <<pc, call, result, calls, mutex, asked, up, broken, serverVars>>

\* A thread calls an operation of the client, also of one that has been closed.
Call(t, type) ==
  /\ client \in {"connected", "closed"}
  /\ pc[t] = "idle" /\ calls[t] < MaxCalls
  /\ pc' = [pc EXCEPT ![t] = "lock"]
  /\ calls' = [calls EXCEPT ![t] = @ + 1]
  /\ call' = [call EXCEPT ![t] = Frame(type, CallId(t, calls[t] + 1), 0)]
  /\ UNCHANGED <<result, mutex, client, asked, welcome, wireVars, serverVars>>

\* exchange takes the mutex for the write and the read.
LockUnshared(t) ==
  /\ pc[t] = "lock" /\ pc' = [pc EXCEPT ![t] = "write"]
  /\ UNCHANGED <<call, result, calls, mutex, client, asked, welcome, wireVars, serverVars>>

Lock(t) ==
  /\ pc[t] = "lock" /\ mutex = "free"
  /\ mutex' = t
  /\ pc' = [pc EXCEPT ![t] = "write"]
  /\ UNCHANGED <<call, result, calls, client, asked, welcome, wireVars, serverVars>>

Return(t, r, next) ==
  /\ result' = [result EXCEPT ![t] = r]
  /\ pc' = [pc EXCEPT ![t] = next]
  /\ mutex' = IF mutex = t THEN "free" ELSE mutex

\* write_message, when the frame can still be sent: a closed peer may take it unread.
Write(t) ==
  /\ pc[t] = "write" /\ client = "connected" /\ ~broken
  /\ up' = IF worker = "closed" THEN up ELSE Append(up, call[t])
  /\ pc' = [pc EXCEPT ![t] = "read"]
  /\ UNCHANGED <<call, result, calls, mutex, client, asked, welcome, down, broken, serverVars>>

WriteFails(t) ==
  /\ pc[t] = "write" /\ (client = "closed" \/ Gone)
  /\ Return(t, Frame("failed", call[t].id, 0), "idle")
  /\ UNCHANGED <<call, calls, client, asked, welcome, wireVars, serverVars>>

\* read_message and decode_expected.
Accepted(t, frame) ==
  IF frame.type = "ErrorMessage" THEN Frame("refused", call[t].id, 0)
  ELSE IF frame.type # Expected(call[t].type) THEN Frame("unexpected", call[t].id, 0)
  ELSE frame

Read(t) ==
  /\ pc[t] = "read" /\ down # <<>>
  /\ down' = Tail(down)
  /\ LET r == Accepted(t, Head(down))
     IN  Return(t, r, IF r.type = "DigestValue" THEN "update" ELSE "idle")
  /\ UNCHANGED <<call, calls, client, asked, welcome, up, broken, serverVars>>

ReadFails(t) ==
  /\ pc[t] = "read" /\ down = <<>> /\ Gone
  /\ Return(t, Frame("failed", call[t].id, 0), "idle")
  /\ UNCHANGED <<call, calls, client, asked, welcome, wireVars, serverVars>>

\* query_digest takes the mutex again to remember the clock.
UpdateWelcome(t) ==
  /\ pc[t] = "update" /\ mutex = "free"
  /\ welcome' = result[t].value
  /\ pc' = [pc EXCEPT ![t] = "idle"]
  /\ UNCHANGED <<call, result, calls, mutex, client, asked, wireVars, serverVars>>

\* close: a goodbye, if it can be sent, and the socket is gone.
CloseClient ==
  /\ client = "connected" /\ mutex = "free"
  /\ client' = "closed"
  /\ up' = IF Gone THEN up ELSE Append(up, Frame("Goodbye", <<>>, 0))
  /\ UNCHANGED <<pc, call, result, calls, mutex, asked, welcome, down, broken, serverVars>>

(********************************************************************************)
(* The worker.                                                                  *)
(********************************************************************************)
Answering(frame) == worker' = "answering" /\ answer' = frame

\* fail: an error message, then the end of the connection.
FailSilently(id) ==
  /\ UNCHANGED down
  /\ answer' = NoCall
  /\ worker' = "lost"

Fail(id) ==
  /\ down' = IF broken THEN down ELSE Append(down, Frame("ErrorMessage", id, 0))
  /\ answer' = NoCall
  /\ worker' = "closed"

ServeHello ==
  /\ worker = "hello" /\ up # <<>>
  /\ up' = Tail(up)
  /\ LET m == Head(up)
     IN  IF m.type = "Hello" /\ m.value.federation = Federation /\ m.value.version = Version
         THEN /\ Answering(Frame("Welcome", <<>>, [federation |-> Federation, tick |-> tick]))
              /\ UNCHANGED down
         ELSE Fail(m.id)
  /\ UNCHANGED <<clientVars, broken, done, tick>>

\* The answer is written after the operation has released the coordinator's mutex.
ServeWrite ==
  /\ worker = "answering"
  /\ IF broken THEN worker' = "closed" /\ UNCHANGED down
     ELSE worker' = "ready" /\ down' = Append(down, answer)
  /\ answer' = NoCall
  /\ UNCHANGED <<clientVars, up, broken, done, tick>>

\* A goodbye, the end of the stream, or stop().
ServeEnd ==
  /\ worker \in {"hello", "ready"}
  /\ \/ up # <<>> /\ Head(up).type = "Goodbye"
     \/ up = <<>> /\ (broken \/ client \in {"refused", "closed"})
  /\ worker' = "closed"
  /\ UNCHANGED <<clientVars, wireVars, answer, done, tick>>

Receive(types) == /\ worker = "ready" /\ up # <<>> /\ Head(up).type \in types
               /\ up' = Tail(up)
Effect(m) == done' = [done EXCEPT ![m.id] = @ + 1]
Answer(m, type, value) == Answering(Frame(type, m.id, value)) /\ UNCHANGED down

\* A request that cannot be decoded, an operation that returns no value or an answer
\* that does not fit a frame is an error message and the end of the connection.
Queried(m, type, value) ==
  /\ UNCHANGED done
  /\ Answer(m, type, value) \/ Fail(m.id)

\* The same, and the answer carries what became of the operation; it is performed
\* before the answer is encoded.
CommandedUnchecked(m, type) ==
  /\ Effect(m) \/ UNCHANGED done
  /\ Answer(m, type, "Ok")

Commanded(m, type) ==
  \/ Effect(m) /\ Answer(m, type, "Ok")
  \/ UNCHANGED done /\ Answer(m, type, "Refused")
  \/ (Effect(m) \/ UNCHANGED done) /\ Fail(m.id)

HandlePing ==
  /\ Receive({"Ping"})
  /\ Answer(Head(up), "Pong", 0)
  /\ UNCHANGED <<clientVars, broken, done, tick>>

HandleSubmit ==
  /\ Receive({"SubmitArtifact"})
  /\ Commanded(Head(up), "SubmitArtifactResult")
  /\ UNCHANGED <<clientVars, broken, tick>>

HandleDigest ==
  /\ Receive({"QueryDigest"})
  /\ Queried(Head(up), "DigestValue", tick)
  /\ UNCHANGED <<clientVars, broken, tick>>

HandleState ==
  /\ Receive({"QueryState"})
  /\ Queried(Head(up), "StateValue", 0)
  /\ UNCHANGED <<clientVars, broken, tick>>

HandleAuthority ==
  /\ Receive({"AuthorityQuery"})
  /\ Commanded(Head(up), "AuthorityResult")
  /\ UNCHANGED <<clientVars, broken, tick>>

HandleLease ==
  /\ Receive({"IssueLease"})
  /\ Commanded(Head(up), "LeaseResult")
  /\ UNCHANGED <<clientVars, broken, tick>>

HandleRevoke ==
  /\ Receive({"RevokeLease"})
  /\ Commanded(Head(up), "SimpleResult")
  /\ UNCHANGED <<clientVars, broken, tick>>

HandleObservation ==
  /\ Receive({"ReportObservation"})
  /\ Commanded(Head(up), "SimpleResult")
  /\ UNCHANGED <<clientVars, broken, tick>>

HandleMemberAction ==
  /\ Receive({"FenceMember", "AdvanceEpoch", "CompleteReconciliation"})
  /\ Commanded(Head(up), "SimpleResult")
  /\ UNCHANGED <<clientVars, broken, tick>>

HandleArtifacts ==
  /\ Receive({"QueryArtifacts"})
  /\ Queried(Head(up), "ArtifactListValue", 0)
  /\ UNCHANGED <<clientVars, broken, tick>>

HandleLeases ==
  /\ Receive({"QueryLeases"})
  /\ Queried(Head(up), "LeaseListValue", 0)
  /\ UNCHANGED <<clientVars, broken, tick>>

HandleStats ==
  /\ Receive({"StatsQuery"})
  /\ Queried(Head(up), "StatsValue", 0)
  /\ UNCHANGED <<clientVars, broken, tick>>

\* advance_time to a later tick moves the clock.
HandleTime ==
  /\ Receive({"AdvanceTime"})
  /\ Commanded(Head(up), "SimpleResult")
  /\ tick' \in {tick} \union (IF tick < MaxTick /\ done' # done THEN {tick + 1} ELSE {})
  /\ UNCHANGED <<clientVars, broken>>

Handle ==
  \/ HandlePing \/ HandleSubmit \/ HandleDigest \/ HandleState \/ HandleAuthority
  \/ HandleLease \/ HandleRevoke \/ HandleObservation \/ HandleTime \/ HandleMemberAction
  \/ HandleArtifacts \/ HandleLeases \/ HandleStats

(********************************************************************************)
(* The rest of the world.                                                       *)
(********************************************************************************)
Break ==
  /\ ~broken /\ client # "new"
  /\ broken' = TRUE
  /\ up' = <<>> /\ down' = <<>>
  /\ UNCHANGED <<clientVars, serverVars>>

Clock ==
  /\ tick < MaxTick
  /\ tick' = tick + 1
  /\ UNCHANGED <<clientVars, wireVars, worker, answer, done>>

Caller(t) == Write(t) \/ WriteFails(t) \/ Read(t) \/ ReadFails(t)
Server == ServeHello \/ ServeWrite \/ ServeEnd \/ Handle

Next ==
  \/ \E h \in Hellos : SendHello(h)
  \/ ReadWelcome \/ CloseClient
  \/ \E t \in Threads :
       (\E type \in Requests : Call(t, type)) \/ Lock(t) \/ Caller(t) \/ UpdateWelcome(t)
  \/ Server \/ Break \/ Clock

Spec == Init /\ [][Next]_vars

\* Threads and workers keep running; a mutex that is released again and again is
\* eventually obtained.
Fairness ==
  /\ WF_vars(ReadWelcome) /\ WF_vars(Server)
  /\ \A t \in Threads : WF_vars(Caller(t)) /\ SF_vars(Lock(t)) /\ SF_vars(UpdateWelcome(t))

FairSpec == Spec /\ Fairness

(********************************************************************************)
(* Properties.                                                                  *)
(********************************************************************************)
Answered(t) == pc[t] = "idle" /\ calls[t] > 0 /\ result[t].type \notin {"failed", "refused", "unexpected"}

\* A thread gets the answer to its own call, of the type it expects, whatever the
\* others do on the shared client (exchange) and whenever the connection breaks.
AnswerIsOwn ==
  \A t \in Threads :
    /\ result[t].type # "unexpected"
    /\ Answered(t) => result[t].id = call[t].id

CommandAnswers == {"SubmitArtifactResult", "AuthorityResult", "LeaseResult", "SimpleResult"}

\* A call takes effect at most once, and has when its answer says so
\* (handle_message): a client that sees an error cannot tell, one that sees success can.
SuccessWasDone ==
  /\ \A i \in Ids : done[i] <= 1
  /\ \A t \in Threads :
       Answered(t) /\ result[t].type \in CommandAnswers /\ result[t].value = "Ok"
         => done[result[t].id] = 1

\* Every call returns: the answer, an error message or the end of the stream
\* releases the thread although nothing has a timeout.
CallsReturn == \A t \in Threads : pc[t] # "idle" ~> pc[t] = "idle"
================================================================================
