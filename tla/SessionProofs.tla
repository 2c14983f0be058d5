----------------------------- MODULE SessionProofs -----------------------------
(********************************************************************************)
(* Proofs about Session, for any number of threads, calls and requests.         *)
(********************************************************************************)
EXTENDS Session, Wire, FiniteSetTheorems, WellFoundedInduction, SequenceTheorems, TLAPS

\* A command that is answered with success was performed, once.
Ok(f) == f.type \in CommandAnswers /\ f.value = "Ok" => f.id \in Ids /\ done[f.id] = 1

\* What a thread may be told: an error message, or the answer to its call.
Answers(f, t) ==
  \/ f.type = "ErrorMessage"
  \/ f.type = Expected(call[t].type) /\ f.id = call[t].id /\ Ok(f)

\* Where a thread of the client is in exchange().
Positions == {"idle", "lock", "write", "read", "update"}

\* The types the proofs need.
TypeInv ==
  /\ pc \in [Threads -> Positions] /\ calls \in [Threads -> 0..MaxCalls]
  /\ call \in [Threads -> [type : Requests \cup {"none"}, id : Ids \cup {<<>>}, value : {0}]]
  /\ DOMAIN result = Threads /\ mutex \in Threads \cup {"free"}
  /\ client \in {"new", "hello", "connected", "refused", "closed"}
  /\ worker \in {"hello", "ready", "answering", "closed"}
  /\ done \in [Ids -> {0, 1}]

\* Each call has an identity of its own, and the mutex is held by whoever writes or reads.
CallInv ==
  \A t \in Threads :
    /\ mutex = t <=> pc[t] \in {"write", "read"}
    /\ client \in {"new", "hello", "refused"} => pc[t] = "idle" /\ calls[t] = 0
    /\ pc[t] # "idle" => calls[t] > 0
    /\ calls[t] > 0 => call[t].id = <<t, calls[t]>> /\ call[t].type \in Requests
    /\ \A n \in 1..MaxCalls : n > calls[t] => done[<<t, n>>] = 0
    /\ pc[t] \in {"lock", "write"} => done[call[t].id] = 0

\* What a thread was told is an error or the answer to its last call.
ResultInv ==
  \A t \in Threads :
    /\ calls[t] > 0 /\ pc[t] \in {"idle", "update"} => result[t].id = call[t].id
    /\ result[t].type # "unexpected"
    /\ Ok(result[t])

\* A thread that waits for its answer.
Reader(t) == t \in Threads /\ pc[t] = "read"

\* What is on its way belongs to the one exchange that holds the mutex, in either direction.
WireInv ==
  /\ broken => up = <<>> /\ down = <<>> /\ client # "new"
  /\ client = "new" => up = <<>> /\ down = <<>> /\ worker = "hello"
  /\ worker = "hello" => broken \/ client \in {"new", "hello"}
  /\ up # <<>> /\ worker # "closed" =>
       /\ up = <<Head(up)>> /\ down = <<>>
       /\ \/ client = "hello" /\ worker = "hello" /\ Head(up).type = "Hello"
          \/ client = "closed" /\ worker = "ready" /\ Head(up).type = "Goodbye"
          \/ \E t \in Threads : Reader(t) /\ worker = "ready" /\ Head(up) = call[t] /\ done[call[t].id] = 0
  /\ worker = "answering" =>
       /\ up = <<>> /\ down = <<>>
       /\ \/ broken
          \/ client = "hello" /\ answer.type = "Welcome"
          \/ \E t \in Threads : Reader(t) /\ Answers(answer, t)
  /\ down # <<>> =>
       /\ down = <<Head(down)>> /\ worker # "hello"
       /\ \/ client = "hello" /\ Head(down).type \in {"Welcome", "ErrorMessage"}
          \/ \E t \in Threads : Reader(t) /\ Answers(Head(down), t)

\* The inductive invariant.
SessionInv == TypeInv /\ CallInv /\ ResultInv /\ WireInv

\* A connection that carried nothing carries one frame.
LEMMA OneFrame ==
  ASSUME NEW f
  PROVE  /\ Append(<<>>, f) = <<f>> /\ <<f>> # <<>>
         /\ Head(<<f>>) = f /\ Tail(<<f>>) = <<>>
  OBVIOUS

\* The answers the client expects, request by request.
LEMMA ExpectedAnswers ==
  /\ Expected("QueryDigest") = "DigestValue" /\ Expected("QueryState") = "StateValue"
  /\ Expected("StatsQuery") = "StatsValue" /\ Expected("AuthorityQuery") = "AuthorityResult"
  /\ Expected("SubmitArtifact") = "SubmitArtifactResult"
  /\ Expected("IssueLease") = "LeaseResult" /\ Expected("RevokeLease") = "SimpleResult"
  /\ Expected("ReportObservation") = "SimpleResult" /\ Expected("AdvanceTime") = "SimpleResult"
  /\ Expected("FenceMember") = "SimpleResult" /\ Expected("AdvanceEpoch") = "SimpleResult"
  /\ Expected("CompleteReconciliation") = "SimpleResult"
  /\ Expected("QueryArtifacts") = "ArtifactListValue" /\ Expected("QueryLeases") = "LeaseListValue"
  /\ Expected("Ping") = "Pong"
  BY DEF Expected, ExpectedQuery, ExpectedEvidence, ExpectedLease, ExpectedReport, ExpectedAction,
         ExpectedList

\* The requests the protocol has.
LEMMA RequestTypesAre ==
  RequestTypes = {"QueryDigest", "QueryState", "StatsQuery", "AuthorityQuery", "SubmitArtifact",
                  "IssueLease", "RevokeLease", "ReportObservation", "AdvanceTime", "FenceMember",
                  "AdvanceEpoch", "CompleteReconciliation", "QueryArtifacts", "QueryLeases", "Ping"}
  BY DEF RequestTypes, ExpectedQuery, ExpectedEvidence, ExpectedLease, ExpectedReport, ExpectedAction,
         ExpectedList

\* No request expects what stands for an error.
LEMMA ExpectedIsAnswer ==
  ASSUME NEW type \in RequestTypes
  PROVE  Expected(type) \notin {"ErrorMessage", "unexpected", "failed", "refused"}
  BY ExpectedAnswers, RequestTypesAre

\* The invariant holds before the client connects.
LEMMA InitHasSessionInv == Init => SessionInv
<1>. SUFFICES ASSUME Init PROVE SessionInv
  OBVIOUS
<1>1. TypeInv
  BY SessionAssumption DEF Init, TypeInv, Positions, NoCall, Frame
<1>2. CallInv
  <2>1. \A t \in Threads, n \in 1..MaxCalls : done[<<t, n>>] = 0
    BY DEF Init, Ids
  <2>. QED BY <2>1, SessionAssumption DEF Init, CallInv
<1>3. ResultInv
  BY DEF Init, ResultInv, NoCall, Frame, Ok, CommandAnswers
<1>4. WireInv
  BY DEF Init, WireInv
<1>. QED BY <1>1, <1>2, <1>3, <1>4 DEF SessionInv

\* Sending the hello keeps the invariant.
LEMMA HelloKeeps ==
  ASSUME SessionInv, NEW h, SendHello(h)
  PROVE  SessionInv'
<1>. USE DEF serverVars
<1>. TypeInv /\ CallInv /\ ResultInv /\ WireInv
  BY DEF SessionInv
<1>0. /\ client = "new" /\ client' = "hello" /\ up' = Append(up, Frame("Hello", <<>>, h))
      /\ UNCHANGED <<pc, call, result, calls, mutex, welcome, down, broken, serverVars>>
  BY DEF SendHello
<1>1. TypeInv'
  BY <1>0 DEF TypeInv
<1>2. CallInv'
  BY <1>0 DEF CallInv
<1>3. ResultInv'
  BY <1>0 DEF ResultInv, Ok
<1>4. WireInv'
  <2>1. up = <<>> /\ down = <<>> /\ worker = "hello" /\ ~broken
    BY <1>0 DEF WireInv
  <2>2. up' = <<Head(up')>> /\ Head(up').type = "Hello"
    BY <2>1, <1>0, OneFrame DEF Frame
  <2>. QED BY <1>0, <2>1, <2>2 DEF WireInv
<1>. QED BY <1>1, <1>2, <1>3, <1>4 DEF SessionInv

\* Reading the welcome, or its refusal, keeps the invariant.
LEMMA WelcomeKeeps ==
  ASSUME SessionInv, ReadWelcome
  PROVE  SessionInv'
<1>. USE DEF serverVars
<1>. TypeInv /\ CallInv /\ ResultInv /\ WireInv
  BY DEF SessionInv
<1>0. /\ client = "hello" /\ client' \in {"connected", "refused"}
      /\ UNCHANGED <<pc, call, result, calls, mutex, asked, up, broken, serverVars>>
  BY DEF ReadWelcome
<1>a. \/ down # <<>> /\ down' = Tail(down)
      \/ down = <<>> /\ Gone /\ down' = down
  BY DEF ReadWelcome
<1>b. down' = <<>>
  BY <1>a, OneFrame DEF WireInv
<1>1. TypeInv'
  BY <1>0 DEF TypeInv
<1>2. CallInv'
  <2>1. \A t \in Threads : pc[t] = "idle" /\ calls[t] = 0
    BY <1>0 DEF CallInv
  <2>. QED BY <1>0, <2>1 DEF CallInv
<1>3. ResultInv'
  BY <1>0 DEF ResultInv, Ok
<1>4. WireInv'
  <2>1. up = <<>> \/ worker = "closed"
    BY <1>a DEF WireInv, Gone
  <2>2. broken \/ worker \in {"ready", "closed"}
    BY <1>a DEF WireInv, Gone, TypeInv
  <2>. QED BY <1>0, <1>b, <2>1, <2>2 DEF WireInv
<1>. QED BY <1>1, <1>2, <1>3, <1>4 DEF SessionInv

\* close() keeps the invariant.
LEMMA CloseKeeps ==
  ASSUME SessionInv, CloseClient
  PROVE  SessionInv'
<1>. USE DEF serverVars
<1>. TypeInv /\ CallInv /\ ResultInv /\ WireInv
  BY DEF SessionInv
<1>0. /\ client = "connected" /\ mutex = "free" /\ client' = "closed"
      /\ up' = IF Gone THEN up ELSE Append(up, Frame("Goodbye", <<>>, 0))
      /\ UNCHANGED <<pc, call, result, calls, mutex, asked, welcome, down, broken, serverVars>>
  BY DEF CloseClient
<1>a. \A t \in Threads : ~Reader(t)
  BY <1>0, SessionAssumption DEF CallInv, Reader
<1>b. down = <<>> /\ (up = <<>> \/ worker = "closed")
  BY <1>0, <1>a DEF WireInv
<1>1. TypeInv'
  BY <1>0 DEF TypeInv
<1>2. CallInv'
  BY <1>0 DEF CallInv
<1>3. ResultInv'
  BY <1>0 DEF ResultInv, Ok
<1>4. WireInv'
  <2>1. CASE Gone
    <3>1. up' = up /\ (broken \/ worker = "closed")
      BY <2>1, <1>0 DEF Gone
    <3>2. broken => up = <<>>
      BY DEF WireInv
    <3>. QED BY <3>1, <3>2, <1>0, <1>b DEF WireInv
  <2>2. CASE ~Gone
    <3>1. ~broken /\ worker # "closed" /\ up = <<>>
      BY <2>2, <1>b DEF Gone
    <3>2. worker = "ready"
      BY <3>1, <1>0, <1>a DEF WireInv, TypeInv
    <3>3. up' = <<Head(up')>> /\ Head(up').type = "Goodbye"
      BY <2>2, <3>1, <1>0, OneFrame DEF Frame
    <3>. QED BY <3>1, <3>2, <3>3, <1>0, <1>b DEF WireInv
  <2>. QED BY <2>1, <2>2
<1>. QED BY <1>1, <1>2, <1>3, <1>4 DEF SessionInv

\* A new call keeps the invariant.
LEMMA CallKeeps ==
  ASSUME SessionInv, NEW t \in Threads, NEW type \in Requests, Call(t, type)
  PROVE  SessionInv'
<1>. USE DEF serverVars, wireVars
<1>. TypeInv /\ CallInv /\ ResultInv /\ WireInv
  BY DEF SessionInv
<1>0. /\ client \in {"connected", "closed"} /\ pc[t] = "idle" /\ calls[t] < MaxCalls
      /\ pc' = [pc EXCEPT ![t] = "lock"] /\ calls' = [calls EXCEPT ![t] = @ + 1]
      /\ call' = [call EXCEPT ![t] = Frame(type, CallId(t, calls[t] + 1), 0)]
      /\ UNCHANGED <<result, mutex, client, asked, welcome, wireVars, serverVars>>
  BY DEF Call
<1>a. /\ calls[t] + 1 \in 1..MaxCalls /\ <<t, calls[t] + 1>> \in Ids /\ calls[t] \in Nat
      /\ done[<<t, calls[t] + 1>>] = 0
  BY <1>0, SessionAssumption DEF TypeInv, CallInv, Ids
<1>b. /\ pc'[t] = "lock" /\ calls'[t] = calls[t] + 1
      /\ call'[t] = [type |-> type, id |-> <<t, calls[t] + 1>>, value |-> 0]
      /\ \A u \in Threads : u # t => pc'[u] = pc[u] /\ calls'[u] = calls[u] /\ call'[u] = call[u]
  BY <1>0 DEF TypeInv, Frame, CallId
<1>1. TypeInv'
  BY <1>0, <1>a DEF TypeInv, Positions, Frame, CallId
<1>2. CallInv'
  <2>. SUFFICES ASSUME NEW u \in Threads PROVE CallInv!(u)'
    BY DEF CallInv
  <2>1. CASE u = t
    BY <2>1, <1>0, <1>a, <1>b, SessionAssumption DEF CallInv, TypeInv
  <2>2. CASE u # t
    BY <2>2, <1>0, <1>b DEF CallInv
  <2>. QED BY <2>1, <2>2
<1>3. ResultInv'
  BY <1>0, <1>b DEF ResultInv, Ok
<1>4. WireInv'
  <2>1. \A u \in Threads : Reader(u) => Reader(u)' /\ call'[u] = call[u]
    BY <1>0, <1>b DEF Reader
  <2>2. \A f, u : Reader(u) /\ Answers(f, u) => Answers(f, u)'
    BY <1>0, <2>1 DEF Answers, Ok, Reader
  <2>. QED BY <1>0, <2>1, <2>2 DEF WireInv
<1>. QED BY <1>1, <1>2, <1>3, <1>4 DEF SessionInv

\* Taking the client's mutex keeps the invariant.
LEMMA LockKeeps ==
  ASSUME SessionInv, NEW t \in Threads, Lock(t)
  PROVE  SessionInv'
<1>. USE DEF serverVars, wireVars
<1>. TypeInv /\ CallInv /\ ResultInv /\ WireInv
  BY DEF SessionInv
<1>0. /\ pc[t] = "lock" /\ mutex = "free" /\ mutex' = t /\ pc' = [pc EXCEPT ![t] = "write"]
      /\ UNCHANGED <<call, result, calls, client, asked, welcome, wireVars, serverVars>>
  BY DEF Lock
<1>b. /\ pc'[t] = "write" /\ \A u \in Threads : u # t => pc'[u] = pc[u]
  BY <1>0 DEF TypeInv
<1>1. TypeInv'
  BY <1>0 DEF TypeInv, Positions
<1>2. CallInv'
  <2>. SUFFICES ASSUME NEW u \in Threads PROVE CallInv!(u)'
    BY DEF CallInv
  <2>1. CASE u = t
    BY <2>1, <1>0, <1>b DEF CallInv
  <2>2. CASE u # t
    BY <2>2, <1>0, <1>b, SessionAssumption DEF CallInv
  <2>. QED BY <2>1, <2>2
<1>3. ResultInv'
  BY <1>0, <1>b DEF ResultInv, Ok
<1>4. WireInv'
  <2>1. \A u \in Threads : Reader(u) => Reader(u)' /\ call'[u] = call[u]
    BY <1>0, <1>b DEF Reader
  <2>2. \A f, u : Reader(u) /\ Answers(f, u) => Answers(f, u)'
    BY <1>0, <2>1 DEF Answers, Ok, Reader
  <2>. QED BY <1>0, <2>1, <2>2 DEF WireInv
<1>. QED BY <1>1, <1>2, <1>3, <1>4 DEF SessionInv

\* Writing the request keeps the invariant.
LEMMA WriteKeeps ==
  ASSUME SessionInv, NEW t \in Threads, Write(t)
  PROVE  SessionInv'
<1>. USE DEF serverVars, wireVars
<1>. TypeInv /\ CallInv /\ ResultInv /\ WireInv
  BY DEF SessionInv
<1>0. /\ pc[t] = "write" /\ client = "connected" /\ ~broken /\ pc' = [pc EXCEPT ![t] = "read"]
      /\ up' = IF worker = "closed" THEN up ELSE Append(up, call[t])
      /\ UNCHANGED <<call, result, calls, mutex, client, asked, welcome, down, broken, serverVars>>
  BY DEF Write
<1>a. \A u \in Threads : ~Reader(u)
  BY <1>0 DEF CallInv, Reader
<1>b. /\ pc'[t] = "read" /\ \A u \in Threads : u # t => pc'[u] = pc[u]
  BY <1>0 DEF TypeInv
<1>c. down = <<>> /\ (up = <<>> \/ worker = "closed")
  BY <1>0, <1>a DEF WireInv
<1>1. TypeInv'
  BY <1>0 DEF TypeInv, Positions
<1>2. CallInv'
  <2>. SUFFICES ASSUME NEW u \in Threads PROVE CallInv!(u)'
    BY DEF CallInv
  <2>1. CASE u = t
    BY <2>1, <1>0, <1>b DEF CallInv
  <2>2. CASE u # t
    BY <2>2, <1>0, <1>b DEF CallInv
  <2>. QED BY <2>1, <2>2
<1>3. ResultInv'
  BY <1>0, <1>b DEF ResultInv, Ok
<1>4. WireInv'
  <2>1. CASE worker = "closed"
    BY <2>1, <1>0, <1>c DEF WireInv
  <2>2. CASE worker # "closed"
    <3>1. worker = "ready"
      BY <2>2, <1>0, <1>a DEF WireInv, TypeInv
    <3>2. up' = <<Head(up')>> /\ Head(up') = call[t]
      BY <2>2, <1>0, <1>c, OneFrame
    <3>3. Reader(t)' /\ done[call[t].id] = 0
      BY <1>0, <1>b DEF Reader, CallInv
    <3>. QED BY <3>1, <3>2, <3>3, <1>0, <1>c DEF WireInv
  <2>. QED BY <2>1, <2>2
<1>. QED BY <1>1, <1>2, <1>3, <1>4 DEF SessionInv

\* A thread that gives the mutex back with a result of its own call.
LEMMA ReturnKeeps ==
  ASSUME SessionInv, NEW t \in Threads, NEW r, NEW next \in {"idle", "update"},
         pc[t] \in {"write", "read"}, Return(t, r, next),
         r.id = call[t].id, r.type # "unexpected", Ok(r),
         down' = <<>>, Reader(t) \/ down = <<>>,
         Reader(t) \/ broken \/ client = "closed" \/ worker = "closed",
         Reader(t) => down # <<>> \/ Gone,
         UNCHANGED <<call, calls, client, asked, welcome, up, broken, serverVars>>
  PROVE  SessionInv'
<1>. USE DEF serverVars
<1>. TypeInv /\ CallInv /\ ResultInv /\ WireInv
  BY DEF SessionInv
<1>0. /\ mutex = t /\ mutex' = "free" /\ pc' = [pc EXCEPT ![t] = next]
      /\ result' = [result EXCEPT ![t] = r]
  BY DEF Return, CallInv
<1>b. /\ pc'[t] = next /\ result'[t] = r
      /\ \A u \in Threads : u # t => pc'[u] = pc[u] /\ result'[u] = result[u]
  BY <1>0 DEF TypeInv
<1>c. calls[t] > 0 /\ \A u \in Threads : u # t => pc[u] \notin {"write", "read"}
  BY <1>0 DEF CallInv
<1>1. TypeInv'
  BY <1>0 DEF TypeInv, Positions
<1>2. CallInv'
  <2>. SUFFICES ASSUME NEW u \in Threads PROVE CallInv!(u)'
    BY DEF CallInv
  <2>1. CASE u = t
    BY <2>1, <1>0, <1>b, <1>c, SessionAssumption DEF CallInv
  <2>2. CASE u # t
    BY <2>2, <1>0, <1>b, <1>c, SessionAssumption DEF CallInv
  <2>. QED BY <2>1, <2>2
<1>3. ResultInv'
  BY <1>0, <1>b DEF ResultInv, Ok
<1>4. WireInv'
  <2>1. client \in {"connected", "closed"}
    BY <1>c DEF CallInv, TypeInv
  <2>2. \A u \in Threads : Reader(u) => u = t
    BY <1>c DEF Reader
  <2>3. up # <<>> /\ worker # "closed" => client = "closed" /\ worker = "ready" /\ Head(up).type = "Goodbye"
          /\ up = <<Head(up)>> /\ ~broken
    <3>1. ~(up # <<>> /\ worker # "closed" /\ Reader(t))
      BY DEF WireInv, Gone
    <3>. QED BY <3>1, <2>1, <2>2 DEF WireInv
  <2>4. worker = "answering" => broken /\ up = <<>>
    BY <2>1, <2>2 DEF WireInv, Gone
  <2>. QED BY <2>1, <2>3, <2>4 DEF WireInv
<1>. QED BY <1>1, <1>2, <1>3, <1>4 DEF SessionInv

\* A write or a read that fails keeps the invariant.
LEMMA FailureKeeps ==
  ASSUME SessionInv, NEW t \in Threads, WriteFails(t) \/ ReadFails(t)
  PROVE  SessionInv'
<1>. USE DEF serverVars, wireVars
<1>. TypeInv /\ CallInv /\ ResultInv /\ WireInv
  BY DEF SessionInv
<1>1. PICK r : r = Frame("failed", call[t].id, 0)
  OBVIOUS
<1>2. r.id = call[t].id /\ r.type # "unexpected" /\ Ok(r)
  BY <1>1 DEF Frame, Ok, CommandAnswers
<1>3. Return(t, r, "idle") /\ pc[t] \in {"write", "read"}
  BY <1>1 DEF WriteFails, ReadFails
<1>4. UNCHANGED <<call, calls, client, asked, welcome, up, down, broken, serverVars>>
  BY DEF WriteFails, ReadFails
<1>5. down = <<>>
  <2>1. CASE WriteFails(t)
    <3>1. \A u \in Threads : ~Reader(u)
      BY <2>1 DEF WriteFails, CallInv, Reader
    <3>2. client # "hello"
      BY <2>1 DEF WriteFails, CallInv
    <3>. QED BY <3>1, <3>2 DEF WireInv
  <2>2. CASE ReadFails(t)
    BY <2>2 DEF ReadFails
  <2>. QED BY <2>1, <2>2
<1>6. /\ Reader(t) \/ broken \/ client = "closed" \/ worker = "closed"
      /\ Reader(t) => down # <<>> \/ Gone
  BY DEF WriteFails, ReadFails, Reader, Gone
<1>. QED BY <1>2, <1>3, <1>4, <1>5, <1>6, ReturnKeeps

\* Reading an answer, the wrong ones included, keeps the invariant.
LEMMA ReadKeeps ==
  ASSUME SessionInv, NEW t \in Threads, Read(t)
  PROVE  SessionInv'
<1>. USE DEF serverVars
<1>. TypeInv /\ CallInv /\ ResultInv /\ WireInv
  BY DEF SessionInv
<1>0. /\ pc[t] = "read" /\ down # <<>> /\ down' = Tail(down)
      /\ UNCHANGED <<call, calls, client, asked, welcome, up, broken, serverVars>>
  BY DEF Read
<1>1. PICK r : r = Accepted(t, Head(down))
  OBVIOUS
<1>2. PICK next : next = IF r.type = "DigestValue" THEN "update" ELSE "idle"
  OBVIOUS
<1>3. Return(t, r, next) /\ next \in {"idle", "update"}
  BY <1>1, <1>2, Zenon DEF Read
<1>4. Reader(t) /\ \A u \in Threads : Reader(u) => u = t
  BY <1>0 DEF Reader, CallInv
<1>5. Answers(Head(down), t) /\ down' = <<>>
  <2>1. client # "hello"
    BY <1>0 DEF CallInv
  <2>. QED BY <1>0, <1>4, <2>1, OneFrame DEF WireInv
<1>6. call[t].type \in RequestTypes
  BY <1>0, SessionAssumption DEF CallInv
<1>7. r.id = call[t].id /\ r.type # "unexpected" /\ Ok(r)
  <2>1. CASE Head(down).type = "ErrorMessage"
    BY <1>1, <2>1 DEF Accepted, Frame, Ok, CommandAnswers
  <2>2. CASE Head(down).type # "ErrorMessage"
    <3>1. /\ Head(down).type = Expected(call[t].type) /\ Head(down).id = call[t].id
          /\ Ok(Head(down))
      BY <1>5, <2>2 DEF Answers
    <3>2. r = Head(down)
      BY <1>1, <2>2, <3>1 DEF Accepted
    <3>. QED BY <1>6, <3>1, <3>2, ExpectedIsAnswer
  <2>. QED BY <2>1, <2>2
<1>. QED BY <1>0, <1>3, <1>4, <1>5, <1>7, ReturnKeeps

\* Updating the cached welcome keeps the invariant.
LEMMA UpdateKeeps ==
  ASSUME SessionInv, NEW t \in Threads, UpdateWelcome(t)
  PROVE  SessionInv'
<1>. USE DEF serverVars, wireVars
<1>. TypeInv /\ CallInv /\ ResultInv /\ WireInv
  BY DEF SessionInv
<1>0. /\ pc[t] = "update" /\ pc' = [pc EXCEPT ![t] = "idle"]
      /\ UNCHANGED <<call, result, calls, mutex, client, asked, wireVars, serverVars>>
  BY DEF UpdateWelcome
<1>b. /\ pc'[t] = "idle" /\ \A u \in Threads : u # t => pc'[u] = pc[u]
  BY <1>0 DEF TypeInv
<1>1. TypeInv'
  BY <1>0 DEF TypeInv, Positions
<1>2. CallInv'
  <2>. SUFFICES ASSUME NEW u \in Threads PROVE CallInv!(u)'
    BY DEF CallInv
  <2>1. CASE u = t
    BY <2>1, <1>0, <1>b DEF CallInv
  <2>2. CASE u # t
    BY <2>2, <1>0, <1>b DEF CallInv
  <2>. QED BY <2>1, <2>2
<1>3. ResultInv'
  BY <1>0, <1>b DEF ResultInv, Ok
<1>4. WireInv'
  <2>1. \A u \in Threads : Reader(u) => Reader(u)' /\ call'[u] = call[u]
    BY <1>0, <1>b DEF Reader
  <2>2. \A f, u : Reader(u) /\ Answers(f, u) => Answers(f, u)'
    BY <1>0, <2>1 DEF Answers, Ok, Reader
  <2>. QED BY <1>0, <2>1, <2>2 DEF WireInv
<1>. QED BY <1>1, <1>2, <1>3, <1>4 DEF SessionInv

\* What the worker's handling of a request can come to: the operation took effect or
\* not, and the connection fails or the answer is the one the client expects.
Performed(m) == [done EXCEPT ![m.id] = @ + 1]
Handled(m) ==
  /\ worker = "ready" /\ up # <<>> /\ m = Head(up) /\ m.type \in RequestTypes /\ up' = Tail(up)
  /\ done' \in {done, Performed(m)}
  /\ \/ Fail(m.id)
     \/ \E v : /\ Answer(m, Expected(m.type), v)
               /\ Expected(m.type) \in CommandAnswers /\ v = "Ok" => done' = Performed(m)
  /\ UNCHANGED <<clientVars, broken>>

\* handle_message does one of the things that Handled lists.
LEMMA HandleIsHandled ==
  ASSUME Handle
  PROVE  Handled(Head(up))
<1>. USE ExpectedAnswers, RequestTypesAre
<1>q. ASSUME NEW m, NEW type, NEW val, Queried(m, type, val), type = Expected(m.type),
             type \notin CommandAnswers
      PROVE  /\ done' \in {done, Performed(m)}
             /\ \/ Fail(m.id)
                \/ \E v : /\ Answer(m, Expected(m.type), v)
                          /\ Expected(m.type) \in CommandAnswers /\ v = "Ok" => done' = Performed(m)
  BY <1>q, Zenon DEF Queried
<1>c. ASSUME NEW m, NEW type, Commanded(m, type), type = Expected(m.type)
      PROVE  /\ done' \in {done, Performed(m)}
             /\ \/ Fail(m.id)
                \/ \E v : /\ Answer(m, Expected(m.type), v)
                          /\ Expected(m.type) \in CommandAnswers /\ v = "Ok" => done' = Performed(m)
  <2>1. CASE Effect(m) /\ Answer(m, type, "Ok")
    BY <2>1, <1>c, Zenon DEF Effect, Performed
  <2>2. CASE UNCHANGED done /\ Answer(m, type, "Refused")
    <3>1. "Refused" # "Ok"
      OBVIOUS
    <3>. QED BY <3>1, <2>2, <1>c, Zenon
  <2>3. CASE (Effect(m) \/ UNCHANGED done) /\ Fail(m.id)
    BY <2>3, Zenon DEF Effect, Performed
  <2>. QED BY <1>c, <2>1, <2>2, <2>3 DEF Commanded
<1>1. CASE HandlePing
  <2>1. PICK m : m = Head(up)
    OBVIOUS
  <2>2. m.type = "Ping" /\ Expected(m.type) = "Pong" /\ "Pong" \notin CommandAnswers
    BY <1>1, <2>1 DEF HandlePing, Receive, CommandAnswers
  <2>3. Answer(m, Expected(m.type), 0) /\ done' = done
    BY <1>1, <2>1, <2>2 DEF HandlePing
  <2>. QED BY <1>1, <2>1, <2>2, <2>3 DEF HandlePing, Receive, Handled
<1>2. CASE HandleSubmit
  <2>1. PICK m : m = Head(up)
    OBVIOUS
  <2>2. m.type \in {"SubmitArtifact"} /\ Commanded(m, "SubmitArtifactResult")
    BY <1>2, <2>1 DEF HandleSubmit, Receive
  <2>3. Expected(m.type) = "SubmitArtifactResult"
    BY <2>2
  <2>. QED BY <1>2, <1>c, <2>1, <2>2, <2>3 DEF HandleSubmit, Receive, Handled
<1>3. CASE HandleAuthority
  <2>1. PICK m : m = Head(up)
    OBVIOUS
  <2>2. m.type \in {"AuthorityQuery"} /\ Commanded(m, "AuthorityResult")
    BY <1>3, <2>1 DEF HandleAuthority, Receive
  <2>3. Expected(m.type) = "AuthorityResult"
    BY <2>2
  <2>. QED BY <1>3, <1>c, <2>1, <2>2, <2>3 DEF HandleAuthority, Receive, Handled
<1>4. CASE HandleLease
  <2>1. PICK m : m = Head(up)
    OBVIOUS
  <2>2. m.type \in {"IssueLease"} /\ Commanded(m, "LeaseResult")
    BY <1>4, <2>1 DEF HandleLease, Receive
  <2>3. Expected(m.type) = "LeaseResult"
    BY <2>2
  <2>. QED BY <1>4, <1>c, <2>1, <2>2, <2>3 DEF HandleLease, Receive, Handled
<1>5. CASE HandleRevoke
  <2>1. PICK m : m = Head(up)
    OBVIOUS
  <2>2. m.type \in {"RevokeLease"} /\ Commanded(m, "SimpleResult")
    BY <1>5, <2>1 DEF HandleRevoke, Receive
  <2>3. Expected(m.type) = "SimpleResult"
    BY <2>2
  <2>. QED BY <1>5, <1>c, <2>1, <2>2, <2>3 DEF HandleRevoke, Receive, Handled
<1>6. CASE HandleObservation
  <2>1. PICK m : m = Head(up)
    OBVIOUS
  <2>2. m.type \in {"ReportObservation"} /\ Commanded(m, "SimpleResult")
    BY <1>6, <2>1 DEF HandleObservation, Receive
  <2>3. Expected(m.type) = "SimpleResult"
    BY <2>2
  <2>. QED BY <1>6, <1>c, <2>1, <2>2, <2>3 DEF HandleObservation, Receive, Handled
<1>7. CASE HandleTime
  <2>1. PICK m : m = Head(up)
    OBVIOUS
  <2>2. m.type \in {"AdvanceTime"} /\ Commanded(m, "SimpleResult")
    BY <1>7, <2>1 DEF HandleTime, Receive
  <2>3. Expected(m.type) = "SimpleResult"
    BY <2>2
  <2>. QED BY <1>7, <1>c, <2>1, <2>2, <2>3 DEF HandleTime, Receive, Handled
<1>8. CASE HandleMemberAction
  <2>1. PICK m : m = Head(up)
    OBVIOUS
  <2>2. m.type \in {"FenceMember", "AdvanceEpoch", "CompleteReconciliation"} /\ Commanded(m, "SimpleResult")
    BY <1>8, <2>1 DEF HandleMemberAction, Receive
  <2>3. Expected(m.type) = "SimpleResult"
    BY <2>2
  <2>. QED BY <1>8, <1>c, <2>1, <2>2, <2>3 DEF HandleMemberAction, Receive, Handled
<1>9. CASE HandleDigest
  <2>1. PICK m : m = Head(up)
    OBVIOUS
  <2>2. m.type = "QueryDigest" /\ Queried(m, "DigestValue", tick)
    BY <1>9, <2>1 DEF HandleDigest, Receive
  <2>3. Expected(m.type) = "DigestValue" /\ "DigestValue" \notin CommandAnswers
    BY <2>2 DEF CommandAnswers
  <2>. QED BY <1>9, <1>q, <2>1, <2>2, <2>3 DEF HandleDigest, Receive, Handled
<1>10. CASE HandleState
  <2>1. PICK m : m = Head(up)
    OBVIOUS
  <2>2. m.type = "QueryState" /\ Queried(m, "StateValue", 0)
    BY <1>10, <2>1 DEF HandleState, Receive
  <2>3. Expected(m.type) = "StateValue" /\ "StateValue" \notin CommandAnswers
    BY <2>2 DEF CommandAnswers
  <2>. QED BY <1>10, <1>q, <2>1, <2>2, <2>3 DEF HandleState, Receive, Handled
<1>11. CASE HandleArtifacts
  <2>1. PICK m : m = Head(up)
    OBVIOUS
  <2>2. m.type = "QueryArtifacts" /\ Queried(m, "ArtifactListValue", 0)
    BY <1>11, <2>1 DEF HandleArtifacts, Receive
  <2>3. Expected(m.type) = "ArtifactListValue" /\ "ArtifactListValue" \notin CommandAnswers
    BY <2>2 DEF CommandAnswers
  <2>. QED BY <1>11, <1>q, <2>1, <2>2, <2>3 DEF HandleArtifacts, Receive, Handled
<1>12. CASE HandleLeases
  <2>1. PICK m : m = Head(up)
    OBVIOUS
  <2>2. m.type = "QueryLeases" /\ Queried(m, "LeaseListValue", 0)
    BY <1>12, <2>1 DEF HandleLeases, Receive
  <2>3. Expected(m.type) = "LeaseListValue" /\ "LeaseListValue" \notin CommandAnswers
    BY <2>2 DEF CommandAnswers
  <2>. QED BY <1>12, <1>q, <2>1, <2>2, <2>3 DEF HandleLeases, Receive, Handled
<1>13. CASE HandleStats
  <2>1. PICK m : m = Head(up)
    OBVIOUS
  <2>2. m.type = "StatsQuery" /\ Queried(m, "StatsValue", 0)
    BY <1>13, <2>1 DEF HandleStats, Receive
  <2>3. Expected(m.type) = "StatsValue" /\ "StatsValue" \notin CommandAnswers
    BY <2>2 DEF CommandAnswers
  <2>. QED BY <1>13, <1>q, <2>1, <2>2, <2>3 DEF HandleStats, Receive, Handled
<1>. QED BY <1>1, <1>2, <1>3, <1>4, <1>5, <1>6, <1>7, <1>8, <1>9, <1>10, <1>11, <1>12, <1>13 DEF Handle

\* Each of them keeps the invariant.
LEMMA HandledKeeps ==
  ASSUME SessionInv, NEW m, Handled(m)
  PROVE  SessionInv'
<1>. USE DEF clientVars
<1>. TypeInv /\ CallInv /\ ResultInv /\ WireInv
  BY DEF SessionInv
<1>0. /\ worker = "ready" /\ up # <<>> /\ m = Head(up) /\ m.type \in RequestTypes /\ up' = Tail(up)
      /\ done' \in {done, Performed(m)}
      /\ UNCHANGED <<pc, call, result, calls, mutex, client, broken>>
  BY DEF Handled
<1>1. PICK t \in Threads : Reader(t) /\ m = call[t] /\ done[call[t].id] = 0
  BY <1>0, RequestTypesAre DEF WireInv
<1>2. up' = <<>> /\ down = <<>> /\ ~broken
  BY <1>0, OneFrame DEF WireInv
<1>3. calls[t] > 0 /\ m.id = <<t, calls[t]>> /\ calls[t] \in 1..MaxCalls /\ m.id \in Ids
  <2>1. calls[t] > 0 /\ m.id = <<t, calls[t]>>
    BY <1>1 DEF Reader, CallInv
  <2>2. calls[t] \in 1..MaxCalls
    BY <2>1, SessionAssumption DEF TypeInv
  <2>. QED BY <2>1, <2>2 DEF Ids
<1>4. /\ done' \in [Ids -> {0, 1}]
      /\ \A i \in Ids : i # m.id => done'[i] = done[i]
      /\ \A i \in Ids : done[i] = 1 => done'[i] = 1
      /\ done' = Performed(m) => done'[m.id] = 1
  <2>1. PICK k \in Ids : k = m.id
    BY <1>3
  <2>2. done[k] = 0 /\ done' \in {done, [done EXCEPT ![k] = 1]} /\ Performed(m) = [done EXCEPT ![k] = 1]
    <3>1. done[k] = 0 /\ done[k] + 1 = 1
      BY <1>1, <2>1
    <3>2. Performed(m) = [done EXCEPT ![k] = 1]
      BY <2>1, <3>1, Zenon DEF Performed
    <3>. QED BY <1>0, <3>1, <3>2
  <2>. QED BY <2>1, <2>2 DEF TypeInv
<1>5. \A f : Ok(f) => Ok(f)'
  BY <1>4 DEF Ok
<1>a. \/ Fail(m.id)
      \/ \E v : /\ Answer(m, Expected(m.type), v)
                /\ Expected(m.type) \in CommandAnswers /\ v = "Ok" => done' = Performed(m)
  BY DEF Handled
<1>6. worker' \in {"answering", "closed"}
  <2>1. CASE Fail(m.id)
    BY <2>1 DEF Fail
  <2>2. ASSUME NEW v, Answer(m, Expected(m.type), v) PROVE worker' = "answering"
    BY <2>2 DEF Answer, Answering
  <2>. QED BY <1>a, <2>1, <2>2
<1>7. TypeInv'
  BY <1>0, <1>4, <1>6 DEF TypeInv
<1>8. CallInv'
  <2>. SUFFICES ASSUME NEW u \in Threads PROVE CallInv!(u)'
    BY DEF CallInv
  <2>1. ASSUME NEW n \in 1..MaxCalls, n > calls[u] PROVE done'[<<u, n>>] = 0
    <3>1. <<u, n>> \in Ids /\ <<u, n>> # m.id
      BY <2>1, <1>3 DEF Ids, TypeInv
    <3>. QED BY <3>1, <2>1, <1>4 DEF CallInv
  <2>2. ASSUME pc[u] \in {"lock", "write"} PROVE done'[call[u].id] = 0
    <3>1. u # t /\ call[u].id = <<u, calls[u]>> /\ calls[u] \in 1..MaxCalls
      BY <2>2, <1>1, SessionAssumption DEF Reader, CallInv, TypeInv
    <3>2. call[u].id \in Ids /\ call[u].id # m.id
      BY <3>1, <1>3 DEF Ids
    <3>. QED BY <3>2, <2>2, <1>4 DEF CallInv
  <2>. QED BY <2>1, <2>2, <1>0 DEF CallInv
<1>9. ResultInv'
  BY <1>0, <1>5 DEF ResultInv
<1>10. WireInv'
  <2>0. client \notin {"new", "hello", "refused"}
    BY <1>1 DEF Reader, CallInv
  <2>1. CASE Fail(m.id)
    <3>1. worker' = "closed" /\ down' = Append(down, Frame("ErrorMessage", m.id, 0))
      BY <2>1, <1>2 DEF Fail
    <3>2. down' = <<Head(down')>> /\ Head(down').type = "ErrorMessage"
      BY <3>1, <1>2, OneFrame DEF Frame
    <3>3. Reader(t)' /\ Answers(Head(down), t)'
      BY <3>2, <1>0, <1>1 DEF Reader, Answers
    <3>. QED BY <3>1, <3>2, <3>3, <2>0, <1>0, <1>2 DEF WireInv
  <2>2. ASSUME NEW val, Answer(m, Expected(m.type), val),
               Expected(m.type) \in CommandAnswers /\ val = "Ok" => done' = Performed(m)
        PROVE  WireInv'
    <3>1. /\ worker' = "answering" /\ down' = down
          /\ answer' = [type |-> Expected(m.type), id |-> m.id, value |-> val]
      BY <2>2 DEF Answer, Answering, Frame
    <3>2. /\ answer'.type = Expected(m.type) /\ answer'.id = m.id /\ answer'.value = val
      BY <3>1
    <3>3. Ok(answer)'
      BY <3>2, <2>2, <1>3, <1>4 DEF Ok, Ids
    <3>4. Reader(t)' /\ Answers(answer, t)'
      BY <3>2, <3>3, <1>0, <1>1 DEF Reader, Answers
    <3>. QED BY <3>1, <3>4, <2>0, <1>0, <1>2 DEF WireInv
  <2>. QED BY <1>a, <2>1, <2>2
<1>. QED BY <1>7, <1>8, <1>9, <1>10 DEF SessionInv

\* The server's side of the handshake keeps the invariant.
LEMMA ServeHelloKeeps ==
  ASSUME SessionInv, ServeHello
  PROVE  SessionInv'
<1>. USE DEF clientVars
<1>. TypeInv /\ CallInv /\ ResultInv /\ WireInv
  BY DEF SessionInv
<1>0. /\ worker = "hello" /\ up # <<>> /\ up' = Tail(up)
      /\ UNCHANGED <<pc, call, result, calls, mutex, client, broken, done>>
  BY DEF ServeHello
<1>1. up' = <<>> /\ down = <<>> /\ ~broken /\ client = "hello"
  BY <1>0, OneFrame DEF WireInv
<1>2. \/ worker' = "answering" /\ answer'.type = "Welcome" /\ down' = down
      \/ /\ worker' = "closed"
         /\ \E id : down' = Append(down, Frame("ErrorMessage", id, 0))
  <2>1. PICK w : w = Frame("Welcome", <<>>, [federation |-> Federation, tick |-> tick])
    OBVIOUS
  <2>2. w.type = "Welcome"
    BY <2>1 DEF Frame
  <2>3. \/ Answering(w) /\ UNCHANGED down
        \/ Fail(Head(up).id)
    BY <2>1 DEF ServeHello
  <2>. QED BY <1>1, <2>2, <2>3 DEF Answering, Fail
<1>3. \/ worker' = "answering" /\ answer'.type = "Welcome" /\ down' = <<>>
      \/ /\ worker' = "closed" /\ down' = <<Head(down')>> /\ Head(down').type = "ErrorMessage"
  BY <1>1, <1>2, OneFrame DEF Frame
<1>4. TypeInv'
  BY <1>0, <1>3 DEF TypeInv
<1>5. CallInv' /\ ResultInv'
  BY <1>0 DEF CallInv, ResultInv, Ok
<1>6. WireInv'
  BY <1>0, <1>1, <1>3 DEF WireInv
<1>. QED BY <1>4, <1>5, <1>6 DEF SessionInv

\* Writing an answer keeps the invariant.
LEMMA ServeWriteKeeps ==
  ASSUME SessionInv, ServeWrite
  PROVE  SessionInv'
<1>. USE DEF clientVars
<1>. TypeInv /\ CallInv /\ ResultInv /\ WireInv
  BY DEF SessionInv
<1>0. /\ worker = "answering"
      /\ IF broken THEN worker' = "closed" /\ UNCHANGED down
                   ELSE worker' = "ready" /\ down' = Append(down, answer)
      /\ UNCHANGED <<pc, call, result, calls, mutex, client, up, broken, done>>
  BY DEF ServeWrite
<1>1. up = <<>> /\ down = <<>>
  BY <1>0 DEF WireInv
<1>2. TypeInv'
  BY <1>0 DEF TypeInv
<1>3. CallInv' /\ ResultInv'
  BY <1>0 DEF CallInv, ResultInv, Ok
<1>4. WireInv'
  <2>1. CASE broken
    BY <2>1, <1>0, <1>1 DEF WireInv
  <2>2. CASE ~broken
    <3>1. worker' = "ready" /\ down' = <<Head(down')>> /\ Head(down') = answer
      BY <2>2, <1>0, <1>1, OneFrame
    <3>2. \A u \in Threads : Reader(u) /\ Answers(answer, u) => Reader(u)' /\ Answers(Head(down), u)'
      BY <1>0, <3>1 DEF Reader, Answers, Ok
    <3>3. \/ client = "hello" /\ answer.type = "Welcome"
          \/ \E u \in Threads : Reader(u) /\ Answers(answer, u)
      BY <2>2, <1>0 DEF WireInv
    <3>. QED BY <3>1, <3>2, <3>3, <1>0, <1>1 DEF WireInv
  <2>. QED BY <2>1, <2>2
<1>. QED BY <1>2, <1>3, <1>4 DEF SessionInv

\* The worker's end of the connection, a break and the clock.
LEMMA OtherKeeps ==
  ASSUME SessionInv, ServeEnd \/ Break \/ Clock \/ UNCHANGED vars
  PROVE  SessionInv'
<1>. USE DEF clientVars, wireVars, serverVars, vars
<1>. TypeInv /\ CallInv /\ ResultInv /\ WireInv
  BY DEF SessionInv
<1>0. UNCHANGED <<pc, call, result, calls, mutex, client, answer, done>>
  BY DEF ServeEnd, Break, Clock
<1>1. worker' \in {worker, "closed"}
  BY DEF ServeEnd, Break, Clock
<1>2. TypeInv'
  BY <1>0, <1>1 DEF TypeInv
<1>3. CallInv' /\ ResultInv'
  BY <1>0 DEF CallInv, ResultInv, Ok
<1>4. WireInv'
  <2>1. \A u \in Threads : Reader(u) => Reader(u)'
    BY <1>0 DEF Reader
  <2>2. \A f, u : Answers(f, u) => Answers(f, u)'
    BY <1>0 DEF Answers, Ok
  <2>3. CASE ServeEnd
    <3>1. /\ worker \in {"hello", "ready"} /\ worker' = "closed" /\ UNCHANGED <<up, down, broken>>
          /\ client # "new"
      BY <2>3 DEF ServeEnd, WireInv
    <3>. QED BY <1>0, <2>1, <2>2, <3>1 DEF WireInv
  <2>4. CASE Break
    <3>1. broken' = TRUE /\ up' = <<>> /\ down' = <<>> /\ client # "new" /\ worker' = worker
      BY <2>4 DEF Break
    <3>. QED BY <1>0, <3>1 DEF WireInv
  <2>5. CASE Clock \/ UNCHANGED vars
    <3>1. UNCHANGED <<worker, up, down, broken>>
      BY <2>5 DEF Clock
    <3>. QED BY <1>0, <2>1, <2>2, <3>1 DEF WireInv
  <2>. QED BY <2>3, <2>4, <2>5
<1>. QED BY <1>2, <1>3, <1>4 DEF SessionInv

\* Every step keeps the invariant.
LEMMA NextKeepsSessionInv == SessionInv /\ [Next]_vars => SessionInv'
<1>. SUFFICES ASSUME SessionInv, [Next]_vars PROVE SessionInv'
  OBVIOUS
<1>1. ASSUME NEW h \in Hellos, SendHello(h) PROVE SessionInv'
  BY <1>1, HelloKeeps
<1>2. CASE ReadWelcome \/ CloseClient
  BY <1>2, WelcomeKeeps, CloseKeeps
<1>3. ASSUME NEW t \in Threads,
             (\E type \in Requests : Call(t, type)) \/ Lock(t) \/ Caller(t) \/ UpdateWelcome(t)
      PROVE  SessionInv'
  BY <1>3, CallKeeps, LockKeeps, WriteKeeps, FailureKeeps, ReadKeeps, UpdateKeeps DEF Caller
<1>4. CASE Server
  BY <1>4, ServeHelloKeeps, ServeWriteKeeps, OtherKeeps, HandleIsHandled, HandledKeeps DEF Server
<1>5. CASE Break \/ Clock \/ UNCHANGED vars
  BY <1>5, OtherKeeps
<1>. QED BY <1>1, <1>2, <1>3, <1>4, <1>5 DEF Next

\* SessionInv is an invariant of a connection, for any number of threads and calls.
THEOREM SessionInvariance == Spec => []SessionInv
<1>1. Init => SessionInv
  BY InitHasSessionInv
<1>2. SessionInv /\ [Next]_vars => SessionInv'
  BY NextKeepsSessionInv
<1>. QED BY <1>1, <1>2, PTL DEF Spec

\* exchange(): a thread is given the answer to its own call, of the type it expects, never that
\* of another thread or of an earlier call, whatever fails in between.
THEOREM AnswerIsOwnHolds == Spec => []AnswerIsOwn
<1>1. SessionInv => AnswerIsOwn
  BY DEF SessionInv, ResultInv, AnswerIsOwn, Answered
<1>. QED BY <1>1, SessionInvariance, PTL

\* handle_message and exchange(): a call takes effect at most once, and a command whose
\* answer says success has taken effect.
THEOREM SuccessWasDoneHolds == Spec => []SuccessWasDone
<1>1. SessionInv => SuccessWasDone
  BY DEF SessionInv, ResultInv, TypeInv, SuccessWasDone, Ok
<1>. QED BY <1>1, SessionInvariance, PTL

--------------------------------------------------------------------------------
(********************************************************************************)
(* The payloads of the frames (Wire): every type of every message, and of every *)
(* artefact and journal record, for any limits of bounds.hpp.                   *)
(********************************************************************************)
\* The names of the members that are written.
Labels ==
  {"member", "scope", "verb", "grant", "mode", "weight", "not_after", "constraint", "kind",
   "claimants", "detail", "capability", "min_version", "max_version", "mandatory",
   "version", "evidence", "evidence_digest", "domain", "generation", "software_major",
   "software_minor", "software_patch", "capabilities", "requirements", "retained",
   "delegated", "description", "incarnation", "constitution", "node", "started_at",
   "reincarnated", "declared_at", "id", "enabled", "value", "members", "rules", "peer",
   "peer_incarnation", "state", "observed_at", "observer", "observer_incarnation", "epoch",
   "recorded_at", "peers", "federation", "holder", "scopes", "issued_epoch",
   "not_after_epoch", "issued_at", "issuer_node", "issuer_incarnation", "revoked",
   "revoked_at", "revoke_reason", "revoke_detail", "code", "role", "identity_current",
   "note", "outcome", "reasons", "contributions", "conflicts", "considered_grants",
   "effective_grants", "limit_reached", "summary", "epoch_seen", "actor", "requested",
   "lease", "request", "epoch_current", "actor_declared", "actor_current", "lifecycle",
   "effective_authority", "explanation", "decided_at", "subject", "issuer", "body_digest",
   "coordinator", "founder", "founder_grants", "policy", "created_at", "declaration",
   "declared_identity", "genesis", "policy_generation", "policy_digest", "lineage",
   "parties", "required_endorsements", "required_distinct_parties", "delegated_terms",
   "withdrawn_grants", "lease_holder", "lease_scopes", "lease_issued_epoch",
   "lease_not_after_epoch", "lease_not_after", "lease_issuer_incarnation", "observations",
   "unreachable_members", "reason_code", "fence_reason", "reason_text", "logical_time",
   "envelope", "body", "protocol_version", "product", "coordinator_incarnation",
   "state_digest", "policy_id", "message", "artifact_count", "member_count",
   "active_member_count", "reconciling", "json", "artifact_digest", "already_present",
   "rejected", "lifetime_ticks", "reason", "to", "artifacts", "leases",
   "rejected_artifacts", "duplicate_artifacts", "active_members", "replay_entries",
   "connections_accepted", "protocol_errors", "journal_records", "journal_bytes",
   "partition_state", "transport"}

\* What the elements of the collections consist of.
Elements ==
  {<<>>, Parties, CapabilityStatementEncode, CapabilityRequirementEncode,
   ScopeGrantEncode, DelegationTermsEncode, PolicyRuleEncode,
   PeerObservationEncode, ReasonEncode, ContributionEncode, ConflictRecordEncode,
   ArtifactEncode, AuthorityLeaseEncode}

\* What an encode writes, one call of the codec each.
Fields ==
  {f \in [name : Seq(Labels), kind : {"int", "enum", "text", "name", "list"},
          size : Nat \ {0}, limit : Nat, sub : Elements] :
     /\ f.kind = "enum" => f.limit = 1
     /\ f.kind = "name" => f.limit # 0}

\* Every call of the codec but list writes such a field, whatever the name.
PrimitiveCalls ==
  \A n \in Labels :
    /\ U16(n) \in Fields /\ U32(n) \in Fields /\ U64(n) \in Fields
    /\ Id(n) \in Fields /\ Hash(n) \in Fields
    /\ Bool(n) \in Fields /\ Enum8(n) \in Fields /\ Enum16(n) \in Fields
    /\ Name(n) \in Fields /\ Named(n) \in Fields
    /\ \A max \in Nat : Text(n, max) \in Fields

\* The calls of the codec write fields, and so do those of a nested value.
LEMMA CallsAreFields ==
  ASSUME Limits
  PROVE  /\ PrimitiveCalls
         /\ \A e \in Elements : \A n \in Labels : \A max \in Nat : List(n, max, e) \in Fields
         /\ \A s \in Seq(Fields) : \A m \in Labels : In(m, s) \in Seq(Fields)
<1>0. ASSUME NEW n \in Labels, NEW kind \in {"int", "enum", "text", "name", "list"},
             NEW size \in Nat \ {0}, NEW limit \in Nat, NEW sub \in Elements,
             kind = "enum" => limit = 1, kind = "name" => limit # 0
      PROVE  Field(n, kind, size, limit, sub) \in Fields
  <2>1. <<n>> \in Seq(Labels)
    OBVIOUS
  <2> QED
    BY <1>0, <2>1 DEF Field, Fields
<1>1. PrimitiveCalls
  <2>1. <<>> \in Elements
    BY DEF Elements
  <2>2. kMaxIdentifierLength \in Nat /\ kMaxIdentifierLength # 0
    BY DEF Limits
  <2> QED
    BY <1>0, <2>1, <2>2 DEF PrimitiveCalls, Named, U16, U32, U64, Id, Hash, Name,
         Enum16, Enum8, Bool, Text
<1>2. \A e \in Elements : \A n \in Labels : \A max \in Nat : List(n, max, e) \in Fields
  BY <1>0 DEF List
<1>3. ASSUME NEW s \in Seq(Fields), NEW m \in Labels PROVE In(m, s) \in Seq(Fields)
  <2>1. ASSUME NEW f \in Fields PROVE [f EXCEPT !.name = <<m>> \o @] \in Fields
    <3>1. <<m>> \in Seq(Labels) /\ f.name \in Seq(Labels)
      BY DEF Fields
    <3>2. <<m>> \o f.name \in Seq(Labels)
      BY <3>1, ConcatProperties
    <3> QED
      BY <3>2 DEF Fields
  <2>2. \A i \in DOMAIN s : s[i] \in Fields
    OBVIOUS
  <2>3. In(m, s) \in [1..Len(s) -> Fields]
    BY <2>1, <2>2 DEF In
  <2> QED
    BY <2>3
<1> QED
  BY <1>1, <1>2, <1>3

\* What is written for every type, and for the elements of every collection, is a sequence
\* of fields: one step for each encode of the repository.
LEMMA FormatsAreFields ==
  ASSUME Limits
  PROVE  /\ Elements \subseteq Seq(Fields)
         /\ \A m \in DOMAIN Written : Written[m] \in Seq(Fields)
<1>a. \A n \in Labels : \A max \in Nat :
        /\ List(n, max, Parties) \in Fields
        /\ List(n, max, CapabilityStatementEncode) \in Fields
        /\ List(n, max, CapabilityRequirementEncode) \in Fields
        /\ List(n, max, ScopeGrantEncode) \in Fields
        /\ List(n, max, DelegationTermsEncode) \in Fields
        /\ List(n, max, PolicyRuleEncode) \in Fields
        /\ List(n, max, PeerObservationEncode) \in Fields
        /\ List(n, max, ReasonEncode) \in Fields
        /\ List(n, max, ContributionEncode) \in Fields
        /\ List(n, max, ConflictRecordEncode) \in Fields
        /\ List(n, max, ArtifactEncode) \in Fields
        /\ List(n, max, AuthorityLeaseEncode) \in Fields
  BY CallsAreFields DEF Elements
<1>k. /\ kMaxIdentifierLength \in Nat /\ kMaxShortTextLength \in Nat
      /\ kMaxTextLength \in Nat /\ kMaxExplanationTextLength \in Nat
      /\ kMaxSnapshotChunkBytes \in Nat /\ kMaxMembers \in Nat
      /\ kMaxMembersPerObservation \in Nat /\ kMaxCapabilitiesPerMember \in Nat
      /\ kMaxScopesPerMember \in Nat /\ kMaxScopesPerLease \in Nat
      /\ kMaxDelegationTermsPerMember \in Nat /\ kMaxPolicyRules \in Nat
      /\ kMaxReasonsPerDecision \in Nat /\ kMaxContributionsPerDecision \in Nat
      /\ kMaxConflicts \in Nat /\ kMaxEffectiveGrantsPerDecision \in Nat
      /\ kMaxLeases \in Nat /\ kMaxArtifacts \in Nat
  BY DEF Limits
<1>p. PrimitiveCalls
  BY CallsAreFields
<1>i. \A s \in Seq(Fields) : \A m \in Labels : In(m, s) \in Seq(Fields)
  BY CallsAreFields
<1>0. Parties \in Seq(Fields)
  BY <1>p DEF Labels, Parties, PrimitiveCalls
<1>1. ScopeGrantEncode \in Seq(Fields)
  BY <1>p, <1>k DEF Labels, PrimitiveCalls, ScopeGrantEncode
<1>2. DelegationTermsEncode \in Seq(Fields)
  <2>1. In("grant", ScopeGrantEncode) \in Seq(Fields)
    BY <1>i, <1>1 DEF Labels
  <2> QED
    BY <1>p, <1>k, <2>1 DEF Labels, PrimitiveCalls, DelegationTermsEncode
<1>3. ConflictRecordEncode \in Seq(Fields)
  <2>1. In("grant", ScopeGrantEncode) \in Seq(Fields)
    BY <1>i, <1>1 DEF Labels
  <2> QED
    BY <1>p, <1>k, <1>a, <2>1 DEF Labels, PrimitiveCalls, ConflictRecordEncode
<1>4. CapabilityRequirementEncode \in Seq(Fields)
  BY <1>p, <1>k DEF Labels, PrimitiveCalls, CapabilityRequirementEncode
<1>5. CapabilityStatementEncode \in Seq(Fields)
  BY <1>p, <1>k DEF Labels, PrimitiveCalls, CapabilityStatementEncode
<1>6. MemberConstitutionEncode \in Seq(Fields)
  BY <1>p, <1>k, <1>a DEF Labels, PrimitiveCalls, MemberConstitutionEncode
<1>7. MemberIdentityEncode \in Seq(Fields)
  BY <1>p, <1>k DEF Labels, PrimitiveCalls, MemberIdentityEncode
<1>8. MemberDeclarationEncode \in Seq(Fields)
  <2>1. In("constitution", MemberConstitutionEncode) \in Seq(Fields)
    BY <1>i, <1>6 DEF Labels
  <2> QED
    BY <1>p, <1>k, <2>1 DEF Labels, PrimitiveCalls, MemberDeclarationEncode
<1>9. PolicyRuleEncode \in Seq(Fields)
  <2>1. In("capability", CapabilityRequirementEncode) \in Seq(Fields)
    BY <1>i, <1>4 DEF Labels
  <2> DEFINE first == <<Name("id"), Enum8("kind"), Bool("enabled"), U64("value"), Name("scope")>>
             inner == In("capability", CapabilityRequirementEncode)
             last  == <<List("members", kMaxMembers, Parties),
                        Text("description", kMaxShortTextLength)>>
  <2>2. first \in Seq(Fields)
    BY <1>p DEF Labels, PrimitiveCalls
  <2>3. last \in Seq(Fields)
    BY <1>p, <1>k, <1>a DEF Labels, PrimitiveCalls
  <2>4. PolicyRuleEncode = first \o inner \o last
    BY DEF PolicyRuleEncode
  <2> HIDE DEF first, inner, last
  <2>5. inner \in Seq(Fields)
    BY <2>1 DEF inner
  <2> QED
    BY <2>2, <2>3, <2>4, <2>5
<1>10. FederationPolicyEncode \in Seq(Fields)
  BY <1>p, <1>k, <1>a DEF Labels, PrimitiveCalls, FederationPolicyEncode
<1>11. PeerObservationEncode \in Seq(Fields)
  BY <1>p, <1>k DEF Labels, PrimitiveCalls, PeerObservationEncode
<1>12. MemberObservationEncode \in Seq(Fields)
  BY <1>p, <1>k, <1>a DEF Labels, PrimitiveCalls, MemberObservationEncode
<1>13. AuthorityLeaseEncode \in Seq(Fields)
  <2>1. In("holder", MemberIdentityEncode) \in Seq(Fields)
    BY <1>i, <1>7 DEF Labels
  <2> DEFINE first  == <<Id("id"), Id("federation")>>
             inner  == In("holder", MemberIdentityEncode)
             scopes == List("scopes", kMaxScopesPerLease, ScopeGrantEncode)
             last   == <<scopes, U64("issued_epoch"), U64("not_after_epoch"), U64("issued_at"),
                         U64("not_after"), Id("issuer_node"), U64("issuer_incarnation"),
                         Bool("revoked"), U64("revoked_at"), U16("revoke_reason"),
                         Text("revoke_detail", kMaxShortTextLength)>>
  <2>2. first \in Seq(Fields)
    BY <1>p DEF Labels, PrimitiveCalls
  <2>3. scopes \in Fields
    BY <1>k, <1>a DEF Labels
  <2>4. AuthorityLeaseEncode = first \o inner \o last
    BY DEF AuthorityLeaseEncode
  <2> HIDE DEF scopes
  <2>5. last \in Seq(Fields)
    BY <1>p, <1>k, <2>3 DEF Labels, PrimitiveCalls
  <2> HIDE DEF first, inner, last
  <2>6. inner \in Seq(Fields)
    BY <2>1 DEF inner
  <2> QED
    BY <2>2, <2>4, <2>5, <2>6
<1>14. ReasonEncode \in Seq(Fields)
  BY <1>p, <1>k DEF Labels, PrimitiveCalls, ReasonEncode
<1>15. ContributionEncode \in Seq(Fields)
  BY <1>p, <1>k DEF Labels, PrimitiveCalls, ContributionEncode
<1>16. ExplanationEncode \in Seq(Fields)
  BY <1>p, <1>k, <1>a DEF Labels, PrimitiveCalls, ExplanationEncode
<1>17. AuthorityRequestEncode \in Seq(Fields)
  <2>1. In("actor", MemberIdentityEncode) \in Seq(Fields)
    BY <1>i, <1>7 DEF Labels
  <2>2. In("requested", ScopeGrantEncode) \in Seq(Fields)
    BY <1>i, <1>1 DEF Labels
  <2> QED
    BY <1>p, <1>k, <2>1, <2>2 DEF Labels, PrimitiveCalls, AuthorityRequestEncode
<1>18. AuthorityDecisionEncode \in Seq(Fields)
  <2>1. In("requested", ScopeGrantEncode) \in Seq(Fields)
    BY <1>i, <1>1 DEF Labels
  <2>2. In("actor_declared", MemberIdentityEncode) \in Seq(Fields)
    BY <1>i, <1>7 DEF Labels
  <2>3. In("actor_current", MemberIdentityEncode) \in Seq(Fields)
    BY <1>i, <1>7 DEF Labels
  <2>4. In("explanation", ExplanationEncode) \in Seq(Fields)
    BY <1>i, <1>16 DEF Labels
  <2> QED
    BY <1>p, <1>k, <1>a, <2>1, <2>2, <2>3, <2>4 DEF Labels, PrimitiveCalls,
       AuthorityDecisionEncode
<1>19. ProvenanceEncode \in Seq(Fields)
  BY <1>p, <1>k DEF Labels, PrimitiveCalls, ProvenanceEncode
<1>20. ArtifactEnvelopeEncode \in Seq(Fields)
  <2>1. In("issuer", ProvenanceEncode) \in Seq(Fields)
    BY <1>i, <1>19 DEF Labels
  <2> QED
    BY <1>p, <1>k, <2>1 DEF Labels, PrimitiveCalls, ArtifactEnvelopeEncode
<1>21. FederationGenesisEncode \in Seq(Fields)
  <2>1. In("founder", MemberDeclarationEncode) \in Seq(Fields)
    BY <1>i, <1>8 DEF Labels
  <2>2. In("policy", FederationPolicyEncode) \in Seq(Fields)
    BY <1>i, <1>10 DEF Labels
  <2> QED
    BY <1>p, <1>k, <1>a, <2>1, <2>2 DEF Labels, PrimitiveCalls, FederationGenesisEncode
<1>22. ArtifactBodyEncode \in Seq(Fields)
  <2>1. In("declaration", MemberDeclarationEncode) \in Seq(Fields)
    BY <1>i, <1>8 DEF Labels
  <2>2. In("declared_identity", MemberIdentityEncode) \in Seq(Fields)
    BY <1>i, <1>7 DEF Labels
  <2>3. In("genesis", FederationGenesisEncode) \in Seq(Fields)
    BY <1>i, <1>21 DEF Labels
  <2>4. In("policy", FederationPolicyEncode) \in Seq(Fields)
    BY <1>i, <1>10 DEF Labels
  <2>5. In("lease_holder", MemberIdentityEncode) \in Seq(Fields)
    BY <1>i, <1>7 DEF Labels
  <2> QED
    BY <1>p, <1>k, <1>a, <2>1, <2>2, <2>3, <2>4, <2>5 DEF Labels, PrimitiveCalls,
       ArtifactBodyEncode
<1>23. ArtifactEncode \in Seq(Fields)
  <2>1. In("envelope", ArtifactEnvelopeEncode) \in Seq(Fields)
    BY <1>i, <1>20 DEF Labels
  <2>2. In("body", ArtifactBodyEncode) \in Seq(Fields)
    BY <1>i, <1>22 DEF Labels
  <2> QED
    BY <1>p, <1>k, <2>1, <2>2 DEF Labels, PrimitiveCalls, ArtifactEncode
<1>24. HelloRequestEncode \in Seq(Fields)
  BY <1>p, <1>k DEF Labels, PrimitiveCalls, HelloRequestEncode
<1>25. WelcomeResponseEncode \in Seq(Fields)
  BY <1>p, <1>k DEF Labels, PrimitiveCalls, WelcomeResponseEncode
<1>26. ErrorResponseEncode \in Seq(Fields)
  BY <1>p, <1>k DEF Labels, PrimitiveCalls, ErrorResponseEncode
<1>27. DigestResponseEncode \in Seq(Fields)
  BY <1>p, <1>k DEF Labels, PrimitiveCalls, DigestResponseEncode
<1>28. StateResponseEncode \in Seq(Fields)
  BY <1>p, <1>k DEF Labels, PrimitiveCalls, StateResponseEncode
<1>29. ArtifactResponseEncode \in Seq(Fields)
  BY <1>p, <1>k DEF Labels, PrimitiveCalls, ArtifactResponseEncode
<1>30. LeaseIssueRequestEncode \in Seq(Fields)
  BY <1>p, <1>k, <1>a DEF Labels, PrimitiveCalls, LeaseIssueRequestEncode
<1>31. LeaseResponseEncode \in Seq(Fields)
  <2>1. In("lease", AuthorityLeaseEncode) \in Seq(Fields)
    BY <1>i, <1>13 DEF Labels
  <2> QED
    BY <1>p, <1>k, <2>1 DEF Labels, PrimitiveCalls, LeaseResponseEncode
<1>32. LeaseRevokeRequestEncode \in Seq(Fields)
  BY <1>p, <1>k DEF Labels, PrimitiveCalls, LeaseRevokeRequestEncode
<1>33. TimeAdvanceRequestEncode \in Seq(Fields)
  BY <1>p, <1>k DEF Labels, PrimitiveCalls, TimeAdvanceRequestEncode
<1>34. MemberActionRequestEncode \in Seq(Fields)
  BY <1>p, <1>k DEF Labels, PrimitiveCalls, MemberActionRequestEncode
<1>35. SimpleResponseEncode \in Seq(Fields)
  BY <1>p, <1>k DEF Labels, PrimitiveCalls, SimpleResponseEncode
<1>36. ArtifactListResponseEncode \in Seq(Fields)
  BY <1>p, <1>k, <1>a DEF Labels, PrimitiveCalls, ArtifactListResponseEncode
<1>37. LeaseListResponseEncode \in Seq(Fields)
  BY <1>p, <1>k, <1>a DEF Labels, PrimitiveCalls, LeaseListResponseEncode
<1>38. ProbeResponseEncode \in Seq(Fields)
  BY <1>p, <1>k DEF Labels, PrimitiveCalls, ProbeResponseEncode
<1>39. StatsResponseEncode \in Seq(Fields)
  BY <1>p, <1>k DEF Labels, PrimitiveCalls, StatsResponseEncode
<1>x. Elements \subseteq Seq(Fields)
  <2>1. <<>> \in Seq(Fields)
    OBVIOUS
  <2> QED
    BY <1>0, <2>1, <1>1, <1>2, <1>3, <1>4, <1>5, <1>9, <1>11, <1>13, <1>14, <1>15, <1>23 DEF
       Elements
<1>y. \A m \in DOMAIN Written : Written[m] \in Seq(Fields)
  <2> DEFINE S == Seq(Fields)
  <2> HIDE DEF S
  <2>1. {ScopeGrantEncode, DelegationTermsEncode, ConflictRecordEncode,
         CapabilityRequirementEncode, CapabilityStatementEncode,
         MemberConstitutionEncode, MemberIdentityEncode, MemberDeclarationEncode,
         PolicyRuleEncode, FederationPolicyEncode, PeerObservationEncode,
         MemberObservationEncode, AuthorityLeaseEncode, ReasonEncode,
         ContributionEncode, ExplanationEncode, AuthorityRequestEncode,
         AuthorityDecisionEncode, ProvenanceEncode, ArtifactEnvelopeEncode,
         FederationGenesisEncode, ArtifactBodyEncode, ArtifactEncode,
         HelloRequestEncode, WelcomeResponseEncode, ErrorResponseEncode,
         DigestResponseEncode, StateResponseEncode, ArtifactResponseEncode,
         LeaseIssueRequestEncode, LeaseResponseEncode, LeaseRevokeRequestEncode,
         TimeAdvanceRequestEncode, MemberActionRequestEncode, SimpleResponseEncode,
         ArtifactListResponseEncode, LeaseListResponseEncode, ProbeResponseEncode,
         StatsResponseEncode} \subseteq S
    BY <1>1, <1>2, <1>3, <1>4, <1>5, <1>6, <1>7, <1>8, <1>9, <1>10, <1>11, <1>12, <1>13, <1>14,
       <1>15, <1>16, <1>17, <1>18, <1>19, <1>20, <1>21, <1>22, <1>23, <1>24, <1>25, <1>26,
       <1>27, <1>28, <1>29, <1>30, <1>31, <1>32, <1>33, <1>34, <1>35, <1>36, <1>37, <1>38,
       <1>39 DEF S
  <2>2. \A m \in DOMAIN Written : Written[m] \in S
    BY <2>1 DEF Written
  <2> QED
    BY <2>2 DEF S
<1> QED
  BY <1>x, <1>y

\* The decode of each type reads what its encode writes, field by field, in the same order,
\* widths and limits.
LEMMA EncodeMirrorsDecode ==
  \A m \in DOMAIN Written : m \in DOMAIN ReadBack /\ ReadBack[m] = Written[m]
<1>1. ScopeGrantDecode = ScopeGrantEncode
  BY DEF ScopeGrantEncode, ScopeGrantDecode
<1>2. DelegationTermsDecode = DelegationTermsEncode
  BY <1>1 DEF DelegationTermsEncode, DelegationTermsDecode
<1>3. ConflictRecordDecode = ConflictRecordEncode
  BY <1>1 DEF ConflictRecordEncode, ConflictRecordDecode
<1>4. CapabilityRequirementDecode = CapabilityRequirementEncode
  BY DEF CapabilityRequirementEncode, CapabilityRequirementDecode
<1>5. CapabilityStatementDecode = CapabilityStatementEncode
  BY DEF CapabilityStatementEncode, CapabilityStatementDecode
<1>6. MemberConstitutionDecode = MemberConstitutionEncode
  BY <1>1, <1>2, <1>4, <1>5 DEF MemberConstitutionEncode, MemberConstitutionDecode
<1>7. MemberIdentityDecode = MemberIdentityEncode
  BY DEF MemberIdentityEncode, MemberIdentityDecode
<1>8. MemberDeclarationDecode = MemberDeclarationEncode
  BY <1>6 DEF MemberDeclarationEncode, MemberDeclarationDecode
<1>9. PolicyRuleDecode = PolicyRuleEncode
  BY <1>4 DEF PolicyRuleEncode, PolicyRuleDecode
<1>10. FederationPolicyDecode = FederationPolicyEncode
  BY <1>9 DEF FederationPolicyEncode, FederationPolicyDecode
<1>11. PeerObservationDecode = PeerObservationEncode
  BY DEF PeerObservationEncode, PeerObservationDecode
<1>12. MemberObservationDecode = MemberObservationEncode
  BY <1>11 DEF MemberObservationEncode, MemberObservationDecode
<1>13. AuthorityLeaseDecode = AuthorityLeaseEncode
  BY <1>1, <1>7 DEF AuthorityLeaseEncode, AuthorityLeaseDecode
<1>14. ReasonDecode = ReasonEncode
  BY DEF ReasonEncode, ReasonDecode
<1>15. ContributionDecode = ContributionEncode
  BY DEF ContributionEncode, ContributionDecode
<1>16. ExplanationDecode = ExplanationEncode
  BY <1>1, <1>3, <1>14, <1>15 DEF ExplanationEncode, ExplanationDecode
<1>17. AuthorityRequestDecode = AuthorityRequestEncode
  BY <1>1, <1>7 DEF AuthorityRequestEncode, AuthorityRequestDecode
<1>18. AuthorityDecisionDecode = AuthorityDecisionEncode
  BY <1>1, <1>7, <1>16 DEF AuthorityDecisionEncode, AuthorityDecisionDecode
<1>19. ProvenanceDecode = ProvenanceEncode
  BY DEF ProvenanceEncode, ProvenanceDecode
<1>20. ArtifactEnvelopeDecode = ArtifactEnvelopeEncode
  BY <1>19 DEF ArtifactEnvelopeEncode, ArtifactEnvelopeDecode
<1>21. FederationGenesisDecode = FederationGenesisEncode
  BY <1>1, <1>8, <1>10 DEF FederationGenesisEncode, FederationGenesisDecode
<1>22. ArtifactBodyDecode = ArtifactBodyEncode
  BY <1>1, <1>2, <1>7, <1>8, <1>10, <1>11, <1>21 DEF ArtifactBodyEncode, ArtifactBodyDecode
<1>23. ArtifactDecode = ArtifactEncode
  BY <1>20, <1>22 DEF ArtifactEncode, ArtifactDecode
<1>24. HelloRequestDecode = HelloRequestEncode
  BY DEF HelloRequestEncode, HelloRequestDecode
<1>25. WelcomeResponseDecode = WelcomeResponseEncode
  BY DEF WelcomeResponseEncode, WelcomeResponseDecode
<1>26. ErrorResponseDecode = ErrorResponseEncode
  BY DEF ErrorResponseEncode, ErrorResponseDecode
<1>27. DigestResponseDecode = DigestResponseEncode
  BY DEF DigestResponseEncode, DigestResponseDecode
<1>28. StateResponseDecode = StateResponseEncode
  BY DEF StateResponseEncode, StateResponseDecode
<1>29. ArtifactResponseDecode = ArtifactResponseEncode
  BY DEF ArtifactResponseEncode, ArtifactResponseDecode
<1>30. LeaseIssueRequestDecode = LeaseIssueRequestEncode
  BY <1>1 DEF LeaseIssueRequestEncode, LeaseIssueRequestDecode
<1>31. LeaseResponseDecode = LeaseResponseEncode
  BY <1>13 DEF LeaseResponseEncode, LeaseResponseDecode
<1>32. LeaseRevokeRequestDecode = LeaseRevokeRequestEncode
  BY DEF LeaseRevokeRequestEncode, LeaseRevokeRequestDecode
<1>33. TimeAdvanceRequestDecode = TimeAdvanceRequestEncode
  BY DEF TimeAdvanceRequestEncode, TimeAdvanceRequestDecode
<1>34. MemberActionRequestDecode = MemberActionRequestEncode
  BY DEF MemberActionRequestEncode, MemberActionRequestDecode
<1>35. SimpleResponseDecode = SimpleResponseEncode
  BY DEF SimpleResponseEncode, SimpleResponseDecode
<1>36. ArtifactListResponseDecode = ArtifactListResponseEncode
  BY <1>23 DEF ArtifactListResponseEncode, ArtifactListResponseDecode
<1>37. LeaseListResponseDecode = LeaseListResponseEncode
  BY <1>13 DEF LeaseListResponseEncode, LeaseListResponseDecode
<1>38. ProbeResponseDecode = ProbeResponseEncode
  BY DEF ProbeResponseEncode, ProbeResponseDecode
<1>39. StatsResponseDecode = StatsResponseEncode
  BY DEF StatsResponseEncode, StatsResponseDecode
<1> QED
  BY <1>1, <1>2, <1>3, <1>4, <1>5, <1>6, <1>7, <1>8, <1>9, <1>10, <1>11, <1>12, <1>13, <1>14,
     <1>15, <1>16, <1>17, <1>18, <1>19, <1>20, <1>21, <1>22, <1>23, <1>24, <1>25, <1>26,
     <1>27, <1>28, <1>29, <1>30, <1>31, <1>32, <1>33, <1>34, <1>35, <1>36, <1>37, <1>38,
     <1>39 DEF Written, ReadBack

\* A nonempty set of naturals has a least element.
LEMMA NatMinimum ==
  ASSUME NEW S \in SUBSET Nat, S # {}
  PROVE  \E n \in S : \A m \in S : n <= m
<1> DEFINE Below == {0..n : n \in S}
<1>1. \A n \in Nat : 0..n \in FiniteSubsetsOf(Nat)
  BY FS_Interval DEF FiniteSubsetsOf
<1>2. Below \subseteq FiniteSubsetsOf(Nat) /\ Below # {}
  BY <1>1
<1>3. IsWellFoundedOn(StrictSubsetOrdering(Nat), FiniteSubsetsOf(Nat))
  BY FS_StrictSubsetOrderingWellFounded
<1>4. \E x \in Below : \A y \in Below : <<y, x>> \notin StrictSubsetOrdering(Nat)
  <2> HIDE DEF Below
  <2> QED
    BY <1>2, <1>3, WFMin
<1>5. PICK n \in S : \A m \in S : <<0..m, 0..n>> \notin StrictSubsetOrdering(Nat)
  BY <1>4
<1>6. ASSUME NEW m \in S, m < n PROVE FALSE
  <2>1. 0..m \subseteq 0..n /\ 0..m # 0..n
    BY <1>6
  <2>2. 0..m \in SUBSET Nat /\ 0..n \in SUBSET Nat
    OBVIOUS
  <2> QED
    BY <1>5, <2>1, <2>2 DEF StrictSubsetOrdering
<1> QED
  BY <1>6

\* Induction up to n, with a set in place of a predicate.
LEMMA BoundedInduction ==
  ASSUME NEW n \in Nat, NEW S, 0 \in S, \A i \in 1..n : i - 1 \in S => i \in S
  PROVE  0..n \subseteq S
<1> SUFFICES ASSUME (0..n) \ S # {} PROVE FALSE
  OBVIOUS
<1>1. PICK k \in (0..n) \ S : \A m \in (0..n) \ S : k <= m
  <2>1. (0..n) \ S \in SUBSET Nat
    OBVIOUS
  <2> QED
    BY <2>1, NatMinimum
<1>2. k # 0 /\ k \in 1..n /\ k - 1 \in 0..n
  BY <1>1
<1>3. k - 1 \in S
  BY <1>1, <1>2
<1> QED
  BY <1>1, <1>2, <1>3

\* Over 0..n there is a function that begins with c and goes on as the function G says.
Solvable(X, c, n, G) ==
  \E f \in [0..n -> X] : f[0] = c /\ \A i \in 1..n : f[i] = G[<<f[i - 1], i>>]

\* There is one if G stays among the values X.
LEMMA RecursionExists ==
  ASSUME NEW X, NEW c \in X, NEW n \in Nat, NEW G,
         \A x \in X : \A i \in 1..n : G[<<x, i>>] \in X
  PROVE  Solvable(X, c, n, G)
<1> DEFINE Upto(f, k) == f \in [0..k -> X] /\ f[0] = c /\ \A i \in 1..k : f[i] = G[<<f[i - 1], i>>]
           S == {k \in 0..n : \E f : Upto(f, k)}
<1>1. 0 \in S
  <2>1. Upto([i \in 0..0 |-> c], 0)
    OBVIOUS
  <2> HIDE DEF Upto
  <2> QED
    BY <2>1
<1>2. ASSUME NEW k \in 1..n, k - 1 \in S PROVE k \in S
  <2>1. PICK f : Upto(f, k - 1)
    BY <1>2
  <2> DEFINE g == [i \in 0..k |-> IF i = k THEN G[<<f[k - 1], k>>] ELSE f[i]]
  <2>2. f[k - 1] \in X
    BY <2>1
  <2>3. G[<<f[k - 1], k>>] \in X
    BY <2>2
  <2>4. g \in [0..k -> X]
    BY <2>1, <2>3
  <2>5. \A i \in 0..k : g[i] = IF i = k THEN G[<<f[k - 1], k>>] ELSE f[i]
    OBVIOUS
  <2> HIDE DEF g
  <2>6. g[0] = c
    BY <2>1, <2>5
  <2>7. ASSUME NEW i \in 1..k PROVE g[i] = G[<<g[i - 1], i>>]
    <3>1. g[i - 1] = f[i - 1]
      BY <2>5
    <3>2. i # k => g[i] = f[i] /\ f[i] = G[<<f[i - 1], i>>]
      BY <2>1, <2>5
    <3> QED
      BY <2>5, <3>1, <3>2
  <2>8. Upto(g, k)
    BY <2>4, <2>6, <2>7
  <2> HIDE DEF Upto
  <2> QED
    BY <2>8
<1>3. n \in S
  <2> HIDE DEF S
  <2> QED
    BY <1>1, <1>2, BoundedInduction
<1> QED
  BY <1>3 DEF Solvable

\* What SizeOf adds up.
LEMMA SizeIsNatural ==
  ASSUME NEW s \in Seq(Fields)
  PROVE  SizeOf(s) \in Nat
<1> DEFINE n == Len(s)
           Sum(g) == g = [i \in 0..Len(s) |-> IF i = 0 THEN 0 ELSE g[i - 1] + s[i].size]
           sum == CHOOSE g : Sum(g)
           G == [p \in Nat \X (1..n) |-> p[1] + s[p[2]].size]
<1>0. n \in Nat /\ \A i \in 1..n : s[i].size \in Nat
  BY DEF Fields
<1>1. SizeOf(s) = sum[n]
  BY DEF SizeOf
<1>3. \A k \in Nat : \A i \in 1..n : G[<<k, i>>] = k + s[i].size
  OBVIOUS
<1> HIDE DEF G
<1>2. \A x \in Nat : \A i \in 1..n : G[<<x, i>>] \in Nat
  <2> SUFFICES ASSUME NEW x \in Nat, NEW i \in 1..n PROVE x + s[i].size \in Nat
    BY <1>3
  <2> QED
    BY <1>0
<1>4. PICK f \in [0..n -> Nat] : f[0] = 0 /\ \A i \in 1..n : f[i] = G[<<f[i - 1], i>>]
  <2> HIDE DEF n
  <2>1. 0 \in Nat
    OBVIOUS
  <2>2. Solvable(Nat, 0, n, G)
    BY <1>0, <1>2, <2>1, RecursionExists
  <2> QED
    BY <2>2 DEF Solvable
<1>5. ASSUME NEW i \in 1..n PROVE f[i] = f[i - 1] + s[i].size
  <2>1. f[i - 1] \in Nat
    BY <1>0, <1>4
  <2> QED
    BY <1>3, <1>4, <2>1
<1>6. Sum(f)
  BY <1>0, <1>4, <1>5
<1>7. Sum(sum)
  <2> HIDE DEF Sum
  <2> QED
    BY <1>6
<1>8. sum[0] = 0 /\ \A i \in 1..n : sum[i] = sum[i - 1] + s[i].size
  <2> HIDE DEF sum
  <2> QED
    BY <1>0, <1>7
<1> DEFINE S == {i \in 0..n : sum[i] \in Nat}
<1> HIDE DEF sum, Sum
<1>9. 0 \in S /\ \A i \in 1..n : i - 1 \in S => i \in S
  <2>1. 0 \in S
    BY <1>0, <1>8
  <2>2. ASSUME NEW i \in 1..n, i - 1 \in S PROVE i \in S
    <3>1. sum[i - 1] \in Nat /\ s[i].size \in Nat
      BY <1>0, <2>2
    <3>2. sum[i] = sum[i - 1] + s[i].size
      BY <1>8, <2>2
    <3>3. sum[i] \in Nat
      <4> HIDE DEF S, n
      <4> QED
        BY <3>1, <3>2
    <3>4. i \in 0..n
      <4> HIDE DEF S
      <4>1. \A m \in Nat : \A j \in 1..m : j \in 0..m
        OBVIOUS
      <4> QED
        BY <1>0, <2>2, <4>1
    <3> QED
      BY <3>3, <3>4
  <2> QED
    BY <2>1, <2>2
<1>10. n \in S
  <2> HIDE DEF S, n
  <2>1. 0..n \subseteq S
    BY <1>0, <1>9, BoundedInduction
  <2> QED
    BY <1>0, <2>1
<1> QED
  BY <1>1, <1>10

--------------------------------------------------------------------------------
\* A value that a field of the program may have.
Holds(f, v) == v \in Nat /\ (f.kind = "enum" => v <= f.limit) /\ (f.kind = "name" => v # 0)

\* What the proofs need to know of a field.
LEMMA FieldIs ==
  ASSUME Limits, NEW f \in Fields
  PROVE  /\ f.size \in Nat /\ f.size > 0 /\ f.limit \in Nat
         /\ f.kind \in {"int", "enum", "text", "name", "list"}
         /\ f.kind = "enum" => f.limit = 1
         /\ f.kind = "name" => f.limit # 0
         /\ f.sub \in Seq(Fields)
<1>1. f.sub \in Elements /\ f.size \in Nat \ {0}
  BY DEF Fields
<1>2. f.sub \in Seq(Fields)
  BY <1>1, FormatsAreFields
<1> QED
  BY <1>1, <1>2 DEF Fields

\* One sequence behind another.
LEMMA JoinIs ==
  ASSUME NEW a \in Seq(Nat), NEW b \in Seq(Nat)
  PROVE  /\ a \o b \in Seq(Nat)
         /\ Len(a) \in Nat /\ Len(b) \in Nat /\ Len(a \o b) = Len(a) + Len(b)
         /\ \A k \in 1..Len(a) : (a \o b)[k] = a[k]
         /\ Len(b) > 0 => (a \o b)[Len(a) + 1] = b[1]
<1> DEFINE c == a \o b
<1>1. Len(a) \in Nat /\ Len(b) \in Nat
  OBVIOUS
<1>2. /\ c \in Seq(Nat)
      /\ Len(c) = Len(a) + Len(b)
      /\ \A k \in 1..Len(a) + Len(b) : c[k] = IF k <= Len(a) THEN a[k] ELSE b[k - Len(a)]
  BY ConcatProperties
<1> HIDE DEF c
<1>3. \A k \in 1..Len(a) : c[k] = a[k]
  BY <1>1, <1>2
<1>4. ASSUME Len(b) > 0 PROVE c[Len(a) + 1] = b[1]
  <2>1. Len(a) + 1 \in 1..Len(a) + Len(b) /\ ~(Len(a) + 1 <= Len(a)) /\ Len(a) + 1 - Len(a) = 1
    BY <1>1, <1>4
  <2> QED
    BY <1>2, <2>1
<1> QED
  BY <1>1, <1>2, <1>3, <1>4 DEF c

\* What the content of a field takes.
LEMMA ContentIsNatural ==
  ASSUME Limits, NEW f \in Fields, NEW v \in Nat
  PROVE  Content(f, v) \in Nat
<1>1. f.sub \in Seq(Fields)
  BY FieldIs
<1>2. SizeOf(f.sub) \in Nat
  BY <1>1, SizeIsNatural
<1>3. v * SizeOf(f.sub) \in Nat
  BY <1>2
<1> QED
  BY <1>3 DEF Content

\* What Put writes: the value, then as many cells as field and content take.
LEMMA PutIs ==
  ASSUME Limits, NEW f \in Fields, NEW v \in Nat
  PROVE  /\ Put(f, v) \in Seq(Nat)
         /\ Len(Put(f, v)) = f.size + Content(f, v)
         /\ Put(f, v)[1] = v
<1> DEFINE z == Zeros(f.size - 1)
           y == Zeros(Content(f, v))
           a == <<v>> \o z
<1>1. f.size \in Nat /\ f.size - 1 \in Nat /\ Content(f, v) \in Nat
  BY FieldIs, ContentIsNatural
<1>2. /\ z \in Seq(Nat) /\ Len(z) = f.size - 1
      /\ y \in Seq(Nat) /\ Len(y) = Content(f, v)
  BY <1>1 DEF Zeros
<1>3. <<v>> \in Seq(Nat) /\ Len(<<v>>) = 1 /\ <<v>>[1] = v
  OBVIOUS
<1>4. Put(f, v) = a \o y
  BY DEF Put
<1> HIDE DEF z, y
<1>5. a \in Seq(Nat) /\ Len(a) = 1 + Len(z) /\ a[1] = <<v>>[1]
  <2>1. 1 \in 1..Len(<<v>>)
    BY <1>3
  <2> QED
    BY <1>2, <1>3, <2>1, JoinIs
<1> HIDE DEF a
<1>6. Len(a) = f.size /\ 1 \in 1..Len(a)
  BY <1>1, <1>2, <1>5
<1>7. a \o y \in Seq(Nat) /\ Len(a \o y) = Len(a) + Len(y) /\ (a \o y)[1] = a[1]
  BY <1>2, <1>5, <1>6, JoinIs
<1> QED
  BY <1>2, <1>3, <1>4, <1>5, <1>6, <1>7

\* The payload after each field.
WritesInto(w, F, v) ==
  /\ w \in [0..Len(F) -> Seq(Nat)] /\ w[0] = <<>>
  /\ \A i \in 1..Len(F) : w[i] = w[i - 1] \o Put(F[i], v[i])

\* The writer writes field after field.
LEMMA EncodingIsWritten ==
  ASSUME Limits, NEW F \in Seq(Fields), NEW v, \A i \in 1..Len(F) : v[i] \in Nat
  PROVE  \E w : WritesInto(w, F, v) /\ Encoding(F, v) = w[Len(F)]
<1> DEFINE n == Len(F)
           X == Seq(Nat)
           Fn(g) == g = [i \in 0..Len(F) |->
                           IF i = 0 THEN <<>> ELSE g[i - 1] \o Put(F[i], v[i])]
           w == CHOOSE g : Fn(g)
           G == [p \in X \X (1..n) |-> p[1] \o Put(F[p[2]], v[p[2]])]
<1>0. n \in Nat
  OBVIOUS
<1>1. Encoding(F, v) = w[n]
  BY DEF Encoding
<1>2. \A x \in X : \A i \in 1..n : G[<<x, i>>] = x \o Put(F[i], v[i])
  OBVIOUS
<1> HIDE DEF G
<1>3. ASSUME NEW x \in X, NEW i \in 1..n PROVE x \o Put(F[i], v[i]) \in X
  <2>1. F[i] \in Fields /\ v[i] \in Nat
    OBVIOUS
  <2>2. Put(F[i], v[i]) \in Seq(Nat)
    BY <2>1, PutIs
  <2> QED
    BY <2>2
<1>4. <<>> \in X
  OBVIOUS
<1> HIDE DEF X
<1>5. \A x \in X : \A i \in 1..n : G[<<x, i>>] \in X
  BY <1>2, <1>3
<1>6. PICK f \in [0..n -> X] : f[0] = <<>> /\ \A i \in 1..n : f[i] = G[<<f[i - 1], i>>]
  <2> HIDE DEF n
  <2>1. Solvable(X, <<>>, n, G)
    BY <1>0, <1>4, <1>5, RecursionExists
  <2> QED
    BY <2>1 DEF Solvable
<1>7. ASSUME NEW i \in 1..n PROVE f[i] = f[i - 1] \o Put(F[i], v[i])
  <2>1. f[i - 1] \in X
    BY <1>0, <1>6
  <2> QED
    BY <1>2, <1>6, <2>1
<1>8. Fn(f)
  BY <1>0, <1>6, <1>7
<1>9. Fn(w)
  <2> HIDE DEF Fn
  <2> QED
    BY <1>8
<1>10. /\ w = [i \in 0..n |-> w[i]] /\ w[0] = <<>>
       /\ \A i \in 1..n : w[i] = w[i - 1] \o Put(F[i], v[i])
  <2> HIDE DEF w
  <2> QED
    BY <1>0, <1>9
<1> DEFINE S == {i \in 0..n : w[i] \in X}
<1> HIDE DEF w, Fn
<1>11. 0 \in S /\ \A i \in 1..n : i - 1 \in S => i \in S
  <2>1. 0 \in S
    BY <1>0, <1>4, <1>10
  <2>2. ASSUME NEW i \in 1..n, i - 1 \in S PROVE i \in S
    <3>1. w[i - 1] \in X /\ i \in 0..n
      BY <1>0, <2>2
    <3>2. w[i - 1] \o Put(F[i], v[i]) \in X
      BY <1>3, <3>1
    <3> QED
      BY <1>10, <3>1, <3>2
  <2> QED
    BY <2>1, <2>2
<1>12. 0..n \subseteq S
  <2> HIDE DEF S, n
  <2> QED
    BY <1>0, <1>11, BoundedInduction
<1>13. w \in [0..n -> X]
  BY <1>10, <1>12
<1>14. WritesInto(w, F, v)
  BY <1>10, <1>13 DEF WritesInto, X
<1> QED
  BY <1>1, <1>14

\* w grows by the pieces p.
Pieces(w, p, n) ==
  /\ \A i \in 0..n : w[i] \in Seq(Nat)
  /\ \A i \in 1..n : p[i] \in Seq(Nat) /\ Len(p[i]) > 0
  /\ \A i \in 1..n : w[i] = w[i - 1] \o p[i]

\* What was written stays, and each piece is where it began.
LEMMA PiecesStay ==
  ASSUME NEW n \in Nat, NEW w, NEW p, Pieces(w, p, n)
  PROVE  \A i \in 1..n :
           /\ Len(w[i]) = Len(w[i - 1]) + Len(p[i])
           /\ Len(w[i]) <= Len(w[n])
           /\ w[n][Len(w[i - 1]) + 1] = p[i][1]
<1> DEFINE l(i) == Len(w[i])
           d(i) == Len(p[i])
           At(i, k) == w[i][k]
<1>1. ASSUME NEW j \in 1..n
      PROVE  /\ l(j - 1) \in Nat /\ l(j) \in Nat /\ d(j) \in Nat /\ d(j) > 0
             /\ l(j) = l(j - 1) + d(j)
             /\ \A k \in 1..l(j - 1) : At(j, k) = At(j - 1, k)
             /\ At(j, l(j - 1) + 1) = p[j][1]
  <2>1. j - 1 \in 0..n /\ j \in 0..n
    OBVIOUS
  <2>2. w[j - 1] \in Seq(Nat) /\ p[j] \in Seq(Nat) /\ Len(p[j]) > 0 /\ w[j] = w[j - 1] \o p[j]
    BY <2>1 DEF Pieces
  <2> DEFINE a == w[j - 1]
             b == p[j]
             c == w[j]
  <2>3. a \in Seq(Nat) /\ b \in Seq(Nat) /\ Len(b) > 0 /\ c = a \o b
    BY <2>2
  <2> HIDE DEF a, b, c
  <2>4. /\ Len(a) \in Nat /\ Len(b) \in Nat /\ Len(c) = Len(a) + Len(b) /\ Len(c) \in Nat
        /\ \A k \in 1..Len(a) : c[k] = a[k]
        /\ c[Len(a) + 1] = b[1]
    BY <2>3, JoinIs
  <2> QED
    BY <2>3, <2>4 DEF a, b, c
<1> HIDE DEF l, d, At
<1> DEFINE Kept(i, j) == l(i) <= l(j) /\ At(j, l(i - 1) + 1) = p[i][1]
           S == {j \in 0..n : \A i \in 1..j : Kept(i, j)}
<1>2. 0 \in S
  OBVIOUS
<1>3. ASSUME NEW j \in 1..n, j - 1 \in S PROVE j \in S
  <2> SUFFICES ASSUME NEW i \in 1..j PROVE Kept(i, j)
    OBVIOUS
  <2>1. CASE i = j
    <3>1. l(j) \in Nat
      BY <1>1
    <3> QED
      BY <1>1, <2>1, <3>1
  <2>2. CASE i # j
    <3>1. i \in 1..(j - 1) /\ i \in 1..n
      BY <2>2
    <3>2. l(i) <= l(j - 1) /\ At(j - 1, l(i - 1) + 1) = p[i][1]
      BY <1>3, <3>1
    <3>3. l(i - 1) \in Nat /\ l(i) \in Nat /\ d(i) \in Nat /\ d(i) > 0 /\ l(i) = l(i - 1) + d(i)
      BY <1>1, <3>1
    <3>4. /\ l(j - 1) \in Nat /\ l(j) \in Nat /\ d(j) \in Nat /\ l(j) = l(j - 1) + d(j)
          /\ \A k \in 1..l(j - 1) : At(j, k) = At(j - 1, k)
      BY <1>1
    <3>5. l(i - 1) + 1 \in 1..l(j - 1) /\ l(i) <= l(j)
      BY <3>2, <3>3, <3>4
    <3> QED
      BY <3>2, <3>4, <3>5
  <2> QED
    BY <2>1, <2>2
<1>4. n \in S
  <2> HIDE DEF S
  <2>1. 0..n \subseteq S
    BY <1>2, <1>3, BoundedInduction
  <2> QED
    BY <2>1
<1>5. \A i \in 1..n : l(i) = l(i - 1) + d(i) /\ Kept(i, n)
  BY <1>1, <1>4
<1> QED
  BY <1>5 DEF l, d, At

\* The value of each field is where the field begins.
LEMMA WrittenStays ==
  ASSUME Limits, NEW F \in Seq(Fields), NEW v, \A i \in 1..Len(F) : v[i] \in Nat,
         NEW w, WritesInto(w, F, v)
  PROVE  \A i \in 1..Len(F) :
           /\ Len(w[i - 1]) \in Nat
           /\ Len(w[i]) = Len(w[i - 1]) + F[i].size + Content(F[i], v[i])
           /\ Len(w[i]) <= Len(w[Len(F)])
           /\ w[Len(F)][Len(w[i - 1]) + 1] = v[i]
<1> DEFINE n == Len(F)
           p == [i \in 1..n |-> Put(F[i], v[i])]
<1>0. n \in Nat
  OBVIOUS
<1>1. \A i \in 0..n : w[i] \in Seq(Nat)
  BY DEF WritesInto
<1>2. ASSUME NEW i \in 1..n
      PROVE  /\ F[i].size \in Nat /\ F[i].size > 0 /\ Content(F[i], v[i]) \in Nat
             /\ p[i] \in Seq(Nat) /\ Len(p[i]) = F[i].size + Content(F[i], v[i])
             /\ p[i][1] = v[i]
  <2>1. F[i] \in Fields /\ v[i] \in Nat
    OBVIOUS
  <2> QED
    BY <2>1, FieldIs, ContentIsNatural, PutIs
<1>3. \A i \in 1..n : w[i] = w[i - 1] \o p[i]
  BY DEF WritesInto
<1> HIDE DEF p, n
<1>4. Pieces(w, p, n)
  <2>1. \A i \in 1..n : Len(p[i]) > 0
    BY <1>2
  <2> QED
    BY <1>1, <1>2, <1>3, <2>1 DEF Pieces
<1>5. \A i \in 1..n :
        /\ Len(w[i]) = Len(w[i - 1]) + Len(p[i])
        /\ Len(w[i]) <= Len(w[n])
        /\ w[n][Len(w[i - 1]) + 1] = p[i][1]
  BY <1>0, <1>4, PiecesStay
<1>6. ASSUME NEW i \in 1..n
      PROVE  Len(w[i - 1]) \in Nat
  BY <1>0, <1>1
<1>7. ASSUME NEW i \in 1..n
      PROVE  Len(w[i]) = Len(w[i - 1]) + F[i].size + Content(F[i], v[i])
  <2> DEFINE a == Len(w[i])
             b == Len(w[i - 1])
             c == Content(F[i], v[i])
  <2>1. a = b + Len(p[i]) /\ Len(p[i]) = F[i].size + c
    BY <1>2, <1>5
  <2>2. b \in Nat /\ F[i].size \in Nat /\ c \in Nat
    BY <1>2, <1>6
  <2> HIDE DEF a, b, c
  <2>3. a = b + F[i].size + c
    BY <2>1, <2>2
  <2> QED
    BY <2>3 DEF a, b, c
<1> QED
  BY <1>2, <1>5, <1>6, <1>7 DEF n
--------------------------------------------------------------------------------
\* What a reader has: the fields so far and how far it is.
Results(F) ==
  [ok : BOOLEAN, at : Nat, out : Seq({<<F[i].name, c>> : i \in 1..Len(F), c \in Nat})]

\* Take accepts a field: it is there, within its bounds, and so is its content.
Accepts(x, f, cells) ==
  LET u == cells[x.at + 1]
  IN  /\ x.ok /\ x.at + f.size <= Len(cells)
      /\ f.kind # "int" => u <= f.limit
      /\ f.kind = "name" => u > 0
      /\ x.at + f.size + Content(f, u) <= Len(cells)

\* Take, by what it accepts.
LEMMA TakeIs ==
  ASSUME NEW x, NEW f, NEW cells
  PROVE  Take(x, f, cells) =
           IF Accepts(x, f, cells)
           THEN [ok  |-> TRUE, at |-> x.at + f.size + Content(f, cells[x.at + 1]),
                 out |-> Append(x.out, <<f.name, cells[x.at + 1]>>)]
           ELSE [ok |-> FALSE, at |-> x.at, out |-> <<>>]
  BY DEF Take, Accepts

\* The reader stays a reader.
LEMMA TakeGivesResult ==
  ASSUME Limits, NEW F \in Seq(Fields), NEW i \in 1..Len(F), NEW cells \in Seq(Nat),
         NEW x \in Results(F)
  PROVE  Take(x, F[i], cells) \in Results(F)
<1> DEFINE f == F[i]
           u == cells[x.at + 1]
           O == {<<F[j].name, c>> : j \in 1..Len(F), c \in Nat}
<1>1. x.at \in Nat /\ x.out \in Seq(O) /\ x.ok \in BOOLEAN
  BY DEF Results
<1>2. f.size \in Nat /\ f.size > 0 /\ f \in Fields
  <2>1. f \in Fields
    OBVIOUS
  <2> QED
    BY <2>1, FieldIs
<1>3. CASE Accepts(x, f, cells)
  <2>1. x.at + f.size <= Len(cells)
    BY <1>3 DEF Accepts
  <2>2. x.at + 1 \in 1..Len(cells)
    <3>1. Len(cells) \in Nat
      OBVIOUS
    <3> HIDE DEF f
    <3> QED
      BY <1>1, <1>2, <2>1, <3>1
  <2>3. u \in Nat
    BY <2>2
  <2> HIDE DEF u
  <2>4. Content(f, u) \in Nat
    BY <1>2, <2>3, ContentIsNatural
  <2>5. <<f.name, u>> \in O
    BY <2>3
  <2> HIDE DEF f, O
  <2>6. Append(x.out, <<f.name, u>>) \in Seq(O)
    BY <1>1, <2>5
  <2>7. x.at + f.size + Content(f, u) \in Nat
    BY <1>1, <1>2, <2>4
  <2>8. Take(x, f, cells) = [ok |-> TRUE, at |-> x.at + f.size + Content(f, u),
                               out |-> Append(x.out, <<f.name, u>>)]
    BY <1>3, TakeIs DEF u
  <2> QED
    BY <2>6, <2>7, <2>8 DEF Results, O, f
<1>4. CASE ~Accepts(x, f, cells)
  <2>1. Take(x, f, cells) = [ok |-> FALSE, at |-> x.at, out |-> <<>>]
    BY <1>4, TakeIs
  <2> HIDE DEF f, u
  <2>2. <<>> \in Seq(O)
    OBVIOUS
  <2> HIDE DEF O
  <2> QED
    BY <1>1, <2>1, <2>2 DEF Results, O, f
<1> QED
  BY <1>3, <1>4

\* The reader after each field.
Reads(r, F, cells) ==
  /\ r \in [0..Len(F) -> Results(F)] /\ r[0] = [ok |-> TRUE, at |-> 0, out |-> <<>>]
  /\ \A i \in 1..Len(F) : r[i] = Take(r[i - 1], F[i], cells)

\* The reader reads field after field.
LEMMA ReadingIsTaken ==
  ASSUME Limits, NEW F \in Seq(Fields), NEW cells \in Seq(Nat)
  PROVE  \E r : Reads(r, F, cells) /\ Reading(F, cells) = r[Len(F)]
<1> DEFINE n == Len(F)
           X == Results(F)
           c == [ok |-> TRUE, at |-> 0, out |-> <<>>]
           Fn(g) == g = [i \in 0..Len(F) |->
                           IF i = 0 THEN [ok |-> TRUE, at |-> 0, out |-> <<>>]
                           ELSE Take(g[i - 1], F[i], cells)]
           r == CHOOSE g : Fn(g)
           G == [p \in X \X (1..n) |-> Take(p[1], F[p[2]], cells)]
<1>0. n \in Nat
  OBVIOUS
<1>1. Reading(F, cells) = r[n]
  BY DEF Reading
<1>2. \A x \in X : \A i \in 1..n : G[<<x, i>>] = Take(x, F[i], cells)
  OBVIOUS
<1>3. \A x \in X : \A i \in 1..n : Take(x, F[i], cells) \in X
  BY TakeGivesResult
<1>4. c \in X
  BY DEF Results
<1> HIDE DEF G, X
<1>5. \A x \in X : \A i \in 1..n : G[<<x, i>>] \in X
  BY <1>2, <1>3
<1>6. PICK f \in [0..n -> X] : f[0] = c /\ \A i \in 1..n : f[i] = G[<<f[i - 1], i>>]
  <2> HIDE DEF n, c
  <2>1. Solvable(X, c, n, G)
    BY <1>0, <1>4, <1>5, RecursionExists
  <2> QED
    BY <2>1 DEF Solvable
<1>7. ASSUME NEW i \in 1..n PROVE f[i] = Take(f[i - 1], F[i], cells)
  <2>1. f[i - 1] \in X
    BY <1>0, <1>6
  <2> QED
    BY <1>2, <1>6, <2>1
<1>8. Fn(f)
  BY <1>0, <1>6, <1>7
<1>9. Fn(r)
  <2> HIDE DEF Fn
  <2> QED
    BY <1>8
<1>10. /\ r = [i \in 0..n |-> r[i]] /\ r[0] = c
       /\ \A i \in 1..n : r[i] = Take(r[i - 1], F[i], cells)
  <2> HIDE DEF r
  <2>1. r = [i \in 0..n |-> IF i = 0 THEN c ELSE Take(r[i - 1], F[i], cells)]
    BY <1>9
  <2> HIDE DEF Fn, c
  <2>2. DOMAIN r = 0..n /\ \A i \in 0..n : r[i] = IF i = 0 THEN c ELSE Take(r[i - 1], F[i], cells)
    BY <2>1
  <2>3. r = [i \in 0..n |-> r[i]]
    BY <2>1
  <2>4. r[0] = c
    BY <1>0, <2>2
  <2>5. ASSUME NEW i \in 1..n PROVE r[i] = Take(r[i - 1], F[i], cells)
    <3>1. i \in 0..n /\ i # 0
      BY <1>0
    <3> QED
      BY <2>2, <3>1
  <2> QED
    BY <2>3, <2>4, <2>5
<1> DEFINE S == {i \in 0..n : r[i] \in X}
<1> HIDE DEF r, Fn, c
<1>11. 0 \in S /\ \A i \in 1..n : i - 1 \in S => i \in S
  <2>1. 0 \in S
    BY <1>0, <1>4, <1>10
  <2>2. ASSUME NEW i \in 1..n, i - 1 \in S PROVE i \in S
    <3>1. r[i - 1] \in X /\ i \in 0..n
      BY <1>0, <2>2
    <3>2. Take(r[i - 1], F[i], cells) \in X
      BY <1>3, <3>1
    <3> QED
      BY <1>10, <3>1, <3>2
  <2> QED
    BY <2>1, <2>2
<1>12. 0..n \subseteq S
  <2> HIDE DEF S, n
  <2> QED
    BY <1>0, <1>11, BoundedInduction
<1>13. r \in [0..n -> X]
  BY <1>10, <1>12
<1>14. Reads(r, F, cells)
  BY <1>10, <1>13 DEF Reads, X, c
<1> QED
  BY <1>1, <1>14

\* A field that was written at a is accepted there only as what it is, and is accepted if it
\* was within its bounds and has arrived.
LEMMA OneField ==
  ASSUME Limits, NEW f \in Fields, NEW u, Holds(f, u), NEW a \in Nat,
         NEW cells \in Seq(Nat), a + 1 <= Len(cells) => cells[a + 1] = u,
         NEW x, x.ok => x.at = a, NEW b, b = a + f.size + Content(f, u)
  PROVE  LET y == Take(x, f, cells)
         IN  /\ y.ok => x.ok /\ y.at = b /\ y.out = Append(x.out, <<f.name, u>>)
             /\ x.ok /\ Writes(f, u) /\ b <= Len(cells) => y.ok
<1> DEFINE y == Take(x, f, cells)
           m == Content(f, u)
<1>0. u \in Nat /\ Len(cells) \in Nat
  BY DEF Holds
<1>1. f.size \in Nat /\ f.size > 0 /\ f.limit \in Nat /\ m \in Nat
  BY <1>0, FieldIs, ContentIsNatural
<1>2. ASSUME y.ok PROVE x.ok /\ y.at = b /\ y.out = Append(x.out, <<f.name, u>>)
  <2>1. Accepts(x, f, cells)
    BY <1>2, TakeIs
  <2>2. x.ok /\ x.at = a /\ a + f.size <= Len(cells)
    BY <2>1 DEF Accepts
  <2>3. a + 1 <= Len(cells)
    BY <1>0, <1>1, <2>2
  <2>4. cells[x.at + 1] = u
    BY <2>2, <2>3
  <2> QED
    BY <2>1, <2>2, <2>4, TakeIs
<1>3. ASSUME x.ok, Writes(f, u), b <= Len(cells) PROVE y.ok
  <2> DEFINE s == f.size
  <2>1. x.at = a /\ a + s + m <= Len(cells)
    BY <1>3
  <2>2. s \in Nat /\ s > 0 /\ m \in Nat
    BY <1>1
  <2> HIDE DEF s, m
  <2>3. a + s <= Len(cells) /\ a + 1 <= Len(cells)
    BY <1>0, <2>1, <2>2
  <2>4. cells[x.at + 1] = u
    BY <2>1, <2>3
  <2>5. (f.kind # "int" => u <= f.limit) /\ (f.kind = "name" => u > 0)
    <3>1. f.kind \in {"int", "enum", "text", "name", "list"}
      BY FieldIs
    <3> QED
      BY <1>0, <1>3, <3>1 DEF Holds, Writes
  <2>6. Accepts(x, f, cells)
    BY <1>3, <2>1, <2>3, <2>4, <2>5 DEF Accepts, m, s
  <2> QED
    BY <2>6, TakeIs
<1> QED
  BY <1>2, <1>3

\* The fields of F have the values v.
Valued(F, v) == \A i \in 1..Len(F) : Holds(F[i], v[i])

\* The cells are those of p as far as both go.
Common(cells, p) == \A k \in 1..Len(p) : k <= Len(cells) => cells[k] = p[k]

\* Where the cells are those of a payload, reading follows writing: as long as fields are
\* accepted they are the ones written, and they are accepted while there are cells.
LEMMA ReadingFollows ==
  ASSUME Limits, NEW F \in Seq(Fields), NEW v, Valued(F, v),
         NEW cells \in Seq(Nat), Common(cells, Encoding(F, v))
  PROVE  LET x == Reading(F, cells)
             p == Encoding(F, v)
         IN  /\ x \in Results(F) /\ p \in Seq(Nat)
             /\ x.ok => x.at = Len(p) /\ x.out = [i \in 1..Len(F) |-> <<F[i].name, v[i]>>]
             /\ Encodes(F, v) /\ Len(p) <= Len(cells) => x.ok
<1> DEFINE n == Len(F)
           p == Encoding(F, v)
           Good == Encodes(F, v) /\ Len(p) <= Len(cells)
           O == {<<F[j].name, c>> : j \in 1..n, c \in Nat}
<1>0. n \in Nat /\ Len(cells) \in Nat /\ DOMAIN F = 1..n
  OBVIOUS
<1>1. \A i \in 1..n : F[i] \in Fields /\ Holds(F[i], v[i]) /\ v[i] \in Nat
  BY DEF Valued, Holds
<1>2. PICK w : WritesInto(w, F, v) /\ p = w[n]
  BY <1>1, EncodingIsWritten
<1>3. PICK r : Reads(r, F, cells) /\ Reading(F, cells) = r[n]
  BY ReadingIsTaken
<1>4. p \in Seq(Nat) /\ Len(p) \in Nat /\ Len(w[0]) = 0
  BY <1>0, <1>2 DEF WritesInto
<1>5. /\ \A i \in 0..n : r[i] \in Results(F)
      /\ r[0].ok /\ r[0].at = 0 /\ r[0].out = <<>>
      /\ \A i \in 1..n : r[i] = Take(r[i - 1], F[i], cells)
  <2>1. r \in [0..n -> Results(F)] /\ r[0] = [ok |-> TRUE, at |-> 0, out |-> <<>>]
    BY <1>3 DEF Reads
  <2>2. \A i \in 1..n : r[i] = Take(r[i - 1], F[i], cells)
    BY <1>3 DEF Reads
  <2> HIDE DEF n
  <2> QED
    BY <2>1, <2>2
<1>6. \A i \in 1..n :
        /\ Len(w[i - 1]) \in Nat
        /\ Len(w[i]) = Len(w[i - 1]) + F[i].size + Content(F[i], v[i])
        /\ Len(w[i]) <= Len(w[n])
        /\ w[n][Len(w[i - 1]) + 1] = v[i]
  BY <1>1, <1>2, WrittenStays
<1> DEFINE l(i) == Len(w[i])
           Right(i) ==
             /\ r[i].at = l(i) /\ Len(r[i].out) = i
             /\ \A j \in 1..i : r[i].out[j] = <<F[j].name, v[j]>>
           S == {i \in 0..n : (r[i].ok => Right(i)) /\ (Good => r[i].ok)}
<1>c. \A k \in 1..Len(p) : k <= Len(cells) => cells[k] = p[k]
  BY DEF Common
<1>o. \A i \in 0..n : r[i].out \in Seq(O)
  <2>1. \A x \in Results(F) : x.out \in Seq(O)
    BY DEF Results
  <2> HIDE DEF n, O
  <2> QED
    BY <1>5, <2>1
<1>g. Good => \A i \in 1..n : Writes(F[i], v[i])
  BY <1>0 DEF Encodes
<1>h. Good => Len(p) <= Len(cells)
  OBVIOUS
<1> HIDE DEF p, n, Good, O
<1>7. 0 \in S
  BY <1>0, <1>4, <1>5
<1>8. ASSUME NEW i \in 1..n, i - 1 \in S PROVE i \in S
  <2> DEFINE a == l(i - 1)
             b == l(i)
             f == F[i]
             u == v[i]
             x == r[i - 1]
             y == r[i]
  <2>0. i \in 0..n /\ i - 1 \in 0..n /\ i - 1 \in Nat
    BY <1>0
  <2>1. /\ x.ok => x.at = a /\ Len(x.out) = i - 1 /\ \A j \in 1..(i - 1) : x.out[j] = <<F[j].name, v[j]>>
        /\ Good => x.ok
    BY <1>8
  <2>2. a \in Nat /\ b = a + f.size + Content(f, u) /\ b <= Len(p) /\ p[a + 1] = u
    BY <1>2, <1>6
  <2>3. f \in Fields /\ Holds(f, u) /\ y = Take(x, f, cells) /\ x.out \in Seq(O)
    BY <1>1, <1>5, <1>o, <2>0
  <2>4. f.size \in Nat /\ f.size > 0 /\ Content(f, u) \in Nat
    BY <1>1, FieldIs, ContentIsNatural
  <2>5. <<f.name, u>> \in O
    BY <1>1 DEF O
  <2>g. Good => Writes(f, u) /\ b <= Len(cells)
    <3>1. b \in Nat
      BY <2>2, <2>4
    <3> HIDE DEF b
    <3> QED
      BY <1>0, <1>4, <1>g, <1>h, <2>2, <3>1
  <2> HIDE DEF a, b, f, u, x, y
  <2>6. a + 1 <= Len(cells) => cells[a + 1] = u
    <3>1. a + 1 \in 1..Len(p)
      BY <1>4, <2>2, <2>4
    <3> QED
      BY <1>c, <2>2, <3>1
  <2>7. /\ y.ok => x.ok /\ y.at = b /\ y.out = Append(x.out, <<f.name, u>>)
        /\ x.ok /\ Writes(f, u) /\ b <= Len(cells) => y.ok
    <3>1. x.ok => x.at = a
      BY <2>1
    <3>2. a \in Nat /\ b = a + f.size + Content(f, u)
      BY <2>2
    <3>3. f \in Fields /\ Holds(f, u) /\ y = Take(x, f, cells)
      BY <2>3
    <3> QED
      BY <2>6, <3>1, <3>2, <3>3, OneField
  <2>8. ASSUME y.ok PROVE Right(i)
    <3> DEFINE o == x.out
               e == <<f.name, u>>
    <3>1. o \in Seq(O) /\ e \in O /\ Len(o) = i - 1 /\ y.out = Append(o, e)
      BY <2>1, <2>3, <2>5, <2>7, <2>8
    <3>2. \A j \in 1..(i - 1) : o[j] = <<F[j].name, v[j]>>
      BY <2>1, <2>7, <2>8
    <3>3. e = <<F[i].name, v[i]>>
      BY DEF f, u
    <3> HIDE DEF o, e
    <3>4. Len(Append(o, e)) = i /\ \A j \in 1..i : Append(o, e)[j] = IF j = i THEN e ELSE o[j]
      BY <2>0, <3>1, AppendProperties
    <3>5. Len(y.out) = i /\ \A j \in 1..i : y.out[j] = <<F[j].name, v[j]>>
      BY <2>0, <3>1, <3>2, <3>3, <3>4
    <3> QED
      BY <2>7, <2>8, <3>5 DEF y, b
  <2>9. Good => y.ok
    BY <2>1, <2>7, <2>g
  <2> QED
    BY <2>0, <2>8, <2>9 DEF y
<1>9. n \in S
  <2> HIDE DEF S
  <2>1. 0..n \subseteq S
    BY <1>0, <1>7, <1>8, BoundedInduction
  <2> QED
    BY <1>0, <2>1
<1>10. ASSUME r[n].ok PROVE r[n].at = Len(p) /\ r[n].out = [i \in 1..n |-> <<F[i].name, v[i]>>]
  <2> DEFINE o == r[n].out
  <2>1. r[n].at = Len(p) /\ Len(o) = n /\ \A j \in 1..n : o[j] = <<F[j].name, v[j]>>
    BY <1>2, <1>9, <1>10
  <2>2. o \in Seq(O)
    BY <1>0, <1>o
  <2> DEFINE e == [i \in 1..n |-> <<F[i].name, v[i]>>]
  <2> HIDE DEF o
  <2>3. o = [i \in 1..n |-> o[i]]
    <3>1. DOMAIN o = 1..n /\ o = [i \in DOMAIN o |-> o[i]]
      BY <1>0, <2>1, <2>2
    <3> QED
      BY <3>1
  <2>4. o = e
    BY <2>1, <2>3
  <2> QED
    BY <2>1, <2>4 DEF o
<1>11. r[n] \in Results(F) /\ (Good => r[n].ok)
  BY <1>0, <1>5, <1>9
<1> QED
  BY <1>3, <1>4, <1>10, <1>11 DEF p, n, Good

\* A payload that was cut short is the one sent as far as both go, and is not as long.
LEMMA CutIsCommon ==
  ASSUME NEW p \in Seq(Nat), NEW k \in {0, Len(p) \div 2, Len(p) - 1}, NEW c, c = SubSeq(p, 1, k)
  PROVE  c \in Seq(Nat) /\ Common(c, p) /\ (c # p => Len(c) # Len(p))
<1>0. Len(p) \in Nat /\ (Len(p) = 0 => p = <<>>)
  OBVIOUS
<1>1. CASE Len(p) = 0 /\ k = -1
  <2>1. p = <<>>
    BY <1>0, <1>1
  <2>2. SubSeq(p, 1, -1) = <<>>
    BY <2>1
  <2> QED
    BY <1>1, <2>1, <2>2 DEF Common
<1>2. CASE k \in 0..Len(p)
  <2>1. c \in Seq(Nat) /\ Len(c) = k /\ \A i \in 1..k : c[i] = p[i]
    BY <1>0, <1>2
  <2>2. Common(c, p)
    BY <1>0, <1>2, <2>1 DEF Common
  <2>3. Len(c) = Len(p) => c = p
    BY <1>0, <2>1, SeqEqual
  <2> QED
    BY <2>1, <2>2, <2>3
<1>3. k \in 0..Len(p) \/ (Len(p) = 0 /\ k = -1)
  <2> DEFINE n == Len(p)
  <2>1. n \in Nat /\ k \in {0, n \div 2, n - 1}
    BY <1>0
  <2> HIDE DEF n
  <2>2. k \in 0..n \/ (n = 0 /\ k = -1)
    BY <2>1
  <2> QED
    BY <2>2 DEF n
<1> QED
  BY <1>1, <1>2, <1>3

\* The same of a payload that is followed by something.
LEMMA ExtendedIsCommon ==
  ASSUME NEW p \in Seq(Nat), NEW c, c = Append(p, 0)
  PROVE  c \in Seq(Nat) /\ Common(c, p) /\ Len(c) # Len(p)
<1>1. Len(p) \in Nat /\ c \in Seq(Nat) /\ Len(c) = Len(p) + 1
  OBVIOUS
<1>2. \A i \in 1..Len(p) : c[i] = p[i]
  OBVIOUS
<1> QED
  BY <1>1, <1>2 DEF Common

\* What is decoded from what has arrived, cell for cell or not.
LEMMA DecodedIs ==
  ASSUME Limits, NEW F \in Seq(Fields), NEW v, Valued(F, v), Encodes(F, v),
         NEW cells \in Seq(Nat), Common(cells, Encoding(F, v))
  PROVE  LET y == Decoded(F, cells)
             p == Encoding(F, v)
         IN  /\ Len(cells) # Len(p) => ~y.ok
             /\ Len(cells) = Len(p) =>
                  y.ok /\ y.out = [i \in 1..Len(F) |-> <<F[i].name, v[i]>>]
<1> DEFINE x == Reading(F, cells)
           p == Encoding(F, v)
           o == [i \in 1..Len(F) |-> <<F[i].name, v[i]>>]
<1>1. /\ x \in Results(F) /\ p \in Seq(Nat)
      /\ x.ok => x.at = Len(p) /\ x.out = o
      /\ Len(p) <= Len(cells) => x.ok
  BY ReadingFollows
<1> DEFINE b == x.ok /\ x.at = Len(cells)
           y == Decoded(F, cells)
<1>2. y = [x EXCEPT !.ok = b]
  BY DEF Decoded
<1>3. Len(p) \in Nat /\ Len(cells) \in Nat
  BY <1>1
<1>4. DOMAIN x = {"ok", "at", "out"}
  <2> DEFINE S == Seq({<<F[i].name, c>> : i \in 1..Len(F), c \in Nat})
  <2>1. x \in [ok : BOOLEAN, at : Nat, out : S]
    BY <1>1 DEF Results
  <2> HIDE DEF S, x
  <2> QED
    BY <2>1
<1> HIDE DEF x, y, b
<1>5. y.ok = b /\ y.out = x.out
  BY <1>2, <1>4
<1> HIDE DEF p, o
<1>6. (y.ok <=> x.ok /\ x.at = Len(cells)) /\ y.out = x.out
  BY <1>5 DEF b
<1>7. /\ Len(cells) # Len(p) => ~y.ok
      /\ Len(cells) = Len(p) => y.ok /\ y.out = o
  BY <1>1, <1>3, <1>6
<1> QED
  BY <1>7 DEF p, o, y

\* The invariant of a payload: the value is one the program may hold, what was encoded is its
\* encoding, and what has arrived is that, or has its cells and not its length.
PayloadInv ==
  LET F == Written[message]
      p == Encoding(F, value)
  IN  /\ message \in DOMAIN Written
      /\ DOMAIN value = 1..Len(F) /\ Valued(F, value)
      /\ phase \in {"new", "refused"} => ~damaged
      /\ phase \in {"encoded", "arrived"} => Encodes(F, value)
      /\ phase = "encoded" => ~damaged /\ payload = p
      /\ phase = "arrived" =>
           /\ payload \in Seq(Nat) /\ Common(payload, p)
           /\ damaged => Len(payload) # Len(p)
           /\ ~damaged => payload = p
      /\ RoundTrip /\ DamageIsRejected

\* A payload starts with a value the program may hold.
LEMMA PayloadStarts ==
  ASSUME Limits, PayloadInit PROVE PayloadInv
<1> DEFINE F == Written[message]
<1>1. message \in DOMAIN Written /\ phase = "new" /\ ~damaged
  BY DEF PayloadInit
<1>2. F \in Seq(Fields) /\ DOMAIN F = 1..Len(F)
  BY <1>1, FormatsAreFields
<1>3. PICK i \in DOMAIN F : \E u \in Edges(F[i]) :
        value = [j \in DOMAIN F |-> IF j = i THEN u ELSE Plain(F[j])]
  BY DEF PayloadInit
<1>4. PICK u \in Edges(F[i]) : value = [j \in DOMAIN F |-> IF j = i THEN u ELSE Plain(F[j])]
  BY <1>3
<1> HIDE DEF F
<1>5. ASSUME NEW f \in Fields
      PROVE  Holds(f, Plain(f)) /\ \A e \in Edges(f) : Holds(f, e)
  <2>1. /\ f.kind \in {"int", "enum", "text", "name", "list"} /\ f.limit \in Nat
        /\ f.kind = "enum" => f.limit = 1
        /\ f.kind = "name" => f.limit # 0
    BY FieldIs
  <2>2. Holds(f, Plain(f))
    BY <2>1 DEF Holds, Plain
  <2>3. \A e \in Edges(f) : Holds(f, e)
    BY <2>1 DEF Holds, Edges
  <2> QED
    BY <2>2, <2>3
<1>6. ASSUME NEW j \in 1..Len(F) PROVE Holds(F[j], value[j])
  <2>1. F[j] \in Fields /\ value[j] = IF j = i THEN u ELSE Plain(F[j])
    BY <1>2, <1>4
  <2> QED
    BY <1>4, <1>5, <2>1
<1>7. DOMAIN value = 1..Len(F) /\ Valued(F, value)
  BY <1>2, <1>4, <1>6 DEF Valued
<1> QED
  BY <1>1, <1>7 DEF F, PayloadInv, RoundTrip, DamageIsRejected

\* Encoding, each way of arriving and decoding keep the invariant.
LEMMA PayloadMoves ==
  ASSUME Limits, PayloadInv, PayloadNext PROVE PayloadInv'
<1> DEFINE F == Written[message]
           p == Encoding(F, value)
<1>0. message \in DOMAIN Written /\ DOMAIN value = 1..Len(F) /\ Valued(F, value)
  BY DEF PayloadInv
<1>1. F \in Seq(Fields)
  BY <1>0, FormatsAreFields
<1>2. message' = message /\ value' = value
  BY DEF PayloadNext, Encode, Arrive, Intact, CutShort, Extended, Decode
<1>3. F' = F /\ p' = p
  BY <1>2
<1>4. CASE Encode
  <2>1. phase = "new" /\ ~damaged /\ damaged' = damaged
    BY <1>4 DEF Encode, PayloadInv
  <2>2. \/ phase' = "encoded" /\ payload' = p /\ Encodes(F, value)
        \/ phase' = "refused"
    BY <1>4 DEF Encode
  <2> HIDE DEF F, p
  <2> QED
    BY <1>0, <1>2, <2>1, <2>2 DEF PayloadInv, RoundTrip, DamageIsRejected, F, p
<1>5. ASSUME NEW c, Arrive(c), c \in Seq(Nat), Common(c, p), c # p => Len(c) # Len(p)
      PROVE  PayloadInv'
  <2>1. phase = "encoded" /\ phase' = "arrived" /\ payload' = c /\ damaged' = (c # payload)
    BY <1>5 DEF Arrive
  <2>2. payload = p /\ Encodes(F, value)
    BY <2>1 DEF PayloadInv
  <2> QED
    BY <1>0, <1>2, <1>5, <2>1, <2>2 DEF PayloadInv, RoundTrip, DamageIsRejected
<1>6. phase = "encoded" => payload = p /\ p \in Seq(Nat)
  <2>1. Common(<<>>, p) /\ <<>> \in Seq(Nat)
    BY DEF Common
  <2>2. p \in Seq(Nat)
    BY <1>0, <1>1, <2>1, ReadingFollows
  <2> QED
    BY <2>2 DEF PayloadInv
<1>7. CASE Intact
  <2>1. Arrive(p) /\ p \in Seq(Nat)
    BY <1>6, <1>7 DEF Intact, Arrive
  <2>2. Common(p, p)
    BY DEF Common
  <2> QED
    BY <1>5, <2>1, <2>2
<1>8. CASE CutShort
  <2>1. PICK k \in {0, Len(payload) \div 2, Len(payload) - 1} : Arrive(SubSeq(payload, 1, k))
    BY <1>8 DEF CutShort
  <2>2. payload = p /\ p \in Seq(Nat)
    BY <1>6, <2>1 DEF Arrive
  <2> DEFINE c == SubSeq(p, 1, k)
  <2>3. c \in Seq(Nat) /\ Common(c, p) /\ (c # p => Len(c) # Len(p))
    BY <2>1, <2>2, CutIsCommon
  <2> QED
    BY <1>5, <2>1, <2>2, <2>3
<1>9. CASE Extended
  <2>1. Arrive(Append(payload, 0)) /\ payload = p /\ p \in Seq(Nat)
    BY <1>6, <1>9 DEF Extended, Arrive
  <2>2. Append(p, 0) \in Seq(Nat) /\ Common(Append(p, 0), p) /\ Len(Append(p, 0)) # Len(p)
    BY <2>1, ExtendedIsCommon
  <2> QED
    BY <1>5, <2>1, <2>2
<1>10. CASE Decode
  <2> DEFINE y == Decoded(F, payload)
  <2>1. phase = "arrived" /\ damaged' = damaged
        /\ phase' = (IF y.ok THEN "decoded" ELSE "rejected") /\ decoded' = y.out
    BY <1>0, <1>10, EncodeMirrorsDecode DEF Decode
  <2>2. /\ Encodes(F, value) /\ payload \in Seq(Nat) /\ Common(payload, p)
        /\ damaged => Len(payload) # Len(p)
        /\ ~damaged => Len(payload) = Len(p)
    BY <2>1 DEF PayloadInv
  <2>3. /\ damaged => ~y.ok
        /\ ~damaged => y.ok /\ y.out = [i \in 1..Len(F) |-> <<F[i].name, value[i]>>]
    BY <1>0, <1>1, <2>2, DecodedIs
  <2> HIDE DEF y
  <2>4. DamageIsRejected'
    BY <2>1, <2>3 DEF DamageIsRejected
  <2>5. RoundTrip'
    <3>1. [i \in DOMAIN value |-> <<F[i].name, value[i]>>] =
            [i \in 1..Len(F) |-> <<F[i].name, value[i]>>]
      BY <1>0
    <3> QED
      BY <1>2, <2>1, <2>3, <3>1 DEF RoundTrip
  <2>6. phase' \in {"decoded", "rejected"}
    BY <2>1
  <2> HIDE DEF F, p
  <2> QED
    BY <1>0, <1>2, <2>4, <2>5, <2>6 DEF PayloadInv, F
<1> QED
  BY <1>4, <1>7, <1>8, <1>9, <1>10 DEF PayloadNext

\* The invariant holds of every payload, for any limits.
THEOREM PayloadIsSafe == PayloadSpec => []PayloadInv
<1>1. PayloadInit => PayloadInv
  BY LimitsAssumption, PayloadStarts
<1>2. PayloadInv /\ [PayloadNext]_payloadVars => PayloadInv'
  <2>1. CASE PayloadNext
    BY <2>1, LimitsAssumption, PayloadMoves
  <2>2. CASE UNCHANGED payloadVars
    BY <2>2 DEF payloadVars, PayloadInv, RoundTrip, DamageIsRejected
  <2> QED
    BY <2>1, <2>2
<1> QED
  BY <1>1, <1>2, PTL DEF PayloadSpec

\* What one side encodes the other decodes to the same value, and does not refuse, in every
\* type of payload, from every payload that arrived whole.
THEOREM RoundTripHolds == PayloadSpec => []RoundTrip
<1>1. PayloadInv => RoundTrip
  BY DEF PayloadInv
<1> QED
  BY <1>1, PayloadIsSafe, PTL

\* No payload that lost its end or has something after it is taken for a value: Reader::take
\* and expect_end catch it in every decode.
THEOREM DamageIsRejectedHolds == PayloadSpec => []DamageIsRejected
<1>1. PayloadInv => DamageIsRejected
  BY DEF PayloadInv
<1> QED
  BY <1>1, PayloadIsSafe, PTL
================================================================================
