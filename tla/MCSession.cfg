SPECIFICATION FairSpec
CONSTANTS
  f1 = f1
  f2 = f2
  Threads = {t1, t2}
  Requests <- RequestTypes
  Hellos <- AnyHello
  Federation = f1
  Version = 1
  MaxCalls = 1
  MaxTick = 1
CHECK_DEADLOCK FALSE
INVARIANTS AnswerIsOwn SuccessWasDone
PROPERTY CallsReturn
