SPECIFICATION FairSpec
CONSTANTS
  a = a
  b = b
  e1 = e1
  e2 = e2
  f1 = f1
  f2 = f2
  None = None
  Members = {a, b}
  Endpoints = {e1, e2}
  Configurations <- OneOrTwo
  PeerLists <- PairLists
  MaxIncarnation = 2
  MaxProbes = 1
  MaxFailures = 1
CHECK_DEADLOCK FALSE
INVARIANTS ReachableWasRunning
PROPERTIES ProbesFinish StopReturns
