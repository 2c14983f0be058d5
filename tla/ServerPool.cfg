SPECIFICATION FairSpec
CONSTANTS
  Worker = {w1, w2}
  Socket = {s1, s2}
  None = None
  MaxPending = 1
  MaxFailures = 1
INVARIANTS
  TypeOK
  OneHolder
  RegistryIsLive
  StoppedIsQuiet
PROPERTIES
  StopReturnsOrIsStuck
  ConnectionServed
CHECK_DEADLOCK FALSE
