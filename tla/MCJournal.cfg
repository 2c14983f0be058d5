SPECIFICATION Spec
INVARIANTS
  CrashLeavesWritable
PROPERTIES
  ImplementsLog
  RecoveredIsServed
CHECK_DEADLOCK FALSE
CONSTANTS
  Payloads = {"short", "long", "huge"}
  Length <- MCLength
  Modes <- AllModes
  MaxPayload = 3
  MaxBytes = 11
  MaxRecords = 4
  MaxGenerations = 1
