SPECIFICATION FairSpec
CONSTANTS
  IDs = {"a", "b"}
  OutCap = 1
  MaxOps = 2
  StrictClient = FALSE
  Faults = {"write"}
INVARIANTS
  TypeOK
  RegisteredUntilEnd
  CancelledForCause
PROPERTIES
  DisconnectEndsAll
  CompletedEnds
CHECK_DEADLOCK FALSE
