SPECIFICATION Spec
CONSTANTS
  IDs = {"a"}
  OutCap = 1
  MaxOps = 2
  StrictClient = TRUE
  Faults = {}
INVARIANT
  OperationsUndisturbed
CHECK_DEADLOCK FALSE
