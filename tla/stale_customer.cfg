SPECIFICATION Spec
CONSTANTS
  o1 = "o1"
  o2 = "o2"
  u1 = "u1"
  u2 = "u2"
  Users = {"u1", "u2"}
  Orders = {"o1", "o2"}
  CustomerOf <- BothOfOne
  Documents <- ChangeBetween
  MaxBatch = 100
  MaxVersion = 2
  MaxWrites = 0
  MaxRequests = 1
  Faults = {}
INVARIANT
  NoStaleCustomer
CHECK_DEADLOCK FALSE
