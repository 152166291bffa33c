SPECIFICATION FairSpec
CONSTANTS
  o1 = "o1"
  o2 = "o2"
  u1 = "u1"
  u2 = "u2"
  Users = {"u1", "u2"}
  Orders = {"o1", "o2"}
  CustomerOf <- EachItsOwn
  Documents <- AllDocuments
  MaxBatch = 2
  MaxVersion = 2
  MaxWrites = 1
  MaxRequests = 2
  Faults = {"query", "resolver"}
INVARIANTS
  TypeOK
  OwnResult
  BatchFetchedOnce
  AnswersOwn
  MutationsSerial
PROPERTY
  RequestAnswered
CHECK_DEADLOCK FALSE
