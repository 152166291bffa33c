SPECIFICATION FairSpec
CONSTANTS
  k1 = k1
  o1 = o1
  noKey = noKey
  ada = ada
  Clients = {c1, c2}
  Subscribers = {s1}
  OrderIDs = {o1, o2}
  CustomKeys = {k1}
  NoKey = noKey
  OrderCommands <- KeyedOrder
  PayCommands <- SomePayments
  Customers = {ada}
  Faults = {"lookup", "save", "publish", "dispatch", "process", "cancel", "crash"}
  HubBuffer = 1
  Restarts = TRUE
PROPERTY
  RequestsAnswered
  ShutdownEnds
