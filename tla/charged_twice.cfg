SPECIFICATION Spec
CONSTANTS
  r1 = r1
  r2 = r2
  k1 = k1
  k2 = k2
  Replicas = {r1}
  Keys = {k1}
  ProcessCommands <- OneCommand
  RefundAmounts = {1}
  DeclineOverCents = 0
  AdminChoices = {"stripe", "mock"}
  Faults = {"save"}
  MaxPayments = 2
  MaxRefundCalls = 1
  MaxInt64 = 7
INVARIANT
  ChargedOnce
