SPECIFICATION Spec
CONSTANTS
  r1 = r1
  r2 = r2
  k1 = k1
  k2 = k2
  Replicas = {r1}
  Keys = {k1}
  ProcessCommands <- OneCommand
  RefundAmounts = {1, 3}
  DeclineOverCents = 0
  AdminChoices = {}
  Faults = {}
  MaxPayments = 1
  MaxRefundCalls = 1
  MaxInt64 = 3
INVARIANT
  RefundSumBounded
