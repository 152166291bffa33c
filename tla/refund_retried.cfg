SPECIFICATION Spec
CONSTANTS
  r1 = r1
  r2 = r2
  k1 = k1
  k2 = k2
  Replicas = {r1}
  Keys = {k1}
  ProcessCommands <- OneCommand
  RefundAmounts = {1, 2}
  DeclineOverCents = 0
  AdminChoices = {}
  Faults = {"update"}
  MaxPayments = 1
  MaxRefundCalls = 2
  MaxInt64 = 7
INVARIANT
  GatewayRefundsBounded
