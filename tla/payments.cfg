SPECIFICATION Spec
CONSTANTS
  r1 = r1
  r2 = r2
  k1 = k1
  k2 = k2
  Replicas = {r1, r2}
  Keys = {k1}
  ProcessCommands <- RaceCommands
  RefundAmounts = {3}
  DeclineOverCents = 3
  AdminChoices = {"stripe"}
  Faults = {"capture", "refund", "save", "reload", "update", "publish", "crash"}
  MaxPayments = 2
  MaxRefundCalls = 1
  MaxInt64 = 4
SYMMETRY ReplicaSymmetry
INVARIANTS
  TypeOK
  OneAnswerPerKey
  RefundBounded
  NoLostRefund
  RefundsWerePaid
  CapturedWasCharged
  EventsFollowRows
PROPERTY
  ImplementsBook
