--------------------------- MODULE PaymentsProofs ---------------------------
(***************************************************************************)
(* Proofs about Payments, for any replicas, keys, commands, amounts,       *)
(* faults and bounds, sums that wrap around int64 included: what the rows  *)
(* show, the answers, the events and the refs at the gateways, and that    *)
(* the service implements the book of PaymentBook.                         *)
(***************************************************************************)
EXTENDS Payments, FoldLemmas, TLAPS

-----------------------------------------------------------------------------
(* The types of the constants, one by one.                                 *)
LEMMA BoundsType ==
  MaxPayments \in Nat /\ MaxRefundCalls \in Nat /\ RefundAmounts \subseteq 1 .. MaxInt64
BY PaymentsAssumption

(* What a command asks for.                                                *)
LEMMA CommandsType ==
  ASSUME NEW cmd \in ProcessCommands
  PROVE  /\ cmd.key \in Keys
         /\ cmd.amount \in Amounts
         /\ cmd.gw \in Gateways \cup {"", "pix"}
BY PaymentsAssumption DEF Amounts

(* Ids are numbers; the next one is an id unless the bound is reached.     *)
LEMMA IdsType ==
  ASSUME TypeOK
  PROVE  /\ nextId \in Nat
         /\ nextId <= MaxPayments =>
              nextId \in PaymentIDs /\ nextId + 1 \in 1 .. MaxPayments + 1
         /\ DOMAIN payments \subseteq Nat /\ PaymentIDs \subseteq Nat
<1>1. nextId \in 1 .. MaxPayments + 1 /\ DOMAIN payments \subseteq 1 .. MaxPayments
  BY DEF TypeOK, PaymentIDs
<1>2. MaxPayments \in Nat
  BY BoundsType
<1> QED BY <1>1, <1>2 DEF PaymentIDs

(* What the methods of the aggregate return.                               *)

(* Adding a valid amount wraps inside int64.                               *)
LEMMA Add64Type ==
  ASSUME NEW a \in Int64, NEW b \in 1 .. MaxInt64
  PROVE  Add64(a, b) \in Int64
BY Int64Assumption DEF Add64, Int64

(* Nothing wraps to zero, and a wrapped sum stays the int64 of the true    *)
(* one when an amount is added to both.                                    *)
LEMMA SameZero == SameInt64(0, 0)
<1>1. 0 \in 0 .. 0 /\ 0 + 2 * (MaxInt64 + 1) * 0 = 0
  BY Int64Assumption
<1> QED BY <1>1 DEF SameInt64

LEMMA SumInt64 ==
  ASSUME NEW x \in Int64, NEW n \in Nat, SameInt64(x, n), NEW a \in 1 .. MaxInt64
  PROVE  SameInt64(Add64(x, a), n + a)
<1> DEFINE w == 2 * (MaxInt64 + 1)
<1>1. PICK k \in 0 .. n : x + w * k = n
  BY DEF SameInt64
<1>2. w \in Nat /\ x \in Int /\ a \in Nat \ {0}
  BY Int64Assumption DEF Int64
<1> HIDE DEF w
<1>3. w * (k + 1) = w * k + w /\ w * k \in Int
  BY <1>2
<1> DEFINE m == w * k
<1>4. k \in 0 .. (n + a) /\ k + 1 \in 0 .. (n + a) /\ x + m = n
  BY <1>1, <1>2
<1>5. w * (k + 1) = m + w /\ m \in Int
  BY <1>3
<1> HIDE DEF m
<1>6. CASE x + a > MaxInt64
  <2>1. Add64(x, a) = x + a - w
    BY <1>6 DEF Add64, w
  <2>2. Add64(x, a) + (m + w) = n + a
    BY <2>1, <1>2, <1>4, <1>5
  <2>3. Add64(x, a) + w * (k + 1) = n + a
    BY <2>2, <1>5
  <2> QED BY <2>3, <1>4 DEF SameInt64, w
<1>7. CASE ~(x + a > MaxInt64)
  <2>1. Add64(x, a) = x + a
    BY <1>7 DEF Add64
  <2>2. Add64(x, a) + m = n + a
    BY <2>1, <1>2, <1>4, <1>5
  <2> QED BY <2>2, <1>4 DEF SameInt64, w, m
<1> QED BY <1>6, <1>7

(* A sum that stays within int64 is what it should be.                     *)
LEMMA SmallInt64 ==
  ASSUME NEW x \in Int64, NEW n \in Nat, n <= MaxInt64, SameInt64(x, n)
  PROVE  x = n
<1> DEFINE w == 2 * (MaxInt64 + 1)
<1>1. PICK k \in 0 .. n : x + w * k = n
  BY DEF SameInt64
<1>2. w \in Nat /\ x >= -(MaxInt64 + 1) /\ x \in Int /\ MaxInt64 \in Nat
  BY Int64Assumption DEF Int64
<1>3. CASE k = 0
  BY <1>1, <1>2, <1>3
<1>4. CASE k >= 1
  <2>1. k - 1 \in Nat
    BY <1>4
  <2>2. w * k = w * (k - 1) + w /\ w * (k - 1) >= 0 /\ w * (k - 1) \in Int
    BY <2>1, <1>2
  <2> DEFINE m == w * (k - 1)
  <2>3. x + (m + w) = n /\ m >= 0 /\ m \in Int
    BY <1>1, <2>2
  <2> HIDE DEF m
  <2>4. x + w <= n
    BY <2>3, <1>2
  <2> QED BY <2>4, <1>2
<1> QED BY <1>1, <1>3, <1>4

(* Amounts of commands are valid amounts.                                  *)
LEMMA AmountsType == Amounts \subseteq 1 .. MaxInt64
BY PaymentsAssumption DEF Amounts

(* A new payment is a PENDING aggregate of the command's key and amount.   *)
LEMMA NewPaymentType ==
  ASSUME NEW id \in PaymentIDs, NEW key \in Keys, NEW amount \in Amounts
  PROVE  /\ NewPayment(id, key, amount) \in Aggregate
         /\ NewPayment(id, key, amount).id = id
         /\ NewPayment(id, key, amount).key = key
         /\ NewPayment(id, key, amount).refunded = 0
         /\ NewPayment(id, key, amount).status = "PENDING"
<1>1. 0 \in Int64 BY Int64Assumption DEF Int64
<1>2. <<"payment.initiated">> \in Seq(EventNames) BY DEF EventNames
<1> QED BY <1>1, <1>2 DEF NewPayment, Aggregate, Status

(* A transition changes the status, the version and the events.            *)
LEMMA TransitionType ==
  ASSUME NEW p \in Aggregate, NEW next \in Status, NEW event \in EventNames
  PROVE  LET q == Transition(p, next, event) IN
         /\ q \in Aggregate
         /\ q.id = p.id /\ q.key = p.key /\ q.amount = p.amount /\ q.ref = p.ref
         /\ q.refunded = p.refunded /\ q.status = next /\ q.version = p.version + 1
<1> DEFINE Histories == Seq(EventNames)
           history == Append(p.events, event)
           version == p.version + 1
<1>1. history \in Histories /\ version \in Nat
  BY DEF Aggregate
<1>2. p \in [id : PaymentIDs, key : Keys, amount : Amounts, refunded : Int64,
             status : Status, ref : Refs \cup {NoRef}, version : Nat,
             events : Histories]
  BY DEF Aggregate
<1>3. Transition(p, next, event)
        = [p EXCEPT !.status = next, !.version = version, !.events = history]
  BY DEF Transition
<1> HIDE DEF Histories, history, version
<1>4. LET q == [p EXCEPT !.status = next, !.version = version, !.events = history]
      IN  /\ q \in [id : PaymentIDs, key : Keys, amount : Amounts, refunded : Int64,
                   status : Status, ref : Refs \cup {NoRef}, version : Nat,
                   events : Histories]
          /\ q.id = p.id /\ q.key = p.key /\ q.amount = p.amount /\ q.ref = p.ref
          /\ q.refunded = p.refunded /\ q.status = next /\ q.version = version
  BY <1>1, <1>2
<1> QED BY <1>3, <1>4 DEF Aggregate, Histories, version

(* Authorize then Capture leaves a CAPTURED aggregate carrying the ref.    *)
LEMMA CapturedType ==
  ASSUME NEW p \in Aggregate, NEW ref \in Refs
  PROVE  LET q == Capture(Authorize(p, ref)) IN
         /\ q \in Aggregate
         /\ q.id = p.id /\ q.key = p.key /\ q.amount = p.amount
         /\ q.refunded = p.refunded /\ q.ref = ref /\ q.status = "CAPTURED"
<1> DEFINE t == Transition(p, "AUTHORIZED", "payment.authorized")
           u == Authorize(p, ref)
<1>1. /\ t \in Aggregate
      /\ t.id = p.id /\ t.key = p.key /\ t.amount = p.amount
      /\ t.refunded = p.refunded
  BY TransitionType DEF Status, EventNames
<1>2. u = [t EXCEPT !.ref = ref]
  BY DEF Authorize
<1> HIDE DEF t, u
<1>3. /\ u \in Aggregate
      /\ u.id = p.id /\ u.key = p.key /\ u.amount = p.amount
      /\ u.refunded = p.refunded /\ u.ref = ref
  BY <1>1, <1>2 DEF Aggregate
<1>4. Capture(u) = Transition(u, "CAPTURED", "payment.captured")
  BY DEF Capture
<1>5. /\ Capture(u) \in Aggregate
      /\ Capture(u).id = p.id /\ Capture(u).key = p.key /\ Capture(u).amount = p.amount
      /\ Capture(u).refunded = p.refunded /\ Capture(u).ref = ref
      /\ Capture(u).status = "CAPTURED"
  BY <1>3, <1>4, TransitionType DEF Status, EventNames
<1> QED BY <1>5 DEF u

(* Failing a PENDING aggregate leaves it FAILED and otherwise as it was.   *)
LEMMA FailType ==
  ASSUME NEW p \in Aggregate, p.status = "PENDING"
  PROVE  /\ Fail(p) \in Aggregate
         /\ Fail(p).id = p.id /\ Fail(p).key = p.key /\ Fail(p).amount = p.amount
         /\ Fail(p).refunded = p.refunded /\ Fail(p).status = "FAILED"
<1>1. Fail(p) = Transition(p, "FAILED", "payment.failed")
  BY DEF Fail, CanFail, CanTransitionTo, AllowedTransitions
<1> QED BY <1>1, TransitionType DEF Status, EventNames

(* A refund adds the amount, bumps the version, keeps the rest.            *)
LEMMA RefundType ==
  ASSUME NEW p \in Aggregate, NEW a \in 1 .. MaxInt64
  PROVE  LET q == Refund(p, a) IN
         /\ q \in Aggregate
         /\ q.id = p.id /\ q.key = p.key /\ q.amount = p.amount /\ q.ref = p.ref
         /\ q.refunded = Add64(p.refunded, a)
         /\ q.version = p.version + 1
         /\ q.status = StatusAfterRefund(p, a)
         /\ q.status \in {"PARTIALLY_REFUNDED", "REFUNDED"}
<1> DEFINE t == Transition(p, StatusAfterRefund(p, a), "payment.refunded")
           u == Refund(p, a)
<1>1. Add64(p.refunded, a) \in Int64 BY Add64Type DEF Aggregate
<1>2. StatusAfterRefund(p, a) \in {"PARTIALLY_REFUNDED", "REFUNDED"}
  BY DEF StatusAfterRefund
<1>3. /\ t \in Aggregate
      /\ t.id = p.id /\ t.key = p.key /\ t.amount = p.amount /\ t.ref = p.ref
      /\ t.refunded = p.refunded /\ t.status = StatusAfterRefund(p, a)
      /\ t.version = p.version + 1
  BY <1>2, TransitionType DEF Status, EventNames
<1>4. u = [t EXCEPT !.refunded = Add64(t.refunded, a)]
  BY DEF Refund
<1> HIDE DEF t, u
<1>5. /\ u \in Aggregate
      /\ u.id = p.id /\ u.key = p.key /\ u.amount = p.amount /\ u.ref = p.ref
      /\ u.refunded = Add64(p.refunded, a) /\ u.version = p.version + 1
      /\ u.status = StatusAfterRefund(p, a)
  BY <1>1, <1>3, <1>4 DEF Aggregate
<1> QED BY <1>2, <1>5 DEF u

(* Rows and aggregates are converted without losing a column.              *)
LEMMA SnapshotType ==
  ASSUME NEW p \in Aggregate
  PROVE  /\ ToSnapshot(p) \in Snapshot
         /\ ToSnapshot(p).id = p.id /\ ToSnapshot(p).key = p.key
         /\ ToSnapshot(p).amount = p.amount /\ ToSnapshot(p).ref = p.ref
         /\ ToSnapshot(p).refunded = p.refunded
         /\ ToSnapshot(p).status = p.status /\ ToSnapshot(p).version = p.version
BY DEF ToSnapshot, Snapshot, Aggregate

(* The aggregate a row gives back.                                         *)
LEMMA AggregateType ==
  ASSUME NEW s \in Snapshot
  PROVE  /\ FromSnapshot(s) \in Aggregate
         /\ FromSnapshot(s).id = s.id /\ FromSnapshot(s).key = s.key
         /\ FromSnapshot(s).amount = s.amount /\ FromSnapshot(s).ref = s.ref
         /\ FromSnapshot(s).refunded = s.refunded
         /\ FromSnapshot(s).status = s.status /\ FromSnapshot(s).version = s.version
<1>1. <<>> \in Seq(EventNames) OBVIOUS
<1> QED BY <1>1 DEF FromSnapshot, Snapshot, Aggregate

-----------------------------------------------------------------------------
(* The states of the handlers.                                             *)

(* A busy ProcessPaymentHandler holds an aggregate.                        *)
LEMMA BusyProcess ==
  ASSUME TypeOK, NEW r \in Replicas, process[r] # Idle
  PROVE  /\ process[r] \in ProcessState
         /\ process[r].p \in Aggregate
         /\ process[r].at \in {"authorize", "capture", "save", "reload", "commit"}
         /\ process[r].gw \in Gateways \cup {"", "pix"}
BY DEF TypeOK, ProcessState

(* A busy RefundPaymentHandler holds an aggregate and the amount asked.    *)
LEMMA BusyRefund ==
  ASSUME TypeOK, NEW r \in Replicas, refund[r] # Idle
  PROVE  /\ refund[r] \in RefundState
         /\ refund[r].p \in Aggregate
         /\ refund[r].at \in {"gateway", "update", "commit"}
         /\ refund[r].amount \in RefundAmounts
BY DEF TypeOK, RefundState

(* A handler moves on, or goes idle.                                       *)
LEMMA ProcessMoves ==
  ASSUME NEW s \in ProcessState,
         NEW at \in {"authorize", "capture", "save", "reload", "commit"}
  PROVE  LET st == [s EXCEPT !.at = at] IN
         /\ st \in ProcessState
         /\ st.at = at /\ st.gw = s.gw /\ st.p = s.p
         /\ st # Idle
BY DEF ProcessState, Idle

(* The same of a refund handler.                                           *)
LEMMA RefundMoves ==
  ASSUME NEW s \in RefundState, NEW at \in {"gateway", "update", "commit"}
  PROVE  LET st == [s EXCEPT !.at = at] IN
         /\ st \in RefundState
         /\ st.at = at /\ st.amount = s.amount /\ st.p = s.p
         /\ st # Idle
BY DEF RefundState, Idle

(* Every event of a commit is well formed.                                 *)
LEMMA EventsType ==
  ASSUME NEW p \in Aggregate, NEW n \in Sent(p)
  PROVE  IntegrationEvents(p, n) \subseteq Event
<1>1. \A i \in 1 .. n : p.events[i] \in EventNames
  BY DEF Sent, Aggregate
<1> QED BY <1>1 DEF IntegrationEvents, Event, Aggregate

-----------------------------------------------------------------------------
(* What the invariant keeps when a step leaves some of the state alone.    *)

(* The rows stay: so does what is known of them and of the answers.        *)
LEMMA RowsFrame ==
  ASSUME IInv, payments' = payments, nextId' \in Nat, nextId <= nextId',
         applied' = applied, charges \subseteq charges'
  PROVE  KeysUnique' /\ RowsInv' /\ AppliedInv' /\ CapturedWasCharged'
<1>1. KeysUnique' BY DEF IInv, KeysUnique
<1>2. RowsInv'
  <2>1. nextId \in Nat /\ DOMAIN payments \subseteq Nat
    BY IdsType DEF IInv
  <2> QED BY <2>1 DEF IInv, RowsInv
<1>3. AppliedInv' BY DEF IInv, AppliedInv, NoLostRefund
<1>4. CapturedWasCharged' BY DEF IInv, CapturedWasCharged
<1> QED BY <1>1, <1>2, <1>3, <1>4

(* One ProcessPaymentHandler moves to st, the rows stay.                   *)
LEMMA ProcessFrame ==
  ASSUME IInv, NEW r \in Replicas, NEW st,
         process' = [process EXCEPT ![r] = st],
         payments' = payments, nextId' \in Nat, nextId <= nextId',
         charges \subseteq charges',
         st # Idle => ProcessOK(r)',
         st # Idle => \A s \in Replicas :
                        s # r /\ process[s] # Idle => process[s].p.id # st.p.id
  PROVE  ProcessInv' /\ IdsDistinct'
<1>1. \A s \in Replicas : s # r => process'[s] = process[s]
  BY DEF IInv, TypeOK
<1>2. process'[r] = st
  BY DEF IInv, TypeOK
<1>3. ASSUME NEW s \in Replicas, s # r, process[s] # Idle
      PROVE  ProcessOK(s)'
  <2>1. ProcessOK(s) BY <1>3 DEF IInv, ProcessInv
  <2>2. process[s].p.id \in Nat /\ nextId \in Nat
    <3>1. process[s].p.id \in PaymentIDs
      BY <1>3, BusyProcess DEF IInv, Aggregate
    <3> QED BY <3>1, IdsType DEF IInv
  <2>3. ChargeOf(s)' = ChargeOf(s) BY <1>1, <1>3 DEF ChargeOf
  <2>4. process'[s] = process[s] BY <1>1, <1>3
  <2>5. process[s].p.id < nextId' BY <2>1, <2>2 DEF ProcessOK
  <2> QED BY <2>1, <2>3, <2>4, <2>5 DEF ProcessOK
<1>4. ProcessInv'
  BY <1>1, <1>2, <1>3 DEF ProcessInv
<1>5. IdsDistinct'
  BY <1>1, <1>2 DEF IInv, IdsDistinct
<1> QED BY <1>4, <1>5

(* The refund handlers and the rows stay.                                  *)
LEMMA RefundFrame ==
  ASSUME IInv, payments' = payments, refund' = refund
  PROVE  RefundInv'
BY DEF IInv, RefundInv, RefundOK

(* The process handlers, the rows and the charges stay.                    *)
LEMMA ProcessSame ==
  ASSUME IInv, payments' = payments, process' = process, nextId' = nextId,
         charges' = charges
  PROVE  ProcessInv' /\ IdsDistinct'
BY DEF IInv, ProcessInv, IdsDistinct, ProcessOK, ChargeOf

(* One RefundPaymentHandler moves to st, the rows stay.                    *)
LEMMA RefundMove ==
  ASSUME IInv, NEW r \in Replicas, NEW st,
         refund' = [refund EXCEPT ![r] = st],
         payments' = payments,
         st # Idle => RefundOK(r)'
  PROVE  RefundInv'
<1>1. \A s \in Replicas : s # r => refund'[s] = refund[s]
  BY DEF IInv, TypeOK
<1>2. refund'[r] = st
  BY DEF IInv, TypeOK
<1>3. ASSUME NEW s \in Replicas, s # r, refund[s] # Idle
      PROVE  RefundOK(s)'
  <2>1. RefundOK(s) BY <1>3 DEF IInv, RefundInv
  <2> QED BY <2>1, <1>1, <1>3 DEF RefundOK
<1> QED BY <1>1, <1>2, <1>3 DEF RefundInv

(* The answers stay, or gain a stored payment of their key.                *)
LEMMA AnswersFrame ==
  ASSUME IInv, payments' = payments, answers' \subseteq answers \cup Keys \X PaymentIDs,
         \A a \in answers' : a \in answers \/ a[2] \in Stored(a[1])
  PROVE  AnswersStored'
BY DEF IInv, AnswersStored, Stored

-----------------------------------------------------------------------------
(* Each step of ProcessPaymentHandler keeps the invariant.                 *)

(* Initially everything is empty or idle.                                  *)
LEMMA InitInv == Init => IInv
<1> SUFFICES ASSUME Init PROVE IInv
  OBVIOUS
<1>1. DOMAIN payments = {}
  BY DEF Init
<1>2. TypeOK
  <2>1. payments \in [DOMAIN payments -> Snapshot] BY <1>1 DEF Init
  <2>2. nextId \in 1 .. MaxPayments + 1
    <3>1. nextId = 1 BY DEF Init
    <3> QED BY <3>1, BoundsType
  <2>3. active \in [Replicas -> Gateways] BY DEF Init, Gateways
  <2>4. mockRefs \in [Replicas -> [Keys -> Refs \cup {NoRef}]] BY DEF Init
  <2>5. refundCalls \in [Gateways \X Refs \X RefundAmounts -> 0 .. MaxRefundCalls]
    <3>1. 0 \in 0 .. MaxRefundCalls BY BoundsType
    <3> QED BY <3>1 DEF Init
  <2>6. applied \in [PaymentIDs -> Nat]
    BY DEF Init
  <2>7. process \in [Replicas -> ProcessState \cup {Idle}]
    BY DEF Init
  <2>8. refund \in [Replicas -> RefundState \cup {Idle}]
    BY DEF Init
  <2>9. charges \subseteq Charge /\ answers \subseteq Keys \X PaymentIDs
        /\ published \subseteq Event
    BY DEF Init
  <2> QED BY <1>1, <2>1, <2>2, <2>3, <2>4, <2>5, <2>6, <2>7, <2>8, <2>9 DEF TypeOK
<1>3. KeysUnique /\ RowsInv /\ CapturedWasCharged
  BY <1>1 DEF KeysUnique, RowsInv, CapturedWasCharged
<1>4. ProcessInv /\ IdsDistinct /\ RefundInv
  BY DEF Init, ProcessInv, IdsDistinct, RefundInv
<1>5. AnswersStored /\ AppliedInv
  BY <1>1 DEF Init, AnswersStored, AppliedInv, NoLostRefund
<1> QED BY <1>2, <1>3, <1>4, <1>5 DEF IInv

(* Replay only answers the stored payment of the key.                      *)
LEMMA ReplayInv ==
  ASSUME IInv, NEW r \in Replicas, NEW cmd \in ProcessCommands, Replay(r, cmd)
  PROVE  IInv'
<1>1. PICK id \in Stored(cmd.key) : answers' = answers \cup {<<cmd.key, id>>}
  BY DEF Replay, Answer
<1>2. UNCHANGED <<payments, nextId, active, mockRefs, process, refund, charges,
                  refundCalls, applied, published>>
  BY DEF Replay, gatewayVars
<1>3. cmd.key \in Keys /\ id \in PaymentIDs
  BY CommandsType DEF Stored, IInv, TypeOK
<1>4. TypeOK'
  BY <1>1, <1>2, <1>3 DEF IInv, TypeOK
<1>5. KeysUnique' /\ RowsInv' /\ AppliedInv' /\ CapturedWasCharged'
  BY <1>2, RowsFrame, IdsType DEF IInv
<1>6. ProcessInv' /\ IdsDistinct' /\ RefundInv'
  BY <1>2, ProcessSame, RefundFrame
<1>7. AnswersStored'
  BY <1>1, <1>2 DEF IInv, AnswersStored, Stored
<1> QED BY <1>4, <1>5, <1>6, <1>7 DEF IInv

(* A new payment takes an id nobody has.                                   *)
LEMMA BeginInv ==
  ASSUME IInv, NEW r \in Replicas, NEW cmd \in ProcessCommands, Begin(r, cmd)
  PROVE  IInv'
<1> DEFINE p  == NewPayment(nextId, cmd.key, cmd.amount)
           st == [at |-> "authorize", gw |-> cmd.gw, p |-> p]
<1>1. /\ UNCHANGED <<payments, active, mockRefs, refund, charges, refundCalls,
                     applied, answers, published>>
      /\ process' = [process EXCEPT ![r] = st]
      /\ nextId' = nextId + 1 /\ nextId <= MaxPayments
  BY DEF Begin, gatewayVars, ProcessTo
<1>2. /\ nextId \in Nat /\ nextId \in PaymentIDs
      /\ nextId' \in 1 .. MaxPayments + 1 /\ nextId' \in Nat /\ nextId <= nextId'
  BY <1>1, IdsType DEF IInv
<1>3. /\ p \in Aggregate /\ p.id = nextId /\ p.key = cmd.key
      /\ p.refunded = 0 /\ p.status = "PENDING"
  <2>1. cmd.key \in Keys /\ cmd.amount \in Amounts
    BY CommandsType
  <2> QED BY <1>2, <2>1, NewPaymentType
<1> HIDE DEF p
<1>4. /\ st \in ProcessState /\ st # Idle
      /\ st.at = "authorize" /\ st.gw = cmd.gw /\ st.p = p
  <2>1. cmd.gw \in Gateways \cup {"", "pix"}
    BY CommandsType
  <2>2. p \in Aggregate
    BY <1>3
  <2> QED BY <2>1, <2>2 DEF ProcessState, Idle
<1> HIDE DEF st
<1>5. TypeOK'
  <2>1. process' \in [Replicas -> ProcessState \cup {Idle}]
    BY <1>1, <1>4 DEF IInv, TypeOK
  <2> QED BY <2>1, <1>1, <1>2 DEF IInv, TypeOK
<1>6. KeysUnique' /\ RowsInv' /\ AppliedInv' /\ CapturedWasCharged'
  BY <1>1, <1>2, RowsFrame
<1>7. ProcessOK(r)'
  <2>1. nextId \notin DOMAIN payments
    BY <1>2 DEF IInv, RowsInv
  <2>2. process'[r] = st
    BY <1>1 DEF IInv, TypeOK
  <2> QED BY <2>1, <2>2, <1>1, <1>2, <1>3, <1>4 DEF ProcessOK
<1>8. ASSUME NEW s \in Replicas, process[s] # Idle
      PROVE  process[s].p.id # st.p.id
  <2>1. process[s].p.id < nextId BY <1>8 DEF IInv, ProcessInv, ProcessOK
  <2> QED BY <2>1, <1>2, <1>3, <1>4
<1>9. ProcessInv' /\ IdsDistinct'
  BY <1>1, <1>2, <1>7, <1>8, ProcessFrame
<1>10. RefundInv' /\ AnswersStored'
  BY <1>1, RefundFrame DEF IInv, AnswersStored, Stored
<1> QED BY <1>5, <1>6, <1>9, <1>10 DEF IInv

(* The gateway approves: the payment is authorized and captured in memory. *)
LEMMA AuthorizeAtGatewayInv ==
  ASSUME IInv, NEW r \in Replicas, AuthorizeAtGateway(r)
  PROVE  IInv'
<1> DEFINE p   == process[r].p
           gw  == SelectGateway(r)
           ref == ChargeRef(r, gw, p)
           q   == Capture(Authorize(p, ref))
           st  == [at |-> "capture", gw |-> gw, p |-> q]
<1>1. /\ UNCHANGED <<payments, nextId, active, refund, charges, refundCalls,
                     applied, answers, published>>
      /\ process' = [process EXCEPT ![r] = st]
      /\ process[r] # Idle /\ process[r].at = "authorize"
      /\ gw \in Gateways
      /\ mockRefs' = IF gw = "mock" THEN [mockRefs EXCEPT ![r][p.key] = ref]
                                    ELSE mockRefs
  BY DEF AuthorizeAtGateway, ProcessTo
<1>2. p \in Aggregate /\ p.id \in PaymentIDs /\ p.key \in Keys
  BY <1>1, BusyProcess DEF IInv, Aggregate
<1>3. ref \in Refs
  <2>1. <<"ch_", p.key>> \in Refs /\ <<"mock_", p.id>> \in Refs
    BY <1>2 DEF Refs
  <2>2. mockRefs[r][p.key] # NoRef => mockRefs[r][p.key] \in Refs
    BY <1>2 DEF IInv, TypeOK
  <2> QED BY <2>1, <2>2 DEF ChargeRef
<1> HIDE DEF ref
<1>4. /\ q \in Aggregate /\ q.id = p.id /\ q.refunded = p.refunded
      /\ q.ref = ref /\ q.status = "CAPTURED"
  BY <1>2, <1>3, CapturedType
<1> HIDE DEF q, gw
<1>5. /\ st \in ProcessState /\ st # Idle
      /\ st.at = "capture" /\ st.gw = gw /\ st.p = q
  BY <1>1, <1>4 DEF ProcessState, Idle
<1> HIDE DEF st
<1>6. TypeOK'
  <2>1. process' \in [Replicas -> ProcessState \cup {Idle}]
    BY <1>1, <1>5 DEF IInv, TypeOK
  <2>2. mockRefs' \in [Replicas -> [Keys -> Refs \cup {NoRef}]]
    BY <1>1, <1>2, <1>3 DEF IInv, TypeOK
  <2> QED BY <2>1, <2>2, <1>1 DEF IInv, TypeOK
<1>7. KeysUnique' /\ RowsInv' /\ AppliedInv' /\ CapturedWasCharged'
  BY <1>1, RowsFrame, IdsType DEF IInv
<1>8. ProcessOK(r)'
  <2>1. process'[r] = st
    BY <1>1 DEF IInv, TypeOK
  <2>2. ProcessOK(r)
    BY <1>1 DEF IInv, ProcessInv
  <2> QED BY <2>1, <2>2, <1>1, <1>3, <1>4, <1>5 DEF ProcessOK
<1>9. ProcessInv' /\ IdsDistinct'
  <2>1. \A s \in Replicas : s # r /\ process[s] # Idle => process[s].p.id # st.p.id
    BY <1>1, <1>4, <1>5 DEF IInv, IdsDistinct
  <2>2. nextId' \in Nat /\ nextId <= nextId'
    BY <1>1, IdsType DEF IInv
  <2> QED BY <2>1, <2>2, <1>1, <1>8, ProcessFrame
<1>10. RefundInv' /\ AnswersStored'
  BY <1>1, RefundFrame DEF IInv, AnswersStored, Stored
<1> QED BY <1>6, <1>7, <1>9, <1>10 DEF IInv

(* Declined or unanswered: the payment fails.                              *)
LEMMA AuthorizeFailsInv ==
  ASSUME IInv, NEW r \in Replicas, AuthorizeFails(r)
  PROVE  IInv'
<1> DEFINE p   == process[r].p
           gw  == SelectGateway(r)
           q   == Fail(p)
           st  == [at |-> "save", gw |-> gw, p |-> q]
<1>1. /\ UNCHANGED <<payments, nextId, active, mockRefs, refund, charges,
                     refundCalls, applied, answers, published>>
      /\ process' = [process EXCEPT ![r] = st]
      /\ process[r] # Idle /\ process[r].at = "authorize"
      /\ gw \in Gateways
  BY DEF AuthorizeFails, ProcessTo, gatewayVars
<1>2. ProcessOK(r)
  BY <1>1 DEF IInv, ProcessInv
<1>3. p \in Aggregate /\ p.status = "PENDING"
  BY <1>1, <1>2, BusyProcess DEF IInv, ProcessOK
<1>4. /\ q \in Aggregate /\ q.id = p.id /\ q.refunded = p.refunded
      /\ q.status = "FAILED"
  BY <1>3, FailType
<1> HIDE DEF q, gw
<1>5. /\ st \in ProcessState /\ st # Idle
      /\ st.at = "save" /\ st.gw = gw /\ st.p = q
  BY <1>1, <1>4 DEF ProcessState, Idle
<1> HIDE DEF st
<1>6. TypeOK'
  <2>1. process' \in [Replicas -> ProcessState \cup {Idle}]
    BY <1>1, <1>5 DEF IInv, TypeOK
  <2> QED BY <2>1, <1>1 DEF IInv, TypeOK
<1>7. KeysUnique' /\ RowsInv' /\ AppliedInv' /\ CapturedWasCharged'
  BY <1>1, RowsFrame, IdsType DEF IInv
<1>8. ProcessOK(r)'
  <2>1. process'[r] = st
    BY <1>1 DEF IInv, TypeOK
  <2> QED BY <2>1, <1>1, <1>2, <1>4, <1>5 DEF ProcessOK
<1>9. ProcessInv' /\ IdsDistinct'
  <2>1. \A s \in Replicas : s # r /\ process[s] # Idle => process[s].p.id # st.p.id
    BY <1>1, <1>4, <1>5 DEF IInv, IdsDistinct
  <2>2. nextId' \in Nat /\ nextId <= nextId'
    BY <1>1, IdsType DEF IInv
  <2> QED BY <2>1, <2>2, <1>1, <1>8, ProcessFrame
<1>10. RefundInv' /\ AnswersStored'
  BY <1>1, RefundFrame DEF IInv, AnswersStored, Stored
<1> QED BY <1>6, <1>7, <1>9, <1>10 DEF IInv

(* The money is captured, the payment still only in memory.                *)
LEMMA CaptureAtGatewayInv ==
  ASSUME IInv, NEW r \in Replicas, CaptureAtGateway(r)
  PROVE  IInv'
<1> DEFINE st == [process[r] EXCEPT !.at = "save"]
<1>1. /\ UNCHANGED <<payments, nextId, active, mockRefs, refund, refundCalls,
                     applied, answers, published>>
      /\ process' = [process EXCEPT ![r] = st]
      /\ process[r] # Idle /\ process[r].at = "capture"
      /\ charges' = charges \cup {ChargeOf(r)}
  BY DEF CaptureAtGateway, ProcessTo
<1>2. ProcessOK(r)
  BY <1>1 DEF IInv, ProcessInv
<1>3. process[r] \in ProcessState /\ process[r].p \in Aggregate
  BY <1>1, BusyProcess DEF IInv
<1>4. /\ st \in ProcessState /\ st # Idle /\ st.at = "save"
      /\ st.p = process[r].p /\ st.gw = process[r].gw
  BY <1>3, ProcessMoves
<1> HIDE DEF st
<1>5. ChargeOf(r) \in Charge
  BY <1>1, <1>2, <1>3 DEF ChargeOf, Charge, ProcessOK, Aggregate
<1>6. TypeOK'
  <2>1. process' \in [Replicas -> ProcessState \cup {Idle}]
    BY <1>1, <1>4 DEF IInv, TypeOK
  <2>2. charges' \subseteq Charge
    BY <1>1, <1>5 DEF IInv, TypeOK
  <2> QED BY <2>1, <2>2, <1>1 DEF IInv, TypeOK
<1>7. KeysUnique' /\ RowsInv' /\ AppliedInv' /\ CapturedWasCharged'
  BY <1>1, RowsFrame, IdsType DEF IInv
<1>8. ProcessOK(r)'
  <2>1. process'[r] = st
    BY <1>1 DEF IInv, TypeOK
  <2>2. ChargeOf(r)' = ChargeOf(r)
    BY <2>1, <1>4 DEF ChargeOf
  <2> QED BY <2>1, <2>2, <1>1, <1>2, <1>4 DEF ProcessOK
<1>9. ProcessInv' /\ IdsDistinct'
  <2>1. \A s \in Replicas : s # r /\ process[s] # Idle => process[s].p.id # st.p.id
    BY <1>1, <1>4 DEF IInv, IdsDistinct
  <2>2. nextId' \in Nat /\ nextId <= nextId'
    BY <1>1, IdsType DEF IInv
  <2> QED BY <2>1, <2>2, <1>1, <1>8, ProcessFrame
<1>10. RefundInv' /\ AnswersStored'
  BY <1>1, RefundFrame DEF IInv, AnswersStored, Stored
<1> QED BY <1>6, <1>7, <1>9, <1>10 DEF IInv

(* A handler that ends its request, whatever it answered or published.     *)
LEMMA ProcessEnds ==
  ASSUME IInv, NEW r \in Replicas, process' = [process EXCEPT ![r] = Idle],
         UNCHANGED <<payments, nextId, active, mockRefs, refund, refundCalls, applied>>,
         charges \subseteq charges', charges' \subseteq Charge,
         answers' \subseteq Keys \X PaymentIDs, AnswersStored',
         published' \subseteq Event
  PROVE  IInv'
<1>1. TypeOK'
  <2>1. process' \in [Replicas -> ProcessState \cup {Idle}]
    BY DEF IInv, TypeOK
  <2> QED BY <2>1 DEF IInv, TypeOK
<1>2. nextId' \in Nat /\ nextId <= nextId'
  BY IdsType DEF IInv
<1>3. KeysUnique' /\ RowsInv' /\ AppliedInv' /\ CapturedWasCharged'
  BY <1>2, RowsFrame
<1>4. ProcessInv' /\ IdsDistinct'
  BY <1>2, ProcessFrame
<1>5. RefundInv'
  BY RefundFrame
<1> QED BY <1>1, <1>3, <1>4, <1>5 DEF IInv

(* The answers and the rows stay: every answer is still stored.            *)
LEMMA SameAnswers ==
  ASSUME IInv, answers' = answers, payments' = payments
  PROVE  AnswersStored'
BY DEF IInv, AnswersStored, Stored

(* A capture that failed, with or without effect.                          *)
LEMMA CaptureFailsInv ==
  ASSUME IInv, NEW r \in Replicas, CaptureFails(r)
  PROVE  IInv'
<1>1. /\ UNCHANGED <<payments, nextId, active, mockRefs, refund, refundCalls,
                     applied, answers, published>>
      /\ process' = [process EXCEPT ![r] = Idle]
      /\ process[r] # Idle /\ process[r].at = "capture"
      /\ charges' \in {charges, charges \cup {ChargeOf(r)}}
  BY DEF CaptureFails, ProcessTo
<1>2. ChargeOf(r) \in Charge
  <2>1. ProcessOK(r) /\ process[r].p \in Aggregate
    BY <1>1, BusyProcess DEF IInv, ProcessInv
  <2> QED BY <2>1, <1>1 DEF ChargeOf, Charge, ProcessOK, Aggregate
<1>3. charges \subseteq charges' /\ charges' \subseteq Charge
  BY <1>1, <1>2 DEF IInv, TypeOK
<1>4. answers' \subseteq Keys \X PaymentIDs /\ published' \subseteq Event
  BY <1>1 DEF IInv, TypeOK
<1> QED BY <1>1, <1>3, <1>4, SameAnswers, ProcessEnds

(* The steps that end a request and change nothing.                        *)
LEMMA UnknownGatewayInv ==
  ASSUME IInv, NEW r \in Replicas, UnknownGateway(r) \/ ReloadFails(r)
  PROVE  IInv'
<1>1. /\ UNCHANGED <<payments, nextId, active, mockRefs, refund, charges,
                     refundCalls, applied, answers, published>>
      /\ process' = [process EXCEPT ![r] = Idle]
  BY DEF UnknownGateway, ReloadFails, ProcessTo, gatewayVars
<1>2. /\ charges' \subseteq Charge /\ answers' \subseteq Keys \X PaymentIDs
      /\ published' \subseteq Event
  BY <1>1 DEF IInv, TypeOK
<1> QED BY <1>1, <1>2, SameAnswers, ProcessEnds

(* The loser of a race answers the payment that won.                       *)
LEMMA AnswerWinnerInv ==
  ASSUME IInv, NEW r \in Replicas, AnswerWinner(r)
  PROVE  IInv'
<1>1. /\ UNCHANGED <<payments, nextId, active, mockRefs, refund, charges,
                     refundCalls, applied, published>>
      /\ process' = [process EXCEPT ![r] = Idle]
      /\ process[r] # Idle
  BY DEF AnswerWinner, ProcessTo, gatewayVars
<1> DEFINE key == process[r].p.key
<1>2. PICK id \in Stored(key) : answers' = answers \cup {<<key, id>>}
  BY DEF AnswerWinner, Answer
<1>3. key \in Keys /\ id \in PaymentIDs
  <2>1. key \in Keys
    BY <1>1, BusyProcess DEF IInv, Aggregate
  <2>2. id \in PaymentIDs
    BY DEF Stored, IInv, TypeOK
  <2> QED BY <2>1, <2>2
<1> HIDE DEF key
<1>4. /\ charges' \subseteq Charge /\ answers' \subseteq Keys \X PaymentIDs
      /\ published' \subseteq Event
  BY <1>1, <1>2, <1>3 DEF IInv, TypeOK
<1>5. AnswersStored'
  BY <1>1, <1>2 DEF IInv, AnswersStored, Stored
<1> QED BY <1>1, <1>4, <1>5, ProcessEnds

(* The winner answers its own payment.                                     *)
LEMMA CommitProcessInv ==
  ASSUME IInv, NEW r \in Replicas, CommitProcess(r)
  PROVE  IInv'
<1> DEFINE p == process[r].p
<1>1. /\ UNCHANGED <<payments, nextId, active, mockRefs, refund, charges,
                     refundCalls, applied>>
      /\ process' = [process EXCEPT ![r] = Idle]
      /\ process[r] # Idle /\ process[r].at = "commit"
      /\ answers' = answers \cup {<<p.key, p.id>>}
  BY DEF CommitProcess, ProcessTo, gatewayVars, Answer
<1>2. PICK n \in Sent(p) : published' = published \cup IntegrationEvents(p, n)
  BY DEF CommitProcess
<1>3. p \in Aggregate /\ p.key \in Keys /\ p.id \in PaymentIDs
  BY <1>1, BusyProcess DEF IInv, Aggregate
<1>4. p.id \in DOMAIN payments /\ payments[p.id].key = p.key
  BY <1>1 DEF IInv, ProcessInv, ProcessOK
<1>5. published' \subseteq Event
  BY <1>2, <1>3, EventsType DEF IInv, TypeOK
<1> HIDE DEF p
<1>6. charges' \subseteq Charge /\ answers' \subseteq Keys \X PaymentIDs
  BY <1>1, <1>3 DEF IInv, TypeOK
<1>7. AnswersStored'
  BY <1>1, <1>4 DEF IInv, AnswersStored, Stored
<1> QED BY <1>1, <1>5, <1>6, <1>7, ProcessEnds

(* The key was taken: the handler goes on to read the winner.              *)
LEMMA SaveConflictsInv ==
  ASSUME IInv, NEW r \in Replicas, SaveConflicts(r)
  PROVE  IInv'
<1> DEFINE st == [process[r] EXCEPT !.at = "reload"]
<1>1. /\ UNCHANGED <<payments, nextId, active, mockRefs, refund, charges,
                     refundCalls, applied, answers, published>>
      /\ process' = [process EXCEPT ![r] = st]
      /\ process[r] # Idle /\ process[r].at = "save"
  BY DEF SaveConflicts, ProcessTo, gatewayVars
<1>2. ProcessOK(r) /\ process[r] \in ProcessState
  BY <1>1, BusyProcess DEF IInv, ProcessInv
<1>3. st \in ProcessState /\ st # Idle /\ st.at = "reload" /\ st.p = process[r].p
  BY <1>2, ProcessMoves
<1> HIDE DEF st
<1>4. process' \in [Replicas -> ProcessState \cup {Idle}] /\ process'[r] = st
  BY <1>1, <1>3 DEF IInv, TypeOK
<1>5. TypeOK'
  BY <1>1, <1>4 DEF IInv, TypeOK
<1>6. nextId' \in Nat /\ nextId <= nextId'
  BY <1>1, IdsType DEF IInv
<1>7. KeysUnique' /\ RowsInv' /\ AppliedInv' /\ CapturedWasCharged'
  BY <1>1, <1>6, RowsFrame
<1>8. ProcessOK(r)'
  BY <1>1, <1>2, <1>3, <1>4 DEF ProcessOK
<1>9. ProcessInv' /\ IdsDistinct'
  <2>1. \A s \in Replicas : s # r /\ process[s] # Idle => process[s].p.id # st.p.id
    BY <1>1, <1>3 DEF IInv, IdsDistinct
  <2> QED BY <2>1, <1>1, <1>6, <1>8, ProcessFrame
<1> QED BY <1>1, <1>5, <1>7, <1>9, RefundFrame, SameAnswers DEF IInv

(* The insert: the only way a row appears.  The handler goes on to commit, *)
(* or ends when the database's answer was lost.                            *)
LEMMA InsertInv ==
  ASSUME IInv, NEW r \in Replicas, process[r] # Idle, process[r].at = "save",
         CanInsert(process[r].p), payments' = Inserted(process[r].p),
         NEW st \in {Idle, [process[r] EXCEPT !.at = "commit"]},
         process' = [process EXCEPT ![r] = st],
         UNCHANGED <<nextId, active, mockRefs, refund, charges, refundCalls,
                     applied, answers, published>>
  PROVE  IInv'
<1> DEFINE p   == process[r].p
           row == ToSnapshot(p)
<1>1. /\ ProcessOK(r) /\ process[r] \in ProcessState
      /\ p \in Aggregate /\ p.id \in PaymentIDs
  BY BusyProcess DEF IInv, ProcessInv, Aggregate
<1>2. /\ row \in Snapshot /\ row.id = p.id /\ row.key = p.key /\ row.ref = p.ref
      /\ row.amount = p.amount /\ row.refunded = p.refunded
      /\ row.status = p.status
  BY <1>1, SnapshotType
<1>3. st # Idle => /\ st \in ProcessState /\ st.at = "commit" /\ st.p = p
  <2>1. LET next == [process[r] EXCEPT !.at = "commit"]
        IN  next \in ProcessState /\ next.at = "commit" /\ next.p = p
    BY <1>1, ProcessMoves
  <2> QED BY <2>1
<1>4. /\ DOMAIN payments' = DOMAIN payments \cup {p.id}
      /\ \A id \in DOMAIN payments : payments'[id] = payments[id]
      /\ payments'[p.id] = row
      /\ p.id \notin DOMAIN payments
      /\ payments' = [id \in DOMAIN payments' |-> payments'[id]]
  <2>1. /\ row = ToSnapshot(p) /\ p.id \notin DOMAIN payments
        /\ payments' = [id \in DOMAIN payments \cup {p.id} |->
                         IF id = p.id THEN row ELSE payments[id]]
    BY <1>1 DEF Inserted, ProcessOK
  <2> HIDE DEF row, p
  <2> QED BY <2>1
<1>5. \A id \in DOMAIN payments : payments[id].key # p.key
  BY DEF CanInsert, Stored
<1>6. /\ process'[r] = st /\ \A s \in Replicas : s # r => process'[s] = process[s]
      /\ process' \in [Replicas -> ProcessState \cup {Idle}]
  BY <1>3 DEF IInv, TypeOK
<1>7. /\ p.refunded = 0 /\ p.id < nextId
      /\ p.status \in {"CAPTURED", "FAILED"}
      /\ p.status = "CAPTURED" => p.ref \in Refs /\ ChargeOf(r) \in charges
  BY <1>1 DEF ProcessOK
<1>8. ChargeOf(r).ref = p.ref /\ ChargeOf(r).key = p.key /\ ChargeOf(r).amount = p.amount
  BY DEF ChargeOf
<1> HIDE DEF p, row
<1>9. TypeOK'
  <2>1. DOMAIN payments' \subseteq PaymentIDs
    BY <1>1, <1>4 DEF IInv, TypeOK
  <2>2. \A id \in DOMAIN payments' : payments'[id] \in Snapshot
    BY <1>2, <1>4 DEF IInv, TypeOK
  <2>3. payments' \in [DOMAIN payments' -> Snapshot]
    BY <1>4, <2>2
  <2> QED BY <1>6, <2>1, <2>3 DEF IInv, TypeOK
<1>10. KeysUnique'
  BY <1>2, <1>4, <1>5 DEF IInv, KeysUnique
<1>11. RowsInv'
  BY <1>2, <1>4, <1>7 DEF IInv, RowsInv
<1>12. ProcessInv'
  <2>1. ASSUME NEW s \in Replicas, s # r, process[s] # Idle
        PROVE  ProcessOK(s)'
    <3>1. ProcessOK(s) /\ process'[s] = process[s] /\ process[s].p.id # p.id
      BY <2>1, <1>6 DEF IInv, ProcessInv, IdsDistinct, p
    <3>2. ChargeOf(s)' = ChargeOf(s)
      BY <3>1 DEF ChargeOf
    <3> QED BY <3>1, <3>2, <1>4 DEF ProcessOK
  <2>2. st # Idle => ProcessOK(r)'
    BY <1>2, <1>3, <1>4, <1>6, <1>7 DEF ProcessOK
  <2> QED BY <2>1, <2>2, <1>6 DEF ProcessInv
<1>13. IdsDistinct'
  BY <1>3, <1>6 DEF IInv, IdsDistinct, p
<1>14. RefundInv'
  <2>1. ASSUME NEW s \in Replicas, refund[s] # Idle
        PROVE  RefundOK(s)'
    <3>1. RefundOK(s) BY <2>1 DEF IInv, RefundInv
    <3>2. payments'[refund[s].p.id] = payments[refund[s].p.id]
      BY <3>1, <1>4 DEF RefundOK
    <3> QED BY <3>1, <3>2, <1>4 DEF RefundOK
  <2> QED BY <2>1 DEF RefundInv
<1>15. AnswersStored'
  BY <1>4 DEF IInv, AnswersStored, Stored
<1>16. AppliedInv'
  BY <1>1, <1>2, <1>4, <1>7, SameZero DEF IInv, AppliedInv, NoLostRefund
<1>17. CapturedWasCharged'
  BY <1>2, <1>4, <1>7, <1>8 DEF IInv, CapturedWasCharged
<1> QED BY <1>9, <1>10, <1>11, <1>12, <1>13, <1>14, <1>15, <1>16, <1>17 DEF IInv

(* Save succeeds: the insert, then the commit.                             *)
LEMMA SavePaymentInv ==
  ASSUME IInv, NEW r \in Replicas, SavePayment(r)
  PROVE  IInv'
<1> DEFINE st == [process[r] EXCEPT !.at = "commit"]
<1>1. /\ process[r] # Idle /\ process[r].at = "save"
      /\ CanInsert(process[r].p) /\ payments' = Inserted(process[r].p)
      /\ process' = [process EXCEPT ![r] = st]
      /\ UNCHANGED <<nextId, active, mockRefs, refund, charges, refundCalls,
                     applied, answers, published>>
  BY DEF SavePayment, ProcessTo, gatewayVars
<1> QED BY <1>1, InsertInv

(* An error of Save loses the request, and the row unless it was committed.*)
LEMMA SaveFailsInv ==
  ASSUME IInv, NEW r \in Replicas, SaveFails(r)
  PROVE  IInv'
<1>1. /\ process[r] # Idle /\ process[r].at = "save"
      /\ process' = [process EXCEPT ![r] = Idle]
      /\ UNCHANGED <<nextId, active, mockRefs, refund, charges, refundCalls,
                     applied, answers, published>>
  BY DEF SaveFails, ProcessTo, gatewayVars
<1>2. CASE payments' = payments
  <2>1. /\ charges \subseteq charges' /\ charges' \subseteq Charge
        /\ answers' \subseteq Keys \X PaymentIDs /\ published' \subseteq Event
    BY <1>1 DEF IInv, TypeOK
  <2> QED BY <1>1, <1>2, <2>1, SameAnswers, ProcessEnds
<1>3. CASE CanInsert(process[r].p) /\ payments' = Inserted(process[r].p)
  BY <1>1, <1>3, InsertInv
<1> QED BY <1>2, <1>3 DEF SaveFails

-----------------------------------------------------------------------------
(* Each step of RefundPaymentHandler keeps the invariant.                  *)

(* A refund handler moves to st while rows and process handlers stay.      *)
LEMMA RefundGoesTo ==
  ASSUME IInv, NEW r \in Replicas, NEW st \in RefundState \cup {Idle},
         refund' = [refund EXCEPT ![r] = st], st # Idle => RefundOK(r)',
         UNCHANGED <<payments, nextId, active, mockRefs, process, charges,
                     applied, answers>>,
         refundCalls' \in [Gateways \X Refs \X RefundAmounts -> 0 .. MaxRefundCalls],
         published' \subseteq Event
  PROVE  IInv'
<1>1. TypeOK'
  <2>1. refund' \in [Replicas -> RefundState \cup {Idle}]
    BY DEF IInv, TypeOK
  <2> QED BY <2>1 DEF IInv, TypeOK
<1>2. nextId' \in Nat /\ nextId <= nextId'
  BY IdsType DEF IInv
<1>3. KeysUnique' /\ RowsInv' /\ AppliedInv' /\ CapturedWasCharged'
  BY <1>2, RowsFrame
<1>4. ProcessInv' /\ IdsDistinct'
  BY ProcessSame
<1>5. RefundInv'
  BY RefundMove
<1> QED BY <1>1, <1>3, <1>4, <1>5, SameAnswers DEF IInv

(* The aggregate accepts the refund of the row that was read.              *)
LEMMA BeginRefundInv ==
  ASSUME IInv, NEW r \in Replicas, NEW id \in PaymentIDs,
         NEW a \in RefundAmounts, BeginRefund(r, id, a)
  PROVE  IInv'
<1> DEFINE row == payments[id]
           read == FromSnapshot(row)
           p   == Refund(read, a)
           st  == [at |-> "gateway", amount |-> a, p |-> p]
<1>1. /\ refund' = [refund EXCEPT ![r] = st]
      /\ id \in DOMAIN payments /\ CanRefund(read, a)
      /\ UNCHANGED <<payments, nextId, active, mockRefs, process, charges,
                     refundCalls, applied, answers, published>>
  BY DEF BeginRefund, RefundTo, gatewayVars
<1>2. row \in Snapshot /\ row.id = id /\ (row.status # "FAILED" => row.ref \in Refs)
  BY <1>1 DEF IInv, TypeOK, RowsInv
<1>3. /\ read \in Aggregate
      /\ read.id = id /\ read.key = row.key /\ read.amount = row.amount
      /\ read.ref = row.ref /\ read.refunded = row.refunded
      /\ read.status = row.status /\ read.version = row.version
  BY <1>2, AggregateType
<1>4. row.status \in {"CAPTURED", "PARTIALLY_REFUNDED"}
  BY <1>1, <1>3 DEF CanRefund
<1> HIDE DEF read
<1>5. /\ p \in Aggregate
      /\ p.id = id /\ p.key = row.key /\ p.amount = row.amount /\ p.ref = row.ref
      /\ p.refunded = Add64(row.refunded, a) /\ p.version = row.version + 1
      /\ p.status \in {"PARTIALLY_REFUNDED", "REFUNDED"}
  <2>1. a \in 1 .. MaxInt64 BY BoundsType
  <2> QED BY <1>3, <2>1, RefundType
<1> HIDE DEF p
<1>6. /\ st \in RefundState /\ st # Idle
      /\ st.at = "gateway" /\ st.amount = a /\ st.p = p
  BY <1>5 DEF RefundState, Idle
<1> HIDE DEF st
<1>7. refund'[r] = st
  BY <1>1 DEF IInv, TypeOK
<1>8. RefundOK(r)'
  <2>1. row.version + 1 <= row.version + 1
    BY <1>2 DEF Snapshot
  <2> QED BY <2>1, <1>1, <1>2, <1>4, <1>5, <1>6, <1>7 DEF RefundOK
<1>9. /\ refundCalls' \in [Gateways \X Refs \X RefundAmounts -> 0 .. MaxRefundCalls]
      /\ published' \subseteq Event
  BY <1>1 DEF IInv, TypeOK
<1> QED BY <1>1, <1>6, <1>8, <1>9, RefundGoesTo

(* What a gateway is asked is always a call it can be asked.               *)
LEMMA RefundCallType ==
  ASSUME IInv, NEW r \in Replicas, refund[r] # Idle,
         refundCalls[RefundCall(r)] < MaxRefundCalls
  PROVE  [refundCalls EXCEPT ![RefundCall(r)] = @ + 1]
           \in [Gateways \X Refs \X RefundAmounts -> 0 .. MaxRefundCalls]
<1>1. RefundCall(r) \in Gateways \X Refs \X RefundAmounts
  <2>1. refund[r].amount \in RefundAmounts BY BusyRefund DEF IInv
  <2>2. refund[r].p.ref \in Refs BY DEF IInv, RefundInv, RefundOK
  <2>3. active[r] \in Gateways BY DEF IInv, TypeOK
  <2> QED BY <2>1, <2>2, <2>3 DEF RefundCall
<1> DEFINE Calls == Gateways \X Refs \X RefundAmounts
           call  == RefundCall(r)
<1>2. refundCalls \in [Calls -> 0 .. MaxRefundCalls] /\ call \in Calls
  BY <1>1 DEF IInv, TypeOK
<1>3. refundCalls[call] < MaxRefundCalls /\ MaxRefundCalls \in Nat
  BY BoundsType
<1> HIDE DEF Calls, call
<1>4. refundCalls[call] + 1 \in 0 .. MaxRefundCalls
  BY <1>2, <1>3
<1>5. [refundCalls EXCEPT ![call] = refundCalls[call] + 1] \in [Calls -> 0 .. MaxRefundCalls]
  BY <1>2, <1>4
<1> QED BY <1>5 DEF Calls, call

(* The gateway took the refund.                                            *)
LEMMA RefundAtGatewayInv ==
  ASSUME IInv, NEW r \in Replicas, RefundAtGateway(r)
  PROVE  IInv'
<1> DEFINE st == [refund[r] EXCEPT !.at = "update"]
<1>1. /\ refund[r] # Idle /\ refund[r].at = "gateway"
      /\ refund' = [refund EXCEPT ![r] = st]
      /\ refundCalls[RefundCall(r)] < MaxRefundCalls
      /\ refundCalls' = [refundCalls EXCEPT ![RefundCall(r)] = @ + 1]
      /\ UNCHANGED <<payments, nextId, active, mockRefs, process, charges,
                     applied, answers, published>>
  BY DEF RefundAtGateway, RefundTo
<1>2. RefundOK(r) /\ refund[r] \in RefundState
  BY <1>1, BusyRefund DEF IInv, RefundInv
<1>3. /\ st \in RefundState /\ st # Idle /\ st.at = "update"
      /\ st.p = refund[r].p /\ st.amount = refund[r].amount
  BY <1>2, RefundMoves
<1> HIDE DEF st
<1>4. refund'[r] = st
  BY <1>1 DEF IInv, TypeOK
<1>5. RefundOK(r)'
  BY <1>1, <1>2, <1>3, <1>4 DEF RefundOK
<1>6. /\ refundCalls' \in [Gateways \X Refs \X RefundAmounts -> 0 .. MaxRefundCalls]
  BY <1>1, RefundCallType
<1>7. published' \subseteq Event
  BY <1>1 DEF IInv, TypeOK
<1> QED BY <1>1, <1>3, <1>5, <1>6, <1>7, RefundGoesTo

(* The refund failed at the gateway, with or without effect.               *)
LEMMA RefundFailsInv ==
  ASSUME IInv, NEW r \in Replicas, RefundFails(r)
  PROVE  IInv'
<1>1. /\ refund[r] # Idle /\ refund' = [refund EXCEPT ![r] = Idle]
      /\ UNCHANGED <<payments, nextId, active, mockRefs, process, charges,
                     applied, answers, published>>
  BY DEF RefundFails, RefundTo
<1>2. refundCalls' \in [Gateways \X Refs \X RefundAmounts -> 0 .. MaxRefundCalls]
  <2>1. CASE refundCalls' = refundCalls
    BY <2>1 DEF IInv, TypeOK
  <2>2. CASE /\ refundCalls[RefundCall(r)] < MaxRefundCalls
             /\ refundCalls' = [refundCalls EXCEPT ![RefundCall(r)] = @ + 1]
    BY <2>2, <1>1, RefundCallType
  <2> QED BY <2>1, <2>2 DEF RefundFails
<1>3. published' \subseteq Event
  BY <1>1 DEF IInv, TypeOK
<1> QED BY <1>1, <1>2, <1>3, RefundGoesTo

(* The row moved on: the handler gives up.                                 *)
LEMMA UpdateConflictsInv ==
  ASSUME IInv, NEW r \in Replicas, UpdateConflicts(r)
  PROVE  IInv'
<1>1. /\ refund' = [refund EXCEPT ![r] = Idle]
      /\ UNCHANGED <<payments, nextId, active, mockRefs, process, charges,
                     refundCalls, applied, answers, published>>
  BY DEF UpdateConflicts, RefundTo, gatewayVars
<1>2. /\ refundCalls' \in [Gateways \X Refs \X RefundAmounts -> 0 .. MaxRefundCalls]
      /\ published' \subseteq Event
  BY <1>1 DEF IInv, TypeOK
<1> QED BY <1>1, <1>2, RefundGoesTo

(* The recorded refund is published.                                       *)
LEMMA CommitRefundInv ==
  ASSUME IInv, NEW r \in Replicas, CommitRefund(r)
  PROVE  IInv'
<1>1. /\ refund[r] # Idle /\ refund' = [refund EXCEPT ![r] = Idle]
      /\ UNCHANGED <<payments, nextId, active, mockRefs, process, charges,
                     refundCalls, applied, answers>>
  BY DEF CommitRefund, RefundTo, gatewayVars
<1>2. PICK n \in Sent(refund[r].p) :
        published' = published \cup IntegrationEvents(refund[r].p, n)
  BY DEF CommitRefund
<1>3. refund[r].p \in Aggregate
  BY <1>1, BusyRefund DEF IInv
<1>4. IntegrationEvents(refund[r].p, n) \subseteq Event
  BY <1>3, EventsType
<1>5. /\ refundCalls' \in [Gateways \X Refs \X RefundAmounts -> 0 .. MaxRefundCalls]
      /\ published' \subseteq Event
  BY <1>1, <1>2, <1>4 DEF IInv, TypeOK
<1> QED BY <1>1, <1>5, RefundGoesTo

(* The conditional update: the row was still the one the refund was        *)
(* computed from, so it gains exactly the refund; every other refund in    *)
(* flight is now stale.                                                    *)
LEMMA UpdateInv ==
  ASSUME IInv, NEW r \in Replicas, refund[r] # Idle, refund[r].at = "update",
         VersionMatches(refund[r].p), payments' = Updated(refund[r].p),
         Apply(refund[r].p.id, refund[r].amount),
         NEW st \in {Idle, [refund[r] EXCEPT !.at = "commit"]},
         refund' = [refund EXCEPT ![r] = st],
         UNCHANGED <<nextId, active, mockRefs, process, charges, refundCalls,
                     answers, published>>
  PROVE  IInv'
<1> DEFINE p   == refund[r].p
           a   == refund[r].amount
           old == payments[p.id]
           row == [ToSnapshot(p) EXCEPT !.key = old.key]
<1>1. /\ RefundOK(r) /\ refund[r] \in RefundState
      /\ p \in Aggregate /\ p.version \in Nat /\ a \in 1 .. MaxInt64
      /\ p.id \in DOMAIN payments /\ old.version = p.version - 1
      /\ p.id \in PaymentIDs
  BY BusyRefund, BoundsType DEF IInv, RefundInv, VersionMatches, Aggregate
<1>2. /\ old \in Snapshot /\ old.id = p.id /\ old.key \in Keys /\ old.version \in Nat
      /\ p.version = old.version + 1
  BY <1>1 DEF IInv, TypeOK, RowsInv, Snapshot
<1>3. /\ p.key = old.key /\ p.amount = old.amount /\ p.ref = old.ref
      /\ p.ref \in Refs /\ old.status # "FAILED"
      /\ p.status \in {"PARTIALLY_REFUNDED", "REFUNDED"}
      /\ p.refunded = Add64(old.refunded, a)
      /\ old.status \in {"CAPTURED", "PARTIALLY_REFUNDED"}
  BY <1>1, <1>2 DEF RefundOK
<1>4. /\ row \in Snapshot /\ row.id = p.id /\ row.key = old.key
      /\ row.ref = p.ref /\ row.amount = p.amount /\ row.refunded = p.refunded
      /\ row.status = p.status /\ row.version = p.version
  <2> DEFINE snap == ToSnapshot(p)
  <2>1. /\ snap \in Snapshot /\ snap.id = p.id /\ snap.ref = p.ref
        /\ snap.amount = p.amount /\ snap.refunded = p.refunded
        /\ snap.status = p.status /\ snap.version = p.version
    BY <1>1, SnapshotType
  <2>2. row = [snap EXCEPT !.key = old.key] /\ old.key \in Keys
    BY <1>2
  <2> HIDE DEF snap, row, p, old
  <2> QED BY <2>1, <2>2 DEF Snapshot
<1>5. payments' = [payments EXCEPT ![p.id] = row]
  BY DEF Updated
<1>6. st # Idle => /\ st \in RefundState /\ st.p = p /\ st.at = "commit"
  <2>1. LET next == [refund[r] EXCEPT !.at = "commit"]
        IN  next \in RefundState /\ next.p = p /\ next.at = "commit"
    BY <1>1, RefundMoves
  <2> QED BY <2>1
<1>7. /\ refund'[r] = st /\ \A s \in Replicas : s # r => refund'[s] = refund[s]
      /\ refund' \in [Replicas -> RefundState \cup {Idle}]
  BY <1>6 DEF IInv, TypeOK
<1>8. /\ applied[p.id] \in Nat /\ applied' = [applied EXCEPT ![p.id] = applied[p.id] + a]
      /\ SameInt64(p.refunded, applied[p.id] + a)
  <2>1. applied[p.id] \in Nat /\ SameInt64(old.refunded, applied[p.id])
    BY <1>1 DEF IInv, TypeOK, AppliedInv, NoLostRefund
  <2>2. old.refunded \in Int64
    BY <1>2 DEF Snapshot
  <2>3. SameInt64(Add64(old.refunded, a), applied[p.id] + a)
    BY <2>1, <2>2, <1>1, SumInt64
  <2> QED BY <2>1, <2>3, <1>3 DEF Apply
<1> HIDE DEF p, a, row, old
<1>9. /\ DOMAIN payments' = DOMAIN payments
      /\ payments'[p.id] = row
      /\ \A id \in DOMAIN payments : id # p.id => payments'[id] = payments[id]
  BY <1>1, <1>5 DEF IInv, TypeOK
<1>10. \A id \in DOMAIN payments : /\ payments'[id].key = payments[id].key
                                   /\ payments'[id].id = payments[id].id
                                   /\ payments'[id].ref = payments[id].ref
                                   /\ payments'[id].amount = payments[id].amount
  BY <1>2, <1>3, <1>4, <1>9 DEF old
<1>11. TypeOK'
  <2>1. payments' \in [DOMAIN payments' -> Snapshot] /\ DOMAIN payments' \subseteq PaymentIDs
    BY <1>4, <1>5, <1>9 DEF IInv, TypeOK
  <2>2. applied' \in [PaymentIDs -> Nat]
    <3>1. applied[p.id] + a \in Nat BY <1>1, <1>8
    <3> QED BY <3>1, <1>8 DEF IInv, TypeOK
  <2> QED BY <1>7, <2>1, <2>2 DEF IInv, TypeOK
<1>12. KeysUnique'
  BY <1>9, <1>10 DEF IInv, KeysUnique
<1>13. RowsInv'
  BY <1>3, <1>4, <1>9, <1>10 DEF IInv, RowsInv
<1>14. ProcessInv' /\ IdsDistinct'
  <2>1. ASSUME NEW s \in Replicas, process[s] # Idle
        PROVE  ProcessOK(s)'
    <3>1. ProcessOK(s) BY <2>1 DEF IInv, ProcessInv
    <3>2. ChargeOf(s)' = ChargeOf(s) BY DEF ChargeOf
    <3> QED BY <3>1, <3>2, <1>9, <1>10 DEF ProcessOK
  <2> QED BY <2>1 DEF IInv, ProcessInv, IdsDistinct
<1>15. RefundInv'
  <2>1. ASSUME NEW s \in Replicas, s # r, refund[s] # Idle
        PROVE  RefundOK(s)'
    <3> DEFINE q == refund[s].p
    <3>1. RefundOK(s) /\ refund'[s] = refund[s] /\ q.version \in Nat
      BY <2>1, <1>7, BusyRefund DEF IInv, RefundInv, Aggregate
    <3>2. CASE q.id = p.id
      <4>1. q.version <= p.version
        BY <3>1, <3>2, <1>2 DEF RefundOK, old
      <4>2. /\ q.version <= payments'[q.id].version + 1
            /\ q.version # payments'[q.id].version + 1
            /\ payments'[q.id].status # "FAILED"
        BY <4>1, <3>1, <3>2, <1>1, <1>3, <1>4, <1>9
      <4>3. q.id \in DOMAIN payments /\ q.id \in DOMAIN payments'
        BY <3>1, <1>9 DEF RefundOK
      <4>4. /\ payments'[q.id].key = payments[q.id].key
            /\ payments'[q.id].ref = payments[q.id].ref
            /\ payments'[q.id].amount = payments[q.id].amount
        BY <4>3, <1>10
      <4> HIDE DEF q
      <4> QED BY <4>2, <4>3, <4>4, <3>1, SMTT(30) DEF RefundOK, q
    <3>3. CASE q.id # p.id
      <4>1. q.id \in DOMAIN payments /\ q.id \in DOMAIN payments'
        BY <3>1, <1>9 DEF RefundOK
      <4>2. payments'[q.id] = payments[q.id]
        BY <4>1, <3>3, <1>9
      <4> QED BY <4>1, <4>2, <3>1 DEF RefundOK
    <3> QED BY <3>2, <3>3
  <2>2. st # Idle => RefundOK(r)'
    <3> SUFFICES ASSUME st # Idle PROVE RefundOK(r)'
      OBVIOUS
    <3>1. refund'[r].p = p /\ refund'[r].at = "commit"
      BY <1>6, <1>7
    <3>2. p.version <= row.version + 1
      BY <1>1, <1>4
    <3> QED BY <3>1, <3>2, <1>1, <1>3, <1>4, <1>9 DEF RefundOK
  <2> QED BY <2>1, <2>2, <1>7 DEF RefundInv
<1>16. AnswersStored'
  BY <1>9, <1>10 DEF IInv, AnswersStored, Stored
<1>17. AppliedInv'
  BY <1>1, <1>4, <1>8, <1>9 DEF IInv, TypeOK, AppliedInv, NoLostRefund
<1>18. CapturedWasCharged'
  BY <1>3, <1>9, <1>10 DEF IInv, CapturedWasCharged, old
<1> QED BY <1>11, <1>12, <1>13, <1>14, <1>15, <1>16, <1>17, <1>18 DEF IInv

(* Update succeeds: the conditional update, then the commit.               *)
LEMMA UpdatePaymentInv ==
  ASSUME IInv, NEW r \in Replicas, UpdatePayment(r)
  PROVE  IInv'
<1>1. /\ refund[r] # Idle /\ refund[r].at = "update"
      /\ VersionMatches(refund[r].p) /\ payments' = Updated(refund[r].p)
      /\ Apply(refund[r].p.id, refund[r].amount)
      /\ refund' = [refund EXCEPT ![r] = [refund[r] EXCEPT !.at = "commit"]]
      /\ UNCHANGED <<nextId, active, mockRefs, process, charges, refundCalls,
                     answers, published>>
  BY DEF UpdatePayment, RefundTo, gatewayVars
<1> QED BY <1>1, UpdateInv

(* An error of Update, whether or not it was committed.                    *)
LEMMA UpdateFailsInv ==
  ASSUME IInv, NEW r \in Replicas, UpdateFails(r)
  PROVE  IInv'
<1>1. /\ refund[r] # Idle /\ refund[r].at = "update"
      /\ refund' = [refund EXCEPT ![r] = Idle]
      /\ UNCHANGED <<nextId, active, mockRefs, process, charges, refundCalls,
                     answers, published>>
  BY DEF UpdateFails, RefundTo, gatewayVars
<1>2. CASE UNCHANGED <<payments, applied>>
  <2>1. /\ refundCalls' \in [Gateways \X Refs \X RefundAmounts -> 0 .. MaxRefundCalls]
        /\ published' \subseteq Event
    BY <1>1 DEF IInv, TypeOK
  <2> QED BY <1>1, <1>2, <2>1, RefundGoesTo
<1>3. CASE /\ VersionMatches(refund[r].p)
           /\ payments' = Updated(refund[r].p)
           /\ Apply(refund[r].p.id, refund[r].amount)
  BY <1>1, <1>3, UpdateInv
<1> QED BY <1>2, <1>3 DEF UpdateFails

-----------------------------------------------------------------------------
(* The admin endpoint and crashes.                                         *)
LEMMA SetActiveInv ==
  ASSUME IInv, NEW r \in Replicas, NEW gw \in AdminChoices, SetActive(r, gw)
  PROVE  IInv'
<1>1. /\ active' = [active EXCEPT ![r] = gw]
      /\ UNCHANGED <<payments, nextId, mockRefs, process, refund, charges,
                     refundCalls, applied, answers, published>>
  BY DEF SetActive
<1>2. gw \in Gateways
  BY PaymentsAssumption
<1>3. TypeOK'
  BY <1>1, <1>2 DEF IInv, TypeOK
<1>4. nextId' \in Nat /\ nextId <= nextId'
  BY <1>1, IdsType DEF IInv
<1>5. KeysUnique' /\ RowsInv' /\ AppliedInv' /\ CapturedWasCharged'
  BY <1>1, <1>4, RowsFrame
<1>6. ProcessInv' /\ IdsDistinct' /\ RefundInv' /\ AnswersStored'
  BY <1>1, ProcessSame, RefundFrame, SameAnswers
<1> QED BY <1>3, <1>5, <1>6 DEF IInv

(* A replica forgets what it was doing.                                    *)
LEMMA CrashInv ==
  ASSUME IInv, NEW r \in Replicas, Crash(r)
  PROVE  IInv'
<1>1. /\ process' = [process EXCEPT ![r] = Idle]
      /\ refund' = [refund EXCEPT ![r] = Idle]
      /\ active' = [active EXCEPT ![r] = "mock"]
      /\ mockRefs' = [mockRefs EXCEPT ![r] = [k \in Keys |-> NoRef]]
      /\ UNCHANGED <<payments, nextId, charges, refundCalls, applied, answers,
                     published>>
  BY DEF Crash, ProcessTo, RefundTo
<1>2. TypeOK'
  <2>1. /\ process' \in [Replicas -> ProcessState \cup {Idle}]
        /\ refund' \in [Replicas -> RefundState \cup {Idle}]
    BY <1>1 DEF IInv, TypeOK
  <2>2. active' \in [Replicas -> Gateways]
    BY <1>1 DEF IInv, TypeOK, Gateways
  <2>3. mockRefs' \in [Replicas -> [Keys -> Refs \cup {NoRef}]]
    BY <1>1 DEF IInv, TypeOK
  <2> QED BY <1>1, <2>1, <2>2, <2>3 DEF IInv, TypeOK
<1>3. nextId' \in Nat /\ nextId <= nextId'
  BY <1>1, IdsType DEF IInv
<1>4. KeysUnique' /\ RowsInv' /\ AppliedInv' /\ CapturedWasCharged'
  BY <1>1, <1>3, RowsFrame
<1>5. ProcessInv' /\ IdsDistinct'
  BY <1>1, <1>3, ProcessFrame
<1>6. RefundInv' /\ AnswersStored'
  BY <1>1, RefundMove, SameAnswers
<1> QED BY <1>2, <1>4, <1>5, <1>6 DEF IInv

-----------------------------------------------------------------------------
(* Every step keeps the invariant.                                         *)
LEMMA NextInv == IInv /\ [Next]_vars => IInv'
<1> SUFFICES ASSUME IInv, [Next]_vars PROVE IInv'
  OBVIOUS
<1>1. ASSUME NEW r \in Replicas, NEW cmd \in ProcessCommands,
             Replay(r, cmd) \/ Begin(r, cmd)
      PROVE  IInv'
  BY <1>1, ReplayInv, BeginInv
<1>2. ASSUME NEW r \in Replicas, ProcessStep(r)
      PROVE  IInv'
  BY <1>2, AuthorizeAtGatewayInv, AuthorizeFailsInv, UnknownGatewayInv,
     CaptureAtGatewayInv, CaptureFailsInv, SavePaymentInv, SaveConflictsInv,
     SaveFailsInv, AnswerWinnerInv, CommitProcessInv DEF ProcessStep
<1>3. ASSUME NEW r \in Replicas, RefundStep(r)
      PROVE  IInv'
  BY <1>3, RefundAtGatewayInv, RefundFailsInv, UpdatePaymentInv,
     UpdateConflictsInv, UpdateFailsInv, CommitRefundInv DEF RefundStep
<1>4. CASE UNCHANGED vars
  <2>1. /\ UNCHANGED <<payments, nextId, active, mockRefs, process, refund,
                       charges, refundCalls, applied, answers, published>>
    BY <1>4 DEF vars
  <2>2. TypeOK'
    BY <2>1 DEF IInv, TypeOK
  <2>3. nextId' \in Nat /\ nextId <= nextId'
    BY <2>1, IdsType DEF IInv
  <2> QED BY <2>1, <2>2, <2>3, RowsFrame, ProcessSame, RefundFrame, SameAnswers
          DEF IInv
<1> QED BY <1>1, <1>2, <1>3, <1>4, BeginRefundInv, SetActiveInv, CrashInv DEF Next

(* IInv is an invariant of every behaviour: the theorems below read off it. *)
THEOREM Invariance == Spec => []IInv
BY InitInv, NextInv, PTL DEF Spec

(* Every variable keeps its type.                                          *)
THEOREM TypeCorrect == Spec => []TypeOK
<1>1. IInv => TypeOK BY DEF IInv
<1> QED BY <1>1, Invariance, PTL

(* All answers to a key name one stored payment: idempotency, whatever the *)
(* number of replicas racing on it and whatever fails.                     *)
THEOREM Idempotency == Spec => []OneAnswerPerKey
<1>1. IInv => OneAnswerPerKey
  BY DEF IInv, AnswersStored, KeysUnique, OneAnswerPerKey, Stored
<1> QED BY <1>1, Invariance, PTL

(* The optimistic lock works: no refund accepted by the database is lost.  *)
THEOREM RefundsKept == Spec => []NoLostRefund
<1>1. IInv => NoLostRefund BY DEF IInv, AppliedInv
<1> QED BY <1>1, Invariance, PTL

(* What is stored as captured was captured at a gateway.                   *)
THEOREM CapturesCharged == Spec => []CapturedWasCharged
<1>1. IInv => CapturedWasCharged BY DEF IInv
<1> QED BY <1>1, Invariance, PTL

-----------------------------------------------------------------------------
(* What a step does to the rows, the refunds in flight and the answers.    *)

(* A refund in flight was in flight before, with the same aggregate.       *)
NoNewRefund ==
  \A s \in Replicas :
    refund'[s] # Idle => refund[s] # Idle /\ refund'[s].p = refund[s].p

Silent ==
  /\ UNCHANGED <<payments, applied, answers>> /\ NoNewRefund
Answers ==
  /\ UNCHANGED <<payments, applied>> /\ NoNewRefund
  /\ \E key \in Keys : \E id \in Stored(key) : answers' = answers \cup {<<key, id>>}
Inserts(r) ==
  /\ process[r] # Idle /\ process[r].at = "save"
  /\ CanInsert(process[r].p) /\ payments' = Inserted(process[r].p)
  /\ UNCHANGED <<applied, answers>> /\ NoNewRefund
Updates(r) ==
  /\ refund[r] # Idle /\ refund[r].at = "update"
  /\ VersionMatches(refund[r].p) /\ payments' = Updated(refund[r].p)
  /\ Apply(refund[r].p.id, refund[r].amount)
  /\ answers' = answers /\ NoNewRefund

(* Nothing but one refund handler moves: no refund starts.                 *)
LEMMA RefundKept ==
  ASSUME IInv, NEW r \in Replicas,
         refund' = refund \/ refund' = [refund EXCEPT ![r] = Idle]
         \/ \E at \in {"update", "commit"} :
              /\ refund[r] # Idle
              /\ refund' = [refund EXCEPT ![r] = [refund[r] EXCEPT !.at = at]]
  PROVE  NoNewRefund
<1>1. \A s \in Replicas : s # r => refund'[s] = refund[s]
  BY DEF IInv, TypeOK
<1>2. ASSUME NEW at \in {"update", "commit"}, refund[r] # Idle,
             refund' = [refund EXCEPT ![r] = [refund[r] EXCEPT !.at = at]]
      PROVE  refund'[r].p = refund[r].p
  <2>1. refund'[r] = [refund[r] EXCEPT !.at = at]
    BY <1>2 DEF IInv, TypeOK
  <2>2. refund[r] \in RefundState
    BY <1>2, BusyRefund DEF IInv
  <2> QED BY <2>1, <2>2, RefundMoves
<1>3. refund' = [refund EXCEPT ![r] = Idle] => refund'[r] = Idle
  BY DEF IInv, TypeOK
<1> QED BY <1>1, <1>2, <1>3 DEF NoNewRefund

(* A step of ProcessPaymentHandler answers, inserts, or shows nothing.     *)
LEMMA ProcessShape ==
  ASSUME IInv, NEW r \in Replicas, ProcessStep(r)
  PROVE  Silent \/ Answers \/ Inserts(r)
<1>1. refund' = refund
  BY DEF ProcessStep, AuthorizeAtGateway, AuthorizeFails, UnknownGateway,
         CaptureAtGateway, CaptureFails, SavePayment, SaveConflicts, SaveFails,
         AnswerWinner, ReloadFails, CommitProcess
<1>2. NoNewRefund
  BY <1>1, RefundKept
<1>3. CASE AuthorizeAtGateway(r) \/ AuthorizeFails(r) \/ UnknownGateway(r)
           \/ CaptureAtGateway(r) \/ CaptureFails(r) \/ SaveConflicts(r) \/ ReloadFails(r)
  BY <1>2, <1>3 DEF Silent, AuthorizeAtGateway, AuthorizeFails, UnknownGateway,
     CaptureAtGateway, CaptureFails, SaveConflicts, ReloadFails
<1>4. CASE SavePayment(r) \/ SaveFails(r)
  BY <1>2, <1>4 DEF Silent, Inserts, SavePayment, SaveFails
<1>5. CASE AnswerWinner(r)
  <2>1. process[r].p.key \in Keys
    BY <1>5, BusyProcess DEF IInv, AnswerWinner, Aggregate
  <2> QED BY <2>1, <1>2, <1>5 DEF AnswerWinner, Answer, Answers
<1>6. CASE CommitProcess(r)
  <2>1. process[r].p.key \in Keys
    BY <1>6, BusyProcess DEF IInv, CommitProcess, Aggregate
  <2>2. process[r].p.id \in Stored(process[r].p.key)
    BY <1>6 DEF CommitProcess, IInv, ProcessInv, ProcessOK, Stored
  <2> QED BY <2>1, <2>2, <1>2, <1>6 DEF CommitProcess, Answer, Answers
<1> QED BY <1>3, <1>4, <1>5, <1>6 DEF ProcessStep

(* A step of RefundPaymentHandler updates the row, or shows nothing.       *)
LEMMA RefundShape ==
  ASSUME IInv, NEW r \in Replicas, RefundStep(r)
  PROVE  Silent \/ Updates(r)
<1>1. CASE RefundAtGateway(r)
  <2>1. NoNewRefund BY <1>1, RefundKept DEF RefundAtGateway, RefundTo
  <2> QED BY <2>1, <1>1 DEF RefundAtGateway, Silent
<1>2. CASE RefundFails(r) \/ UpdateConflicts(r) \/ CommitRefund(r)
  <2>1. NoNewRefund
    BY <1>2, RefundKept DEF RefundFails, UpdateConflicts, CommitRefund, RefundTo
  <2> QED BY <2>1, <1>2 DEF RefundFails, UpdateConflicts, CommitRefund, Silent
<1>3. CASE UpdatePayment(r)
  <2>1. NoNewRefund BY <1>3, RefundKept DEF UpdatePayment, RefundTo
  <2> QED BY <2>1, <1>3 DEF UpdatePayment, Updates
<1>4. CASE UpdateFails(r)
  <2>1. NoNewRefund BY <1>4, RefundKept DEF UpdateFails, RefundTo
  <2> QED BY <2>1, <1>4 DEF UpdateFails, Updates, Silent
<1> QED BY <1>1, <1>2, <1>3, <1>4 DEF RefundStep

(* Every step has one of these shapes, or starts a refund.                 *)
LEMMA StepShape ==
  ASSUME IInv, [Next]_vars
  PROVE  \/ Silent \/ Answers
         \/ \E r \in Replicas :
              \/ Inserts(r) \/ Updates(r)
              \/ \E id \in PaymentIDs, a \in RefundAmounts : BeginRefund(r, id, a)
<1>1. ASSUME NEW r \in Replicas, NEW cmd \in ProcessCommands,
             Replay(r, cmd) \/ Begin(r, cmd)
      PROVE  Silent \/ Answers
  <2>1. NoNewRefund BY <1>1, RefundKept DEF Replay, Begin
  <2>2. cmd.key \in Keys BY CommandsType
  <2> QED BY <2>1, <2>2, <1>1 DEF Replay, Begin, Answer, Answers, Silent
<1>2. ASSUME NEW r \in Replicas, NEW gw \in AdminChoices, SetActive(r, gw)
      PROVE  Silent
  <2>1. NoNewRefund BY <1>2, RefundKept DEF SetActive
  <2> QED BY <2>1, <1>2 DEF SetActive, Silent
<1>3. ASSUME NEW r \in Replicas, Crash(r)
      PROVE  Silent
  <2>1. NoNewRefund BY <1>3, RefundKept DEF Crash, RefundTo
  <2> QED BY <2>1, <1>3 DEF Crash, Silent
<1>4. CASE UNCHANGED vars
  BY <1>4 DEF vars, Silent, NoNewRefund
<1> QED BY <1>1, <1>2, <1>3, <1>4, ProcessShape, RefundShape DEF Next

-----------------------------------------------------------------------------
(* No row shows more refunds than its amount.                              *)

(* What the aggregate accepts shows no more than its amount, and the status*)
(* says whether anything is left of it.                                    *)
LEMMA RefundAccepted ==
  ASSUME NEW p \in Aggregate, NEW a \in RefundAmounts, CanRefund(p, a)
  PROVE  LET q == Refund(p, a) IN
         /\ q.refunded <= q.amount
         /\ q.status = IF q.refunded < q.amount THEN "PARTIALLY_REFUNDED"
                                                ELSE "REFUNDED"
<1> DEFINE q == Refund(p, a)
<1>1. a \in 1 .. MaxInt64
  BY BoundsType
<1>2. /\ q.refunded = Add64(p.refunded, a) /\ q.amount = p.amount
      /\ q.status = StatusAfterRefund(p, a)
  BY <1>1, RefundType
<1> HIDE DEF q
<1> QED BY <1>2 DEF CanRefund, StatusAfterRefund, q

(* RefundBounded, of one row and the sum n of the refunds accepted for it. *)
RowBounded(row, n) ==
  /\ n <= row.amount \/ n > MaxInt64
  /\ row.refunded <= row.amount
  /\ row.status \in {"CAPTURED", "FAILED"} => n = 0
  /\ row.status = "PARTIALLY_REFUNDED" => n > 0 /\ row.refunded # row.amount
  /\ row.status = "REFUNDED" => row.refunded = row.amount
  /\ row.status \notin {"PENDING", "AUTHORIZED"}

(* RefundBounded says that of every row.                                   *)
LEMMA RowByRow ==
  RefundBounded <=> \A id \in DOMAIN payments : RowBounded(payments[id], applied[id])
BY DEF RefundBounded, RowBounded

(* A sum that a row shows as no more than its amount either is no more or  *)
(* has left int64.                                                         *)
LEMMA ShownOrWrapped ==
  ASSUME NEW shown \in Int64, NEW n \in Nat, NEW amount \in Int,
         SameInt64(shown, n), shown <= amount
  PROVE  n <= amount \/ n > MaxInt64
<1>1. MaxInt64 \in Nat
  BY Int64Assumption
<1> QED BY <1>1, SmallInt64

(* The conditional update, seen on the row it changes.                     *)
LEMMA UpdatedRow ==
  ASSUME IInv, BoundedInv, NEW r \in Replicas, Updates(r)
  PROVE  LET p   == refund[r].p
             a   == refund[r].amount
             old == payments[p.id]
             row == payments'[p.id]
         IN  /\ p.id \in DOMAIN payments /\ DOMAIN payments' = DOMAIN payments
             /\ \A id \in DOMAIN payments : id # p.id => payments'[id] = payments[id]
             /\ payments' = [payments EXCEPT ![p.id] = row]
             /\ applied[p.id] \in Nat /\ applied'[p.id] = applied[p.id] + a
             /\ \A id \in DOMAIN payments : id # p.id => applied'[id] = applied[id]
             /\ old.status \in {"CAPTURED", "PARTIALLY_REFUNDED"}
             /\ a \in 1 .. MaxInt64 /\ old.amount \in 1 .. MaxInt64
             /\ old.refunded \in Int64 /\ row.refunded \in Int64
             /\ row.refunded = Add64(old.refunded, a)
             /\ SameInt64(row.refunded, applied'[p.id])
             /\ row.refunded <= old.amount
             /\ row.status = IF row.refunded < old.amount THEN "PARTIALLY_REFUNDED"
                                                          ELSE "REFUNDED"
             /\ row.id = old.id /\ row.key = old.key /\ row.amount = old.amount
             /\ old.version \in Nat /\ row.version = old.version + 1
             /\ row.version = p.version /\ row.refunded = p.refunded
             /\ row.status = p.status
<1> DEFINE p   == refund[r].p
           a   == refund[r].amount
           old == payments[p.id]
           row == [ToSnapshot(p) EXCEPT !.key = old.key]
           sum == applied[p.id]
<1>1. /\ RefundOK(r) /\ p \in Aggregate /\ a \in RefundAmounts
      /\ p.id \in DOMAIN payments /\ old.version = p.version - 1
      /\ refund[r].at = "update" /\ p.version \in Nat
      /\ p.id \in PaymentIDs /\ p.refunded \in Int64
  BY BusyRefund DEF IInv, RefundInv, VersionMatches, Updates, Aggregate
<1>2. /\ old \in Snapshot /\ old.id = p.id /\ old.version \in Nat
      /\ old.amount \in Amounts /\ old.refunded \in Int64
      /\ p.version = old.version + 1
  <2>1. old \in Snapshot /\ old.id = p.id
    BY <1>1 DEF IInv, TypeOK, RowsInv
  <2>2. old.version \in Nat /\ old.amount \in Amounts /\ old.refunded \in Int64
    BY <2>1 DEF Snapshot
  <2> QED BY <1>1, <2>1, <2>2
<1>3. /\ p.key = old.key /\ p.amount = old.amount
      /\ old.status \in {"CAPTURED", "PARTIALLY_REFUNDED"}
      /\ p.refunded = Add64(old.refunded, a)
  BY <1>1, <1>2 DEF RefundOK
<1>4. /\ row.id = p.id /\ row.key = old.key /\ row.amount = p.amount
      /\ row.refunded = p.refunded /\ row.status = p.status
      /\ row.version = p.version
  <2> DEFINE snap == ToSnapshot(p)
  <2>1. /\ snap \in Snapshot /\ snap.id = p.id /\ snap.amount = p.amount
        /\ snap.refunded = p.refunded /\ snap.status = p.status
        /\ snap.version = p.version
    BY <1>1, SnapshotType
  <2>2. row = [snap EXCEPT !.key = old.key] OBVIOUS
  <2> HIDE DEF snap, row, p, old
  <2> QED BY <2>1, <2>2 DEF Snapshot
<1>5. payments' = [payments EXCEPT ![p.id] = row]
  BY DEF Updates, Updated
<1>6. /\ p.refunded <= p.amount
      /\ p.status = IF p.refunded < p.amount THEN "PARTIALLY_REFUNDED" ELSE "REFUNDED"
  BY DEF Updates, BoundedInv, RefundsInFlightBounded
<1>7. a \in 1 .. MaxInt64 /\ old.amount \in 1 .. MaxInt64
  BY <1>1, <1>2, BoundsType, AmountsType
<1>8. /\ applied' = [applied EXCEPT ![p.id] = sum + a]
      /\ applied \in [PaymentIDs -> Nat] /\ sum \in Nat
      /\ SameInt64(old.refunded, sum)
  BY <1>1 DEF IInv, TypeOK, AppliedInv, NoLostRefund, Updates, Apply
<1>9. SameInt64(p.refunded, sum + a)
  BY <1>2, <1>3, <1>7, <1>8, SumInt64
<1>10. DOMAIN payments \subseteq PaymentIDs /\ payments \in [DOMAIN payments -> Snapshot]
  BY DEF IInv, TypeOK
<1> HIDE DEF p, a, old, row, sum
<1>11. /\ DOMAIN payments' = DOMAIN payments /\ payments'[p.id] = row
       /\ \A id \in DOMAIN payments : id # p.id => payments'[id] = payments[id]
  BY <1>1, <1>5, <1>10
<1>12. /\ applied'[p.id] = sum + a
       /\ \A id \in DOMAIN payments : id # p.id => applied'[id] = applied[id]
  BY <1>1, <1>8, <1>10
<1> QED BY <1>1, <1>2, <1>3, <1>4, <1>5, <1>6, <1>7, <1>8, <1>9, <1>11, <1>12
        DEF p, a, old, sum

(* The insert, seen on the row it adds.                                    *)
LEMMA InsertedRow ==
  ASSUME IInv, NEW r \in Replicas, Inserts(r)
  PROVE  LET p   == process[r].p
             row == payments'[p.id]
         IN  /\ DOMAIN payments' = DOMAIN payments \cup {p.id}
             /\ p.id \in PaymentIDs \ DOMAIN payments
             /\ \A id \in DOMAIN payments : payments'[id] = payments[id]
             /\ \A id \in DOMAIN payments : payments[id].key # row.key
             /\ row.id = p.id /\ row.key \in Keys
             /\ row.amount \in 1 .. MaxInt64 /\ row.refunded = 0
             /\ row.status \in {"CAPTURED", "FAILED"}
             /\ applied' = applied /\ applied[p.id] = 0
<1> DEFINE p   == process[r].p
           row == ToSnapshot(p)
<1>1. /\ ProcessOK(r) /\ p \in Aggregate /\ process[r].at = "save"
      /\ p.id \in PaymentIDs /\ p.key \in Keys /\ p.amount \in 1 .. MaxInt64
  BY BusyProcess, AmountsType DEF IInv, ProcessInv, Inserts, Aggregate
<1>2. /\ row.id = p.id /\ row.key = p.key /\ row.amount = p.amount
      /\ row.refunded = p.refunded /\ row.status = p.status
  BY <1>1, SnapshotType
<1>3. /\ p.id \notin DOMAIN payments /\ p.refunded = 0
      /\ p.status \in {"CAPTURED", "FAILED"}
  BY <1>1 DEF ProcessOK
<1>4. payments' = [id \in DOMAIN payments \cup {p.id} |->
                     IF id = p.id THEN row ELSE payments[id]]
  BY DEF Inserts, Inserted
<1>5. \A id \in DOMAIN payments : payments[id].key # p.key
  BY DEF Inserts, CanInsert, Stored
<1>6. applied' = applied /\ applied[p.id] = 0
  BY <1>1, <1>3 DEF Inserts, IInv, AppliedInv
<1> HIDE DEF p, row
<1>7. /\ DOMAIN payments' = DOMAIN payments \cup {p.id} /\ payments'[p.id] = row
      /\ \A id \in DOMAIN payments : payments'[id] = payments[id]
  BY <1>3, <1>4
<1> QED BY <1>1, <1>2, <1>3, <1>5, <1>6, <1>7 DEF p

(* Initially there is nothing to refund.                                   *)
LEMMA BoundedInit == Init => BoundedInv
<1> SUFFICES ASSUME Init PROVE BoundedInv
  OBVIOUS
<1>1. DOMAIN payments = {} /\ \A r \in Replicas : refund[r] = Idle
  BY DEF Init
<1> QED BY <1>1 DEF BoundedInv, RefundBounded, RefundsInFlightBounded

(* Every step keeps what the rows show within the captured amounts.        *)
LEMMA BoundedStep ==
  ASSUME IInv, BoundedInv, [Next]_vars
  PROVE  BoundedInv'
<1>1. ASSUME NoNewRefund PROVE RefundsInFlightBounded'
  BY <1>1 DEF NoNewRefund, BoundedInv, RefundsInFlightBounded
<1>2. ASSUME \A id \in DOMAIN payments' : RowBounded(payments'[id], applied'[id])
      PROVE  RefundBounded'
  BY <1>2 DEF RefundBounded, RowBounded
<1>3. \A id \in DOMAIN payments : RowBounded(payments[id], applied[id])
  BY RowByRow DEF BoundedInv
<1>4. CASE Silent \/ Answers
  BY <1>1, <1>2, <1>3, <1>4 DEF Silent, Answers, BoundedInv
<1>5. ASSUME NEW r \in Replicas, Inserts(r) PROVE BoundedInv'
  <2> DEFINE p   == process[r].p
             row == payments'[p.id]
  <2>1. /\ DOMAIN payments' = DOMAIN payments \cup {p.id}
        /\ \A id \in DOMAIN payments : payments'[id] = payments[id]
        /\ row.amount \in 1 .. MaxInt64 /\ row.refunded = 0
        /\ row.status \in {"CAPTURED", "FAILED"}
        /\ applied' = applied /\ applied[p.id] = 0
    BY <1>5, InsertedRow
  <2>2. RowBounded(row, 0)
    <3> HIDE DEF row
    <3> QED BY <2>1 DEF RowBounded
  <2> QED BY <2>1, <2>2, <1>1, <1>2, <1>3, <1>5 DEF Inserts, BoundedInv
<1>6. ASSUME NEW r \in Replicas, Updates(r) PROVE BoundedInv'
  <2> DEFINE p   == refund[r].p
             old == payments[p.id]
             row == payments'[p.id]
             n   == applied[p.id]
             a   == refund[r].amount
  <2>1. /\ DOMAIN payments' = DOMAIN payments
        /\ \A id \in DOMAIN payments : id # p.id => payments'[id] = payments[id]
        /\ n \in Nat /\ applied'[p.id] = n + a
        /\ \A id \in DOMAIN payments : id # p.id => applied'[id] = applied[id]
        /\ a \in 1 .. MaxInt64 /\ old.amount \in 1 .. MaxInt64
        /\ row.refunded \in Int64 /\ row.refunded <= old.amount
        /\ SameInt64(row.refunded, applied'[p.id])
        /\ row.status = IF row.refunded < old.amount THEN "PARTIALLY_REFUNDED"
                                                     ELSE "REFUNDED"
        /\ row.amount = old.amount
    BY <1>6, UpdatedRow
  <2>2. RowBounded(row, applied'[p.id])
    <3> HIDE DEF row, old, a, n
    <3>1. n + a \in Nat /\ n + a > 0
      BY <2>1
    <3>2. n + a <= old.amount \/ n + a > MaxInt64
      BY <2>1, <3>1, ShownOrWrapped
    <3>3. row.refunded \in Int
      BY <2>1, Int64Assumption DEF Int64
    <3> QED BY <2>1, <3>1, <3>2, <3>3 DEF RowBounded
  <2> HIDE DEF row
  <2>3. \A id \in DOMAIN payments' : RowBounded(payments'[id], applied'[id])
    BY <2>1, <2>2, <1>3 DEF row
  <2> QED BY <2>3, <1>1, <1>2, <1>6 DEF Updates, BoundedInv
<1>7. ASSUME NEW r \in Replicas, NEW id \in PaymentIDs, NEW a \in RefundAmounts,
             BeginRefund(r, id, a)
      PROVE  BoundedInv'
  <2> DEFINE read == FromSnapshot(payments[id])
             p    == Refund(read, a)
             st   == [at |-> "gateway", amount |-> a, p |-> p]
  <2>1. /\ refund' = [refund EXCEPT ![r] = st] /\ UNCHANGED <<payments, applied>>
        /\ id \in DOMAIN payments /\ CanRefund(read, a)
    BY <1>7 DEF BeginRefund, RefundTo
  <2>2. payments[id] \in Snapshot
    BY <2>1 DEF IInv, TypeOK
  <2>3. read \in Aggregate
    BY <2>2, AggregateType
  <2> HIDE DEF read
  <2>4. /\ p.refunded <= p.amount
        /\ p.status = IF p.refunded < p.amount THEN "PARTIALLY_REFUNDED" ELSE "REFUNDED"
    BY <2>1, <2>3, RefundAccepted
  <2> HIDE DEF p
  <2>5. refund'[r].p = p /\ \A s \in Replicas : s # r => refund'[s] = refund[s]
    BY <2>1 DEF IInv, TypeOK
  <2>6. RefundsInFlightBounded'
    BY <2>4, <2>5 DEF BoundedInv, RefundsInFlightBounded
  <2> QED BY <2>1, <2>6, <1>2, <1>3 DEF BoundedInv
<1> QED BY <1>4, <1>5, <1>6, <1>7, StepShape

(* So they stay within them for ever.                                      *)
LEMMA BoundedAlways == Spec => []BoundedInv
<1>1. IInv /\ BoundedInv /\ [Next]_vars => BoundedInv'
  BY BoundedStep
<1> QED BY <1>1, BoundedInit, Invariance, PTL DEF Spec

(* Whoever races, fails or retries, no row ever shows more refunds than    *)
(* its captured amount, its status tells how much was refunded, and the    *)
(* true sum of the refunds passes the amount only past the int64s: for     *)
(* amounts the code cannot add up, and for no others.                      *)
THEOREM RefundsBounded == Spec => []RefundBounded
<1>1. BoundedInv => RefundBounded BY DEF BoundedInv
<1> QED BY <1>1, BoundedAlways, PTL

-----------------------------------------------------------------------------
(* Events never run ahead of the rows they speak of.                       *)

(* How a handler comes to commit: a ProcessPaymentHandler by inserting its *)
(* row, a RefundPaymentHandler by updating it.                             *)
CommitsBySave ==
  \A s \in Replicas :
    process'[s] # Idle /\ process'[s].at = "commit" =>
      \/ process'[s] = process[s]
      \/ SavePayment(s) /\ process'[s].p = process[s].p
CommitsByUpdate ==
  \A s \in Replicas :
    refund'[s] # Idle /\ refund'[s].at = "commit" =>
      \/ refund'[s] = refund[s]
      \/ UpdatePayment(s) /\ refund'[s].p = refund[s].p

(* An event tells the state of an aggregate a handler is committing.       *)
Tells(e, p) ==
  /\ e.id = p.id /\ e.status = p.status
  /\ e.refunded = p.refunded /\ e.version = p.version
PublishesCommits ==
  \A e \in published' \ published : \E s \in Replicas :
    \/ process[s] # Idle /\ process[s].at = "commit" /\ Tells(e, process[s].p)
    \/ refund[s] # Idle /\ refund[s].at = "commit" /\ Tells(e, refund[s].p)

(* A step of ProcessPaymentHandler that is not its save leads to no commit,*)
(* and only its commit publishes.                                          *)
LEMMA ProcessCommits ==
  ASSUME IInv, NEW r \in Replicas, ProcessStep(r)
  PROVE  CommitsBySave /\ CommitsByUpdate /\ PublishesCommits
<1>1. CommitsByUpdate
  BY DEF CommitsByUpdate, ProcessStep, AuthorizeAtGateway, AuthorizeFails,
         UnknownGateway, CaptureAtGateway, CaptureFails, SavePayment,
         SaveConflicts, SaveFails, AnswerWinner, ReloadFails, CommitProcess
<1>2. ASSUME NEW st, process' = [process EXCEPT ![r] = st],
             st # Idle => st.at # "commit"
      PROVE  CommitsBySave
  <2>1. process'[r] = st /\ \A s \in Replicas : s # r => process'[s] = process[s]
    BY <1>2 DEF IInv, TypeOK
  <2> QED BY <2>1, <1>2 DEF CommitsBySave
<1>3. ASSUME NEW at \in {"save", "commit", "reload"}, process[r] # Idle
      PROVE  LET st == [process[r] EXCEPT !.at = at] IN
             st.at = at /\ st.p = process[r].p
  <2>1. process[r] \in ProcessState
    BY <1>3, BusyProcess DEF IInv
  <2>2. at \in {"authorize", "capture", "save", "reload", "commit"}
    OBVIOUS
  <2> QED BY <2>1, <2>2, ProcessMoves
<1>4. ASSUME AuthorizeAtGateway(r)
      PROVE  CommitsBySave
  BY <1>2, <1>4 DEF AuthorizeAtGateway, ProcessTo
<1>5. ASSUME AuthorizeFails(r)
      PROVE  CommitsBySave
  BY <1>2, <1>5 DEF AuthorizeFails, ProcessTo
<1>6. ASSUME CaptureAtGateway(r) \/ SaveConflicts(r)
      PROVE  CommitsBySave
  BY <1>2, <1>3, <1>6 DEF CaptureAtGateway, SaveConflicts, ProcessTo
<1>7. ASSUME UnknownGateway(r) \/ CaptureFails(r) \/ SaveFails(r)
             \/ AnswerWinner(r) \/ ReloadFails(r) \/ CommitProcess(r)
      PROVE  CommitsBySave
  BY <1>2, <1>7 DEF UnknownGateway, CaptureFails, SaveFails, AnswerWinner,
     ReloadFails, CommitProcess, ProcessTo
<1>8. ASSUME SavePayment(r)
      PROVE  CommitsBySave
  <2> DEFINE st == [process[r] EXCEPT !.at = "commit"]
  <2>1. process[r] # Idle /\ process' = [process EXCEPT ![r] = st]
    BY <1>8 DEF SavePayment, ProcessTo
  <2>2. st.p = process[r].p
    BY <2>1, <1>3
  <2> HIDE DEF st
  <2>3. process'[r] = st /\ \A s \in Replicas : s # r => process'[s] = process[s]
    BY <2>1 DEF IInv, TypeOK
  <2> QED BY <2>2, <2>3, <1>8 DEF CommitsBySave
<1>9. CommitsBySave
  BY <1>4, <1>5, <1>6, <1>7, <1>8 DEF ProcessStep
<1>10. PublishesCommits
  <2>1. CASE published' = published
    BY <2>1 DEF PublishesCommits
  <2>2. CASE CommitProcess(r)
    BY <2>2 DEF CommitProcess, PublishesCommits, IntegrationEvents, Tells
  <2> QED BY <2>1, <2>2 DEF ProcessStep, AuthorizeAtGateway, AuthorizeFails,
         UnknownGateway, CaptureAtGateway, CaptureFails, SavePayment,
         SaveConflicts, SaveFails, AnswerWinner, ReloadFails
<1> QED BY <1>1, <1>9, <1>10

(* The same of RefundPaymentHandler and its update.                        *)
LEMMA RefundCommits ==
  ASSUME IInv, NEW r \in Replicas, RefundStep(r)
  PROVE  CommitsBySave /\ CommitsByUpdate /\ PublishesCommits
<1>1. CommitsBySave
  BY DEF CommitsBySave, RefundStep, RefundAtGateway, RefundFails, UpdatePayment,
         UpdateConflicts, UpdateFails, CommitRefund
<1>2. ASSUME NEW st, refund' = [refund EXCEPT ![r] = st],
             st # Idle => st.at # "commit"
      PROVE  CommitsByUpdate
  <2>1. refund'[r] = st /\ \A s \in Replicas : s # r => refund'[s] = refund[s]
    BY <1>2 DEF IInv, TypeOK
  <2> QED BY <2>1, <1>2 DEF CommitsByUpdate
<1>3. ASSUME NEW at \in {"update", "commit"}, refund[r] # Idle
      PROVE  LET st == [refund[r] EXCEPT !.at = at] IN
             st.at = at /\ st.p = refund[r].p
  BY <1>3, BusyRefund, RefundMoves DEF IInv
<1>4. ASSUME RefundAtGateway(r)
      PROVE  CommitsByUpdate
  BY <1>2, <1>3, <1>4 DEF RefundAtGateway, RefundTo
<1>5. ASSUME RefundFails(r) \/ UpdateConflicts(r) \/ UpdateFails(r) \/ CommitRefund(r)
      PROVE  CommitsByUpdate
  BY <1>2, <1>5 DEF RefundFails, UpdateConflicts, UpdateFails, CommitRefund, RefundTo
<1>6. ASSUME UpdatePayment(r)
      PROVE  CommitsByUpdate
  <2> DEFINE st == [refund[r] EXCEPT !.at = "commit"]
  <2>1. refund[r] # Idle /\ refund' = [refund EXCEPT ![r] = st]
    BY <1>6 DEF UpdatePayment, RefundTo
  <2>2. st.p = refund[r].p
    BY <2>1, <1>3
  <2> HIDE DEF st
  <2>3. refund'[r] = st /\ \A s \in Replicas : s # r => refund'[s] = refund[s]
    BY <2>1 DEF IInv, TypeOK
  <2> QED BY <2>2, <2>3, <1>6 DEF CommitsByUpdate
<1>7. CommitsByUpdate
  BY <1>4, <1>5, <1>6 DEF RefundStep
<1>8. PublishesCommits
  <2>1. CASE published' = published
    BY <2>1 DEF PublishesCommits
  <2>2. CASE CommitRefund(r)
    BY <2>2 DEF CommitRefund, PublishesCommits, IntegrationEvents, Tells
  <2> QED BY <2>1, <2>2 DEF RefundStep, RefundAtGateway, RefundFails, UpdatePayment,
         UpdateConflicts, UpdateFails
<1> QED BY <1>1, <1>7, <1>8

(* So does every step commit and publish.                                  *)
LEMMA StepCommits ==
  ASSUME IInv, [Next]_vars
  PROVE  CommitsBySave /\ CommitsByUpdate /\ PublishesCommits
<1>1. ASSUME published' = published, process' = process, refund' = refund
      PROVE  CommitsBySave /\ CommitsByUpdate /\ PublishesCommits
  BY <1>1 DEF CommitsBySave, CommitsByUpdate, PublishesCommits
<1>2. ASSUME NEW r \in Replicas, NEW cmd \in ProcessCommands, Begin(r, cmd)
      PROVE  CommitsBySave /\ CommitsByUpdate /\ PublishesCommits
  <2>1. \A s \in Replicas : process'[s] = process[s] \/ process'[s].at = "authorize"
    BY <1>2 DEF Begin, ProcessTo, IInv, TypeOK
  <2>2. refund' = refund /\ published' = published
    BY <1>2 DEF Begin
  <2> QED BY <2>1, <2>2 DEF CommitsBySave, CommitsByUpdate, PublishesCommits
<1>3. ASSUME NEW r \in Replicas, NEW id \in PaymentIDs, NEW a \in RefundAmounts,
             BeginRefund(r, id, a)
      PROVE  CommitsBySave /\ CommitsByUpdate /\ PublishesCommits
  <2>1. \A s \in Replicas : refund'[s] = refund[s] \/ refund'[s].at = "gateway"
    BY <1>3 DEF BeginRefund, RefundTo, IInv, TypeOK
  <2>2. process' = process /\ published' = published
    BY <1>3 DEF BeginRefund
  <2> QED BY <2>1, <2>2 DEF CommitsBySave, CommitsByUpdate, PublishesCommits
<1>4. ASSUME NEW r \in Replicas, Crash(r)
      PROVE  CommitsBySave /\ CommitsByUpdate /\ PublishesCommits
  <2>1. \A s \in Replicas : /\ process'[s] = process[s] \/ process'[s] = Idle
                            /\ refund'[s] = refund[s] \/ refund'[s] = Idle
    BY <1>4 DEF Crash, ProcessTo, RefundTo, IInv, TypeOK
  <2>2. published' = published
    BY <1>4 DEF Crash
  <2> QED BY <2>1, <2>2 DEF CommitsBySave, CommitsByUpdate, PublishesCommits
<1>5. ASSUME NEW r \in Replicas,
             \/ \E cmd \in ProcessCommands : Replay(r, cmd)
             \/ \E gw \in AdminChoices : SetActive(r, gw)
      PROVE  published' = published /\ process' = process /\ refund' = refund
  BY <1>5 DEF Replay, SetActive
<1>6. CASE UNCHANGED vars
  BY <1>1, <1>6 DEF vars
<1> QED BY <1>1, <1>2, <1>3, <1>4, <1>5, <1>6, ProcessCommits, RefundCommits DEF Next

(* Persisted, of the table after the step.                                 *)
StaysPersisted(e) ==
  /\ e.id \in DOMAIN payments'
  /\ e.version <= payments'[e.id].version
  /\ e.version = payments'[e.id].version =>
       e.status = payments'[e.id].status /\ e.refunded = payments'[e.id].refunded

(* What was persisted stays so: no row vanishes, and a row that changes    *)
(* moves on to the next version.                                           *)
LEMMA PersistedKept ==
  ASSUME IInv, BoundedInv, [Next]_vars,
         NEW e, e.version \in Nat, Persisted(e)
  PROVE  StaysPersisted(e)
<1>1. CASE payments' = payments
  BY <1>1 DEF Persisted, StaysPersisted
<1>2. ASSUME NEW r \in Replicas, Inserts(r) PROVE StaysPersisted(e)
  BY <1>2, InsertedRow DEF Persisted, StaysPersisted
<1>3. ASSUME NEW r \in Replicas, Updates(r) PROVE StaysPersisted(e)
  <2> DEFINE p   == refund[r].p
             old == payments[p.id]
             row == payments'[p.id]
  <2>1. /\ DOMAIN payments' = DOMAIN payments
        /\ \A i \in DOMAIN payments : i # p.id => payments'[i] = payments[i]
        /\ old.version \in Nat /\ row.version = old.version + 1
    BY <1>3, UpdatedRow
  <2>2. e.id \in DOMAIN payments /\ e.version <= payments[e.id].version
    BY DEF Persisted
  <2>3. CASE e.id # p.id
    BY <2>1, <2>3 DEF Persisted, StaysPersisted
  <2>4. CASE e.id = p.id
    <3>1. e.version <= old.version
      BY <2>2, <2>4
    <3> HIDE DEF old, row
    <3>2. e.version <= row.version /\ e.version # row.version
      BY <2>1, <3>1
    <3> QED BY <2>1, <2>2, <2>4, <3>2 DEF StaysPersisted, row
  <2> QED BY <2>3, <2>4
<1>4. ASSUME NEW r \in Replicas, NEW i \in PaymentIDs, NEW a \in RefundAmounts,
             BeginRefund(r, i, a)
      PROVE  payments' = payments
  BY <1>4 DEF BeginRefund
<1> QED BY <1>1, <1>2, <1>3, <1>4, StepShape DEF Silent, Answers

(* Initially nothing was published.                                        *)
LEMMA EventsInit == Init => EventsInv
<1> SUFFICES ASSUME Init PROVE EventsInv
  OBVIOUS
<1>1. /\ published = {}
      /\ \A r \in Replicas : process[r] = Idle /\ refund[r] = Idle
  BY DEF Init
<1> QED BY <1>1 DEF EventsInv, EventsFollowRows, CommitsPersisted

(* A commit is reached by persisting what it will publish, and that stays. *)
LEMMA EventsStep ==
  ASSUME IInv, BoundedInv, EventsInv, [Next]_vars
  PROVE  EventsInv'
<1>1. CommitsBySave /\ CommitsByUpdate /\ PublishesCommits
  BY StepCommits
<1>2. ASSUME NEW s \in Replicas, process[s] # Idle, process[s].at = "commit"
      PROVE  StaysPersisted(process[s].p)
  <2>1. process[s].p.version \in Nat
    BY <1>2, BusyProcess DEF IInv, Aggregate
  <2>2. Persisted(process[s].p)
    BY <1>2 DEF EventsInv, CommitsPersisted
  <2> QED BY <2>1, <2>2, PersistedKept
<1>3. ASSUME NEW s \in Replicas, refund[s] # Idle, refund[s].at = "commit"
      PROVE  StaysPersisted(refund[s].p)
  <2>1. refund[s].p.version \in Nat
    BY <1>3, BusyRefund DEF IInv, Aggregate
  <2>2. Persisted(refund[s].p)
    BY <1>3 DEF EventsInv, CommitsPersisted
  <2> QED BY <2>1, <2>2, PersistedKept
<1>4. ASSUME NEW s \in Replicas, SavePayment(s)
      PROVE  StaysPersisted(process[s].p)
  <2> DEFINE p   == process[s].p
             row == ToSnapshot(p)
  <2>1. p \in Aggregate /\ p.version \in Nat
    BY <1>4, BusyProcess DEF SavePayment, IInv, Aggregate
  <2>2. row.status = p.status /\ row.refunded = p.refunded /\ row.version = p.version
    BY <2>1, SnapshotType
  <2>3. payments' = [id \in DOMAIN payments \cup {p.id} |->
                       IF id = p.id THEN row ELSE payments[id]]
    BY <1>4 DEF SavePayment, Inserted
  <2> HIDE DEF p, row
  <2>4. p.id \in DOMAIN payments' /\ payments'[p.id] = row
    BY <2>3
  <2> QED BY <2>1, <2>2, <2>4 DEF StaysPersisted, p
<1>5. ASSUME NEW s \in Replicas, UpdatePayment(s)
      PROVE  StaysPersisted(refund[s].p)
  <2> DEFINE p    == refund[s].p
             snap == ToSnapshot(p)
             row  == [snap EXCEPT !.key = payments[p.id].key]
  <2>1. p \in Aggregate /\ p.version \in Nat
    BY <1>5, BusyRefund DEF UpdatePayment, IInv, Aggregate
  <2>2. /\ snap \in Snapshot /\ snap.status = p.status
        /\ snap.refunded = p.refunded /\ snap.version = p.version
    BY <2>1, SnapshotType
  <2>3. payments' = [payments EXCEPT ![p.id] = row] /\ p.id \in DOMAIN payments
    BY <1>5 DEF UpdatePayment, Updated, VersionMatches
  <2> HIDE DEF p, snap
  <2>4. row.status = p.status /\ row.refunded = p.refunded /\ row.version = p.version
    BY <2>2 DEF Snapshot
  <2> HIDE DEF row
  <2>5. p.id \in DOMAIN payments' /\ payments'[p.id] = row
    BY <2>3 DEF IInv, TypeOK
  <2> QED BY <2>1, <2>4, <2>5 DEF StaysPersisted, p
<1>6. CommitsPersisted'
  BY <1>1, <1>2, <1>3, <1>4, <1>5
     DEF CommitsBySave, CommitsByUpdate, CommitsPersisted, Persisted, StaysPersisted
<1>7. ASSUME NEW e \in published'
      PROVE  StaysPersisted(e)
  <2>1. CASE e \in published
    <3>1. e.version \in Nat
      BY <2>1 DEF IInv, TypeOK, Event
    <3>2. Persisted(e)
      BY <2>1 DEF EventsInv, EventsFollowRows
    <3> QED BY <3>1, <3>2, PersistedKept
  <2>2. CASE e \notin published
    BY <2>2, <1>1, <1>2, <1>3 DEF PublishesCommits, Tells, StaysPersisted
  <2> QED BY <2>1, <2>2
<1>8. EventsFollowRows'
  BY <1>7 DEF EventsFollowRows, Persisted, StaysPersisted
<1> QED BY <1>6, <1>8 DEF EventsInv

(* No event runs ahead of its row, and none that speaks of the version the *)
(* row has contradicts the row.                                            *)
THEOREM EventsPersisted == Spec => []EventsFollowRows
<1>1. IInv /\ BoundedInv /\ EventsInv /\ [Next]_vars => EventsInv'
  BY EventsStep
<1>2. EventsInv => EventsFollowRows BY DEF EventsInv
<1> QED BY <1>1, <1>2, EventsInit, Invariance, BoundedAlways, PTL DEF Spec

-----------------------------------------------------------------------------
(* The refinement: the rows and answers are the book of PaymentBook.       *)

(* What the book shows of a row.                                           *)
Entry(row) == [id |-> row.id, amount |-> row.amount, refunded |-> row.refunded,
               status |-> row.status]

(* The columns an entry shows.                                             *)
LEMMA EntryFields ==
  ASSUME NEW row
  PROVE  /\ Entry(row).id = row.id /\ Entry(row).amount = row.amount
         /\ Entry(row).refunded = row.refunded /\ Entry(row).status = row.status
BY DEF Entry

(* A table with one row per key is a function of the keys.                 *)
LEMMA KeyToRow ==
  ASSUME NEW rows, \A i, j \in DOMAIN rows : rows[i].key = rows[j].key => i = j,
         NEW id \in DOMAIN rows
  PROVE  (CHOOSE i \in {j \in DOMAIN rows : rows[j].key = rows[id].key} : TRUE) = id
<1> DEFINE same == {j \in DOMAIN rows : rows[j].key = rows[id].key}
<1>1. id \in same /\ \A i \in same : i = id
  OBVIOUS
<1> HIDE DEF same
<1>2. (CHOOSE i \in same : TRUE) \in same
  BY <1>1
<1> QED BY <1>1, <1>2 DEF same

(* The book has one entry per row, under the row's key.                    *)
BookShape ==
  /\ DOMAIN Book = {payments[id].key : id \in DOMAIN payments}
  /\ \A id \in DOMAIN payments : Book[payments[id].key] = Entry(payments[id])
  /\ Book = [k \in DOMAIN Book |-> Book[k]]

(* So it is now, and after a step that keeps keys unique.                  *)
LEMMA BookNow == KeysUnique => BookShape
<1> SUFFICES ASSUME KeysUnique PROVE BookShape
  OBVIOUS
<1>1. \A id \in DOMAIN payments : RowOf(payments[id].key) = payments[id]
  BY KeyToRow DEF KeysUnique, RowOf, Stored
<1>2. DOMAIN Book = {payments[id].key : id \in DOMAIN payments}
  BY DEF Book
<1> QED BY <1>1, <1>2 DEF Book, Entry, BookShape

(* The same of the book after the step.                                    *)
LEMMA BookNext == KeysUnique' => BookShape'
BY BookNow, PTL

(* The same rows make the same book.                                       *)
LEMMA SameBook == payments' = payments => Book' = Book
BY DEF Book, RowOf, Stored

(* Initially the book is empty.                                            *)
LEMMA BookInit == Init => Promise!Init
<1> SUFFICES ASSUME Init PROVE Promise!Init
  OBVIOUS
<1>1. DOMAIN payments = {} /\ answers = {}
  BY DEF Init
<1>2. DOMAIN Book = {}
  BY <1>1 DEF Book
<1>3. Book = [k \in {} |-> {}]
  BY <1>2 DEF Book
<1> QED BY <1>1, <1>3 DEF Promise!Init

(* Answering a stored payment is an answer of the book.                    *)
LEMMA AnswersRefine ==
  ASSUME IInv, Answers
  PROVE  Promise!Next
<1>0. PICK key \in Keys : \E id \in Stored(key) : answers' = answers \cup {<<key, id>>}
  BY DEF Answers
<1>1. PICK id \in Stored(key) : answers' = answers \cup {<<key, id>>}
  BY <1>0
<1>2. Book' = Book
  BY SameBook DEF Answers
<1>3. id \in DOMAIN payments /\ payments[id].key = key /\ payments[id].id = id
  BY DEF Stored, IInv, RowsInv
<1>4. BookShape
  BY BookNow DEF IInv
<1>5. key \in DOMAIN Book /\ Book[key].id = id
  <2>1. key \in DOMAIN Book /\ Book[key] = Entry(payments[id])
    BY <1>3, <1>4 DEF BookShape
  <2> QED BY <2>1, <1>3, EntryFields
<1>6. Promise!Answer(key)
  BY <1>1, <1>2, <1>5 DEF Promise!Answer
<1> QED BY <1>6 DEF Promise!Next

(* An insert settles a key the book does not have.                         *)
LEMMA InsertRefines ==
  ASSUME IInv, IInv', NEW r \in Replicas, Inserts(r)
  PROVE  Promise!Next
<1> DEFINE p   == process[r].p
           row == payments'[p.id]
           key == row.key
           new == [j \in DOMAIN Book \cup {key} |->
                     IF j # key THEN Book[j]
                     ELSE [id |-> row.id, amount |-> row.amount, refunded |-> 0,
                           status |-> row.status]]
<1>1. /\ DOMAIN payments' = DOMAIN payments \cup {p.id}
      /\ p.id \in PaymentIDs \ DOMAIN payments
      /\ \A id \in DOMAIN payments : payments'[id] = payments[id]
      /\ \A id \in DOMAIN payments : payments[id].key # key
      /\ row.id = p.id /\ key \in Keys
      /\ row.amount \in 1 .. MaxInt64 /\ row.refunded = 0
      /\ row.status \in {"CAPTURED", "FAILED"}
  BY InsertedRow
<1>2. BookShape /\ BookShape'
  BY BookNow, BookNext DEF IInv
<1>3. \A id \in DOMAIN payments : payments[id].id = id
  BY DEF IInv, RowsInv
<1>4. answers' = answers
  BY DEF Inserts
<1> HIDE DEF row, p
<1>5. key \notin DOMAIN Book
  BY <1>1, <1>2 DEF BookShape
<1>6. \A other \in DOMAIN Book : Book[other].id # row.id
  <2>1. \A id \in DOMAIN payments : Book[payments[id].key].id = id
    BY <1>2, <1>3, EntryFields DEF BookShape
  <2> QED BY <2>1, <1>1, <1>2 DEF BookShape
<1>7. DOMAIN Book' = DOMAIN Book \cup {key}
  BY <1>1, <1>2 DEF BookShape, row
<1>8. \A j \in DOMAIN Book : Book'[j] = Book[j]
  BY <1>1, <1>2 DEF BookShape
<1>9. Book'[key] = Entry(row)
  BY <1>1, <1>2 DEF BookShape, row
<1>10. Book' = new
  <2>1. Book' = [j \in DOMAIN Book' |-> Book'[j]]
    BY <1>2 DEF BookShape
  <2> HIDE DEF key
  <2> QED BY <2>1, <1>1, <1>5, <1>7, <1>8, <1>9 DEF Entry
<1>11. Promise!Settle(key, row.id, row.amount, row.status)
  BY <1>4, <1>5, <1>6, <1>10 DEF Promise!Settle
<1> QED BY <1>1, <1>11 DEF Promise!Next

(* An accepted update is a refund of the book.                             *)
LEMMA UpdateRefines ==
  ASSUME IInv, IInv', BoundedInv, NEW r \in Replicas, Updates(r)
  PROVE  Promise!Next
<1> DEFINE p   == refund[r].p
           old == payments[p.id]
           row == payments'[p.id]
           a   == refund[r].amount
           key == old.key
           sum == Promise!Total(Book[key].refunded, a)
           new == [Book EXCEPT ![key].refunded = sum,
                               ![key].status = IF sum = Book[key].amount
                                               THEN "REFUNDED" ELSE "PARTIALLY_REFUNDED"]
<1>1. /\ p.id \in DOMAIN payments /\ DOMAIN payments' = DOMAIN payments
      /\ \A id \in DOMAIN payments : id # p.id => payments'[id] = payments[id]
      /\ old.status \in {"CAPTURED", "PARTIALLY_REFUNDED"}
      /\ a \in 1 .. MaxInt64
      /\ old.amount \in 1 .. MaxInt64 /\ row.refunded \in Int64
      /\ row.refunded = Add64(old.refunded, a) /\ row.refunded <= old.amount
      /\ row.status = IF row.refunded < old.amount THEN "PARTIALLY_REFUNDED"
                                                   ELSE "REFUNDED"
      /\ row.id = old.id /\ row.key = old.key /\ row.amount = old.amount
  BY UpdatedRow
<1>2. BookShape /\ BookShape'
  BY BookNow, BookNext DEF IInv
<1>3. answers' = answers
  BY DEF Updates
<1>4. \A id \in DOMAIN payments : id # p.id => payments[id].key # key
  BY <1>1 DEF IInv, KeysUnique
<1>5. key \in Keys
  BY <1>1 DEF IInv, TypeOK, Snapshot
<1>6. key \in DOMAIN Book /\ Book[key] = Entry(old)
  BY <1>1, <1>2 DEF BookShape
<1>7. DOMAIN Book' = DOMAIN Book
  <2> HIDE DEF p
  <2>1. \A id \in DOMAIN payments : payments'[id].key = payments[id].key
    BY <1>1
  <2> QED BY <2>1, <1>1, <1>2 DEF BookShape
<1>8. Book'[key] = Entry(row)
  BY <1>1, <1>2 DEF BookShape
<1> HIDE DEF row, old, p, a
<1>9. \A j \in DOMAIN Book : j # key => Book'[j] = Book[j]
  <2>1. ASSUME NEW id \in DOMAIN payments, payments[id].key # key
        PROVE  Book'[payments[id].key] = Book[payments[id].key]
    <3>1. payments'[id] = payments[id]
      BY <2>1, <1>1 DEF old
    <3> QED BY <3>1, <1>1, <1>2 DEF BookShape
  <2> QED BY <2>1, <1>2 DEF BookShape
<1>10. Book' = new
  <2> DEFINE total == Add64(old.refunded, a)
             left  == IF total = old.amount THEN "REFUNDED" ELSE "PARTIALLY_REFUNDED"
             e == Entry(old)
             f == Entry(row)
             Entries == [id : {old.id}, amount : {old.amount},
                         refunded : {old.refunded, total}, status : {old.status, left}]
  <2>1. row.refunded = total /\ row.status = left
    <3>1. row.refunded \in Int /\ old.amount \in Int
      BY <1>1, Int64Assumption DEF Int64
    <3> QED BY <3>1, <1>1
  <2>2. /\ e \in Entries /\ e.id = old.id /\ e.amount = old.amount
        /\ e.refunded = old.refunded
    BY DEF Entry
  <2>3. /\ f \in Entries /\ f.id = old.id /\ f.amount = old.amount
        /\ f.refunded = total /\ f.status = left
    BY <1>1, <2>1 DEF Entry
  <2>4. Book[key] = e /\ Book'[key] = f /\ key \in DOMAIN Book
    BY <1>6, <1>8
  <2>5. Book' = [j \in DOMAIN Book |-> Book'[j]] /\ Book = [j \in DOMAIN Book |-> Book[j]]
    BY <1>2, <1>7 DEF BookShape
  <2> HIDE DEF total, e, f, key
  <2>6. f = [e EXCEPT !.refunded = total, !.status = left]
    <3> HIDE DEF left
    <3> QED BY <2>2, <2>3
  <2>7. new = [Book EXCEPT ![key] = f]
    <3>1. sum = total /\ Book[key].amount = old.amount
      BY <2>2, <2>4 DEF total, Add64, Promise!Total
    <3> QED BY <3>1, <2>4, <2>5, <2>6
  <2> HIDE DEF new
  <2> QED BY <2>4, <2>5, <2>7, <1>9
<1>11. Promise!Refund(key, a)
  <2>1. /\ Book[key].status \in {"CAPTURED", "PARTIALLY_REFUNDED"}
        /\ sum <= Book[key].amount
    BY <1>1, <1>6 DEF Entry, Add64, Promise!Total
  <2> QED BY <2>1, <1>3, <1>6, <1>10 DEF Promise!Refund
<1> QED BY <1>1, <1>5, <1>11 DEF Promise!Next

(* Every step of the service is a step of the book, or invisible in it.    *)
LEMMA StepRefines ==
  ASSUME IInv, IInv', BoundedInv, [Next]_vars
  PROVE  [Promise!Next]_(Promise!bookVars)
<1>1. CASE Silent
  BY <1>1, SameBook DEF Silent, Promise!bookVars
<1>2. ASSUME NEW r \in Replicas, NEW id \in PaymentIDs, NEW a \in RefundAmounts,
             BeginRefund(r, id, a)
      PROVE  UNCHANGED Promise!bookVars
  BY <1>2, SameBook DEF BeginRefund, Promise!bookVars
<1> QED BY <1>1, <1>2, StepShape, AnswersRefine, InsertRefines, UpdateRefines

(* The service, with its replicas racing, its gateways and its database    *)
(* failing, its processes dying and its sums wrapping, implements the book.*)
THEOREM Refinement == Spec => ImplementsBook
<1>1. IInv /\ IInv' /\ BoundedInv /\ [Next]_vars => [Promise!Next]_(Promise!bookVars)
  BY StepRefines
<1> QED BY <1>1, BookInit, Invariance, BoundedAlways, PTL
        DEF Spec, ImplementsBook, Promise!Spec

-----------------------------------------------------------------------------
(* No more refunds are accepted than the gateways were asked to pay back.  *)

(* PaidBack of any count of calls.                                         *)
Calls == Gateways \X Refs \X RefundAmounts
CallsFor(ref) == {c \in Calls : c[2] = ref}
Worth(calls) == [c \in Calls |-> calls[c] * c[3]]
Paid(calls, ref) == SumFunctionOnSet(Worth(calls), CallsFor(ref))

LEMMA PaidBackIs ==
  ASSUME TypeOK, NEW ref
  PROVE  PaidBack(ref) = Paid(refundCalls, ref)
<1>1. DOMAIN refundCalls = Calls
  BY DEF TypeOK, Calls
<1> QED BY <1>1 DEF PaidBack, Paid, Worth, CallsFor

(* There are finitely many gateways and amounts.                           *)
LEMMA CallsFinite ==
  ASSUME NEW ref
  PROVE  IsFiniteSet(CallsFor(ref))
<1> DEFINE pairs == Gateways \X RefundAmounts
           call  == [x \in pairs |-> <<x[1], ref, x[2]>>]
           made  == {call[x] : x \in pairs}
<1>1. IsFiniteSet(pairs)
  <2>1. IsFiniteSet(Gateways)
    <3>1. Gateways = ({} \cup {"mock"}) \cup {"stripe"}
      BY DEF Gateways
    <3> QED BY <3>1, FS_EmptySet, FS_AddElement
  <2>2. IsFiniteSet(RefundAmounts)
    <3>1. IsFiniteSet(1 .. MaxInt64)
      BY FS_Interval, Int64Assumption
    <3> QED BY <3>1, FS_Subset, PaymentsAssumption
  <2> QED BY <2>1, <2>2, FS_Product
<1>2. call \in Surjection(pairs, made)
  BY DEF Surjection
<1>3. IsFiniteSet(made)
  <2> HIDE DEF pairs, call, made
  <2> QED BY <1>1, <1>2, FS_Surjection
<1>4. CallsFor(ref) \subseteq made
  <2>1. ASSUME NEW c \in CallsFor(ref) PROVE c \in made
    <3>1. c = call[<<c[1], c[3]>>] /\ <<c[1], c[3]>> \in pairs
      BY <2>1 DEF CallsFor, Calls
    <3> QED BY <3>1
  <2> QED BY <2>1
<1> QED BY <1>3, <1>4, FS_Subset

LEMMA CallWorth ==
  ASSUME NEW c \in Calls
  PROVE  c[3] \in Nat
<1>1. c[3] \in RefundAmounts
  BY DEF Calls
<1>2. \A a \in RefundAmounts : a \in Nat
  BY BoundsType, Int64Assumption
<1> QED BY <1>1, <1>2

(* One call more to pay back ref adds its amount to what was paid for it.  *)
Adds(calls, more, ref, call) ==
  /\ Paid(calls, ref) \in Nat
  /\ call[2] = ref => Paid(more, ref) = Paid(calls, ref) + call[3]
  /\ call[2] # ref => Paid(more, ref) = Paid(calls, ref)

(* A call more is worth its amount.                                        *)
LEMMA OneCallMore ==
  ASSUME NEW calls \in [Calls -> Nat], NEW call \in Calls, NEW ref,
         NEW more, more = [calls EXCEPT ![call] = calls[call] + 1]
  PROVE  Adds(calls, more, ref, call)
<1> DEFINE f == Worth(calls)
           g == Worth(more)
           S == CallsFor(ref)
<1>1. \A c \in Calls : c[3] \in Nat
  BY CallWorth
<1>2. \A n, m \in Nat : n * m \in Nat /\ (n + 1) * m = n * m + m
  OBVIOUS
<1>3. \A c \in Calls : more[c] \in Nat /\ (c # call => more[c] = calls[c])
  OBVIOUS
<1>4. more[call] = calls[call] + 1
  OBVIOUS
<1>5. \A c \in Calls : f[c] \in Nat /\ g[c] \in Nat
  BY <1>1, <1>2, <1>3 DEF Worth
<1>6. \A c \in Calls : c # call => g[c] = f[c]
  BY <1>3 DEF Worth
<1>7. g[call] = f[call] + call[3]
  <2>1. g[call] = (calls[call] + 1) * call[3] /\ f[call] = calls[call] * call[3]
    BY <1>4 DEF Worth
  <2>2. calls[call] \in Nat /\ call[3] \in Nat
    BY <1>1
  <2> QED BY <2>1, <2>2, <1>2
<1>8. S \subseteq Calls /\ IsFiniteSet(S) /\ (call \in S <=> call[2] = ref)
  BY CallsFinite DEF CallsFor
<1> HIDE DEF f, g, S
<1>9. /\ SumFunctionOnSet(f, S) \in Nat
      /\ call \in S => SumFunctionOnSet(g, S) = SumFunctionOnSet(f, S) + g[call] - f[call]
      /\ call \notin S => SumFunctionOnSet(g, S) = SumFunctionOnSet(f, S)
  BY <1>5, <1>6, <1>8, SumChange
<1>10. Paid(calls, ref) = SumFunctionOnSet(f, S) /\ Paid(more, ref) = SumFunctionOnSet(g, S)
  BY DEF Paid, f, g, S
<1>11. f[call] \in Nat /\ call[3] \in Nat
  BY <1>1, <1>5
<1> QED BY <1>7, <1>8, <1>9, <1>10, <1>11 DEF Adds

(* What was paid back for a ref is a number and only grows.                *)
Grows(ref, by) ==
  /\ Paid(refundCalls, ref) \in Nat /\ Paid(refundCalls', ref) \in Nat /\ by \in Nat
  /\ Paid(refundCalls', ref) = Paid(refundCalls, ref) + by

LEMMA PaidGrows ==
  ASSUME IInv, NEW r \in Replicas, refund[r] # Idle,
         refundCalls' = [refundCalls EXCEPT ![RefundCall(r)] = @ + 1], NEW ref
  PROVE  Grows(ref, IF ref = refund[r].p.ref THEN refund[r].amount ELSE 0)
<1> DEFINE call == RefundCall(r)
           more == [refundCalls EXCEPT ![call] = refundCalls[call] + 1]
<1>1. refundCalls \in [Calls -> Nat] /\ more = refundCalls'
      /\ more = [refundCalls EXCEPT ![call] = refundCalls[call] + 1]
  BY BoundsType DEF IInv, TypeOK, Calls
<1>2. /\ call \in Calls /\ call[2] = refund[r].p.ref
      /\ call[3] = refund[r].amount /\ call[3] \in Nat
  <2>1. refund[r].amount \in RefundAmounts BY BusyRefund DEF IInv
  <2>2. refund[r].p.ref \in Refs BY DEF IInv, RefundInv, RefundOK
  <2>3. active[r] \in Gateways BY DEF IInv, TypeOK
  <2>4. call \in Calls BY <2>1, <2>2, <2>3 DEF RefundCall, Calls
  <2> QED BY <2>4, CallWorth DEF RefundCall
<1> HIDE DEF call, more
<1>3. Adds(refundCalls, more, ref, call)
  BY <1>1, <1>2, OneCallMore
<1> QED BY <1>1, <1>2, <1>3 DEF Adds, Grows

LEMMA PaidIsNat ==
  ASSUME TypeOK, NEW ref
  PROVE  Paid(refundCalls, ref) \in Nat
<1>1. refundCalls \in [Calls -> Nat]
  BY BoundsType DEF TypeOK, Calls
<1>2. \A c \in CallsFor(ref) : Worth(refundCalls)[c] \in Nat
  <2>1. \A n, m \in Nat : n * m \in Nat
    OBVIOUS
  <2>2. ASSUME NEW c \in CallsFor(ref) PROVE Worth(refundCalls)[c] \in Nat
    <3>1. c \in Calls /\ c[3] \in Nat
      BY CallWorth DEF CallsFor
    <3>2. refundCalls[c] \in Nat /\ Worth(refundCalls)[c] = refundCalls[c] * c[3]
      BY <1>1, <3>1 DEF Worth
    <3> QED BY <2>1, <3>1, <3>2
  <2> QED BY <2>2
<1>3. SumFunctionOnSet(Worth(refundCalls), CallsFor(ref)) \in Nat
  <2> DEFINE f == Worth(refundCalls)
             S == CallsFor(ref)
  <2>1. IsFiniteSet(S) /\ \A x \in S : f[x] \in Nat
    BY <1>2, CallsFinite
  <2> HIDE DEF f, S
  <2>2. SumFunctionOnSet(f, S) \in Nat
    BY <2>1, SumChange
  <2> QED BY <2>2 DEF f, S
<1> QED BY <1>3 DEF Paid

-----------------------------------------------------------------------------
(* The gateways are asked one refund at a time, by handlers on their way   *)
(* to the update.                                                          *)
LEMMA StepCalls ==
  ASSUME [Next]_vars
  PROVE  \/ refundCalls' = refundCalls
         \/ \E r \in Replicas :
              /\ refund[r] # Idle
              /\ refundCalls' = [refundCalls EXCEPT ![RefundCall(r)] = @ + 1]
<1>1. ASSUME NEW r \in Replicas, ProcessStep(r)
      PROVE  refundCalls' = refundCalls
  BY <1>1 DEF ProcessStep, AuthorizeAtGateway, AuthorizeFails, UnknownGateway,
     CaptureAtGateway, CaptureFails, SavePayment, SaveConflicts, SaveFails,
     AnswerWinner, ReloadFails, CommitProcess, gatewayVars
<1>2. ASSUME NEW r \in Replicas, RefundStep(r)
      PROVE  \/ refundCalls' = refundCalls
             \/ /\ refund[r] # Idle
                /\ refundCalls' = [refundCalls EXCEPT ![RefundCall(r)] = @ + 1]
  BY <1>2 DEF RefundStep, RefundAtGateway, RefundFails, UpdatePayment,
     UpdateConflicts, UpdateFails, CommitRefund, gatewayVars
<1>3. ASSUME NEW r \in Replicas, NEW cmd \in ProcessCommands,
             Replay(r, cmd) \/ Begin(r, cmd)
      PROVE  refundCalls' = refundCalls
  BY <1>3 DEF Replay, Begin, gatewayVars
<1>4. ASSUME NEW r \in Replicas, NEW id \in PaymentIDs, NEW a \in RefundAmounts,
             BeginRefund(r, id, a)
      PROVE  refundCalls' = refundCalls
  BY <1>4 DEF BeginRefund, gatewayVars
<1>5. ASSUME NEW r \in Replicas, NEW gw \in AdminChoices, SetActive(r, gw)
      PROVE  refundCalls' = refundCalls
  BY <1>5 DEF SetActive
<1>6. ASSUME NEW r \in Replicas, Crash(r)
      PROVE  refundCalls' = refundCalls
  BY <1>6 DEF Crash
<1>7. CASE UNCHANGED vars
  BY <1>7 DEF vars
<1> QED BY <1>1, <1>2, <1>3, <1>4, <1>5, <1>6, <1>7 DEF Next

(* A handler comes to the update from the gateway, or was there before.    *)
UpdatesAfterGateway ==
  \A s \in Replicas :
    refund'[s] # Idle /\ refund'[s].at = "update" =>
      \/ refund'[s] = refund[s]
      \/ /\ RefundAtGateway(s)
         /\ refund'[s].p = refund[s].p /\ refund'[s].amount = refund[s].amount

LEMMA StepToUpdate ==
  ASSUME IInv, [Next]_vars
  PROVE  UpdatesAfterGateway
<1>1. CASE refund' = refund
  BY <1>1 DEF UpdatesAfterGateway
<1>2. ASSUME NEW r \in Replicas, NEW st, refund' = [refund EXCEPT ![r] = st],
             st # Idle => st.at # "update"
      PROVE  UpdatesAfterGateway
  <2>1. refund'[r] = st /\ \A s \in Replicas : s # r => refund'[s] = refund[s]
    BY <1>2 DEF IInv, TypeOK
  <2> QED BY <2>1, <1>2 DEF UpdatesAfterGateway
<1>3. ASSUME NEW r \in Replicas, NEW at \in {"update", "commit"}, refund[r] # Idle
      PROVE  LET st == [refund[r] EXCEPT !.at = at] IN
             st.at = at /\ st.p = refund[r].p /\ st.amount = refund[r].amount
  BY <1>3, BusyRefund, RefundMoves DEF IInv
<1>4. ASSUME NEW r \in Replicas, RefundStep(r)
      PROVE  UpdatesAfterGateway
  <2>1. ASSUME RefundAtGateway(r)
        PROVE  UpdatesAfterGateway
    <3> DEFINE st == [refund[r] EXCEPT !.at = "update"]
    <3>1. refund[r] # Idle /\ refund' = [refund EXCEPT ![r] = st]
      BY <2>1 DEF RefundAtGateway, RefundTo
    <3>2. st.p = refund[r].p /\ st.amount = refund[r].amount
      BY <3>1, <1>3
    <3> HIDE DEF st
    <3>3. refund'[r] = st /\ \A s \in Replicas : s # r => refund'[s] = refund[s]
      BY <3>1 DEF IInv, TypeOK
    <3> QED BY <2>1, <3>2, <3>3 DEF UpdatesAfterGateway
  <2>2. ASSUME RefundFails(r) \/ UpdateConflicts(r) \/ UpdateFails(r) \/ CommitRefund(r)
        PROVE  UpdatesAfterGateway
    BY <1>2, <2>2 DEF RefundFails, UpdateConflicts, UpdateFails, CommitRefund, RefundTo
  <2>3. ASSUME UpdatePayment(r)
        PROVE  UpdatesAfterGateway
    BY <1>2, <1>3, <2>3 DEF UpdatePayment, RefundTo
  <2> QED BY <1>4, <2>1, <2>2, <2>3 DEF RefundStep
<1>5. ASSUME NEW r \in Replicas, ProcessStep(r)
      PROVE  refund' = refund
  BY <1>5 DEF ProcessStep, AuthorizeAtGateway, AuthorizeFails, UnknownGateway,
     CaptureAtGateway, CaptureFails, SavePayment, SaveConflicts, SaveFails,
     AnswerWinner, ReloadFails, CommitProcess
<1>6. ASSUME NEW r \in Replicas, NEW cmd \in ProcessCommands,
             Replay(r, cmd) \/ Begin(r, cmd)
      PROVE  refund' = refund
  BY <1>6 DEF Replay, Begin
<1>7. ASSUME NEW r \in Replicas, NEW id \in PaymentIDs, NEW a \in RefundAmounts,
             BeginRefund(r, id, a)
      PROVE  UpdatesAfterGateway
  <2> DEFINE st == [at |-> "gateway", amount |-> a,
                    p |-> Refund(FromSnapshot(payments[id]), a)]
  <2>1. refund' = [refund EXCEPT ![r] = st] /\ st.at = "gateway"
    BY <1>7 DEF BeginRefund, RefundTo
  <2> HIDE DEF st
  <2> QED BY <2>1, <1>2
<1>8. ASSUME NEW r \in Replicas, NEW gw \in AdminChoices, SetActive(r, gw)
      PROVE  refund' = refund
  BY <1>8 DEF SetActive
<1>9. ASSUME NEW r \in Replicas, Crash(r)
      PROVE  UpdatesAfterGateway
  BY <1>2, <1>9 DEF Crash, RefundTo
<1>10. CASE UNCHANGED vars
  BY <1>1, <1>10 DEF vars
<1> QED BY <1>1, <1>4, <1>5, <1>6, <1>7, <1>8, <1>9, <1>10 DEF Next

-----------------------------------------------------------------------------
(* The invariant and the steps.                                            *)

(* PaidInv, said with Paid.                                                *)
RowsPaid(rows, sums, calls) ==
  \A id \in DOMAIN rows : sums[id] <= Paid(calls, rows[id].ref)
InFlightPaid(rows, sums, busy, calls) ==
  \A s \in Replicas : busy[s] # Idle /\ busy[s].at = "update" =>
    LET row == rows[busy[s].p.id] IN
    busy[s].p.version = row.version + 1 =>
      sums[busy[s].p.id] + busy[s].amount <= Paid(calls, row.ref)

LEMMA PaidInvIs ==
  /\ TypeOK => (PaidInv <=> /\ RowsPaid(payments, applied, refundCalls)
                           /\ InFlightPaid(payments, applied, refund, refundCalls))
  /\ TypeOK' => (PaidInv' <=> /\ RowsPaid(payments', applied', refundCalls')
                             /\ InFlightPaid(payments', applied', refund', refundCalls'))
<1>1. ASSUME TypeOK
      PROVE  PaidInv <=> /\ RowsPaid(payments, applied, refundCalls)
                         /\ InFlightPaid(payments, applied, refund, refundCalls)
  <2>1. \A ref : PaidBack(ref) = Paid(refundCalls, ref)
    BY <1>1, PaidBackIs
  <2> QED BY <2>1 DEF PaidInv, RefundsWerePaid, RefundsInFlightPaid, RowsPaid, InFlightPaid
<1>2. ASSUME TypeOK'
      PROVE  PaidInv' <=> /\ RowsPaid(payments', applied', refundCalls')
                          /\ InFlightPaid(payments', applied', refund', refundCalls')
  <2>1. DOMAIN refundCalls' = Calls
    BY <1>2 DEF TypeOK, Calls
  <2> QED BY <2>1 DEF PaidInv, RefundsWerePaid, RefundsInFlightPaid, RowsPaid,
                     InFlightPaid, PaidBack, Paid, Worth, CallsFor
<1> QED BY <1>1, <1>2

(* The conditional update accepts the refund that was paid back, and the   *)
(* row keeps its ref.                                                      *)
LEMMA UpdateShows ==
  ASSUME IInv, NEW r \in Replicas, Updates(r)
  PROVE  LET p   == refund[r].p
             old == payments[p.id]
             row == payments'[p.id]
         IN  /\ p.id \in DOMAIN payments /\ DOMAIN payments' = DOMAIN payments
             /\ \A id \in DOMAIN payments : id # p.id => payments'[id] = payments[id]
             /\ old.version \in Nat
             /\ applied'[p.id] = applied[p.id] + refund[r].amount
             /\ \A id \in DOMAIN payments : id # p.id => applied'[id] = applied[id]
             /\ p.version = old.version + 1
             /\ row.version = old.version + 1 /\ row.ref = old.ref
<1> DEFINE p   == refund[r].p
           a   == refund[r].amount
           old == payments[p.id]
           row == [ToSnapshot(p) EXCEPT !.key = old.key]
           sum == applied[p.id] + a
<1>1. /\ RefundOK(r) /\ p \in Aggregate
      /\ p.id \in DOMAIN payments /\ old.version = p.version - 1
      /\ refund[r].at = "update" /\ p.version \in Nat
  BY BusyRefund DEF IInv, RefundInv, VersionMatches, Updates, Aggregate
<1>2. /\ old \in Snapshot /\ old.version \in Nat
      /\ old.key \in Keys /\ p.version = old.version + 1
  <2>1. old \in Snapshot
    BY <1>1 DEF IInv, TypeOK
  <2>2. old.version \in Nat /\ old.key \in Keys
    BY <2>1 DEF Snapshot
  <2> QED BY <1>1, <2>1, <2>2
<1>3. p.ref = old.ref
  BY <1>1 DEF RefundOK
<1>4. row.version = p.version /\ row.ref = p.ref
  <2> DEFINE snap == ToSnapshot(p)
  <2>1. snap \in Snapshot /\ snap.ref = p.ref /\ snap.version = p.version
    BY <1>1, SnapshotType
  <2>2. row = [snap EXCEPT !.key = old.key]
    OBVIOUS
  <2> HIDE DEF snap, row, p, old
  <2> QED BY <2>1, <2>2 DEF Snapshot
<1>5. payments' = [payments EXCEPT ![p.id] = row]
  BY DEF Updates, Updated
<1>6. applied' = [applied EXCEPT ![p.id] = sum]
  BY DEF Updates, Apply
<1> HIDE DEF p, a, row, old, sum
<1>7. /\ DOMAIN payments' = DOMAIN payments /\ payments'[p.id] = row
      /\ \A id \in DOMAIN payments : id # p.id => payments'[id] = payments[id]
  BY <1>1, <1>5 DEF IInv, TypeOK
<1>8. /\ applied'[p.id] = sum
      /\ \A id \in DOMAIN payments : id # p.id => applied'[id] = applied[id]
  BY <1>1, <1>6 DEF IInv, TypeOK
<1> QED BY <1>1, <1>2, <1>3, <1>4, <1>7, <1>8 DEF p, a, old, sum

(* Nothing paid back is taken back.                                        *)
LEMMA PaidStays ==
  ASSUME IInv, [Next]_vars, NEW ref
  PROVE  \E by \in Nat : Grows(ref, by)
<1>1. Paid(refundCalls, ref) \in Nat
  BY PaidIsNat DEF IInv
<1>2. ASSUME refundCalls' = refundCalls
      PROVE  Grows(ref, 0)
  BY <1>1, <1>2 DEF Grows
<1>3. ASSUME NEW r \in Replicas, refund[r] # Idle,
             refundCalls' = [refundCalls EXCEPT ![RefundCall(r)] = @ + 1]
      PROVE  \E by : Grows(ref, by)
  BY <1>3, PaidGrows
<1>4. \E by : Grows(ref, by)
  BY <1>2, <1>3, StepCalls
<1> QED BY <1>4 DEF Grows

LEMMA PaidInit == Init => PaidInv
<1> SUFFICES ASSUME Init PROVE PaidInv
  OBVIOUS
<1>1. DOMAIN payments = {} /\ \A r \in Replicas : refund[r] = Idle
  BY DEF Init
<1> QED BY <1>1 DEF PaidInv, RefundsWerePaid, RefundsInFlightPaid

(* Every step keeps what the database accepted, and what handlers are      *)
(* about to have accepted, within what was paid back.                      *)
LEMMA PaidStep ==
  ASSUME IInv, IInv', PaidInv, [Next]_vars
  PROVE  PaidInv'
<1>0. /\ RowsPaid(payments, applied, refundCalls)
      /\ InFlightPaid(payments, applied, refund, refundCalls)
  BY PaidInvIs DEF IInv
<1>1. ASSUME NEW ref
      PROVE  /\ Paid(refundCalls, ref) \in Nat /\ Paid(refundCalls', ref) \in Nat
             /\ Paid(refundCalls, ref) <= Paid(refundCalls', ref)
  BY PaidStays DEF Grows
<1>2. ASSUME NEW id \in DOMAIN payments
      PROVE  /\ applied[id] \in Nat /\ payments[id].version \in Nat
             /\ applied[id] <= Paid(refundCalls, payments[id].ref)
             /\ applied[id] <= Paid(refundCalls', payments[id].ref)
  <2>1. applied[id] \in Nat /\ payments[id].version \in Nat
    BY <1>2 DEF IInv, TypeOK, Snapshot
  <2>2. applied[id] <= Paid(refundCalls, payments[id].ref)
    BY <1>0, <1>2 DEF RowsPaid
  <2> QED BY <2>1, <2>2, <1>1
<1>3. ASSUME NEW s \in Replicas, refund[s] # Idle, refund[s].at = "update",
             refund[s].p.version = payments[refund[s].p.id].version + 1
      PROVE  LET row == payments[refund[s].p.id] IN
             applied[refund[s].p.id] + refund[s].amount <= Paid(refundCalls', row.ref)
  <2> DEFINE row == payments[refund[s].p.id]
             sum == applied[refund[s].p.id]
  <2>1. sum + refund[s].amount <= Paid(refundCalls, row.ref)
    BY <1>0, <1>3 DEF InFlightPaid
  <2>2. sum \in Nat /\ refund[s].amount \in Nat
    <3>1. refund[s].p.id \in DOMAIN payments
      BY <1>3 DEF IInv, RefundInv, RefundOK
    <3>2. \A a \in RefundAmounts : a \in Nat
      BY BoundsType, Int64Assumption
    <3> QED BY <3>1, <3>2, <1>2, <1>3, BusyRefund DEF IInv
  <2> HIDE DEF row, sum
  <2>3. sum + refund[s].amount <= Paid(refundCalls', row.ref)
    BY <2>1, <2>2, <1>1
  <2> QED BY <2>3 DEF row, sum
<1>4. \/ payments' = payments /\ applied' = applied
      \/ \E r \in Replicas : Inserts(r) \/ Updates(r)
  BY StepShape DEF Silent, Answers, BeginRefund
<1>5. RowsPaid(payments', applied', refundCalls')
  <2>1. CASE payments' = payments /\ applied' = applied
    BY <1>2, <2>1 DEF RowsPaid
  <2>2. ASSUME NEW r \in Replicas, Inserts(r) PROVE RowsPaid(payments', applied', refundCalls')
    <3>1. /\ DOMAIN payments' = DOMAIN payments \cup {process[r].p.id}
          /\ \A id \in DOMAIN payments : payments'[id] = payments[id]
          /\ applied' = applied /\ applied[process[r].p.id] = 0
      BY <2>2, InsertedRow
    <3> QED BY <1>1, <1>2, <3>1 DEF RowsPaid
  <2>3. ASSUME NEW r \in Replicas, Updates(r) PROVE RowsPaid(payments', applied', refundCalls')
    <3> DEFINE id  == refund[r].p.id
               old == payments[id]
               row == payments'[id]
    <3>1. /\ DOMAIN payments' = DOMAIN payments
          /\ \A i \in DOMAIN payments : i # id => payments'[i] = payments[i]
          /\ applied'[id] = applied[id] + refund[r].amount
          /\ \A i \in DOMAIN payments : i # id => applied'[i] = applied[i]
          /\ row.ref = old.ref
          /\ refund[r].p.version = old.version + 1
      BY <2>3, UpdateShows
    <3>2. applied[id] + refund[r].amount <= Paid(refundCalls', old.ref)
      BY <2>3, <3>1, <1>3 DEF Updates
    <3>3. applied'[id] <= Paid(refundCalls', row.ref)
      BY <3>1, <3>2
    <3> QED BY <1>2, <3>1, <3>3 DEF RowsPaid
  <2> QED BY <1>4, <2>1, <2>2, <2>3
<1>6. ASSUME NEW s \in Replicas, refund'[s] # Idle, refund'[s].at = "update",
             refund'[s].p.version = payments'[refund'[s].p.id].version + 1
      PROVE  LET row == payments'[refund'[s].p.id] IN
             applied'[refund'[s].p.id] + refund'[s].amount <= Paid(refundCalls', row.ref)
  <2>1. CASE refund'[s] = refund[s]
    <3> DEFINE q == refund[s].p
    <3>1. q.id \in DOMAIN payments /\ q.version <= payments[q.id].version + 1
      BY <1>6, <2>1 DEF IInv, RefundInv, RefundOK
    <3>2. payments'[q.id] = payments[q.id] /\ applied'[q.id] = applied[q.id]
      <4>1. ASSUME NEW r \in Replicas, Inserts(r)
            PROVE  payments'[q.id] = payments[q.id] /\ applied'[q.id] = applied[q.id]
        BY <3>1, <4>1, InsertedRow
      <4>2. ASSUME NEW r \in Replicas, Updates(r)
            PROVE  payments'[q.id] = payments[q.id] /\ applied'[q.id] = applied[q.id]
        <5>1. /\ \A i \in DOMAIN payments :
                   i # refund[r].p.id => payments'[i] = payments[i] /\ applied'[i] = applied[i]
              /\ payments[refund[r].p.id].version \in Nat
              /\ payments'[refund[r].p.id].version = payments[refund[r].p.id].version + 1
          BY <4>2, UpdateShows
        <5>2. CASE q.id = refund[r].p.id
          <6>1. q.version = payments[q.id].version + 1 + 1
            BY <1>6, <2>1, <5>1, <5>2
          <6>2. payments[q.id].version \in Nat
            BY <3>1, <1>2
          <6> HIDE DEF q
          <6> QED BY <3>1, <6>1, <6>2
        <5> QED BY <3>1, <5>1, <5>2
      <4> QED BY <1>4, <4>1, <4>2
    <3>3. LET row == payments[q.id] IN
          applied[q.id] + refund[s].amount <= Paid(refundCalls', row.ref)
      BY <1>3, <1>6, <2>1, <3>2
    <3> QED BY <2>1, <3>2, <3>3
  <2>2. CASE /\ RefundAtGateway(s)
             /\ refund'[s].p = refund[s].p /\ refund'[s].amount = refund[s].amount
    <3> DEFINE row == payments[refund[s].p.id]
               sum == applied[refund[s].p.id]
    <3>1. /\ UNCHANGED <<payments, applied>> /\ refund[s] # Idle
          /\ refundCalls' = [refundCalls EXCEPT ![RefundCall(s)] = @ + 1]
      BY <2>2 DEF RefundAtGateway
    <3>2. refund[s].p.id \in DOMAIN payments /\ refund[s].p.ref = row.ref
      BY <3>1 DEF IInv, RefundInv, RefundOK
    <3>3. sum \in Nat /\ sum <= Paid(refundCalls, row.ref)
      BY <3>2, <1>2
    <3>4. /\ Paid(refundCalls, row.ref) \in Nat /\ refund[s].amount \in Nat
          /\ Paid(refundCalls', row.ref) = Paid(refundCalls, row.ref) + refund[s].amount
      <4>1. ASSUME NEW ref, ref = refund[s].p.ref
            PROVE  Grows(ref, refund[s].amount)
        BY <3>1, <4>1, PaidGrows
      <4> QED BY <3>2, <4>1 DEF Grows
    <3>5. sum + refund[s].amount <= Paid(refundCalls', row.ref)
      <4> HIDE DEF row, sum
      <4> QED BY <3>3, <3>4
    <3> QED BY <2>2, <3>1, <3>5
  <2> QED BY <1>6, <2>1, <2>2, StepToUpdate DEF UpdatesAfterGateway
<1>7. InFlightPaid(payments', applied', refund', refundCalls')
  BY <1>6 DEF InFlightPaid
<1> QED BY <1>5, <1>7, PaidInvIs DEF IInv

(* A refund is recorded only after a gateway took it: whoever races, fails *)
(* or crashes, the database never accepts more refunds of a payment than   *)
(* gateways were asked to pay back for it.                                 *)
THEOREM RefundsPaid == Spec => []RefundsWerePaid
<1>1. IInv /\ IInv' /\ PaidInv /\ [Next]_vars => PaidInv'
  BY PaidStep
<1>2. PaidInv => RefundsWerePaid
  BY DEF PaidInv
<1> QED BY <1>1, <1>2, PaidInit, Invariance, PTL DEF Spec

-----------------------------------------------------------------------------
(* Handlers and gateway refs: who brings which ref to where.               *)

(* A handler's payment is authorized, which is the one step that makes a   *)
(* ref; the mock remembers it.                                             *)
Authorizes(r) ==
  LET p   == process[r].p
      gw  == SelectGateway(r)
      ref == ChargeRef(r, gw, p)
  IN  /\ process[r] # Idle /\ process[r].at = "authorize"
      /\ process'[r] # Idle /\ process'[r].at = "capture"
      /\ process'[r].p.key = p.key /\ process'[r].p.ref = ref
      /\ ref \in Refs /\ ref # NoRef /\ p.key \in Keys /\ p.id \in PaymentIDs
      /\ \A s \in Replicas : s # r => process'[s] = process[s]
      /\ \A s \in Replicas, k \in Keys :
           mockRefs'[s][k] = IF gw = "mock" /\ s = r /\ k = p.key THEN ref ELSE mockRefs[s][k]
      /\ UNCHANGED <<payments, nextId>>

(* In any other step a handler begins with no ref, or keeps what it has.   *)
Begins(s) ==
  /\ process'[s].at = "authorize" /\ process'[s].p.ref = NoRef
  /\ process'[s].p.id = nextId /\ nextId' = nextId + 1
GoesOn(s) ==
  /\ process[s] # Idle
  /\ process'[s].at \notin {"authorize", "capture"}
  /\ process'[s].p.key = process[s].p.key
  /\ process'[s].p.ref = process[s].p.ref
Quiet ==
  /\ nextId <= nextId'
  /\ \A s \in Replicas :
       process'[s] \in {Idle, process[s]} \/ Begins(s) \/ GoesOn(s)
  /\ \A s \in Replicas, k \in Keys :
       mockRefs'[s][k] \in {mockRefs[s][k], NoRef}

(* The authorization is of that form.                                      *)
LEMMA AuthorizeMoves ==
  ASSUME IInv, NEW r \in Replicas, AuthorizeAtGateway(r)
  PROVE  Authorizes(r)
<1> DEFINE p   == process[r].p
           gw  == SelectGateway(r)
           ref == ChargeRef(r, gw, p)
           q   == Capture(Authorize(p, ref))
           st  == [at |-> "capture", gw |-> gw, p |-> q]
<1>1. /\ UNCHANGED <<payments, nextId>>
      /\ process' = [process EXCEPT ![r] = st]
      /\ process[r] # Idle /\ process[r].at = "authorize"
      /\ ref # NoRef
      /\ mockRefs' = IF gw = "mock" THEN [mockRefs EXCEPT ![r][p.key] = ref]
                                    ELSE mockRefs
  BY DEF AuthorizeAtGateway, ProcessTo, CanAuthorize
<1>2. p \in Aggregate /\ p.id \in PaymentIDs /\ p.key \in Keys
  BY <1>1, BusyProcess DEF IInv, Aggregate
<1>3. ref \in Refs
  <2>1. <<"ch_", p.key>> \in Refs /\ <<"mock_", p.id>> \in Refs
    BY <1>2 DEF Refs
  <2>2. mockRefs[r][p.key] # NoRef => mockRefs[r][p.key] \in Refs
    BY <1>2 DEF IInv, TypeOK
  <2> QED BY <2>1, <2>2 DEF ChargeRef
<1> HIDE DEF ref
<1>4. q.key = p.key /\ q.ref = ref
  BY <1>2, <1>3, CapturedType
<1> HIDE DEF q, gw
<1>5. st # Idle /\ st.at = "capture" /\ st.p = q
  BY DEF Idle
<1> HIDE DEF st
<1>6. process'[r] = st /\ \A s \in Replicas : s # r => process'[s] = process[s]
  BY <1>1 DEF IInv, TypeOK
<1>7. \A s \in Replicas, k \in Keys :
        mockRefs'[s][k] = IF gw = "mock" /\ s = r /\ k = p.key THEN ref ELSE mockRefs[s][k]
  BY <1>1, <1>2 DEF IInv, TypeOK
<1> QED
  BY <1>1, <1>2, <1>3, <1>4, <1>5, <1>6, <1>7 DEF Authorizes, gw, ref

(* One handler moves to a state of that kind, the mocks keep their refs.   *)
LEMMA QuietMove ==
  ASSUME IInv, NEW r \in Replicas, NEW st,
         process' = [process EXCEPT ![r] = st], nextId <= nextId', mockRefs' = mockRefs,
         st # Idle =>
           \/ /\ process'[r] = st => Begins(r)
           \/ /\ process[r] # Idle /\ st.at \notin {"authorize", "capture"}
              /\ st.p.key = process[r].p.key /\ st.p.ref = process[r].p.ref
  PROVE  Quiet
<1>1. process'[r] = st /\ \A s \in Replicas : s # r => process'[s] = process[s]
  BY DEF IInv, TypeOK
<1>2. process'[r] = Idle \/ Begins(r) \/ GoesOn(r)
  BY <1>1 DEF GoesOn
<1> QED
  BY <1>1, <1>2 DEF Quiet

(* Every other step is quiet: first those of ProcessPaymentHandler,        *)
LEMMA ProcessQuiet ==
  ASSUME IInv, NEW r \in Replicas, ProcessStep(r)
  PROVE  Authorizes(r) \/ Quiet
<1>1. nextId \in Nat
  BY IdsType DEF IInv
<1>2. CASE AuthorizeAtGateway(r)
  BY <1>2, AuthorizeMoves
<1>3. CASE AuthorizeFails(r)
  <2> DEFINE q  == Fail(process[r].p)
             st == [at |-> "save", gw |-> SelectGateway(r), p |-> q]
  <2>1. /\ process[r] # Idle /\ process' = [process EXCEPT ![r] = st]
        /\ nextId' = nextId /\ mockRefs' = mockRefs /\ process[r].at = "authorize"
    BY <1>3 DEF AuthorizeFails, ProcessTo, gatewayVars
  <2>2. process[r].p \in Aggregate /\ process[r].p.status = "PENDING"
    BY <2>1, BusyProcess DEF IInv, ProcessInv, ProcessOK
  <2>3. q.key = process[r].p.key /\ q.ref = process[r].p.ref
    <3>1. q = Transition(process[r].p, "FAILED", "payment.failed")
      BY <2>2 DEF Fail, CanFail, CanTransitionTo, AllowedTransitions
    <3> QED BY <2>2, <3>1, TransitionType DEF Status, EventNames
  <2>4. st.at = "save" /\ st.gw = SelectGateway(r) /\ st.p = q
    OBVIOUS
  <2> HIDE DEF q, st
  <2>5. st.p.key = process[r].p.key /\ st.p.ref = process[r].p.ref
    BY <2>3, <2>4
  <2>6. nextId <= nextId'
    BY <1>1, <2>1
  <2> QED BY <2>1, <2>4, <2>5, <2>6, QuietMove
<1>4. ASSUME NEW at \in {"save", "reload", "commit"}, process[r] # Idle,
             process' = [process EXCEPT ![r] = [process[r] EXCEPT !.at = at]],
             nextId' = nextId, mockRefs' = mockRefs
      PROVE  Quiet
  <2> DEFINE st == [process[r] EXCEPT !.at = at]
  <2>0. process[r] \in ProcessState
    BY <1>4, BusyProcess DEF IInv
  <2>1. st.at = at /\ st.gw = process[r].gw /\ st.p = process[r].p
    BY <2>0, ProcessMoves
  <2> HIDE DEF st
  <2>2. process' = [process EXCEPT ![r] = st]
    BY <1>4 DEF st
  <2>3. nextId <= nextId'
    BY <1>1, <1>4
  <2>4. st.p.key = process[r].p.key /\ st.p.ref = process[r].p.ref
    BY <2>1
  <2> QED BY <1>4, <2>1, <2>2, <2>3, <2>4, QuietMove
<1>5. ASSUME process' = [process EXCEPT ![r] = Idle], nextId' = nextId, mockRefs' = mockRefs
      PROVE  Quiet
  <2>1. nextId <= nextId'
    BY <1>1, <1>5
  <2> QED BY <1>5, <2>1, QuietMove
<1>6. CASE CaptureAtGateway(r) \/ SavePayment(r) \/ SaveConflicts(r)
  BY <1>4, <1>6 DEF CaptureAtGateway, SavePayment, SaveConflicts, ProcessTo, gatewayVars
<1>7. CASE \/ UnknownGateway(r) \/ CaptureFails(r) \/ SaveFails(r)
           \/ AnswerWinner(r) \/ ReloadFails(r) \/ CommitProcess(r)
  BY <1>5, <1>7 DEF UnknownGateway, CaptureFails, SaveFails, AnswerWinner, ReloadFails,
                   CommitProcess, ProcessTo, gatewayVars
<1> QED
  BY <1>2, <1>3, <1>6, <1>7 DEF ProcessStep

(* then a new payment,                                                     *)
LEMMA BeginQuiet ==
  ASSUME IInv, NEW r \in Replicas, NEW cmd \in ProcessCommands, Begin(r, cmd)
  PROVE  Quiet
<1> DEFINE p  == NewPayment(nextId, cmd.key, cmd.amount)
           st == [at |-> "authorize", gw |-> cmd.gw, p |-> p]
<1>1. /\ mockRefs' = mockRefs /\ process' = [process EXCEPT ![r] = st]
      /\ nextId' = nextId + 1
  BY DEF Begin, gatewayVars, ProcessTo
<1>2. nextId <= nextId'
  BY <1>1, IdsType DEF IInv
<1>3. p.key = cmd.key /\ p.ref = NoRef /\ p.id = nextId
  BY DEF NewPayment
<1> HIDE DEF p
<1>4. st.at = "authorize" /\ st.gw = cmd.gw /\ st.p = p
  OBVIOUS
<1> HIDE DEF st
<1>5. process'[r] = st => Begins(r)
  BY <1>1, <1>3, <1>4 DEF Begins
<1> QED BY <1>1, <1>2, <1>5, QuietMove

(* and the rest.                                                           *)
LEMMA StepMoves ==
  ASSUME IInv, [Next]_vars
  PROVE  Quiet \/ \E r \in Replicas : Authorizes(r)
<1>1. nextId \in Nat
  BY IdsType DEF IInv
<1>2. ASSUME UNCHANGED <<process, nextId, mockRefs>>
      PROVE  Quiet
  BY <1>1, <1>2 DEF Quiet
<1>3. ASSUME NEW r \in Replicas, RefundStep(r)
      PROVE  UNCHANGED <<process, nextId, mockRefs>>
  BY <1>3 DEF RefundStep, RefundAtGateway, RefundFails, UpdatePayment,
     UpdateConflicts, UpdateFails, CommitRefund, gatewayVars
<1>4. ASSUME NEW r \in Replicas, NEW cmd \in ProcessCommands, Replay(r, cmd)
      PROVE  UNCHANGED <<process, nextId, mockRefs>>
  BY <1>4 DEF Replay, gatewayVars
<1>5. ASSUME NEW r \in Replicas, NEW id \in PaymentIDs, NEW a \in RefundAmounts,
             BeginRefund(r, id, a)
      PROVE  UNCHANGED <<process, nextId, mockRefs>>
  BY <1>5 DEF BeginRefund, gatewayVars
<1>6. ASSUME NEW r \in Replicas, NEW gw \in AdminChoices, SetActive(r, gw)
      PROVE  UNCHANGED <<process, nextId, mockRefs>>
  BY <1>6 DEF SetActive
<1>7. ASSUME NEW r \in Replicas, Crash(r)
      PROVE  Quiet
  <2>1. /\ process' = [process EXCEPT ![r] = Idle] /\ nextId' = nextId
        /\ mockRefs' = [mockRefs EXCEPT ![r] = [k \in Keys |-> NoRef]]
    BY <1>7 DEF Crash, ProcessTo
  <2>2. process'[r] = Idle /\ \A s \in Replicas : s # r => process'[s] = process[s]
    BY <2>1 DEF IInv, TypeOK
  <2>3. /\ \A k \in Keys : mockRefs'[r][k] = NoRef
        /\ \A s \in Replicas : s # r => mockRefs'[s] = mockRefs[s]
    BY <2>1 DEF IInv, TypeOK
  <2> QED BY <1>1, <2>1, <2>2, <2>3 DEF Quiet
<1>8. CASE UNCHANGED vars
  BY <1>2, <1>8 DEF vars
<1> QED
  BY <1>2, <1>3, <1>4, <1>5, <1>6, <1>7, <1>8, ProcessQuiet, BeginQuiet DEF Next

-----------------------------------------------------------------------------
(* A gateway's ref belongs to one payment.                                 *)

(* A row, a handler or a mock has the ref for that key.                    *)
Named(key, ref) ==
  /\ ref # NoRef
  /\ \/ \E id \in DOMAIN payments : payments[id].key = key /\ payments[id].ref = ref
     \/ \E r \in Replicas : /\ process[r] # Idle
                            /\ process[r].p.key = key /\ process[r].p.ref = ref
     \/ \E r \in Replicas : mockRefs[r][key] = ref

(* No ref is named for two keys, and the one a mock may make next for none.*)
RefsInv ==
  /\ \A k, l \in Keys, ref \in Refs : Named(k, ref) /\ Named(l, ref) => k = l
  /\ \A k \in Keys, ref \in Refs : Named(k, ref) =>
       \/ ref = <<"ch_", k>>
       \/ \E i \in PaymentIDs : ref = <<"mock_", i>> /\ i < nextId
  /\ \A r \in Replicas : process[r] # Idle /\ process[r].at = "authorize" =>
       \A k \in Keys : ~ Named(k, <<"mock_", process[r].p.id>>)

(* Refunds never go to the charge of another payment.                      *)
RefsNameOnePayment ==
  \A i, j \in DOMAIN payments :
    payments[i].ref # NoRef /\ payments[i].ref = payments[j].ref => i = j

(* A row keeps its key and ref, and gets them from the handler that        *)
(* inserts it.                                                             *)
LEMMA RowKeepsRef ==
  ASSUME IInv, [Next]_vars, NEW id \in DOMAIN payments'
  PROVE  \/ /\ id \in DOMAIN payments
            /\ payments'[id].key = payments[id].key /\ payments'[id].ref = payments[id].ref
         \/ \E r \in Replicas :
              /\ Inserts(r)
              /\ id = process[r].p.id /\ id \notin DOMAIN payments
              /\ payments'[id].key = process[r].p.key /\ payments'[id].ref = process[r].p.ref
<1>1. CASE payments' = payments
  BY <1>1
<1>2. ASSUME NEW r \in Replicas, Inserts(r)
      PROVE  \/ id \in DOMAIN payments /\ payments'[id] = payments[id]
             \/ /\ id = process[r].p.id /\ id \notin DOMAIN payments
                /\ payments'[id].key = process[r].p.key /\ payments'[id].ref = process[r].p.ref
  <2> DEFINE p   == process[r].p
             row == ToSnapshot(p)
  <2>1. p \in Aggregate
    BY <1>2, BusyProcess DEF IInv, Inserts
  <2>2. row.key = p.key /\ row.ref = p.ref
    BY <2>1, SnapshotType
  <2>3. payments' = [i \in DOMAIN payments \cup {p.id} |-> IF i = p.id THEN row ELSE payments[i]]
    BY <1>2 DEF Inserts, Inserted
  <2>4. p.id \notin DOMAIN payments
    BY <1>2, InsertedRow
  <2> HIDE DEF p, row
  <2>5. CASE id = p.id
    BY <2>2, <2>3, <2>4, <2>5 DEF p
  <2>6. CASE id # p.id
    BY <2>3, <2>6
  <2> QED BY <2>5, <2>6
<1>3. ASSUME NEW r \in Replicas, Updates(r)
      PROVE  /\ id \in DOMAIN payments
             /\ payments'[id].key = payments[id].key /\ payments'[id].ref = payments[id].ref
  <2> DEFINE p == refund[r].p
  <2>1. /\ p.id \in DOMAIN payments /\ DOMAIN payments' = DOMAIN payments
        /\ \A i \in DOMAIN payments : i # p.id => payments'[i] = payments[i]
        /\ payments'[p.id].ref = payments[p.id].ref
    BY <1>3, UpdateShows
  <2>2. payments'[p.id].key = payments[p.id].key
    <3> DEFINE snap == ToSnapshot(p)
    <3>1. p \in Aggregate
      BY <1>3, BusyRefund DEF IInv, Updates
    <3>2. snap \in Snapshot
      BY <3>1, SnapshotType
    <3>3. payments' = [payments EXCEPT ![p.id] = [snap EXCEPT !.key = payments[p.id].key]]
      BY <1>3 DEF Updates, Updated
    <3> HIDE DEF snap, p
    <3> QED BY <2>1, <3>2, <3>3 DEF Snapshot
  <2> QED BY <2>1, <2>2
<1>4. \/ payments' = payments
      \/ \E r \in Replicas : Inserts(r) \/ Updates(r)
  BY StepShape DEF Silent, Answers, BeginRefund
<1> QED BY <1>1, <1>2, <1>3, <1>4

(* A ref that is named was named before, or is just authorized.            *)
LEMMA NamedBefore ==
  ASSUME IInv, [Next]_vars, NEW key \in Keys, NEW ref, Named(key, ref)'
  PROVE  \/ Named(key, ref)
         \/ \E r \in Replicas :
              /\ Authorizes(r) /\ key = process[r].p.key
              /\ ref = ChargeRef(r, SelectGateway(r), process[r].p)
<1>1. ref # NoRef
  BY DEF Named
<1>2. ASSUME NEW r \in Replicas, process[r] # Idle,
             process[r].p.key = key, process[r].p.ref = ref
      PROVE  Named(key, ref)
  BY <1>1, <1>2 DEF Named
<1>3. CASE \E id \in DOMAIN payments' : payments'[id].key = key /\ payments'[id].ref = ref
  <2>1. PICK id \in DOMAIN payments' : payments'[id].key = key /\ payments'[id].ref = ref
    BY <1>3
  <2>2. CASE id \in DOMAIN payments /\ payments[id].key = key /\ payments[id].ref = ref
    BY <1>1, <2>2 DEF Named
  <2>3. CASE \E r \in Replicas : Inserts(r) /\ process[r].p.key = key /\ process[r].p.ref = ref
    BY <1>2, <2>3 DEF Inserts
  <2> QED BY <2>1, <2>2, <2>3, RowKeepsRef
<1>4. ASSUME NEW s \in Replicas, process'[s] # Idle,
             process'[s].p.key = key, process'[s].p.ref = ref
      PROVE  \/ Named(key, ref)
             \/ \E r \in Replicas :
                  /\ Authorizes(r) /\ key = process[r].p.key
                  /\ ref = ChargeRef(r, SelectGateway(r), process[r].p)
  <2>1. CASE process'[s] = process[s]
    BY <1>2, <1>4, <2>1
  <2>2. CASE Begins(s)
    BY <1>1, <1>4, <2>2 DEF Begins
  <2>3. CASE GoesOn(s)
    BY <1>2, <1>4, <2>3 DEF GoesOn
  <2>4. ASSUME NEW r \in Replicas, Authorizes(r)
        PROVE  s = r \/ process'[s] = process[s]
    BY <2>4 DEF Authorizes
  <2>5. CASE Authorizes(s)
    BY <1>4, <2>5 DEF Authorizes
  <2> QED BY <1>4, <2>1, <2>2, <2>3, <2>4, <2>5, StepMoves DEF Quiet
<1>5. ASSUME NEW s \in Replicas, mockRefs'[s][key] = ref
      PROVE  \/ Named(key, ref)
             \/ \E r \in Replicas :
                  /\ Authorizes(r) /\ key = process[r].p.key
                  /\ ref = ChargeRef(r, SelectGateway(r), process[r].p)
  <2>1. CASE mockRefs'[s][key] = mockRefs[s][key]
    BY <1>1, <1>5, <2>1 DEF Named
  <2>2. ASSUME NEW r \in Replicas, Authorizes(r), mockRefs'[s][key] # mockRefs[s][key]
        PROVE  /\ key = process[r].p.key
               /\ ref = ChargeRef(r, SelectGateway(r), process[r].p)
    BY <1>5, <2>2 DEF Authorizes
  <2> QED BY <1>1, <1>5, <2>1, <2>2, StepMoves DEF Quiet
<1> QED BY <1>3, <1>4, <1>5 DEF Named

(* A ref that is authorized is the gateway's for the key, known for the    *)
(* key already, or new.                                                    *)
LEMMA NewRef ==
  ASSUME IInv, NEW r \in Replicas, Authorizes(r)
  PROVE  LET p   == process[r].p
             ref == ChargeRef(r, SelectGateway(r), p)
         IN  ref = <<"ch_", p.key>> \/ Named(p.key, ref) \/ ref = <<"mock_", p.id>>
<1>1. process[r].p.key \in Keys
  BY DEF Authorizes
<1> QED BY <1>1 DEF ChargeRef, Named

(* Refs of different kinds, keys and payments differ.                      *)
LEMMA RefKinds ==
  /\ \A k, i : <<"ch_", k>> # <<"mock_", i>>
  /\ \A k, l : <<"ch_", k>> = <<"ch_", l>> => k = l
  /\ \A i, j : <<"mock_", i>> = <<"mock_", j>> => i = j
OBVIOUS

(* Every step keeps it so.                                                 *)
LEMMA RefsStep ==
  ASSUME IInv, RefsInv, [Next]_vars
  PROVE  RefsInv'
<1>1. nextId \in Nat /\ PaymentIDs \subseteq Nat
  BY IdsType DEF IInv
<1>2. nextId' \in Nat /\ nextId <= nextId'
  <2>1. nextId' \in Nat
    <3>1. nextId' \in 1 .. MaxPayments + 1
      BY NextInv DEF IInv, TypeOK
    <3> QED BY <3>1, BoundsType
  <2>2. nextId <= nextId'
    BY <1>1, StepMoves DEF Quiet, Authorizes
  <2> QED BY <2>1, <2>2
<1>3. ASSUME NEW r \in Replicas, Authorizes(r), NEW s \in Replicas, Authorizes(s)
      PROVE  r = s
  BY <1>3 DEF Authorizes
<1>4. ASSUME NEW r \in Replicas, Authorizes(r)
      PROVE  LET p == process[r].p IN
             /\ p.id \in PaymentIDs /\ p.id < nextId /\ p.key \in Keys
             /\ \A k \in Keys : ~ Named(k, <<"mock_", p.id>>)
             /\ ChargeRef(r, SelectGateway(r), p) \in Refs
  BY <1>4 DEF Authorizes, RefsInv, IInv, ProcessInv, ProcessOK
<1>5. ASSUME NEW k \in Keys, NEW ref \in Refs, Named(k, ref)'
      PROVE  \/ ref = <<"ch_", k>>
             \/ \E i \in PaymentIDs : ref = <<"mock_", i>> /\ i < nextId
  BY <1>4, <1>5, NamedBefore, NewRef DEF RefsInv
<1>6. ASSUME NEW k \in Keys, NEW l \in Keys, NEW ref \in Refs, Named(k, ref)', Named(l, ref)'
      PROVE  k = l
  <2>1. CASE ref = <<"ch_", k>>
    BY <1>5, <1>6, <2>1, RefKinds
  <2>2. CASE ref = <<"ch_", l>>
    BY <1>5, <1>6, <2>2, RefKinds
  <2>3. CASE Named(k, ref) /\ Named(l, ref)
    BY <2>3 DEF RefsInv
  <2>4. ASSUME NEW m \in Keys, NEW n \in Keys, Named(m, ref)', Named(n, ref)', ~ Named(m, ref),
               ref # <<"ch_", m>>, ref # <<"ch_", n>>
        PROVE  m = n
    <3>1. PICK r \in Replicas : /\ Authorizes(r) /\ m = process[r].p.key
                                /\ ref = ChargeRef(r, SelectGateway(r), process[r].p)
      BY <2>4, NamedBefore
    <3>2. ref = <<"mock_", process[r].p.id>>
      BY <2>4, <3>1, NewRef
    <3>3. ~ Named(n, ref)
      BY <1>4, <3>1, <3>2
    <3>4. PICK s \in Replicas : Authorizes(s) /\ n = process[s].p.key
      BY <2>4, <3>3, NamedBefore
    <3> QED BY <1>3, <3>1, <3>4
  <2> QED BY <1>6, <2>1, <2>2, <2>3, <2>4
<1>7. ASSUME NEW k \in Keys, NEW ref \in Refs, Named(k, ref)'
      PROVE  \/ ref = <<"ch_", k>>
             \/ \E i \in PaymentIDs : ref = <<"mock_", i>> /\ i < nextId'
  BY <1>1, <1>2, <1>5, <1>7
<1>8. ASSUME NEW s \in Replicas, process'[s] # Idle, process'[s].at = "authorize",
             NEW i, i = process'[s].p.id, NEW k \in Keys
      PROVE  ~ Named(k, <<"mock_", i>>)'
  <2> SUFFICES ASSUME Named(k, <<"mock_", i>>)'
               PROVE  FALSE
    OBVIOUS
  <2> DEFINE ref == <<"mock_", i>>
  <2>1. i \in PaymentIDs
    <3>1. process'[s] \in ProcessState
      BY <1>8, NextInv DEF IInv, TypeOK
    <3> QED BY <1>8, <3>1 DEF ProcessState, Aggregate
  <2>2. ref \in Refs
    BY <2>1 DEF Refs
  <2>3. i < nextId
    <3>1. PICK j \in PaymentIDs : <<"mock_", i>> = <<"mock_", j>> /\ j < nextId
      BY <1>5, <2>2, RefKinds
    <3> QED BY <3>1, RefKinds
  <2>4. ~ Begins(s)
    BY <1>1, <1>8, <2>3 DEF Begins
  <2>5. process'[s] = process[s]
    BY <1>8, <2>4, StepMoves DEF Quiet, GoesOn, Authorizes
  <2>6. ~ Named(k, ref)
    BY <1>8, <2>5 DEF RefsInv
  <2> HIDE DEF ref
  <2>7. PICK r \in Replicas : /\ Authorizes(r) /\ k = process[r].p.key
                              /\ ref = ChargeRef(r, SelectGateway(r), process[r].p)
    <3>1. Named(k, ref)'
      BY DEF ref
    <3> QED BY <2>6, <3>1, NamedBefore
  <2>8. ref = <<"mock_", process[r].p.id>>
    BY <2>6, <2>7, NewRef, RefKinds DEF ref
  <2>9. r # s
    BY <1>8, <2>7 DEF Authorizes
  <2>10. process[r].p.id # process[s].p.id
    BY <1>8, <2>5, <2>7, <2>9 DEF IInv, IdsDistinct, Authorizes
  <2> QED BY <1>8, <2>5, <2>8, <2>10, RefKinds DEF ref
<1>9. RefsInv'
  <2>1. \A k, l \in Keys, ref \in Refs : Named(k, ref)' /\ Named(l, ref)' => k = l
    BY <1>6
  <2>2. \A s \in Replicas : process'[s] # Idle /\ process'[s].at = "authorize" =>
          \A i : i = process'[s].p.id => \A k \in Keys : ~ Named(k, <<"mock_", i>>)'
    BY <1>8
  <2> QED BY <2>1, <2>2, <1>7 DEF RefsInv
<1> QED BY <1>9

(* At the start no ref is named.                                           *)
LEMMA RefsInit == Init => RefsInv
<1> SUFFICES ASSUME Init PROVE RefsInv
  OBVIOUS
<1>1. /\ DOMAIN payments = {} /\ \A r \in Replicas : process[r] = Idle
      /\ \A r \in Replicas, k \in Keys : mockRefs[r][k] = NoRef
  BY DEF Init
<1>2. \A k \in Keys : \A ref : ~ Named(k, ref)
  BY <1>1 DEF Named
<1> QED BY <1>1, <1>2 DEF RefsInv

(* So it is always.                                                        *)
LEMMA RefsAlways == Spec => []RefsInv
<1>1. IInv /\ RefsInv /\ [Next]_vars => RefsInv'
  BY RefsStep
<1> QED BY <1>1, RefsInit, Invariance, PTL DEF Spec

(* Two rows with one ref have one key, so they are one row.                *)
LEMMA OneRefOneRow ==
  ASSUME IInv, RefsInv
  PROVE  RefsNameOnePayment
<1> SUFFICES ASSUME NEW i \in DOMAIN payments, NEW j \in DOMAIN payments,
                    payments[i].ref # NoRef, payments[i].ref = payments[j].ref
             PROVE  i = j
  BY DEF RefsNameOnePayment
<1>1. /\ payments[i] \in Snapshot /\ payments[j] \in Snapshot
  BY DEF IInv, TypeOK
<1>2. payments[i].key \in Keys /\ payments[j].key \in Keys /\ payments[i].ref \in Refs
  BY <1>1 DEF Snapshot
<1>3. Named(payments[i].key, payments[i].ref) /\ Named(payments[j].key, payments[i].ref)
  BY DEF Named
<1>4. payments[i].key = payments[j].key
  BY <1>2, <1>3 DEF RefsInv
<1> QED BY <1>4 DEF IInv, KeysUnique

(* Through races, retries and crashes no two stored payments have the same *)
(* ref at a gateway, whichever gateway it is of.                           *)
THEOREM RefsDistinct == Spec => []RefsNameOnePayment
<1>1. IInv /\ RefsInv => RefsNameOnePayment
  BY OneRefOneRow
<1> QED BY <1>1, RefsAlways, Invariance, PTL

=============================================================================
