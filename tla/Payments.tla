------------------------------ MODULE Payments ------------------------------
(***************************************************************************)
(* The payment core: ProcessPaymentHandler and RefundPaymentHandler run by *)
(* the replicas of the service over one payments table, a registry of      *)
(* gateways per replica, and the outside world the gateways charge.        *)
(*                                                                         *)
(* A replica's subscriptions hand it one ProcessPayment and one            *)
(* RefundPayment at a time, so a replica has one handler of each kind, and *)
(* each call a handler makes (database, gateway, bus) is a step of its own *)
(* between which everybody else may run.  A client, or the order saga, may *)
(* send any command any number of times: retries are new receptions.       *)
(***************************************************************************)
EXTENDS PaymentAggregate, FiniteSetsExt

CONSTANTS
  Replicas,         \* processes of the service sharing the database
  Keys,             \* idempotency keys
  ProcessCommands,  \* valid ProcessPayment commands [key, amount, gw]
  RefundAmounts,    \* amounts asked by RefundPayment commands
  DeclineOverCents, \* above it stripe declines; 0: it never does
  AdminChoices,     \* gateways the admin endpoint is asked to activate
  Faults,           \* calls that may fail, and "crash"
  MaxPayments,      \* bound: aggregates created
  MaxRefundCalls    \* bound: equal refund calls a gateway receives

Gateways   == {"mock", "stripe"}
PaymentIDs == 1 .. MaxPayments
Amounts    == {cmd.amount : cmd \in ProcessCommands}
Refs       == ({"mock_"} \X PaymentIDs) \cup ({"ch_"} \X Keys)

FaultKinds == {"authorize", "capture", "refund", "save", "reload", "update",
               "publish", "crash"}

ASSUME PaymentsAssumption ==
  /\ ProcessCommands \subseteq
       [key : Keys, amount : 1 .. MaxInt64, gw : Gateways \cup {"", "pix"}]
  /\ RefundAmounts \subseteq 1 .. MaxInt64
  /\ DeclineOverCents \in Nat
  /\ AdminChoices \subseteq Gateways
  /\ Faults \subseteq FaultKinds
  /\ MaxPayments \in Nat
  /\ MaxRefundCalls \in Nat

VARIABLES
  payments,    \* the table: payment id -> row
  nextId,      \* the id generator
  active,      \* Registry.active of each replica
  mockRefs,    \* MockGateway.refs of each replica
  process,     \* each replica's ProcessPaymentHandler
  refund,      \* each replica's RefundPaymentHandler
  \* What the rest of the world has seen; no handler reads these:
  charges,     \* captures that took effect at a gateway
  refundCalls, \* how often a gateway was asked <<gateway, ref, amount>>
  applied,     \* per id, the sum of the refunds the database accepted
  answers,     \* <<key, id>> returned to callers of ProcessPayment
  published    \* integration events on the bus

vars == <<payments, nextId, active, mockRefs, process, refund,
          charges, refundCalls, applied, answers, published>>

gatewayVars == <<active, mockRefs, charges, refundCalls>>

-----------------------------------------------------------------------------
Snapshot ==
  [id : PaymentIDs, key : Keys, amount : Amounts, refunded : Int64,
   status : Status, ref : Refs \cup {NoRef}, version : Nat]
Aggregate ==
  [id : PaymentIDs, key : Keys, amount : Amounts, refunded : Int64,
   status : Status, ref : Refs \cup {NoRef}, version : Nat,
   events : Seq(EventNames)]

Idle == [at |-> "idle"]
ProcessState ==
  [at : {"authorize", "capture", "save", "reload", "commit"}, p : Aggregate,
   gw : Gateways \cup {"", "pix"}]
RefundState ==
  [at : {"gateway", "update", "commit"}, p : Aggregate, amount : RefundAmounts]

Charge == [gw : Gateways, ref : Refs, key : Keys, amount : Amounts]
Event  == [name : EventNames, id : PaymentIDs, status : Status, refunded : Int64,
           version : Nat]    \* of the aggregate; for the properties only

TypeOK ==
  /\ DOMAIN payments \subseteq PaymentIDs
  /\ payments \in [DOMAIN payments -> Snapshot]
  /\ nextId \in 1 .. MaxPayments + 1
  /\ active \in [Replicas -> Gateways]
  /\ mockRefs \in [Replicas -> [Keys -> Refs \cup {NoRef}]]
  /\ process \in [Replicas -> ProcessState \cup {Idle}]
  /\ refund \in [Replicas -> RefundState \cup {Idle}]
  /\ charges \subseteq Charge
  /\ refundCalls \in [Gateways \X Refs \X RefundAmounts -> 0 .. MaxRefundCalls]
  /\ applied \in [PaymentIDs -> Nat]
  /\ answers \subseteq Keys \X PaymentIDs
  /\ published \subseteq Event

Init ==
  /\ payments = [id \in {} |-> {}]
  /\ nextId = 1
  /\ active = [r \in Replicas |-> "mock"]
  /\ mockRefs = [r \in Replicas |-> [k \in Keys |-> NoRef]]
  /\ process = [r \in Replicas |-> Idle]
  /\ refund = [r \in Replicas |-> Idle]
  /\ charges = {}
  /\ refundCalls = [c \in Gateways \X Refs \X RefundAmounts |-> 0]
  /\ applied = [id \in PaymentIDs |-> 0]
  /\ answers = {}
  /\ published = {}

-----------------------------------------------------------------------------
(* The repository.                                                         *)
Stored(key) == {id \in DOMAIN payments : payments[id].key = key}

Inserted(p) ==
  [id \in DOMAIN payments \cup {p.id} |->
     IF id = p.id THEN ToSnapshot(p) ELSE payments[id]]

(* Mutant: the index on idempotency_key is not unique.                     *)
CanInsertNotUnique(p) == TRUE

CanInsert(p) == Stored(p.key) = {}      \* idempotency_key is Unique

(* Mutant: UPDATE by id alone.                                             *)
VersionMatchesUnlocked(p) == p.id \in DOMAIN payments

VersionMatches(p) ==
  /\ p.id \in DOMAIN payments
  /\ payments[p.id].version = p.version - 1

(* Every column but the key and the id is written.                         *)
Updated(p) ==
  [payments EXCEPT ![p.id] = [ToSnapshot(p) EXCEPT !.key = payments[p.id].key]]

(* Commit publishes the pulled events in order up to the first failure,    *)
(* each with the aggregate's state after the whole operation.              *)
Sent(p) == IF "publish" \in Faults THEN 0 .. Len(p.events) ELSE {Len(p.events)}
IntegrationEvents(p, n) ==
  {[name |-> p.events[i], id |-> p.id, status |-> p.status,
    refunded |-> p.refunded, version |-> p.version] : i \in 1 .. n}

ProcessTo(r, state) == process' = [process EXCEPT ![r] = state]
RefundTo(r, state)  == refund' = [refund EXCEPT ![r] = state]
Answer(key, id)     == answers' = answers \cup {<<key, id>>}

-----------------------------------------------------------------------------
(* ProcessPaymentHandler.Handle, one call per step.                        *)

(* FindByIdempotencyKey finds the key: the stored payment is the answer.   *)
Replay(r, cmd) ==
  /\ process[r] = Idle
  /\ \E id \in Stored(cmd.key) : Answer(cmd.key, id)
  /\ UNCHANGED <<payments, nextId, process, refund, applied, published>>
  /\ UNCHANGED gatewayVars

(* It does not: NewPayment makes the aggregate, in memory only.            *)
Begin(r, cmd) ==
  /\ process[r] = Idle
  /\ Stored(cmd.key) = {}
  /\ nextId <= MaxPayments
  /\ nextId' = nextId + 1
  /\ ProcessTo(r, [at |-> "authorize", gw |-> cmd.gw,
                   p |-> NewPayment(nextId, cmd.key, cmd.amount)])
  /\ UNCHANGED <<payments, refund, applied, answers, published>>
  /\ UNCHANGED gatewayVars

(* selectGateway: no name means the gateway active on this replica now.    *)
SelectGateway(r) == IF process[r].gw = "" THEN active[r] ELSE process[r].gw

Approves(gw, p) ==
  gw = "stripe" => (DeclineOverCents = 0 \/ p.amount <= DeclineOverCents)

(* The mock answers a key it has seen in this process with the same ref.   *)
ChargeRef(r, gw, p) ==
  IF gw = "stripe" THEN <<"ch_", p.key>>
  ELSE IF mockRefs[r][p.key] # NoRef THEN mockRefs[r][p.key]
  ELSE <<"mock_", p.id>>

AuthorizeAtGateway(r) ==
  /\ process[r] # Idle /\ process[r].at = "authorize"
  /\ LET p   == process[r].p
         gw  == SelectGateway(r)
         ref == ChargeRef(r, gw, p)
     IN  /\ gw \in Gateways /\ Approves(gw, p)
         /\ CanAuthorize(p, ref) /\ CanCapture(Authorize(p, ref))
         /\ mockRefs' = IF gw = "mock"
                        THEN [mockRefs EXCEPT ![r][p.key] = ref] ELSE mockRefs
         /\ ProcessTo(r, [at |-> "capture", gw |-> gw,
                          p |-> Capture(Authorize(p, ref))])
  /\ UNCHANGED <<payments, nextId, active, refund, charges, refundCalls,
                 applied, answers, published>>

(* The gateway declines, or the call fails: the payment is stored FAILED.  *)
AuthorizeFails(r) ==
  /\ process[r] # Idle /\ process[r].at = "authorize"
  /\ SelectGateway(r) \in Gateways
  /\ ~Approves(SelectGateway(r), process[r].p) \/ "authorize" \in Faults
  /\ ProcessTo(r, [at |-> "save", gw |-> SelectGateway(r),
                   p |-> Fail(process[r].p)])
  /\ UNCHANGED <<payments, nextId, refund, applied, answers, published>>
  /\ UNCHANGED gatewayVars

(* The command names a gateway that is not registered.                     *)
UnknownGateway(r) ==
  /\ process[r] # Idle /\ process[r].at = "authorize"
  /\ SelectGateway(r) \notin Gateways
  /\ ProcessTo(r, Idle)
  /\ UNCHANGED <<payments, nextId, refund, applied, answers, published>>
  /\ UNCHANGED gatewayVars

(* Money moves here.  Capturing a ref again at the same gateway is the     *)
(* same charge: gateways are idempotent by ref.                            *)
ChargeOf(r) ==
  [gw |-> process[r].gw, ref |-> process[r].p.ref,
   key |-> process[r].p.key, amount |-> process[r].p.amount]

CaptureAtGateway(r) ==
  /\ process[r] # Idle /\ process[r].at = "capture"
  /\ charges' = charges \cup {ChargeOf(r)}
  /\ ProcessTo(r, [process[r] EXCEPT !.at = "save"])
  /\ UNCHANGED <<payments, nextId, active, mockRefs, refund, refundCalls,
                 applied, answers, published>>

(* Mutant: the error of the capture is ignored.                            *)
CaptureFailsIgnored(r) ==
  /\ process[r] # Idle /\ process[r].at = "capture"
  /\ ProcessTo(r, [process[r] EXCEPT !.at = "save"])
  /\ UNCHANGED <<payments, nextId, refund, applied, answers, published>>
  /\ UNCHANGED gatewayVars

(* The handler gives up with the aggregate unsaved; when the answer was    *)
(* lost the capture took effect all the same.                              *)
CaptureFails(r) ==
  /\ "capture" \in Faults
  /\ process[r] # Idle /\ process[r].at = "capture"
  /\ charges' \in {charges, charges \cup {ChargeOf(r)}}
  /\ ProcessTo(r, Idle)
  /\ UNCHANGED <<payments, nextId, active, mockRefs, refund, refundCalls,
                 applied, answers, published>>

SavePayment(r) ==
  /\ process[r] # Idle /\ process[r].at = "save"
  /\ CanInsert(process[r].p)
  /\ payments' = Inserted(process[r].p)
  /\ ProcessTo(r, [process[r] EXCEPT !.at = "commit"])
  /\ UNCHANGED <<nextId, refund, applied, answers, published>>
  /\ UNCHANGED gatewayVars

(* ErrAlreadyExists: another request stored the key first.                 *)
SaveConflicts(r) ==
  /\ process[r] # Idle /\ process[r].at = "save"
  /\ ~CanInsert(process[r].p)
  /\ ProcessTo(r, [process[r] EXCEPT !.at = "reload"])
  /\ UNCHANGED <<payments, nextId, refund, applied, answers, published>>
  /\ UNCHANGED gatewayVars

(* Any other error of Save; the insert may have been committed.            *)
SaveFails(r) ==
  /\ "save" \in Faults
  /\ process[r] # Idle /\ process[r].at = "save"
  /\ \/ payments' = payments
     \/ CanInsert(process[r].p) /\ payments' = Inserted(process[r].p)
  /\ ProcessTo(r, Idle)
  /\ UNCHANGED <<nextId, refund, applied, answers, published>>
  /\ UNCHANGED gatewayVars

(* Mutant: the loser of the race answers the payment it made itself.       *)
AnswerWinnerAnswersOwn(r) ==
  /\ process[r] # Idle /\ process[r].at = "reload"
  /\ Answer(process[r].p.key, process[r].p.id)
  /\ ProcessTo(r, Idle)
  /\ UNCHANGED <<payments, nextId, refund, applied, published>>
  /\ UNCHANGED gatewayVars

(* The winner's payment is read again and answered.                        *)
AnswerWinner(r) ==
  /\ process[r] # Idle /\ process[r].at = "reload"
  /\ \E id \in Stored(process[r].p.key) : Answer(process[r].p.key, id)
  /\ ProcessTo(r, Idle)
  /\ UNCHANGED <<payments, nextId, refund, applied, published>>
  /\ UNCHANGED gatewayVars

ReloadFails(r) ==
  /\ "reload" \in Faults
  /\ process[r] # Idle /\ process[r].at = "reload"
  /\ ProcessTo(r, Idle)
  /\ UNCHANGED <<payments, nextId, refund, applied, answers, published>>
  /\ UNCHANGED gatewayVars

(* The result is answered whether or not every event could be published.   *)
CommitProcess(r) ==
  /\ process[r] # Idle /\ process[r].at = "commit"
  /\ \E n \in Sent(process[r].p) :
       published' = published \cup IntegrationEvents(process[r].p, n)
  /\ Answer(process[r].p.key, process[r].p.id)
  /\ ProcessTo(r, Idle)
  /\ UNCHANGED <<payments, nextId, refund, applied>>
  /\ UNCHANGED gatewayVars

-----------------------------------------------------------------------------
(* RefundPaymentHandler.Handle, one call per step.                         *)

(* FindByID, then the aggregate accepts the refund, in memory only.        *)
BeginRefund(r, id, amount) ==
  /\ refund[r] = Idle
  /\ id \in DOMAIN payments
  /\ CanRefund(FromSnapshot(payments[id]), amount)
  /\ RefundTo(r, [at |-> "gateway", amount |-> amount,
                  p |-> Refund(FromSnapshot(payments[id]), amount)])
  /\ UNCHANGED <<payments, nextId, process, applied, answers, published>>
  /\ UNCHANGED gatewayVars

(* Resolve is asked for the empty name, so the active gateway is used.     *)
RefundCall(r) == <<active[r], refund[r].p.ref, refund[r].amount>>

RefundAtGateway(r) ==
  /\ refund[r] # Idle /\ refund[r].at = "gateway"
  /\ refundCalls[RefundCall(r)] < MaxRefundCalls
  /\ refundCalls' = [refundCalls EXCEPT ![RefundCall(r)] = @ + 1]
  /\ RefundTo(r, [refund[r] EXCEPT !.at = "update"])
  /\ UNCHANGED <<payments, nextId, active, mockRefs, process, charges,
                 applied, answers, published>>

(* Mutant: the error of the gateway is ignored.                            *)
RefundFailsIgnored(r) ==
  /\ refund[r] # Idle /\ refund[r].at = "gateway"
  /\ RefundTo(r, [refund[r] EXCEPT !.at = "update"])
  /\ UNCHANGED <<payments, nextId, process, applied, answers, published>>
  /\ UNCHANGED gatewayVars

(* An error of the gateway, whether or not the refund took effect.         *)
RefundFails(r) ==
  /\ "refund" \in Faults
  /\ refund[r] # Idle /\ refund[r].at = "gateway"
  /\ \/ refundCalls' = refundCalls
     \/ /\ refundCalls[RefundCall(r)] < MaxRefundCalls
        /\ refundCalls' = [refundCalls EXCEPT ![RefundCall(r)] = @ + 1]
  /\ RefundTo(r, Idle)
  /\ UNCHANGED <<payments, nextId, active, mockRefs, process, charges,
                 applied, answers, published>>

Apply(id, amount) ==
  applied' = [applied EXCEPT ![id] = @ + amount]

UpdatePayment(r) ==
  /\ refund[r] # Idle /\ refund[r].at = "update"
  /\ VersionMatches(refund[r].p)
  /\ payments' = Updated(refund[r].p)
  /\ Apply(refund[r].p.id, refund[r].amount)
  /\ RefundTo(r, [refund[r] EXCEPT !.at = "commit"])
  /\ UNCHANGED <<nextId, process, answers, published>>
  /\ UNCHANGED gatewayVars

(* 0 rows affected: somebody refunded the payment since it was read.       *)
UpdateConflicts(r) ==
  /\ refund[r] # Idle /\ refund[r].at = "update"
  /\ ~VersionMatches(refund[r].p)
  /\ RefundTo(r, Idle)
  /\ UNCHANGED <<payments, nextId, process, applied, answers, published>>
  /\ UNCHANGED gatewayVars

(* Mutant: an error of Update is swallowed and the refund published.       *)
UpdateFailsSwallowed(r) ==
  /\ refund[r] # Idle /\ refund[r].at = "update"
  /\ RefundTo(r, [refund[r] EXCEPT !.at = "commit"])
  /\ UNCHANGED <<payments, nextId, process, applied, answers, published>>
  /\ UNCHANGED gatewayVars

(* The UPDATE returns an error; it may have been committed.                *)
UpdateFails(r) ==
  /\ "update" \in Faults
  /\ refund[r] # Idle /\ refund[r].at = "update"
  /\ \/ UNCHANGED <<payments, applied>>
     \/ /\ VersionMatches(refund[r].p)
        /\ payments' = Updated(refund[r].p)
        /\ Apply(refund[r].p.id, refund[r].amount)
  /\ RefundTo(r, Idle)
  /\ UNCHANGED <<nextId, process, answers, published>>
  /\ UNCHANGED gatewayVars

CommitRefund(r) ==
  /\ refund[r] # Idle /\ refund[r].at = "commit"
  /\ \E n \in Sent(refund[r].p) :
       published' = published \cup IntegrationEvents(refund[r].p, n)
  /\ RefundTo(r, Idle)
  /\ UNCHANGED <<payments, nextId, process, applied, answers>>
  /\ UNCHANGED gatewayVars

-----------------------------------------------------------------------------
(* POST /admin/gateway on one replica: Registry.SetActive.                 *)
SetActive(r, gw) ==
  /\ active[r] # gw
  /\ active' = [active EXCEPT ![r] = gw]
  /\ UNCHANGED <<payments, nextId, mockRefs, process, refund, charges,
                 refundCalls, applied, answers, published>>

(* A replica dies and is started again: newGatewayRegistry builds an empty *)
(* mock and makes it active; what its handlers were doing is forgotten.    *)
Crash(r) ==
  /\ "crash" \in Faults
  /\ ProcessTo(r, Idle)
  /\ RefundTo(r, Idle)
  /\ active' = [active EXCEPT ![r] = "mock"]
  /\ mockRefs' = [mockRefs EXCEPT ![r] = [k \in Keys |-> NoRef]]
  /\ UNCHANGED <<payments, nextId, charges, refundCalls, applied, answers,
                 published>>

ProcessStep(r) ==
  \/ AuthorizeAtGateway(r) \/ AuthorizeFails(r) \/ UnknownGateway(r)
  \/ CaptureAtGateway(r) \/ CaptureFails(r)
  \/ SavePayment(r) \/ SaveConflicts(r) \/ SaveFails(r)
  \/ AnswerWinner(r) \/ ReloadFails(r) \/ CommitProcess(r)

RefundStep(r) ==
  \/ RefundAtGateway(r) \/ RefundFails(r)
  \/ UpdatePayment(r) \/ UpdateConflicts(r) \/ UpdateFails(r)
  \/ CommitRefund(r)

Next ==
  \E r \in Replicas :
    \/ \E cmd \in ProcessCommands : Replay(r, cmd) \/ Begin(r, cmd)
    \/ ProcessStep(r)
    \/ \E id \in PaymentIDs, amount \in RefundAmounts : BeginRefund(r, id, amount)
    \/ RefundStep(r)
    \/ \E gw \in AdminChoices : SetActive(r, gw)
    \/ Crash(r)

Spec == Init /\ [][Next]_vars

-----------------------------------------------------------------------------
(* Properties.                                                             *)

(* Idempotency (process_payment.go 71-79, 120-128): whatever replicas race *)
(* and retry on a key, all its answers name one payment, and it is stored. *)
OneAnswerPerKey ==
  \A a \in answers :
    /\ a[2] \in Stored(a[1])
    /\ \A b \in answers : a[1] = b[1] => a[2] = b[2]

(* The central rule of Payment.Refund (payment.go 102-129), as far as the  *)
(* code keeps it, which compares an unchecked int64 sum with the amount:   *)
(* the refunds the database accepted for a payment exceed its amount only  *)
(* when their sum has left int64; no row shows more than its amount; and   *)
(* REFUNDED are exactly the rows that show all of it.                      *)
RefundBounded ==
  \A id \in DOMAIN payments :
    LET row == payments[id] IN
      /\ applied[id] <= row.amount \/ applied[id] > MaxInt64
      /\ row.refunded <= row.amount
      /\ row.status \in {"CAPTURED", "FAILED"} => applied[id] = 0
      /\ row.status = "PARTIALLY_REFUNDED" =>
           applied[id] > 0 /\ row.refunded # row.amount
      /\ row.status = "REFUNDED" => row.refunded = row.amount
      /\ row.status \notin {"PENDING", "AUTHORIZED"}

(* Optimistic locking (payment_repository.go 36-54): the refunded total of *)
(* a row is, as an int64, the sum of the refunds the database accepted for *)
(* it; no update computed from a stale read overwrites another.            *)
NoLostRefund ==
  \A id \in DOMAIN payments : SameInt64(payments[id].refunded, applied[id])

(* What the gateways were asked to pay back for a ref, all calls counted.  *)
PaidBack(ref) ==
  SumFunctionOnSet([c \in DOMAIN refundCalls |-> refundCalls[c] * c[3]],
                   {c \in DOMAIN refundCalls : c[2] = ref})

(* A refund is recorded only after a gateway took it (refund_payment.go    *)
(* 60-72): the database never accepts more refunds of a payment than the   *)
(* gateways were asked to pay back for it.                                 *)
RefundsWerePaid ==
  \A id \in DOMAIN payments : applied[id] <= PaidBack(payments[id].ref)

(* A payment stored as captured was captured at a gateway under the ref    *)
(* and for the amount of its row (process_payment.go 102-120).             *)
CapturedWasCharged ==
  \A id \in DOMAIN payments :
    payments[id].status # "FAILED" =>
      \E c \in charges : /\ c.ref = payments[id].ref
                         /\ c.key = payments[id].key
                         /\ c.amount = payments[id].amount

(* The row has reached the version of e and, at that version, is as e says.*)
Persisted(e) ==
  /\ e.id \in DOMAIN payments
  /\ e.version <= payments[e.id].version
  /\ e.version = payments[e.id].version =>
       e.status = payments[e.id].status /\ e.refunded = payments[e.id].refunded

(* Events are published after the state they carry is persisted            *)
(* (process_payment.go 130-133, payment_integration.go 31-33): none runs   *)
(* ahead of its row, and none of the row's version contradicts it.         *)
EventsFollowRows == \A e \in published : Persisted(e)

(* The rows and the answers, seen as the book the service promises.        *)
RowOf(key) == payments[CHOOSE id \in Stored(key) : TRUE]
Book ==
  [key \in {payments[id].key : id \in DOMAIN payments} |->
     [id |-> RowOf(key).id, amount |-> RowOf(key).amount,
      refunded |-> RowOf(key).refunded, status |-> RowOf(key).status]]

Promise == INSTANCE PaymentBook WITH book <- Book, MaxAmount <- MaxInt64

(* The service implements the book: races, retries, crashes and lost       *)
(* replies included, every step is a settlement, a refund of the payment   *)
(* as it stands, an answer, or invisible.                                  *)
ImplementsBook == Promise!Spec

-----------------------------------------------------------------------------
(* The inductive invariant behind the safety properties.                   *)

KeysUnique ==
  \A i, j \in DOMAIN payments : payments[i].key = payments[j].key => i = j

RowsInv ==
  \A id \in DOMAIN payments :
    /\ id < nextId
    /\ payments[id].id = id
    /\ payments[id].status \notin {"PENDING", "AUTHORIZED"}
    /\ payments[id].status # "FAILED" => payments[id].ref \in Refs

(* Before the commit a handler's payment is nobody else's and not stored.  *)
ProcessOK(r) ==
  LET at == process[r].at
      p  == process[r].p
  IN  /\ p.id < nextId
      /\ p.refunded = 0
      /\ at = "authorize" => p.status = "PENDING"
      /\ at = "capture" => p.status = "CAPTURED" /\ process[r].gw \in Gateways
      /\ at # "authorize" => p.status \in {"CAPTURED", "FAILED"}
      /\ p.status = "CAPTURED" => p.ref \in Refs
      /\ at = "save" /\ p.status = "CAPTURED" => ChargeOf(r) \in charges
      /\ at # "commit" => p.id \notin DOMAIN payments
      /\ at = "commit" => p.id \in DOMAIN payments /\ payments[p.id].key = p.key

ProcessInv == \A r \in Replicas : process[r] # Idle => ProcessOK(r)

IdsDistinct ==
  \A r, s \in Replicas :
    r # s /\ process[r] # Idle /\ process[s] # Idle =>
      process[r].p.id # process[s].p.id

(* A refund in flight was computed from a version of its row; unless the   *)
(* row has moved on, it is that row plus the refund.                       *)
RefundOK(r) ==
  LET p   == refund[r].p
      row == payments[p.id]
  IN  /\ p.id \in DOMAIN payments
      /\ p.key = row.key /\ p.amount = row.amount
      /\ p.ref = row.ref /\ p.ref \in Refs
      /\ row.status # "FAILED"
      /\ p.status \in {"PARTIALLY_REFUNDED", "REFUNDED"}
      /\ p.version <= row.version + 1
      /\ refund[r].at # "commit" /\ p.version = row.version + 1
           => /\ p.refunded = Add64(row.refunded, refund[r].amount)
              /\ row.status \in {"CAPTURED", "PARTIALLY_REFUNDED"}

RefundInv == \A r \in Replicas : refund[r] # Idle => RefundOK(r)

AnswersStored == \A a \in answers : a[2] \in Stored(a[1])

AppliedInv ==
  /\ NoLostRefund
  /\ \A id \in PaymentIDs : id \notin DOMAIN payments => applied[id] = 0

IInv ==
  /\ TypeOK /\ KeysUnique /\ RowsInv /\ ProcessInv /\ IdsDistinct
  /\ RefundInv /\ AnswersStored /\ AppliedInv /\ CapturedWasCharged

(* What refunds and events need besides.                                   *)
RefundsInFlightBounded ==
  \A r \in Replicas : refund[r] # Idle =>
    LET p == refund[r].p
    IN  /\ p.refunded <= p.amount
        /\ p.status = IF p.refunded < p.amount THEN "PARTIALLY_REFUNDED"
                                               ELSE "REFUNDED"

CommitsPersisted ==
  \A r \in Replicas :
    /\ process[r] # Idle /\ process[r].at = "commit" => Persisted(process[r].p)
    /\ refund[r] # Idle /\ refund[r].at = "commit" => Persisted(refund[r].p)

(* What a gateway was asked for and the row does not show yet is still     *)
(* covered, so long as the update that will show it can succeed.           *)
RefundsInFlightPaid ==
  \A r \in Replicas : refund[r] # Idle /\ refund[r].at = "update" =>
    LET p   == refund[r].p
        row == payments[p.id]
    IN  p.version = row.version + 1 =>
          applied[p.id] + refund[r].amount <= PaidBack(row.ref)

PaidInv    == RefundsWerePaid /\ RefundsInFlightPaid
BoundedInv == RefundBounded /\ RefundsInFlightBounded
EventsInv  == EventsFollowRows /\ CommitsPersisted

-----------------------------------------------------------------------------
(* What the documents say and the code does not keep; each is refuted.     *)

(* README: resending a key returns the same payment "without charging      *)
(* again".                                                                 *)
ChargedOnce ==
  \A c, d \in charges : c.key = d.key => c.gw = d.gw /\ c.ref = d.ref

(* payment.go 102-103: the sum of the refunds never exceeds the captured   *)
(* amount.  An int64 sum that wraps around passes the check.               *)
RefundSumBounded ==
  \A id \in DOMAIN payments : applied[id] <= payments[id].amount

(* The same rule, seen from the gateway when each call it gets pays.       *)
GatewayRefundsBounded ==
  \A id \in DOMAIN payments : PaidBack(payments[id].ref) <= payments[id].amount
=============================================================================
