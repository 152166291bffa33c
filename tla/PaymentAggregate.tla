-------------------------- MODULE PaymentAggregate --------------------------
(***************************************************************************)
(* The Payment aggregate of internal/payments/domain/payment: a record and *)
(* the methods that change it.  A method M of the code that returns an     *)
(* error is two operators here: CanM, true when it returns nil, and M, the *)
(* aggregate it leaves.  Currency, customer and timestamps are abstracted: *)
(* no method chooses its transition by them (Refund compares currencies,   *)
(* but its only caller builds the amount in the payment's own currency).   *)
(***************************************************************************)
EXTENDS Integers, Sequences

CONSTANT MaxInt64       \* the largest int64; small in the runs

ASSUME Int64Assumption == MaxInt64 \in Nat \ {0}

Int64 == -(MaxInt64 + 1) .. MaxInt64

(* a + b in Go's int64: wraps past the largest value.                      *)
Add64(a, b) == IF a + b > MaxInt64 THEN a + b - 2 * (MaxInt64 + 1) ELSE a + b

(* The int64 a is what a sum of positive int64s, n in truth, wraps to.     *)
SameInt64(a, n) == \E k \in 0 .. n : a + 2 * (MaxInt64 + 1) * k = n

Status == {"PENDING", "AUTHORIZED", "CAPTURED", "PARTIALLY_REFUNDED",
           "REFUNDED", "FAILED"}

AllowedTransitions ==
  {<<"PENDING", "AUTHORIZED">>,             <<"PENDING", "FAILED">>,
   <<"AUTHORIZED", "CAPTURED">>,            <<"AUTHORIZED", "FAILED">>,
   <<"CAPTURED", "PARTIALLY_REFUNDED">>,    <<"CAPTURED", "REFUNDED">>,
   <<"PARTIALLY_REFUNDED", "PARTIALLY_REFUNDED">>,
   <<"PARTIALLY_REFUNDED", "REFUNDED">>}

CanTransitionTo(status, next) == <<status, next>> \in AllowedTransitions

NoRef == <<>>           \* the empty GatewayReference

EventNames == {"payment.initiated", "payment.authorized", "payment.captured",
               "payment.refunded", "payment.failed"}

-----------------------------------------------------------------------------
(* Transition to next, recording the domain event named event.             *)
Transition(p, next, event) ==
  [p EXCEPT !.status = next, !.version = @ + 1, !.events = Append(@, event)]

NewPayment(id, key, amount) ==
  [id |-> id, key |-> key, amount |-> amount, refunded |-> 0,
   status |-> "PENDING", ref |-> NoRef, version |-> 1,
   events |-> <<"payment.initiated">>]

CanAuthorize(p, ref) == CanTransitionTo(p.status, "AUTHORIZED") /\ ref # NoRef
Authorize(p, ref) ==
  [Transition(p, "AUTHORIZED", "payment.authorized") EXCEPT !.ref = ref]

CanCapture(p) == p.status = "AUTHORIZED" /\ CanTransitionTo(p.status, "CAPTURED")
Capture(p) == Transition(p, "CAPTURED", "payment.captured")

StatusAfterRefund(p, amount) ==
  IF Add64(p.refunded, amount) < p.amount THEN "PARTIALLY_REFUNDED"
                                          ELSE "REFUNDED"

(* Mutant: the captured amount is no limit.                                *)
CanRefundUnbounded(p, amount) ==
  /\ p.status \in {"CAPTURED", "PARTIALLY_REFUNDED"}
  /\ CanTransitionTo(p.status, StatusAfterRefund(p, amount))

CanRefund(p, amount) ==
  /\ p.status \in {"CAPTURED", "PARTIALLY_REFUNDED"}
  /\ Add64(p.refunded, amount) <= p.amount
  /\ CanTransitionTo(p.status, StatusAfterRefund(p, amount))

Refund(p, amount) ==
  [Transition(p, StatusAfterRefund(p, amount), "payment.refunded")
     EXCEPT !.refunded = Add64(@, amount)]

CanFail(p) == CanTransitionTo(p.status, "FAILED")
(* Its caller ignores the error of Fail, which leaves p as it was.         *)
Fail(p) == IF CanFail(p) THEN Transition(p, "FAILED", "payment.failed") ELSE p

-----------------------------------------------------------------------------
(* The row of table payments that Save and Update write, and the aggregate *)
(* a row gives back: it has no pending events.                             *)
(* Mutant: the pending events are stored with the row.                     *)
ToSnapshotKeepsEvents(p) == p

ToSnapshot(p) ==
  [id |-> p.id, key |-> p.key, amount |-> p.amount, refunded |-> p.refunded,
   status |-> p.status, ref |-> p.ref, version |-> p.version]

FromSnapshot(s) ==
  [id |-> s.id, key |-> s.key, amount |-> s.amount, refunded |-> s.refunded,
   status |-> s.status, ref |-> s.ref, version |-> s.version, events |-> <<>>]
=============================================================================
