----------------------------- MODULE PaymentBook -----------------------------
(***************************************************************************)
(* What the payment service promises, without replicas, gateways, events   *)
(* or failures: a book with at most one payment per idempotency key.  A    *)
(* payment enters the book already settled, captured or failed; after that *)
(* only refunds change it, one at a time, each added to the total as it    *)
(* stands and refused if the total would show more than the amount; and    *)
(* every answer about a key names the payment the book has for it.  Totals *)
(* are int64s and wrap around: how far the sum of the refunds is bounded   *)
(* is the subject of RefundBounded in Payments.                            *)
(***************************************************************************)
EXTENDS Integers

CONSTANTS Keys, PaymentIDs,
          MaxAmount             \* the largest amount and total

VARIABLES book, answers

bookVars == <<book, answers>>

Init ==
  /\ book = [k \in {} |-> {}]
  /\ answers = {}

Settle(k, id, amount, status) ==
  /\ k \notin DOMAIN book
  /\ \A other \in DOMAIN book : book[other].id # id
  /\ book' = [j \in DOMAIN book \cup {k} |->
                IF j # k THEN book[j]
                ELSE [id |-> id, amount |-> amount, refunded |-> 0, status |-> status]]
  /\ UNCHANGED answers

Total(refunded, a) ==
  IF refunded + a > MaxAmount THEN refunded + a - 2 * (MaxAmount + 1) ELSE refunded + a

Refund(k, a) ==
  /\ k \in DOMAIN book
  /\ book[k].status \in {"CAPTURED", "PARTIALLY_REFUNDED"}
  /\ LET total == Total(book[k].refunded, a) IN
       /\ total <= book[k].amount
       /\ book' = [book EXCEPT ![k].refunded = total,
                               ![k].status = IF total = book[k].amount
                                             THEN "REFUNDED" ELSE "PARTIALLY_REFUNDED"]
  /\ UNCHANGED answers

Answer(k) ==
  /\ k \in DOMAIN book
  /\ answers' = answers \cup {<<k, book[k].id>>}
  /\ UNCHANGED book

Next ==
  \E k \in Keys :
    \/ \E id \in PaymentIDs, amount \in 1 .. MaxAmount, status \in {"CAPTURED", "FAILED"} :
         Settle(k, id, amount, status)
    \/ \E a \in 1 .. MaxAmount : Refund(k, a)
    \/ Answer(k)

Spec == Init /\ [][Next]_bookVars
=============================================================================
