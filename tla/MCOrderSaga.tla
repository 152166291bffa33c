---------------------------- MODULE MCOrderSaga ----------------------------
(* Constants of the runs of OrderSaga.                                     *)
EXTENDS OrderSaga

CONSTANTS k1, o1, noKey, ada

Order(customer, key, amount) == [customer |-> customer, key |-> key, amount |-> amount]

(* An order with a key a client may also pay directly, for another amount, *)
(* and one without a key.  A customer nobody knows ends as a failed lookup.*)
SomeOrders == {Order(ada, k1, 1), Order(ada, noKey, 2)}

(* An order whose key is the id of another: the two share the payment.     *)
SharingOrders == SomeOrders \cup {Order(ada, o1, 1)}

SomePayments == {[key |-> k1, amount |-> 3]}

KeyedOrder == {Order(ada, k1, 1)}
=============================================================================
