-------------------------- MODULE MCGraphqlRequest --------------------------
(* Constants of the runs of GraphqlRequest.                                *)
EXTENDS GraphqlRequest

CONSTANTS o1, o2, u1, u2

Op(op, fields) == [op |-> op, fields |-> fields]
Plain(kind, key)  == [kind |-> kind, key |-> key, customer |-> FALSE, valid |-> TRUE]
Nested(kind, key) == [kind |-> kind, key |-> key, customer |-> TRUE, valid |-> TRUE]
Invalid(kind, key) == [kind |-> kind, key |-> key, customer |-> FALSE, valid |-> FALSE]

(* The first order is of the first user, the second of the second.         *)
EachItsOwn == [o \in {o1, o2} |-> IF o = o1 THEN u1 ELSE u2]
BothOfOne  == [o \in {o1, o2} |-> u1]

(* One order depends on a user made just before; one is asked for twice.   *)
AllDocuments ==
  {Op("mutation", <<Plain("createUser", u2), Nested("createOrder", o2)>>),
   Op("mutation", <<Nested("createOrder", o1), Plain("updateUser", u1)>>),
   Op("mutation", <<Invalid("updateUser", u1), Plain("payment", "p")>>),
   Op("query", <<Nested("order", o1), Nested("order", o2)>>),
   Op("query", <<Nested("order", o2), Nested("order", o2)>>),
   Op("query", <<Plain("users", ""), Plain("user", u1), Plain("payment", "p")>>),
   Op("entities", <<Nested("Order", o2), Plain("User", u2)>>),
   Op("entities", <<Plain("User", u2), Plain("User", u2)>>),
   Op("entities", <<Plain("unknown", ""), Plain("Payment", "p")>>)}

(* An order is created before and after its customer is changed.           *)
ChangeBetween ==
  {Op("mutation", <<Nested("createOrder", o1), Plain("updateUser", u1),
                    Nested("createOrder", o2)>>)}
=============================================================================
