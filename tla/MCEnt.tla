------------------------------- MODULE MCEnt -------------------------------
(***************************************************************************)
(* Programs and rows for Ent.                                              *)
(***************************************************************************)
EXTENDS Ent

Call(via, do, f, v, kind) ==
  [via |-> via, do |-> do, field |-> f, value |-> v, kind |-> kind]
Sets(via, t, vals) ==   \* one typed Set per field
  FoldSet(LAMBDA f, calls : Append(calls, Call(via, "Set", f, vals[f], Kinds[t][f])),
          <<>>, DOMAIN vals)

Is(c, v)     == [not |-> FALSE, any |-> <<[col |-> c, op |-> "EQ", args |-> <<v>>]>>]
IsNot(c, v)  == [not |-> TRUE, any |-> <<[col |-> c, op |-> "EQ", args |-> <<v>>]>>]
Null(c)      == [not |-> FALSE, any |-> <<[col |-> c, op |-> "IsNil", args |-> <<>>]>>]
KeyOrID(k, i) ==
  [not |-> FALSE, any |-> <<[col |-> "idempotency_key", op |-> "EQ", args |-> <<k>>],
                            [col |-> "id", op |-> "EQ", args |-> <<i>>]>>]

OrderOf(c)   == [customer_id |-> c, amount_cents |-> 1, currency |-> "USD",
                 status |-> "created", created_at |-> 1, version |-> 1]
PaymentOf(k) == [idempotency_key |-> k, customer_id |-> "c", amount_cents |-> 1,
                 currency |-> "USD", status |-> "initiated", created_at |-> 1,
                 updated_at |-> 1, version |-> 1]
UserOf(e)    == [name |-> "n", email |-> e, created_at |-> 1, updated_at |-> 1,
                 version |-> 1]

Program(t, op, ids, where, chains) ==
  [type |-> t, op |-> op, ids |-> ids, where |-> where, chains |-> chains,
   entity |-> <<>>, fields |-> <<>>]
NoID == <<>>

MCSeed ==
  [Order   |-> "o1" :> ("id" :> "o1" @@ "idempotency_key" :> "k" @@ OrderOf("c")),
   Payment |-> "p1" :> ("id" :> "p1" @@ PaymentDefaults @@ PaymentOf("k")),
   User    |-> "u1" :> ("id" :> "u1" @@ UserOf("e1"))]

PayTo(v) ==
  Program("Payment", "Update", <<NoID>>, <<Is("id", "p1"), Is("version", v - 1)>>,
          <<Sets("builder", "Payment", [status |-> "captured", version |-> v])>>)

MCPrograms == <<
  \* two orders in bulk, the second with a key already taken
  Program("Order", "Create", <<<<"o2">>, <<"o3">>>>, <<>>,
    <<Sets("builder", "Order", OrderOf("c")),
      Sets("builder", "Order", "idempotency_key" :> "k" @@ OrderOf("c"))>>),
  \* two orders in bulk, the second without a customer
  Program("Order", "Create", <<<<"o2">>, <<"o3">>>>, <<>>,
    <<Sets("builder", "Order", OrderOf("c")), Sets("builder", "Order", OrderOf(""))>>),
  \* an order under an id that may have been another's
  Program("Order", "Create", <<<<"o1">>>>, <<>>, <<Sets("builder", "Order", OrderOf("c2"))>>),
  \* the key is cleared by name; amount_cents is immutable and is not written
  Program("Order", "UpdateOne", <<<<"o1">>>>, <<>>,
    << <<Call("mutation", "Clear", "idempotency_key", "", "string"),
         Call("name", "Set", "amount_cents", 2, "int64"),
         Call("builder", "Set", "status", "paid", "string")>> >>),
  \* of the orders with a key: NOT (NULL = x) is not true
  Program("Order", "Delete", <<NoID>>, <<IsNot("idempotency_key", "x")>>, << <<>> >>),
  Program("Order", "DeleteOne", <<<<"o2">>>>, <<>>, << <<>> >>),
  PayTo(2),
  Program("Payment", "Create", <<<<"p2">>>>, <<>>,
    <<Sets("builder", "Payment", PaymentOf("k2"))>>),
  \* old value, set then add, an addition of the wrong type
  Program("User", "UpdateOne", <<<<"u1">>>>, <<>>,
    << <<Call("builder", "Set", "email", "e2", "string"),
         Call("name", "Add", "version", 5, "int64"),
         Call("name", "Clear", "email", "", "string"),
         Call("builder", "Add", "version", 1, "int")>> >>),
  [Program("User", "UpdateOne", <<NoID>>, <<>>,
    << <<Call("builder", "Set", "version", 7, "int"),
         Call("mutation", "Reset", "version", 0, "int"),
         Call("builder", "Add", "version", 1, "int")>> >>)
     EXCEPT !.entity = <<MCSeed.User["u1"]>>],
  Program("User", "Create", <<<<"u2">>>>, <<>>, <<Sets("builder", "User", UserOf("e2"))>>),
  \* every user, one email
  Program("User", "Update", <<NoID>>, <<>>, <<Sets("builder", "User", [email |-> "e3"])>>),
  Program("User", "Update", <<NoID>>, <<>>, <<Sets("builder", "User", [name |-> ""])>>),
  \* no column is written: created_at is immutable
  Program("User", "Update", <<NoID>>, <<>>,
    << <<Call("name", "Set", "created_at", 2, "time")>> >>),
  Program("Order", "UpdateOne", <<<<"o1">>>>, <<>>, << <<>> >>)
>>

MCQuestions == <<
  [type |-> "Order", where |-> <<KeyOrID("k", "o2")>>, ask |-> "First", limit |-> 0,
   offset |-> 0, fields |-> <<>>],
  [type |-> "User", where |-> <<>>, ask |-> "String", limit |-> 0, offset |-> 0,
   fields |-> <<"email">>],
  [type |-> "Order", where |-> <<Null("idempotency_key")>>, ask |-> "Count", limit |-> 0,
   offset |-> 0, fields |-> <<>>] >>

Hook(ops, do, calls) ==
  [ops |-> ops, fields |-> {}, added |-> {}, cleared |-> {}, unless |-> FALSE,
   do |-> do, calls |-> calls]

\* No order is deleted by its id; a user that is saved gets a time unless it has
\* one.
MCHooks ==
  [Order   |-> <<Hook({"DeleteOne"}, "reject", <<>>)>>,
   Payment |-> <<>>,
   User    |-> <<[Hook({"Create", "UpdateOne"}, "call",
                       <<Call("mutation", "Set", "updated_at", 2, "time")>>)
                    EXCEPT !.fields = {"updated_at"}, !.unless = TRUE]>>]

Alike == Permutations(Workers)
=============================================================================
