----------------------------- MODULE EntSchema -----------------------------
(***************************************************************************)
(* What the packages generated by ent say of the entities Order, Payment   *)
(* and User: their columns, the fields each builder writes, what is        *)
(* required, checked, defaulted and unique.                                *)
(***************************************************************************)
EXTENDS TLC

\* f, and g where f says nothing; and the function of one argument.
f ++ g == [x \in DOMAIN f \cup DOMAIN g |-> IF x \in DOMAIN f THEN f[x] ELSE g[x]]
One(x, v) == [y \in {x} |-> v]

Types == {"Order", "Payment", "User"}

\* The clients: a transaction belongs to one of them.
Clients  == {"payments", "users"}
Client(t) == IF t = "User" THEN "users" ELSE "payments"

-----------------------------------------------------------------------------
(* Columns (ValidColumn), and the type SetField asserts of each field.     *)
OrderColumns ==
  {"id", "idempotency_key", "customer_id", "amount_cents", "currency", "status",
   "created_at", "version"}
PaymentColumns ==
  {"id", "idempotency_key", "customer_id", "amount_cents", "currency",
   "refunded_cents", "status", "gateway_ref", "created_at", "updated_at", "version"}
UserColumns == {"id", "name", "email", "created_at", "updated_at", "version"}

Columns == [Order |-> OrderColumns, Payment |-> PaymentColumns, User |-> UserColumns]

OrderKinds ==
  [idempotency_key |-> "string", customer_id |-> "string", amount_cents |-> "int64",
   currency |-> "string", status |-> "string", created_at |-> "time", version |-> "int"]
PaymentKinds ==
  [idempotency_key |-> "string", customer_id |-> "string", amount_cents |-> "int64",
   currency |-> "string", refunded_cents |-> "int64", status |-> "string",
   gateway_ref |-> "string", created_at |-> "time", updated_at |-> "time",
   version |-> "int"]
UserKinds ==
  [name |-> "string", email |-> "string", created_at |-> "time", updated_at |-> "time",
   version |-> "int"]

Kinds == [Order |-> OrderKinds, Payment |-> PaymentKinds, User |-> UserKinds]

-----------------------------------------------------------------------------
(* AddField knows the numbers, ClearField the nullable fields.             *)
OrderNumeric   == {"amount_cents", "version"}
PaymentNumeric == {"amount_cents", "refunded_cents", "version"}
UserNumeric    == {"version"}
Numeric == [Order |-> OrderNumeric, Payment |-> PaymentNumeric, User |-> UserNumeric]

OrderNullable   == {"idempotency_key"}
PaymentNullable == {}
UserNullable    == {}
Nullable == [Order |-> OrderNullable, Payment |-> PaymentNullable, User |-> UserNullable]

-----------------------------------------------------------------------------
(* Create: check() and defaults().                                         *)
OrderRequired ==
  {"customer_id", "amount_cents", "currency", "status", "created_at", "version"}
PaymentRequired ==
  {"idempotency_key", "customer_id", "amount_cents", "currency", "refunded_cents",
   "status", "gateway_ref", "created_at", "updated_at", "version"}
UserRequired == {"name", "email", "created_at", "updated_at", "version"}
Required == [Order |-> OrderRequired, Payment |-> PaymentRequired, User |-> UserRequired]

PaymentDefaults == [refunded_cents |-> 0, gateway_ref |-> ""]
Defaults(t) == IF t = "Payment" THEN PaymentDefaults ELSE << >>

\* The fields with a NotEmpty validator, and those of them an update checks.
PaymentsNotEmpty == [Order |-> {"customer_id", "id"},
                     Payment |-> {"idempotency_key", "customer_id", "id"}]
UsersNotEmpty    == [User |-> {"name", "email", "id"}]
NotEmpty         == PaymentsNotEmpty ++ UsersNotEmpty
CheckedOnUpdate  == [Order |-> {}, Payment |-> {}, User |-> {"name", "email"}]

-----------------------------------------------------------------------------
(* The fields createSpec() and the sqlSave of the update builders write.   *)
OrderCreated   == OrderColumns \ {"id"}
PaymentCreated == PaymentColumns \ {"id"}
UserCreated    == UserColumns \ {"id"}
Created == [Order |-> OrderCreated, Payment |-> PaymentCreated, User |-> UserCreated]

OrderUpdated   == {"status", "version"}
PaymentUpdated ==
  {"amount_cents", "refunded_cents", "status", "gateway_ref", "updated_at", "version"}
UserUpdated    == {"name", "email", "updated_at", "version"}
Updated == [Order |-> OrderUpdated, Payment |-> PaymentUpdated, User |-> UserUpdated]

OrderUpdatedOne   == {"status", "version"}
PaymentUpdatedOne ==
  {"amount_cents", "refunded_cents", "status", "gateway_ref", "updated_at", "version"}
UserUpdatedOne    == {"name", "email", "updated_at", "version"}
UpdatedOne ==
  [Order |-> OrderUpdatedOne, Payment |-> PaymentUpdatedOne, User |-> UserUpdatedOne]

\* What the schemas declare Immutable().
OrderImmutable   == OrderColumns \ {"status", "version"}
PaymentImmutable == {"id", "idempotency_key", "customer_id", "currency", "created_at"}
UserImmutable    == {"id", "created_at"}
Immutable ==
  [Order |-> OrderImmutable, Payment |-> PaymentImmutable, User |-> UserImmutable]

-----------------------------------------------------------------------------
(* The tables of the migration: unique columns; the others, but the        *)
(* nullable ones, are NOT NULL.                                            *)
OrderUniques   == {"idempotency_key"}
PaymentUniques == {"idempotency_key"}
UserUniques    == {"email"}
Uniques == [Order |-> OrderUniques, Payment |-> PaymentUniques, User |-> UserUniques]

\* What assignValues leaves in a field whose column is NULL or was not
\* selected: the zero value, or no value for the pointer.
OrderZero ==
  [id |-> "", customer_id |-> "", amount_cents |-> 0, currency |-> "", status |-> "",
   created_at |-> 0, version |-> 0]
PaymentZero ==
  [id |-> "", idempotency_key |-> "", customer_id |-> "", amount_cents |-> 0,
   currency |-> "", refunded_cents |-> 0, status |-> "", gateway_ref |-> "",
   created_at |-> 0, updated_at |-> 0, version |-> 0]
UserZero ==
  [id |-> "", name |-> "", email |-> "", created_at |-> 0, updated_at |-> 0,
   version |-> 0]
Zero == [Order |-> OrderZero, Payment |-> PaymentZero, User |-> UserZero]

-----------------------------------------------------------------------------
(* The typed setters of the builders: a call of another does not compile.  *)
OrderCreateSetters   == OrderColumns
PaymentCreateSetters == PaymentColumns
UserCreateSetters    == UserColumns
CreateSetters ==
  [Order |-> OrderCreateSetters, Payment |-> PaymentCreateSetters, User |-> UserCreateSetters]

OrderUpdateSetters   == {"status", "version"}
PaymentUpdateSetters ==
  {"amount_cents", "refunded_cents", "status", "gateway_ref", "updated_at", "version"}
UserUpdateSetters    == {"name", "email", "updated_at", "version"}
UpdateSetters ==
  [Order |-> OrderUpdateSetters, Payment |-> PaymentUpdateSetters, User |-> UserUpdateSetters]

PaymentUpdateOneSetters ==
  {"amount_cents", "refunded_cents", "status", "gateway_ref", "updated_at", "version"}
UserUpdateOneSetters    == {"name", "email", "updated_at", "version"}
UpdateOneSetters ==
  [Order |-> OrderUpdateSetters, Payment |-> PaymentUpdateOneSetters,
   User |-> UserUpdateOneSetters]

-----------------------------------------------------------------------------
(* The typed functions of a mutation, by field.                            *)
Basic    == {"Set", "Old", "Reset"}
Counting == Basic \cup {"Add"}
Erasable == Basic \cup {"Clear"}

OrderSubject == [idempotency_key |-> Erasable, customer_id |-> Basic,
                 amount_cents |-> Counting]
OrderProgress == [currency |-> Basic, status |-> Basic, created_at |-> Basic,
                  version |-> Counting]
PaymentCharge == [idempotency_key |-> Basic, customer_id |-> Basic,
                  amount_cents |-> Counting, currency |-> Basic]
PaymentOutcome == [refunded_cents |-> Counting, status |-> Basic, gateway_ref |-> Basic]
PaymentStamps == [created_at |-> Basic, updated_at |-> Basic, version |-> Counting]
UserIdentity == [name |-> Basic, email |-> Basic]
UserStamps   == [created_at |-> Basic, updated_at |-> Basic, version |-> Counting]

Functions ==
  [Order |-> OrderSubject ++ OrderProgress,
   Payment |-> PaymentCharge ++ PaymentOutcome ++ PaymentStamps,
   User |-> UserIdentity ++ UserStamps]

-----------------------------------------------------------------------------
(* The predicates of each column (where.go).                               *)
Comparing == {"EQ", "NEQ", "In", "NotIn", "GT", "GTE", "LT", "LTE"}
Folding   == {"EqualFold", "ContainsFold"}
Textual   == Comparing \cup Folding \cup {"Contains", "HasPrefix", "HasSuffix"}
Nulls     == {"IsNil", "NotNil"}

OrderIDPredicates   == [id |-> Comparing \cup Folding]
OrderKeyPredicates  == [idempotency_key |-> Textual \cup Nulls, customer_id |-> Textual]
OrderSumPredicates  == [amount_cents |-> Comparing, currency |-> Textual]
OrderLastPredicates == [status |-> Textual, created_at |-> Comparing, version |-> Comparing]

PaymentIDPredicates   == [id |-> Comparing \cup Folding]
PaymentKeyPredicates  == [idempotency_key |-> Textual, customer_id |-> Textual]
PaymentSumPredicates  == [amount_cents |-> Comparing, currency |-> Textual,
                          refunded_cents |-> Comparing]
PaymentTextPredicates == [status |-> Textual, gateway_ref |-> Textual]
PaymentLastPredicates == [created_at |-> Comparing, updated_at |-> Comparing,
                          version |-> Comparing]

UserIDPredicates   == [id |-> Comparing \cup Folding]
UserTextPredicates == [name |-> Textual, email |-> Textual]
UserLastPredicates == [created_at |-> Comparing, updated_at |-> Comparing,
                       version |-> Comparing]

Predicates ==
  [Order |-> OrderIDPredicates ++ OrderKeyPredicates ++ OrderSumPredicates
             ++ OrderLastPredicates,
   Payment |-> PaymentIDPredicates ++ PaymentKeyPredicates ++ PaymentSumPredicates
               ++ PaymentTextPredicates ++ PaymentLastPredicates,
   User |-> UserIDPredicates ++ UserTextPredicates ++ UserLastPredicates]
=============================================================================
