--------------------------- MODULE GraphqlRequest ---------------------------
(***************************************************************************)
(* The requests of one client, one after the other: how the executor gives *)
(* the fields of an operation to their resolvers, how these use the two    *)
(* loaders of the request, and what becomes of a field that fails.         *)
(*                                                                         *)
(* The root fields of a mutation run one after the other, each with all    *)
(* below it; those of a query run concurrently.  _entities, the field the  *)
(* federation's gateway asks for, first resolves all representations       *)
(* concurrently, and then marshals the list.  Other requests write to the  *)
(* tables meanwhile.                                                       *)
(***************************************************************************)
EXTENDS Naturals, Sequences, FiniteSets

CONSTANTS
  Users, Orders, \* ids
  CustomerOf,    \* the customer of each order
  Documents,     \* [op, fields]: what clients ask for
  MaxBatch,      \* limit of a loader's batch, 100 in the code
  MaxVersion,    \* bound: versions of a user; version 0 does not exist
  MaxRequests,   \* bound: requests
  MaxWrites,     \* bound: rows other requests write during one
  Faults         \* "query": a loader's query, "resolver": any other resolver

Kinds ==
  [mutation |-> {"createOrder", "createUser", "updateUser", "payment"},
   query    |-> {"order", "user", "users", "payment"},
   entities |-> {"Order", "User", "Payment", "unknown"}]

OfOrder == {"createOrder", "order", "Order"}
OfUser  == {"createUser", "updateUser", "user", "User"}

ASSUME GraphqlRequestAssumption ==
  /\ CustomerOf \in [Orders -> Users]
  /\ MaxBatch \in Nat \ {0} /\ MaxVersion \in Nat \ {0} /\ MaxRequests \in Nat /\ MaxWrites \in Nat
  /\ Faults \subseteq {"query", "resolver"}
  /\ \A doc \in Documents : doc.op \in DOMAIN Kinds /\ \A i \in DOMAIN doc.fields :
       LET f == doc.fields[i] IN
         /\ i \in Nat \ {0} /\ 1 .. i \subseteq DOMAIN doc.fields
         /\ f.kind \in Kinds[doc.op]
         /\ f.kind \in OfOrder => f.key \in Orders
         /\ f.kind \in OfUser => f.key \in Users
         /\ f.customer \in BOOLEAN /\ f.valid \in BOOLEAN
         /\ doc.op = "entities" => f.valid

VARIABLES
  users, orders,                       \* the tables: the version of each row
  request,                             \* what the client asked for
  start,                               \* the users when it did
  field,                               \* what each root field, or representation, is at
  list,                                \* out.Values, or the list of entities
  answer,                              \* the response's data
  served,                              \* requests so far
  writes,                              \* rows others wrote since this one began
  ucache, ucurrent, ubatches, ucall,   \* UserByID
  ocache, ocurrent, obatches, ocall    \* OrderByID

userLoader  == <<ucache, ucurrent, ubatches, ucall>>
orderLoader == <<ocache, ocurrent, obatches, ocall>>
progress    == <<field, list>>
client      == <<request, start, answer, served, writes>>
vars == <<users, orders, progress, client, userLoader, orderLoader>>

Positions == UNION {DOMAIN doc.fields : doc \in Documents}

UserByID == INSTANCE DataLoader
              WITH Resolvers <- Positions, Keys <- Users, store <- users, cache <- ucache,
                   current <- ucurrent, batches <- ubatches, call <- ucall

OrderByID == INSTANCE DataLoader
               WITH Resolvers <- Positions, Keys <- Orders, store <- orders, cache <- ocache,
                    current <- ocurrent, batches <- obatches, call <- ocall

NoRequest == [op |-> "none", fields |-> <<>>]
NoAnswer  == [of |-> "nothing yet"]
Null      == [of |-> "null"]
Payment   == [of |-> "Payment"]
Nobody    == [key |-> "none", version |-> 0]

User(u, version)      == [of |-> "User", key |-> u, version |-> version]
Order(o)              == [of |-> "Order", key |-> o, customer |-> Nobody]
AllUsers              == [of |-> "Users", versions |-> users]

Here == DOMAIN request.fields
Errors == {"none", "input", "unknown", "failed"}

TypeOK ==
  /\ request \in Documents \cup {NoRequest}
  /\ field \in [Here -> [at : {"waiting", "loading", "resolved", "customer", "done"},
                         error : Errors]]
  /\ DOMAIN list = Here
  /\ \A i \in Here : list[i] # Null =>
       \/ list[i].of = "Order" /\ list[i].key \in Orders
       \/ list[i].of = "User" /\ list[i].key \in Users /\ list[i].version \in 1 .. MaxVersion
       \/ list[i] = Payment \/ list[i].of = "Users"
  /\ served \in 0 .. MaxRequests /\ writes \in 0 .. MaxWrites
  /\ UserByID!TypeOK /\ OrderByID!TypeOK

(* Every order's customer existed when it was created.                     *)
Init ==
  /\ users \in {[u \in Users |-> IF u \in known THEN 1 ELSE 0] : known \in SUBSET Users}
  /\ orders \in {[o \in Orders |-> IF o \in known THEN 1 ELSE 0] :
                   known \in SUBSET {o \in Orders : users[CustomerOf[o]] > 0}}
  /\ request = NoRequest /\ start = users
  /\ field = <<>> /\ list = <<>>
  /\ answer = NoAnswer /\ served = 0 /\ writes = 0
  /\ UserByID!Init /\ OrderByID!Init

-----------------------------------------------------------------------------
Begin(doc) ==
  /\ request = NoRequest \/ answer # NoAnswer
  /\ served < MaxRequests
  /\ request' = doc /\ start' = users
  /\ served' = served + 1 /\ writes' = 0
  /\ field' = [i \in DOMAIN doc.fields |-> [at |-> "waiting", error |-> "none"]]
  /\ list' = [i \in DOMAIN doc.fields |-> Null]
  /\ answer' = NoAnswer
  /\ UserByID!NewLoader /\ OrderByID!NewLoader
  /\ UNCHANGED <<users, orders>>

At(i, stage) == field' = [field EXCEPT ![i].at = stage]

(* Mutant: the fields of a mutation run concurrently too.                  *)
AnyTurn(i) == field[i].at = "waiting"

(* _Mutation: a field waits for those before it.                           *)
Turn(i) ==
  /\ field[i].at = "waiting"
  /\ request.op = "mutation" => \A j \in 1 .. i - 1 : field[j].at = "done"

(* What a resolver answers goes to its own position.                       *)
Resolved(i, value) ==
  /\ At(i, "resolved")
  /\ list' = [list EXCEPT ![i] = value]

FailsWith(i, why) ==
  /\ field' = [field EXCEPT ![i] = [at |-> "resolved", error |-> why]]
  /\ UNCHANGED list

Field(i) == request.fields[i]

-----------------------------------------------------------------------------
(* Resolvers.                                                              *)

(* The input's @binding constraints are checked before the resolver runs.  *)
RejectInput(i) ==
  /\ Turn(i) /\ ~Field(i).valid
  /\ FailsWith(i, "input")
  /\ UNCHANGED <<users, orders, client, userLoader, orderLoader>>

Called(i, kind) == Turn(i) /\ Field(i).valid /\ Field(i).kind = kind

Created(o) == orders' = [orders EXCEPT ![o] = 1] /\ UNCHANGED users
Stored(u)  == users' = [users EXCEPT ![u] = IF @ < MaxVersion THEN @ + 1 ELSE @]
              /\ UNCHANGED orders

(* An order is named by the idempotency key it was created with, a user by *)
(* the e-mail.  OrderSaga and Users have the steps of these commands, and  *)
(* of the read that follows them; here they are one.                       *)
CreateOrder(i) ==
  /\ Called(i, "createOrder")
  /\ LET o == Field(i).key IN
       \/ /\ users[CustomerOf[o]] = 0
          /\ FailsWith(i, "unknown") /\ UNCHANGED <<users, orders>>
       \/ /\ users[CustomerOf[o]] > 0 /\ orders[o] = 1
          /\ FailsWith(i, "failed") /\ UNCHANGED <<users, orders>>
       \/ /\ users[CustomerOf[o]] > 0 /\ orders[o] = 0
          /\ Created(o) /\ Resolved(i, Order(o))
  /\ UNCHANGED <<client, userLoader, orderLoader>>

(* Dispatch hides that the e-mail is taken: its holder is answered.        *)
CreateUser(i) ==
  /\ Called(i, "createUser")
  /\ LET u == Field(i).key IN
       /\ IF users[u] = 0 THEN Stored(u) ELSE UNCHANGED <<users, orders>>
       /\ Resolved(i, User(u, users'[u]))
  /\ UNCHANGED <<client, userLoader, orderLoader>>

UpdateUser(i) ==
  /\ Called(i, "updateUser")
  /\ LET u == Field(i).key IN
       \/ users[u] = 0 /\ FailsWith(i, "unknown") /\ UNCHANGED <<users, orders>>
       \/ users[u] > 0 /\ Stored(u) /\ Resolved(i, User(u, users'[u]))
  /\ UNCHANGED <<client, userLoader, orderLoader>>

(* A write fails, or what it wrote cannot be read back.                    *)
WriteFails(i) ==
  /\ "resolver" \in Faults
  /\ \/ Called(i, "createOrder") /\ users[CustomerOf[Field(i).key]] > 0 /\ Created(Field(i).key)
     \/ Called(i, "createUser") /\ users[Field(i).key] = 0 /\ Stored(Field(i).key)
     \/ Called(i, "updateUser") /\ users[Field(i).key] > 0 /\ Stored(Field(i).key)
     \/ /\ \E kind \in Kinds["mutation"] : Called(i, kind)
        /\ UNCHANGED <<users, orders>>
  /\ FailsWith(i, "failed")
  /\ UNCHANGED <<client, userLoader, orderLoader>>

(* Dispatch hides a failed update too: the user is answered as it was.     *)
UpdateLost(i) ==
  /\ "resolver" \in Faults
  /\ Called(i, "updateUser")
  /\ LET u == Field(i).key IN users[u] > 0 /\ Resolved(i, User(u, users[u]))
  /\ UNCHANGED <<users, orders, client, userLoader, orderLoader>>

(* payment, Payment, and the mutations that answer one.                    *)
GetPayment(i) ==
  /\ Called(i, "payment") \/ Called(i, "Payment")
  /\ Resolved(i, Payment) \/ FailsWith(i, "failed")
  /\ UNCHANGED <<users, orders, client, userLoader, orderLoader>>

(* user: the query bus, and not the loader.                                *)
GetUser(i) ==
  /\ Called(i, "user")
  /\ LET u == Field(i).key IN
       IF users[u] = 0 THEN FailsWith(i, "unknown") ELSE Resolved(i, User(u, users[u]))
  /\ UNCHANGED <<users, orders, client, userLoader, orderLoader>>

ListUsers(i) ==
  /\ Called(i, "users")
  /\ Resolved(i, AllUsers)
  /\ UNCHANGED <<users, orders, client, userLoader, orderLoader>>

ReadFails(i) ==
  /\ "resolver" \in Faults
  /\ Called(i, "user") \/ Called(i, "users")
  /\ FailsWith(i, "failed")
  /\ UNCHANGED <<users, orders, client, userLoader, orderLoader>>

(* A representation without a type or a key, or of a type nobody resolves. *)
UnknownType(i) ==
  /\ Called(i, "unknown")
  /\ FailsWith(i, "unknown")
  /\ UNCHANGED <<users, orders, client, userLoader, orderLoader>>

LoadOrder(i) ==
  /\ Called(i, "order") \/ Called(i, "Order")
  /\ OrderByID!Load(i, Field(i).key)
  /\ At(i, "loading")
  /\ UNCHANGED <<users, list, client, userLoader>>

OrderLoaded(i) ==
  /\ field[i].at = "loading" /\ Field(i).kind \in OfOrder
  /\ ocall[i].at = "returned"
  /\ IF ocall[i].got = OrderByID!NoValue THEN FailsWith(i, "failed")
     ELSE Resolved(i, Order(ocall[i].got.key))
  /\ UNCHANGED <<users, orders, client, userLoader, orderLoader>>

LoadUser(i) ==
  /\ Called(i, "User")
  /\ UserByID!Load(i, Field(i).key)
  /\ At(i, "loading")
  /\ UNCHANGED <<orders, list, client, orderLoader>>

UserLoaded(i) ==
  /\ field[i].at = "loading" /\ Field(i).kind \in OfUser
  /\ ucall[i].at = "returned"
  /\ IF ucall[i].got = UserByID!NoValue THEN FailsWith(i, "failed")
     ELSE Resolved(i, User(ucall[i].got.key, ucall[i].got.version))
  /\ UNCHANGED <<users, orders, client, userLoader, orderLoader>>

-----------------------------------------------------------------------------
(* Marshalling.  The list of entities waits for all of them.               *)
MarshalTurn(i) ==
  /\ field[i].at = "resolved"
  /\ request.op = "entities" => \A j \in Here : field[j].at \notin {"waiting", "loading"}

WantsCustomer(i) == list[i].of = "Order" /\ Field(i).customer

Marshal(i) ==
  /\ MarshalTurn(i)
  /\ ~WantsCustomer(i)
  /\ At(i, "done")
  /\ UNCHANGED <<users, orders, list, client, userLoader, orderLoader>>

LoadCustomer(i) ==
  /\ MarshalTurn(i)
  /\ WantsCustomer(i)
  /\ UserByID!Load(i, CustomerOf[list[i].key])
  /\ At(i, "customer")
  /\ UNCHANGED <<orders, list, client, orderLoader>>

(* An order's customer is not nullable: without it the order is null.      *)
CustomerLoaded(i) ==
  /\ field[i].at = "customer"
  /\ ucall[i].at = "returned"
  /\ IF ucall[i].got = UserByID!NoValue
     THEN /\ list' = [list EXCEPT ![i] = Null]
          /\ field' = [field EXCEPT ![i] = [at |-> "done", error |-> "failed"]]
     ELSE /\ list' = [list EXCEPT ![i].customer = ucall[i].got]
          /\ At(i, "done")
  /\ UNCHANGED <<users, orders, client, userLoader, orderLoader>>

(* What mutations answer is not nullable, and neither is the list of users.*)
NonNull(i) == request.op = "mutation" \/ Field(i).kind = "users"

Respond ==
  /\ request # NoRequest /\ answer = NoAnswer
  /\ \A i \in Here : field[i].at = "done"
  /\ answer' = IF \E i \in Here : NonNull(i) /\ list[i] = Null THEN Null
               ELSE [of |-> "data", values |-> list]
  /\ UNCHANGED <<users, orders, progress, request, start, served, writes, userLoader, orderLoader>>

-----------------------------------------------------------------------------
Running == request # NoRequest /\ answer = NoAnswer

(* Another request creates or changes a user, or creates an order.         *)
OtherWrite ==
  /\ Running /\ writes < MaxWrites
  /\ writes' = writes + 1
  /\ \/ \E u \in Users : users[u] < MaxVersion /\ Stored(u)
     \/ \E o \in Orders : orders[o] = 0 /\ users[CustomerOf[o]] > 0 /\ Created(o)
  /\ UNCHANGED <<progress, request, start, answer, served, userLoader, orderLoader>>

Resolve(i) ==
  \/ RejectInput(i) \/ CreateOrder(i) \/ CreateUser(i) \/ UpdateUser(i)
  \/ WriteFails(i) \/ UpdateLost(i)
  \/ GetPayment(i) \/ GetUser(i) \/ ListUsers(i) \/ ReadFails(i) \/ UnknownType(i)
  \/ LoadOrder(i) \/ OrderLoaded(i) \/ LoadUser(i) \/ UserLoaded(i)

FieldStep(i) == Resolve(i) \/ Marshal(i) \/ LoadCustomer(i) \/ CustomerLoaded(i)

UserLoaderReturns(i)  == UserByID!Return(i) /\ UNCHANGED <<orders, progress, client, orderLoader>>
OrderLoaderReturns(i) == OrderByID!Return(i) /\ UNCHANGED <<users, progress, client, userLoader>>

UserBatchStep(b) ==
  /\ Running /\ b \in DOMAIN ubatches
  /\ UserByID!BatchStep(b)
  /\ UNCHANGED <<orders, progress, client, orderLoader>>

OrderBatchStep(b) ==
  /\ Running /\ b \in DOMAIN obatches
  /\ OrderByID!BatchStep(b)
  /\ UNCHANGED <<users, progress, client, userLoader>>

Next ==
  \/ \E doc \in Documents : Begin(doc)
  \/ \E i \in Here : FieldStep(i) \/ UserLoaderReturns(i) \/ OrderLoaderReturns(i)
  \/ \E b \in Positions : UserBatchStep(b) \/ OrderBatchStep(b)
  \/ Respond
  \/ OtherWrite

Spec == Init /\ [][Next]_vars

(* The goroutines of a request are scheduled, and timers fire.             *)
Fairness ==
  /\ \A i \in Positions :
       /\ WF_vars(i \in Here /\ FieldStep(i))
       /\ WF_vars(i \in Here /\ UserLoaderReturns(i)) /\ WF_vars(i \in Here /\ OrderLoaderReturns(i))
       /\ WF_vars(UserBatchStep(i)) /\ WF_vars(OrderBatchStep(i))
  /\ WF_vars(Respond)

FairSpec == Spec /\ Fairness

-----------------------------------------------------------------------------
(* Properties.                                                             *)

(* loaders.go 104-139, orderloader_gen.go 88-111: a load returns the entity*)
(* of its own key, as it was at some moment of the call unless the cache   *)
(* had it, or an error; and an error is not remembered.                    *)
OwnResult ==
  UserByID!OwnResult /\ OrderByID!OwnResult
    /\ UserByID!ErrorsNotCached /\ OrderByID!ErrorsNotCached

(* orderloader_gen.go 179-224: see BatchFetchedOnce of DataLoader.         *)
BatchFetchedOnce == UserByID!BatchFetchedOnce /\ OrderByID!BatchFetchedOnce

(* generated.go 4097-4188, federation.go 37-123, loaders.go 19-22: at each *)
(* position the answer has the entity asked for there, an order with its   *)
(* own customer, or null where that is allowed; and no customer is older   *)
(* than the request, whatever the requests before it had loaded.           *)
AnswersOwn ==
  answer.of = "data" => \A i \in Here :
    LET f     == Field(i)
        value == answer.values[i]
        Fresh(u, version) == version \in start[u] .. users[u]
    IN  \/ value = Null /\ ~NonNull(i)
        \/ /\ f.kind \in OfOrder => /\ value.of = "Order" /\ value.key = f.key
                                    /\ f.customer => /\ value.customer.key = CustomerOf[f.key]
                                                     /\ Fresh(value.customer.key,
                                                              value.customer.version)
           /\ f.kind \in OfUser => /\ value.of = "User" /\ value.key = f.key
                                   /\ Fresh(value.key, value.version)
           /\ f.kind = "users" => \A u \in Users : Fresh(u, value.versions[u])
           /\ f.kind \in {"payment", "Payment"} => value = Payment

(* generated.go 4030-4072: a mutation may rely on the fields before it: an *)
(* order is not refused for want of a customer the same request created.   *)
MutationsSerial ==
  request.op = "mutation" => \A i, j \in Here :
    ~ /\ i < j
      /\ Field(i).kind = "createUser" /\ list[i] # Null
      /\ Field(j).kind = "createOrder" /\ CustomerOf[Field(j).key] = Field(i).key
      /\ field[j].error = "unknown"

(* Resolvers wait for batches, batches for timers or their limit, and the  *)
(* executor for all of them: every request is answered.                    *)
RequestAnswered == request # NoRequest /\ answer = NoAnswer ~> answer # NoAnswer

(* loaders.go 19-22: a loader's cache serves no stale reads; so what a     *)
(* mutation answers is not older than what its own fields before it wrote. *)
NoStaleCustomer ==
  request.op = "mutation" /\ answer.of = "data" => \A i, j \in Here :
    /\ i < j
    /\ Field(i).kind = "updateUser"
    /\ Field(j).kind = "createOrder" /\ Field(j).customer
    /\ CustomerOf[Field(j).key] = Field(i).key
    => answer.values[j].customer.version >= answer.values[i].version
=============================================================================
