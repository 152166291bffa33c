------------------------ MODULE GraphqlRequestProofs ------------------------
(***************************************************************************)
(* Theorems about GraphqlRequest, for any documents, users, orders, limit  *)
(* of a batch and number of requests: the two loaders keep what            *)
(* DataLoaderProofs says of them, whatever the executor and other requests *)
(* do, and each position of an answer has what was asked for there.  The   *)
(* last part proves in which documents no stale customer is answered.      *)
(***************************************************************************)
EXTENDS GraphqlRequest, TLAPS

NoOrders == [o \in Orders |-> 0]

UserL == INSTANCE DataLoaderProofs
           WITH Resolvers <- Positions, Keys <- Users, store <- users, cache <- ucache,
                current <- ucurrent, batches <- ubatches, call <- ucall, base <- start

OrderL == INSTANCE DataLoaderProofs
            WITH Resolvers <- Positions, Keys <- Orders, store <- orders, cache <- ocache,
                 current <- ocurrent, batches <- obatches, call <- ocall, base <- NoOrders

-----------------------------------------------------------------------------
(* The loaders of GraphqlRequest are those of the lemmas.                  *)

LEMMA UserLoads ==
  ASSUME NEW r, NEW k, UserByID!Load(r, k)
  PROVE  UserL!Load(r, k)
BY DEF UserByID!Load, UserByID!LoadCached, UserByID!Returned, UserByID!JoinBatch,
       UserByID!Collecting, UserByID!Index, UserByID!NewBatch, UserByID!Positions,
       UserByID!Waiting, UserByID!WithKey, UserByID!NewPosition,
       UserL!Load, UserL!LoadCached, UserL!Returned, UserL!JoinBatch,
       UserL!Collecting, UserL!Index, UserL!NewBatch, UserL!Positions,
       UserL!Waiting, UserL!WithKey, UserL!NewPosition

LEMMA OrderLoads ==
  ASSUME NEW r, NEW k, OrderByID!Load(r, k)
  PROVE  OrderL!Load(r, k)
BY DEF OrderByID!Load, OrderByID!LoadCached, OrderByID!Returned, OrderByID!JoinBatch,
       OrderByID!Collecting, OrderByID!Index, OrderByID!NewBatch, OrderByID!Positions,
       OrderByID!Waiting, OrderByID!WithKey, OrderByID!NewPosition,
       OrderL!Load, OrderL!LoadCached, OrderL!Returned, OrderL!JoinBatch,
       OrderL!Collecting, OrderL!Index, OrderL!NewBatch, OrderL!Positions,
       OrderL!Waiting, OrderL!WithKey, OrderL!NewPosition

LEMMA UserReturns ==
  ASSUME NEW r, UserByID!Return(r)
  PROVE  UserL!Return(r)
BY DEF UserByID!Return, UserByID!Returned, UserByID!Cached, UserByID!NoValue,
       UserL!Return, UserL!Returned, UserL!Cached, UserL!NoValue

LEMMA OrderReturns ==
  ASSUME NEW r, OrderByID!Return(r)
  PROVE  OrderL!Return(r)
BY DEF OrderByID!Return, OrderByID!Returned, OrderByID!Cached, OrderByID!NoValue,
       OrderL!Return, OrderL!Returned, OrderL!Cached, OrderL!NoValue

LEMMA UserBatchSteps ==
  ASSUME NEW b, UserByID!BatchStep(b)
  PROVE  UserL!BatchStep(b)
BY DEF UserByID!BatchStep, UserByID!TimerFires, UserByID!EndedByTimer, UserByID!Fetch,
       UserByID!ResultsOf, UserByID!Failed, UserByID!Found, UserByID!NoValue, UserByID!WithData,
       UserL!BatchStep, UserL!TimerFires, UserL!EndedByTimer, UserL!Fetch,
       UserL!ResultsOf, UserL!Failed, UserL!Found, UserL!NoValue, UserL!WithData

LEMMA OrderBatchSteps ==
  ASSUME NEW b, OrderByID!BatchStep(b)
  PROVE  OrderL!BatchStep(b)
BY DEF OrderByID!BatchStep, OrderByID!TimerFires, OrderByID!EndedByTimer, OrderByID!Fetch,
       OrderByID!ResultsOf, OrderByID!Failed, OrderByID!Found, OrderByID!NoValue, OrderByID!WithData,
       OrderL!BatchStep, OrderL!TimerFires, OrderL!EndedByTimer, OrderL!Fetch,
       OrderL!ResultsOf, OrderL!Failed, OrderL!Found, OrderL!NoValue, OrderL!WithData

LEMMA NewLoaders ==
  /\ UserByID!NewLoader => UserL!NewLoader
  /\ OrderByID!NewLoader => OrderL!NewLoader
  /\ UserByID!Init => UserL!Init
  /\ OrderByID!Init => OrderL!Init
BY DEF UserByID!NewLoader, UserByID!Init, UserByID!Idle, UserByID!NoValue,
       UserL!NewLoader, UserL!Init, UserL!Idle, UserL!NoValue,
       OrderByID!NewLoader, OrderByID!Init, OrderByID!Idle, OrderByID!NoValue,
       OrderL!NewLoader, OrderL!Init, OrderL!Idle, OrderL!NoValue

LEMMA SizesOK == UserL!Sizes /\ OrderL!Sizes
BY GraphqlRequestAssumption DEF UserL!Sizes, OrderL!Sizes

(* What the two invariants say of the loaders' properties.                 *)
LEMMA LoadersHold ==
  ASSUME UserL!LoaderInv, OrderL!LoaderInv
  PROVE  UserByID!TypeOK /\ OrderByID!TypeOK /\ OwnResult /\ BatchFetchedOnce
<1>1. UserL!TypeOK /\ UserL!OwnResult /\ UserL!BatchFetchedOnce /\ UserL!ErrorsNotCached
  BY SizesOK, UserL!Holds
<1>2. OrderL!TypeOK /\ OrderL!OwnResult /\ OrderL!BatchFetchedOnce /\ OrderL!ErrorsNotCached
  BY SizesOK, OrderL!Holds
<1>3. UserByID!TypeOK
  BY <1>1 DEF UserL!TypeOK, UserL!Value, UserL!NoValue, UserL!Batch, UserL!Idle,
              UserByID!TypeOK, UserByID!Value, UserByID!NoValue, UserByID!Batch, UserByID!Idle
<1>4. OrderByID!TypeOK
  BY <1>2 DEF OrderL!TypeOK, OrderL!Value, OrderL!NoValue, OrderL!Batch, OrderL!Idle,
              OrderByID!TypeOK, OrderByID!Value, OrderByID!NoValue, OrderByID!Batch, OrderByID!Idle
<1>5. UserByID!OwnResult /\ UserByID!ErrorsNotCached
  BY <1>1 DEF UserL!OwnResult, UserL!ErrorsNotCached, UserL!NoValue,
              UserByID!OwnResult, UserByID!ErrorsNotCached, UserByID!NoValue
<1>6. OrderByID!OwnResult /\ OrderByID!ErrorsNotCached
  BY <1>2 DEF OrderL!OwnResult, OrderL!ErrorsNotCached, OrderL!NoValue,
              OrderByID!OwnResult, OrderByID!ErrorsNotCached, OrderByID!NoValue
<1>7. UserByID!BatchFetchedOnce /\ OrderByID!BatchFetchedOnce
  BY <1>1, <1>2 DEF UserL!BatchFetchedOnce, OrderL!BatchFetchedOnce,
                    UserByID!BatchFetchedOnce, OrderByID!BatchFetchedOnce
<1> QED BY <1>3, <1>4, <1>5, <1>6, <1>7 DEF OwnResult, BatchFetchedOnce
-----------------------------------------------------------------------------
(* The invariant.                                                          *)

Stages == {"waiting", "loading", "resolved", "customer", "done"}

Types ==
  /\ request \in Documents \cup {NoRequest}
  /\ field \in [Here -> [at : Stages, error : Errors]]
  /\ DOMAIN list = Here
  /\ served \in 0 .. MaxRequests /\ writes \in 0 .. MaxWrites
  /\ orders \in [Orders -> 0 .. 1]

Loaders == UserL!LoaderInv /\ OrderL!LoaderInv

(* A version of a user that the table had during the request.              *)
Fresh(u, version) == version \in start[u] .. users[u]

(* What stands at a position is what was asked for there, and an order     *)
(* that is done has its customer.                                          *)
Right(i) ==
  LET f == Field(i)
      v == list[i]
  IN  /\ f.kind # "unknown"
      /\ f.kind \in OfOrder =>
           /\ v = [of |-> "Order", key |-> f.key, customer |-> v.customer]
           /\ field[i].at = "done" /\ f.customer =>
                /\ v.customer.key = CustomerOf[f.key]
                /\ Fresh(CustomerOf[f.key], v.customer.version)
      /\ f.kind \in OfUser =>
           /\ v = User(f.key, v.version) /\ v.version \in 1 .. MaxVersion
           /\ Fresh(f.key, v.version)
      /\ f.kind = "users" => v.of = "Users" /\ \A u \in Users : Fresh(u, v.versions[u])
      /\ f.kind \in {"payment", "Payment"} => v = Payment

(* A field's call of a loader asks for the field's entity.                 *)
Asks(i) ==
  LET at == field[i].at
      f  == Field(i)
  IN  /\ at = "loading" /\ f.kind \in OfOrder => ocall[i] # OrderL!Idle /\ ocall[i].key = f.key
      /\ at = "loading" /\ f.kind \in OfUser => ucall[i] # UserL!Idle /\ ucall[i].key = f.key
      /\ at = "customer" => /\ list[i] # Null /\ f.kind \in OfOrder
                            /\ ucall[i] # UserL!Idle /\ ucall[i].key = CustomerOf[f.key]

FieldInv(i) ==
  /\ field[i].at \in {"waiting", "loading"} => list[i] = Null
  /\ field[i].at = "waiting" => field[i].error = "none"
  /\ list[i] = Null \/ Right(i)
  /\ Asks(i)

(* The fields of a mutation wait for those before them.                    *)
InTurn ==
  request.op = "mutation" => \A i, j \in Here :
    i < j /\ field[j].at # "waiting" => field[i].at = "done"

MadeUsers ==
  request.op = "mutation" => \A i \in Here :
    Field(i).kind = "createUser" /\ list[i] # Null => users[Field(i).key] > 0

AnswerInv ==
  answer.of = "data" =>
    /\ answer.values = list
    /\ \A i \in Here : field[i].at = "done" /\ ~(NonNull(i) /\ list[i] = Null)

Fields == \A i \in Here : FieldInv(i)
Client == InTurn /\ MadeUsers /\ MutationsSerial /\ AnswerInv
IInv   == Types /\ Loaders /\ Fields /\ Client

-----------------------------------------------------------------------------
(* What the invariant says.                                                *)

(* A position that is there is asked for by a document.                    *)
LEMMA Asked ==
  ASSUME Types, NEW i \in Here
  PROVE  /\ request \in Documents /\ request.op \in DOMAIN Kinds
         /\ i \in Positions /\ i \in Nat \ {0} /\ 1 .. i \subseteq Here
         /\ Field(i).kind \in Kinds[request.op]
         /\ Field(i).kind \in OfOrder => Field(i).key \in Orders /\ CustomerOf[Field(i).key] \in Users
         /\ Field(i).kind \in OfUser => Field(i).key \in Users
         /\ Field(i).kind \in OfOrder \cup OfUser \cup {"users", "payment", "Payment", "unknown"}
<1>1. request \in Documents
  BY DEF Types, NoRequest, Here
<1>2. i \in Positions
  BY <1>1 DEF Positions, Here
<1>3. /\ request.op \in DOMAIN Kinds /\ Field(i).kind \in Kinds[request.op]
      /\ i \in Nat \ {0} /\ 1 .. i \subseteq Here
      /\ Field(i).kind \in OfOrder => Field(i).key \in Orders
      /\ Field(i).kind \in OfUser => Field(i).key \in Users
  BY <1>1, GraphqlRequestAssumption DEF Field, Here
<1>4. Field(i).kind \in OfOrder \cup OfUser \cup {"users", "payment", "Payment", "unknown"}
  BY <1>3 DEF Kinds, OfOrder, OfUser
<1>5. Field(i).kind \in OfOrder => CustomerOf[Field(i).key] \in Users
  BY <1>3, GraphqlRequestAssumption
<1> QED BY <1>1, <1>2, <1>3, <1>4, <1>5

(* The tables.                                                             *)
LEMMA Tables ==
  ASSUME Loaders
  PROVE  /\ users \in [Users -> 0 .. MaxVersion] /\ orders \in [Orders -> 0 .. MaxVersion]
         /\ start \in [Users -> Nat] /\ \A u \in Users : start[u] <= users[u]
BY DEF Loaders, UserL!LoaderInv, UserL!TableInv, OrderL!LoaderInv, OrderL!TableInv

LEMMA InvImplies ==
  ASSUME IInv
  PROVE  TypeOK /\ OwnResult /\ BatchFetchedOnce /\ AnswersOwn /\ MutationsSerial
<1>1. UserByID!TypeOK /\ OrderByID!TypeOK /\ OwnResult /\ BatchFetchedOnce
  BY LoadersHold DEF IInv, Loaders
<1>2. ASSUME NEW i \in Here, list[i] # Null
      PROVE  \/ list[i].of = "Order" /\ list[i].key \in Orders
             \/ /\ list[i].of = "User" /\ list[i].key \in Users
                /\ list[i].version \in 1 .. MaxVersion
             \/ list[i] = Payment \/ list[i].of = "Users"
  <2>1. Right(i)
    BY <1>2 DEF IInv, Fields, FieldInv
  <2>2. CASE Field(i).kind \in OfOrder
    BY <2>1, <2>2, Asked DEF Right, IInv
  <2>3. CASE Field(i).kind \in OfUser
    BY <2>1, <2>3, Asked DEF Right, IInv, User
  <2>4. CASE Field(i).kind \in {"users", "payment", "Payment", "unknown"}
    BY <2>1, <2>4 DEF Right
  <2> QED BY <2>2, <2>3, <2>4, Asked DEF IInv
<1>3. TypeOK
  BY <1>1, <1>2 DEF IInv, Types, TypeOK, Stages
<1>4. AnswersOwn
  <2> SUFFICES ASSUME answer.of = "data", NEW i \in Here,
                      ~(list[i] = Null /\ ~NonNull(i))
               PROVE  LET f     == Field(i)
                          value == list[i]
                      IN  /\ f.kind \in OfOrder =>
                               /\ value.of = "Order" /\ value.key = f.key
                               /\ f.customer => /\ value.customer.key = CustomerOf[f.key]
                                                /\ Fresh(value.customer.key, value.customer.version)
                          /\ f.kind \in OfUser => /\ value.of = "User" /\ value.key = f.key
                                                  /\ Fresh(value.key, value.version)
                          /\ f.kind = "users" => \A u \in Users : Fresh(u, value.versions[u])
                          /\ f.kind \in {"payment", "Payment"} => value = Payment
    <3>1. answer.of = "data" => answer.values = list
      BY DEF IInv, Client, AnswerInv
    <3> QED BY <3>1 DEF AnswersOwn, Fresh
  <2>1. Right(i) /\ field[i].at = "done"
    BY DEF IInv, Client, AnswerInv, Fields, FieldInv
  <2>2. Field(i).kind \in OfOrder =>
          /\ list[i].of = "Order" /\ list[i].key = Field(i).key
          /\ Field(i).customer =>
               /\ list[i].customer.key = CustomerOf[Field(i).key]
               /\ Fresh(list[i].customer.key, list[i].customer.version)
    BY <2>1 DEF Right
  <2>3. Field(i).kind \in OfUser =>
          /\ list[i].of = "User" /\ list[i].key = Field(i).key
          /\ Fresh(list[i].key, list[i].version)
    BY <2>1 DEF Right, User
  <2> QED BY <2>1, <2>2, <2>3 DEF Right
<1> QED BY <1>1, <1>3, <1>4 DEF IInv, Client

LEMMA InitInv == Init => IInv
<1> SUFFICES ASSUME Init PROVE IInv
  OBVIOUS
<1> USE GraphqlRequestAssumption
<1>1. Here = {}
  BY DEF Init, Here, NoRequest
<1>2. Types
  <2>1. field \in [Here -> [at : Stages, error : Errors]]
    BY <1>1 DEF Init
  <2>2. orders \in [Orders -> 0 .. 1]
    BY DEF Init
  <2> QED BY <1>1, <2>1, <2>2 DEF Types, Init
<1>3. Loaders
  <2>1. users \in [Users -> 0 .. MaxVersion] /\ orders \in [Orders -> 0 .. MaxVersion]
    BY DEF Init
  <2>2. UserL!TableInv /\ OrderL!TableInv
    BY <2>1 DEF Init, UserL!TableInv, OrderL!TableInv, NoOrders
  <2> QED BY <2>2, SizesOK, NewLoaders, UserL!Begins, OrderL!Begins DEF Init, Loaders
<1>4. Fields /\ Client
  BY <1>1 DEF Init, Fields, Client, InTurn, MadeUsers, MutationsSerial, AnswerInv, NoAnswer
<1> QED BY <1>2, <1>3, <1>4 DEF IInv
-----------------------------------------------------------------------------
(* What the steps have in common.                                          *)

(* The tables of a step: rows get newer.                                   *)
Grows ==
  /\ users' \in [Users -> 0 .. MaxVersion] /\ \A u \in Users : users[u] <= users'[u]
  /\ orders' \in [Orders -> 0 .. 1] /\ \A o \in Orders : orders[o] <= orders'[o]

LEMMA Still ==
  ASSUME Types, Loaders, UNCHANGED <<users, orders>>
  PROVE  Grows
BY Tables DEF Grows, Types

LEMMA Creates ==
  ASSUME Types, Loaders, NEW o \in Orders, Created(o)
  PROVE  Grows
BY Tables DEF Grows, Types, Created

LEMMA Stores ==
  ASSUME Types, Loaders, NEW u \in Users, Stored(u)
  PROVE  Grows /\ users'[u] \in 1 .. MaxVersion
<1> USE GraphqlRequestAssumption
<1>1. users \in [Users -> 0 .. MaxVersion] /\ MaxVersion \in Nat /\ orders \in [Orders -> 0 .. 1]
  BY Tables DEF Types
<1>2. /\ users' = [users EXCEPT ![u] = IF users[u] < MaxVersion THEN users[u] + 1 ELSE users[u]]
      /\ orders' = orders
  BY DEF Stored
<1>3. users' \in [Users -> 0 .. MaxVersion]
  BY <1>1, <1>2
<1>4. \A w \in Users : users[w] <= users'[w]
  BY <1>1, <1>2
<1>5. users'[u] \in 1 .. MaxVersion
  BY <1>1, <1>2
<1>6. \A o \in Orders : orders[o] <= orders'[o]
  BY <1>1, <1>2
<1> QED BY <1>1, <1>2, <1>3, <1>4, <1>5, <1>6 DEF Grows

LEMMA LoadersKept ==
  ASSUME Loaders, Grows, UNCHANGED <<start, userLoader, orderLoader>>
  PROVE  Loaders'
<1>1. UserL!LoaderInv'
  BY SizesOK, UserL!TableGrows DEF Loaders, Grows, userLoader
<1>2. orders' \in [Orders -> 0 .. MaxVersion]
  BY GraphqlRequestAssumption DEF Grows
<1>3. NoOrders' = NoOrders
  BY DEF NoOrders
<1>4. OrderL!LoaderInv'
  BY <1>2, <1>3, SizesOK, OrderL!TableGrows DEF Loaders, Grows, orderLoader
<1> QED BY <1>1, <1>4 DEF Loaders

(* The other fields stay right.                                            *)
LEMMA OthersRight ==
  ASSUME Types, Loaders, Grows, UNCHANGED <<request, start>>, NEW j \in Here,
         field'[j] = field[j], list'[j] = list[j],
         ocall[j] # OrderL!Idle => ocall'[j] # OrderL!Idle /\ ocall'[j].key = ocall[j].key,
         ucall[j] # UserL!Idle => ucall'[j] # UserL!Idle /\ ucall'[j].key = ucall[j].key,
         FieldInv(j)
  PROVE  FieldInv(j)'
<1>1. UserL!Idle' = UserL!Idle /\ OrderL!Idle' = OrderL!Idle /\ Field(j)' = Field(j)
  BY DEF UserL!Idle, OrderL!Idle, Field
<1>2. \A u \in Users : \A version : Fresh(u, version) => Fresh(u, version)'
  BY Tables DEF Fresh, Grows
<1>3. ASSUME Right(j) PROVE Right(j)'
  BY <1>1, <1>2, <1>3, Asked DEF Right
<1>4. Asks(j)'
  BY <1>1 DEF Asks, FieldInv
<1> QED BY <1>3, <1>4 DEF FieldInv

(* One field moves.                                                        *)
LEMMA FieldKeeps ==
  ASSUME IInv, Grows, Loaders', NEW i \in Here, UNCHANGED client,
         field' \in [Here -> [at : Stages, error : Errors]], DOMAIN list' = DOMAIN list,
         \A j \in Here : j # i =>
           /\ field'[j] = field[j] /\ list'[j] = list[j]
           /\ ocall'[j] = ocall[j] /\ ucall'[j] = ucall[j],
         Turn(i) \/ field[i].at \notin {"waiting", "done"},
         field'[i].at # "waiting", FieldInv(i)',
         request.op = "mutation" /\ Field(i).kind = "createUser" /\ list'[i] # Null =>
           users'[Field(i).key] > 0,
         \/ field'[i].error # "unknown" \/ field'[i].error = field[i].error
         \/ request.op = "mutation" /\ Field(i).kind = "createOrder" =>
              users[CustomerOf[Field(i).key]] = 0
  PROVE  IInv'
<1>1. /\ UNCHANGED <<request, start, answer, served, writes>> /\ Here' = Here
      /\ \A j : Field(j)' = Field(j)
  BY DEF client, Here, Field
<1>2. field[i].at # "done" /\ answer.of # "data"
  BY DEF Turn, IInv, Client, AnswerInv
<1>3. Types'
  BY <1>1 DEF IInv, Types, Grows
<1>4. Fields'
  BY <1>1, OthersRight DEF Fields, IInv
<1>5. InTurn'
  <2> SUFFICES ASSUME request.op = "mutation", NEW a \in Here, NEW b \in Here,
                      a < b, field'[b].at # "waiting"
               PROVE  field'[a].at = "done"
    BY <1>1 DEF InTurn
  <2>1. a \in Nat \ {0} /\ b \in Nat \ {0} /\ a # b /\ a \in 1 .. b - 1
    BY Asked DEF IInv
  <2>2. field[a].at = "done"
    BY <2>1 DEF IInv, Client, InTurn, Turn
  <2> QED BY <2>2, <1>2
<1>6. MadeUsers'
  <2> SUFFICES ASSUME request.op = "mutation", NEW a \in Here,
                      Field(a).kind = "createUser", list'[a] # Null
               PROVE  users'[Field(a).key] > 0
    BY <1>1 DEF MadeUsers
  <2>1. Field(a).key \in Users
    BY Asked DEF IInv, OfUser
  <2>2. CASE a # i
    BY <2>1, <2>2, Tables DEF IInv, Client, MadeUsers, Grows
  <2> QED BY <2>2
<1>7. MutationsSerial'
  <2> SUFFICES ASSUME request.op = "mutation", NEW a \in Here, NEW b \in Here, a < b,
                      Field(a).kind = "createUser", list'[a] # Null,
                      Field(b).kind = "createOrder",
                      CustomerOf[Field(b).key] = Field(a).key, field'[b].error = "unknown"
               PROVE  FALSE
    BY <1>1 DEF MutationsSerial
  <2>1. a # b
    BY Asked DEF IInv
  <2>2. CASE a = i
    <3>1. field[b].at = "waiting" /\ field'[b] = field[b]
      BY <2>1, <2>2, <1>2 DEF IInv, Client, InTurn
    <3> QED BY <3>1 DEF IInv, Fields, FieldInv
  <2>3. CASE b = i
    <3>1. users[Field(a).key] > 0 /\ field[b].error # "unknown"
      BY <2>1, <2>3 DEF IInv, Client, MadeUsers, MutationsSerial
    <3> QED BY <3>1, <2>3
  <2>4. CASE a # i /\ b # i
    BY <2>4 DEF IInv, Client, MutationsSerial
  <2> QED BY <2>2, <2>3, <2>4
<1>8. AnswerInv'
  BY <1>1, <1>2 DEF AnswerInv
<1> QED BY <1>3, <1>4, <1>5, <1>6, <1>7, <1>8 DEF IInv, Client

(* A resolver fails.                                                       *)
LEMMA Failing ==
  ASSUME IInv, Grows, NEW i \in Here, NEW why \in Errors,
         UNCHANGED <<client, userLoader, orderLoader>>,
         Turn(i) \/ field[i].at = "loading", FailsWith(i, why),
         why = "unknown" /\ request.op = "mutation" /\ Field(i).kind = "createOrder" =>
           users[CustomerOf[Field(i).key]] = 0
  PROVE  IInv'
<1>1. list[i] = Null /\ list' = list
  BY DEF IInv, Fields, FieldInv, Turn, FailsWith
<1>2. /\ field' \in [Here -> [at : Stages, error : Errors]]
      /\ field'[i] = [at |-> "resolved", error |-> why]
      /\ \A j \in Here : j # i => field'[j] = field[j]
  BY DEF IInv, Types, FailsWith, Stages
<1>3. FieldInv(i)'
  BY <1>1, <1>2 DEF FieldInv, Asks, Null
<1>4. Loaders'
  BY LoadersKept DEF IInv, client
<1> QED BY <1>1, <1>2, <1>3, <1>4, FieldKeeps DEF userLoader, orderLoader

(* A resolver answers.                                                     *)
LEMMA Resolving ==
  ASSUME IInv, Grows, NEW i \in Here, NEW value,
         UNCHANGED <<client, userLoader, orderLoader>>,
         Turn(i) \/ field[i].at = "loading", Resolved(i, value), Right(i)',
         request.op = "mutation" /\ Field(i).kind = "createUser" => users'[Field(i).key] > 0
  PROVE  IInv'
<1>1. /\ DOMAIN list' = DOMAIN list /\ list'[i] = value
      /\ \A j \in Here : j # i => list'[j] = list[j]
  BY DEF IInv, Types, Resolved
<1>2. /\ field' \in [Here -> [at : Stages, error : Errors]]
      /\ field'[i].at = "resolved" /\ field'[i].error = field[i].error
      /\ \A j \in Here : j # i => field'[j] = field[j]
  BY DEF IInv, Types, Resolved, At, Stages
<1>3. FieldInv(i)'
  BY <1>2 DEF FieldInv, Asks
<1>4. Loaders'
  BY LoadersKept DEF IInv, client
<1> QED BY <1>1, <1>2, <1>3, <1>4, FieldKeeps DEF userLoader, orderLoader
-----------------------------------------------------------------------------
(* Resolvers.                                                              *)

LEMMA MutationsKeep ==
  ASSUME IInv, NEW i \in Here, CreateOrder(i) \/ CreateUser(i) \/ UpdateUser(i) \/ UpdateLost(i)
  PROVE  IInv'
<1> USE GraphqlRequestAssumption
<1>1. UNCHANGED <<client, userLoader, orderLoader>> /\ Turn(i)
  BY DEF CreateOrder, CreateUser, UpdateUser, UpdateLost, Called
<1>2. /\ Types /\ Loaders /\ Field(i)' = Field(i) /\ start' = start
      /\ "failed" \in Errors /\ "unknown" \in Errors
  BY <1>1 DEF IInv, Field, client, Errors
<1>3. CASE CreateOrder(i)
  <2> DEFINE o == Field(i).key
  <2>1. Field(i).kind = "createOrder" /\ o \in Orders
    BY <1>2, <1>3, Asked DEF CreateOrder, Called, OfOrder
  <2>2. CASE users[CustomerOf[o]] = 0 /\ FailsWith(i, "unknown") /\ UNCHANGED <<users, orders>>
    BY <1>1, <1>2, <2>1, <2>2, Still, Failing
  <2>3. CASE FailsWith(i, "failed") /\ UNCHANGED <<users, orders>>
    BY <1>1, <1>2, <2>3, Still, Failing
  <2>4. CASE Created(o) /\ Resolved(i, Order(o))
    <3>1. Grows
      BY <1>2, <2>1, <2>4, Creates
    <3>2. list'[i] = Order(o) /\ field'[i].at = "resolved"
      BY <1>2, <2>4 DEF Resolved, At, Types
    <3>3. Right(i)'
      BY <1>2, <2>1, <3>2 DEF Right, Order, OfOrder, OfUser
    <3> QED BY <1>1, <2>1, <2>4, <3>1, <3>3, Resolving
  <2> QED BY <1>3, <2>2, <2>3, <2>4 DEF CreateOrder
<1>4. ASSUME NEW u \in Users, u = Field(i).key, Field(i).kind \in {"createUser", "updateUser"},
             Grows, users'[u] \in 1 .. MaxVersion,
             NEW version \in {users[u], users'[u]}, version > 0, Resolved(i, User(u, version))
      PROVE  IInv'
  <2>1. list'[i] = User(u, version) /\ field'[i].at = "resolved"
    BY <1>2, <1>4 DEF Resolved, At, Types
  <2>2. version \in 1 .. MaxVersion /\ version >= start[u] /\ version <= users'[u]
         /\ start[u] \in Nat
    BY <1>2, <1>4, Tables DEF Grows
  <2>3. Right(i)'
    BY <1>2, <1>4, <2>1, <2>2 DEF Right, User, Fresh, OfOrder, OfUser
  <2> QED BY <1>1, <1>4, <2>3, Resolving
<1>5. Field(i).kind \in OfUser => Field(i).key \in Users /\ users[Field(i).key] \in 0 .. MaxVersion
  BY <1>2, Asked, Tables
<1>6. CASE CreateUser(i)
  <2> DEFINE u == Field(i).key
  <2>1. Field(i).kind = "createUser" /\ u \in Users /\ users[u] \in 0 .. MaxVersion
    BY <1>5, <1>6 DEF CreateUser, Called, OfUser
  <2>2. Resolved(i, User(u, users'[u]))
    BY <1>6 DEF CreateUser
  <2>3. CASE Stored(u)
    BY <1>2, <1>4, <2>1, <2>2, <2>3, Stores
  <2>4. CASE users[u] # 0 /\ UNCHANGED <<users, orders>>
    BY <1>2, <1>4, <2>1, <2>2, <2>4, Still
  <2> QED BY <1>6, <2>3, <2>4 DEF CreateUser
<1>7. CASE UpdateUser(i)
  <2> DEFINE u == Field(i).key
  <2>1. Field(i).kind = "updateUser" /\ u \in Users /\ users[u] \in 0 .. MaxVersion
    BY <1>5, <1>7 DEF UpdateUser, Called, OfUser
  <2>2. CASE FailsWith(i, "unknown") /\ UNCHANGED <<users, orders>>
    BY <1>1, <1>2, <2>1, <2>2, Still, Failing
  <2>3. CASE Stored(u) /\ Resolved(i, User(u, users'[u]))
    BY <1>2, <1>4, <2>1, <2>3, Stores
  <2> QED BY <1>7, <2>2, <2>3 DEF UpdateUser
<1>8. CASE UpdateLost(i)
  <2> DEFINE u == Field(i).key
  <2>1. /\ Field(i).kind = "updateUser" /\ u \in Users /\ users[u] \in 1 .. MaxVersion
        /\ Resolved(i, User(u, users[u])) /\ UNCHANGED <<users, orders>>
    BY <1>5, <1>8 DEF UpdateLost, Called, OfUser
  <2> QED BY <1>2, <1>4, <2>1, Still
<1> QED BY <1>3, <1>6, <1>7, <1>8

LEMMA WriteFailsKeeps ==
  ASSUME IInv, NEW i \in Here, WriteFails(i)
  PROVE  IInv'
<1>1. /\ UNCHANGED <<client, userLoader, orderLoader>> /\ Turn(i)
      /\ FailsWith(i, "failed") /\ "failed" \in Errors
  BY DEF WriteFails, Called, Errors
<1>2. Types /\ Loaders
  BY DEF IInv
<1>3. Grows
  <2>1. Field(i).kind = "createOrder" => Field(i).key \in Orders
    BY <1>2, Asked DEF OfOrder
  <2>2. Field(i).kind \in {"createUser", "updateUser"} => Field(i).key \in Users
    BY <1>2, Asked DEF OfUser
  <2> QED BY <1>2, <2>1, <2>2, Still, Creates, Stores DEF WriteFails, Called
<1> QED BY <1>1, <1>3, Failing

LEMMA ReadsKeep ==
  ASSUME IInv, NEW i \in Here,
         \/ RejectInput(i) \/ GetPayment(i) \/ GetUser(i) \/ ListUsers(i) \/ ReadFails(i)
         \/ UnknownType(i)
  PROVE  IInv'
<1>1. UNCHANGED <<users, orders, client, userLoader, orderLoader>> /\ Turn(i)
  BY DEF RejectInput, GetPayment, GetUser, ListUsers, ReadFails, UnknownType, Called
<1>2. /\ Types /\ Loaders /\ Grows /\ Field(i)' = Field(i) /\ start' = start
      /\ {"input", "failed", "unknown"} \subseteq Errors
  BY <1>1, Still DEF IInv, Field, client, Errors
<1>3. CASE \E why \in {"input", "failed"} : FailsWith(i, why)
  BY <1>1, <1>2, <1>3, Failing
<1>4. CASE FailsWith(i, "unknown") /\ Field(i).kind # "createOrder"
  BY <1>1, <1>2, <1>4, Failing
<1>5. ASSUME NEW value, Resolved(i, value)
      PROVE  list'[i] = value /\ field'[i].at = "resolved"
  BY <1>2, <1>5 DEF Resolved, At, Types
<1>6. CASE Field(i).kind \in {"payment", "Payment"} /\ Resolved(i, Payment)
  <2>1. Right(i)'
    BY <1>2, <1>5, <1>6 DEF Right, OfOrder, OfUser, Payment
  <2> QED BY <1>1, <1>2, <1>6, <2>1, Resolving
<1>7. CASE Field(i).kind = "users" /\ Resolved(i, AllUsers)
  <2>1. \A u \in Users : Fresh(u, users[u])'
    BY <1>1, <1>2, Tables DEF Fresh
  <2>2. list'[i].of = "Users" /\ list'[i].versions = users
    BY <1>5, <1>7 DEF AllUsers
  <2>3. Right(i)'
    BY <1>1, <1>2, <1>7, <2>1, <2>2 DEF Right, OfOrder, OfUser
  <2> QED BY <1>1, <1>2, <1>7, <2>3, Resolving
<1>8. CASE /\ Field(i).kind = "user" /\ users[Field(i).key] # 0
           /\ Resolved(i, User(Field(i).key, users[Field(i).key]))
  <2> DEFINE u == Field(i).key
  <2>1. u \in Users /\ users[u] \in 1 .. MaxVersion
    BY <1>2, <1>8, Asked, Tables, GraphqlRequestAssumption DEF OfUser
  <2>2. Fresh(u, users[u])'
    BY <1>1, <1>2, <2>1, Tables DEF Fresh
  <2>3. list'[i] = User(u, users[u])
    BY <1>5, <1>8
  <2>4. Right(i)'
    BY <1>1, <1>2, <1>8, <2>1, <2>2, <2>3 DEF Right, User, OfOrder, OfUser
  <2> QED BY <1>1, <1>2, <1>8, <2>4, Resolving
<1> QED BY <1>3, <1>4, <1>6, <1>7, <1>8
        DEF RejectInput, GetPayment, GetUser, ListUsers, ReadFails, UnknownType, Called
-----------------------------------------------------------------------------
(* Fields that load.                                                       *)

LEMMA LoadsKeep ==
  ASSUME IInv, NEW i \in Here, LoadOrder(i) \/ LoadUser(i) \/ LoadCustomer(i)
  PROVE  IInv'
<1>1. UNCHANGED <<client, list>> /\ i \in Positions /\ NoOrders' = NoOrders
  BY Asked DEF LoadOrder, LoadUser, LoadCustomer, IInv, NoOrders
<1>2. Types /\ Loaders /\ Field(i)' = Field(i) /\ start' = start
  BY <1>1 DEF IInv, Field, client
<1>3. ASSUME NEW stage \in Stages, At(i, stage)
      PROVE  /\ field' \in [Here -> [at : Stages, error : Errors]]
             /\ field'[i].at = stage /\ field'[i].error = field[i].error
             /\ \A j \in Here : j # i => field'[j] = field[j]
  BY <1>2, <1>3 DEF At, Types
<1>4. \A j \in Here : j \in Positions
  BY <1>2, Asked
<1>5. ASSUME Right(i), field'[i].at # "done", UNCHANGED <<users, list>> PROVE Right(i)'
  BY <1>2, <1>5 DEF Right, Fresh
<1>6. CASE LoadOrder(i)
  <2> DEFINE o == Field(i).key
  <2>1. /\ Turn(i) /\ Field(i).kind \in {"order", "Order"} /\ o \in Orders
        /\ OrderL!Load(i, o) /\ At(i, "loading")
        /\ UNCHANGED <<users, userLoader>>
    BY <1>2, <1>6, Asked, OrderLoads DEF LoadOrder, Called, OfOrder
  <2>2. OrderL!LoaderInv' /\ ocall'[i] # OrderL!Idle /\ ocall'[i].key = o
        /\ \A j \in Here : j # i => ocall'[j] = ocall[j]
    BY <1>1, <1>2, <1>4, <2>1, SizesOK, OrderL!LoadKeeps DEF Loaders
  <2>3. UNCHANGED orders
    BY <2>1 DEF OrderL!Load, OrderL!LoadCached, OrderL!JoinBatch
  <2>4. Grows /\ Loaders'
    <3>1. users' \in [Users -> 0 .. MaxVersion] /\ \A u \in Users : users[u] <= users'[u]
      BY <1>2, <2>1, Tables
    <3>2. UserL!LoaderInv'
      BY <1>2, <2>1, <3>1, SizesOK, UserL!TableGrows DEF Loaders, userLoader
    <3> QED BY <1>2, <2>1, <2>2, <2>3, <3>2, Still DEF Loaders
  <2>5. field'[i].at = "loading" /\ "loading" \in Stages
    BY <1>3, <2>1 DEF Stages
  <2>6. list[i] = Null
    BY <2>1 DEF IInv, Fields, FieldInv, Turn
  <2>7. FieldInv(i)'
    BY <1>1, <1>2, <2>1, <2>2, <2>5, <2>6 DEF FieldInv, Asks, OfOrder, OfUser, OrderL!Idle, Null
  <2> QED BY <1>1, <1>3, <2>1, <2>2, <2>4, <2>5, <2>6, <2>7, FieldKeeps DEF userLoader
<1>7. ASSUME NEW u \in Users, UserL!Load(i, u), UNCHANGED <<orders, orderLoader>>
      PROVE  /\ Grows /\ Loaders' /\ ucall'[i] # UserL!Idle /\ ucall'[i].key = u
             /\ UNCHANGED users /\ \A j \in Here : j # i => ucall'[j] = ucall[j]
  <2>1. UserL!LoaderInv' /\ ucall'[i] # UserL!Idle /\ ucall'[i].key = u
        /\ \A j \in Here : j # i => ucall'[j] = ucall[j]
    BY <1>1, <1>2, <1>4, <1>7, SizesOK, UserL!LoadKeeps DEF Loaders
  <2>2. UNCHANGED users
    BY <1>7 DEF UserL!Load, UserL!LoadCached, UserL!JoinBatch
  <2>3. OrderL!LoaderInv'
    <3>1. orders' \in [Orders -> 0 .. MaxVersion] /\ \A o \in Orders : orders[o] <= orders'[o]
      BY <1>2, <1>7, Tables
    <3> QED BY <1>1, <1>2, <1>7, <3>1, SizesOK, OrderL!TableGrows DEF Loaders, orderLoader
  <2> QED BY <1>2, <1>7, <2>1, <2>2, <2>3, Still DEF Loaders
<1>8. CASE LoadUser(i)
  <2> DEFINE u == Field(i).key
  <2>1. /\ Turn(i) /\ Field(i).kind = "User" /\ u \in Users
        /\ UserL!Load(i, u) /\ At(i, "loading")
        /\ UNCHANGED <<orders, orderLoader>>
    BY <1>2, <1>8, Asked, UserLoads DEF LoadUser, Called, OfUser
  <2>2. field'[i].at = "loading" /\ "loading" \in Stages
    BY <1>3, <2>1 DEF Stages
  <2>3. list[i] = Null
    BY <2>1 DEF IInv, Fields, FieldInv, Turn
  <2>4. FieldInv(i)'
    BY <1>1, <1>2, <1>7, <2>1, <2>2, <2>3 DEF FieldInv, Asks, OfOrder, OfUser, UserL!Idle, Null
  <2> QED BY <1>1, <1>3, <1>7, <2>1, <2>2, <2>3, <2>4, FieldKeeps DEF orderLoader
<1>9. CASE LoadCustomer(i)
  <2> DEFINE u == CustomerOf[Field(i).key]
  <2>1. /\ field[i].at = "resolved" /\ list[i].of = "Order" /\ At(i, "customer")
        /\ UserByID!Load(i, CustomerOf[list[i].key]) /\ UNCHANGED <<orders, orderLoader>>
    BY <1>9 DEF LoadCustomer, MarshalTurn, WantsCustomer
  <2>2. list[i] # Null /\ Right(i)
    BY <2>1 DEF IInv, Fields, FieldInv, Null
  <2>3. Field(i).kind \in OfOrder /\ list[i].key = Field(i).key
    BY <1>2, <2>1, <2>2, Asked DEF Right, User, Payment
  <2>4. u \in Users /\ UserL!Load(i, u)
    BY <1>2, <2>1, <2>3, Asked, UserLoads
  <2>5. field'[i].at = "customer" /\ "customer" \in Stages
    BY <1>3, <2>1 DEF Stages
  <2>6. FieldInv(i)'
    BY <1>1, <1>2, <1>5, <1>7, <2>1, <2>2, <2>3, <2>4, <2>5 DEF FieldInv, Asks, UserL!Idle, Null
  <2>7. Field(i).kind = "createUser" => ~(Field(i).kind \in OfOrder)
    BY DEF OfOrder
  <2> QED BY <1>1, <1>3, <1>7, <2>1, <2>3, <2>4, <2>5, <2>6, <2>7, FieldKeeps DEF orderLoader
<1> QED BY <1>6, <1>8, <1>9

LEMMA LoadedKeep ==
  ASSUME IInv, NEW i \in Here, OrderLoaded(i) \/ UserLoaded(i)
  PROVE  IInv'
<1>1. /\ UNCHANGED <<users, orders, client, userLoader, orderLoader>>
      /\ field[i].at = "loading" /\ "failed" \in Errors /\ i \in Positions
  BY Asked DEF OrderLoaded, UserLoaded, Errors, IInv
<1>2. Types /\ Loaders /\ Grows /\ Field(i)' = Field(i) /\ start' = start
  BY <1>1, Still DEF IInv, Field, client
<1>3. CASE FailsWith(i, "failed")
  BY <1>1, <1>2, <1>3, Failing
<1>4. ASSUME NEW value, Resolved(i, value)
      PROVE  list'[i] = value /\ field'[i].at = "resolved"
  BY <1>2, <1>4 DEF Resolved, At, Types
<1>5. CASE OrderLoaded(i) /\ ocall[i].got # OrderL!NoValue
  <2>1. /\ Field(i).kind \in OfOrder /\ ocall[i].at = "returned"
        /\ Resolved(i, Order(ocall[i].got.key))
    BY <1>5 DEF OrderLoaded, OrderByID!NoValue, OrderL!NoValue
  <2>2. ocall[i].key = Field(i).key
    BY <1>1, <2>1 DEF IInv, Fields, FieldInv, Asks
  <2>3. ocall[i].got.key = Field(i).key
    BY <1>1, <1>2, <1>5, <2>1, <2>2, OrderL!Got DEF Loaders, OrderL!Version
  <2>4. Right(i)'
    BY <1>2, <1>4, <2>1, <2>3 DEF Right, Order, OfOrder, OfUser
  <2>5. Field(i).kind # "createUser"
    BY <2>1 DEF OfOrder
  <2> QED BY <1>1, <1>2, <2>1, <2>4, <2>5, Resolving
<1>6. CASE UserLoaded(i) /\ ucall[i].got # UserL!NoValue
  <2> DEFINE u == Field(i).key
  <2>1. /\ Field(i).kind \in OfUser /\ ucall[i].at = "returned" /\ u \in Users
        /\ Resolved(i, User(ucall[i].got.key, ucall[i].got.version))
    BY <1>2, <1>6, Asked DEF UserLoaded, UserByID!NoValue, UserL!NoValue
  <2>2. ucall[i].key = u
    BY <1>1, <2>1 DEF IInv, Fields, FieldInv, Asks
  <2>3. UserL!Version(u, ucall[i].got)
    BY <1>1, <1>2, <1>6, <2>1, <2>2, UserL!Got DEF Loaders
  <2>4. /\ ucall[i].got.key = u /\ ucall[i].got.version \in 1 .. MaxVersion
        /\ ucall[i].got.version \in start[u] .. users[u]
    BY <1>2, <2>1, <2>3, Tables, GraphqlRequestAssumption DEF UserL!Version, UserL!Value
  <2>5. list'[i] = User(u, ucall[i].got.version)
    BY <1>4, <2>1, <2>4
  <2>6. Right(i)'
    BY <1>1, <1>2, <2>1, <2>4, <2>5 DEF Right, User, Fresh, OfOrder, OfUser
  <2>7. Field(i).kind = "createUser" => users'[u] > 0
    BY <1>1, <2>1, <2>4, <1>2, Tables
  <2> QED BY <1>1, <1>2, <2>1, <2>6, <2>7, Resolving
<1> QED BY <1>3, <1>5, <1>6 DEF OrderLoaded, UserLoaded, OrderByID!NoValue, OrderL!NoValue,
           UserByID!NoValue, UserL!NoValue

-----------------------------------------------------------------------------
(* Marshalling.                                                            *)

LEMMA MarshalKeeps ==
  ASSUME IInv, NEW i \in Here, Marshal(i)
  PROVE  IInv'
<1>1. /\ UNCHANGED <<users, orders, list, client, userLoader, orderLoader>>
      /\ field[i].at = "resolved" /\ ~WantsCustomer(i) /\ At(i, "done")
  BY DEF Marshal, MarshalTurn
<1>2. /\ Types /\ Loaders /\ Grows /\ Loaders' /\ Field(i)' = Field(i) /\ start' = start
  BY <1>1, Still, LoadersKept DEF IInv, Field, client
<1>3. /\ field' \in [Here -> [at : Stages, error : Errors]]
      /\ field'[i].at = "done" /\ field'[i].error = field[i].error
      /\ \A j \in Here : j # i => field'[j] = field[j]
  BY <1>1, <1>2 DEF At, Types, Stages
<1>4. list[i] = Null \/ Right(i)
  BY DEF IInv, Fields, FieldInv
<1>5. ASSUME Right(i) PROVE Right(i)'
  <2>1. ~(Field(i).kind \in OfOrder /\ Field(i).customer)
    BY <1>1, <1>5 DEF WantsCustomer, Right
  <2> QED BY <1>1, <1>2, <1>5, <2>1 DEF Right, Fresh
<1>6. FieldInv(i)'
  BY <1>1, <1>3, <1>4, <1>5 DEF FieldInv, Asks, Null
<1>7. request.op = "mutation" /\ Field(i).kind = "createUser" /\ list'[i] # Null =>
        users'[Field(i).key] > 0
  BY <1>1 DEF IInv, Client, MadeUsers
<1> QED BY <1>1, <1>2, <1>3, <1>6, <1>7, FieldKeeps DEF userLoader, orderLoader

LEMMA CustomerLoadedKeeps ==
  ASSUME IInv, NEW i \in Here, CustomerLoaded(i)
  PROVE  IInv'
<1>1. /\ UNCHANGED <<users, orders, client, userLoader, orderLoader>>
      /\ field[i].at = "customer" /\ ucall[i].at = "returned" /\ i \in Positions
  BY Asked DEF CustomerLoaded, IInv
<1>2. /\ Types /\ Loaders /\ Grows /\ Loaders' /\ Field(i)' = Field(i) /\ start' = start
  BY <1>1, Still, LoadersKept DEF IInv, Field, client
<1>3. /\ list[i] # Null /\ Right(i) /\ Field(i).kind \in OfOrder
      /\ ucall[i].key = CustomerOf[Field(i).key]
  BY <1>1 DEF IInv, Fields, FieldInv, Asks
<1>4. Field(i).kind # "createUser"
  BY <1>3 DEF OfOrder
<1>5. CASE ucall[i].got = UserL!NoValue
  <2>1. /\ list' = [list EXCEPT ![i] = Null]
        /\ field' = [field EXCEPT ![i] = [at |-> "done", error |-> "failed"]]
    BY <1>5 DEF CustomerLoaded, UserByID!NoValue, UserL!NoValue
  <2>2. /\ field' \in [Here -> [at : Stages, error : Errors]]
        /\ field'[i].at = "done" /\ field'[i].error = "failed" /\ list'[i] = Null
        /\ DOMAIN list' = DOMAIN list
        /\ \A j \in Here : j # i => field'[j] = field[j] /\ list'[j] = list[j]
    BY <1>2, <2>1 DEF Types, Stages, Errors
  <2>3. FieldInv(i)'
    BY <2>2 DEF FieldInv, Asks, Null
  <2> QED BY <1>1, <1>2, <1>4, <2>2, <2>3, FieldKeeps DEF userLoader, orderLoader
<1>6. CASE ucall[i].got # UserL!NoValue
  <2> DEFINE got == ucall[i].got
             u   == CustomerOf[Field(i).key]
  <2>1. list' = [list EXCEPT ![i].customer = got] /\ At(i, "done")
    BY <1>6 DEF CustomerLoaded, UserByID!NoValue, UserL!NoValue
  <2>2. /\ field' \in [Here -> [at : Stages, error : Errors]]
        /\ field'[i].at = "done" /\ field'[i].error = field[i].error
        /\ DOMAIN list' = DOMAIN list
        /\ \A j \in Here : j # i => field'[j] = field[j] /\ list'[j] = list[j]
    BY <1>2, <2>1 DEF Types, Stages, At
  <2>3. list'[i] = [of |-> "Order", key |-> Field(i).key, customer |-> got]
    <3>1. list[i] = [of |-> "Order", key |-> Field(i).key, customer |-> list[i].customer]
      BY <1>3 DEF Right
    <3>2. list'[i] = [list[i] EXCEPT !.customer = got]
      BY <1>2, <2>1 DEF Types
    <3> QED BY <3>1, <3>2
  <2>4. u \in Users
    BY <1>2, <1>3, Asked
  <2>5. UserL!Version(u, got)
    BY <1>1, <1>2, <1>3, <1>6, UserL!Got DEF Loaders
  <2>6. got.key = u /\ got.version \in start[u] .. users[u]
    BY <1>2, <2>4, <2>5, Tables, GraphqlRequestAssumption DEF UserL!Version, UserL!Value
  <2>7. Right(i)'
    BY <1>1, <1>2, <1>3, <2>3, <2>6 DEF Right, Fresh, OfOrder, OfUser
  <2>8. FieldInv(i)'
    BY <2>2, <2>7 DEF FieldInv, Asks
  <2> QED BY <1>1, <1>2, <1>4, <2>2, <2>8, FieldKeeps DEF userLoader, orderLoader
<1> QED BY <1>5, <1>6
-----------------------------------------------------------------------------
(* The request, and what happens behind its fields.                        *)

LEMMA BeginKeeps ==
  ASSUME IInv, NEW doc \in Documents, Begin(doc)
  PROVE  IInv'
<1> USE GraphqlRequestAssumption
<1>1. /\ request' = doc /\ Here' = DOMAIN doc.fields /\ UNCHANGED <<users, orders>> /\ start' = users
      /\ field' = [i \in Here' |-> [at |-> "waiting", error |-> "none"]]
      /\ list' = [i \in Here' |-> Null]
      /\ answer' = NoAnswer /\ served' = served + 1 /\ writes' = 0 /\ served < MaxRequests
  BY DEF Begin, Here
<1>2. Types'
  <2>1. field' \in [Here' -> [at : Stages, error : Errors]]
    BY <1>1 DEF Stages, Errors
  <2>2. served' \in 0 .. MaxRequests /\ writes' \in 0 .. MaxWrites
    BY <1>1 DEF IInv, Types
  <2> QED BY <1>1, <2>1, <2>2 DEF Types, IInv
<1>3. Loaders'
  <2>1. users \in [Users -> 0 .. MaxVersion] /\ orders \in [Orders -> 0 .. MaxVersion]
    BY Tables DEF IInv
  <2>2. UserL!TableInv'
    BY <1>1, <2>1 DEF UserL!TableInv
  <2>3. OrderL!TableInv'
    BY <1>1, <2>1 DEF OrderL!TableInv, NoOrders
  <2>4. UserL!NewLoader /\ OrderL!NewLoader
    BY NewLoaders DEF Begin
  <2> QED BY <2>2, <2>3, <2>4, SizesOK, UserL!Made, OrderL!Made DEF Loaders
<1>4. \A i \in Here' : /\ field'[i].at = "waiting" /\ field'[i].error = "none"
                       /\ list'[i] = Null
  BY <1>1
<1>5. Fields'
  <2> SUFFICES ASSUME NEW i \in Here' PROVE FieldInv(i)'
    BY DEF Fields
  <2> QED BY <1>4 DEF FieldInv, Asks
<1>6. Client'
  BY <1>1, <1>4 DEF Client, InTurn, MadeUsers, MutationsSerial, AnswerInv, NoAnswer, Null
<1> QED BY <1>2, <1>3, <1>5, <1>6 DEF IInv

LEMMA RespondKeeps ==
  ASSUME IInv, Respond
  PROVE  IInv'
<1>1. /\ UNCHANGED <<users, orders, field, list, request, start, served, writes, userLoader, orderLoader>>
      /\ Here' = Here /\ \A j : Field(j)' = Field(j)
  BY DEF Respond, progress, Here, Field
<1>2. Types /\ Loaders /\ Grows
  BY <1>1, Still DEF IInv
<1>3. Types' /\ Loaders'
  BY <1>1, <1>2, LoadersKept DEF Types
<1>4. Fields'
  BY <1>1, <1>2, OthersRight DEF IInv, Fields, userLoader, orderLoader
<1>5. InTurn' /\ MadeUsers' /\ MutationsSerial'
  BY <1>1 DEF IInv, Client, InTurn, MadeUsers, MutationsSerial
<1>6. AnswerInv'
  BY <1>1 DEF Respond, AnswerInv, NonNull, Null
<1> QED BY <1>3, <1>4, <1>5, <1>6 DEF IInv, Client

(* No field moves.                                                         *)
LEMMA Behind ==
  ASSUME IInv, Grows, Loaders', UNCHANGED <<progress, request, start, answer, served>>,
         writes' \in 0 .. MaxWrites,
         \A j \in Here :
           /\ ocall[j] # OrderL!Idle => ocall'[j] # OrderL!Idle /\ ocall'[j].key = ocall[j].key
           /\ ucall[j] # UserL!Idle => ucall'[j] # UserL!Idle /\ ucall'[j].key = ucall[j].key
  PROVE  IInv'
<1>1. UNCHANGED <<field, list>> /\ Here' = Here /\ \A j : Field(j)' = Field(j)
  BY DEF progress, Here, Field
<1>2. Types'
  BY <1>1 DEF IInv, Types, Grows
<1>3. Fields'
  BY <1>1, OthersRight DEF IInv, Fields
<1>4. InTurn' /\ MutationsSerial' /\ AnswerInv'
  BY <1>1 DEF IInv, Client, InTurn, MutationsSerial, AnswerInv, NonNull
<1>5. MadeUsers'
  <2> SUFFICES ASSUME request.op = "mutation", NEW i \in Here,
                      Field(i).kind = "createUser", list[i] # Null
               PROVE  users'[Field(i).key] > 0
    BY <1>1 DEF MadeUsers
  <2>1. Field(i).key \in Users
    BY Asked DEF IInv, OfUser
  <2> QED BY <2>1, Tables DEF IInv, Client, MadeUsers, Grows
<1> QED BY <1>2, <1>3, <1>4, <1>5 DEF IInv, Client

LEMMA OtherWriteKeeps ==
  ASSUME IInv, OtherWrite
  PROVE  IInv'
<1>1. /\ UNCHANGED <<progress, request, start, answer, served, userLoader, orderLoader>>
      /\ writes' \in 0 .. MaxWrites
  BY GraphqlRequestAssumption DEF OtherWrite, IInv, Types
<1>2. Types /\ Loaders
  BY DEF IInv
<1>3. Grows
  BY <1>2, Creates, Stores DEF OtherWrite
<1>4. Loaders'
  BY <1>1, <1>2, <1>3, LoadersKept
<1> QED BY <1>1, <1>3, <1>4, Behind DEF userLoader, orderLoader

LEMMA LoaderStepsKeep ==
  ASSUME IInv,
         \/ \E i \in Here : UserLoaderReturns(i) \/ OrderLoaderReturns(i)
         \/ \E b \in Positions : UserBatchStep(b) \/ OrderBatchStep(b)
  PROVE  IInv'
<1>1. Types /\ Loaders /\ NoOrders' = NoOrders /\ \A j \in Here : j \in Positions
  BY Asked DEF IInv, NoOrders
<1>2. writes \in 0 .. MaxWrites
  BY <1>1 DEF Types
(* The user loader moves, the order loader does not.                       *)
<1>3. ASSUME UserL!LoaderInv', UNCHANGED <<users, orders, progress, client, orderLoader>>,
             \A j \in Positions :
               ucall[j] # UserL!Idle => ucall'[j] # UserL!Idle /\ ucall'[j].key = ucall[j].key
      PROVE  IInv'
  <2>1. Grows
    BY <1>1, <1>3, Still
  <2>2. OrderL!LoaderInv'
    <3>1. orders' \in [Orders -> 0 .. MaxVersion] /\ \A o \in Orders : orders[o] <= orders'[o]
      BY <1>1, <1>3, Tables
    <3> QED BY <1>1, <1>3, <3>1, SizesOK, OrderL!TableGrows DEF Loaders, orderLoader
  <2> QED BY <1>1, <1>2, <1>3, <2>1, <2>2, Behind DEF Loaders, client, orderLoader
<1>4. ASSUME OrderL!LoaderInv', UNCHANGED <<users, orders, progress, client, userLoader>>,
             \A j \in Positions :
               ocall[j] # OrderL!Idle => ocall'[j] # OrderL!Idle /\ ocall'[j].key = ocall[j].key
      PROVE  IInv'
  <2>1. Grows
    BY <1>1, <1>4, Still
  <2>2. UserL!LoaderInv'
    <3>1. users' \in [Users -> 0 .. MaxVersion] /\ \A u \in Users : users[u] <= users'[u]
      BY <1>1, <1>4, Tables
    <3> QED BY <1>1, <1>4, <3>1, SizesOK, UserL!TableGrows DEF Loaders, userLoader, client
  <2> QED BY <1>1, <1>2, <1>4, <2>1, <2>2, Behind DEF Loaders, client, userLoader
<1>5. ASSUME NEW i \in Here, UserLoaderReturns(i) PROVE IInv'
  <2>1. /\ UserL!Return(i) /\ UNCHANGED <<orders, progress, client, orderLoader>>
        /\ UNCHANGED start
    BY <1>5, UserReturns DEF UserLoaderReturns, client
  <2>2. UNCHANGED users
    BY <2>1 DEF UserL!Return
  <2> QED BY <1>1, <1>3, <2>1, <2>2, SizesOK, UserL!CallReturns DEF Loaders
<1>6. ASSUME NEW i \in Here, OrderLoaderReturns(i) PROVE IInv'
  <2>1. OrderL!Return(i) /\ UNCHANGED <<users, progress, client, userLoader>>
    BY <1>6, OrderReturns DEF OrderLoaderReturns
  <2>2. UNCHANGED orders
    BY <2>1 DEF OrderL!Return
  <2> QED BY <1>1, <1>4, <2>1, <2>2, SizesOK, OrderL!CallReturns DEF Loaders
<1>7. ASSUME NEW b \in Positions, UserBatchStep(b) PROVE IInv'
  <2>1. /\ UserL!BatchStep(b) /\ b \in DOMAIN ubatches
        /\ UNCHANGED <<orders, progress, client, orderLoader>> /\ UNCHANGED start
    BY <1>7, UserBatchSteps DEF UserBatchStep, client
  <2>2. UNCHANGED users
    BY <2>1 DEF UserL!BatchStep, UserL!TimerFires, UserL!Fetch
  <2> QED BY <1>1, <1>3, <2>1, <2>2, SizesOK, UserL!BatchStepKeeps DEF Loaders
<1>8. ASSUME NEW b \in Positions, OrderBatchStep(b) PROVE IInv'
  <2>1. /\ OrderL!BatchStep(b) /\ b \in DOMAIN obatches
        /\ UNCHANGED <<users, progress, client, userLoader>>
    BY <1>8, OrderBatchSteps DEF OrderBatchStep
  <2>2. UNCHANGED orders
    BY <2>1 DEF OrderL!BatchStep, OrderL!TimerFires, OrderL!Fetch
  <2> QED BY <1>1, <1>4, <2>1, <2>2, SizesOK, OrderL!BatchStepKeeps DEF Loaders
<1> QED BY <1>5, <1>6, <1>7, <1>8

-----------------------------------------------------------------------------
(* The theorems.                                                           *)

LEMMA NextKeeps == IInv /\ [Next]_vars => IInv'
<1> SUFFICES ASSUME IInv, [Next]_vars PROVE IInv'
  OBVIOUS
<1>1. CASE UNCHANGED vars
  <2>1. /\ UNCHANGED <<users, orders, progress, request, start, answer, served, writes,
                       userLoader, orderLoader>>
    BY <1>1 DEF vars, client
  <2>2. Types /\ Loaders /\ Grows /\ writes \in 0 .. MaxWrites
    BY <2>1, Still DEF IInv, Types
  <2>3. Loaders'
    BY <2>1, <2>2, LoadersKept
  <2> QED BY <2>1, <2>2, <2>3, Behind DEF userLoader, orderLoader
<1>2. ASSUME NEW i \in Here, FieldStep(i) PROVE IInv'
  BY <1>2, MutationsKeep, WriteFailsKeeps, ReadsKeep, LoadsKeep, LoadedKeep, MarshalKeeps,
     CustomerLoadedKeeps DEF FieldStep, Resolve
<1>3. CASE Next
  BY <1>2, <1>3, BeginKeeps, RespondKeeps, OtherWriteKeeps, LoaderStepsKeep DEF Next
<1> QED BY <1>1, <1>3

(* Whatever the executor, the loaders and other requests do, every         *)
(* variable keeps its type.                                                *)
THEOREM RequestTypesOK == Spec => []TypeOK
<1>1. IInv => TypeOK
  BY InvImplies
<1> QED BY <1>1, InitInv, NextKeeps, PTL DEF Spec

(* orderloader_gen.go 88-111: a load returns the entity of its own key, as *)
(* it was at some moment of the call unless the cache had it, or an error, *)
(* and no error is remembered; for any limit of a batch.                   *)
THEOREM LoadsOwn == Spec => []OwnResult
<1>1. IInv => OwnResult
  BY InvImplies
<1> QED BY <1>1, InitInv, NextKeeps, PTL DEF Spec

(* orderloader_gen.go 179-224: whoever of the limit and the timer ends a   *)
(* batch, it is fetched once, and nobody joins it then.                    *)
THEOREM FetchedOnce == Spec => []BatchFetchedOnce
<1>1. IInv => BatchFetchedOnce
  BY InvImplies
<1> QED BY <1>1, InitInv, NextKeeps, PTL DEF Spec

(* generated.go 4097-4188, federation.go 37-123: each position of an       *)
(* answer has the entity asked for there, an order its own customer, and   *)
(* none is older than the request.                                         *)
THEOREM OwnAnswers == Spec => []AnswersOwn
<1>1. IInv => AnswersOwn
  BY InvImplies
<1> QED BY <1>1, InitInv, NextKeeps, PTL DEF Spec

(* generated.go 4030-4072: no order is refused for want of a customer that *)
(* a field before it made.                                                 *)
THEOREM SerialMutations == Spec => []MutationsSerial
<1>1. IInv => MutationsSerial
  BY InvImplies
<1> QED BY <1>1, InitInv, NextKeeps, PTL DEF Spec
-----------------------------------------------------------------------------
(* What the claim that a mutation's answer shows its own updates needs.    *)

(* No user is changed between two orders of that user in one mutation.     *)
UnchangedBetween ==
  \A doc \in Documents : doc.op = "mutation" => \A h, i, j \in DOMAIN doc.fields :
    LET OrderOf(f, u) == /\ doc.fields[f].kind = "createOrder" /\ doc.fields[f].customer
                         /\ CustomerOf[doc.fields[f].key] = u
    IN  h < i /\ i < j /\ doc.fields[i].kind = "updateUser" =>
          ~ (OrderOf(h, doc.fields[i].key) /\ OrderOf(j, doc.fields[i].key))

(* A field answers an order with this customer.                            *)
Shows(h, u) ==
  Field(h).kind = "createOrder" /\ Field(h).customer /\ CustomerOf[Field(h).key] = u

(* A field has updated the customer that a later one answers.              *)
Updated(i, j) ==
  Field(i).kind = "updateUser" /\ list[i] # Null /\ i < j /\ Shows(j, Field(i).key)

(* The loader is asked for customers only, and knows of none but those; it *)
(* has nothing older of one than an update before answered.                *)
CustomersInv ==
  request.op = "mutation" =>
    /\ \A i \in Here : field[i].at # "loading"
    /\ \A u \in Users : UserL!Mentions(u) =>
         \E h \in Here : Shows(h, u) /\ field[h].at \in {"customer", "done"}
    /\ \A i, j \in Here : Updated(i, j) =>
         /\ UserL!AtLeast(Field(i).key, list[i].version)
         /\ field[j].at = "done" /\ list[j] # Null =>
              list[j].customer.version >= list[i].version

(* A mutation asks for customers of its orders only, in turn.              *)
LEMMA UsersOfMutation ==
  ASSUME IInv, request.op = "mutation", NEW i \in Here
  PROVE  /\ i \in Positions /\ i \in Nat
         /\ Field(i).kind \in OfOrder => Field(i).kind = "createOrder"
         /\ Field(i).kind \notin {"order", "Order", "user", "User"}
         /\ Field(i).kind \in OfUser => Field(i).key \in Users
         /\ \A j \in Here : i < j /\ field[j].at # "waiting" => field[i].at = "done"
<1>1. /\ Field(i).kind \in Kinds["mutation"] /\ i \in Positions /\ i \in Nat
      /\ Field(i).kind \in OfUser => Field(i).key \in Users
  BY Asked DEF IInv
<1>2. Field(i).kind \in {"createOrder", "createUser", "updateUser", "payment"}
  <2>1. Kinds["mutation"] = {"createOrder", "createUser", "updateUser", "payment"}
    BY DEF Kinds
  <2> QED BY <1>1, <2>1
<1>3. \A j \in Here : i < j /\ field[j].at # "waiting" => field[i].at = "done"
  BY DEF IInv, Client, InTurn
<1> QED BY <1>1, <1>2, <1>3 DEF OfOrder

(* No document asks for an order's customer before and after its update.   *)
LEMMA NotBetween ==
  ASSUME UnchangedBetween, IInv, request.op = "mutation",
         NEW h \in Here, NEW i \in Here, NEW j \in Here, h < i, i < j,
         Field(i).kind = "updateUser", Shows(h, Field(i).key), Shows(j, Field(i).key)
  PROVE  FALSE
<1>1. request \in Documents
  BY Asked DEF IInv
<1> QED BY <1>1 DEF UnchangedBetween, Shows, Field, Here

(* The loader of users stays as it is.                                     *)
LEMMA LoaderStays ==
  ASSUME UNCHANGED userLoader
  PROVE  /\ \A u : UserL!Mentions(u)' <=> UserL!Mentions(u)
         /\ \A u, v : UserL!AtLeast(u, v)' <=> UserL!AtLeast(u, v)
BY DEF userLoader, UserL!Mentions, UserL!AtLeast, UserL!Idle, UserL!NoValue

(* One field moves, and the loader of users does not.                      *)
LEMMA FieldMoves ==
  ASSUME UnchangedBetween, IInv, CustomersInv, UNCHANGED <<request, userLoader>>,
         request.op = "mutation", NEW i \in Here,
         \A j \in Here : j # i => field'[j] = field[j] /\ list'[j] = list[j],
         field[i].at # "done", field[i].at = "customer" => field'[i].at = "done",
         field'[i].at # "loading",
         Field(i).kind = "updateUser" /\ list'[i] # Null => Turn(i) \/ list'[i] = list[i],
         field'[i].at = "done" /\ list'[i] # Null /\ (\E u : Shows(i, u)) =>
           /\ ucall[i].at = "returned" /\ ucall[i].got # UserL!NoValue
           /\ list'[i].customer = ucall[i].got /\ ucall[i].key = CustomerOf[Field(i).key]
  PROVE  CustomersInv'
<1>1. /\ request' = request /\ Here' = Here /\ \A j : Field(j)' = Field(j)
      /\ \A j, u : Shows(j, u)' <=> Shows(j, u)
  BY DEF Here, Field, Shows
<1>2. ASSUME NEW u \in Users, UserL!Mentions(u)'
      PROVE  \E h \in Here : Shows(h, u) /\ field'[h].at \in {"customer", "done"}
  <2>1. PICK h \in Here : Shows(h, u) /\ field[h].at \in {"customer", "done"}
    BY <1>2, LoaderStays DEF CustomersInv
  <2> QED BY <2>1
<1>3. ASSUME NEW a \in Here, NEW b \in Here, Field(a).kind = "updateUser", list'[a] # Null,
             a < b, Shows(b, Field(a).key)
      PROVE  /\ UserL!AtLeast(Field(a).key, list[a].version)'
             /\ field'[b].at = "done" /\ list'[b] # Null =>
                  list'[b].customer.version >= list'[a].version
  <2>1. a # b
    BY <1>3, UsersOfMutation
  <2>2. CASE list'[a] = list[a]
    <3>1. /\ UserL!AtLeast(Field(a).key, list[a].version)
          /\ field[b].at = "done" /\ list[b] # Null => list[b].customer.version >= list[a].version
      BY <1>3, <2>2 DEF CustomersInv, Updated
    <3>2. ASSUME b = i, field'[b].at = "done", list'[b] # Null
          PROVE  list'[b].customer.version >= list'[a].version
      <4>1. /\ ucall[i].at = "returned" /\ ucall[i].got # UserL!NoValue
            /\ list'[i].customer = ucall[i].got /\ ucall[i].key = Field(a).key
        BY <1>3, <3>2 DEF Shows
      <4>2. ucall[i].got.version >= list[a].version
        BY <3>1, <4>1, UsersOfMutation DEF UserL!AtLeast
      <4> QED BY <2>2, <3>2, <4>1, <4>2
    <3>3. UserL!AtLeast(Field(a).key, list[a].version)'
      BY <1>1, <2>2, <3>1, LoaderStays
    <3>4. b # i => field'[b] = field[b] /\ list'[b] = list[b]
      OBVIOUS
    <3> QED BY <2>2, <3>1, <3>2, <3>3, <3>4
  <2>3. CASE list'[a] # list[a]
    <3>1. a = i /\ Turn(i)
      BY <1>3, <2>3
    <3>2. field[b].at = "waiting" /\ field'[b] = field[b]
      BY <1>3, <2>1, <3>1, UsersOfMutation
    <3>3. Field(a).key \in Users
      BY <1>3, UsersOfMutation DEF OfUser
    <3>4. ~ UserL!Mentions(Field(a).key)
      <4> SUFFICES ASSUME UserL!Mentions(Field(a).key)
                   PROVE  FALSE
        OBVIOUS
      <4>1. PICK h \in Here : Shows(h, Field(a).key) /\ field[h].at \in {"customer", "done"}
        BY <3>3 DEF CustomersInv
      <4>2. h # i
        BY <1>3, <3>1, <4>1 DEF Shows
      <4>3. field[i].at = "waiting"
        BY <3>1 DEF Turn
      <4>4. ~ (i < h)
        BY <4>1, <4>3, UsersOfMutation
      <4>5. h < i
        BY <4>2, <4>4, UsersOfMutation
      <4>6. /\ Field(i).kind = "updateUser" /\ i < b
            /\ Shows(h, Field(i).key) /\ Shows(b, Field(i).key)
        BY <1>3, <3>1, <4>1
      <4> QED BY <4>5, <4>6, NotBetween
    <3>5. \A v : UserL!AtLeast(Field(a).key, v)
      BY <3>4, UserL!NothingOf
    <3>6. UserL!AtLeast(Field(a).key, list[a].version)'
      BY <1>1, <3>5, LoaderStays
    <3> QED BY <3>2, <3>6
  <2> QED BY <2>2, <2>3
<1>4. \A j \in Here : field'[j].at # "loading"
  BY DEF CustomersInv
<1> QED BY <1>1, <1>2, <1>3, <1>4 DEF CustomersInv, Updated

(* The loader of users moves, and no field but one that asks for a         *)
(* customer.                                                               *)
LEMMA LoaderMoves ==
  ASSUME IInv, CustomersInv, UNCHANGED <<request, list>>, request.op = "mutation",
         \A h \in Here : \/ field'[h] = field[h]
                         \/ field[h].at # "done" /\ field'[h].at = "customer",
         \A u \in Users : UserL!Mentions(u)' =>
           \/ UserL!Mentions(u)
           \/ \E h \in Here : Shows(h, u) /\ field'[h].at \in {"customer", "done"},
         \A u \in Users : \A v : UserL!AtLeast(u, v) /\ users[u] >= v => UserL!AtLeast(u, v)'
  PROVE  CustomersInv'
<1>1. /\ Here' = Here /\ \A j : Field(j)' = Field(j)
      /\ \A j, u : Shows(j, u)' <=> Shows(j, u)
      /\ \A a, b : Updated(a, b)' <=> Updated(a, b)
  BY DEF Here, Field, Shows, Updated, Null
<1>2. ASSUME NEW u \in Users, UserL!Mentions(u)'
      PROVE  \E h \in Here : Shows(h, u) /\ field'[h].at \in {"customer", "done"}
  <2>1. CASE UserL!Mentions(u)
    <3>1. PICK h \in Here : Shows(h, u) /\ field[h].at \in {"customer", "done"}
      BY <2>1 DEF CustomersInv
    <3> QED BY <3>1
  <2> QED BY <1>2, <2>1
<1>3. ASSUME NEW a \in Here, NEW b \in Here, Updated(a, b)
      PROVE  /\ UserL!AtLeast(Field(a).key, list[a].version)'
             /\ field'[b].at = "done" /\ list[b] # Null =>
                  list[b].customer.version >= list[a].version
  <2>1. /\ UserL!AtLeast(Field(a).key, list[a].version)
        /\ field[b].at = "done" /\ list[b] # Null => list[b].customer.version >= list[a].version
    BY <1>3 DEF CustomersInv
  <2>2. Field(a).key \in Users /\ list[a].version \in start[Field(a).key] .. users[Field(a).key]
    <3>1. Right(a) /\ Field(a).kind \in OfUser
      BY <1>3 DEF Updated, IInv, Fields, FieldInv, OfUser
    <3>2. list[a].version \in 1 .. MaxVersion /\ Fresh(Field(a).key, list[a].version)
      BY <3>1 DEF Right
    <3> QED BY <3>1, <3>2, UsersOfMutation DEF Fresh
  <2>3. users[Field(a).key] >= list[a].version
    <3>1. /\ start[Field(a).key] \in Nat
          /\ users[Field(a).key] \in 0 .. MaxVersion /\ MaxVersion \in Nat
      BY <2>2, Tables, GraphqlRequestAssumption DEF IInv
    <3> QED BY <2>2, <3>1
  <2>4. UserL!AtLeast(Field(a).key, list[a].version)'
    BY <1>1, <2>1, <2>2, <2>3
  <2> QED BY <2>1, <2>4
<1>4. \A j \in Here : field'[j].at # "loading"
  BY DEF CustomersInv
<1> QED BY <1>1, <1>2, <1>3, <1>4 DEF CustomersInv

(* Fields that leave the loader of users alone.                            *)
LEMMA FieldsKeepCustomers ==
  ASSUME UnchangedBetween, IInv, CustomersInv, request.op = "mutation", NEW i \in Here,
         FieldStep(i), ~ LoadCustomer(i)
  PROVE  CustomersInv'
<1>1. Types /\ i \in Here /\ DOMAIN list = Here
  BY DEF IInv, Types
<1>2. ~ LoadUser(i) /\ ~ LoadOrder(i)
  BY UsersOfMutation DEF LoadUser, LoadOrder, Called
<1>3. ASSUME NEW value, Resolved(i, value)
      PROVE  /\ \A j \in Here : j # i => field'[j] = field[j] /\ list'[j] = list[j]
             /\ field'[i].at = "resolved"
  BY <1>1, <1>3 DEF Resolved, At, Types
<1>4. ASSUME NEW why, FailsWith(i, why)
      PROVE  /\ \A j \in Here : j # i => field'[j] = field[j]
             /\ field'[i].at = "resolved" /\ list' = list
  BY <1>1, <1>4 DEF FailsWith, Types
<1>5. CASE /\ Turn(i) /\ UNCHANGED <<client, userLoader>>
           /\ (\E value : Resolved(i, value)) \/ \E why : FailsWith(i, why)
  <2>1. field[i].at = "waiting" /\ request' = request
    BY <1>5 DEF Turn, client
  <2> QED BY <1>3, <1>4, <1>5, <2>1, FieldMoves
<1>6. ~ OrderLoaded(i) /\ ~ UserLoaded(i)
  BY DEF OrderLoaded, UserLoaded, CustomersInv
<1>7. CASE Marshal(i)
  <2>1. /\ field[i].at = "resolved" /\ ~ WantsCustomer(i) /\ At(i, "done")
        /\ UNCHANGED <<list, request, userLoader>>
    BY <1>7 DEF Marshal, MarshalTurn, client
  <2>2. /\ \A j \in Here : j # i => field'[j] = field[j] /\ list'[j] = list[j]
        /\ field'[i].at = "done"
    BY <1>1, <2>1 DEF At, Types
  <2>3. list[i] # Null => ~ \E u : Shows(i, u)
    <3>1. list[i] # Null => Right(i)
      BY DEF IInv, Fields, FieldInv
    <3> QED BY <2>1, <3>1 DEF Shows, WantsCustomer, Right, OfOrder
  <2> QED BY <2>1, <2>2, <2>3, FieldMoves
<1>8. CASE CustomerLoaded(i)
  <2>1. /\ field[i].at = "customer" /\ ucall[i].at = "returned"
        /\ UNCHANGED <<request, userLoader>>
    BY <1>8 DEF CustomerLoaded, client
  <2>2. /\ list[i] # Null /\ Right(i) /\ Field(i).kind \in OfOrder
        /\ ucall[i].key = CustomerOf[Field(i).key]
    BY <2>1 DEF IInv, Fields, FieldInv, Asks
  <2>3. Field(i).kind # "updateUser"
    BY <2>2 DEF OfOrder
  <2>4. CASE ucall[i].got = UserL!NoValue
    <3>1. /\ list' = [list EXCEPT ![i] = Null]
          /\ field' = [field EXCEPT ![i] = [at |-> "done", error |-> "failed"]]
      BY <1>8, <2>4 DEF CustomerLoaded, UserByID!NoValue, UserL!NoValue
    <3>2. /\ field'[i].at = "done" /\ list'[i] = Null
          /\ \A j \in Here : j # i => field'[j] = field[j] /\ list'[j] = list[j]
      BY <1>1, <3>1 DEF Types
    <3> QED BY <2>1, <2>3, <3>2, FieldMoves
  <2>5. CASE ucall[i].got # UserL!NoValue
    <3>1. list' = [list EXCEPT ![i].customer = ucall[i].got] /\ At(i, "done")
      BY <1>8, <2>5 DEF CustomerLoaded, UserByID!NoValue, UserL!NoValue
    <3>2. /\ field'[i].at = "done" /\ list'[i] = [list[i] EXCEPT !.customer = ucall[i].got]
          /\ \A j \in Here : j # i => field'[j] = field[j] /\ list'[j] = list[j]
      BY <1>1, <3>1 DEF Types, At
    <3>3. list'[i].customer = ucall[i].got
      BY <2>2, <3>2 DEF Right
    <3> QED BY <2>1, <2>2, <2>3, <2>5, <3>2, <3>3, FieldMoves
  <2> QED BY <2>4, <2>5
<1>9. ASSUME \/ RejectInput(i) \/ CreateOrder(i) \/ CreateUser(i) \/ UpdateUser(i)
             \/ WriteFails(i) \/ UpdateLost(i)
             \/ GetPayment(i) \/ GetUser(i) \/ ListUsers(i) \/ ReadFails(i) \/ UnknownType(i)
      PROVE  /\ Turn(i) /\ UNCHANGED <<client, userLoader>>
             /\ (\E value : Resolved(i, value)) \/ \E why : FailsWith(i, why)
  BY <1>9 DEF RejectInput, CreateOrder, CreateUser, UpdateUser, WriteFails, UpdateLost,
     GetPayment, GetUser, ListUsers, ReadFails, UnknownType, Called
<1> QED BY <1>2, <1>5, <1>6, <1>7, <1>8, <1>9 DEF FieldStep, Resolve

(* A field asks for its order's customer.                                  *)
LEMMA LoadKeepsCustomers ==
  ASSUME IInv, CustomersInv, request.op = "mutation", NEW i \in Here, LoadCustomer(i)
  PROVE  CustomersInv'
<1>1. /\ field[i].at = "resolved" /\ list[i].of = "Order" /\ Field(i).customer /\ At(i, "customer")
      /\ UserByID!Load(i, CustomerOf[list[i].key]) /\ UNCHANGED <<request, list>>
  BY DEF LoadCustomer, MarshalTurn, WantsCustomer, client
<1>2. list[i] # Null /\ Right(i)
  BY <1>1 DEF IInv, Fields, FieldInv, Null
<1>3. Field(i).kind \in OfOrder /\ list[i].key = Field(i).key
  BY <1>1, <1>2, Asked DEF IInv, Right, User, Payment
<1> DEFINE c == CustomerOf[Field(i).key]
<1>4. /\ c \in Users /\ i \in Positions /\ UserL!Load(i, c) /\ Shows(i, c)
  BY <1>1, <1>3, Asked, UserLoads, UsersOfMutation DEF IInv, Shows
<1>5. field'[i].at = "customer" /\ \A h \in Here : h # i => field'[h] = field[h]
  BY <1>1 DEF IInv, Types, At
<1> HIDE DEF c
<1>6. UserL!LoaderInv
  BY DEF IInv, Loaders
<1>7. ASSUME NEW u \in Users
      PROVE  /\ UserL!Mentions(u)' => UserL!Mentions(u) \/ u = c
             /\ \A v : UserL!AtLeast(u, v) => UserL!AtLeast(u, v)'
  BY <1>4, <1>6, SizesOK, UserL!LoadMentions
<1>8. ASSUME NEW u \in Users, UserL!Mentions(u)'
      PROVE  \/ UserL!Mentions(u)
             \/ \E h \in Here : Shows(h, u) /\ field'[h].at \in {"customer", "done"}
  BY <1>4, <1>5, <1>7, <1>8
<1> QED BY <1>1, <1>5, <1>7, <1>8, LoaderMoves

(* What happens behind the fields.                                         *)
LEMMA BehindKeepsCustomers ==
  ASSUME IInv, CustomersInv, request.op = "mutation",
         \/ \E i \in Here : UserLoaderReturns(i)
         \/ \E b \in Positions : UserBatchStep(b)
  PROVE  CustomersInv'
<1>1. UNCHANGED <<request, list, field>>
  BY DEF UserLoaderReturns, UserBatchStep, client, progress
<1>2. UserL!LoaderInv
  BY DEF IInv, Loaders
<1>3. ASSUME NEW i \in Here, UserLoaderReturns(i), NEW u \in Users
      PROVE  /\ UserL!Mentions(u)' => UserL!Mentions(u)
             /\ \A v : UserL!AtLeast(u, v) => UserL!AtLeast(u, v)'
  <2>1. UserL!Return(i) /\ i \in Positions
    BY <1>3, UserReturns, UsersOfMutation DEF UserLoaderReturns
  <2> QED BY <1>2, <2>1, UserL!ReturnMentions
<1>4. ASSUME NEW b \in Positions, UserBatchStep(b), NEW u \in Users
      PROVE  /\ UserL!Mentions(u)' => UserL!Mentions(u)
             /\ \A v : UserL!AtLeast(u, v) /\ users[u] >= v => UserL!AtLeast(u, v)'
  <2>1. UserL!BatchStep(b) /\ b \in DOMAIN ubatches
    BY <1>4, UserBatchSteps DEF UserBatchStep
  <2> QED BY <1>2, <2>1, UserL!BatchStepMentions
<1>5. ASSUME NEW u \in Users
      PROVE  /\ UserL!Mentions(u)' => UserL!Mentions(u)
             /\ \A v : UserL!AtLeast(u, v) /\ users[u] >= v => UserL!AtLeast(u, v)'
  BY <1>3, <1>4
<1> QED BY <1>1, <1>5, LoaderMoves

(* Every step keeps it so.                                                 *)
LEMMA CustomersStep ==
  ASSUME UnchangedBetween, IInv, CustomersInv, [Next]_vars
  PROVE  CustomersInv'
<1>1. ASSUME NEW doc \in Documents, Begin(doc)
      PROVE  CustomersInv'
  <2>1. UserL!NewLoader /\ \A i \in Here' : list'[i] = Null /\ field'[i].at = "waiting"
    BY <1>1, NewLoaders DEF Begin, Here
  <2>2. \A u : ~ UserL!Mentions(u)'
    BY <2>1, UserL!MadeWithout
  <2>3. \A i, j \in Here' : ~ Updated(i, j)'
    BY <2>1 DEF Updated, Null
  <2> QED BY <2>1, <2>2, <2>3 DEF CustomersInv
<1>2. ASSUME UNCHANGED <<request, progress, userLoader>>
      PROVE  CustomersInv'
  <2>1. /\ Here' = Here /\ \A j : Field(j)' = Field(j)
        /\ \A j, u : Shows(j, u)' <=> Shows(j, u)
        /\ \A a, b : Updated(a, b)' <=> Updated(a, b)
        /\ UNCHANGED <<request, field, list>>
    BY <1>2 DEF Here, Field, Shows, Updated, Null, progress
  <2> QED BY <1>2, <2>1, LoaderStays DEF CustomersInv
<1>3. ASSUME \/ UNCHANGED vars \/ Respond \/ OtherWrite
             \/ \E i \in Here : OrderLoaderReturns(i)
             \/ \E b \in Positions : OrderBatchStep(b)
      PROVE  CustomersInv'
  <2>1. UNCHANGED <<request, progress, userLoader>>
    BY <1>3 DEF vars, client, Respond, OtherWrite, OrderLoaderReturns, OrderBatchStep
  <2> QED BY <1>2, <2>1
<1>4. CASE request'.op # "mutation"
  BY <1>4 DEF CustomersInv
<1>5. ASSUME request'.op = "mutation",
             \/ \E i \in Here : FieldStep(i) \/ UserLoaderReturns(i)
             \/ \E b \in Positions : UserBatchStep(b)
      PROVE  CustomersInv'
  <2>1. request' = request
    BY <1>5 DEF FieldStep, Resolve, RejectInput, CreateOrder, CreateUser, UpdateUser, WriteFails,
       UpdateLost, GetPayment, GetUser, ListUsers, ReadFails, UnknownType, LoadOrder, OrderLoaded,
       LoadUser, UserLoaded, Marshal, LoadCustomer, CustomerLoaded, UserLoaderReturns,
       UserBatchStep, client
  <2> QED BY <1>5, <2>1, FieldsKeepCustomers, LoadKeepsCustomers, BehindKeepsCustomers
<1> QED BY <1>1, <1>3, <1>4, <1>5 DEF Next

(* At the start there is no mutation.                                      *)
LEMMA CustomersInit == Init => CustomersInv
BY DEF Init, NoRequest, CustomersInv

(* loaders.go 19-22: in a mutation that does not change a user between two *)
(* orders of that user, no customer in the answer is older than what a     *)
(* field before it answered of the update.  What the loaders cache is      *)
(* stale only for a document of that form.                                 *)
THEOREM NoStaleUnlessBetween ==
  ASSUME UnchangedBetween
  PROVE  Spec => []NoStaleCustomer
<1>1. IInv /\ CustomersInv /\ [Next]_vars => CustomersInv'
  BY CustomersStep
<1>2. ASSUME IInv, CustomersInv
      PROVE  NoStaleCustomer
  <2> SUFFICES ASSUME request.op = "mutation", answer.of = "data", NEW i \in Here, NEW j \in Here,
                      i < j, Field(i).kind = "updateUser", Shows(j, Field(i).key)
               PROVE  answer.values[j].customer.version >= answer.values[i].version
    BY DEF NoStaleCustomer, Shows
  <2>1. /\ answer.values = list /\ list[i] # Null /\ list[j] # Null /\ field[j].at = "done"
    BY <1>2 DEF IInv, Client, AnswerInv, NonNull
  <2> QED BY <1>2, <2>1 DEF CustomersInv, Updated
<1> QED BY <1>1, <1>2, CustomersInit, InitInv, NextKeeps, PTL DEF Spec
=============================================================================
