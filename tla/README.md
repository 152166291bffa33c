# Payment federation: the TLA+ project

A Go service processes payments idempotently, takes orders that are paid by a saga, manages users, and serves all of
it over GraphQL (HTTP and WebSocket). Several replicas of the service may share one Postgres database; everything else
(bus, gateway registry, subscription hub, WebSocket connections, data loaders) lives in one process. This directory
models its core in TLA+, checks the models with TLC and proves theorems about them with TLAPS. Line numbers refer to
`src/`, and `PROJECT.json` maps every definition to the lines it stands for.

## 1. Inventory

| Component | State | Operations | Talks to | What makes it correct |
|---|---|---|---|---|
| Payment aggregate (`payments/domain/payment`) | status, amount, refunded total, ref, version, pending events | NewPayment, Authorize, Capture, Refund, Fail, snapshot conversions | its handlers | legal transitions; refunds never exceed the amount |
| Payment handlers and repository (`payments/application/command`, `infrastructure/persistence`) | the `payments` table: unique idempotency key, version | ProcessPayment (find, authorize, capture, save, publish), RefundPayment (find, refund at the gateway, update if the version matches, publish) | gateways, database, bus | one payment per key, whatever is retried; no lost refund; no row or event without its effect |
| Gateways and registry (`infrastructure/gateway`, `app/http/server.go`) | active gateway and mock refs, per process | Authorize, Capture, Refund, SetActive | payment handlers, administrator | charges exist for what rows claim |
| Orders and the saga (`create_order.go`, `application/bus/events.go`) | the `orders` table: optional unique key | createOrder, the saga's dispatch of ProcessPayment | users, bus, payments | orders are paid once, with their effective key |
| Buses (`shared/cqrs`, `shared/messaging`) | subscriptions, unacknowledged messages, `replies` | Dispatch, ExecuteCommandSync, publish, acknowledge | everybody | read after write, replies to their callers, no deadlock |
| Payment hub (`app/graph/subscription.go`) | subscribers with a buffered channel each | Subscribe, Publish, cancel, the event stream | bus, WebSocket | who subscribed in time hears |
| WebSocket transport (`app/http/graphql_ws.go`) | per connection: output queue, `done`, `ops` | read, start, pump, cancel, write, shut down | executor | operations end when they should and only then; nothing leaks |
| Data loaders (`app/graph/dataloader`) | per request: cache, batches | Load, timer, limit, fetch | query bus | each key its own result; one fetch per batch; every load returns |
| Users (`user/`) | the `users` table: unique e-mail | createUser, updateUser, each with its read after write | bus, loaders | one user per address; no lost update; answers show what was stored |
| Executor (`app/graph/generated`, resolvers, directives) | per request: the fields and what each is at | resolve, load, marshal, the federation's `_entities` | loaders, buses | each position its own entity; turns of a mutation; every request answered |
| Generated clients (`infrastructure/ent`) | builders, mutations, a transaction | create, update, delete, query, hooks, Tx | database | only rows the schemas allow; answers tell what was done |
| Life of the process (`main.go`, `app.go`, `messaging.go`) | which hooks have run | start, listen, shut down, die, restart | everybody | a shutdown loses nothing and ends |
| Queries, database set-up, configuration | none of their own | | | |

Components interact by calls (handler to repository and gateway), by messages on the in-memory bus (commands, integration
events), by shared tables (replicas), and by channels (hub, connection). The hard behaviours are: replicas that race
between a read and a write; an external effect (capture, refund) ordered before the write that records it; calls that
fail with or without effect; crashes between two calls; handlers that publish from inside handlers and wait for the
acknowledgement; replies that race a cancellation; queues that are full; timers that race a limit. Each is a hazard in
`PROJECT.json`, at its line, with the properties that watch over it.

## 2. Modules

| Module | Models | Used by |
|---|---|---|
| `PaymentAggregate` | the aggregate as operators on records; int64 sums wrap | `Payments` |
| `Payments` | replicas, handlers, table, gateways, faults, crashes | `MCPayments`, proofs |
| `PaymentBook` | what the payment service promises | `Payments` (refinement), `OrderSaga` (instance) |
| `OrderSaga` | orders, bus, saga, payment handler, stream, hub, callers, start and stop of the process | `MCOrderSaga` |
| `GraphqlWS` | one WebSocket connection | its runs |
| `DataLoader` | one loader of one request: its state, steps and promises | `GraphqlRequest` (two instances) |
| `GraphqlRequest` | requests: the executor, the resolvers and the two loaders, composed | `MCGraphqlRequest` |
| `EntSchema` | the three entities as ent's schemas declare them: columns, defaults, checks | `EntBuilder` |
| `EntBuilder` | builders and mutations, predicates, and what a statement makes of them, as operators | `Ent` |
| `Ent` | workers that save, query and open transactions through the generated clients | `MCEnt` |
| `RowStore` | what the generated clients promise of the tables | `Ent` (refinement) |
| `Users` | the mutations, handlers and table of users, over replicas | `MCUsers` |
| `FoldLemmas` | induction on naturals and finite sets, sums, least and largest members | the two below |
| `PaymentsProofs` | theorems about `Payments` | |
| `EntProofs` | theorems about `Ent` | |
| `UsersProofs` | theorems about `Users` | |
| `OrderSagaProofs` | theorems about `OrderSaga` | |
| `GraphqlWSProofs` | theorems about `GraphqlWS` | |
| `DataLoaderProofs` | what each step of a loader keeps | `GraphqlRequestProofs` (two instances) |
| `GraphqlRequestProofs` | theorems about `GraphqlRequest` | |

**Payments.** `process[r]` and `refund[r]` are the handlers of replica `r`. The bus gives a subscription one message at
a time (`BlockPublishUntilSubscriberAck`, and the sending mutex of GoChannel), so a replica runs at most one handler of
each kind. Every call to a gateway, the database or the bus is one step; between two steps everybody else may run.
`Handle` of ProcessPayment is Begin or Replay, AuthorizeAtGateway (with the two domain calls that follow it in memory),
CaptureAtGateway, SavePayment, CommitProcess; each call has its failing twin. A failed database write may have been
committed; a failed capture or refund may have taken effect. Commit publishes in order and stops at the first error, in
one step: no handler reads the bus in between. `charges`, `refundCalls`, `applied`, `answers` and `published` record
what the rest of the world saw (`applied` is the true sum of the refunds the database accepted, which no int64 bounds);
no action reads them except for the bound below. Invalid commands and failed reads end a request without changing state
and are no actions. Currency, customer and timestamps are abstracted. The mock and the
stripe stub of the repository never return technical errors; the failures come from the `Gateway` interface, which
every provider implements.

**PaymentBook** has one payment per key, entered settled, changed by refunds that are checked against the total as it
stands, and answers that name it. Its totals are int64s that wrap around, as the aggregate's are; how far the refunds
are bounded all the same is `RefundBounded`. `ImplementsBook` maps rows to the book.

**OrderSaga.** One process. A subscription's messages are `inbox[s]`; `handler[s]` is what its handler does; whoever
published waits until `Acked`. Errors are acknowledged (`ackOnError`), so a failed step simply takes its message away.
The send ignores the caller's context, so a caller that gives up still waits for the acknowledgement (AnswerError).
What the payment handler does to the table is `PaymentBook!Settle` in one step: its inner steps are the business of
`Payments`, which implements the book. `failed` records the keys for which some call failed, so that properties can
tell a loss with a cause from one without. Only the event the hub reacts to is sent to the stream; the consumer that
logs is left out. A client may give another order's id as its key, once that id is known: the repository looks a key up
as key OR id, so the two orders share an effective key and the second is paid by the first one's payment. The model has
this case; what still holds is that an order just created is read back as itself and that a payment has the amount of
one of its orders.

The life of the process is in the same module. `up` is the set of parts that run; the hooks start the router, the
stream and the HTTP server in this order, and stop them in the reverse one. The bus drops what is published while nobody
is subscribed (`Subscribed`, `Put`), so the order matters. A shutdown first waits for the HTTP requests it found
(`Accepts`), then cancels the stream, then closes the router; that the database is closed before the router
is harmless because of `GracefulStop`. The server does not wait for what WebSocket connections run: for those a shutdown
is like a crash, and so is the end of fx's stop timeout. After either everything in memory is gone (`Emptied`) and the
process may start again. The hub's mutex is held from the choice of the subscribers to the last send
(`TakeEvent`, `SendTo`, `AckEvent`); Subscribe and the cancellation that closes a channel wait for it (`HubFree`).

**GraphqlWS.** `reader` is `serve`, `writer` is `writeLoop`, `op[n]` the goroutine of the n-th operation. The client is
arbitrary; with `StrictClient` it uses an id again only after it read its `complete`. Messages other than `complete`
carry nothing the properties tell apart. The executor is external: one response for a query or mutation, any number
for a subscription, none after its context ended.

**DataLoader.** `batches` holds every batch with its timer and its goroutines in `end`; a value is an entity and its
version, so that a result of another key or an outdated one is seen. `OrderLoader` and `UserLoader` are the same
generated code. The module has the steps of a loader and what it promises; who calls it is in `GraphqlRequest`.

**GraphqlRequest.** A client sends requests one after the other; a request is a list of root fields, or of
representations for `_entities`, each with its kind, its key, whether an order's `customer` is selected and whether its
input passes the `@binding` constraints. `field[i]` is what the goroutine of field `i` is at: *waiting* for its turn
(`_Mutation` takes the fields one by one, `_Query` starts them all), *loading*, *resolved*, loading the *customer* while it
is marshalled, *done*. `list` is `out.Values`, or the list of entities, which is marshalled when all of it is resolved.
`UserByID` and `OrderByID` are two instances of `DataLoader`, made anew by `Begin`. `NonNull` is the nullability the schema
gives each field, and decides what a null does to its parent. A user's version counts what was written to it.
The commands behind the mutations are one step each, with what their callers see of a failure: an error of createOrder
comes back by the reply table, one of createUser or updateUser is acknowledged and hidden, and the read that follows
answers what there is. An order is named by the idempotency key it is created with, and its customer is a constant.
`_service`, `__type`, `__schema`, `__typename` and `@defer` are left out.

**Ent.** ent generates two clients, for the payments and orders and for the users, of one shape. `EntSchema` says
what differs: columns, kinds, defaults, what is immutable, unique, nullable or numeric, and what the `check` methods refuse.
`EntBuilder` is what a chain of setters, by name or typed, leaves in a mutation (set, added and cleared values, predicates),
and what a statement makes of a row. In `Ent` a worker makes a builder from a program (`Build`), may ask a mutation for an
old value, and saves it, possibly again: hooks, defaults, checks and the statement are the one step `Save`, with an
action for each of its outcomes; a bulk runs all its builders and inserts at once. A worker may open a
transaction; builders made from its client write to it and fail after its end. Isolation, unique indexes, locks and
aborts are PostgreSQL's and marked external, and so is sqlgraph, which turns a specification into SQL. An update of many
rows that writes no column issues no statement, asks nothing of its transaction and answers 0 (`Silent`, `SaveNothing`).
The program itself creates single rows, updates by id or by id and version, and reads: it makes no bulks, opens no
transactions, registers no hooks, and uses neither additions, clears, calls by name nor old values. Those parts model
what the generated code offers a caller to come, and no hazard is listed for them; what the program does with its
tables is in `Payments`, `OrderSaga` and `Users`. Left out are UpdateOne with further predicates but for the version,
Count with limits, GroupBy and Aggregate, interceptors, ordering, a mutation's IDs, predicates on parts of strings,
Debug and the variants that panic; there is one transaction at a time.

**RowStore** says that committed rows are ones the schemas allow, and that immutable columns stay while a row lives;
`ImplementsRowStore` maps the tables to it. The nullable key of an order is excepted: a mutation's `ClearField` clears
it, although it is immutable. A transaction may delete a row and create another under its id: the row ends with the
commit, which is why the book of deletions of the open transaction (`tx.deleted`) is the variable `ended` of `RowStore`,
and why what was won of a row is forgotten with it (`Forget`).

**Users.** `request[c]` is a caller's mutation from its command to its answer: the handler between two database calls,
then the read. A replica runs one createUser and one updateUser at a time, for the reason given above; a command that
waits in the subscription changes nothing and is not a state. `Dispatch` returns no error of a handler, so a refused
command ends like any other: with a read. What the directives of the schema refuse is never sent; what they accept and
the value objects refuse (an address without a dot in its domain, a name of spaces in an update) is. `Normal` is what
`NewEmail` makes of an address. `Update` writes all columns by id, with the aggregate's version but without comparing it,
although its port promises optimistic concurrency (`user/domain/user/repository.go:10`): two replicas may undo each
other's updates, and `OwnUpdatesKept` says exactly how far the loss goes.

## 3. Runs

| Run | Shows | Bounds |
|---|---|---|
| `payments` | two replicas race on one key with different amounts and gateways, and on refunds, while the active gateway is switched, every call fails with or without effect, processes die and commands are retried | 2 aggregates, one refund call at each gateway, int64 as -5 .. 4, replicas symmetric |
| `refund_overflow` | *violation*: a refund of 1, then one of the largest int64: the unchecked sum (payment.go:111) wraps, passes the guard, and more is refunded than was captured (payment.go:102) | int64 as -4 .. 3 |
| `charged_twice` | *violation*: a capture whose Save fails, then a switch of gateway and a retry, charges twice (README.md:273) | |
| `refund_retried` | *violation*: a refund whose Update fails is retried and the gateway pays more than was captured (payment.go:102) | |
| `order_saga` | two clients, keyed and keyless orders, one keyed by another's id, direct payments, a subscriber, all faults, shutdowns, crashes and restarts | 2 orders, channel of 1 |
| `order_answers` | one keyed order and a direct payment under fairness, all faults: every request is answered, and every shutdown ends | 2 orders |
| `graphql_ws` | a connection with any client, failing writes and a disconnect, with liveness | 2 operations, 2 ids, queue of 1 |
| `ws_id_reused` | *violation*: an id used again after its `complete` was read is cancelled by the old operation (graphql_ws.go:97) | |
| `users` | two callers of one replica and one of another create and update users, every fault, replicas that die | 2 users, one address in two cases, a second one and a refused one; updates start from version 1 |
| `graphql_request` | two requests, each one of nine documents, over any tables, while another request writes and queries and resolvers fail, with liveness | 2 fields, 2 users, 2 orders, batch of 2, 1 write of others per request |
| `stale_customer` | *violation*: createOrder, updateUser, createOrder in one mutation answers the second order's customer as cached before the update (loaders.go:18) | no faults, batch of 100 |
| `ent` | two workers save builders of every kind, twice too, with hooks, in and out of a transaction | 2 builders, 2 saves each, 1 query, 1 transaction |

Why the bounds are enough. Two aggregates are what a race on a key needs (a winner and a loser), and a fault and the
retry after it. The amounts 2, 3 and 4 lie below, at and above the refunds of 3: refused, exact and partial. A payment
of 4, which stripe declines, is refunded at the mock and, once the administrator switched, at stripe: the second refund
wraps around, since 6 is past the largest int64, which is 4. `MaxRefundCalls` counts *equal* calls a gateway receives:
one in `payments`, whose retries reach the other gateway, and two in `refund_retried`, where the second one pays twice.
Two orders give the conflict on a key and a keyless neighbour. A hub channel of 1 is enough because a key is settled once:
the run shows that no buffer size matters. A queue of 1 is full as often as possible. The customers' directory fails
instead of not knowing the customer; both end in the same answer. Two fields are what a batch, a shared key, a mutation's
order and a list of entities need, and a batch of 2 is ended by its limit and, with one key, by its timer. The second
request meets whatever the first one left. `stale_customer` needs three fields, one to fill the cache.

Symmetry is used in `payments` (replicas) and `users` (the two callers of one replica), which have no liveness
property, and in `ent` (the workers). `CHECK_DEADLOCK FALSE` is set in the runs of `GraphqlWS`, `GraphqlRequest` and
`Ent`: a closed connection, an answered request and a worker with nothing left to do
really stop.

Fairness. `Payments` assumes none. In `OrderSaga` goroutines are scheduled (weak fairness of each handler's steps and
of the answers), and a subscription's mutex hands itself to waiters in turn after a millisecond (Go's starvation mode),
hence strong fairness per sender. No caller need give up, subscribe or read. In `GraphqlWS` senders queue on a channel
in order and `select` chooses at random, hence strong fairness of sends and of the select's `done`; the client and the
network need never do anything, except that a write on a broken connection fails. In `GraphqlRequest` the goroutines of
a request are scheduled, timers fire and queries return (weak fairness of each); other requests need not write.
A shutdown, once begun, goes on; nobody need begin one.

## 4. Properties

`Payments`: `OneAnswerPerKey` (idempotency), `RefundBounded` (no row shows more refunded than its amount, its
status tells how much, and the refunds truly made exceed the amount only where their sum is past int64; that they may
do so there is what `refund_overflow` refutes the code's comment with), `NoLostRefund` (the optimistic lock: the
database's total is the int64 of the true sum, `applied`), `RefundsWerePaid` and `CapturedWasCharged` (no row ahead of the money), `EventsFollowRows` (no event ahead of its
row), `ImplementsBook`. `OrderSaga`: `AnsweredIsPaid` (read after write through the whole chain of handlers),
`AnswersOwnOrder` (correlated replies), `PaymentsWereOrdered`, `SubscribersHear`, `NoSendOnClosed` (a cancellation never
closes a channel under a send), `GracefulStop` (when the router closes, no work is left), `RequestsAnswered`, `ShutdownEnds`. `GraphqlWS`:
`RegisteredUntilEnd`, `CancelledForCause`, `DisconnectEndsAll`, `CompletedEnds`. `GraphqlRequest`: `OwnResult` and `BatchFetchedOnce` of both
loaders, `AnswersOwn` (each position its own entity, none older than the request), `MutationsSerial`, `RequestAnswered`.
`Ent`: `ImplementsRowStore`, `AnswersExact` (what a save answers is what it did), `TxAtomic`, `VersionWonOnce` (the
optimistic lock of the payment repository). `Users`: `EmailsUnique` (although updates write back old
addresses), `ReadYourWrites` (a mutation answers what its command stored, or what stood in its way), `OwnUpdatesKept`,
`CreatedWereStored`. Every property has a mutant, an operator next to the definition it
corrupts, marked *Mutant* in its comment, that breaks it.

## 5. Proofs

`PaymentsProofs` proves, for any set of replicas, keys, commands, amounts, faults and bounds that satisfies
`PaymentsAssumption`, that `IInv` is inductive. The properties alone are not: `IInv` adds

* `KeysUnique`: the index; without it the loser of a race could answer either row;
* `RowsInv`, `ProcessInv`, `IdsDistinct`: a stored payment is settled and older than the id generator, and before its
  commit a handler's payment is nobody else's and not stored; without them an insert could overwrite a row;
* a handler about to save a captured payment holds a charge (`ProcessOK`), which gives `CapturedWasCharged`;
* `RefundInv`: a refund in flight was computed from a version of its row and, unless the row moved on, is that row plus
  the refund; with the version check this gives `NoLostRefund`;
* `AnswersStored`, `AppliedInv`: answers name stored payments, which are never removed or given another key.

From it follow `TypeCorrect`, `Idempotency`, `RefundsKept` and `CapturesCharged`. `RefundsPaid` needs `PaidInv` on top
of it: between the gateway's answer and the update what the database accepted, plus the refund, is covered by what
gateways were asked to pay back, unless another refund moved the row's version on. `PaidBack` is a sum over the calls;
how one call more changes it is `SumChange` of `FoldLemmas`.

The second half of the module proves `BoundedInv` and `EventsInv` inductive on top of `IInv`, without any assumption
on the amounts: `RefundsBounded` (a true sum that is an int64 is what the row shows, so it is within the amount;
`SameInt64`), `EventsPersisted`, and `Refinement`: every step of `Payments` is a settlement, a refund or an answer of
`PaymentBook`, or leaves book and answers unchanged. `RefsDistinct` says that the ref of a charge names one
payment: the stripe stub derives it from the key, and the mock's from the id of the aggregate it saw first, which was
fresh then and is remembered for no other key (`RefsInv`).

`UsersProofs` proves, for any replicas, callers and users (finitely many of the last two), `TypeOK`, `EmailsUnique`,
`OwnUpdatesKept` and `CreatedWereStored` from an invariant that says, besides the properties: what each request holds
between its steps belongs to the row it read (`Saves`, `Publishes`, `Updates`); the bus of a replica handles one command
at a time (`OneAtATime`); two requests never hold the same new id and none holds an id of the table (`IDsApart`); stored
e-mails are normalised and the index keeps them apart (`TableInv`). A fresh id exists by a count: every id in use is
a row or held by a waiting caller. `ReadYourWrites` is proved on top of it with `ReadInv`: the row a request is to
read back stands in the table, unless somebody else wrote it since or the command failed and `Dispatch` hid that; it
needs that `Nothing` is no row.

`OrderSagaProofs` proves all seven invariants of the `order_saga` run, for
finitely many clients and orders and any keys, amounts, commands and channel capacity. Its `IInv` has these parts:

* `Chains`: a message or a handler exists only as long as its sender waits for it, up the whole chain of caller,
  `CreateOrder`, saga, payment handler and stream; the bus publishes synchronously, and that is what makes an answer
  mean something;
* `RoomInv` and `IDsInv`: there is an id for every order a caller may still create, an id is secret until answered, and
  keys name known ids only; `AnswersOwnOrder` needs the secrecy, since a client may choose another order's id as key;
* `OwnInv`, `PaidInv`, `OrderedInv`, `InHand`: what each handler has done for the message it holds: whose order the
  command created, that the order was stored before the event, the payment before the answer;
* `HubInv`: until its payment is sent a subscriber's channel is empty, so no capacity (but none) loses it.

`GraphqlWSProofs` proves, for any operations and ids, `TypeOK`, `RegisteredUntilEnd` and `CancelledForCause`. The
strengthening is `LatestListed` (an entry of the table names the operation started last under its id, which is
what makes the removal at the end of an operation safe or, when a client reuses an id, not) and that messages in
flight belong to operations that were started.

`DataLoaderProofs` and `GraphqlRequestProofs` prove the five invariants of the `graphql_request` run for any documents
(sequences of well-formed fields), users, orders, limit of a batch and number of requests. `LoaderInv` is what a loader
keeps: a batch collects exactly while its timer sleeps and the limit has not closed it, and has been ended once
otherwise (`CollectsOnce`); its keys are distinct and fewer than the limit while it collects (`KeysInv`); a call waits
for a position that holds its key, and asked before the fetch (`WaitInv`); what was fetched or cached is a version the
table had since the loader was made (`Version`, which is why the lemmas have a variable `base`). The lemmas are instantiated
for users and for orders; tables only have to get newer. On top of them `IInv` of the request says: a field's call of a
loader asks for that field's entity (`Asks`), what stands at a position is right for it (`Right`), the fields of a
mutation run in turn (`InTurn`), and a user that a field made is there for those after it (`MadeUsers`).

`EntProofs` proves the five properties of the `ent` run, for any workers, programs, hooks, questions, tables and
bounds that satisfy the assumptions of `Ent`. Every outcome of a save is first brought to one form, `SaveDoes`: which rows
the statement wrote and which it deleted, what each of them owes to the builder, the hooks and the row before, and
what was answered; each invariant is then shown to survive that form, a commit and a rollback. The invariants:

* `TypeInv`: the shape of rows, builders, old values and of the transaction, which exists only while somebody has it
  open (`ShapesHold`). It gives `TypeCorrect`, and by a comparison of the tables before and after `TransactionsAtomic`;
* `StoreInv`: the committed tables *and* what the open transaction would make of them are valid, and immutable columns of
  rows the transaction did not delete are as committed. The second is what makes a commit safe; it survives the
  statements of others because those that meet the transaction wait (`Waits`). It gives `RowsKept`;
* `BuildersHeld`: the version that an update on a condition sets is the one after the version it asks for, whatever chains
  and hooks made it. With `WonInv` (a version won is at most the row's, and the open
  transaction has won none of those already won) it gives `VersionsWonOnce`;
* `AnswersAreExact` follows step by step from `SaveDoes`.

Chains of calls and of hooks are folds. `ChainKeeps` and `HookedKeeps` show that a fold keeps whatever each call keeps. The
library's induction rules take an operator as a parameter, which no backend can instantiate; `FoldLemmas` therefore
derives induction (and from it what the sums of `PaymentsProofs` need) from the pigeonhole principle (`FS_Injection`: a set that lacks a number but is closed under successor
would inject an interval into a proper part of itself), with a *set* of numbers in the place of a predicate, and from that the
induction over the subsets of a finite set, in the order in which the folds of the community modules take them apart.

The assumptions say of the constants what Go's types say of the programs (`ProgramAssumption`, `QuestionAssumption`,
`HookAssumption`: calls that compile, lists that are finite, and that only a bulk create has several builders), that the
seeded rows are valid, and, for `VersionsWonOnce`, `VersionAssumption`: a type whose rows are updated on a condition has
its versions set as `payment_repository.go:38-45` sets them, to one more than the version in the condition, and by
nothing else.

**What the refuted claims need.** Five runs refute what a comment or the README says. Of `refund_overflow`,
`RefundsBounded` says all that is left: the claim holds of a payment exactly as long as the true sum of its refunds is
an int64. For `charged_twice` and `refund_retried` no condition that the program meets rescues the claim. For two runs
there is a theorem with the condition under which the claim does hold, so that the counterexample is known to be of
the only kind left out by it.

* `ws_id_reused`: `DistinctIdsUndisturbed` proves `OperationsUndisturbed` of behaviours in which no two operations of
  one id run at a time on the server (`OneRunsPerId`, a condition on the states, not on the client: a client that
  has read its `complete` cannot know that the operation has ended, which is the violation).
* `stale_customer`: `NoStaleUnlessBetween` proves `NoStaleCustomer`, for any sequence of documents, under
  `UnchangedBetween`: no mutation updates a user between two orders of that user whose customers it selects.
  `CustomersInv` keeps that the loader of users is only asked for users whose order was made before (`Mentions`), so
  that after an update it holds nothing of that user or, if no order follows, nothing that matters; and that what it
  fetches from then on is at least as new (`AtLeast`).
  The documents of the run have exactly the excluded form.

Only model-checked are the liveness properties `RequestsAnswered`, `ShutdownEnds`, `DisconnectEndsAll`, `CompletedEnds`
and `RequestAnswered`: liveness under fairness and ENABLED are beyond this prover. No module uses RECURSIVE operators.

## 6. What is not modelled

* A property of callers that subscribe to a generated order id: `createOrder` answers the id after the event was delivered, and the
  hub keeps no past events, so it hears nothing. `SubscribersHear` speaks of those who subscribed before the payment.
* The refund of a payment at a gateway other than the one charged: the code refunds at the gateway active now
  (`gatewayNameFor` answers the empty name) and the model does so too, but rows do not record the gateway and no text
  says where a refund must go, so no property speaks of it. Nor does one speak of whether a gateway treats a second
  equal refund as a retry.
* An order whose payment step failed stays unpaid: its message was acknowledged with the error, and createOrder sent again
  with its key meets the unique index before it publishes. The model has it, and `AnsweredIsPaid` excepts exactly
  the keys for which a call failed. The comment of `ackOnError` (messaging.go:83) has the caller find out by a read; for the
  saga nobody reads.
* What gqlgen's library does: parsing and validation of documents, argument decoding, introspection, complexity,
  `@defer`, encoding. `Exec` of a subscription answers every event from one buffer, which it resets when it is asked for
  the next; whether the transport still holds it then depends on how it copies, which is abstracted to one response.
* That a replica never undoes another one's update of a user, as `user/domain/user/repository.go:10` promises: `Update`
  does not compare versions, `Users` has the schedules in which one is undone, and `OwnUpdatesKept` excepts users that another
  replica writes while the update runs. The promise itself is stated by no property.
* Dependency injection, routes, configuration, logging, the database's ping and migrations: configuration or I/O. What
  start and stop do to the bus is modelled; marshalling of messages is not.
* `Prime`, `Clear` and `LoadAll` of the loaders: nothing calls them.

## 7. Plan

Every safety property of a passing run is proved. What could be added:

1. `DataLoader`: an abstract loader (a call returns a value the table had during it) that it implements.
2. Refunds by clients in `OrderSaga`, through the book's `Refund`, and payments of an order's own id.
