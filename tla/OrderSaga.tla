------------------------------ MODULE OrderSaga ------------------------------
(***************************************************************************)
(* Orders and what follows them, in one process of the service, from its   *)
(* start to its shutdown or its crash, and again: the                      *)
(* mutations createOrder and processPayment, CreateOrderHandler, the saga  *)
(* that pays a new order, the payment handler, and the stream that feeds   *)
(* the subscribers of onPaymentProcessed, all over the in-memory bus.      *)
(*                                                                         *)
(* A subscription of the bus takes one message at a time, and whoever      *)
(* publishes waits until the message is acknowledged; a handler's error is *)
(* acknowledged too.  What the payment handler does to the table of        *)
(* payments is PaymentBook, which Payments implements.                     *)
(***************************************************************************)
EXTENDS FiniteSets, Sequences, Integers

CONSTANTS
  Clients,       \* callers of the mutations, each with one request at a time
  Subscribers,   \* callers of the subscription
  OrderIDs,      \* identifiers of orders; their number bounds the orders
  CustomKeys,    \* idempotency keys clients choose
  NoKey,         \* the key of an order created without one
  OrderCommands, \* [customer, key, amount]
  PayCommands,   \* [key, amount]: processPayment called directly
  Customers,     \* users that exist
  Faults,        \* calls that may fail, and "crash"
  Restarts,      \* whether the service is ever shut down
  HubBuffer      \* capacity of a subscriber's channel, 16 in the code

Keys == CustomKeys \cup OrderIDs

FaultKinds == {"lookup", "save", "publish", "dispatch", "process", "cancel", "crash"}

ASSUME OrderSagaAssumption ==
  /\ IsFiniteSet(Clients) /\ IsFiniteSet(OrderIDs) /\ "saga" \notin Clients
  /\ CustomKeys \cap OrderIDs = {} /\ NoKey \notin Keys
  /\ \A cmd \in OrderCommands : cmd.key \in Keys \cup {NoKey} /\ cmd.amount \in Nat \ {0}
  /\ PayCommands \subseteq [key : Keys, amount : Nat \ {0}]
  /\ Faults \subseteq FaultKinds
  /\ Restarts \in BOOLEAN
  /\ HubBuffer \in Nat \ {0}

VARIABLES
  orders,  \* table of orders: id -> row
  book,    \* table of payments, by key
  client,  \* each caller's request, and its answer
  reply,   \* CommandBus.replies: what the handler answered each caller
  inbox,   \* messages each subscription of the bus has not taken yet
  handler, \* what each handler is doing
  sub,     \* PaymentHub.subs
  failed,  \* keys some call failed for; no handler reads it
  up,      \* parts of the process that run
  stopping \* the process is being shut down

life == <<up, stopping>>
vars == <<orders, book, client, reply, inbox, handler, sub, failed, life>>

(* The parts with hooks of their own in the lifecycle, in starting order.  *)
Router == "router"
Stream == "stream"
Http   == "http"

Service == INSTANCE PaymentBook
             WITH PaymentIDs <- Keys, MaxAmount <- 0, book <- book, answers <- {}

Subscriptions == {"create_order", "saga", "process_payment", "stream"}

Idle == [at |-> "idle"]

EffectiveKey(id) == IF orders[id].key = NoKey THEN id ELSE orders[id].key

-----------------------------------------------------------------------------
(* Requests, answers and messages.                                         *)
Request == [kind : {"order"}, cmd : OrderCommands] \cup [kind : {"pay"}, cmd : PayCommands]
Payment == [from : Clients \cup {"saga"}, key : Keys, amount : Nat \ {0}]

TypeOK ==
  /\ orders \in [DOMAIN orders -> OrderCommands] /\ DOMAIN orders \subseteq OrderIDs
  /\ DOMAIN book \subseteq Keys
  /\ \A c \in Clients :
       /\ client[c] # Idle =>
            /\ client[c].at \in {"wait", "answered"}
            /\ [kind |-> client[c].kind, cmd |-> client[c].cmd] \in Request
            /\ client[c].result \in Keys \cup {NoKey}
       /\ reply[c] # Idle => reply[c].id \in OrderIDs \cup {NoKey}
  /\ \A m \in inbox["create_order"] : m.from \in Clients /\ m.cmd \in OrderCommands
  /\ \A m \in inbox["saga"] : m.key \in Keys /\ m.amount \in Nat
  /\ inbox["process_payment"] \subseteq Payment
  /\ \A m \in inbox["stream"] : m.key \in Keys
  /\ DOMAIN handler = Subscriptions
  /\ handler["stream"] # Idle =>
       handler["stream"].key \in Keys /\ handler["stream"].todo \subseteq Subscribers
  /\ \A s \in Subscribers : sub[s] # Idle => sub[s].ch \in Seq(Keys) /\ Len(sub[s].ch) <= HubBuffer
  /\ failed \subseteq Keys
  /\ up \in {{}, {Router}, {Router, Stream}, {Router, Stream, Http}} /\ stopping \in BOOLEAN

Init ==
  /\ orders = [id \in {} |-> {}]
  /\ book = [k \in {} |-> {}]
  /\ client = [c \in Clients |-> Idle]
  /\ reply = [c \in Clients |-> Idle]
  /\ inbox = [s \in Subscriptions |-> {}]
  /\ handler = [s \in Subscriptions |-> Idle]
  /\ sub = [s \in Subscribers |-> Idle]
  /\ failed = {}
  /\ up = {} /\ stopping = FALSE

-----------------------------------------------------------------------------
(* The bus.  A message is known by its sender, who has one at a time.  What*)
(* is published while nobody subscribes is gone, and its sender not told.  *)
Subscribed(to) == (IF to = "stream" THEN Stream ELSE Router) \in up

Put(box, to, m) == IF Subscribed(to) THEN [box EXCEPT ![to] = @ \cup {m}] ELSE box

Sent(to, m)  == inbox' = Put(inbox, to, m)
Taken(to, m) == inbox' = [inbox EXCEPT ![to] = @ \ {m}]

(* Mutant: a publisher does not wait for its subscribers.                  *)
AckedAtOnce(to, sender) == TRUE

Acked(to, sender) ==
  /\ \A m \in inbox[to] : m.from # sender
  /\ handler[to] # Idle => handler[to].from # sender

HandlerTo(h, state) == handler' = [handler EXCEPT ![h] = state]
Fails(call, key)    == call \in Faults /\ failed' = failed \cup {key}

-----------------------------------------------------------------------------
(* The mutations.  A request may be sent again, changed or not, as soon as *)
(* the last one is answered.                                               *)
OrderRoom ==
  Cardinality(DOMAIN orders)
    + Cardinality({c \in Clients : client[c].at = "wait"
                                   /\ client[c].kind = "order"}) < Cardinality(OrderIDs)

DirectKeys(cs) == {client[c].cmd.key : c \in {d \in cs : client[d].kind = "pay"}}

Waiting(kind, cmd) == [at |-> "wait", kind |-> kind, cmd |-> cmd, result |-> NoKey]

(* Mutant: a connection that is open may go on with another request.       *)
AcceptsToTheEnd == Router \in up

Accepts == Http \in up

(* A name a client knows: a key of its own, or the id it was answered.     *)
KnownNames ==
  CustomKeys \cup {client[c].result : c \in {d \in Clients :
    client[d] # Idle /\ client[d].kind = "order" /\ client[d].result # NoKey}}

(* Nothing keeps a client from giving the id of another order as its key.  *)
CreateOrder(c, cmd) ==
  /\ Accepts
  /\ client[c].at # "wait"
  /\ cmd.key \in KnownNames \cup {NoKey}
  /\ OrderRoom
  /\ client' = [client EXCEPT ![c] = Waiting("order", cmd)]
  /\ Sent("create_order", [from |-> c, cmd |-> cmd])
  /\ UNCHANGED <<orders, book, reply, handler, sub, failed, life>>

ProcessPayment(c, cmd) ==
  /\ Accepts
  /\ client[c].at # "wait"
  /\ cmd.key \in KnownNames
  /\ client' = [client EXCEPT ![c] = Waiting("pay", cmd)]
  /\ Sent("process_payment", [from |-> c, key |-> cmd.key, amount |-> cmd.amount])
  /\ UNCHANGED <<orders, book, reply, handler, sub, failed, life>>

(* FindByIdempotencyKey: the rows with this key, or with this id.          *)
Found(key) == {id \in DOMAIN orders : orders[id].key = key \/ id = key}

AnswerTo(c, result) ==
  /\ client' = [client EXCEPT ![c].at = "answered", ![c].result = result]
  /\ reply' = [reply EXCEPT ![c] = Idle]

(* The send has returned: the caller takes the handler's reply, and reads  *)
(* the order it names.                                                     *)
AnswerOrder(c) ==
  /\ client[c].at = "wait" /\ client[c].kind = "order"
  /\ Acked("create_order", c)
  /\ reply[c] # Idle
  /\ IF reply[c].id = NoKey THEN AnswerTo(c, NoKey)
     ELSE \E id \in Found(reply[c].id) : AnswerTo(c, id)
  /\ UNCHANGED <<orders, book, inbox, handler, sub, failed, life>>

(* The caller reads the payment its key has, or an error: it has none.     *)
AnswerPayment(c) ==
  /\ client[c].at = "wait" /\ client[c].kind = "pay"
  /\ Acked("process_payment", c)
  /\ AnswerTo(c, IF client[c].cmd.key \in DOMAIN book THEN client[c].cmd.key ELSE NoKey)
  /\ UNCHANGED <<orders, book, inbox, handler, sub, failed, life>>

(* The caller's context has ended, or what it reads cannot be read: an     *)
(* error, once the send has returned (the send itself does not end early). *)
AnswerError(c) ==
  /\ client[c].at = "wait"
  /\ Acked(IF client[c].kind = "order" THEN "create_order" ELSE "process_payment", c)
  /\ "cancel" \in Faults
  /\ failed' = failed \cup DirectKeys({c})
  /\ AnswerTo(c, NoKey)
  /\ UNCHANGED <<orders, book, inbox, handler, sub, life>>

-----------------------------------------------------------------------------
(* CreateOrderHandler.Handle.                                              *)
Create == handler["create_order"]

(* Mutant: the reply goes to whoever waits for one.                        *)
FulfillAnyone(c, id) ==
  \E d \in Clients : reply' = [reply EXCEPT ![d] = [at |-> "done", id |-> id]]

Fulfill(c, id) == reply' = [reply EXCEPT ![c] = [at |-> "done", id |-> id]]

FreeID == CHOOSE id \in OrderIDs : id \notin DOMAIN orders

TakeOrder(m) ==
  /\ Create = Idle
  /\ m.cmd.customer \in Customers
  /\ Taken("create_order", m)
  /\ HandlerTo("create_order", [at |-> "save", from |-> m.from, id |-> FreeID, cmd |-> m.cmd])
  /\ UNCHANGED <<orders, book, client, reply, sub, failed, life>>

(* Mutant: the handler's error returns before the reply is given.          *)
RejectOrderSilently(m) ==
  /\ Create = Idle
  /\ m.cmd.customer \notin Customers \/ "lookup" \in Faults
  /\ Taken("create_order", m)
  /\ UNCHANGED <<orders, book, client, reply, handler, sub, failed, life>>

(* The customer is unknown, or the directory cannot be asked.              *)
RejectOrder(m) ==
  /\ Create = Idle
  /\ m.cmd.customer \notin Customers \/ "lookup" \in Faults
  /\ Taken("create_order", m)
  /\ Fulfill(m.from, NoKey)
  /\ UNCHANGED <<orders, book, client, handler, sub, failed, life>>

CanInsert == Create.cmd.key = NoKey \/ \A id \in DOMAIN orders : orders[id].key # Create.cmd.key
Inserted  == [id \in DOMAIN orders \cup {Create.id} |->
                IF id = Create.id THEN Create.cmd ELSE orders[id]]

(* Mutant: the key the client gave, also when it gave none.                *)
KeyGiven(id, cmd) == cmd.key

KeyOf(id, cmd) == IF cmd.key = NoKey THEN id ELSE cmd.key

SaveOrder ==
  /\ Create.at = "save" /\ CanInsert
  /\ orders' = Inserted
  /\ HandlerTo("create_order", [Create EXCEPT !.at = "publish"])
  /\ UNCHANGED <<book, client, reply, inbox, sub, failed, life>>

SaveOrderConflicts ==
  /\ Create.at = "save" /\ ~CanInsert
  /\ Fulfill(Create.from, NoKey)
  /\ HandlerTo("create_order", Idle)
  /\ UNCHANGED <<orders, book, client, inbox, sub, failed, life>>

(* Mutant: an error of Save is ignored and the order published.            *)
SaveOrderFailsIgnored ==
  /\ Create.at = "save"
  /\ Fails("save", KeyOf(Create.id, Create.cmd))
  /\ HandlerTo("create_order", [Create EXCEPT !.at = "publish"])
  /\ UNCHANGED <<orders, book, client, reply, inbox, sub, life>>

SaveOrderFails ==
  /\ Create.at = "save"
  /\ Fails("save", KeyOf(Create.id, Create.cmd))
  /\ \/ orders' = orders
     \/ CanInsert /\ orders' = Inserted
  /\ Fulfill(Create.from, NoKey)
  /\ HandlerTo("create_order", Idle)
  /\ UNCHANGED <<book, client, inbox, sub, life>>

(* OrderCreated, with the order's effective key.                           *)
PublishOrder ==
  /\ Create.at = "publish"
  /\ Sent("saga", [from |-> "create_order", key |-> KeyOf(Create.id, Create.cmd),
                   amount |-> Create.cmd.amount])
  /\ HandlerTo("create_order", [Create EXCEPT !.at = "wait"])
  /\ UNCHANGED <<orders, book, client, reply, sub, failed, life>>

(* The error of the publication is dropped: the order is answered.         *)
PublishOrderFails ==
  /\ Create.at = "publish"
  /\ Fails("publish", KeyOf(Create.id, Create.cmd))
  /\ Fulfill(Create.from, Create.id)
  /\ HandlerTo("create_order", Idle)
  /\ UNCHANGED <<orders, book, client, inbox, sub, life>>

OrderPublished ==
  /\ Create.at = "wait" /\ Acked("saga", "create_order")
  /\ Fulfill(Create.from, Create.id)
  /\ HandlerTo("create_order", Idle)
  /\ UNCHANGED <<orders, book, client, inbox, sub, failed, life>>

-----------------------------------------------------------------------------
(* orderPaymentSaga.Handle: dispatches ProcessPayment and waits for it.    *)
TakeOrderCreated(m) ==
  /\ handler["saga"] = Idle
  /\ inbox' = Put([inbox EXCEPT !["saga"] = @ \ {m}],
                  "process_payment", [m EXCEPT !.from = "saga"])
  /\ HandlerTo("saga", [at |-> "wait", from |-> m.from])
  /\ UNCHANGED <<orders, book, client, reply, sub, failed, life>>

DispatchFails(m) ==
  /\ handler["saga"] = Idle
  /\ Fails("dispatch", m.key)
  /\ Taken("saga", m)
  /\ UNCHANGED <<orders, book, client, reply, handler, sub, life>>

SagaDone ==
  /\ handler["saga"].at = "wait" /\ Acked("process_payment", "saga")
  /\ HandlerTo("saga", Idle)
  /\ UNCHANGED <<orders, book, client, reply, inbox, sub, failed, life>>

-----------------------------------------------------------------------------
(* ProcessPaymentHandler.Handle, seen as PaymentBook.                      *)
Paying == handler["process_payment"]

ReplayPayment(m) ==
  /\ Paying = Idle
  /\ m.key \in DOMAIN book
  /\ Taken("process_payment", m)
  /\ UNCHANGED <<orders, book, client, reply, handler, sub, failed, life>>

SettlePayment(m) ==
  /\ Paying = Idle
  /\ \E status \in {"CAPTURED", "FAILED"} :
       /\ Service!Settle(m.key, m.key, m.amount, status)
       /\ HandlerTo("process_payment",
                    [at |-> "publish", from |-> m.from, key |-> m.key, status |-> status])
  /\ Taken("process_payment", m)
  /\ UNCHANGED <<orders, client, reply, sub, failed, life>>

(* Any error of the handler: it is logged and the message acknowledged.    *)
PaymentError(m) ==
  /\ Paying = Idle
  /\ Fails("process", m.key)
  /\ Taken("process_payment", m)
  /\ UNCHANGED <<orders, book, client, reply, handler, sub, life>>

PublishPayment ==
  /\ Paying.at = "publish"
  /\ Sent("stream", [from |-> "process_payment", key |-> Paying.key,
                     name |-> IF Paying.status = "CAPTURED" THEN "payment.captured"
                                                            ELSE "payment.failed"])
  /\ HandlerTo("process_payment", [Paying EXCEPT !.at = "wait"])
  /\ UNCHANGED <<orders, book, client, reply, sub, failed, life>>

PublishPaymentFails ==
  /\ Paying.at = "publish"
  /\ Fails("publish", Paying.key)
  /\ HandlerTo("process_payment", Idle)
  /\ UNCHANGED <<orders, book, client, reply, inbox, sub, life>>

PaymentPublished ==
  /\ Paying.at = "wait" /\ Acked("stream", "process_payment")
  /\ HandlerTo("process_payment", Idle)
  /\ UNCHANGED <<orders, book, client, reply, inbox, sub, failed, life>>

-----------------------------------------------------------------------------
(* pumpPaymentEvents and PaymentHub.                                       *)

(* The stream's goroutine, which holds the hub's mutex while it publishes. *)
Streaming == handler["stream"]

(* Mutant: cancellation does not wait for the mutex.                       *)
HubAlwaysFree == TRUE

HubFree == Streaming = Idle

Matching(m) ==
  IF m.name = "payment.captured" THEN {s \in Subscribers : sub[s] # Idle /\ sub[s].name = m.key}
                                 ELSE {}

(* Mutant: the event is acknowledged before it is delivered.               *)
TakeEventAcked(m) ==
  /\ Streaming = Idle
  /\ Taken("stream", m)
  /\ HandlerTo("stream", [at |-> "sending", from |-> "", key |-> m.key, todo |-> Matching(m)])
  /\ UNCHANGED <<orders, book, client, reply, sub, failed, life>>

TakeEvent(m) ==
  /\ Streaming = Idle
  /\ Taken("stream", m)
  /\ HandlerTo("stream", [at |-> "sending", from |-> m.from, key |-> m.key, todo |-> Matching(m)])
  /\ UNCHANGED <<orders, book, client, reply, sub, failed, life>>

(* A subscriber whose channel is full loses the payment.                   *)
Offered(s, key) == IF Len(sub[s].ch) < HubBuffer THEN Append(sub[s].ch, key) ELSE sub[s].ch

SendTo(s) ==
  /\ Streaming # Idle /\ s \in Streaming.todo
  /\ sub' = [sub EXCEPT ![s].ch = Offered(s, Streaming.key)]
  /\ HandlerTo("stream", [Streaming EXCEPT !.todo = @ \ {s}])
  /\ UNCHANGED <<orders, book, client, reply, inbox, failed, life>>

AckEvent ==
  /\ Streaming # Idle /\ Streaming.todo = {}
  /\ HandlerTo("stream", Idle)
  /\ UNCHANGED <<orders, book, client, reply, inbox, sub, failed, life>>

Subscribe(s, name) ==
  /\ Accepts /\ HubFree
  /\ sub[s] = Idle
  /\ sub' = [sub EXCEPT ![s] = [at |-> "open", name |-> name, ch |-> <<>>, got |-> {},
                                early |-> name \notin DOMAIN book]]
  /\ UNCHANGED <<orders, book, client, reply, inbox, handler, failed, life>>

Receive(s) ==
  /\ sub[s] # Idle /\ sub[s].ch # <<>>
  /\ sub' = [sub EXCEPT ![s].got = @ \cup {Head(sub[s].ch)}, ![s].ch = Tail(@)]
  /\ UNCHANGED <<orders, book, client, reply, inbox, handler, failed, life>>

(* The subscriber leaves: it is removed and its channel closed.            *)
Unsubscribe(s) ==
  /\ HubFree
  /\ sub[s] # Idle
  /\ sub' = [sub EXCEPT ![s] = Idle]
  /\ UNCHANGED <<orders, book, client, reply, inbox, handler, failed, life>>

-----------------------------------------------------------------------------
(* The lifecycle: the router, the stream and the server start in this      *)
(* order, and stop in the reverse one.                                     *)
Interrupted == {c \in Clients : client[c].at = "wait"}

StartRouter ==
  /\ up = {} /\ ~stopping
  /\ up' = {Router}
  /\ UNCHANGED <<orders, book, client, reply, inbox, handler, sub, failed, stopping>>

StartStream ==
  /\ up = {Router} /\ ~stopping
  /\ up' = up \cup {Stream}
  /\ UNCHANGED <<orders, book, client, reply, inbox, handler, sub, failed, stopping>>

Listen ==
  /\ up = {Router, Stream} /\ ~stopping
  /\ up' = up \cup {Http}
  /\ UNCHANGED <<orders, book, client, reply, inbox, handler, sub, failed, stopping>>

Shutdown ==
  /\ Restarts /\ Http \in up
  /\ up' = up \ {Http} /\ stopping' = TRUE
  /\ UNCHANGED <<orders, book, client, reply, inbox, handler, sub, failed>>

(* Mutant: the server's hook does not wait for its requests.               *)
CancelStreamAtOnce ==
  /\ stopping /\ Stream \in up
  /\ up' = up \ {Stream}
  /\ UNCHANGED <<orders, book, client, reply, inbox, handler, sub, failed, stopping>>

(* The server has closed its connections when the last one is idle.        *)
CancelStream ==
  /\ stopping /\ Stream \in up
  /\ Interrupted = {}
  /\ up' = up \ {Stream}
  /\ UNCHANGED <<orders, book, client, reply, inbox, handler, sub, failed, stopping>>

(* The process ends, and may be started again: the tables remain, the bus, *)
(* the handlers, the hub and the callers' connections do not.              *)
Emptied ==
  /\ reply' = [c \in Clients |-> Idle]
  /\ inbox' = [s \in Subscriptions |-> {}]
  /\ handler' = [s \in Subscriptions |-> Idle]
  /\ sub' = [s \in Subscribers |-> Idle]
  /\ up' = {} /\ stopping' = FALSE
  /\ UNCHANGED <<orders, book>>

(* Router.Close waits for the handlers that run.                           *)
CloseRouter ==
  /\ stopping /\ up = {Router}
  /\ \A s \in Subscriptions : handler[s] = Idle
  /\ Emptied
  /\ UNCHANGED <<client, failed>>

Crash ==
  /\ "crash" \in Faults
  /\ up # {}
  /\ client' = [c \in Clients |-> IF c \in Interrupted
                                  THEN [client[c] EXCEPT !.at = "answered"] ELSE client[c]]
  /\ failed' = failed \cup DirectKeys(Interrupted)
                      \cup {KeyOf(Create.id, Create.cmd) : h \in {Create} \ {Idle}}
  /\ Emptied

TakeOrderFrom(c) ==
  \E m \in inbox["create_order"] : m.from = c /\ (TakeOrder(m) \/ RejectOrder(m))
OrderStep ==
  \/ SaveOrder \/ SaveOrderConflicts \/ SaveOrderFails
  \/ PublishOrder \/ PublishOrderFails \/ OrderPublished
SagaStep ==
  \/ \E m \in inbox["saga"] : TakeOrderCreated(m) \/ DispatchFails(m)
  \/ SagaDone
TakePaymentFrom(sender) ==
  \E m \in inbox["process_payment"] :
    m.from = sender /\ (ReplayPayment(m) \/ SettlePayment(m) \/ PaymentError(m))
PaymentStep == PublishPayment \/ PublishPaymentFails \/ PaymentPublished
StreamStep ==
  \/ \E m \in inbox["stream"] : TakeEvent(m)
  \/ \E s \in Subscribers : SendTo(s)
  \/ AckEvent
AnswerStep(c) == AnswerOrder(c) \/ AnswerPayment(c)
LifeStep == StartRouter \/ StartStream \/ Listen \/ CancelStream \/ CloseRouter

Next ==
  \/ \E c \in Clients :
       \/ \E cmd \in OrderCommands : CreateOrder(c, cmd)
       \/ \E cmd \in PayCommands : ProcessPayment(c, cmd)
       \/ AnswerStep(c) \/ AnswerError(c) \/ TakeOrderFrom(c)
  \/ OrderStep \/ SagaStep \/ PaymentStep \/ StreamStep
  \/ \E sender \in Clients \cup {"saga"} : TakePaymentFrom(sender)
  \/ \E s \in Subscribers :
       \/ \E name \in KnownNames : Subscribe(s, name)
       \/ Receive(s) \/ Unsubscribe(s)
  \/ LifeStep \/ Shutdown \/ Crash

Spec == Init /\ [][Next]_vars

(* Goroutines are scheduled, and a subscription's mutex serves the senders *)
(* that wait for it in turn, so none waits for ever while others are taken.*)
(* No caller need give up, and nobody need subscribe, read or leave.  The  *)
(* hooks of a start or of a stop run one after the other.                  *)
Fairness ==
  /\ WF_vars(LifeStep)
  /\ WF_vars(OrderStep) /\ WF_vars(SagaStep) /\ WF_vars(PaymentStep) /\ WF_vars(StreamStep)
  /\ \A c \in Clients : SF_vars(TakeOrderFrom(c)) /\ WF_vars(AnswerStep(c))
  /\ \A sender \in Clients \cup {"saga"} : SF_vars(TakePaymentFrom(sender))

FairSpec == Spec /\ Fairness

-----------------------------------------------------------------------------
(* Properties.                                                             *)

(* Read after write (messaging.go 8-11, 43-44): when a mutation is         *)
(* answered the whole chain it started has run.  An order answered as      *)
(* created is paid, and processPayment finds its payment, unless a call    *)
(* made for the key failed.                                                *)
AnsweredIsPaid ==
  \A c \in Clients : client[c].at = "answered" =>
    LET req == client[c] IN
      /\ req.kind = "order" /\ req.result # NoKey =>
           EffectiveKey(req.result) \in DOMAIN book \cup failed
      /\ req.kind = "pay" /\ req.result = NoKey => req.cmd.key \in failed

(* Correlated replies (command_bus.go 150-202): the order a caller is      *)
(* answered is the one its own command created.                            *)
AnswersOwnOrder ==
  \A c \in Clients :
    client[c] # Idle /\ client[c].kind = "order" /\ client[c].result # NoKey =>
      orders[client[c].result] = client[c].cmd

(* The saga pays persisted orders only (create_order.go 83-88): every      *)
(* payment is that of a stored order, for its amount, or was asked for by  *)
(* a client.                                                               *)
PaymentsWereOrdered ==
  \A k \in DOMAIN book :
    \/ \E id \in DOMAIN orders : EffectiveKey(id) = k /\ orders[id].amount = book[k].amount
    \/ [key |-> k, amount |-> book[k].amount] \in PayCommands

(* The stream (subscription.go 65-127): whoever subscribed to a key before *)
(* its payment gets the payment when it is captured, once the handler that *)
(* published it is done; nothing is dropped, whatever the buffer.          *)
SubscribersHear ==
  \A s \in Subscribers :
    sub[s] # Idle /\ sub[s].early /\ sub[s].name \in DOMAIN book \ failed =>
      \/ book[sub[s].name].status # "CAPTURED"
      \/ Paying # Idle /\ Paying.key = sub[s].name
      \/ sub[s].name \in sub[s].got \cup {sub[s].ch[i] : i \in 1 .. Len(sub[s].ch)}

(* Cancellation closes a channel the stream may be about to send on        *)
(* (subscription.go 48-54, 67-79): it never does while the send is due.    *)
NoSendOnClosed ==
  Streaming # Idle => \A s \in Streaming.todo : sub[s] # Idle

(* A graceful stop (main.go 90-93, subscription.go 106-109, messaging.go   *)
(* 183-186) loses nothing: once the stream is cancelled nothing is on its  *)
(* way, and every stored order is paid unless a call for it failed.        *)
GracefulStop ==
  stopping /\ Stream \notin up =>
    /\ \A s \in Subscriptions : handler[s] = Idle /\ inbox[s] = {}
    /\ \A id \in DOMAIN orders : EffectiveKey(id) \in DOMAIN book \cup failed

(* Handlers publish from inside handlers and wait for each other, and fail *)
(* (messaging.go 44, 83-99): still every request is answered in the end,   *)
(* without its caller giving up, unless the process dies.                  *)
RequestsAnswered ==
  \A c \in Clients :
    client[c].at = "wait" ~> client[c].at = "answered"

(* A shutdown waits for the requests it found and takes no new ones        *)
(* (main.go 90-93): it comes to its end.                                   *)
ShutdownEnds == stopping ~> up = {}
=============================================================================
