-------------------------- MODULE OrderSagaProofs --------------------------
(***************************************************************************)
(* Proofs about OrderSaga, for any callers, subscribers, orders, keys,     *)
(* commands, faults and buffer.                                            *)
(***************************************************************************)
EXTENDS OrderSaga, FiniteSetTheorems, TLAPS

-----------------------------------------------------------------------------
(* Types, in the detail the proofs need.                                   *)

OrderAsked == [at : {"wait", "answered"}, kind : {"order"}, cmd : OrderCommands,
               result : OrderIDs \cup {NoKey}]
PayAsked   == [at : {"wait", "answered"}, kind : {"pay"}, cmd : PayCommands,
               result : Keys \cup {NoKey}]
Replied    == [at : {"done"}, id : OrderIDs \cup {NoKey}]

OrderMessage   == [from : Clients, cmd : OrderCommands]
CreatedMessage == [from : {"create_order"}, key : Keys, amount : Nat \ {0}]
Event == [from : {"process_payment"}, key : Keys, name : {"payment.captured", "payment.failed"}]

Creating  == [at : {"save", "publish", "wait"}, from : Clients, id : OrderIDs,
              cmd : OrderCommands]
Following == [at : {"wait"}, from : {"create_order"}]
Settling  == [at : {"publish", "wait"}, from : Clients \cup {"saga"}, key : Keys,
              status : {"CAPTURED", "FAILED"}]
Sending   == [at : {"sending"}, from : {"process_payment"}, key : Keys,
              todo : SUBSET Subscribers]

Listening == [at : {"open"}, name : Keys, ch : Seq(Keys), got : SUBSET Keys, early : BOOLEAN]

TablesOK ==
  /\ orders \in [DOMAIN orders -> OrderCommands] /\ DOMAIN orders \subseteq OrderIDs
  /\ DOMAIN book \subseteq Keys
  /\ failed \subseteq Keys

CallersOK ==
  /\ client \in [Clients -> {Idle} \cup OrderAsked \cup PayAsked]
  /\ reply \in [Clients -> {Idle} \cup Replied]

InboxOK ==
  /\ DOMAIN inbox = Subscriptions
  /\ inbox["create_order"] \subseteq OrderMessage
  /\ inbox["saga"] \subseteq CreatedMessage
  /\ inbox["process_payment"] \subseteq Payment
  /\ inbox["stream"] \subseteq Event

HandlersOK ==
  /\ DOMAIN handler = Subscriptions
  /\ Create \in {Idle} \cup Creating
  /\ handler["saga"] \in {Idle} \cup Following
  /\ Paying \in {Idle} \cup Settling
  /\ Streaming \in {Idle} \cup Sending

HubOK ==
  /\ sub \in [Subscribers -> {Idle} \cup Listening]
  /\ \A s \in Subscribers : sub[s] # Idle => Len(sub[s].ch) <= HubBuffer

LifeOK ==
  /\ up \in {{}, {Router}, {Router, Stream}, {Router, Stream, Http}} /\ stopping \in BOOLEAN
  /\ stopping => Http \notin up
  /\ \A c \in Clients : client[c].at = "wait" => {Router, Stream} \subseteq up

-----------------------------------------------------------------------------
(* Who waits for whom: a message or a handler is there only as long as its *)
(* sender waits for it.                                                    *)

Asked(c, cmd) ==
  /\ client[c].at = "wait" /\ client[c].kind = "order" /\ client[c].cmd = cmd
  /\ reply[c] = Idle

(* The chain of createOrder.                                               *)
OrderChain ==
  /\ \A m \in inbox["create_order"] :
       Asked(m.from, m.cmd) /\ (Create # Idle => Create.from # m.from)
  /\ Create # Idle => Asked(Create.from, Create.cmd)
  /\ \A c \in Clients : reply[c] # Idle => client[c].at = "wait" /\ client[c].kind = "order"

SagaChain ==
  inbox["saga"] # {} \/ handler["saga"] # Idle => Create.at = "wait"

Expects(sender) ==
  IF sender = "saga" THEN handler["saga"] # Idle
  ELSE client[sender].at = "wait" /\ client[sender].kind = "pay"

PaymentChain ==
  /\ \A m \in inbox["process_payment"] : Expects(m.from)
  /\ Paying # Idle => Expects(Paying.from)

EventChain ==
  /\ inbox["stream"] # {} \/ Streaming # Idle => Paying.at = "wait"
  /\ Streaming # Idle => inbox["stream"] = {}

-----------------------------------------------------------------------------
(* Orders and their ids.                                                   *)

(* Room for the orders that wait to be saved.                              *)
Unsaved ==
  {c \in Clients : (\E m \in inbox["create_order"] : m.from = c)
                   \/ (Create.at = "save" /\ Create.from = c)}

RoomInv == Cardinality(DOMAIN orders) + Cardinality(Unsaved) <= Cardinality(OrderIDs)

(* An id that no caller has been answered yet.                             *)
Secret(id) ==
  /\ id # NoKey
  /\ (Create # Idle /\ Create.id = id) \/ \E c \in Clients : reply[c] # Idle /\ reply[c].id = id

(* Keys are chosen, or ids callers know.                                   *)
KnownKey(cmd) == cmd.key \in CustomKeys \cup DOMAIN orders \cup {NoKey} /\ ~Secret(cmd.key)

IDsInv ==
  /\ \A id \in DOMAIN orders : KnownKey(orders[id])
  /\ \A c \in Clients : client[c] # Idle /\ client[c].kind = "order" => KnownKey(client[c].cmd)
  /\ \A c \in Clients : client[c] # Idle /\ client[c].kind = "order" => ~Secret(client[c].result)
  /\ \A c, d \in Clients :
       reply[c] # Idle /\ reply[d] # Idle /\ c # d /\ reply[c].id = reply[d].id => reply[c].id = NoKey

OwnInv ==
  /\ AnswersOwnOrder
  /\ \A c \in Clients :
       /\ client[c] # Idle /\ client[c].kind = "order" /\ client[c].result # NoKey =>
            client[c].at = "answered" /\ client[c].result \in DOMAIN orders
       /\ reply[c] # Idle /\ reply[c].id # NoKey =>
            /\ reply[c].id \in DOMAIN orders /\ orders[reply[c].id] = client[c].cmd
            /\ Create # Idle => Create.id # reply[c].id
  /\ Create.at = "save" => Create.id \notin DOMAIN orders
  /\ Create.at \in {"publish", "wait"} =>
       Create.id \in DOMAIN orders /\ orders[Create.id] = Create.cmd

-----------------------------------------------------------------------------
(* What is paid, and for what.                                             *)

Settled(k) == k \in DOMAIN book \cup failed

(* The payment of k was asked for by sender and not begun yet.             *)
OnItsWay(sender, k) == \E m \in inbox["process_payment"] : m.from = sender /\ m.key = k

PaidInv ==
  /\ \A id \in DOMAIN orders : Settled(EffectiveKey(id)) \/ (Create # Idle /\ Create.id = id)
  /\ Create.at = "wait" =>
       \/ Settled(KeyOf(Create.id, Create.cmd))
       \/ OnItsWay("saga", KeyOf(Create.id, Create.cmd))
       \/ \E m \in inbox["saga"] : m.key = KeyOf(Create.id, Create.cmd)
  /\ \A c \in Clients :
       client[c] # Idle /\ client[c].kind = "pay" =>
         /\ client[c].at = "wait" =>
              Settled(client[c].cmd.key) \/ OnItsWay(c, client[c].cmd.key)
         /\ client[c].at = "answered" /\ client[c].result = NoKey => client[c].cmd.key \in failed

Backed(k, amount) == \E id \in DOMAIN orders : EffectiveKey(id) = k /\ orders[id].amount = amount

OrderedInv ==
  /\ PaymentsWereOrdered
  /\ \A m \in inbox["saga"] : Backed(m.key, m.amount)
  /\ \A m \in inbox["process_payment"] :
       IF m.from = "saga" THEN Backed(m.key, m.amount)
       ELSE [key |-> m.key, amount |-> m.amount] \in PayCommands

-----------------------------------------------------------------------------
(* What subscribers are told.                                              *)

(* The payment in the handler's hands.                                     *)
InHand ==
  /\ Paying # Idle =>
       Paying.key \in DOMAIN book /\ book[Paying.key].status = Paying.status
  /\ \A m \in inbox["stream"] :
       /\ m.key = Paying.key
       /\ m.name = IF Paying.status = "CAPTURED" THEN "payment.captured" ELSE "payment.failed"
  /\ Streaming # Idle => Streaming.key = Paying.key

(* It was not sent to s.                                                   *)
Unsent(s) ==
  \/ sub[s].name \notin DOMAIN book
  \/ Paying # Idle /\ Paying.key = sub[s].name
       /\ (Paying.at = "publish" \/ inbox["stream"] # {})
  \/ Streaming # Idle /\ s \in Streaming.todo

Heard(s) == sub[s].name \in sub[s].got \cup {sub[s].ch[i] : i \in 1 .. Len(sub[s].ch)}

HubInv ==
  /\ NoSendOnClosed
  /\ \A s \in Subscribers :
       /\ Streaming # Idle /\ s \in Streaming.todo => sub[s].name = Streaming.key
       /\ sub[s] # Idle /\ sub[s].early =>
            /\ Unsent(s) => sub[s].ch = <<>>
            /\ sub[s].name \in DOMAIN book \ failed /\ book[sub[s].name].status = "CAPTURED" =>
                 \/ Heard(s)
                 \/ Paying # Idle /\ Paying.key = sub[s].name /\ Unsent(s)

-----------------------------------------------------------------------------
Types  == TablesOK /\ CallersOK /\ InboxOK /\ HandlersOK /\ HubOK /\ LifeOK
Chains == OrderChain /\ SagaChain /\ PaymentChain /\ EventChain
IInv   == Types /\ Chains /\ RoomInv /\ IDsInv /\ OwnInv /\ PaidInv /\ OrderedInv /\ InHand /\ HubInv

-----------------------------------------------------------------------------
(* Facts about the pieces.                                                 *)

(* What a handler or a request that is somewhere consists of.              *)
LEMMA Pieces ==
  ASSUME Types
  PROVE  /\ Create # Idle => Create \in Creating
         /\ Create.at \in {"save", "publish", "wait"} => Create \in Creating
         /\ Paying # Idle => Paying \in Settling
         /\ Paying.at \in {"publish", "wait"} => Paying \in Settling
         /\ handler["saga"].at = "wait" => handler["saga"] \in Following
         /\ handler["saga"] # Idle => handler["saga"] \in Following
         /\ Streaming # Idle => Streaming \in Sending
         /\ \A c \in Clients : client[c].at \in {"wait", "answered"} \/ client[c] # Idle =>
              client[c] \in OrderAsked \cup PayAsked
         /\ \A c \in Clients : reply[c] # Idle => reply[c] \in Replied
         /\ \A s \in Subscribers : sub[s] # Idle => sub[s] \in Listening
BY DEF Types, HandlersOK, CallersOK, HubOK, Idle

LEMMA CommandKeys ==
  ASSUME NEW id \in OrderIDs, NEW cmd \in OrderCommands
  PROVE  KeyOf(id, cmd) \in Keys /\ cmd.amount \in Nat \ {0}
BY OrderSagaAssumption DEF KeyOf, Keys

(* A message is put in the inbox of one subscription, or dropped.          *)
LEMMA SentTo ==
  ASSUME InboxOK, NEW to \in Subscriptions, NEW m, Sent(to, m)
  PROVE  /\ DOMAIN inbox' = Subscriptions
         /\ \A s \in Subscriptions : s # to => inbox'[s] = inbox[s]
         /\ Subscribed(to) => inbox'[to] = inbox[to] \cup {m}
         /\ ~Subscribed(to) => inbox'[to] = inbox[to]
BY DEF InboxOK, Sent, Put

LEMMA TakenFrom ==
  ASSUME InboxOK, NEW to \in Subscriptions, NEW m, Taken(to, m)
  PROVE  /\ DOMAIN inbox' = Subscriptions
         /\ \A s \in Subscriptions : s # to => inbox'[s] = inbox[s]
         /\ inbox'[to] = inbox[to] \ {m}
BY DEF InboxOK, Taken

LEMMA HandlerNow ==
  ASSUME HandlersOK, NEW h \in Subscriptions, NEW state, HandlerTo(h, state)
  PROVE  /\ DOMAIN handler' = Subscriptions
         /\ \A g \in Subscriptions : g # h => handler'[g] = handler[g]
         /\ handler'[h] = state
BY DEF HandlersOK, HandlerTo

LEMMA Named ==
  /\ {"create_order", "saga", "process_payment", "stream"} = Subscriptions
  /\ Create = handler["create_order"] /\ Create' = handler'["create_order"]
  /\ Paying = handler["process_payment"] /\ Paying' = handler'["process_payment"]
  /\ Streaming = handler["stream"] /\ Streaming' = handler'["stream"]
BY DEF Subscriptions, Create, Paying, Streaming

(* The router runs whoever has something to do.                            *)
LEMMA RouterRuns ==
  ASSUME Types, Chains,
         \/ Create # Idle \/ handler["saga"] # Idle \/ Paying # Idle \/ Streaming # Idle
         \/ \E s \in Subscriptions : inbox[s] # {}
  PROVE  Subscribed("create_order") /\ Subscribed("saga") /\ Subscribed("process_payment")
           /\ Subscribed("stream")
<1>1. \E c \in Clients : client[c].at = "wait"
  <2>1. CASE Create # Idle
    BY <2>1, Pieces DEF Chains, OrderChain, Asked, Creating
  <2>2. CASE inbox["create_order"] # {}
    BY <2>2 DEF Chains, OrderChain, Asked, Types, InboxOK, OrderMessage
  <2>3. CASE inbox["saga"] # {} \/ handler["saga"] # Idle
    <3>1. Create # Idle
      BY <2>3 DEF Chains, SagaChain, Idle
    <3> QED BY <2>1, <3>1
  <2>4. CASE inbox["process_payment"] # {} \/ Paying # Idle
    <3>1. PICK sender \in Clients \cup {"saga"} : Expects(sender)
      BY <2>4, Pieces DEF Chains, PaymentChain, Types, InboxOK, Payment, Settling
    <3> QED BY <2>3, <3>1 DEF Expects
  <2>5. CASE inbox["stream"] # {} \/ Streaming # Idle
    <3>1. Paying # Idle
      BY <2>5 DEF Chains, EventChain, Idle
    <3> QED BY <2>4, <3>1
  <2> QED BY <2>1, <2>2, <2>3, <2>4, <2>5 DEF Subscriptions
<1> QED BY <1>1 DEF Types, LifeOK, Subscribed

-----------------------------------------------------------------------------
(* The handler of createOrder.                                             *)

(* What a step of it leaves alone.                                         *)
OrderFrame ==
  /\ UNCHANGED <<book, client, sub, up, stopping>>
  /\ DOMAIN handler' = Subscriptions /\ DOMAIN inbox' = Subscriptions
  /\ handler'["saga"] = handler["saga"] /\ Paying' = Paying /\ Streaming' = Streaming
  /\ inbox'["process_payment"] = inbox["process_payment"]
  /\ inbox'["stream"] = inbox["stream"]

LEMMA OrderFrameKeeps ==
  ASSUME IInv, OrderFrame, failed \subseteq failed'
  PROVE  /\ EventChain' /\ InHand' /\ HubInv' /\ HubOK' /\ LifeOK'
         /\ PaymentChain'
<1>1. EventChain'
  BY DEF IInv, Chains, EventChain, OrderFrame
<1>2. InHand'
  BY DEF IInv, InHand, OrderFrame
<1>3. HubInv'
  BY DEF IInv, HubInv, OrderFrame, NoSendOnClosed, Unsent, Heard
<1>4. HubOK' /\ LifeOK'
  BY DEF IInv, Types, HubOK, LifeOK, OrderFrame
<1>5. PaymentChain'
  BY DEF IInv, Chains, PaymentChain, Expects, OrderFrame
<1> QED BY <1>1, <1>2, <1>3, <1>4, <1>5

LEMMA RoomKept ==
  ASSUME IInv, DOMAIN orders' = DOMAIN orders, Unsaved' \subseteq Unsaved
  PROVE  RoomInv'
<1>1. IsFiniteSet(Unsaved) /\ IsFiniteSet(DOMAIN orders)
  BY OrderSagaAssumption, FS_Subset DEF IInv, Types, TablesOK, Unsaved
<1>2. Cardinality(Unsaved') <= Cardinality(Unsaved)
  BY <1>1, FS_Subset
<1>3. IsFiniteSet(Unsaved')
  BY <1>1, FS_Subset
<1>4. /\ Cardinality(Unsaved') \in Nat /\ Cardinality(Unsaved) \in Nat
      /\ Cardinality(DOMAIN orders) \in Nat /\ Cardinality(OrderIDs) \in Nat
  BY <1>1, <1>3, OrderSagaAssumption, FS_CardinalityType
<1>5. Cardinality(DOMAIN orders) + Cardinality(Unsaved) <= Cardinality(OrderIDs)
  BY DEF IInv, RoomInv
<1>6. RoomInv' <=> Cardinality(DOMAIN orders) + Cardinality(Unsaved') <= Cardinality(OrderIDs)
  BY DEF RoomInv
<1> QED BY <1>2, <1>4, <1>5, <1>6

(* An order that is saved, or given up, makes room for itself.             *)
LEMMA SavedRoom ==
  ASSUME IInv, Create \in Creating, Create.at = "save", Create'.at # "save",
         inbox'["create_order"] = inbox["create_order"],
         DOMAIN orders' \subseteq DOMAIN orders \cup {Create.id}
  PROVE  RoomInv'
<1>1. Create.from \in Unsaved /\ Unsaved' \subseteq Unsaved \ {Create.from}
  <2>1. \A m \in inbox["create_order"] : m.from # Create.from
    BY DEF IInv, Chains, OrderChain, Idle
  <2>2. Create.from \in Clients
    BY DEF Creating
  <2> QED BY <2>1, <2>2 DEF Unsaved
<1>2. IsFiniteSet(Unsaved) /\ IsFiniteSet(DOMAIN orders)
  BY OrderSagaAssumption, FS_Subset DEF IInv, Types, TablesOK, Unsaved
<1>3. /\ IsFiniteSet(Unsaved \ {Create.from})
      /\ Cardinality(Unsaved \ {Create.from}) = Cardinality(Unsaved) - 1
  BY <1>1, <1>2, FS_RemoveElement
<1>4. IsFiniteSet(Unsaved') /\ Cardinality(Unsaved') <= Cardinality(Unsaved) - 1
  BY <1>1, <1>3, FS_Subset
<1>5. /\ IsFiniteSet(DOMAIN orders \cup {Create.id})
      /\ Cardinality(DOMAIN orders \cup {Create.id}) <= Cardinality(DOMAIN orders) + 1
  <2>1. Cardinality(DOMAIN orders) \in Nat
    BY <1>2, FS_CardinalityType
  <2>2. Cardinality(DOMAIN orders \cup {Create.id})
          \in {Cardinality(DOMAIN orders), Cardinality(DOMAIN orders) + 1}
    BY <1>2, FS_AddElement
  <2>3. IsFiniteSet(DOMAIN orders \cup {Create.id})
    BY <1>2, FS_AddElement
  <2> QED BY <2>1, <2>2, <2>3
<1>6. IsFiniteSet(DOMAIN orders') /\ Cardinality(DOMAIN orders') <= Cardinality(DOMAIN orders) + 1
  <2>1. /\ IsFiniteSet(DOMAIN orders')
        /\ Cardinality(DOMAIN orders') <= Cardinality(DOMAIN orders \cup {Create.id})
    BY <1>5, FS_Subset
  <2>2. /\ Cardinality(DOMAIN orders') \in Nat /\ Cardinality(DOMAIN orders) \in Nat
        /\ Cardinality(DOMAIN orders \cup {Create.id}) \in Nat
    BY <1>2, <1>5, <2>1, FS_CardinalityType
  <2> QED BY <1>5, <2>1, <2>2
<1>7. /\ Cardinality(Unsaved') \in Nat /\ Cardinality(Unsaved) \in Nat
      /\ Cardinality(DOMAIN orders') \in Nat /\ Cardinality(DOMAIN orders) \in Nat
      /\ Cardinality(OrderIDs) \in Nat
  BY <1>2, <1>4, <1>6, OrderSagaAssumption, FS_CardinalityType
<1>8. Cardinality(DOMAIN orders) + Cardinality(Unsaved) <= Cardinality(OrderIDs)
  BY DEF IInv, RoomInv
<1>9. Cardinality(DOMAIN orders') + Cardinality(Unsaved') <= Cardinality(OrderIDs)
  BY <1>4, <1>6, <1>7, <1>8
<1> QED BY <1>9 DEF RoomInv

LEMMA SaveOrderKeeps ==
  ASSUME IInv, SaveOrder
  PROVE  IInv'
<1>1. /\ Create \in Creating /\ Create.at = "save" /\ CanInsert
      /\ Create' = [Create EXCEPT !.at = "publish"]
      /\ UNCHANGED <<reply, inbox, failed>>
      /\ OrderFrame
  BY Pieces, HandlerNow, Named DEF IInv, Types, InboxOK, SaveOrder, OrderFrame, life, Subscriptions
<1>2. /\ Create' \in Creating /\ Create'.at = "publish" /\ Create'.id = Create.id
      /\ Create'.cmd = Create.cmd /\ Create'.from = Create.from
  BY <1>1 DEF Creating
<1>3. /\ DOMAIN orders' = DOMAIN orders \cup {Create.id} /\ orders'[Create.id] = Create.cmd
      /\ orders' \in [DOMAIN orders' -> OrderCommands]
      /\ Create.id \in OrderIDs \ DOMAIN orders /\ Create.cmd \in OrderCommands
      /\ \A id \in DOMAIN orders : orders'[id] = orders[id]
  BY <1>1 DEF SaveOrder, Inserted, IInv, OwnInv, Types, TablesOK, Creating
<1>4. EventChain' /\ InHand' /\ HubInv' /\ HubOK' /\ LifeOK' /\ PaymentChain'
  BY <1>1, OrderFrameKeeps
<1>5. Types'
  <2>1. TablesOK'
    BY <1>1, <1>3 DEF IInv, Types, TablesOK, OrderFrame
  <2>2. CallersOK' /\ InboxOK'
    BY <1>1 DEF IInv, Types, CallersOK, InboxOK, OrderFrame
  <2>3. HandlersOK'
    BY <1>1, <1>2 DEF IInv, Types, HandlersOK, OrderFrame
  <2> QED BY <1>4, <2>1, <2>2, <2>3 DEF Types
<1>6. OrderChain' /\ SagaChain'
  BY <1>1, <1>2 DEF IInv, Chains, OrderChain, SagaChain, Asked, OrderFrame, Idle
<1>7. IDsInv'
  <2>1. \A id : Secret(id)' <=> Secret(id)
    BY <1>1, <1>2 DEF Secret, Idle
  <2>2. \A cmd : KnownKey(cmd) => KnownKey(cmd)'
    BY <1>3, <2>1 DEF KnownKey
  <2>3. KnownKey(Create.cmd)
    BY <1>1 DEF IInv, IDsInv, Chains, OrderChain, Asked, Creating, Idle
  <2> QED BY <1>1, <1>3, <2>1, <2>2, <2>3 DEF IInv, IDsInv, OrderFrame
<1>8. OwnInv'
  BY <1>1, <1>2, <1>3 DEF IInv, OwnInv, AnswersOwnOrder, OrderFrame, Idle
<1>9. PaidInv'
  BY <1>1, <1>2, <1>3 DEF IInv, PaidInv, Settled, OnItsWay, EffectiveKey, OrderFrame, Idle
<1>a. OrderedInv'
  BY <1>1, <1>2, <1>3 DEF IInv, OrderedInv, PaymentsWereOrdered, Backed, EffectiveKey, OrderFrame
<1>b. RoomInv'
  BY <1>1, <1>2, <1>3, SavedRoom
<1> QED BY <1>4, <1>5, <1>6, <1>7, <1>8, <1>9, <1>a, <1>b DEF IInv, Chains

(* The handler returns: it replies id to its caller.  The order it saved,  *)
(* if it saved one, is paid or its payment has failed.                     *)
LEMMA HandlerReturns ==
  ASSUME IInv, Create \in Creating, NEW id \in {NoKey, Create.id},
         id = Create.id => Create.at \in {"publish", "wait"},
         Create' = Idle, Fulfill(Create.from, id),
         inbox' = inbox, inbox["saga"] = {}, handler["saga"] = Idle, OrderFrame,
         failed \subseteq failed', failed' \subseteq Keys,
         orders' = orders \/ (Create.at = "save" /\ orders' = Inserted),
         NEW k, k = KeyOf(Create.id, Create.cmd), Create.id \in DOMAIN orders' => Settled(k)'
  PROVE  IInv'
<1>1. /\ Create.from \in Clients /\ Create.id \in OrderIDs /\ Create.cmd \in OrderCommands
      /\ Asked(Create.from, Create.cmd) /\ Create # Idle
  BY DEF IInv, Chains, OrderChain, Creating, Idle
<1>2. /\ reply' \in [Clients -> {Idle} \cup Replied]
      /\ \A c \in Clients : c # Create.from => reply'[c] = reply[c]
      /\ reply'[Create.from].id = id
  BY <1>1 DEF Fulfill, IInv, Types, CallersOK, Replied
<1>3. /\ DOMAIN orders \subseteq DOMAIN orders' /\ DOMAIN orders' \subseteq DOMAIN orders \cup {Create.id}
      /\ orders' \in [DOMAIN orders' -> OrderCommands]
      /\ \A i \in DOMAIN orders : orders'[i] = orders[i]
      /\ Create.id \in DOMAIN orders' => orders'[Create.id] = Create.cmd
      /\ id = Create.id => Create.id \in DOMAIN orders
  BY <1>1 DEF Inserted, IInv, OwnInv, Types, TablesOK, Creating
<1>4. EventChain' /\ InHand' /\ HubInv' /\ HubOK' /\ LifeOK' /\ PaymentChain'
  BY OrderFrameKeeps
<1>5. Types'
  <2>1. TablesOK'
    BY <1>1, <1>3 DEF IInv, Types, TablesOK, OrderFrame
  <2>2. CallersOK' /\ InboxOK'
    BY <1>2 DEF IInv, Types, CallersOK, InboxOK, OrderFrame
  <2>3. HandlersOK'
    BY DEF IInv, Types, HandlersOK, OrderFrame
  <2> QED BY <1>4, <2>1, <2>2, <2>3 DEF Types
<1>6. OrderChain' /\ SagaChain'
  <2>1. \A m \in inbox["create_order"] : m.from \in Clients /\ m.from # Create.from
    BY <1>1 DEF IInv, Chains, OrderChain, Types, InboxOK, OrderMessage
  <2> QED BY <1>1, <1>2, <2>1 DEF IInv, Chains, OrderChain, SagaChain, Asked, OrderFrame
<1>7. IDsInv'
  <2>1. \A i : Secret(i)' => Secret(i)
    BY <1>1, <1>2 DEF Secret
  <2>2. \A cmd : KnownKey(cmd) => KnownKey(cmd)'
    BY <1>3, <2>1 DEF KnownKey
  <2>3. KnownKey(Create.cmd)
    BY <1>1 DEF IInv, IDsInv, Asked, Idle
  <2>4. \A c \in Clients : reply[c] # Idle /\ reply[c].id # NoKey => reply[c].id # Create.id
    BY <1>1 DEF IInv, OwnInv
  <2>5. \A c, d \in Clients :
          reply'[c] # Idle /\ reply'[d] # Idle /\ c # d /\ reply'[c].id = reply'[d].id
            => reply'[c].id = NoKey
    BY <1>2, <2>4 DEF IInv, IDsInv
  <2> QED BY <1>3, <2>1, <2>2, <2>3, <2>5 DEF IInv, IDsInv, OrderFrame
<1>8. OwnInv'
  <2>1. AnswersOwnOrder'
    BY <1>3 DEF IInv, OwnInv, AnswersOwnOrder, OrderFrame
  <2>2. \A c \in Clients : reply'[c] # Idle /\ reply'[c].id # NoKey =>
          reply'[c].id \in DOMAIN orders' /\ orders'[reply'[c].id] = client'[c].cmd
    BY <1>1, <1>2, <1>3 DEF IInv, OwnInv, OrderFrame, Asked
  <2> QED BY <1>3, <2>1, <2>2 DEF IInv, OwnInv, OrderFrame, Idle
<1>9. PaidInv'
  <2>1. \A i \in DOMAIN orders' : Settled(EffectiveKey(i))'
    <3> SUFFICES ASSUME NEW i \in DOMAIN orders'
                 PROVE  Settled(EffectiveKey(i))'
      OBVIOUS
    <3>1. CASE i = Create.id
      BY <1>3, <3>1 DEF EffectiveKey, KeyOf, Settled
    <3>2. CASE i # Create.id
      BY <1>1, <1>3, <3>2 DEF IInv, PaidInv, EffectiveKey, Settled, OrderFrame
    <3> QED BY <3>1, <3>2
  <2> QED BY <2>1 DEF IInv, PaidInv, Settled, OnItsWay, OrderFrame, Idle
<1>a. OrderedInv'
  BY <1>3 DEF IInv, OrderedInv, PaymentsWereOrdered, Backed, EffectiveKey, OrderFrame
<1>b. RoomInv'
  <2>1. CASE Create.at = "save"
    BY <1>3, <2>1, SavedRoom DEF Idle
  <2>2. CASE Create.at # "save"
    BY <2>2, RoomKept DEF Unsaved, Idle
  <2> QED BY <2>1, <2>2
<1> QED BY <1>4, <1>5, <1>6, <1>7, <1>8, <1>9, <1>a, <1>b DEF IInv, Chains

LEMMA ReturnsKeeps ==
  ASSUME IInv, SaveOrderConflicts \/ SaveOrderFails \/ PublishOrderFails \/ OrderPublished
  PROVE  IInv'
<1>k. PICK k : k = KeyOf(Create.id, Create.cmd)
  OBVIOUS
<1>1. /\ Create \in Creating /\ Create' = Idle /\ inbox' = inbox
      /\ OrderFrame
  BY Pieces, HandlerNow, Named
     DEF IInv, Types, InboxOK, SaveOrderConflicts, SaveOrderFails, PublishOrderFails,
         OrderPublished, OrderFrame, life, Subscriptions
<1>2. /\ Create.id \in OrderIDs /\ Create.cmd \in OrderCommands
      /\ KeyOf(Create.id, Create.cmd) \in Keys
  BY <1>1, CommandKeys DEF Creating
<1>3. failed \subseteq failed' /\ failed' \subseteq Keys
  BY <1>2 DEF IInv, Types, TablesOK, SaveOrderConflicts, SaveOrderFails, PublishOrderFails,
              OrderPublished, Fails
<1>4. CASE SaveOrderConflicts \/ SaveOrderFails
  <2>1. inbox["saga"] = {} /\ handler["saga"] = Idle
    BY <1>4 DEF SaveOrderConflicts, SaveOrderFails, IInv, Chains, SagaChain
  <2>2. orders' = orders \/ (Create.at = "save" /\ orders' = Inserted)
    BY <1>4 DEF SaveOrderConflicts, SaveOrderFails
  <2>3. Create.id \in DOMAIN orders' => Settled(k)'
    <3>1. CASE SaveOrderConflicts
      BY <3>1 DEF SaveOrderConflicts, IInv, OwnInv
    <3>2. CASE SaveOrderFails
      BY <1>k, <3>2 DEF SaveOrderFails, Fails, Settled
    <3> QED BY <1>4, <3>1, <3>2
  <2>4. Fulfill(Create.from, NoKey) /\ NoKey # Create.id
    BY <1>2, <1>4, OrderSagaAssumption DEF SaveOrderConflicts, SaveOrderFails, Keys
  <2> QED BY <1>1, <1>2, <1>3, <2>1, <2>2, <2>3, <2>4, <1>k, HandlerReturns
<1>5. CASE PublishOrderFails \/ OrderPublished
  <2>1. inbox["saga"] = {} /\ handler["saga"] = Idle
    BY <1>5, Pieces DEF PublishOrderFails, OrderPublished, Acked, IInv, Chains, SagaChain,
                        Types, InboxOK, CreatedMessage, Following
  <2>2. orders' = orders /\ Fulfill(Create.from, Create.id) /\ Create.at \in {"publish", "wait"}
    BY <1>5 DEF PublishOrderFails, OrderPublished
  <2>3. Settled(k)'
    <3>1. CASE PublishOrderFails
      BY <1>k, <3>1 DEF PublishOrderFails, Fails, Settled
    <3>2. CASE OrderPublished
      <4>1. ~OnItsWay("saga", k)
        BY <2>1 DEF IInv, Chains, PaymentChain, Expects, OnItsWay
      <4>2. Settled(k)
        BY <1>k, <2>1, <3>2, <4>1 DEF OrderPublished, IInv, PaidInv
      <4> QED BY <1>1, <1>3, <4>2 DEF Settled, OrderFrame
    <3> QED BY <1>5, <3>1, <3>2
  <2> QED BY <1>1, <1>2, <1>3, <2>1, <2>2, <2>3, <1>k, HandlerReturns
<1> QED BY <1>4, <1>5

LEMMA PublishOrderKeeps ==
  ASSUME IInv, PublishOrder
  PROVE  IInv'
<1>k. PICK k : k = KeyOf(Create.id, Create.cmd)
  OBVIOUS
<1>m. PICK m : m = [from |-> "create_order", key |-> k, amount |-> Create.cmd.amount]
  OBVIOUS
<1>1. /\ Create \in Creating /\ Create.at = "publish" /\ Create # Idle
      /\ Create' = [Create EXCEPT !.at = "wait"]
      /\ Sent("saga", m)
      /\ UNCHANGED <<orders, reply, failed>>
  BY <1>k, <1>m, Pieces, HandlerNow, Named
     DEF IInv, Types, PublishOrder, Subscriptions, Idle
<1>2. /\ inbox'["saga"] = inbox["saga"] \cup {m}
      /\ inbox'["create_order"] = inbox["create_order"]
      /\ OrderFrame
  BY <1>1, RouterRuns, SentTo, HandlerNow, Named
     DEF IInv, Types, PublishOrder, OrderFrame, life, Subscriptions
<1>3. /\ Create' \in Creating /\ Create'.at = "wait" /\ Create'.id = Create.id
      /\ Create'.cmd = Create.cmd /\ Create'.from = Create.from
      /\ Create.id \in DOMAIN orders /\ orders[Create.id] = Create.cmd
  BY <1>1 DEF Creating, IInv, OwnInv
<1>4. m \in CreatedMessage /\ m.key = k /\ Backed(m.key, m.amount)
  <2>1. k \in Keys /\ Create.cmd.amount \in Nat \ {0}
    BY <1>1, <1>k, CommandKeys DEF Creating
  <2> QED BY <1>k, <1>m, <1>3, <2>1 DEF CreatedMessage, Backed, EffectiveKey, KeyOf
<1>5. EventChain' /\ InHand' /\ HubInv' /\ HubOK' /\ LifeOK' /\ PaymentChain'
  BY <1>1, <1>2, OrderFrameKeeps
<1>6. Types'
  <2>1. TablesOK' /\ CallersOK'
    BY <1>1, <1>2 DEF IInv, Types, TablesOK, CallersOK, OrderFrame
  <2>2. InboxOK'
    BY <1>2, <1>4 DEF IInv, Types, InboxOK, OrderFrame
  <2>3. HandlersOK'
    BY <1>2, <1>3 DEF IInv, Types, HandlersOK, OrderFrame
  <2> QED BY <1>5, <2>1, <2>2, <2>3 DEF Types
<1>7. OrderChain' /\ SagaChain'
  BY <1>1, <1>2, <1>3 DEF IInv, Chains, OrderChain, SagaChain, Asked, OrderFrame, Idle
<1>8. IDsInv'
  <2>1. \A id : Secret(id)' <=> Secret(id)
    BY <1>1, <1>3 DEF Secret, Idle
  <2>2. \A cmd : KnownKey(cmd) => KnownKey(cmd)'
    BY <1>1, <2>1 DEF KnownKey
  <2> QED BY <1>1, <1>2, <2>1, <2>2 DEF IInv, IDsInv, OrderFrame
<1>9. OwnInv'
  BY <1>1, <1>2, <1>3 DEF IInv, OwnInv, AnswersOwnOrder, OrderFrame, Idle
<1>a. PaidInv'
  <2>1. Create' # Idle
    BY <1>3 DEF Idle
  <2>2. KeyOf(Create'.id, Create'.cmd) = k
    BY <1>k, <1>3 DEF KeyOf
  <2> QED BY <1>1, <1>2, <1>3, <1>4, <2>1, <2>2
          DEF IInv, PaidInv, Settled, OnItsWay, EffectiveKey, KeyOf, OrderFrame
<1>b. OrderedInv'
  BY <1>1, <1>2, <1>4 DEF IInv, OrderedInv, PaymentsWereOrdered, Backed, EffectiveKey, OrderFrame
<1>c. RoomInv'
  BY <1>1, <1>2, <1>3, RoomKept DEF Unsaved
<1> QED BY <1>5, <1>6, <1>7, <1>8, <1>9, <1>a, <1>b, <1>c DEF IInv, Chains

(* What waits to be saved has its room.                                    *)
LEMMA FreeOrder ==
  ASSUME IInv, inbox["create_order"] # {}
  PROVE  FreeID \in OrderIDs \ DOMAIN orders
<1>1. Unsaved # {}
  BY DEF Unsaved, IInv, Types, InboxOK, OrderMessage
<1>2. IsFiniteSet(Unsaved) /\ IsFiniteSet(DOMAIN orders)
  BY OrderSagaAssumption, FS_Subset DEF IInv, Types, TablesOK, Unsaved
<1>3. /\ Cardinality(Unsaved) \in Nat /\ Cardinality(DOMAIN orders) \in Nat
      /\ Cardinality(OrderIDs) \in Nat /\ Cardinality(Unsaved) # 0
  BY <1>1, <1>2, OrderSagaAssumption, FS_CardinalityType, FS_EmptySet
<1>4. Cardinality(DOMAIN orders) < Cardinality(OrderIDs)
  BY <1>3 DEF IInv, RoomInv
<1>5. DOMAIN orders # OrderIDs
  BY <1>3, <1>4
<1> QED BY <1>5 DEF FreeID, IInv, Types, TablesOK

LEMMA TakeOrderKeeps ==
  ASSUME IInv, NEW m \in inbox["create_order"], TakeOrder(m)
  PROVE  IInv'
<1>1. /\ Create = Idle
      /\ Create' = [at |-> "save", from |-> m.from, id |-> FreeID, cmd |-> m.cmd]
      /\ UNCHANGED <<orders, reply, failed>>
      /\ inbox'["create_order"] = inbox["create_order"] \ {m}
      /\ inbox'["saga"] = inbox["saga"]
      /\ OrderFrame
  BY TakenFrom, HandlerNow, Named
     DEF IInv, Types, TakeOrder, OrderFrame, life, Subscriptions
<1>2. FreeID \in OrderIDs \ DOMAIN orders
  BY FreeOrder
<1>3. m \in OrderMessage /\ Asked(m.from, m.cmd)
  BY DEF IInv, Types, InboxOK, Chains, OrderChain
<1>4. /\ Create' \in Creating /\ Create'.at = "save" /\ Create'.id = FreeID
      /\ Create'.cmd = m.cmd /\ Create'.from = m.from /\ Create' # Idle
  BY <1>1, <1>2, <1>3 DEF Creating, OrderMessage, Idle
<1>5. EventChain' /\ InHand' /\ HubInv' /\ HubOK' /\ LifeOK' /\ PaymentChain'
  BY <1>1, OrderFrameKeeps
<1>6. Types'
  <2>1. TablesOK' /\ CallersOK' /\ InboxOK'
    BY <1>1 DEF IInv, Types, TablesOK, CallersOK, InboxOK, OrderFrame
  <2>3. HandlersOK'
    BY <1>1, <1>4 DEF IInv, Types, HandlersOK, OrderFrame
  <2> QED BY <1>5, <2>1, <2>3 DEF Types
<1>7. OrderChain' /\ SagaChain'
  <2>1. \A n \in inbox["create_order"] \ {m} : n.from # m.from
    BY <1>3 DEF IInv, Types, InboxOK, OrderMessage, Chains, OrderChain, Asked
  <2>2. inbox["saga"] = {} /\ handler["saga"] = Idle
    BY <1>1 DEF IInv, Chains, SagaChain, Idle
  <2> QED BY <1>1, <1>3, <1>4, <2>1, <2>2 DEF IInv, Chains, OrderChain, SagaChain, Asked, OrderFrame
<1>8. IDsInv'
  <2>1. \A id : Secret(id)' => Secret(id) \/ id = FreeID
    BY <1>1, <1>4 DEF Secret, Idle
  <2>2. FreeID \notin CustomKeys \cup DOMAIN orders \cup {NoKey}
    BY <1>2, OrderSagaAssumption DEF Keys
  <2>3. \A cmd : KnownKey(cmd) => KnownKey(cmd)'
    BY <1>1, <2>1, <2>2 DEF KnownKey
  <2>4. \A c \in Clients : client[c] # Idle /\ client[c].kind = "order" => client[c].result # FreeID
    BY <2>2 DEF IInv, OwnInv
  <2> QED BY <1>1, <2>1, <2>3, <2>4 DEF IInv, IDsInv, OrderFrame
<1>9. OwnInv'
  BY <1>1, <1>2, <1>4 DEF IInv, OwnInv, AnswersOwnOrder, OrderFrame
<1>a. PaidInv'
  BY <1>1, <1>4 DEF IInv, PaidInv, Settled, OnItsWay, EffectiveKey, OrderFrame
<1>b. OrderedInv'
  BY <1>1 DEF IInv, OrderedInv, PaymentsWereOrdered, Backed, EffectiveKey, OrderFrame
<1>c. RoomInv'
  BY <1>1, <1>4, RoomKept DEF Unsaved
<1> QED BY <1>5, <1>6, <1>7, <1>8, <1>9, <1>a, <1>b, <1>c DEF IInv, Chains

LEMMA RejectOrderKeeps ==
  ASSUME IInv, NEW m \in inbox["create_order"], RejectOrder(m)
  PROVE  IInv'
<1>1. /\ Create = Idle /\ handler' = handler
      /\ UNCHANGED <<orders, failed>>
      /\ inbox'["create_order"] = inbox["create_order"] \ {m}
      /\ inbox'["saga"] = inbox["saga"]
      /\ OrderFrame
  BY TakenFrom, HandlerNow, Named
     DEF IInv, Types, HandlersOK, RejectOrder, OrderFrame, life, Subscriptions
<1>2. m \in OrderMessage /\ m.from \in Clients /\ Asked(m.from, m.cmd) /\ Create' = Idle
  BY <1>1, Named DEF IInv, Types, InboxOK, Chains, OrderChain, OrderMessage
<1>3. /\ reply' \in [Clients -> {Idle} \cup Replied]
      /\ \A c \in Clients : c # m.from => reply'[c] = reply[c]
      /\ reply'[m.from].id = NoKey
  BY <1>2 DEF RejectOrder, Fulfill, IInv, Types, CallersOK, Replied
<1>5. EventChain' /\ InHand' /\ HubInv' /\ HubOK' /\ LifeOK' /\ PaymentChain'
  BY <1>1, OrderFrameKeeps
<1>6. Types'
  <2>1. TablesOK' /\ CallersOK' /\ InboxOK'
    BY <1>1, <1>3 DEF IInv, Types, TablesOK, CallersOK, InboxOK, OrderFrame
  <2>3. HandlersOK'
    BY <1>1, <1>2 DEF IInv, Types, HandlersOK, OrderFrame
  <2> QED BY <1>5, <2>1, <2>3 DEF Types
<1>7. OrderChain' /\ SagaChain'
  <2>1. \A n \in inbox["create_order"] \ {m} : n.from # m.from /\ n.from \in Clients
    BY <1>2 DEF IInv, Types, InboxOK, OrderMessage, Chains, OrderChain, Asked
  <2>2. inbox["saga"] = {} /\ handler["saga"] = Idle
    BY <1>1 DEF IInv, Chains, SagaChain, Idle
  <2> QED BY <1>1, <1>2, <1>3, <2>1, <2>2 DEF IInv, Chains, OrderChain, SagaChain, Asked, OrderFrame
<1>8. IDsInv'
  <2>1. \A id : Secret(id)' => Secret(id)
    BY <1>1, <1>2, <1>3 DEF Secret
  <2>3. \A cmd : KnownKey(cmd) => KnownKey(cmd)'
    BY <1>1, <2>1 DEF KnownKey
  <2> QED BY <1>1, <1>3, <2>1, <2>3 DEF IInv, IDsInv, OrderFrame
<1>9. OwnInv'
  BY <1>1, <1>2, <1>3 DEF IInv, OwnInv, AnswersOwnOrder, OrderFrame, Idle
<1>a. PaidInv'
  BY <1>1, <1>2 DEF IInv, PaidInv, Settled, OnItsWay, EffectiveKey, OrderFrame, Idle
<1>b. OrderedInv'
  BY <1>1 DEF IInv, OrderedInv, PaymentsWereOrdered, Backed, EffectiveKey, OrderFrame
<1>c. RoomInv'
  BY <1>1, <1>2, RoomKept DEF Unsaved, Idle
<1> QED BY <1>5, <1>6, <1>7, <1>8, <1>9, <1>a, <1>b, <1>c DEF IInv, Chains

-----------------------------------------------------------------------------
(* The callers.                                                            *)

CallerFrame ==
  /\ UNCHANGED <<orders, book, handler, sub, up, stopping>>
  /\ DOMAIN inbox' = Subscriptions
  /\ inbox'["saga"] = inbox["saga"] /\ inbox'["stream"] = inbox["stream"]

LEMMA CallerFrameKeeps ==
  ASSUME IInv, CallerFrame, failed \subseteq failed'
  PROVE  /\ SagaChain' /\ EventChain' /\ InHand' /\ HubInv' /\ HubOK' /\ HandlersOK'
         /\ Create' = Create /\ Paying' = Paying /\ Streaming' = Streaming
<1>1. Create' = Create /\ Paying' = Paying /\ Streaming' = Streaming
  BY Named DEF CallerFrame
<1>2. SagaChain' /\ EventChain'
  BY <1>1 DEF IInv, Chains, SagaChain, EventChain, CallerFrame
<1>3. InHand' /\ HubInv'
  BY <1>1 DEF IInv, InHand, HubInv, NoSendOnClosed, Unsent, Heard, CallerFrame
<1>4. HubOK' /\ HandlersOK'
  BY <1>1 DEF IInv, Types, HubOK, HandlersOK, CallerFrame
<1> QED BY <1>1, <1>2, <1>3, <1>4

(* Nothing in the service belongs to a caller that does not wait.          *)
LEMMA NobodyWaits ==
  ASSUME IInv, NEW c \in Clients, client[c].at # "wait"
  PROVE  /\ reply[c] = Idle
         /\ \A m \in inbox["create_order"] : m.from # c
         /\ Create # Idle => Create.from # c
         /\ \A m \in inbox["process_payment"] : m.from # c
         /\ Paying # Idle => Paying.from # c
  BY OrderSagaAssumption DEF IInv, Chains, OrderChain, PaymentChain, Asked, Expects

(* The names clients know are the ids of stored orders, or keys.           *)
LEMMA NamesKnown ==
  ASSUME IInv, NEW name \in KnownNames \cup {NoKey}
  PROVE  /\ name \in CustomKeys \cup DOMAIN orders \cup {NoKey} /\ ~Secret(name)
         /\ name \in Keys \cup {NoKey}
<1>1. \A id : Secret(id) => id \in OrderIDs
  BY Pieces DEF IInv, Secret, Creating, Replied
<1>2. CASE name \in CustomKeys \cup {NoKey}
  BY <1>1, <1>2, OrderSagaAssumption DEF Keys, Secret
<1>3. CASE \E c \in Clients : /\ client[c] # Idle /\ client[c].kind = "order"
                              /\ client[c].result # NoKey /\ name = client[c].result
  BY <1>3 DEF IInv, OwnInv, IDsInv, Types, TablesOK, Keys
<1> QED BY <1>2, <1>3 DEF KnownNames

LEMMA AsksOrder ==
  ASSUME IInv, NEW c \in Clients, NEW cmd \in OrderCommands, CreateOrder(c, cmd)
  PROVE  IInv'
<1>m. PICK m : m = [from |-> c, cmd |-> cmd]
  OBVIOUS
<1>1. /\ Http \in up /\ client[c].at # "wait" /\ OrderRoom /\ cmd.key \in KnownNames \cup {NoKey}
      /\ client' = [client EXCEPT ![c] = Waiting("order", cmd)]
      /\ Sent("create_order", m)
      /\ UNCHANGED <<orders, book, reply, handler, sub, failed, up, stopping>>
  BY <1>m DEF CreateOrder, Accepts, life
<1>2. {Router, Stream} \subseteq up
  BY <1>1 DEF IInv, Types, LifeOK, Http, Router, Stream
<1>3. /\ inbox'["create_order"] = inbox["create_order"] \cup {m}
      /\ inbox'["process_payment"] = inbox["process_payment"]
      /\ CallerFrame
  BY <1>1, <1>2, SentTo DEF IInv, Types, Subscribed, CallerFrame, Subscriptions
<1>4. /\ SagaChain' /\ EventChain' /\ InHand' /\ HubInv' /\ HubOK' /\ HandlersOK'
      /\ Create' = Create /\ Paying' = Paying /\ Streaming' = Streaming
  BY <1>1, <1>3, CallerFrameKeeps
<1>5. /\ \A d \in Clients : d # c => client'[d] = client[d]
      /\ client'[c] \in OrderAsked /\ client'[c] # Idle
      /\ client'[c].at = "wait" /\ client'[c].kind = "order" /\ client'[c].cmd = cmd
      /\ client'[c].result = NoKey
      /\ client' \in [Clients -> {Idle} \cup OrderAsked \cup PayAsked]
  BY <1>1 DEF IInv, Types, CallersOK, Waiting, OrderAsked, Idle
<1>6. Types'
  <2>1. TablesOK' /\ CallersOK' /\ LifeOK'
    BY <1>1, <1>2, <1>5 DEF IInv, Types, TablesOK, CallersOK, LifeOK
  <2>2. InboxOK'
    BY <1>m, <1>3 DEF IInv, Types, InboxOK, OrderMessage, CallerFrame
  <2> QED BY <1>4, <2>1, <2>2 DEF Types
<1>7. OrderChain'
  BY <1>m, <1>1, <1>3, <1>4, <1>5, NobodyWaits
     DEF IInv, Chains, OrderChain, Asked, Types, InboxOK, OrderMessage
<1>8. PaymentChain'
  BY <1>1, <1>3, <1>4, <1>5, NobodyWaits
     DEF IInv, Chains, PaymentChain, Expects, Types, InboxOK, Payment, HandlersOK, Settling
<1>9. IDsInv'
  <2>1. \A id : Secret(id)' <=> Secret(id)
    BY <1>1, <1>4 DEF Secret
  <2>2. \A x : KnownKey(x) => KnownKey(x)'
    BY <1>1, <2>1 DEF KnownKey
  <2>3. KnownKey(cmd)
    BY <1>1, NamesKnown DEF KnownKey
  <2>4. ~Secret(NoKey)
    BY DEF Secret
  <2> QED BY <1>1, <1>5, <2>1, <2>2, <2>3, <2>4 DEF IInv, IDsInv
<1>a. OwnInv'
  BY <1>1, <1>4, <1>5, NobodyWaits DEF IInv, OwnInv, AnswersOwnOrder
<1>b. PaidInv'
  BY <1>1, <1>3, <1>4, <1>5 DEF IInv, PaidInv, Settled, OnItsWay, EffectiveKey, CallerFrame
<1>c. OrderedInv'
  BY <1>1, <1>3 DEF IInv, OrderedInv, PaymentsWereOrdered, Backed, EffectiveKey, CallerFrame
<1>d. RoomInv'
  <2> DEFINE W == {d \in Clients : client[d].at = "wait" /\ client[d].kind = "order"}
  <2>1. Unsaved' \subseteq W \cup {c}
    <3>1. \A n \in inbox["create_order"] : n.from \in W
      BY DEF IInv, Chains, OrderChain, Asked, Types, InboxOK, OrderMessage
    <3>2. Create.at = "save" => Create.from \in W
      BY Pieces DEF IInv, Chains, OrderChain, Asked, Creating, Idle
    <3> QED BY <1>m, <1>3, <1>4, <3>1, <3>2 DEF Unsaved
  <2>2. IsFiniteSet(W) /\ IsFiniteSet(DOMAIN orders) /\ IsFiniteSet(W \cup {c})
    BY OrderSagaAssumption, FS_Subset, FS_AddElement DEF IInv, Types, TablesOK
  <2>3. Cardinality(W) \in Nat /\ Cardinality(W \cup {c}) \in {Cardinality(W), Cardinality(W) + 1}
    BY <2>2, FS_CardinalityType, FS_AddElement
  <2>4. IsFiniteSet(Unsaved') /\ Cardinality(Unsaved') <= Cardinality(W \cup {c})
    BY <2>1, <2>2, FS_Subset
  <2>5. /\ Cardinality(Unsaved') \in Nat /\ Cardinality(DOMAIN orders) \in Nat
        /\ Cardinality(OrderIDs) \in Nat
    BY <2>2, <2>4, OrderSagaAssumption, FS_CardinalityType
  <2>6. Cardinality(DOMAIN orders) + Cardinality(W) < Cardinality(OrderIDs)
    BY <1>1 DEF OrderRoom
  <2>7. RoomInv' <=> Cardinality(DOMAIN orders) + Cardinality(Unsaved') <= Cardinality(OrderIDs)
    BY <1>1 DEF RoomInv
  <2> HIDE DEF W
  <2> QED BY <2>3, <2>4, <2>5, <2>6, <2>7
<1> QED BY <1>4, <1>6, <1>7, <1>8, <1>9, <1>a, <1>b, <1>c, <1>d DEF IInv, Chains

LEMMA AsksPayment ==
  ASSUME IInv, NEW c \in Clients, NEW cmd \in PayCommands, ProcessPayment(c, cmd)
  PROVE  IInv'
<1>m. PICK m : m = [from |-> c, key |-> cmd.key, amount |-> cmd.amount]
  OBVIOUS
<1>1. /\ Http \in up /\ client[c].at # "wait"
      /\ client' = [client EXCEPT ![c] = Waiting("pay", cmd)]
      /\ Sent("process_payment", m)
      /\ UNCHANGED <<orders, book, reply, handler, sub, failed, up, stopping>>
  BY <1>m DEF ProcessPayment, Accepts, life
<1>2. {Router, Stream} \subseteq up
  BY <1>1 DEF IInv, Types, LifeOK, Http, Router, Stream
<1>3. /\ inbox'["process_payment"] = inbox["process_payment"] \cup {m}
      /\ inbox'["create_order"] = inbox["create_order"]
      /\ CallerFrame
  BY <1>1, <1>2, SentTo DEF IInv, Types, Subscribed, CallerFrame, Subscriptions
<1>4. /\ SagaChain' /\ EventChain' /\ InHand' /\ HubInv' /\ HubOK' /\ HandlersOK'
      /\ Create' = Create /\ Paying' = Paying /\ Streaming' = Streaming
  BY <1>1, <1>3, CallerFrameKeeps
<1>5. /\ \A d \in Clients : d # c => client'[d] = client[d]
      /\ client'[c] \in PayAsked /\ client'[c] # Idle
      /\ client'[c].at = "wait" /\ client'[c].kind = "pay" /\ client'[c].cmd = cmd
      /\ client'[c].result = NoKey
      /\ client' \in [Clients -> {Idle} \cup OrderAsked \cup PayAsked]
  BY <1>1 DEF IInv, Types, CallersOK, Waiting, PayAsked, Idle
<1>0. /\ cmd \in [key : Keys, amount : Nat \ {0}] /\ m \in Payment /\ m.from = c /\ m.key = cmd.key
      /\ [key |-> m.key, amount |-> m.amount] \in PayCommands /\ c # "saga"
  BY <1>m, OrderSagaAssumption DEF Payment
<1>6. Types'
  <2>1. TablesOK' /\ CallersOK' /\ LifeOK'
    BY <1>1, <1>2, <1>5 DEF IInv, Types, TablesOK, CallersOK, LifeOK
  <2>2. InboxOK'
    BY <1>0, <1>3 DEF IInv, Types, InboxOK, CallerFrame
  <2> QED BY <1>4, <2>1, <2>2 DEF Types
<1>7. OrderChain'
  BY <1>1, <1>3, <1>4, <1>5, NobodyWaits
     DEF IInv, Chains, OrderChain, Asked, Types, InboxOK, OrderMessage
<1>8. PaymentChain'
  BY <1>0, <1>1, <1>3, <1>4, <1>5, NobodyWaits
     DEF IInv, Chains, PaymentChain, Expects, Types, InboxOK, Payment, HandlersOK, Settling, CallerFrame
<1>9. IDsInv'
  <2>1. \A id : Secret(id)' <=> Secret(id)
    BY <1>1, <1>4 DEF Secret
  <2>2. \A x : KnownKey(x) => KnownKey(x)'
    BY <1>1, <2>1 DEF KnownKey
  <2> QED BY <1>1, <1>5, <2>1, <2>2 DEF IInv, IDsInv
<1>a. OwnInv'
  BY <1>1, <1>4, <1>5, NobodyWaits DEF IInv, OwnInv, AnswersOwnOrder
<1>b. PaidInv'
  BY <1>0, <1>1, <1>3, <1>4, <1>5 DEF IInv, PaidInv, Settled, OnItsWay, EffectiveKey, CallerFrame
<1>c. OrderedInv'
  BY <1>0, <1>1, <1>3 DEF IInv, OrderedInv, PaymentsWereOrdered, Backed, EffectiveKey, CallerFrame
<1>d. RoomInv'
  BY <1>1, <1>3, <1>4, RoomKept DEF Unsaved
<1> QED BY <1>4, <1>6, <1>7, <1>8, <1>9, <1>a, <1>b, <1>c, <1>d DEF IInv, Chains

(* A caller is answered once nothing of its request is on its way.         *)
LEMMA AnswerKeeps ==
  ASSUME IInv, NEW c \in Clients, client[c].at = "wait", NEW result, AnswerTo(c, result),
         Acked(IF client[c].kind = "order" THEN "create_order" ELSE "process_payment", c),
         UNCHANGED <<orders, book, inbox, handler, sub, up, stopping>>,
         failed \subseteq failed', failed' \subseteq Keys,
         client[c].kind = "order" =>
           result = NoKey \/ (reply[c] # Idle /\ result = reply[c].id),
         client[c].kind = "pay" =>
           result \in Keys \cup {NoKey} /\ (result = NoKey => client[c].cmd.key \in failed')
  PROVE  IInv'
<1>1. CallerFrame
  BY DEF CallerFrame, IInv, Types, InboxOK
<1>2. /\ SagaChain' /\ EventChain' /\ InHand' /\ HubInv' /\ HubOK' /\ HandlersOK'
      /\ Create' = Create /\ Paying' = Paying /\ Streaming' = Streaming
  BY <1>1, CallerFrameKeeps
<1>3. /\ client[c] \in OrderAsked \cup PayAsked /\ client[c] # Idle
      /\ client[c].kind \in {"order", "pay"}
      /\ client[c].kind = "order" => result \in OrderIDs \cup {NoKey}
  BY Pieces DEF IInv, OrderAsked, PayAsked, Idle, Replied
<1>4. /\ \A d \in Clients : d # c => client'[d] = client[d] /\ reply'[d] = reply[d]
      /\ client'[c].at = "answered" /\ client'[c].kind = client[c].kind
      /\ client'[c].cmd = client[c].cmd /\ client'[c].result = result
      /\ reply'[c] = Idle /\ client'[c] # Idle
      /\ client'[c] \in OrderAsked \cup PayAsked
      /\ client' \in [Clients -> {Idle} \cup OrderAsked \cup PayAsked]
      /\ reply' \in [Clients -> {Idle} \cup Replied]
  BY <1>3 DEF AnswerTo, IInv, Types, CallersOK, OrderAsked, PayAsked, Idle
<1>5. Types'
  <2>1. TablesOK' /\ CallersOK' /\ LifeOK'
    BY <1>1, <1>4 DEF IInv, Types, TablesOK, CallersOK, LifeOK
  <2>2. InboxOK'
    BY <1>1 DEF IInv, Types, InboxOK
  <2> QED BY <1>2, <2>1, <2>2 DEF Types
<1>6. /\ \A m \in inbox["create_order"] : m.from # c
      /\ Create # Idle => Create.from # c
      /\ \A m \in inbox["process_payment"] : m.from # c
      /\ Paying # Idle => Paying.from # c
  <2>1. CASE client[c].kind = "order"
    BY <2>1, OrderSagaAssumption DEF Acked, Create, IInv, Chains, PaymentChain, Expects
  <2>2. CASE client[c].kind = "pay"
    BY <2>2 DEF Acked, Paying, IInv, Chains, OrderChain, Asked
  <2> QED BY <1>3, <2>1, <2>2
<1>7. OrderChain'
  BY <1>1, <1>2, <1>4, <1>6
     DEF IInv, Chains, OrderChain, Asked, Types, InboxOK, OrderMessage, HandlersOK, Creating
<1>8. PaymentChain'
  BY <1>1, <1>2, <1>4, <1>6
     DEF IInv, Chains, PaymentChain, Expects, Types, InboxOK, Payment, HandlersOK, Settling, CallerFrame
<1>9. IDsInv'
  <2>1. \A id : Secret(id)' => Secret(id)
    BY <1>2, <1>4 DEF Secret
  <2>2. \A x : KnownKey(x) => KnownKey(x)'
    BY <1>1, <2>1 DEF KnownKey, CallerFrame
  <2>3. client[c].kind = "order" => ~Secret(result)'
    BY <1>2, <1>4 DEF Secret, IInv, OwnInv, IDsInv
  <2>4. \A id \in DOMAIN orders' : KnownKey(orders[id])'
    BY <1>1, <2>2 DEF IInv, IDsInv, CallerFrame
  <2>5. \A d \in Clients : client'[d] # Idle /\ client'[d].kind = "order" => KnownKey(client[d].cmd)'
    BY <1>3, <1>4, <2>2 DEF IInv, IDsInv
  <2>6. \A d \in Clients : client'[d] # Idle /\ client'[d].kind = "order" => ~Secret(client[d].result)'
    BY <1>3, <1>4, <2>1, <2>3 DEF IInv, IDsInv
  <2>7. \A d, e \in Clients :
          reply'[d] # Idle /\ reply'[e] # Idle /\ d # e /\ reply'[d].id = reply'[e].id
            => reply'[d].id = NoKey
    BY <1>4 DEF IInv, IDsInv
  <2> QED BY <2>4, <2>5, <2>6, <2>7 DEF IDsInv
<1>a. OwnInv'
  BY <1>1, <1>2, <1>4 DEF IInv, OwnInv, AnswersOwnOrder, CallerFrame
<1>b. PaidInv'
  BY <1>1, <1>2, <1>4 DEF IInv, PaidInv, Settled, OnItsWay, EffectiveKey, CallerFrame
<1>c. OrderedInv'
  BY <1>1 DEF IInv, OrderedInv, PaymentsWereOrdered, Backed, EffectiveKey, CallerFrame
<1>d. RoomInv'
  BY <1>1, <1>2, RoomKept DEF Unsaved, CallerFrame
<1> QED BY <1>2, <1>5, <1>7, <1>8, <1>9, <1>a, <1>b, <1>c, <1>d DEF IInv, Chains

LEMMA AnswersKeep ==
  ASSUME IInv, NEW c \in Clients, AnswerOrder(c) \/ AnswerPayment(c) \/ AnswerError(c)
  PROVE  IInv'
<1>0. client[c].at = "wait" /\ client[c] \in OrderAsked \cup PayAsked /\ client[c] # Idle
  BY Pieces DEF IInv, AnswerOrder, AnswerPayment, AnswerError, Idle
<1>t. failed \subseteq Keys /\ \A k \in Keys : k # NoKey
  BY OrderSagaAssumption DEF IInv, Types, TablesOK
<1>1. CASE AnswerOrder(c)
  <2>1. CASE reply[c].id = NoKey
    BY <1>0, <1>1, <1>t, <2>1, AnswerKeeps DEF AnswerOrder, life
  <2>2. CASE reply[c].id # NoKey
    <3>1. PICK id \in Found(reply[c].id) : AnswerTo(c, id)
      BY <1>1, <2>2 DEF AnswerOrder
    <3>2. Secret(reply[c].id)
      BY <1>1, <2>2 DEF AnswerOrder, Secret
    <3>3. id = reply[c].id
      BY <3>1, <3>2 DEF Found, IInv, IDsInv, KnownKey
    <3> QED BY <1>0, <1>1, <1>t, <3>1, <3>3, AnswerKeeps DEF AnswerOrder, life
  <2> QED BY <2>1, <2>2
<1>2. CASE AnswerPayment(c)
  <2>1. client[c].cmd \in PayCommands /\ client[c].cmd.key \in Keys
    BY <1>0, <1>2, OrderSagaAssumption DEF AnswerPayment, OrderAsked, PayAsked
  <2>2. client[c].cmd.key \in DOMAIN book \cup failed
    BY <1>0, <1>2 DEF AnswerPayment, Acked, IInv, PaidInv, Settled, OnItsWay
  <2> QED BY <1>0, <1>2, <1>t, <2>1, <2>2, AnswerKeeps DEF AnswerPayment, life
<1>3. CASE AnswerError(c)
  <2>1. failed' = failed \cup DirectKeys({c})
    BY <1>3 DEF AnswerError
  <2>2. client[c].kind = "pay" => client[c].cmd.key \in failed'
    BY <2>1 DEF DirectKeys
  <2>3. failed' \subseteq Keys
    BY <1>0, <1>t, <2>1, OrderSagaAssumption DEF DirectKeys, OrderAsked, PayAsked
  <2> QED BY <1>0, <1>3, <2>1, <2>2, <2>3, AnswerKeeps DEF AnswerError, life
<1> QED BY <1>1, <1>2, <1>3

-----------------------------------------------------------------------------
(* The saga.                                                               *)

SagaFrame ==
  /\ UNCHANGED <<orders, book, client, reply, sub, up, stopping>>
  /\ DOMAIN inbox' = Subscriptions /\ DOMAIN handler' = Subscriptions
  /\ inbox'["create_order"] = inbox["create_order"] /\ inbox'["stream"] = inbox["stream"]
  /\ Create' = Create /\ Paying' = Paying /\ Streaming' = Streaming

LEMMA SagaFrameKeeps ==
  ASSUME IInv, SagaFrame, failed \subseteq failed', failed' \subseteq Keys
  PROVE  /\ TablesOK' /\ CallersOK' /\ HubOK' /\ LifeOK'
         /\ OrderChain' /\ EventChain' /\ RoomInv' /\ IDsInv' /\ OwnInv' /\ InHand' /\ HubInv'
<1>1. TablesOK' /\ CallersOK' /\ HubOK' /\ LifeOK'
  BY DEF IInv, Types, TablesOK, CallersOK, HubOK, LifeOK, SagaFrame
<1>2. OrderChain' /\ EventChain'
  BY DEF IInv, Chains, OrderChain, Asked, EventChain, SagaFrame
<1>3. RoomInv'
  BY RoomKept DEF SagaFrame, Unsaved
<1>4. IDsInv'
  BY DEF IInv, IDsInv, KnownKey, Secret, SagaFrame
<1>5. OwnInv'
  BY DEF IInv, OwnInv, AnswersOwnOrder, SagaFrame
<1>6. InHand' /\ HubInv'
  BY DEF IInv, InHand, HubInv, NoSendOnClosed, Unsent, Heard, SagaFrame
<1> QED BY <1>1, <1>2, <1>3, <1>4, <1>5, <1>6

LEMMA TakeOrderCreatedKeeps ==
  ASSUME IInv, NEW m \in inbox["saga"], TakeOrderCreated(m)
  PROVE  IInv'
<1>n. PICK n : n = [m EXCEPT !.from = "saga"]
  OBVIOUS
<1>1. m \in CreatedMessage /\ handler["saga"] = Idle /\ Subscribed("process_payment")
  BY RouterRuns DEF IInv, Types, InboxOK, TakeOrderCreated, Subscriptions
<1>2. n \in Payment /\ n.from = "saga" /\ n.key = m.key /\ n.amount = m.amount
  BY <1>n, <1>1 DEF CreatedMessage, Payment
<1>3. /\ inbox'["saga"] = inbox["saga"] \ {m}
      /\ inbox'["process_payment"] = inbox["process_payment"] \cup {n}
      /\ handler'["saga"] = [at |-> "wait", from |-> m.from]
      /\ failed' = failed
      /\ SagaFrame
  BY <1>n, <1>1, HandlerNow, Named
     DEF IInv, Types, InboxOK, TakeOrderCreated, Put, SagaFrame, life, Subscriptions
<1>4. handler'["saga"] \in Following /\ handler'["saga"] # Idle
  BY <1>1, <1>3 DEF Following, CreatedMessage, Idle
<1>5. /\ TablesOK' /\ CallersOK' /\ HubOK' /\ LifeOK'
      /\ OrderChain' /\ EventChain' /\ RoomInv' /\ IDsInv' /\ OwnInv' /\ InHand' /\ HubInv'
  BY <1>3, SagaFrameKeeps DEF IInv, Types, TablesOK
<1>6. Types'
  BY <1>2, <1>3, <1>4, <1>5 DEF IInv, Types, InboxOK, HandlersOK, SagaFrame
<1>7. SagaChain' /\ PaymentChain'
  BY <1>2, <1>3, <1>4 DEF IInv, Chains, SagaChain, PaymentChain, Expects, SagaFrame
<1>8. PaidInv'
  BY <1>2, <1>3 DEF IInv, PaidInv, Settled, OnItsWay, EffectiveKey, KeyOf, SagaFrame
<1>9. OrderedInv'
  BY <1>2, <1>3 DEF IInv, OrderedInv, PaymentsWereOrdered, Backed, EffectiveKey, SagaFrame
<1> QED BY <1>5, <1>6, <1>7, <1>8, <1>9 DEF IInv, Chains

LEMMA DispatchFailsKeeps ==
  ASSUME IInv, NEW m \in inbox["saga"], DispatchFails(m)
  PROVE  IInv'
<1>1. m \in CreatedMessage /\ handler' = handler
  BY DEF IInv, Types, InboxOK, DispatchFails
<1>2. /\ inbox'["saga"] = inbox["saga"] \ {m}
      /\ inbox'["process_payment"] = inbox["process_payment"]
      /\ failed' = failed \cup {m.key} /\ m.key \in Keys
      /\ SagaFrame
  BY <1>1, TakenFrom, Named
     DEF IInv, Types, HandlersOK, DispatchFails, Fails, SagaFrame, life, Subscriptions, CreatedMessage
<1>5. /\ TablesOK' /\ CallersOK' /\ HubOK' /\ LifeOK'
      /\ OrderChain' /\ EventChain' /\ RoomInv' /\ IDsInv' /\ OwnInv' /\ InHand' /\ HubInv'
  BY <1>2, SagaFrameKeeps DEF IInv, Types, TablesOK
<1>6. Types'
  BY <1>1, <1>2, <1>5 DEF IInv, Types, InboxOK, HandlersOK, SagaFrame
<1>7. SagaChain' /\ PaymentChain'
  BY <1>1, <1>2 DEF IInv, Chains, SagaChain, PaymentChain, Expects, SagaFrame
<1>8. PaidInv'
  BY <1>2 DEF IInv, PaidInv, Settled, OnItsWay, EffectiveKey, KeyOf, SagaFrame
<1>9. OrderedInv'
  BY <1>2 DEF IInv, OrderedInv, PaymentsWereOrdered, Backed, EffectiveKey, SagaFrame
<1> QED BY <1>5, <1>6, <1>7, <1>8, <1>9 DEF IInv, Chains

LEMMA SagaDoneKeeps ==
  ASSUME IInv, SagaDone
  PROVE  IInv'
<1>1. /\ handler'["saga"] = Idle /\ inbox' = inbox /\ failed' = failed
      /\ \A m \in inbox["process_payment"] : m.from # "saga"
      /\ Paying # Idle => Paying.from # "saga"
      /\ SagaFrame
  BY HandlerNow, Named
     DEF IInv, Types, InboxOK, SagaDone, Acked, SagaFrame, life, Subscriptions
<1>5. /\ TablesOK' /\ CallersOK' /\ HubOK' /\ LifeOK'
      /\ OrderChain' /\ EventChain' /\ RoomInv' /\ IDsInv' /\ OwnInv' /\ InHand' /\ HubInv'
  BY <1>1, SagaFrameKeeps DEF IInv, Types, TablesOK
<1>6. Types'
  BY <1>1, <1>5 DEF IInv, Types, InboxOK, HandlersOK, SagaFrame
<1>7. SagaChain' /\ PaymentChain'
  BY <1>1 DEF IInv, Chains, SagaChain, PaymentChain, Expects, SagaFrame
<1>8. PaidInv'
  BY <1>1 DEF IInv, PaidInv, Settled, OnItsWay, EffectiveKey, KeyOf, SagaFrame
<1>9. OrderedInv'
  BY <1>1 DEF IInv, OrderedInv, PaymentsWereOrdered, Backed, EffectiveKey, SagaFrame
<1> QED BY <1>5, <1>6, <1>7, <1>8, <1>9 DEF IInv, Chains

-----------------------------------------------------------------------------
(* The payment handler.                                                    *)

PayFrame ==
  /\ UNCHANGED <<orders, client, reply, sub, up, stopping>>
  /\ DOMAIN inbox' = Subscriptions /\ DOMAIN handler' = Subscriptions
  /\ inbox'["create_order"] = inbox["create_order"] /\ inbox'["saga"] = inbox["saga"]
  /\ Create' = Create /\ handler'["saga"] = handler["saga"] /\ Streaming' = Streaming

LEMMA PayFrameKeeps ==
  ASSUME IInv, PayFrame
  PROVE  /\ CallersOK' /\ HubOK' /\ LifeOK'
         /\ OrderChain' /\ SagaChain' /\ RoomInv' /\ IDsInv' /\ OwnInv'
<1>1. CallersOK' /\ HubOK' /\ LifeOK'
  BY DEF IInv, Types, CallersOK, HubOK, LifeOK, PayFrame
<1>2. OrderChain' /\ SagaChain'
  BY DEF IInv, Chains, OrderChain, Asked, SagaChain, PayFrame
<1>3. RoomInv'
  BY RoomKept DEF PayFrame, Unsaved
<1>4. IDsInv'
  BY DEF IInv, IDsInv, KnownKey, Secret, PayFrame
<1>5. OwnInv'
  BY DEF IInv, OwnInv, AnswersOwnOrder, PayFrame
<1> QED BY <1>1, <1>2, <1>3, <1>4, <1>5

(* A message is taken: its payment is in the book, or has failed.          *)
LEMMA PaymentTaken ==
  ASSUME IInv, PayFrame, NEW m \in inbox["process_payment"],
         inbox'["process_payment"] = inbox["process_payment"] \ {m},
         DOMAIN book \subseteq DOMAIN book', failed \subseteq failed',
         m.key \in DOMAIN book' \cup failed'
  PROVE  PaidInv'
<1>1. \A k : Settled(k) => Settled(k)'
  BY DEF Settled
<1>2. \A x, k : OnItsWay(x, k) => OnItsWay(x, k)' \/ Settled(k)'
  BY DEF OnItsWay, Settled
<1>3. \A id \in DOMAIN orders' : Settled(EffectiveKey(id))' \/ (Create' # Idle /\ Create'.id = id)
  BY <1>1 DEF IInv, PaidInv, EffectiveKey, PayFrame
<1>4. Create.at = "wait" =>
        \/ Settled(KeyOf(Create.id, Create.cmd))'
        \/ OnItsWay("saga", KeyOf(Create.id, Create.cmd))'
        \/ \E n \in inbox["saga"] : n.key = KeyOf(Create.id, Create.cmd)
  <2>1. PICK k : k = KeyOf(Create.id, Create.cmd)
    OBVIOUS
  <2>2. KeyOf(Create.id, Create.cmd)' = k
    BY <2>1 DEF KeyOf, PayFrame
  <2> QED BY <1>1, <1>2, <2>1, <2>2 DEF IInv, PaidInv, Settled, OnItsWay
<1>5. \A c \in Clients : client[c].at = "wait" /\ client[c] # Idle /\ client[c].kind = "pay" =>
        Settled(client[c].cmd.key)' \/ OnItsWay(c, client[c].cmd.key)'
  BY <1>1, <1>2 DEF IInv, PaidInv, PayFrame, Settled, OnItsWay
<1>6. \A c \in Clients :
        client[c] # Idle /\ client[c].kind = "pay" /\ client[c].at = "answered"
          /\ client[c].result = NoKey => client[c].cmd.key \in failed'
  BY DEF IInv, PaidInv
<1> QED BY <1>3, <1>4, <1>5, <1>6 DEF PaidInv, PayFrame

LEMMA ReplayOrErrorKeeps ==
  ASSUME IInv, NEW m \in inbox["process_payment"], ReplayPayment(m) \/ PaymentError(m)
  PROVE  IInv'
<1>1. /\ m \in Payment /\ m.key \in Keys /\ Paying = Idle /\ Paying' = Paying
      /\ inbox'["process_payment"] = inbox["process_payment"] \ {m}
      /\ inbox'["stream"] = inbox["stream"]
      /\ book' = book /\ handler' = handler /\ failed \subseteq failed' /\ failed' \subseteq Keys
      /\ m.key \in DOMAIN book' \cup failed'
      /\ PayFrame
  <2>1. m \in Payment /\ m.key \in Keys
    BY DEF IInv, Types, InboxOK, Payment
  <2>2. Taken("process_payment", m) /\ handler' = handler
    BY DEF ReplayPayment, PaymentError
  <2> QED BY <2>1, <2>2, TakenFrom, Named
          DEF IInv, Types, TablesOK, HandlersOK, ReplayPayment, PaymentError, Fails, PayFrame, life,
              Subscriptions
<1>2. /\ CallersOK' /\ HubOK' /\ LifeOK'
      /\ OrderChain' /\ SagaChain' /\ RoomInv' /\ IDsInv' /\ OwnInv'
  BY <1>1, PayFrameKeeps
<1>3. Types'
  BY <1>1, <1>2 DEF IInv, Types, TablesOK, InboxOK, HandlersOK, PayFrame
<1>4. PaymentChain' /\ EventChain'
  BY <1>1 DEF IInv, Chains, PaymentChain, EventChain, Expects, PayFrame
<1>5. PaidInv'
  BY <1>1, PaymentTaken
<1>6. OrderedInv'
  BY <1>1 DEF IInv, OrderedInv, PaymentsWereOrdered, Backed, EffectiveKey, PayFrame
<1>7. InHand' /\ HubInv'
  BY <1>1 DEF IInv, InHand, HubInv, NoSendOnClosed, Unsent, Heard, PayFrame
<1> QED BY <1>2, <1>3, <1>4, <1>5, <1>6, <1>7 DEF IInv, Chains

LEMMA SettleKeeps ==
  ASSUME IInv, NEW m \in inbox["process_payment"], SettlePayment(m)
  PROVE  IInv'
<1>1. PICK status \in {"CAPTURED", "FAILED"} :
        /\ Service!Settle(m.key, m.key, m.amount, status)
        /\ HandlerTo("process_payment",
                     [at |-> "publish", from |-> m.from, key |-> m.key, status |-> status])
  BY DEF SettlePayment
<1>2. /\ m \in Payment /\ m.key \in Keys /\ m.from \in Clients \cup {"saga"} /\ Paying = Idle
      /\ inbox'["process_payment"] = inbox["process_payment"] \ {m}
      /\ inbox'["stream"] = inbox["stream"]
      /\ Paying' = [at |-> "publish", from |-> m.from, key |-> m.key, status |-> status]
      /\ failed' = failed
      /\ PayFrame
  <2>1. m \in Payment /\ m.key \in Keys /\ m.from \in Clients \cup {"saga"}
    BY DEF IInv, Types, InboxOK, Payment
  <2>2. Taken("process_payment", m)
    BY DEF SettlePayment
  <2> QED BY <1>1, <2>1, <2>2, TakenFrom, HandlerNow, Named
          DEF IInv, Types, SettlePayment, PayFrame, life, Subscriptions
<1>3. /\ m.key \notin DOMAIN book /\ DOMAIN book' = DOMAIN book \cup {m.key}
      /\ book'[m.key].amount = m.amount /\ book'[m.key].status = status
      /\ \A k \in DOMAIN book : book'[k] = book[k]
  BY <1>1 DEF Service!Settle
<1>4. /\ Paying' \in Settling /\ Paying' # Idle /\ Paying'.at = "publish" /\ Paying'.key = m.key
      /\ Paying'.from = m.from /\ Paying'.status = status
  BY <1>1, <1>2 DEF Settling, Idle
<1>5. /\ CallersOK' /\ HubOK' /\ LifeOK'
      /\ OrderChain' /\ SagaChain' /\ RoomInv' /\ IDsInv' /\ OwnInv'
  BY <1>2, PayFrameKeeps
<1>6. Types'
  BY <1>2, <1>3, <1>4, <1>5 DEF IInv, Types, TablesOK, InboxOK, HandlersOK, PayFrame
<1>7. inbox["stream"] = {} /\ Streaming = Idle
  BY <1>2 DEF IInv, Chains, EventChain, Idle
<1>8. PaymentChain' /\ EventChain'
  BY <1>2, <1>4, <1>7 DEF IInv, Chains, PaymentChain, EventChain, Expects, PayFrame
<1>9. PaidInv'
  BY <1>2, <1>3, PaymentTaken
<1>a. OrderedInv'
  <2>1. \/ Backed(m.key, m.amount)
        \/ [key |-> m.key, amount |-> m.amount] \in PayCommands
    BY DEF IInv, OrderedInv
  <2>2. PaymentsWereOrdered'
    BY <1>2, <1>3, <2>1
       DEF IInv, OrderedInv, PaymentsWereOrdered, Backed, EffectiveKey, PayFrame
  <2> QED BY <1>2, <2>2 DEF IInv, OrderedInv, Backed, EffectiveKey, PayFrame
<1>b. InHand'
  BY <1>2, <1>3, <1>4, <1>7 DEF IInv, InHand, PayFrame
<1>c. HubInv'
  <2> SUFFICES ASSUME NEW s \in Subscribers, sub[s] # Idle, sub[s].early
               PROVE  /\ Unsent(s)' => sub[s].ch = <<>>
                      /\ sub[s].name \in DOMAIN book' \ failed'
                           /\ book'[sub[s].name].status = "CAPTURED" =>
                           \/ Heard(s)
                           \/ Paying' # Idle /\ Paying'.key = sub[s].name /\ Unsent(s)'
    BY <1>2, <1>7 DEF HubInv, NoSendOnClosed, Heard, PayFrame
  <2>1. CASE sub[s].name = m.key
    BY <1>2, <1>3, <1>4, <2>1 DEF IInv, HubInv, Unsent, PayFrame
  <2>2. CASE sub[s].name # m.key
    BY <1>2, <1>3, <1>4, <1>7, <2>2 DEF IInv, HubInv, Unsent, PayFrame
  <2> QED BY <2>1, <2>2
<1> QED BY <1>5, <1>6, <1>8, <1>9, <1>a, <1>b, <1>c DEF IInv, Chains

LEMMA PublishPaymentKeeps ==
  ASSUME IInv, PublishPayment
  PROVE  IInv'
<1>m. PICK m : m = [from |-> "process_payment", key |-> Paying.key,
                    name |-> IF Paying.status = "CAPTURED" THEN "payment.captured"
                                                           ELSE "payment.failed"]
  OBVIOUS
<1>1. /\ Paying \in Settling /\ Paying.at = "publish" /\ Paying # Idle
      /\ Paying' = [Paying EXCEPT !.at = "wait"]
      /\ Sent("stream", m)
      /\ UNCHANGED <<book, failed>>
  BY <1>m, Pieces, HandlerNow, Named
     DEF IInv, Types, PublishPayment, Subscriptions, Idle
<1>2. /\ inbox'["stream"] = inbox["stream"] \cup {m}
      /\ inbox'["process_payment"] = inbox["process_payment"]
      /\ PayFrame
  BY <1>1, RouterRuns, SentTo, HandlerNow, Named
     DEF IInv, Types, PublishPayment, PayFrame, life, Subscriptions
<1>3. /\ Paying' \in Settling /\ Paying' # Idle /\ Paying'.at = "wait" /\ Paying'.key = Paying.key
      /\ Paying'.from = Paying.from /\ Paying'.status = Paying.status
      /\ m \in Event
  BY <1>m, <1>1 DEF Settling, Idle, Event
<1>4. /\ CallersOK' /\ HubOK' /\ LifeOK'
      /\ OrderChain' /\ SagaChain' /\ RoomInv' /\ IDsInv' /\ OwnInv'
  BY <1>2, PayFrameKeeps
<1>5. Types'
  BY <1>1, <1>2, <1>3, <1>4 DEF IInv, Types, TablesOK, InboxOK, HandlersOK, PayFrame
<1>6. inbox["stream"] = {} /\ Streaming = Idle
  BY <1>1 DEF IInv, Chains, EventChain
<1>7. PaymentChain' /\ EventChain'
  BY <1>1, <1>2, <1>3, <1>6 DEF IInv, Chains, PaymentChain, EventChain, Expects, PayFrame
<1>8. PaidInv'
  BY <1>1, <1>2 DEF IInv, PaidInv, Settled, OnItsWay, EffectiveKey, KeyOf, PayFrame
<1>9. OrderedInv'
  BY <1>1, <1>2 DEF IInv, OrderedInv, PaymentsWereOrdered, Backed, EffectiveKey, PayFrame
<1>a. InHand'
  BY <1>m, <1>1, <1>2, <1>3, <1>6 DEF IInv, InHand, PayFrame
<1>b. HubInv'
  BY <1>1, <1>2, <1>3, <1>6 DEF IInv, HubInv, NoSendOnClosed, Unsent, Heard, PayFrame
<1> QED BY <1>4, <1>5, <1>7, <1>8, <1>9, <1>a, <1>b DEF IInv, Chains

(* The handler is done with its event, or could not publish it.            *)
LEMMA PaymentDoneKeeps ==
  ASSUME IInv, PublishPaymentFails \/ PaymentPublished
  PROVE  IInv'
<1>1. /\ Paying \in Settling /\ Paying # Idle /\ Paying' = Idle
      /\ Paying.at = "publish" \/ Paying.at = "wait"
      /\ UNCHANGED <<book, inbox>> /\ failed \subseteq failed' /\ failed' \subseteq Keys
      /\ PayFrame
  <2>1. Paying \in Settling /\ Paying.key \in Keys
    BY Pieces DEF IInv, PublishPaymentFails, PaymentPublished, Settling
  <2> QED BY <2>1, HandlerNow, Named
          DEF IInv, Types, TablesOK, InboxOK, PublishPaymentFails, PaymentPublished, Fails, PayFrame,
              life, Subscriptions, Idle
<1>2. inbox["stream"] = {} /\ Streaming = Idle
  BY Pieces DEF PublishPaymentFails, PaymentPublished, Acked, Streaming, IInv, Types, InboxOK,
                Event, Sending, Chains, EventChain
<1>4. /\ CallersOK' /\ HubOK' /\ LifeOK'
      /\ OrderChain' /\ SagaChain' /\ RoomInv' /\ IDsInv' /\ OwnInv'
  BY <1>1, PayFrameKeeps
<1>5. Types'
  BY <1>1, <1>4 DEF IInv, Types, TablesOK, InboxOK, HandlersOK, PayFrame
<1>7. PaymentChain' /\ EventChain'
  BY <1>1, <1>2 DEF IInv, Chains, PaymentChain, EventChain, Expects, PayFrame
<1>8. PaidInv'
  BY <1>1 DEF IInv, PaidInv, Settled, OnItsWay, EffectiveKey, KeyOf, PayFrame
<1>9. OrderedInv'
  BY <1>1 DEF IInv, OrderedInv, PaymentsWereOrdered, Backed, EffectiveKey, PayFrame
<1>a. InHand'
  BY <1>1, <1>2 DEF IInv, InHand, PayFrame
<1>b. HubInv'
  <2> SUFFICES ASSUME NEW s \in Subscribers, sub[s] # Idle, sub[s].early
               PROVE  /\ Unsent(s)' => sub[s].ch = <<>>
                      /\ sub[s].name \in DOMAIN book \ failed'
                           /\ book[sub[s].name].status = "CAPTURED" => Heard(s)
    BY <1>1, <1>2 DEF HubInv, NoSendOnClosed, Heard, PayFrame
  <2>1. Unsent(s)' => Unsent(s)
    BY <1>1, <1>2 DEF Unsent, PayFrame
  <2>2. CASE PublishPaymentFails
    BY <1>1, <1>2, <2>1, <2>2 DEF IInv, HubInv, Unsent, PublishPaymentFails, Fails
  <2>3. CASE PaymentPublished
    BY <1>1, <1>2, <2>1, <2>3 DEF IInv, HubInv, Unsent, PaymentPublished
  <2> QED BY <2>2, <2>3
<1> QED BY <1>4, <1>5, <1>7, <1>8, <1>9, <1>a, <1>b DEF IInv, Chains

-----------------------------------------------------------------------------
(* The stream, the hub and its subscribers.                                *)

HubFrame ==
  /\ UNCHANGED <<orders, book, client, reply, failed, up, stopping>>
  /\ DOMAIN inbox' = Subscriptions /\ DOMAIN handler' = Subscriptions
  /\ inbox'["create_order"] = inbox["create_order"] /\ inbox'["saga"] = inbox["saga"]
  /\ inbox'["process_payment"] = inbox["process_payment"]
  /\ Create' = Create /\ handler'["saga"] = handler["saga"] /\ Paying' = Paying

LEMMA HubFrameKeeps ==
  ASSUME IInv, HubFrame
  PROVE  /\ TablesOK' /\ CallersOK' /\ LifeOK'
         /\ OrderChain' /\ SagaChain' /\ PaymentChain'
         /\ RoomInv' /\ IDsInv' /\ OwnInv' /\ PaidInv' /\ OrderedInv'
<1>1. TablesOK' /\ CallersOK' /\ LifeOK'
  BY DEF IInv, Types, TablesOK, CallersOK, LifeOK, HubFrame
<1>2. OrderChain' /\ SagaChain' /\ PaymentChain'
  BY DEF IInv, Chains, OrderChain, Asked, SagaChain, PaymentChain, Expects, HubFrame
<1>3. RoomInv'
  BY RoomKept DEF HubFrame, Unsaved
<1>4. IDsInv'
  BY DEF IInv, IDsInv, KnownKey, Secret, HubFrame
<1>5. OwnInv'
  BY DEF IInv, OwnInv, AnswersOwnOrder, HubFrame
<1>6. PaidInv' /\ OrderedInv'
  BY DEF IInv, PaidInv, Settled, OnItsWay, EffectiveKey, KeyOf, OrderedInv, PaymentsWereOrdered,
         Backed, HubFrame
<1> QED BY <1>1, <1>2, <1>3, <1>4, <1>5, <1>6

(* While an event is about, its payment is in the handler's hands.         *)
LEMMA EventInHand ==
  ASSUME IInv, inbox["stream"] # {} \/ Streaming # Idle
  PROVE  /\ Paying \in Settling /\ Paying # Idle /\ Paying.at = "wait"
         /\ Paying.key \in DOMAIN book /\ book[Paying.key].status = Paying.status
<1>1. Paying.at = "wait" /\ Paying # Idle
  BY DEF IInv, Chains, EventChain, Idle
<1> QED BY <1>1, Pieces DEF IInv, InHand

LEMMA TakeEventKeeps ==
  ASSUME IInv, NEW m \in inbox["stream"], TakeEvent(m)
  PROVE  IInv'
<1>1. /\ Streaming = Idle
      /\ Streaming' = [at |-> "sending", from |-> m.from, key |-> m.key, todo |-> Matching(m)]
      /\ inbox'["stream"] = inbox["stream"] \ {m}
      /\ sub' = sub
      /\ HubFrame
  BY TakenFrom, HandlerNow, Named
     DEF IInv, Types, TakeEvent, HubFrame, life, Subscriptions
<1>2. /\ Paying \in Settling /\ Paying # Idle /\ Paying.at = "wait"
      /\ Paying.key \in DOMAIN book /\ book[Paying.key].status = Paying.status
  BY EventInHand
<1>3. /\ m \in Event /\ m.key = Paying.key
      /\ m.name = IF Paying.status = "CAPTURED" THEN "payment.captured" ELSE "payment.failed"
  BY DEF IInv, Types, InboxOK, InHand
<1>4. inbox'["stream"] = {}
  <2>1. \A n \in inbox["stream"] : n = m
    BY <1>3 DEF IInv, Types, InboxOK, InHand, Event
  <2> QED BY <1>1, <2>1
<1>5. /\ Streaming' \in Sending /\ Streaming' # Idle /\ Streaming'.key = Paying.key
      /\ Streaming'.todo = Matching(m)
  BY <1>1, <1>3 DEF Sending, Event, Matching, Idle
<1>6. /\ TablesOK' /\ CallersOK' /\ LifeOK'
      /\ OrderChain' /\ SagaChain' /\ PaymentChain'
      /\ RoomInv' /\ IDsInv' /\ OwnInv' /\ PaidInv' /\ OrderedInv'
  BY <1>1, HubFrameKeeps
<1>7. Types'
  BY <1>1, <1>5, <1>6 DEF IInv, Types, InboxOK, HandlersOK, HubOK, HubFrame
<1>8. EventChain' /\ InHand'
  BY <1>1, <1>2, <1>4, <1>5 DEF EventChain, InHand, IInv, HubFrame
<1>9. HubInv'
  <2>1. NoSendOnClosed' /\ \A s \in Matching(m) : sub[s].name = Streaming'.key
    BY <1>1, <1>3, <1>5 DEF NoSendOnClosed, Matching
  <2> SUFFICES ASSUME NEW s \in Subscribers, sub[s] # Idle, sub[s].early
               PROVE  /\ Unsent(s)' => sub[s].ch = <<>>
                      /\ sub[s].name \in DOMAIN book \ failed
                           /\ book[sub[s].name].status = "CAPTURED" =>
                           \/ Heard(s)
                           \/ Paying # Idle /\ Paying.key = sub[s].name /\ Unsent(s)'
    BY <1>1, <1>5, <2>1 DEF HubInv, Heard, HubFrame
  <2>2. Unsent(s)' => Unsent(s)
    BY <1>1, <1>2, <1>3, <1>4, <1>5, <2>1 DEF Unsent, HubFrame
  <2>3. book[sub[s].name].status = "CAPTURED" /\ Paying.key = sub[s].name => Unsent(s)'
    BY <1>1, <1>2, <1>3, <1>5 DEF Unsent, Matching, HubFrame
  <2>4. /\ Unsent(s) => sub[s].ch = <<>>
        /\ sub[s].name \in DOMAIN book \ failed /\ book[sub[s].name].status = "CAPTURED" =>
             Heard(s) \/ (Paying # Idle /\ Paying.key = sub[s].name /\ Unsent(s))
    BY DEF IInv, HubInv
  <2> QED BY <2>2, <2>3, <2>4
<1> QED BY <1>6, <1>7, <1>8, <1>9 DEF IInv, Chains

LEMMA SendToKeeps ==
  ASSUME IInv, NEW s \in Subscribers, SendTo(s)
  PROVE  IInv'
<1>1. /\ Streaming \in Sending /\ Streaming # Idle /\ s \in Streaming.todo
      /\ Streaming' = [Streaming EXCEPT !.todo = @ \ {s}]
      /\ inbox' = inbox
      /\ sub' = [sub EXCEPT ![s].ch = Offered(s, Streaming.key)]
      /\ HubFrame
  BY Pieces, HandlerNow, Named
     DEF IInv, Types, InboxOK, SendTo, HubFrame, life, Subscriptions
<1>2. /\ Paying \in Settling /\ Paying # Idle /\ Paying.at = "wait"
      /\ Paying.key \in DOMAIN book /\ book[Paying.key].status = Paying.status
      /\ inbox["stream"] = {} /\ Streaming.key = Paying.key
  BY <1>1, EventInHand DEF IInv, Chains, EventChain, InHand
<1>3. /\ Streaming' \in Sending /\ Streaming' # Idle /\ Streaming'.key = Streaming.key
      /\ Streaming'.todo = Streaming.todo \ {s}
  BY <1>1 DEF Sending, Idle
<1>4. sub[s] \in Listening /\ sub[s] # Idle /\ sub[s].name = Streaming.key
  BY <1>1, Pieces DEF IInv, HubInv, NoSendOnClosed
<1>5. /\ \A d \in Subscribers : d # s => sub'[d] = sub[d]
      /\ sub'[s] \in Listening /\ sub'[s] # Idle /\ sub'[s].name = sub[s].name
      /\ sub'[s].ch = Offered(s, Streaming.key) /\ sub'[s].got = sub[s].got
      /\ sub'[s].early = sub[s].early
      /\ Offered(s, Streaming.key) \in Seq(Keys) /\ Len(Offered(s, Streaming.key)) <= HubBuffer
      /\ sub' \in [Subscribers -> {Idle} \cup Listening]
  <2>1. Streaming.key \in Keys
    BY <1>1 DEF Sending
  <2>2. sub[s].ch \in Seq(Keys) /\ Len(sub[s].ch) <= HubBuffer /\ HubBuffer \in Nat
    BY <1>4, OrderSagaAssumption DEF Listening, IInv, Types, HubOK
  <2>3. Offered(s, Streaming.key) \in Seq(Keys) /\ Len(Offered(s, Streaming.key)) <= HubBuffer
    BY <2>1, <2>2 DEF Offered
  <2> QED BY <1>1, <1>4, <2>3 DEF IInv, Types, HubOK, Listening, Idle
<1>6. /\ TablesOK' /\ CallersOK' /\ LifeOK'
      /\ OrderChain' /\ SagaChain' /\ PaymentChain'
      /\ RoomInv' /\ IDsInv' /\ OwnInv' /\ PaidInv' /\ OrderedInv'
  BY <1>1, HubFrameKeeps
<1>7. HubOK'
  BY <1>5 DEF IInv, Types, HubOK
<1>8. Types'
  BY <1>1, <1>3, <1>6, <1>7 DEF IInv, Types, InboxOK, HandlersOK, HubFrame
<1>9. EventChain' /\ InHand'
  BY <1>1, <1>2, <1>3 DEF EventChain, InHand, IInv, HubFrame
<1>a. HubInv'
  <2>1. NoSendOnClosed'
    BY <1>1, <1>3, <1>5 DEF IInv, HubInv, NoSendOnClosed, Sending
  <2>2. \A d \in Subscribers : d \in Streaming'.todo => sub'[d].name = Streaming'.key
    BY <1>1, <1>3, <1>5 DEF IInv, HubInv
  <2>3. ASSUME NEW d \in Subscribers, d # s, sub'[d] # Idle, sub'[d].early
        PROVE  /\ Unsent(d)' => sub'[d].ch = <<>>
               /\ sub'[d].name \in DOMAIN book' \ failed' /\ book'[sub'[d].name].status = "CAPTURED" =>
                    Heard(d)' \/ (Paying' # Idle /\ Paying'.key = sub'[d].name /\ Unsent(d)')
    <3>1. Unsent(d)' <=> Unsent(d)
      BY <1>1, <1>3, <1>5, <2>3 DEF Unsent, HubFrame
    <3>2. Heard(d)' <=> Heard(d)
      BY <1>5, <2>3 DEF Heard
    <3> QED BY <1>1, <1>5, <2>3, <3>1, <3>2 DEF IInv, HubInv, HubFrame
  <2>4. sub[s].early => ~Unsent(s)' /\ Heard(s)'
    <3>1. ~Unsent(s)'
      BY <1>1, <1>2, <1>3, <1>4, <1>5 DEF Unsent, HubFrame
    <3>2. sub[s].early => sub[s].ch = <<>>
      BY <1>1, <1>4 DEF IInv, HubInv, Unsent
    <3>3. Len(<<>>) = 0 /\ HubBuffer > 0
      BY OrderSagaAssumption
    <3>4. sub[s].early => sub'[s].ch = Append(<<>>, Streaming.key)
      BY <1>5, <3>2, <3>3 DEF Offered
    <3>6. Streaming.key \in Keys /\ <<>> \in Seq(Keys)
      BY <1>1 DEF Sending
    <3>7. /\ Append(<<>>, Streaming.key)[1] = Streaming.key
          /\ Len(Append(<<>>, Streaming.key)) = 1
      BY <3>6
    <3>5. 1 \in 1 .. 1
      OBVIOUS
    <3> QED BY <1>4, <1>5, <3>1, <3>4, <3>5, <3>7 DEF Heard
  <2> QED BY <1>5, <2>1, <2>2, <2>3, <2>4 DEF HubInv
<1> QED BY <1>6, <1>8, <1>9, <1>a DEF IInv, Chains

LEMMA AckEventKeeps ==
  ASSUME IInv, AckEvent
  PROVE  IInv'
<1>1. /\ Streaming # Idle /\ Streaming.todo = {} /\ Streaming' = Idle
      /\ inbox' = inbox /\ sub' = sub
      /\ HubFrame
  BY HandlerNow, Named DEF IInv, Types, InboxOK, AckEvent, HubFrame, life, Subscriptions
<1>2. /\ TablesOK' /\ CallersOK' /\ LifeOK'
      /\ OrderChain' /\ SagaChain' /\ PaymentChain'
      /\ RoomInv' /\ IDsInv' /\ OwnInv' /\ PaidInv' /\ OrderedInv'
  BY <1>1, HubFrameKeeps
<1>3. Types'
  BY <1>1, <1>2 DEF IInv, Types, InboxOK, HandlersOK, HubOK, HubFrame
<1>4. EventChain' /\ InHand'
  BY <1>1 DEF EventChain, InHand, IInv, Chains, HubFrame
<1>5. HubInv'
  BY <1>1 DEF IInv, HubInv, NoSendOnClosed, Unsent, Heard, HubFrame
<1> QED BY <1>2, <1>3, <1>4, <1>5 DEF IInv, Chains

(* A subscriber comes, reads or leaves: what it does is between it and the *)
(* hub.                                                                    *)
SubscriberFrame(s) ==
  /\ UNCHANGED <<orders, book, client, reply, inbox, handler, failed, up, stopping>>
  /\ sub' \in [Subscribers -> {Idle} \cup Listening]
  /\ \A d \in Subscribers \ {s} : sub'[d] = sub[d]
  /\ sub'[s] # Idle => Len(sub'[s].ch) <= HubBuffer

(* It left, or it holds what it should.                                    *)
HoldsItsOwn(s) ==
  \/ sub[s] = Idle
  \/ ~sub[s].early
  \/ /\ Unsent(s) => sub[s].ch = <<>>
     /\ sub[s].name \in DOMAIN book \ failed /\ book[sub[s].name].status = "CAPTURED" =>
          Heard(s) \/ (Paying # Idle /\ Paying.key = sub[s].name /\ Unsent(s))

LEMMA SubscriberKeeps ==
  ASSUME IInv, NEW s \in Subscribers, SubscriberFrame(s),
         Streaming = Idle \/ (sub[s] # Idle /\ sub'[s] # Idle /\ sub'[s].name = sub[s].name),
         HoldsItsOwn(s)'
  PROVE  IInv'
<1>1. HubFrame /\ Streaming' = Streaming
  BY Named DEF SubscriberFrame, HubFrame, IInv, Types, InboxOK, HandlersOK
<1>2. /\ TablesOK' /\ CallersOK' /\ LifeOK'
      /\ OrderChain' /\ SagaChain' /\ PaymentChain'
      /\ RoomInv' /\ IDsInv' /\ OwnInv' /\ PaidInv' /\ OrderedInv'
  BY <1>1, HubFrameKeeps
<1>3. HubOK'
  BY DEF SubscriberFrame, IInv, Types, HubOK
<1>4. Types'
  BY <1>1, <1>2, <1>3 DEF SubscriberFrame, IInv, Types, InboxOK, HandlersOK, HubFrame
<1>5. EventChain' /\ InHand'
  BY <1>1 DEF EventChain, InHand, IInv, Chains, HubFrame, SubscriberFrame
<1>6. HubInv'
  <2>1. NoSendOnClosed' /\ \A d \in Subscribers :
          Streaming' # Idle /\ d \in Streaming'.todo => sub'[d].name = Streaming'.key
    BY <1>1, Pieces DEF IInv, HubInv, NoSendOnClosed, SubscriberFrame, Sending
  <2>2. ASSUME NEW d \in Subscribers
        PROVE  HoldsItsOwn(d)'
    <3>1. CASE d = s
      BY <3>1
    <3>2. CASE d # s
      <4>1. /\ Unsent(d)' <=> Unsent(d)
            /\ Heard(d)' <=> Heard(d)
        BY <1>1, <3>2 DEF Unsent, Heard, SubscriberFrame, HubFrame
      <4>2. HoldsItsOwn(d)
        BY DEF IInv, HubInv, HoldsItsOwn
      <4> QED BY <1>1, <3>2, <4>1, <4>2 DEF HoldsItsOwn, SubscriberFrame, HubFrame
    <3> QED BY <3>1, <3>2
  <2> QED BY <2>1, <2>2 DEF HubInv, HoldsItsOwn
<1> QED BY <1>2, <1>4, <1>5, <1>6 DEF IInv, Chains

LEMMA SubscribeKeeps ==
  ASSUME IInv, NEW s \in Subscribers, NEW name \in KnownNames, Subscribe(s, name)
  PROVE  IInv'
<1>1. name \in Keys
  <2>1. name \in Keys \cup {NoKey}
    BY NamesKnown
  <2> QED BY <2>1, OrderSagaAssumption DEF KnownNames, Keys
<1>2. PICK new : new = [at |-> "open", name |-> name, ch |-> <<>>, got |-> {},
                        early |-> name \notin DOMAIN book]
  OBVIOUS
<1>3. /\ new \in Listening /\ Len(new.ch) <= HubBuffer /\ new.ch = <<>>
      /\ new.early = (name \notin DOMAIN book) /\ new.name = name
  BY <1>1, <1>2, OrderSagaAssumption DEF Listening
<1>4. /\ SubscriberFrame(s) /\ sub'[s] = new /\ Streaming = Idle
  BY <1>2, <1>3 DEF Subscribe, HubFree, SubscriberFrame, IInv, Types, HubOK, life
<1>5. HoldsItsOwn(s)'
  BY <1>3, <1>4 DEF HoldsItsOwn, SubscriberFrame
<1> QED BY <1>4, <1>5, SubscriberKeeps

LEMMA ReceiveKeeps ==
  ASSUME IInv, NEW s \in Subscribers, Receive(s)
  PROVE  IInv'
<1>1. /\ sub[s] \in Listening /\ sub[s] # Idle /\ sub[s].ch # <<>>
      /\ sub[s].ch \in Seq(Keys) /\ Len(sub[s].ch) <= HubBuffer /\ HubBuffer \in Nat
  BY Pieces, OrderSagaAssumption DEF IInv, Types, HubOK, Receive, Listening
<1>2. PICK ch : ch = sub[s].ch
  OBVIOUS
<1>3. /\ Head(ch) \in Keys /\ Tail(ch) \in Seq(Keys) /\ Len(Tail(ch)) <= HubBuffer
      /\ Len(ch) \in Nat \ {0} /\ Len(Tail(ch)) = Len(ch) - 1 /\ Head(ch) = ch[1]
      /\ \A i \in 1 .. Len(Tail(ch)) : Tail(ch)[i] = ch[i + 1]
  BY <1>1, <1>2
<1>4. sub' = [sub EXCEPT ![s].got = @ \cup {Head(ch)}, ![s].ch = Tail(@)]
  BY <1>2 DEF Receive
<1>5. /\ sub'[s] \in Listening /\ sub'[s] # Idle /\ sub'[s].name = sub[s].name
      /\ sub'[s].ch = Tail(ch) /\ sub'[s].got = sub[s].got \cup {Head(ch)}
      /\ sub'[s].early = sub[s].early
  BY <1>1, <1>2, <1>3, <1>4 DEF IInv, Types, HubOK, Listening, Idle
<1>6. SubscriberFrame(s)
  BY <1>3, <1>4, <1>5 DEF SubscriberFrame, Receive, IInv, Types, HubOK, life
<1>7. Heard(s) => Heard(s)'
  <2> SUFFICES ASSUME NEW i \in 1 .. Len(ch), sub[s].name = ch[i], i # 1
               PROVE  \E j \in 1 .. Len(Tail(ch)) : sub[s].name = Tail(ch)[j]
    BY <1>2, <1>3, <1>5 DEF Heard
  <2>1. i - 1 \in 1 .. Len(Tail(ch)) /\ (i - 1) + 1 = i
    BY <1>3
  <2> QED BY <1>3, <2>1
<1>8. HoldsItsOwn(s)'
  <2>1. HoldsItsOwn(s)
    BY DEF IInv, HubInv, HoldsItsOwn
  <2>2. Unsent(s)' <=> Unsent(s)
    BY <1>5, <1>6, Named DEF Unsent, SubscriberFrame
  <2> QED BY <1>1, <1>5, <1>6, <1>7, <2>1, <2>2 DEF HoldsItsOwn, SubscriberFrame
<1> QED BY <1>1, <1>5, <1>6, <1>8, SubscriberKeeps

LEMMA UnsubscribeKeeps ==
  ASSUME IInv, NEW s \in Subscribers, Unsubscribe(s)
  PROVE  IInv'
<1>1. SubscriberFrame(s) /\ sub'[s] = Idle /\ Streaming = Idle
  BY DEF Unsubscribe, HubFree, SubscriberFrame, IInv, Types, HubOK, life
<1>2. HoldsItsOwn(s)'
  BY <1>1 DEF HoldsItsOwn
<1> QED BY <1>1, <1>2, SubscriberKeeps

-----------------------------------------------------------------------------
(* The lifecycle.                                                          *)

(* What only moves the parts of the process.                               *)
LEMMA LifeKeeps ==
  ASSUME IInv, LifeOK',
         UNCHANGED <<orders, book, client, reply, inbox, handler, sub, failed>>
  PROVE  IInv'
<1>1. Create' = Create /\ Paying' = Paying /\ Streaming' = Streaming
  BY Named
<1>2. Types'
  BY <1>1 DEF IInv, Types, TablesOK, CallersOK, InboxOK, HandlersOK, HubOK
<1>3. Chains'
  BY <1>1 DEF IInv, Chains, OrderChain, SagaChain, PaymentChain, EventChain, Asked, Expects
<1>4. RoomInv'
  BY <1>1, RoomKept DEF Unsaved
<1>5. IDsInv' /\ OwnInv'
  BY <1>1 DEF IInv, IDsInv, KnownKey, Secret, OwnInv, AnswersOwnOrder
<1>6. PaidInv' /\ OrderedInv'
  BY <1>1 DEF IInv, PaidInv, Settled, OnItsWay, EffectiveKey, KeyOf, OrderedInv, PaymentsWereOrdered,
              Backed
<1>7. InHand' /\ HubInv'
  BY <1>1 DEF IInv, InHand, HubInv, NoSendOnClosed, Unsent, Heard
<1> QED BY <1>2, <1>3, <1>4, <1>5, <1>6, <1>7 DEF IInv

LEMMA StartsAndStopsKeep ==
  ASSUME IInv, StartRouter \/ StartStream \/ Listen \/ Shutdown \/ CancelStream
  PROVE  IInv'
<1>1. LifeOK /\ Router # Http /\ Router # Stream /\ Stream # Http
  BY DEF IInv, Types, Router, Stream, Http
<1>2. CASE StartRouter
  <2>1. LifeOK'
    BY <1>1, <1>2 DEF StartRouter, LifeOK
  <2> QED BY <1>2, <2>1, LifeKeeps DEF StartRouter
<1>3. CASE StartStream
  <2>1. LifeOK'
    BY <1>1, <1>3 DEF StartStream, LifeOK
  <2> QED BY <1>3, <2>1, LifeKeeps DEF StartStream
<1>4. CASE Listen
  <2>1. LifeOK'
    BY <1>1, <1>4 DEF Listen, LifeOK
  <2> QED BY <1>4, <2>1, LifeKeeps DEF Listen
<1>5. CASE Shutdown
  <2>1. up = {Router, Stream, Http} /\ up' = {Router, Stream}
    BY <1>1, <1>5 DEF Shutdown, LifeOK
  <2>2. LifeOK'
    BY <1>1, <1>5, <2>1 DEF Shutdown, LifeOK
  <2> QED BY <1>5, <2>2, LifeKeeps DEF Shutdown
<1>6. CASE CancelStream
  <2>1. up = {Router, Stream} /\ up' = {Router}
    BY <1>1, <1>6 DEF CancelStream, LifeOK
  <2>2. LifeOK'
    BY <1>1, <1>6, <2>1 DEF CancelStream, LifeOK, Interrupted
  <2> QED BY <1>6, <2>2, LifeKeeps DEF CancelStream
<1> QED BY <1>2, <1>3, <1>4, <1>5, <1>6

(* The process is gone; what it had begun has failed.                      *)
LEMMA EmptiedKeeps ==
  ASSUME IInv, Emptied, failed \subseteq failed', failed' \subseteq Keys,
         client' = [c \in Clients |-> IF c \in Interrupted
                                      THEN [client[c] EXCEPT !.at = "answered"] ELSE client[c]],
         DirectKeys(Interrupted) \subseteq failed',
         NEW k, Create # Idle => k \in failed' /\ k = KeyOf(Create.id, Create.cmd)
  PROVE  IInv'
<1>1. /\ Create' = Idle /\ Paying' = Idle /\ Streaming' = Idle /\ handler'["saga"] = Idle
      /\ DOMAIN handler' = Subscriptions /\ DOMAIN inbox' = Subscriptions
      /\ \A s \in Subscriptions : inbox'[s] = {}
      /\ UNCHANGED <<orders, book>> /\ up' = {} /\ stopping' = FALSE
      /\ \A c \in Clients : reply'[c] = Idle
      /\ \A s \in Subscribers : sub'[s] = Idle
  BY Named DEF Emptied, Subscriptions
<1>2. ASSUME NEW c \in Clients
      PROVE  /\ client'[c] \in {Idle} \cup OrderAsked \cup PayAsked
             /\ client'[c].at # "wait"
             /\ client'[c] # Idle =>
                  /\ client[c] # Idle /\ client'[c].kind = client[c].kind
                  /\ client'[c].cmd = client[c].cmd /\ client'[c].result = client[c].result
                  /\ client[c].at = "wait" => client'[c].at = "answered"
  <2>1. CASE client[c].at = "wait"
    <3>1. client[c] \in OrderAsked \cup PayAsked /\ client[c] # Idle
      BY <2>1, Pieces DEF IInv, Idle
    <3>2. client'[c] = [client[c] EXCEPT !.at = "answered"]
      BY <2>1 DEF Interrupted
    <3> QED BY <3>1, <3>2 DEF OrderAsked, PayAsked
  <2>2. CASE client[c].at # "wait"
    BY <2>2 DEF Interrupted, IInv, Types, CallersOK
  <2> QED BY <2>1, <2>2
<1>3. Types'
  <2>1. TablesOK' /\ InboxOK' /\ HandlersOK' /\ HubOK'
    BY <1>1 DEF IInv, Types, TablesOK, InboxOK, HandlersOK, HubOK, Emptied, Subscriptions
  <2>2. CallersOK'
    BY <1>1, <1>2 DEF CallersOK, Emptied
  <2>3. LifeOK'
    BY <1>1, <1>2 DEF LifeOK
  <2> QED BY <2>1, <2>2, <2>3 DEF Types
<1>4. Chains'
  BY <1>1 DEF Chains, OrderChain, SagaChain, PaymentChain, EventChain, Subscriptions, Idle
<1>5. RoomInv'
  BY <1>1, RoomKept DEF Unsaved, Subscriptions, Idle
<1>6. IDsInv'
  <2>1. \A id : ~Secret(id)'
    BY <1>1 DEF Secret
  <2>2. \A cmd : KnownKey(cmd) => KnownKey(cmd)'
    BY <1>1, <2>1 DEF KnownKey
  <2> QED BY <1>1, <1>2, <2>1, <2>2 DEF IInv, IDsInv
<1>7. OwnInv'
  BY <1>1, <1>2 DEF IInv, OwnInv, AnswersOwnOrder, Idle
<1>8. PaidInv'
  <2>1. \A id \in DOMAIN orders : Settled(EffectiveKey(id))'
    <3> SUFFICES ASSUME NEW id \in DOMAIN orders
                 PROVE  Settled(EffectiveKey(id))'
      OBVIOUS
    <3>1. CASE Create # Idle /\ Create.id = id
      <4>1. orders[id] = Create.cmd
        BY <3>1, Pieces DEF IInv, OwnInv, Creating
      <4> QED BY <1>1, <3>1, <4>1 DEF Settled, EffectiveKey, KeyOf
    <3>2. CASE ~(Create # Idle /\ Create.id = id)
      BY <1>1, <3>2 DEF IInv, PaidInv, Settled, EffectiveKey
    <3> QED BY <3>1, <3>2
  <2>2. \A c \in Clients :
          client'[c] # Idle /\ client'[c].kind = "pay" /\ client'[c].at = "answered"
            /\ client'[c].result = NoKey => client'[c].cmd.key \in failed'
    <3> SUFFICES ASSUME NEW c \in Clients, client'[c] # Idle, client'[c].kind = "pay",
                        client'[c].at = "answered", client'[c].result = NoKey
                 PROVE  client'[c].cmd.key \in failed'
      OBVIOUS
    <3>1. CASE client[c].at = "wait"
      BY <1>2, <3>1 DEF DirectKeys, Interrupted
    <3>2. CASE client[c].at # "wait"
      BY <1>2, <3>2 DEF IInv, PaidInv, Interrupted
    <3> QED BY <3>1, <3>2
  <2> QED BY <1>1, <1>2, <2>1, <2>2 DEF PaidInv, Idle
<1>9. OrderedInv'
  BY <1>1 DEF IInv, OrderedInv, PaymentsWereOrdered, Backed, EffectiveKey, Subscriptions
<1>a. InHand' /\ HubInv'
  BY <1>1 DEF InHand, HubInv, NoSendOnClosed, Subscriptions
<1> QED BY <1>3, <1>4, <1>5, <1>6, <1>7, <1>8, <1>9, <1>a DEF IInv

LEMMA EndsKeep ==
  ASSUME IInv, CloseRouter \/ Crash
  PROVE  IInv'
<1>k. PICK k : k = KeyOf(Create.id, Create.cmd)
  OBVIOUS
<1>1. CASE CloseRouter
  <2>1. Create = Idle /\ failed' = failed /\ client' = client /\ Emptied
    BY <1>1 DEF CloseRouter, Create, Subscriptions
  <2>2. Interrupted = {}
    BY <1>1 DEF CloseRouter, Interrupted, IInv, Types, LifeOK, Router, Stream
  <2>3. client' = [c \in Clients |-> IF c \in Interrupted
                                     THEN [client[c] EXCEPT !.at = "answered"] ELSE client[c]]
    BY <2>1, <2>2 DEF IInv, Types, CallersOK
  <2>4. DirectKeys(Interrupted) = {}
    BY <2>2 DEF DirectKeys
  <2> QED BY <2>1, <2>3, <2>4, EmptiedKeeps DEF IInv, Types, TablesOK
<1>2. CASE Crash
  <2>1. Emptied /\ failed' = failed \cup DirectKeys(Interrupted)
                      \cup {KeyOf(Create.id, Create.cmd) : h \in {Create} \ {Idle}}
    BY <1>2 DEF Crash
  <2>2. Create # Idle => k \in Keys /\ k \in failed'
    BY <1>k, <2>1, Pieces, CommandKeys DEF IInv, Creating
  <2>3. \A c \in Interrupted : client[c].kind = "pay" => client[c].cmd.key \in Keys
    BY Pieces, OrderSagaAssumption DEF IInv, Interrupted, OrderAsked, PayAsked
  <2>4. failed' \subseteq Keys
    BY <1>k, <2>1, <2>2, <2>3 DEF DirectKeys, IInv, Types, TablesOK
  <2> QED BY <1>k, <1>2, <2>1, <2>2, <2>4, EmptiedKeeps DEF Crash
<1> QED BY <1>1, <1>2

-----------------------------------------------------------------------------
(* The specification.                                                      *)

LEMMA InitKeeps ==
  ASSUME Init
  PROVE  IInv
<1>1. /\ Create = Idle /\ Paying = Idle /\ Streaming = Idle /\ handler["saga"] = Idle
      /\ DOMAIN handler = Subscriptions /\ DOMAIN inbox = Subscriptions
      /\ \A s \in Subscriptions : inbox[s] = {}
      /\ DOMAIN orders = {} /\ DOMAIN book = {} /\ failed = {} /\ up = {} /\ stopping = FALSE
      /\ \A c \in Clients : client[c] = Idle /\ reply[c] = Idle
      /\ \A s \in Subscribers : sub[s] = Idle
  BY Named DEF Init, Subscriptions
<1>2. Types
  BY <1>1 DEF Init, Types, TablesOK, CallersOK, InboxOK, HandlersOK, HubOK, LifeOK, Subscriptions, Idle
<1>3. Chains
  BY <1>1 DEF Chains, OrderChain, SagaChain, PaymentChain, EventChain, Subscriptions, Idle
<1>4. RoomInv
  <2>1. Unsaved = {} /\ DOMAIN orders = {}
    BY <1>1 DEF Unsaved, Subscriptions, Idle
  <2>2. Cardinality(OrderIDs) \in Nat
    BY OrderSagaAssumption, FS_CardinalityType
  <2> QED BY <2>1, <2>2, FS_EmptySet DEF RoomInv
<1>5. IDsInv /\ OwnInv /\ PaidInv /\ OrderedInv /\ InHand /\ HubInv
  BY <1>1 DEF IDsInv, OwnInv, AnswersOwnOrder, PaidInv, OrderedInv, PaymentsWereOrdered, InHand,
              HubInv, NoSendOnClosed, Subscriptions, Idle
<1> QED BY <1>2, <1>3, <1>4, <1>5 DEF IInv

LEMMA StutterKeeps ==
  ASSUME IInv, UNCHANGED vars
  PROVE  IInv'
<1>1. UNCHANGED <<orders, book, client, reply, inbox, handler, sub, failed, up, stopping>>
  BY DEF vars, life
<1>2. LifeOK'
  BY <1>1 DEF IInv, Types, LifeOK
<1> QED BY <1>1, <1>2, LifeKeeps

LEMMA StepKeeps ==
  ASSUME IInv, [Next]_vars
  PROVE  IInv'
<1>1. ASSUME NEW c \in Clients, \/ \E cmd \in OrderCommands : CreateOrder(c, cmd)
                                \/ \E cmd \in PayCommands : ProcessPayment(c, cmd)
      PROVE  IInv'
  BY <1>1, AsksOrder, AsksPayment
<1>2. ASSUME NEW c \in Clients, AnswerStep(c) \/ AnswerError(c)
      PROVE  IInv'
  BY <1>2, AnswersKeep DEF AnswerStep
<1>3. ASSUME NEW c \in Clients, TakeOrderFrom(c)
      PROVE  IInv'
  BY <1>3, TakeOrderKeeps, RejectOrderKeeps DEF TakeOrderFrom
<1>4. CASE OrderStep
  BY <1>4, SaveOrderKeeps, ReturnsKeeps, PublishOrderKeeps DEF OrderStep
<1>5. CASE SagaStep
  BY <1>5, TakeOrderCreatedKeeps, DispatchFailsKeeps, SagaDoneKeeps DEF SagaStep
<1>6. CASE PaymentStep
  BY <1>6, PublishPaymentKeeps, PaymentDoneKeeps DEF PaymentStep
<1>7. CASE StreamStep
  BY <1>7, TakeEventKeeps, SendToKeeps, AckEventKeeps DEF StreamStep
<1>8. ASSUME NEW sender \in Clients \cup {"saga"}, TakePaymentFrom(sender)
      PROVE  IInv'
  BY <1>8, ReplayOrErrorKeeps, SettleKeeps DEF TakePaymentFrom
<1>9. ASSUME NEW s \in Subscribers,
             (\E name \in KnownNames : Subscribe(s, name)) \/ Receive(s) \/ Unsubscribe(s)
      PROVE  IInv'
  BY <1>9, SubscribeKeeps, ReceiveKeeps, UnsubscribeKeeps
<1>a. CASE LifeStep \/ Shutdown \/ Crash
  BY <1>a, StartsAndStopsKeep, EndsKeep DEF LifeStep
<1>b. CASE UNCHANGED vars
  BY <1>b, StutterKeeps
<1> QED BY <1>1, <1>2, <1>3, <1>4, <1>5, <1>6, <1>7, <1>8, <1>9, <1>a, <1>b DEF Next

THEOREM Inductive == Spec => []IInv
<1>1. Init => IInv
  BY InitKeeps
<1>2. IInv /\ [Next]_vars => IInv'
  BY StepKeeps
<1> QED BY <1>1, <1>2, PTL DEF Spec

(* Every variable has its type (OrderSaga's TypeOK), in every state.       *)
THEOREM TypesOK == Spec => []TypeOK
<1>1. IInv => TypeOK
  <2> SUFFICES ASSUME IInv PROVE TypeOK
    OBVIOUS
  <2>1. \A c \in Clients :
          /\ client[c] # Idle =>
               /\ client[c].at \in {"wait", "answered"}
               /\ [kind |-> client[c].kind, cmd |-> client[c].cmd] \in Request
               /\ client[c].result \in Keys \cup {NoKey}
          /\ reply[c] # Idle => reply[c].id \in OrderIDs \cup {NoKey}
    BY DEF IInv, Types, CallersOK, OrderAsked, PayAsked, Replied, Request, Keys
  <2>2. /\ \A m \in inbox["create_order"] : m.from \in Clients /\ m.cmd \in OrderCommands
        /\ \A m \in inbox["saga"] : m.key \in Keys /\ m.amount \in Nat
        /\ \A m \in inbox["stream"] : m.key \in Keys
    BY DEF IInv, Types, InboxOK, OrderMessage, CreatedMessage, Event
  <2>3. handler["stream"] # Idle =>
          handler["stream"].key \in Keys /\ handler["stream"].todo \subseteq Subscribers
    BY DEF IInv, Types, HandlersOK, Streaming, Sending
  <2>4. \A s \in Subscribers : sub[s] # Idle => sub[s].ch \in Seq(Keys) /\ Len(sub[s].ch) <= HubBuffer
    BY DEF IInv, Types, HubOK, Listening
  <2> QED BY <2>1, <2>2, <2>3, <2>4 DEF TypeOK, IInv, Types, TablesOK, InboxOK, HandlersOK, LifeOK
<1> QED BY <1>1, Inductive, PTL

(* Read after write (messaging.go 8-11): an answered order is paid, and an *)
(* answered payment found, unless a call for the key failed.  An order is  *)
(* answered only when its handler is done with it (IDsInv), and by then    *)
(* the saga has followed it to the end (PaidInv).                          *)
THEOREM AnsweredPaid == Spec => []AnsweredIsPaid
<1>1. IInv => AnsweredIsPaid
  <2> SUFFICES ASSUME IInv, NEW c \in Clients, client[c].at = "answered"
               PROVE  /\ client[c].kind = "order" /\ client[c].result # NoKey =>
                           EffectiveKey(client[c].result) \in DOMAIN book \cup failed
                      /\ client[c].kind = "pay" /\ client[c].result = NoKey =>
                           client[c].cmd.key \in failed
    BY DEF AnsweredIsPaid
  <2>1. client[c] # Idle
    BY DEF Idle
  <2>2. client[c].kind = "order" /\ client[c].result # NoKey =>
          EffectiveKey(client[c].result) \in DOMAIN book \cup failed
    BY <2>1 DEF IInv, OwnInv, IDsInv, Secret, PaidInv, Settled
  <2> QED BY <2>1, <2>2 DEF IInv, PaidInv
<1> QED BY <1>1, Inductive, PTL

(* Correlated replies (command_bus.go 150-202): a caller is answered the   *)
(* order its own command created.                                          *)
THEOREM OwnOrders == Spec => []AnswersOwnOrder
<1>1. IInv => AnswersOwnOrder
  BY DEF IInv, OwnInv
<1> QED BY <1>1, Inductive, PTL

(* The saga (create_order.go 83-88): what is paid was ordered and stored,  *)
(* for that amount, or asked for by a client.                              *)
THEOREM OrderedPayments == Spec => []PaymentsWereOrdered
<1>1. IInv => PaymentsWereOrdered
  BY DEF IInv, OrderedInv
<1> QED BY <1>1, Inductive, PTL

(* The stream (subscription.go 65-127): who subscribed before the payment  *)
(* of its key hears of it, whatever the capacity of the channels.          *)
THEOREM SubscribersTold == Spec => []SubscribersHear
<1>1. IInv => SubscribersHear
  BY DEF IInv, HubInv, SubscribersHear, Heard
<1> QED BY <1>1, Inductive, PTL

(* Cancellation (subscription.go 48-54): no channel is closed while a send *)
(* on it is due.                                                           *)
THEOREM ClosedUnsent == Spec => []NoSendOnClosed
<1>1. IInv => NoSendOnClosed
  BY DEF IInv, HubInv
<1> QED BY <1>1, Inductive, PTL

(* A graceful stop (main.go 90-93): when the stream is cancelled nothing   *)
(* is on its way and every order is paid, unless a call for it failed.     *)
THEOREM StopsGracefully == Spec => []GracefulStop
<1>1. IInv => GracefulStop
  <2> SUFFICES ASSUME IInv, Stream \notin up
               PROVE  /\ \A s \in Subscriptions : handler[s] = Idle /\ inbox[s] = {}
                      /\ \A id \in DOMAIN orders : EffectiveKey(id) \in DOMAIN book \cup failed
    BY DEF GracefulStop
  <2>1. /\ Create = Idle /\ handler["saga"] = Idle /\ Paying = Idle /\ Streaming = Idle
        /\ \A s \in Subscriptions : inbox[s] = {}
    BY RouterRuns DEF IInv, Subscribed
  <2>2. \A s \in Subscriptions : handler[s] = Idle
    BY <2>1, Named DEF Subscriptions
  <2> QED BY <2>1, <2>2 DEF IInv, PaidInv, Settled
<1> QED BY <1>1, Inductive, PTL
=============================================================================
