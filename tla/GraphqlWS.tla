------------------------------ MODULE GraphqlWS ------------------------------
(***************************************************************************)
(* One WebSocket connection that speaks graphql-transport-ws (wsConn): a   *)
(* goroutine reads the client's messages and starts operations, one pumps  *)
(* the responses of each operation, one alone writes, and a bounded queue  *)
(* lies between them.  Connections share nothing with each other.  The     *)
(* executor is external: a query or mutation yields one response, a        *)
(* subscription any number until its context ends.                         *)
(***************************************************************************)
EXTENDS Naturals, Sequences, FiniteSets

CONSTANTS
  IDs,           \* operation ids the client uses
  OutCap,        \* capacity of the queue, 32 in the code
  MaxOps,        \* bound: operations started on the connection
  StrictClient,  \* the client uses an id again only when it read its complete
  Faults         \* "write": a write may fail on a connection that still reads

Ops == 1 .. MaxOps

ASSUME GraphqlWSAssumption ==
  /\ OutCap \in Nat \ {0} /\ MaxOps \in Nat
  /\ StrictClient \in BOOLEAN /\ Faults \subseteq {"write"}

VARIABLES
  reader,    \* serve: reading, a message it is sending, leaving or returned
  writer,    \* writeLoop: idle, the message it is writing, or stopped
  out,       \* wsConn.out
  done,      \* wsConn.done is closed
  connCtx,   \* the connection's context is alive
  ops,       \* wsConn.ops: id -> the operation its cancel function belongs to
  op,        \* operations started, and the goroutine that pumps each
  broken,    \* the peer is gone
  completed  \* operations whose complete a strict client has read

vars == <<reader, writer, out, done, connCtx, ops, op, broken, completed>>

At(place) == [type |-> place, op |-> 0]   \* a goroutine that holds no message

Plain == [type |-> "plain", op |-> 0]      \* any message but a complete
Complete(n) == [type |-> "complete", op |-> n]
Message == {Plain} \cup {Complete(n) : n \in Ops}

Operation ==
  [id : IDs, kind : {"once", "stream"},
   at : {"respond", "next", "complete", "unregister", "ended"},
   more : BOOLEAN,       \* the executor has another response
   cancelled : BOOLEAN,  \* its context was cancelled by its own cancel function
   asked : BOOLEAN]      \* the client completed it

TypeOK ==
  /\ reader \in {At("read"), At("leaving"), At("returned")} \cup Message
  /\ writer \in {At("idle"), At("stopped")} \cup Message
  /\ out \in Seq(Message) /\ Len(out) <= OutCap
  /\ done \in BOOLEAN /\ connCtx \in BOOLEAN /\ broken \in BOOLEAN
  /\ DOMAIN op = 1 .. Len(op) /\ Len(op) <= MaxOps
  /\ op \in Seq(Operation)
  /\ DOMAIN ops \subseteq IDs /\ \A id \in DOMAIN ops : op[ops[id]].id = id
  /\ completed \subseteq DOMAIN op

Init ==
  /\ reader = At("read") /\ writer = At("idle")
  /\ out = <<>> /\ done = FALSE /\ connCtx = TRUE
  /\ ops = [id \in {} |-> 0]
  /\ op = <<>>
  /\ broken = FALSE /\ completed = {}

-----------------------------------------------------------------------------
(* Mutant: a send never waits.                                             *)
SendUnbounded(m) == out' = Append(out, m)

(* send: queued when there is room, dropped when the connection has ended; *)
(* when both are possible either may happen.                               *)
Send(m) ==
  \/ Len(out) < OutCap /\ out' = Append(out, m)
  \/ done /\ out' = out

(* cancelOperation: the entry goes, and the context of the operation it    *)
(* belongs to with it.                                                     *)
Unlisted(id)  == [i \in DOMAIN ops \ {id} |-> ops[i]]
Designated(id) == {ops[i] : i \in DOMAIN ops \cap {id}}

(* Mutant: the contexts of all operations are cancelled.                   *)
CancelledAll(id) == [n \in DOMAIN op |-> [op[n] EXCEPT !.cancelled = TRUE]]

Cancelled(id) ==
  [n \in DOMAIN op |->
     IF n \in Designated(id) THEN [op[n] EXCEPT !.cancelled = TRUE] ELSE op[n]]

ContextEnded(n) == op[n].cancelled \/ ~connCtx

-----------------------------------------------------------------------------
(* serve: ReadJSON and what each message does.                             *)

(* Messages with one answer and no other effect: connection_init, ping,    *)
(* and a subscribe whose payload cannot be parsed or is rejected.          *)
ReadControl ==
  /\ reader = At("read") /\ ~broken
  /\ reader' = Plain
  /\ UNCHANGED <<writer, out, done, connCtx, ops, op, broken, completed>>

MayUse(id) ==
  StrictClient => \A n \in DOMAIN op : op[n].id = id => n \in completed

Registered(id) == [i \in DOMAIN ops \cup {id} |-> IF i = id THEN Len(op) + 1 ELSE ops[i]]

StartOperation(id, kind) ==
  /\ reader = At("read") /\ ~broken
  /\ Len(op) < MaxOps /\ MayUse(id)
  /\ ops' = Registered(id)
  /\ op' = Append(op, [id |-> id, kind |-> kind, at |-> "respond", more |-> TRUE,
                       cancelled |-> FALSE, asked |-> FALSE])
  /\ UNCHANGED <<reader, writer, out, done, connCtx, broken, completed>>

(* Mutant: the operation is forgotten and not cancelled.                   *)
CompleteOperationForgets(id) ==
  /\ reader = At("read") /\ ~broken
  /\ id \in DOMAIN ops
  /\ ops' = Unlisted(id)
  /\ op' = [n \in DOMAIN op |-> IF n \in Designated(id)
                                THEN [op[n] EXCEPT !.asked = TRUE] ELSE op[n]]
  /\ UNCHANGED <<reader, writer, out, done, connCtx, broken, completed>>

(* The client's complete.                                                  *)
CompleteOperation(id) ==
  /\ reader = At("read") /\ ~broken
  /\ id \in DOMAIN ops
  /\ ops' = Unlisted(id)
  /\ op' = [n \in DOMAIN op |-> IF n \in Designated(id)
                                THEN [Cancelled(id)[n] EXCEPT !.asked = TRUE]
                                ELSE Cancelled(id)[n]]
  /\ UNCHANGED <<reader, writer, out, done, connCtx, broken, completed>>

ReaderSends ==
  /\ reader \in Message
  /\ Send(reader)
  /\ reader' = At("read")
  /\ UNCHANGED <<writer, done, connCtx, ops, op, broken, completed>>

(* ReadJSON fails: the deferred calls shut the connection down, then end   *)
(* its context.                                                            *)
ReadFails ==
  /\ reader = At("read") /\ broken
  /\ done' = TRUE
  /\ reader' = At("leaving")
  /\ UNCHANGED <<writer, out, connCtx, ops, op, broken, completed>>

ServeReturns ==
  /\ reader = At("leaving")
  /\ connCtx' = FALSE
  /\ reader' = At("returned")
  /\ UNCHANGED <<writer, out, done, ops, op, broken, completed>>

-----------------------------------------------------------------------------
(* The pump of an operation.                                               *)
PumpTo(n, at) == op' = [op EXCEPT ![n].at = at]

Respond(n) ==
  /\ op[n].at = "respond"
  /\ op[n].more
  /\ op' = [op EXCEPT ![n].at = "next", ![n].more = op[n].kind = "stream"]
  /\ UNCHANGED <<reader, writer, out, done, connCtx, ops, broken, completed>>

(* responses returns nil: nothing more, or the context has ended.          *)
LastResponse(n) ==
  /\ op[n].at = "respond"
  /\ ~op[n].more \/ (op[n].kind = "stream" /\ ContextEnded(n))
  /\ PumpTo(n, "complete")
  /\ UNCHANGED <<reader, writer, out, done, connCtx, ops, broken, completed>>

PumpSends(n) ==
  /\ op[n].at \in {"next", "complete"}
  /\ Send(IF op[n].at = "next" THEN Plain ELSE Complete(n))
  /\ PumpTo(n, IF op[n].at = "next" THEN "respond" ELSE "unregister")
  /\ UNCHANGED <<reader, writer, done, connCtx, ops, broken, completed>>

(* Mutant: the pump cancels its context and leaves its entry.              *)
PumpEndsListed(n) ==
  /\ op[n].at = "unregister"
  /\ op' = [op EXCEPT ![n].cancelled = TRUE, ![n].at = "ended"]
  /\ UNCHANGED <<reader, writer, out, done, connCtx, ops, broken, completed>>

(* The deferred cancelOperation, by id.                                    *)
PumpEnds(n) ==
  /\ op[n].at = "unregister"
  /\ ops' = Unlisted(op[n].id)
  /\ op' = [Cancelled(op[n].id) EXCEPT ![n].at = "ended"]
  /\ UNCHANGED <<reader, writer, out, done, connCtx, broken, completed>>

-----------------------------------------------------------------------------
(* writeLoop, and the network.                                             *)
WriterTakes ==
  /\ writer = At("idle") /\ out # <<>>
  /\ writer' = Head(out) /\ out' = Tail(out)
  /\ UNCHANGED <<reader, done, connCtx, ops, op, broken, completed>>

(* The peer has read the message; until then WriteJSON may block.          *)
WriteDone ==
  /\ writer \in Message /\ ~broken
  /\ completed' = completed \cup (IF StrictClient THEN {writer.op} \ {0} ELSE {})
  /\ writer' = At("idle")
  /\ UNCHANGED <<reader, out, done, connCtx, ops, op, broken>>

(* Mutant: the writer leaves without telling anybody.                      *)
WriteFailsSilently ==
  /\ writer \in Message /\ (broken \/ "write" \in Faults)
  /\ writer' = At("stopped")
  /\ UNCHANGED <<reader, out, done, connCtx, ops, op, broken, completed>>

WriteFails ==
  /\ writer \in Message /\ (broken \/ "write" \in Faults)
  /\ done' = TRUE
  /\ writer' = At("stopped")
  /\ UNCHANGED <<reader, out, connCtx, ops, op, broken, completed>>

WriterStops ==
  /\ writer = At("idle") /\ done
  /\ writer' = At("stopped")
  /\ UNCHANGED <<reader, out, done, connCtx, ops, op, broken, completed>>

Disconnect ==
  /\ ~broken
  /\ broken' = TRUE
  /\ UNCHANGED <<reader, writer, out, done, connCtx, ops, op, completed>>

PumpStep(n) == Respond(n) \/ LastResponse(n) \/ PumpSends(n) \/ PumpEnds(n)

Next ==
  \/ ReadControl
  \/ \E id \in IDs : CompleteOperation(id) \/ \E kind \in {"once", "stream"} : StartOperation(id, kind)
  \/ ReaderSends \/ ReadFails \/ ServeReturns
  \/ \E n \in DOMAIN op : PumpStep(n)
  \/ WriterTakes \/ WriteDone \/ WriteFails \/ WriterStops
  \/ Disconnect

Spec == Init /\ [][Next]_vars

(* Goroutines are scheduled.  Senders that wait on a channel are queued,   *)
(* and a select picks at random: none of its ready cases is passed over    *)
(* for ever.  Neither the client nor the network need ever do anything,    *)
(* but a write on a broken connection fails.                               *)
Ready(n) == n \in DOMAIN op
Fairness ==
  /\ SF_vars(ReaderSends) /\ WF_vars(ReadFails) /\ WF_vars(ServeReturns)
  /\ WF_vars(WriterTakes) /\ SF_vars(WriterStops) /\ WF_vars(broken /\ WriteFails)
  /\ \A n \in Ops :
       /\ WF_vars(Ready(n) /\ (PumpEnds(n) \/ (~op[n].more /\ LastResponse(n))))
       /\ WF_vars(Ready(n) /\ op[n].kind = "once" /\ Respond(n))
       /\ SF_vars(Ready(n) /\ LastResponse(n))
       /\ SF_vars(Ready(n) /\ PumpSends(n))

FairSpec == Spec /\ Fairness

-----------------------------------------------------------------------------
(* Properties.                                                             *)

(* The table of operations (graphql_ws.go 128-146): it lists no operation  *)
(* that has ended or was cancelled, and every other one until a later one  *)
(* takes its id.                                                           *)
RegisteredUntilEnd ==
  /\ \A id \in DOMAIN ops : op[ops[id]].at # "ended" /\ ~op[ops[id]].cancelled
  /\ \A n \in DOMAIN op :
       op[n].at # "ended" /\ ~op[n].cancelled =>
         \/ op[n].id \in DOMAIN ops /\ ops[op[n].id] = n
         \/ \E m \in DOMAIN op : m > n /\ op[m].id = op[n].id

(* cancelOperation (graphql_ws.go 134, 146-154): an operation is cancelled *)
(* by its client, by its own end, or by that of an earlier operation with  *)
(* the same id, and by no other.                                           *)
CancelledForCause ==
  \A n \in DOMAIN op :
    op[n].cancelled /\ ~op[n].asked /\ op[n].at # "ended" =>
      \E m \in DOMAIN op : m < n /\ op[m].id = op[n].id /\ op[m].at = "ended"

(* connCtx, done and the deferred calls (graphql_ws.go 67-73, 171-183):    *)
(* when the peer is gone every goroutine of the connection ends, however   *)
(* full the queue is and whatever each of them was doing.                  *)
DisconnectEndsAll ==
  broken ~> /\ reader = At("returned") /\ writer = At("stopped") /\ DOMAIN ops = {}
            /\ \A n \in DOMAIN op : op[n].at = "ended"

(* complete (graphql_ws.go 89-90): an operation the client completed ends, *)
(* as long as no write blocks for ever: again and again, none still runs.  *)
CompletedEnds ==
  []<>(writer \notin Message) =>
    []<>(\A n \in DOMAIN op : op[n].asked => op[n].at = "ended")

(* graphql_ws.go 97-99: every response of an operation is pumped, and it   *)
(* ends with its complete; nothing but its client's complete cancels it.   *)
OperationsUndisturbed ==
  \A n \in DOMAIN op : op[n].cancelled => op[n].asked \/ op[n].at = "ended"
=============================================================================
