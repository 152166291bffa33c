-------------------------- MODULE GraphqlWSProofs --------------------------
(***************************************************************************)
(* Proofs about GraphqlWS, for any ids, number of operations, capacity of  *)
(* the queue, client and write faults; the last says of which clients the  *)
(* operations all run undisturbed.                                         *)
(***************************************************************************)
EXTENDS GraphqlWS, TLAPS

-----------------------------------------------------------------------------
(* The inductive invariant.                                                *)

(* An entry names the latest operation of its id.                          *)
LatestListed ==
  \A id \in DOMAIN ops :
    /\ ops[id] \in DOMAIN op /\ op[ops[id]].id = id
    /\ \A n \in DOMAIN op : op[n].id = id => n <= ops[id]

(* A message belongs to no operation or to one that was started.           *)
OfStarted(m) == m \in Message /\ m.op \in {0} \cup DOMAIN op

InFlight ==
  /\ reader \in Message => OfStarted(reader)
  /\ writer \in Message => OfStarted(writer)
  /\ \A i \in DOMAIN out : OfStarted(out[i])

IInv == TypeOK /\ LatestListed /\ InFlight /\ RegisteredUntilEnd /\ CancelledForCause

-----------------------------------------------------------------------------
(* Goroutines and messages.                                                *)

LEMMA Kinds ==
  /\ Plain \in Message /\ Plain.op = 0
  /\ \A n \in Ops : Complete(n) \in Message /\ Complete(n).op = n
  /\ \A place \in {"read", "leaving", "returned", "idle", "stopped"} : At(place) \notin Message
BY DEF Plain, Message, Complete, At

(* What a send may leave in the queue.                                     *)
LEMMA SendKeeps ==
  ASSUME IInv, NEW m, OfStarted(m), Send(m)
  PROVE  /\ out' \in Seq(Message) /\ Len(out') <= OutCap
         /\ \A i \in DOMAIN out' : OfStarted(out'[i])
<1>1. CASE Len(out) < OutCap /\ out' = Append(out, m)
  <2>1. out \in Seq(Message) /\ m \in Message
    BY DEF IInv, TypeOK, OfStarted
  <2>2. /\ out' \in Seq(Message) /\ Len(out') = Len(out) + 1
        /\ \A i \in 1 .. Len(out') : out'[i] = IF i = Len(out) + 1 THEN m ELSE out[i]
    BY <1>1, <2>1
  <2>3. Len(out') <= OutCap
    BY <1>1, <2>1, <2>2, GraphqlWSAssumption
  <2>4. \A i \in DOMAIN out' : OfStarted(out'[i])
    BY <2>1, <2>2 DEF IInv, InFlight
  <2> QED BY <2>2, <2>3, <2>4
<1>2. CASE out' = out
  BY <1>2 DEF IInv, TypeOK, InFlight
<1> QED BY <1>1, <1>2 DEF Send

(* Steps that leave the operations and their table alone.                  *)
LEMMA TransportKeeps ==
  ASSUME IInv,
         \/ ReadControl \/ ReaderSends \/ ReadFails \/ ServeReturns
         \/ WriterTakes \/ WriteDone \/ WriteFails \/ WriterStops \/ Disconnect
  PROVE  IInv'
<1>1. UNCHANGED <<ops, op>>
  BY DEF ReadControl, ReaderSends, ReadFails, ServeReturns, WriterTakes, WriteDone,
         WriteFails, WriterStops, Disconnect
<1>2. \A m : OfStarted(m)' <=> OfStarted(m)
  BY <1>1 DEF OfStarted
<1>3. LatestListed' /\ RegisteredUntilEnd' /\ CancelledForCause'
  BY <1>1 DEF IInv, LatestListed, RegisteredUntilEnd, CancelledForCause
<1>4. CASE ReadControl
  <2>1. TypeOK'
    BY <1>4, Kinds DEF ReadControl, IInv, TypeOK
  <2>2. InFlight'
    BY <1>2, <1>4, Kinds DEF ReadControl, IInv, InFlight, OfStarted
  <2> QED BY <1>3, <2>1, <2>2 DEF IInv
<1>5. CASE ReaderSends
  <2>1. /\ out' \in Seq(Message) /\ Len(out') <= OutCap
        /\ \A i \in DOMAIN out' : OfStarted(out'[i])
    BY <1>5, SendKeeps DEF ReaderSends, IInv, InFlight
  <2>2. TypeOK'
    BY <1>5, <2>1 DEF ReaderSends, IInv, TypeOK
  <2>3. InFlight'
    BY <1>2, <1>5, <2>1, Kinds DEF ReaderSends, IInv, InFlight
  <2> QED BY <1>3, <2>2, <2>3 DEF IInv
<1>6. CASE ReadFails \/ ServeReturns \/ Disconnect
  <2>1. TypeOK'
    BY <1>6 DEF ReadFails, ServeReturns, Disconnect, IInv, TypeOK
  <2>2. InFlight'
    BY <1>2, <1>6, Kinds DEF ReadFails, ServeReturns, Disconnect, IInv, InFlight
  <2> QED BY <1>3, <2>1, <2>2 DEF IInv
<1>7. CASE WriterTakes
  <2>1. /\ out \in Seq(Message) /\ out # <<>>
        /\ writer' = Head(out) /\ out' = Tail(out)
    BY <1>7 DEF WriterTakes, IInv, TypeOK
  <2>2. /\ writer' = out[1] /\ out' \in Seq(Message) /\ Len(out') <= OutCap
        /\ \A i \in DOMAIN out' : i + 1 \in DOMAIN out /\ out'[i] = out[i + 1]
        /\ 1 \in DOMAIN out
    BY <2>1, GraphqlWSAssumption DEF IInv, TypeOK
  <2>3. InFlight'
    BY <1>2, <1>7, <2>2 DEF WriterTakes, IInv, InFlight
  <2>4. TypeOK'
    BY <1>7, <2>2 DEF WriterTakes, IInv, TypeOK, InFlight, OfStarted
  <2> QED BY <1>3, <2>3, <2>4 DEF IInv
<1>8. CASE WriteDone
  <2>1. TypeOK'
    BY <1>8 DEF WriteDone, IInv, TypeOK, InFlight, OfStarted
  <2>2. InFlight'
    BY <1>2, <1>8, Kinds DEF WriteDone, IInv, InFlight
  <2> QED BY <1>3, <2>1, <2>2 DEF IInv
<1>9. CASE WriteFails \/ WriterStops
  <2>1. TypeOK'
    BY <1>9 DEF WriteFails, WriterStops, IInv, TypeOK
  <2>2. InFlight'
    BY <1>2, <1>9, Kinds DEF WriteFails, WriterStops, IInv, InFlight
  <2> QED BY <1>3, <2>1, <2>2 DEF IInv
<1> QED BY <1>4, <1>5, <1>6, <1>7, <1>8, <1>9

-----------------------------------------------------------------------------
(* The operations.                                                         *)

(* A pump that goes on keeps its operation's id and context.               *)
LEMMA PumpGoesOn ==
  ASSUME IInv, NEW n \in DOMAIN op, NEW now \in Operation,
         op[n].at # "ended", now.at # "ended",
         now.id = op[n].id, now.cancelled = op[n].cancelled, now.asked = op[n].asked,
         op' = [op EXCEPT ![n] = now],
         out' \in Seq(Message), Len(out') <= OutCap, \A i \in DOMAIN out' : OfStarted(out'[i]),
         UNCHANGED <<reader, writer, done, connCtx, ops, broken, completed>>
  PROVE  IInv'
<1>1. op \in Seq(Operation)
  BY DEF IInv, TypeOK
<1>2. /\ op' \in Seq(Operation) /\ Len(op') = Len(op) /\ DOMAIN op' = DOMAIN op
      /\ \A m \in DOMAIN op : op'[m] = IF m = n THEN now ELSE op[m]
  BY <1>1
<1>3. \A m \in DOMAIN op :
        /\ op'[m].id = op[m].id /\ op'[m].cancelled = op[m].cancelled
        /\ op'[m].asked = op[m].asked /\ (op'[m].at = "ended" <=> op[m].at = "ended")
  BY <1>2
<1>4. LatestListed'
  BY <1>2, <1>3 DEF IInv, LatestListed
<1>5. TypeOK'
  BY <1>1, <1>2, <1>4 DEF IInv, TypeOK, LatestListed
<1>6. InFlight'
  BY <1>2 DEF IInv, InFlight, OfStarted
<1>7. RegisteredUntilEnd'
  BY <1>2, <1>3 DEF IInv, RegisteredUntilEnd, LatestListed
<1>8. CancelledForCause'
  BY <1>2, <1>3 DEF IInv, CancelledForCause
<1> QED BY <1>4, <1>5, <1>6, <1>7, <1>8 DEF IInv

LEMMA StartOperationKeeps ==
  ASSUME IInv, NEW id \in IDs, NEW kind \in {"once", "stream"}, StartOperation(id, kind)
  PROVE  IInv'
<1> DEFINE new == [id |-> id, kind |-> kind, at |-> "respond", more |-> TRUE,
                   cancelled |-> FALSE, asked |-> FALSE]
<1>1. /\ new \in Operation /\ new.id = id /\ new.at # "ended" /\ ~new.cancelled
  BY DEF Operation
<1>2. op \in Seq(Operation) /\ Len(op) \in Nat /\ Len(op) < MaxOps
  BY DEF IInv, TypeOK, StartOperation
<1>3. op' = Append(op, new)
  BY DEF StartOperation
<1> HIDE DEF new
<1>4. /\ op' \in Seq(Operation) /\ Len(op') = Len(op) + 1
      /\ DOMAIN op' = DOMAIN op \cup {Len(op) + 1} /\ Len(op) + 1 \notin DOMAIN op
      /\ op'[Len(op) + 1] = new
      /\ \A n \in DOMAIN op : op'[n] = op[n] /\ n < Len(op) + 1
  BY <1>1, <1>2, <1>3
<1>5. /\ DOMAIN ops' = DOMAIN ops \cup {id} /\ ops'[id] = Len(op) + 1
      /\ \A i \in DOMAIN ops : i # id => ops'[i] = ops[i]
  BY DEF StartOperation, Registered
<1>6. LatestListed'
  BY <1>1, <1>2, <1>4, <1>5 DEF IInv, LatestListed
<1>7. TypeOK'
  <2>1. Len(op') <= MaxOps /\ DOMAIN op' = 1 .. Len(op')
    BY <1>2, <1>4, GraphqlWSAssumption
  <2>2. DOMAIN ops' \subseteq IDs /\ \A i \in DOMAIN ops' : op'[ops'[i]].id = i
    BY <1>5, <1>6 DEF IInv, TypeOK, LatestListed
  <2>3. completed' \subseteq DOMAIN op'
    BY <1>4 DEF IInv, TypeOK, StartOperation
  <2> QED BY <1>4, <2>1, <2>2, <2>3 DEF IInv, TypeOK, StartOperation
<1>8. InFlight'
  BY <1>4 DEF IInv, InFlight, OfStarted, StartOperation
<1>9. RegisteredUntilEnd'
  <2>1. \A i \in DOMAIN ops' : op'[ops'[i]].at # "ended" /\ ~op'[ops'[i]].cancelled
    BY <1>1, <1>4, <1>5 DEF IInv, RegisteredUntilEnd, LatestListed
  <2>2. ASSUME NEW n \in DOMAIN op', op'[n].at # "ended", ~op'[n].cancelled
        PROVE  \/ op'[n].id \in DOMAIN ops' /\ ops'[op'[n].id] = n
               \/ \E m \in DOMAIN op' : m > n /\ op'[m].id = op'[n].id
    <3>1. CASE n = Len(op) + 1
      BY <3>1, <1>1, <1>4, <1>5
    <3>2. CASE n \in DOMAIN op /\ op[n].id = id
      BY <3>2, <1>1, <1>2, <1>4
    <3>3. CASE n \in DOMAIN op /\ op[n].id # id
      BY <2>2, <3>3, <1>4, <1>5 DEF IInv, RegisteredUntilEnd
    <3> QED BY <1>4, <3>1, <3>2, <3>3
  <2> QED BY <2>1, <2>2 DEF RegisteredUntilEnd
<1>a. CancelledForCause'
  BY <1>1, <1>4 DEF IInv, CancelledForCause
<1> QED BY <1>6, <1>7, <1>8, <1>9, <1>a DEF IInv

(* The entry of an id goes, and its operation, if any, is cancelled: it    *)
(* was asked for, or an earlier operation of that id ends.                 *)
LEMMA UnlistKeeps ==
  ASSUME IInv, NEW id, op' \in Seq(Operation), DOMAIN op' = DOMAIN op,
         ops' = Unlisted(id),
         \A n \in DOMAIN op :
           /\ op'[n].id = op[n].id
           /\ op[n].cancelled => op'[n].cancelled
           /\ op[n].asked => op'[n].asked
           /\ op[n].at = "ended" => op'[n].at = "ended"
           /\ op'[n].at = "ended" => op[n].at = "ended" \/ op[n].id = id
           /\ n \notin Designated(id) => op'[n].cancelled = op[n].cancelled
           /\ n \in Designated(id) =>
                /\ op'[n].cancelled
                /\ \/ op'[n].asked \/ op'[n].at = "ended"
                   \/ \E m \in DOMAIN op : m < n /\ op[m].id = id /\ op'[m].at = "ended",
         UNCHANGED <<reader, writer, out, done, connCtx, broken, completed>>
  PROVE  IInv'
<1>1. op \in Seq(Operation) /\ DOMAIN op = 1 .. Len(op) /\ DOMAIN op \subseteq Nat
  BY DEF IInv, TypeOK
<1>2. /\ DOMAIN ops' = DOMAIN ops \ {id}
      /\ \A i \in DOMAIN ops' : ops'[i] = ops[i] /\ ops[i] \notin Designated(id)
  BY DEF Unlisted, Designated, IInv, LatestListed
<1>3. \A n \in Designated(id) : n = ops[id] /\ id \in DOMAIN ops /\ op[n].id = id
  BY DEF Designated, IInv, LatestListed
<1>4. LatestListed'
  BY <1>2 DEF IInv, LatestListed
<1>5. TypeOK'
  <2>1. Len(op') = Len(op)
    BY <1>1
  <2> QED BY <1>2, <1>4, <2>1 DEF IInv, TypeOK, LatestListed
<1>6. InFlight'
  BY DEF IInv, InFlight, OfStarted
<1>7. RegisteredUntilEnd'
  <2>1. \A i \in DOMAIN ops' : op'[ops'[i]].at # "ended" /\ ~op'[ops'[i]].cancelled
    BY <1>2 DEF IInv, RegisteredUntilEnd, LatestListed
  <2>2. ASSUME NEW n \in DOMAIN op, op'[n].at # "ended", ~op'[n].cancelled
        PROVE  \/ op'[n].id \in DOMAIN ops' /\ ops'[op'[n].id] = n
               \/ \E m \in DOMAIN op' : m > n /\ op'[m].id = op'[n].id
    <3>1. /\ op[n].at # "ended" /\ ~op[n].cancelled /\ n \notin Designated(id)
      BY <2>2
    <3>2. \/ op[n].id \in DOMAIN ops /\ ops[op[n].id] = n
          \/ \E m \in DOMAIN op : m > n /\ op[m].id = op[n].id
      BY <3>1 DEF IInv, RegisteredUntilEnd
    <3>3. op[n].id \in DOMAIN ops /\ ops[op[n].id] = n => op[n].id # id
      BY <3>1 DEF Designated
    <3> QED BY <1>2, <3>2, <3>3
  <2> QED BY <2>1, <2>2 DEF RegisteredUntilEnd
<1>8. CancelledForCause'
  <2> SUFFICES ASSUME NEW n \in DOMAIN op,
                      op'[n].cancelled, ~op'[n].asked, op'[n].at # "ended"
               PROVE  \E m \in DOMAIN op : m < n /\ op[m].id = op[n].id /\ op'[m].at = "ended"
    BY DEF CancelledForCause
  <2>1. CASE n \in Designated(id)
    BY <2>1, <1>3
  <2>2. CASE n \notin Designated(id)
    BY <2>2 DEF IInv, CancelledForCause
  <2> QED BY <2>1, <2>2
<1> QED BY <1>4, <1>5, <1>6, <1>7, <1>8 DEF IInv

LEMMA CompleteOperationKeeps ==
  ASSUME IInv, NEW id \in IDs, CompleteOperation(id)
  PROVE  IInv'
<1>1. op \in Seq(Operation) /\ DOMAIN op = 1 .. Len(op) /\ Len(op) \in Nat
  BY DEF IInv, TypeOK
<1>2. /\ DOMAIN op' = DOMAIN op /\ op' = [n \in 1 .. Len(op) |-> op'[n]]
      /\ \A n \in DOMAIN op :
           op'[n] = IF n \in Designated(id)
                    THEN [op[n] EXCEPT !.cancelled = TRUE, !.asked = TRUE] ELSE op[n]
  BY <1>1 DEF CompleteOperation, Cancelled, Operation
<1>3. \A n \in DOMAIN op :
        /\ op'[n] \in Operation
        /\ op'[n].id = op[n].id /\ op'[n].at = op[n].at
        /\ op[n].cancelled => op'[n].cancelled
        /\ op[n].asked => op'[n].asked
        /\ n \notin Designated(id) => op'[n].cancelled = op[n].cancelled
        /\ n \in Designated(id) => op'[n].cancelled /\ op'[n].asked
  <2> SUFFICES ASSUME NEW n \in DOMAIN op
               PROVE  /\ op'[n] \in Operation
                      /\ op'[n].id = op[n].id /\ op'[n].at = op[n].at
                      /\ op[n].cancelled => op'[n].cancelled
                      /\ op[n].asked => op'[n].asked
                      /\ n \notin Designated(id) => op'[n].cancelled = op[n].cancelled
                      /\ n \in Designated(id) => op'[n].cancelled /\ op'[n].asked
    OBVIOUS
  <2>1. op[n] \in Operation
    BY <1>1
  <2> QED BY <1>2, <2>1 DEF Operation
<1>4. op' \in Seq(Operation)
  <2>1. op' \in [1 .. Len(op) -> Operation]
    BY <1>1, <1>2, <1>3
  <2> QED BY <1>1, <2>1
<1>5. ops' = Unlisted(id) /\ UNCHANGED <<reader, writer, out, done, connCtx, broken, completed>>
  BY DEF CompleteOperation
<1> QED BY <1>2, <1>3, <1>4, <1>5, UnlistKeeps

LEMMA PumpEndsKeeps ==
  ASSUME IInv, NEW n \in DOMAIN op, PumpEnds(n)
  PROVE  IInv'
<1> DEFINE id == op[n].id
<1>1. op \in Seq(Operation) /\ DOMAIN op = 1 .. Len(op) /\ Len(op) \in Nat
  BY DEF IInv, TypeOK
<1>2. /\ DOMAIN op' = DOMAIN op /\ op' = [m \in 1 .. Len(op) |-> op'[m]]
      /\ \A m \in DOMAIN op :
           op'[m] = IF m = n THEN [Cancelled(id)[m] EXCEPT !.at = "ended"] ELSE Cancelled(id)[m]
  <2> DEFINE cut == Cancelled(id)
  <2>1. /\ DOMAIN cut = DOMAIN op /\ cut = [m \in DOMAIN op |-> cut[m]]
        /\ op' = [cut EXCEPT ![n].at = "ended"]
    BY DEF PumpEnds, Cancelled
  <2> HIDE DEF cut
  <2>2. DOMAIN op' = DOMAIN op /\ op' = [m \in 1 .. Len(op) |-> op'[m]]
    BY <1>1, <2>1
  <2>3. \A m \in DOMAIN op : op'[m] = IF m = n THEN [cut[m] EXCEPT !.at = "ended"] ELSE cut[m]
    BY <2>1
  <2> QED BY <2>2, <2>3 DEF cut
<1>3. \A m \in DOMAIN op :
        /\ op'[m] \in Operation
        /\ op'[m].id = op[m].id /\ op'[m].asked = op[m].asked
        /\ m \in Designated(id) => op'[m].cancelled
        /\ m \notin Designated(id) => op'[m].cancelled = op[m].cancelled
        /\ op'[m].at = IF m = n THEN "ended" ELSE op[m].at
  <2> SUFFICES ASSUME NEW m \in DOMAIN op
               PROVE  /\ op'[m] \in Operation
                      /\ op'[m].id = op[m].id /\ op'[m].asked = op[m].asked
                      /\ m \in Designated(id) => op'[m].cancelled
                      /\ m \notin Designated(id) => op'[m].cancelled = op[m].cancelled
                      /\ op'[m].at = IF m = n THEN "ended" ELSE op[m].at
    OBVIOUS
  <2> DEFINE cut == Cancelled(id)[m]
  <2>1. op[m] \in Operation
    BY <1>1
  <2>2. cut = IF m \in Designated(id) THEN [op[m] EXCEPT !.cancelled = TRUE] ELSE op[m]
    BY DEF Cancelled
  <2>3. op'[m] = IF m = n THEN [cut EXCEPT !.at = "ended"] ELSE cut
    BY <1>2
  <2> HIDE DEF cut
  <2>4. /\ cut \in Operation /\ cut.id = op[m].id /\ cut.asked = op[m].asked
        /\ cut.at = op[m].at
        /\ m \in Designated(id) => cut.cancelled
        /\ m \notin Designated(id) => cut.cancelled = op[m].cancelled
    BY <2>1, <2>2 DEF Operation
  <2> QED BY <2>3, <2>4 DEF Operation
<1>4. op' \in Seq(Operation)
  <2>1. op' \in [1 .. Len(op) -> Operation]
    BY <1>1, <1>2, <1>3
  <2> QED BY <1>1, <2>1
<1>5. ops' = Unlisted(id) /\ UNCHANGED <<reader, writer, out, done, connCtx, broken, completed>>
  BY DEF PumpEnds
<1>6. \A m \in Designated(id) : m \in DOMAIN op /\ n <= m
  BY DEF Designated, IInv, LatestListed
<1>7. \A m \in Designated(id) :
        op'[m].at = "ended" \/ \E k \in DOMAIN op : k < m /\ op[k].id = id /\ op'[k].at = "ended"
  BY <1>1, <1>3, <1>6
<1> QED BY <1>2, <1>3, <1>4, <1>5, <1>7, UnlistKeeps

LEMMA PumpStepKeeps ==
  ASSUME IInv, NEW n \in DOMAIN op, PumpStep(n)
  PROVE  IInv'
<1>1. op[n] \in Operation /\ n \in Ops
  BY GraphqlWSAssumption DEF IInv, TypeOK, Ops
<1>2. out \in Seq(Message) /\ Len(out) <= OutCap /\ \A i \in DOMAIN out : OfStarted(out[i])
  BY DEF IInv, TypeOK, InFlight
<1>3. CASE Respond(n)
  <2> DEFINE now == [op[n] EXCEPT !.at = "next", !.more = op[n].kind = "stream"]
  <2>1. /\ now \in Operation /\ now.at # "ended" /\ now.id = op[n].id
        /\ now.cancelled = op[n].cancelled /\ now.asked = op[n].asked
    BY <1>1 DEF Operation
  <2>2. op' = [op EXCEPT ![n] = now]
    BY <1>1, <1>3 DEF Respond
  <2> HIDE DEF now
  <2> QED BY <1>2, <1>3, <2>1, <2>2, PumpGoesOn DEF Respond
<1>4. CASE LastResponse(n)
  <2> DEFINE now == [op[n] EXCEPT !.at = "complete"]
  <2>1. /\ now \in Operation /\ now.at # "ended" /\ now.id = op[n].id
        /\ now.cancelled = op[n].cancelled /\ now.asked = op[n].asked
    BY <1>1 DEF Operation
  <2>2. op' = [op EXCEPT ![n] = now]
    BY <1>1, <1>4 DEF LastResponse, PumpTo
  <2> HIDE DEF now
  <2> QED BY <1>2, <1>4, <2>1, <2>2, PumpGoesOn DEF LastResponse
<1>5. CASE PumpSends(n)
  <2> DEFINE sent == IF op[n].at = "next" THEN Plain ELSE Complete(n)
             now  == [op[n] EXCEPT !.at = IF op[n].at = "next" THEN "respond" ELSE "unregister"]
  <2>1. /\ now \in Operation /\ now.at # "ended" /\ now.id = op[n].id
        /\ now.cancelled = op[n].cancelled /\ now.asked = op[n].asked
    BY <1>1 DEF Operation
  <2>2. op' = [op EXCEPT ![n] = now]
    BY <1>1, <1>5 DEF PumpSends, PumpTo
  <2>3. OfStarted(sent)
    BY <1>1, Kinds DEF OfStarted
  <2>4. Send(sent)
    BY <1>5 DEF PumpSends
  <2> HIDE DEF sent, now
  <2>5. out' \in Seq(Message) /\ Len(out') <= OutCap
    BY <2>3, <2>4, SendKeeps
  <2>6. \A i \in DOMAIN out' : OfStarted(out'[i])
    BY <2>3, <2>4, SendKeeps
  <2> QED BY <1>5, <2>1, <2>2, <2>5, <2>6, PumpGoesOn DEF PumpSends
<1>6. CASE PumpEnds(n)
  BY <1>6, PumpEndsKeeps
<1> QED BY <1>3, <1>4, <1>5, <1>6 DEF PumpStep

-----------------------------------------------------------------------------
(* The theorems.                                                           *)

LEMMA InitIInv == Init => IInv
<1> SUFFICES ASSUME Init
             PROVE  IInv
  OBVIOUS
<1>1. op = <<>> /\ out = <<>> /\ DOMAIN op = {} /\ DOMAIN out = {} /\ DOMAIN ops = {}
  BY DEF Init
<1>2. TypeOK
  <2>1. op \in Seq(Operation) /\ Len(op) = 0 /\ DOMAIN op = 1 .. Len(op)
    BY <1>1
  <2>2. out \in Seq(Message) /\ Len(out) = 0
    BY <1>1
  <2>3. /\ reader = At("read") /\ writer = At("idle")
        /\ done = FALSE /\ connCtx = TRUE /\ broken = FALSE /\ completed = {}
    BY DEF Init
  <2>4. 0 <= OutCap /\ 0 <= MaxOps
    BY GraphqlWSAssumption
  <2> QED BY <1>1, <2>1, <2>2, <2>3, <2>4 DEF TypeOK
<1>3. InFlight
  BY <1>1, Kinds DEF Init, InFlight
<1>4. LatestListed /\ RegisteredUntilEnd /\ CancelledForCause
  BY <1>1 DEF LatestListed, RegisteredUntilEnd, CancelledForCause
<1> QED BY <1>2, <1>3, <1>4 DEF IInv

LEMMA NextKeeps == IInv /\ [Next]_vars => IInv'
<1> SUFFICES ASSUME IInv, [Next]_vars
             PROVE  IInv'
  OBVIOUS
<1>1. CASE \/ ReadControl \/ ReaderSends \/ ReadFails \/ ServeReturns
           \/ WriterTakes \/ WriteDone \/ WriteFails \/ WriterStops \/ Disconnect
  BY <1>1, TransportKeeps
<1>2. CASE \E id \in IDs :
             CompleteOperation(id) \/ \E kind \in {"once", "stream"} : StartOperation(id, kind)
  BY <1>2, CompleteOperationKeeps, StartOperationKeeps
<1>3. CASE \E n \in DOMAIN op : PumpStep(n)
  BY <1>3, PumpStepKeeps
<1>4. CASE UNCHANGED vars
  BY <1>4 DEF vars, IInv, TypeOK, LatestListed, InFlight, OfStarted, RegisteredUntilEnd,
              CancelledForCause
<1> QED BY <1>1, <1>2, <1>3, <1>4 DEF Next

LEMMA Inductive == Spec => []IInv
BY InitIInv, NextKeeps, PTL DEF Spec

(* Goroutines, queue, table and operations are what they are declared to   *)
(* be: the queue never outgrows its capacity, and only operations that     *)
(* were started are listed or completed.                                   *)
THEOREM ConnectionTypeOK == Spec => []TypeOK
<1>1. IInv => TypeOK
  BY DEF IInv
<1> QED BY <1>1, Inductive, PTL

(* wsConn.ops lists every operation that runs and was not cancelled, until *)
(* a later one takes its id, and none that has ended.                      *)
THEOREM TableFollowsOperations == Spec => []RegisteredUntilEnd
<1>1. IInv => RegisteredUntilEnd
  BY DEF IInv
<1> QED BY <1>1, Inductive, PTL

(* An operation is cancelled by its client, by its end, or by that of an   *)
(* earlier operation of its id, however many operations a client starts.   *)
THEOREM CancelledOnlyForCause == Spec => []CancelledForCause
<1>1. IInv => CancelledForCause
  BY DEF IInv
<1> QED BY <1>1, Inductive, PTL

-----------------------------------------------------------------------------
(* Clients that do not reuse the id of an operation that still runs.       *)

(* At most one operation of each id has not ended.                         *)
OneRunsPerId ==
  \A m, n \in DOMAIN op : op[m].id = op[n].id /\ m # n =>
    op[m].at = "ended" \/ op[n].at = "ended"

(* What an end of a pump cancels, where one operation of an id runs, is    *)
(* its own operation.                                                      *)
LEMMA EndsOwn ==
  ASSUME IInv, OneRunsPerId, NEW n \in DOMAIN op, PumpEnds(n)
  PROVE  Designated(op[n].id) \subseteq {n}
<1> SUFFICES ASSUME NEW m \in Designated(op[n].id)
             PROVE  m = n
  OBVIOUS
<1>1. m = ops[op[n].id] /\ op[n].id \in DOMAIN ops
  BY DEF Designated
<1>2. m \in DOMAIN op /\ op[m].id = op[n].id
  BY <1>1 DEF IInv, LatestListed
<1>3. op[m].at # "ended" /\ op[n].at # "ended"
  BY <1>1 DEF IInv, RegisteredUntilEnd, PumpEnds
<1> QED BY <1>2, <1>3 DEF OneRunsPerId

(* So no step disturbs an operation.                                       *)
LEMMA StaysUndisturbed ==
  ASSUME IInv, OneRunsPerId, OperationsUndisturbed, [Next]_vars
  PROVE  OperationsUndisturbed'
<1>1. op \in Seq(Operation) /\ DOMAIN op = 1 .. Len(op) /\ Len(op) \in Nat
  BY DEF IInv, TypeOK
<1>2. CASE UNCHANGED op
  BY <1>2 DEF OperationsUndisturbed
<1>3. CASE \E id \in IDs, kind \in {"once", "stream"} : StartOperation(id, kind)
  <2>1. PICK new : op' = Append(op, new) /\ ~new.cancelled
    BY <1>3 DEF StartOperation
  <2>2. /\ DOMAIN op' = DOMAIN op \cup {Len(op) + 1} /\ op'[Len(op) + 1] = new
        /\ \A n \in DOMAIN op : op'[n] = op[n]
    BY <1>1, <2>1
  <2> QED BY <2>1, <2>2 DEF OperationsUndisturbed
<1>4. CASE \E id \in IDs : CompleteOperation(id)
  <2>1. PICK id \in IDs : CompleteOperation(id)
    BY <1>4
  <2>2. /\ DOMAIN op' = DOMAIN op
        /\ \A n \in DOMAIN op :
             op'[n] = IF n \in Designated(id)
                      THEN [op[n] EXCEPT !.cancelled = TRUE, !.asked = TRUE] ELSE op[n]
    BY <1>1, <2>1 DEF CompleteOperation, Cancelled, Operation
  <2>3. \A n \in DOMAIN op : n \in Designated(id) => op'[n].asked
    <3> SUFFICES ASSUME NEW n \in DOMAIN op, n \in Designated(id)
                 PROVE  op'[n].asked
      OBVIOUS
    <3>1. op[n] \in Operation
      BY <1>1
    <3> QED BY <2>2, <3>1 DEF Operation
  <2> QED BY <2>2, <2>3 DEF OperationsUndisturbed
<1>5. CASE \E n \in DOMAIN op : PumpStep(n)
  <2>1. PICK n \in DOMAIN op : PumpStep(n)
    BY <1>5
  <2>2. CASE Respond(n) \/ LastResponse(n) \/ PumpSends(n)
    <3>1. op[n] \in Operation /\ op[n].at # "ended"
      BY <1>1, <2>2 DEF Respond, LastResponse, PumpSends
    <3>2. \E at, more : op' = [op EXCEPT ![n] = [op[n] EXCEPT !.at = at, !.more = more]]
      <4>1. CASE Respond(n)
        BY <1>1, <3>1, <4>1 DEF Respond, Operation
      <4>2. CASE LastResponse(n) \/ PumpSends(n)
        <5>1. PICK at : op' = [op EXCEPT ![n] = [op[n] EXCEPT !.at = at]]
          BY <4>2, <1>1 DEF LastResponse, PumpSends, PumpTo
        <5>2. [op[n] EXCEPT !.at = at] = [op[n] EXCEPT !.at = at, !.more = op[n].more]
          BY <3>1 DEF Operation
        <5> QED BY <5>1, <5>2
      <4> QED BY <2>2, <4>1, <4>2
    <3>3. /\ DOMAIN op' = DOMAIN op
          /\ \A m \in DOMAIN op : op'[m].cancelled = op[m].cancelled /\ op'[m].asked = op[m].asked
          /\ \A m \in DOMAIN op : m # n => op'[m] = op[m]
      BY <1>1, <3>1, <3>2 DEF Operation
    <3> QED BY <3>1, <3>3 DEF OperationsUndisturbed
  <2>3. CASE PumpEnds(n)
    <3>1. /\ DOMAIN op' = DOMAIN op /\ op'[n].at = "ended"
          /\ \A m \in DOMAIN op : m # n => op'[m] = op[m]
      <4> DEFINE cut == Cancelled(op[n].id)
      <4>1. /\ DOMAIN cut = DOMAIN op /\ cut[n] \in Operation
            /\ \A m \in DOMAIN op : m # n => cut[m] = op[m]
        <5>1. /\ cut = [m \in DOMAIN op |-> cut[m]]
              /\ \A m \in DOMAIN op : cut[m] = IF m \in Designated(op[n].id)
                                             THEN [op[m] EXCEPT !.cancelled = TRUE] ELSE op[m]
          BY DEF Cancelled
        <5>2. \A m \in DOMAIN op : m # n => m \notin Designated(op[n].id)
          BY <2>3, EndsOwn
        <5>3. op[n] \in Operation
          BY <1>1
        <5>4. cut[n] \in Operation
          BY <5>1, <5>3 DEF Operation
        <5> HIDE DEF cut
        <5> QED BY <5>1, <5>2, <5>4
      <4>2. op' = [cut EXCEPT ![n].at = "ended"]
        BY <2>3 DEF PumpEnds
      <4> HIDE DEF cut
      <4> QED BY <4>1, <4>2 DEF Operation
    <3> QED BY <3>1 DEF OperationsUndisturbed
  <2> QED BY <2>1, <2>2, <2>3 DEF PumpStep
<1> QED
  BY <1>2, <1>3, <1>4, <1>5
     DEF Next, vars, ReadControl, ReaderSends, ReadFails, ServeReturns, WriterTakes,
         WriteDone, WriteFails, WriterStops, Disconnect

(* "Every operation ends with its complete" holds of a client that starts  *)
(* no operation under an id of which one still runs on the server, however *)
(* many it starts; a complete it has read does not tell that it has ended. *)
THEOREM DistinctIdsUndisturbed == Spec /\ []OneRunsPerId => []OperationsUndisturbed
<1>1. Init => OperationsUndisturbed
  BY DEF Init, OperationsUndisturbed
<1>2. IInv /\ OneRunsPerId /\ OperationsUndisturbed /\ [Next]_vars => OperationsUndisturbed'
  BY StaysUndisturbed
<1> QED BY <1>1, <1>2, Inductive, PTL DEF Spec
=============================================================================
