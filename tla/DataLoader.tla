----------------------------- MODULE DataLoader -----------------------------
(***************************************************************************)
(* The loader of one request (OrderLoader, and UserLoader, which differs   *)
(* in its types alone): resolvers that run concurrently load entities by   *)
(* id; ids are collected in a batch until a timer fires or the batch is    *)
(* full, fetched by one query, and what was found is cached.  Prime, Clear *)
(* and LoadAll have no caller.  GraphqlRequest composes the two loaders    *)
(* with the executor that calls them; this module has no Next of its own.  *)
(***************************************************************************)
EXTENDS Naturals, Sequences, FiniteSets

CONSTANTS
  Resolvers,   \* goroutines of the request
  Keys,        \* ids of entities
  MaxBatch,    \* Config.MaxBatch, 100 in the code
  MaxVersion,  \* bound: versions of an entity; version 0 does not exist
  Faults       \* with "query", the query may fail

VARIABLES
  store,    \* the table: the version of each entity
  cache,    \* loader.cache
  current,  \* loader.batch: index of the batch that collects, or 0
  batches,  \* every batch made, with its goroutines
  call      \* each resolver's last call of Load

Value   == [key : Keys, version : 1 .. MaxVersion]
NoValue == [key |-> "none", version |-> 0]   \* an error and no data

Batch ==
  [keys : Seq(Keys), closing : BOOLEAN,
   timer : {"sleeping", "fired", "returned"},
   fetches : Nat,      \* goroutines in end(), about to fetch
   fetched : Nat,      \* times the batch was fetched and done closed
   data : Seq(Value \cup {NoValue})]

Idle == [at |-> "idle"]

TypeOK ==
  /\ store \in [Keys -> 0 .. MaxVersion]
  /\ DOMAIN cache \subseteq Keys /\ \A k \in DOMAIN cache : cache[k] \in Value \cup {NoValue}
  /\ current \in 0 .. Len(batches)
  /\ batches \in Seq(Batch)
  /\ \A r \in Resolvers : call[r] # Idle =>
       /\ call[r].at \in {"wait", "returned"} /\ call[r].key \in Keys
       /\ call[r].at = "returned" => call[r].got \in Value \cup {NoValue}
       /\ call[r].at = "wait" => call[r].batch \in DOMAIN batches
                                 /\ call[r].pos \in DOMAIN batches[call[r].batch].keys

(* The table is the composing module's.                                    *)
Init ==
  /\ cache = [k \in {} |-> NoValue]
  /\ current = 0
  /\ batches = <<>>
  /\ call = [r \in Resolvers |-> Idle]

(* Mutant: the loaders of one request serve the next one too.              *)
SameCache ==
  /\ current' = 0 /\ batches' = <<>>
  /\ call' = [r \in Resolvers |-> Idle]
  /\ UNCHANGED cache

(* NewLoaders: every request, and every operation of a WebSocket, has its  *)
(* own.                                                                    *)
NewLoader ==
  /\ cache' = [k \in {} |-> NoValue]
  /\ current' = 0 /\ batches' = <<>>
  /\ call' = [r \in Resolvers |-> Idle]

-----------------------------------------------------------------------------
(* LoadThunk and keyIndex.                                                 *)
(* A call remembers from which version on an answer is fresh.              *)
Waiting(k, b, i)     == [at |-> "wait", key |-> k, from |-> store[k], batch |-> b, pos |-> i]
Returned(k, from, v) == [at |-> "returned", key |-> k, from |-> from, got |-> v]

LoadCached(r, k) ==
  /\ k \in DOMAIN cache
  /\ call' = [call EXCEPT ![r] = Returned(k, 0, cache[k])]
  /\ UNCHANGED <<store, cache, current, batches>>

NewBatch ==
  [keys |-> <<>>, closing |-> FALSE, timer |-> "sleeping", fetches |-> 0,
   fetched |-> 0, data |-> <<>>]

(* The current batch, or a new one; both have room and are not closing.    *)
Collecting == IF current = 0 THEN Append(batches, NewBatch) ELSE batches
Index      == IF current = 0 THEN Len(batches) + 1 ELSE current

Positions(b, k) == {i \in DOMAIN b.keys : b.keys[i] = k}

(* Mutant: the batch ends at its limit without a sign for the timer.       *)
WithKeyUnmarked(b, k) ==
  LET full == Len(b.keys) + 1 >= MaxBatch
  IN  [b EXCEPT !.keys = Append(@, k), !.fetches = IF full THEN @ + 1 ELSE @]

(* A key that fills the batch ends it at once.                             *)
WithKey(b, k) ==
  LET full == Len(b.keys) + 1 >= MaxBatch
  IN  [b EXCEPT !.keys = Append(@, k), !.closing = full,
                !.fetches = IF full THEN @ + 1 ELSE @]

(* Mutant: the position is taken after the key was appended.               *)
PositionAfterAppend(b) == Len(b.keys) + 2

NewPosition(b) == Len(b.keys) + 1

JoinBatch(r, k) ==
  /\ k \notin DOMAIN cache
  /\ LET b == Collecting[Index] IN
       IF Positions(b, k) # {}
       THEN /\ \E i \in Positions(b, k) :
                 call' = [call EXCEPT ![r] = Waiting(k, Index, i)]
            /\ UNCHANGED <<batches, current>>
       ELSE /\ call' = [call EXCEPT ![r] = Waiting(k, Index, NewPosition(b))]
            /\ batches' = [Collecting EXCEPT ![Index] = WithKey(b, k)]
            /\ current' = IF WithKey(b, k).closing THEN 0 ELSE Index
  /\ UNCHANGED <<store, cache>>

-----------------------------------------------------------------------------
(* Mutant: the timer returns and leaves the batch to the limit.            *)
TimerOnlyReturns(b) ==
  /\ batches[b].timer = "sleeping"
  /\ batches' = [batches EXCEPT ![b].timer = "returned"]
  /\ UNCHANGED <<store, cache, current, call>>

EndedByTimer(batch) == [batch EXCEPT !.timer = "fired", !.fetches = @ + 1]

(* startTimer: after its sleep it ends the batch, unless the limit did.    *)
TimerFires(b) ==
  /\ batches[b].timer = "sleeping"
  /\ IF batches[b].closing
     THEN /\ batches' = [batches EXCEPT ![b].timer = "returned"]
          /\ UNCHANGED current
     ELSE /\ batches' = [batches EXCEPT ![b] = EndedByTimer(batches[b])]
          /\ current' = 0
  /\ UNCHANGED <<store, cache, call>>

(* end and fetchOrders: one query; found entities by id, in the order of   *)
(* the keys, an error for each that is missing.                            *)
Found(k) == IF store[k] = 0 THEN NoValue ELSE [key |-> k, version |-> store[k]]

(* Mutant: the rows in the order of the table.                             *)
RowsOf(b) ==
  LET present == {k \in {batches[b].keys[i] : i \in DOMAIN batches[b].keys} : store[k] # 0}
      row     == CHOOSE f \in [1 .. Cardinality(present) -> present] :
                   \A k \in present : \E i \in DOMAIN f : f[i] = k
  IN  [i \in DOMAIN batches[b].keys |->
         IF i \in DOMAIN row THEN Found(row[i]) ELSE NoValue]

ResultsOf(b) == [i \in DOMAIN batches[b].keys |-> Found(batches[b].keys[i])]
Failed(b)    == [i \in DOMAIN batches[b].keys |-> NoValue]

WithData(batch, data) ==
  [batch EXCEPT !.fetches = @ - 1, !.fetched = @ + 1, !.data = data]

Fetch(b) ==
  /\ batches[b].fetches > 0
  /\ \E data \in {ResultsOf(b)} \cup (IF "query" \in Faults THEN {Failed(b)} ELSE {}) :
       batches' = [batches EXCEPT ![b] = WithData(batches[b], data)]
  /\ UNCHANGED <<store, cache, current, call>>

Cached(k, value) ==
  IF value = NoValue THEN cache
  ELSE [j \in DOMAIN cache \cup {k} |-> IF j = k THEN value ELSE cache[j]]

(* The thunk: done is closed, the result of the position is taken.         *)
Return(r) ==
  /\ call[r].at = "wait" /\ batches[call[r].batch].fetched > 0
  /\ LET value == batches[call[r].batch].data[call[r].pos] IN
       /\ call' = [call EXCEPT ![r] = Returned(@.key, @.from, value)]
       /\ cache' = Cached(call[r].key, value)
  /\ UNCHANGED <<store, current, batches>>

Load(r, k)   == LoadCached(r, k) \/ JoinBatch(r, k)
BatchStep(b) == TimerFires(b) \/ Fetch(b)

-----------------------------------------------------------------------------
(* Properties.                                                             *)

(* loaders.go 104-139, orderloader_gen.go 88-111: whoever loads a key gets *)
(* that entity, as it was at some moment of the call when the cache does   *)
(* not have it, or an error; never the entity of another key.              *)
OwnResult ==
  \A r \in Resolvers : call[r].at = "returned" /\ call[r].got # NoValue =>
    /\ call[r].got.key = call[r].key
    /\ call[r].got.version \in call[r].from .. store[call[r].key]

(* orderloader_gen.go 179-224: the limit and the timer both end a batch,   *)
(* yet it is fetched once, for all its keys, and each is asked for once;   *)
(* nobody joins a batch that is being fetched.                             *)
BatchFetchedOnce ==
  \A b \in DOMAIN batches :
    LET keys == batches[b].keys IN
      /\ batches[b].fetches + batches[b].fetched <= 1
      /\ Len(keys) <= MaxBatch
      /\ \A i, j \in DOMAIN keys : keys[i] = keys[j] => i = j
      /\ batches[b].fetched = 1 => Len(batches[b].data) = Len(keys)
      /\ batches[b].fetches + batches[b].fetched = 1 => current # b

(* orderloader_gen.go 104-108: an error is not remembered, so an entity    *)
(* created meanwhile is found by the next call.                            *)
ErrorsNotCached ==
  \A k \in DOMAIN cache : cache[k] # NoValue /\ cache[k].key = k
=============================================================================
