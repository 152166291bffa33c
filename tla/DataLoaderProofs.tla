-------------------------- MODULE DataLoaderProofs --------------------------
(***************************************************************************)
(* What each step of a loader keeps, for any resolvers, keys, limit and    *)
(* versions, over a table whose rows only get newer.  GraphqlRequestProofs *)
(* has the theorems: the steps are composed there.                         *)
(***************************************************************************)
EXTENDS DataLoader, TLAPS

VARIABLE base   \* the table when the loader was made

Sizes == MaxBatch \in Nat \ {0} /\ MaxVersion \in Nat

Version(k, v) ==
  v \in Value /\ v.key = k /\ v.version >= base[k] /\ v.version <= store[k]

-----------------------------------------------------------------------------
(* The invariant.                                                          *)

TableInv ==
  /\ store \in [Keys -> 0 .. MaxVersion]
  /\ base \in [Keys -> Nat]
  /\ \A k \in Keys : base[k] <= store[k]

BatchesOK ==
  /\ batches \in Seq(Batch)
  /\ current \in Nat /\ current <= Len(batches)

(* The batch that collects is the one nobody has ended: its timer sleeps,  *)
(* and it is not full.  Any other was ended once, by the limit or by the   *)
(* timer.                                                                  *)
CollectsOnce(b) ==
  LET batch == batches[b] IN
    /\ current = b <=> batch.timer = "sleeping" /\ ~batch.closing
    /\ batch.fetches + batch.fetched = IF current = b THEN 0 ELSE 1

KeysInv(b) ==
  LET keys == batches[b].keys IN
    /\ Len(keys) <= MaxBatch /\ (current = b => Len(keys) < MaxBatch)
    /\ \A i, j \in DOMAIN keys : keys[i] = keys[j] => i = j

DataInv(b) ==
  LET batch == batches[b] IN
    batch.fetched = 1 =>
      /\ Len(batch.data) = Len(batch.keys)
      /\ \A i \in DOMAIN batch.keys :
           batch.data[i] = NoValue \/ Version(batch.keys[i], batch.data[i])

BatchInv == \A b \in DOMAIN batches : CollectsOnce(b) /\ KeysInv(b) /\ DataInv(b)

WaitingCall == [at : {"wait"}, key : Keys, from : Nat, batch : Nat, pos : Nat]
DoneCall    == [at : {"returned"}, key : Keys, from : Nat, got : Value \cup {NoValue}]

(* A call waits for the batch it has put its key in, and put it there      *)
(* before the batch was fetched.                                           *)
WaitInv(c) ==
  /\ c \in WaitingCall
  /\ c.batch \in DOMAIN batches
  /\ c.pos \in DOMAIN batches[c.batch].keys /\ batches[c.batch].keys[c.pos] = c.key
  /\ c.from <= store[c.key]
  /\ batches[c.batch].fetched = 1 =>
       \/ batches[c.batch].data[c.pos] = NoValue
       \/ batches[c.batch].data[c.pos].version >= c.from

DoneInv(c) ==
  /\ c \in DoneCall
  /\ c.got # NoValue => Version(c.key, c.got) /\ c.got.version >= c.from

CallInv ==
  /\ call \in [Resolvers -> {Idle} \cup WaitingCall \cup DoneCall]
  /\ \A r \in Resolvers : call[r] = Idle \/ WaitInv(call[r]) \/ DoneInv(call[r])

CacheInv ==
  /\ DOMAIN cache \subseteq Keys
  /\ \A k \in DOMAIN cache : cache[k] # NoValue /\ Version(k, cache[k])

LoaderInv == TableInv /\ BatchesOK /\ BatchInv /\ CallInv /\ CacheInv

LEMMA BatchTyped ==
  ASSUME BatchesOK, NEW b \in DOMAIN batches
  PROVE  /\ batches[b] \in Batch
         /\ batches[b].keys \in Seq(Keys) /\ batches[b].data \in Seq(Value \cup {NoValue})
         /\ batches[b].fetches \in Nat /\ batches[b].fetched \in Nat
         /\ batches[b].closing \in BOOLEAN
         /\ b \in Nat \ {0} /\ b <= Len(batches)
<1>1. batches[b] \in Batch /\ b \in Nat \ {0} /\ b <= Len(batches)
  BY DEF BatchesOK
<1> QED BY <1>1 DEF Batch

-----------------------------------------------------------------------------
(* What the invariant says of the properties.                              *)

LEMMA Holds ==
  ASSUME Sizes, LoaderInv
  PROVE  TypeOK /\ OwnResult /\ BatchFetchedOnce /\ ErrorsNotCached
<1> USE DEF Sizes
<1>1. \A r \in Resolvers : call[r].at = "returned" => DoneInv(call[r])
  BY DEF LoaderInv, CallInv, WaitInv, WaitingCall, Idle
<1>2. \A r \in Resolvers : call[r].at = "wait" => WaitInv(call[r])
  BY DEF LoaderInv, CallInv, DoneInv, DoneCall, Idle
<1>3. TypeOK
  <2>1. \A k \in DOMAIN cache : cache[k] \in Value \cup {NoValue}
    BY DEF LoaderInv, CacheInv, Version
  <2>2. \A r \in Resolvers : call[r] # Idle =>
          /\ call[r].at \in {"wait", "returned"} /\ call[r].key \in Keys
          /\ call[r].at = "returned" => call[r].got \in Value \cup {NoValue}
    BY DEF LoaderInv, CallInv, DoneInv, WaitInv, WaitingCall, DoneCall
  <2>3. \A r \in Resolvers : call[r].at = "wait" =>
          call[r].batch \in DOMAIN batches
            /\ call[r].pos \in DOMAIN batches[call[r].batch].keys
    BY <1>2 DEF WaitInv
  <2> QED BY <2>1, <2>2, <2>3 DEF LoaderInv, TableInv, BatchesOK, CacheInv, TypeOK
<1>4. OwnResult
  <2> SUFFICES ASSUME NEW r \in Resolvers, call[r].at = "returned", call[r].got # NoValue
               PROVE  /\ call[r].got.key = call[r].key
                      /\ call[r].got.version \in call[r].from .. store[call[r].key]
    BY DEF OwnResult
  <2>1. DoneInv(call[r])
    BY <1>1
  <2> QED BY <2>1 DEF DoneInv, DoneCall, Version, Value, LoaderInv, TableInv
<1>5. BatchFetchedOnce
  BY DEF LoaderInv, BatchesOK, BatchInv, CollectsOnce, KeysInv, DataInv, Batch, BatchFetchedOnce
<1>6. ErrorsNotCached
  BY DEF LoaderInv, CacheInv, ErrorsNotCached, Version
<1> QED BY <1>3, <1>4, <1>5, <1>6

-----------------------------------------------------------------------------
(* A loader is made.                                                       *)

LEMMA Made ==
  ASSUME Sizes, TableInv', NewLoader
  PROVE  LoaderInv'
<1>1. BatchesOK' /\ BatchInv'
  BY DEF NewLoader, BatchesOK, BatchInv
<1>2. CallInv' /\ CacheInv'
  BY DEF NewLoader, CallInv, CacheInv
<1> QED BY <1>1, <1>2 DEF LoaderInv

LEMMA Begins ==
  ASSUME Sizes, TableInv, Init
  PROVE  LoaderInv
<1>1. BatchesOK /\ BatchInv
  BY DEF Init, BatchesOK, BatchInv
<1>2. CallInv /\ CacheInv
  BY DEF Init, CallInv, CacheInv
<1> QED BY <1>1, <1>2 DEF LoaderInv

-----------------------------------------------------------------------------
(* Rows get newer.                                                         *)
LEMMA TableGrows ==
  ASSUME Sizes, LoaderInv, store' \in [Keys -> 0 .. MaxVersion],
         \A k \in Keys : store[k] <= store'[k],
         UNCHANGED <<base, cache, current, batches, call>>
  PROVE  LoaderInv'
<1> USE DEF Sizes, LoaderInv
<1>1. TableInv'
  BY DEF TableInv
<1>2. \A k \in Keys : \A v : Version(k, v) => Version(k, v)'
  BY DEF TableInv, Version, Value
<1>3. BatchesOK'
  BY DEF BatchesOK
<1>4. BatchInv'
  <2> SUFFICES ASSUME NEW b \in DOMAIN batches
               PROVE  CollectsOnce(b)' /\ KeysInv(b)' /\ DataInv(b)'
    BY DEF BatchInv
  <2>1. CollectsOnce(b)' /\ KeysInv(b)'
    BY DEF BatchInv, CollectsOnce, KeysInv
  <2>2. batches[b].keys \in Seq(Keys)
    BY BatchTyped
  <2>3. DataInv(b)'
    BY <1>2, <2>2 DEF BatchInv, DataInv
  <2> QED BY <2>1, <2>3
<1>5. CallInv'
  <2> SUFFICES ASSUME NEW r \in Resolvers
               PROVE  call[r] = Idle \/ WaitInv(call[r])' \/ DoneInv(call[r])'
    BY DEF CallInv
  <2>1. ASSUME WaitInv(call[r]) PROVE WaitInv(call[r])'
    BY <2>1 DEF WaitInv, WaitingCall, TableInv
  <2>2. ASSUME DoneInv(call[r]) PROVE DoneInv(call[r])'
    BY <2>2, <1>2 DEF DoneInv, DoneCall
  <2> QED BY <2>1, <2>2 DEF CallInv
<1>6. CacheInv'
  BY <1>2 DEF CacheInv
<1> QED BY <1>1, <1>3, <1>4, <1>5, <1>6
-----------------------------------------------------------------------------
(* A batch is ended.                                                       *)

(* What a step leaves alone when the table stays as it is.                 *)
Same == UNCHANGED <<store, base>>

LEMMA SameVersions ==
  ASSUME Same, NEW k, NEW v
  PROVE  Version(k, v)' <=> Version(k, v)
BY DEF Same, Version

LEMMA TimerKeeps ==
  ASSUME Sizes, LoaderInv, Same, NEW b \in DOMAIN batches, TimerFires(b)
  PROVE  LoaderInv'
<1> USE DEF Sizes, LoaderInv
<1> DEFINE was == batches[b]
           now == IF was.closing THEN [was EXCEPT !.timer = "returned"]
                  ELSE EndedByTimer(was)
<1>1. /\ batches \in Seq(Batch) /\ was \in Batch /\ was.closing \in BOOLEAN
      /\ was.fetches \in Nat /\ was.fetched \in Nat
  BY BatchTyped DEF BatchesOK
<1>2. batches' = [batches EXCEPT ![b] = now]
  BY <1>1 DEF TimerFires
<1>3. /\ now \in Batch /\ now.keys = was.keys /\ now.data = was.data
      /\ now.fetched = was.fetched /\ now.closing = was.closing
      /\ now.timer # "sleeping"
      /\ now.fetches = IF was.closing THEN was.fetches ELSE was.fetches + 1
  <2>1. CASE was.closing
    BY <2>1, <1>1 DEF Batch
  <2>2. CASE ~was.closing
    <3>1. now = [was EXCEPT !.timer = "fired", !.fetches = was.fetches + 1]
      BY <2>2 DEF EndedByTimer
    <3>2. was.fetches + 1 \in Nat
      BY <1>1
    <3> QED BY <2>2, <3>1, <3>2, <1>1 DEF Batch
  <2> QED BY <2>1, <2>2
<1> HIDE DEF now
<1>4. /\ batches' \in Seq(Batch) /\ Len(batches') = Len(batches)
      /\ DOMAIN batches' = DOMAIN batches /\ batches'[b] = now
      /\ \A c \in DOMAIN batches : c # b => batches'[c] = batches[c]
  BY <1>1, <1>2, <1>3
<1>5. TableInv' /\ BatchesOK'
  BY <1>4 DEF TableInv, BatchesOK, Same, TimerFires
<1>a. /\ current = b <=> ~was.closing
      /\ was.fetches + was.fetched = IF current = b THEN 0 ELSE 1
      /\ current' = IF was.closing THEN current ELSE 0
  BY DEF BatchInv, CollectsOnce, TimerFires
<1>6. BatchInv'
  <2> SUFFICES ASSUME NEW c \in DOMAIN batches
               PROVE  CollectsOnce(c)' /\ KeysInv(c)' /\ DataInv(c)'
    BY <1>4 DEF BatchInv
  <2>1. CollectsOnce(c)'
    <3>1. CASE c = b
      BY <3>1, <1>a, <1>1, <1>3, <1>4, BatchTyped DEF CollectsOnce
    <3>2. CASE c # b
      BY <3>2, <1>a, <1>4, BatchTyped DEF BatchInv, CollectsOnce
    <3> QED BY <3>1, <3>2
  <2>2. KeysInv(c)'
    <3>1. batches'[c].keys = batches[c].keys /\ (current' = c => current = c)
      BY <1>a, <1>3, <1>4, BatchTyped
    <3> QED BY <3>1 DEF BatchInv, KeysInv
  <2>3. DataInv(c)'
    BY <1>3, <1>4, SameVersions DEF BatchInv, DataInv
  <2> QED BY <2>1, <2>2, <2>3
<1>7. CallInv'
  <2>1. ASSUME NEW r \in Resolvers, WaitInv(call[r]) PROVE WaitInv(call[r])'
    BY <2>1, <1>3, <1>4 DEF WaitInv, Same, TimerFires
  <2>2. ASSUME NEW r \in Resolvers, DoneInv(call[r]) PROVE DoneInv(call[r])'
    BY <2>2, SameVersions DEF DoneInv, TimerFires
  <2> QED BY <2>1, <2>2 DEF CallInv, TimerFires
<1>8. CacheInv'
  BY SameVersions DEF CacheInv, TimerFires
<1> QED BY <1>5, <1>6, <1>7, <1>8

(* A batch is fetched once, and what is found is as new as any of its      *)
(* calls wants it.                                                         *)
LEMMA FetchKeeps ==
  ASSUME Sizes, LoaderInv, Same, NEW b \in DOMAIN batches, Fetch(b)
  PROVE  LoaderInv'
<1> USE DEF Sizes, LoaderInv
<1> DEFINE was == batches[b]
<1>1. /\ batches \in Seq(Batch) /\ was \in Batch /\ was.keys \in Seq(Keys)
      /\ was.fetches \in Nat /\ was.fetched \in Nat
  BY BatchTyped DEF BatchesOK
<1>2. PICK data \in {ResultsOf(b), Failed(b)} :
        batches' = [batches EXCEPT ![b] = WithData(batches[b], data)]
  BY DEF Fetch
<1>3. was.fetches = 1 /\ was.fetched = 0 /\ current # b
  BY <1>1 DEF Fetch, BatchInv, CollectsOnce
<1> DEFINE now == [was EXCEPT !.fetches = 0, !.fetched = 1, !.data = data]
<1>4. /\ data \in Seq(Value \cup {NoValue}) /\ Len(data) = Len(was.keys)
      /\ \A i \in DOMAIN was.keys :
           \/ data[i] = NoValue
           \/ Version(was.keys[i], data[i]) /\ data[i].version = store[was.keys[i]]
  <2>1. CASE data = Failed(b)
    <3>1. data = [i \in 1 .. Len(was.keys) |-> NoValue]
      BY <2>1, <1>1 DEF Failed
    <3>2. data \in Seq({NoValue}) /\ Len(data) = Len(was.keys)
      BY <3>1, <1>1
    <3>3. data \in Seq(Value \cup {NoValue})
      BY <3>2
    <3>4. \A i \in DOMAIN was.keys : data[i] = NoValue
      BY <3>1, <1>1
    <3> HIDE DEF Failed
    <3> QED BY <3>2, <3>3, <3>4
  <2>2. CASE data = ResultsOf(b)
    <3>1. \A k \in Keys : \/ Found(k) = NoValue
                          \/ Version(k, Found(k)) /\ Found(k).version = store[k]
      BY DEF Found, TableInv, Version, Value
    <3>2. \A i \in DOMAIN was.keys : was.keys[i] \in Keys
      BY <1>1
    <3>3. \A k \in Keys : Found(k) \in Value \cup {NoValue}
      BY <3>1 DEF Version
    <3> HIDE DEF Found
    <3>4. data = [i \in 1 .. Len(was.keys) |-> Found(was.keys[i])]
      BY <2>2, <1>1 DEF ResultsOf
    <3>5. data \in Seq(Value \cup {NoValue}) /\ Len(data) = Len(was.keys)
      BY <3>2, <3>3, <3>4, <1>1
    <3>6. \A i \in DOMAIN was.keys : data[i] = Found(was.keys[i])
      BY <3>4, <1>1
    <3>7. ASSUME NEW i \in DOMAIN was.keys
          PROVE  \/ data[i] = NoValue
                 \/ Version(was.keys[i], data[i]) /\ data[i].version = store[was.keys[i]]
      BY <3>1, <3>2, <3>6
    <3> HIDE DEF was
    <3> QED BY <3>5, <3>7
  <2> QED BY <2>1, <2>2
<1>5. batches' = [batches EXCEPT ![b] = now]
  BY <1>1, <1>2, <1>3 DEF WithData
<1>6. now \in Batch /\ now.keys = was.keys
  BY <1>1, <1>4 DEF Batch
<1>7. now.data = data /\ now.fetched = 1 /\ now.fetches = 0
       /\ now.timer = was.timer /\ now.closing = was.closing
  BY <1>1 DEF Batch
<1> HIDE DEF now
<1>8. /\ batches' \in Seq(Batch) /\ Len(batches') = Len(batches)
      /\ DOMAIN batches' = DOMAIN batches /\ batches'[b] = now
      /\ \A c \in DOMAIN batches : c # b => batches'[c] = batches[c]
  BY <1>1, <1>5, <1>6
<1>9. TableInv' /\ BatchesOK'
  BY <1>8 DEF TableInv, BatchesOK, Same, Fetch
<1>10. BatchInv'
  <2> SUFFICES ASSUME NEW c \in DOMAIN batches
               PROVE  CollectsOnce(c)' /\ KeysInv(c)' /\ DataInv(c)'
    BY <1>8 DEF BatchInv
  <2>1. CollectsOnce(c)'
    <3>1. CollectsOnce(c) /\ current' = current
      BY DEF BatchInv, Fetch
    <3>2. CASE c = b
      BY <3>1, <3>2, <1>3, <1>7, <1>8 DEF CollectsOnce
    <3>3. CASE c # b
      BY <3>1, <3>3, <1>8 DEF CollectsOnce
    <3> QED BY <3>2, <3>3
  <2>2. KeysInv(c)'
    BY <1>6, <1>8 DEF BatchInv, KeysInv, Fetch
  <2>3. DataInv(c)'
    BY <1>4, <1>6, <1>7, <1>8, SameVersions DEF BatchInv, DataInv
  <2> QED BY <2>1, <2>2, <2>3
<1>11. CallInv'
  <2>1. ASSUME NEW r \in Resolvers, WaitInv(call[r]) PROVE WaitInv(call[r])'
    <3>1. CASE call[r].batch # b
      BY <3>1, <2>1, <1>8 DEF WaitInv, Same, Fetch
    <3>2. CASE call[r].batch = b
      BY <3>2, <2>1, <1>4, <1>6, <1>7, <1>8 DEF WaitInv, Same, Fetch
    <3> QED BY <3>1, <3>2
  <2>2. ASSUME NEW r \in Resolvers, DoneInv(call[r]) PROVE DoneInv(call[r])'
    BY <2>2, SameVersions DEF DoneInv, Fetch
  <2> QED BY <2>1, <2>2 DEF CallInv, Fetch
<1>12. CacheInv'
  BY SameVersions DEF CacheInv, Fetch
<1> QED BY <1>9, <1>10, <1>11, <1>12

-----------------------------------------------------------------------------
(* A call returns what its batch found, and caches it.                     *)
LEMMA ReturnKeeps ==
  ASSUME Sizes, LoaderInv, Same, NEW r \in Resolvers, Return(r)
  PROVE  LoaderInv'
<1> USE DEF Sizes, LoaderInv
<1> DEFINE c     == call[r]
           value == batches[c.batch].data[c.pos]
<1>1. WaitInv(c)
  BY DEF Return, CallInv, DoneInv, DoneCall, Idle
<1>2. c.key \in Keys /\ c.from \in Nat /\ c \in WaitingCall
  BY <1>1 DEF WaitInv, WaitingCall
<1>3. batches[c.batch].fetched = 1
  <2>1. c.batch \in DOMAIN batches
    BY <1>1 DEF WaitInv
  <2>2. batches[c.batch].fetched \in Nat /\ batches[c.batch].fetches \in Nat
    BY <2>1, BatchTyped
  <2> QED BY <2>1, <2>2 DEF Return, BatchInv, CollectsOnce
<1>4. value = NoValue \/ (Version(c.key, value) /\ value.version >= c.from)
  <2>1. c.batch \in DOMAIN batches /\ c.pos \in DOMAIN batches[c.batch].keys
    BY <1>1 DEF WaitInv
  <2>2. DataInv(c.batch)
    BY <2>1 DEF BatchInv
  <2>3. value = NoValue \/ Version(batches[c.batch].keys[c.pos], value)
    BY <2>1, <2>2, <1>3 DEF DataInv
  <2> QED BY <2>3, <1>1, <1>3 DEF WaitInv
<1>5. call' = [call EXCEPT ![r] = Returned(c.key, c.from, value)] /\ cache' = Cached(c.key, value)
  BY <1>2 DEF Return, CallInv
<1> HIDE DEF value
<1>6. TableInv' /\ BatchesOK'
  BY DEF TableInv, BatchesOK, Same, Return
<1>7. BatchInv'
  <2> SUFFICES ASSUME NEW b \in DOMAIN batches
               PROVE  CollectsOnce(b)' /\ KeysInv(b)' /\ DataInv(b)'
    BY DEF BatchInv, Return
  <2>1. CollectsOnce(b)' /\ KeysInv(b)'
    BY DEF BatchInv, CollectsOnce, KeysInv, Return
  <2>2. DataInv(b)'
    BY SameVersions DEF BatchInv, DataInv, Return
  <2> QED BY <2>1, <2>2
<1>8. CallInv'
  <2>1. DoneInv(Returned(c.key, c.from, value)) /\ Returned(c.key, c.from, value) \in DoneCall
    BY <1>2, <1>4 DEF DoneInv, DoneCall, Returned, Version
  <2>2. call' \in [Resolvers -> {Idle} \cup WaitingCall \cup DoneCall]
    BY <2>1, <1>5 DEF CallInv
  <2>3. ASSUME NEW s \in Resolvers, s # r, WaitInv(call[s]) PROVE WaitInv(call[s])'
    BY <2>3, <1>5 DEF WaitInv, Same, Return, CallInv
  <2>4. ASSUME NEW s \in Resolvers, s # r, DoneInv(call[s]) PROVE DoneInv(call[s])'
    BY <2>4, <1>5, SameVersions DEF DoneInv, CallInv
  <2>5. DoneInv(call[r])'
    BY <2>1, <1>5, SameVersions DEF DoneInv, CallInv
  <2> QED BY <2>2, <2>3, <2>4, <2>5, <1>5 DEF CallInv
<1>9. CacheInv'
  BY <1>2, <1>4, <1>5, SameVersions DEF CacheInv, Cached
<1> QED BY <1>6, <1>7, <1>8, <1>9
-----------------------------------------------------------------------------
(* A call of Load.                                                         *)

(* What a step keeps that touches neither the table nor the cache.         *)
LEMMA CacheKept ==
  ASSUME Same, UNCHANGED cache, TableInv, CacheInv
  PROVE  TableInv' /\ CacheInv'
<1>1. TableInv'
  BY DEF Same, TableInv
<1>2. CacheInv'
  BY SameVersions DEF CacheInv
<1> QED BY <1>1, <1>2

LEMMA LoadCachedKeeps ==
  ASSUME Sizes, LoaderInv, Same, NEW r \in Resolvers, NEW k \in Keys, LoadCached(r, k)
  PROVE  LoaderInv'
<1> USE DEF Sizes, LoaderInv
<1> DEFINE now == Returned(k, 0, cache[k])
<1>1. TableInv' /\ CacheInv' /\ BatchesOK'
  BY CacheKept DEF LoadCached, BatchesOK
<1>2. BatchInv'
  BY SameVersions DEF LoadCached, BatchInv, CollectsOnce, KeysInv, DataInv
<1>3. call' = [call EXCEPT ![r] = now]
  BY DEF LoadCached
<1>4. DoneInv(now) /\ now \in DoneCall
  <2>1. Version(k, cache[k])
    BY DEF LoadCached, CacheInv
  <2>2. cache[k] \in Value /\ cache[k].version >= 0
    BY <2>1 DEF Version, Value
  <2> QED BY <2>1, <2>2 DEF DoneInv, DoneCall, Returned
<1> HIDE DEF now
<1>5. ASSUME NEW s \in Resolvers, s # r, WaitInv(call[s]) PROVE WaitInv(call[s])'
  BY <1>3, <1>5 DEF CallInv, WaitInv, LoadCached, Same
<1>6. ASSUME NEW s \in Resolvers, s # r, DoneInv(call[s]) PROVE DoneInv(call[s])'
  BY <1>3, <1>6, SameVersions DEF CallInv, DoneInv
<1>7. DoneInv(call[r])'
  BY <1>3, <1>4, SameVersions DEF CallInv, DoneInv
<1>8. CallInv'
  BY <1>3, <1>4, <1>5, <1>6, <1>7 DEF CallInv
<1> QED BY <1>1, <1>2, <1>8

(* The batch a call joins collects.                                        *)
LEMMA Joined ==
  ASSUME Sizes, BatchesOK, BatchInv
  PROVE  /\ Collecting \in Seq(Batch)
         /\ Index \in 1 .. Len(Collecting) /\ Len(batches) <= Len(Collecting)
         /\ \A b \in DOMAIN batches : Collecting[b] = batches[b]
         /\ \A b \in 1 .. Len(Collecting) : b = Index \/ (b \in DOMAIN batches /\ b # current)
         /\ Collecting[Index].keys \in Seq(Keys)
         /\ Len(Collecting[Index].keys) < MaxBatch
         /\ \A i, j \in DOMAIN Collecting[Index].keys :
              Collecting[Index].keys[i] = Collecting[Index].keys[j] => i = j
         /\ Collecting[Index].timer = "sleeping" /\ ~Collecting[Index].closing
         /\ Collecting[Index].fetches = 0 /\ Collecting[Index].fetched = 0
         /\ Collecting[Index].keys # << >> => Index = current /\ Collecting = batches
<1> USE DEF Sizes
<1>1. CASE current = 0
  <2>1. NewBatch \in Batch /\ batches \in Seq(Batch)
    BY DEF NewBatch, Batch, BatchesOK
  <2>2. Collecting = Append(batches, NewBatch) /\ Index = Len(batches) + 1
    BY <1>1 DEF Collecting, Index
  <2>3. /\ Collecting \in Seq(Batch) /\ Len(Collecting) = Len(batches) + 1
        /\ Collecting[Index] = NewBatch
        /\ \A b \in DOMAIN batches : Collecting[b] = batches[b]
    BY <2>1, <2>2
  <2>4. NewBatch.keys \in Seq(Keys) /\ Len(NewBatch.keys) = 0
    BY DEF NewBatch
  <2> QED BY <1>1, <2>1, <2>2, <2>3, <2>4 DEF NewBatch
<1>2. CASE current # 0
  <2>1. /\ Collecting = batches /\ Index = current /\ current \in DOMAIN batches
        /\ batches \in Seq(Batch)
    BY <1>2 DEF Collecting, Index, BatchesOK
  <2>2. CollectsOnce(current) /\ KeysInv(current)
    BY <2>1 DEF BatchInv
  <2>3. batches[current].fetches \in Nat /\ batches[current].fetched \in Nat
         /\ batches[current].keys \in Seq(Keys)
    BY <2>1, BatchTyped
  <2>4. /\ batches[current].timer = "sleeping" /\ ~batches[current].closing
        /\ batches[current].fetches = 0 /\ batches[current].fetched = 0
    BY <2>2, <2>3 DEF CollectsOnce
  <2>5. /\ Len(batches[current].keys) < MaxBatch
        /\ \A i, j \in DOMAIN batches[current].keys :
             batches[current].keys[i] = batches[current].keys[j] => i = j
    BY <2>2 DEF KeysInv
  <2>6. Index \in 1 .. Len(Collecting)
    BY <2>1
  <2> QED BY <2>1, <2>3, <2>4, <2>5, <2>6
<1> QED BY <1>1, <1>2

LEMMA JoinKeeps ==
  ASSUME Sizes, LoaderInv, Same, NEW r \in Resolvers, NEW k \in Keys, JoinBatch(r, k)
  PROVE  LoaderInv'
<1> USE DEF Sizes, LoaderInv
<1>a. PICK n : n = Index
  OBVIOUS
<1>b. PICK B : B = Collecting[n]
  OBVIOUS
<1>c. /\ Collecting \in Seq(Batch)
      /\ n \in 1 .. Len(Collecting) /\ Len(batches) <= Len(Collecting)
      /\ \A b \in DOMAIN batches : Collecting[b] = batches[b]
      /\ \A b \in 1 .. Len(Collecting) : b = n \/ (b \in DOMAIN batches /\ b # current)
      /\ B.keys \in Seq(Keys) /\ Len(B.keys) < MaxBatch
      /\ \A i, j \in DOMAIN B.keys : B.keys[i] = B.keys[j] => i = j
      /\ B.timer = "sleeping" /\ ~B.closing /\ B.fetches = 0 /\ B.fetched = 0
      /\ B.keys # << >> => n = current /\ Collecting = batches
  BY <1>a, <1>b, Joined
<1>1. TableInv' /\ CacheInv'
  BY CacheKept DEF JoinBatch
<1>2. ASSUME NEW s \in Resolvers, DoneInv(call[s]), call'[s] = call[s]
      PROVE  DoneInv(call[s])'
  BY <1>2, SameVersions DEF DoneInv
<1>3. store[k] \in Nat
  BY DEF TableInv
<1>4. CASE Positions(B, k) # {}
  <2>1. PICK i \in Positions(B, k) : call' = [call EXCEPT ![r] = Waiting(k, n, i)]
    BY <1>4, <1>a, <1>b DEF JoinBatch
  <2>2. UNCHANGED <<batches, current>>
    BY <1>4, <1>a, <1>b DEF JoinBatch
  <2>3. B.keys # << >> /\ i \in DOMAIN B.keys /\ B.keys[i] = k /\ i \in Nat
    BY <1>c DEF Positions
  <2>4. n = current /\ Collecting = batches /\ n \in DOMAIN batches /\ n \in Nat
         /\ batches[n].fetched = 0
    BY <2>3, <1>b, <1>c DEF BatchesOK
  <2>5. BatchesOK' /\ BatchInv'
    BY <2>2, SameVersions DEF BatchesOK, BatchInv, CollectsOnce, KeysInv, DataInv
  <2>a. PICK now : now = Waiting(k, n, i)
    OBVIOUS
  <2>6. now \in WaitingCall /\ WaitInv(now)'
    <3>1. now \in WaitingCall
      BY <2>3, <2>4, <2>a, <1>3 DEF WaitingCall, Waiting
    <3>2. now.batch = n /\ now.pos = i /\ now.key = k /\ now.from = store[k]
      BY <2>a DEF Waiting
    <3>3. B = batches[n]
      BY <2>4, <1>b
    <3> QED BY <2>2, <2>3, <2>4, <3>1, <3>2, <3>3, <1>3 DEF WaitInv, Same
  <2>7. call' = [call EXCEPT ![r] = now]
    BY <2>1, <2>a
  <2>8. ASSUME NEW s \in Resolvers, s # r, WaitInv(call[s]) PROVE WaitInv(call[s])'
    BY <2>2, <2>7, <2>8 DEF CallInv, WaitInv, Same
  <2>9. ASSUME NEW s \in Resolvers, s # r, DoneInv(call[s]) PROVE DoneInv(call[s])'
    BY <1>2, <2>7, <2>9 DEF CallInv
  <2>10. WaitInv(call[r])'
    BY <2>6, <2>7 DEF CallInv, WaitInv
  <2>11. CallInv'
    BY <2>6, <2>7, <2>8, <2>9, <2>10 DEF CallInv
  <2> QED BY <1>1, <2>5, <2>11
<1>5. CASE Positions(B, k) = {}
  <2> DEFINE new  == WithKey(B, k)
             full == Len(B.keys) + 1 >= MaxBatch
  <2>a. PICK now : now = Waiting(k, n, Len(B.keys) + 1)
    OBVIOUS
  <2>1. /\ call' = [call EXCEPT ![r] = now]
        /\ batches' = [Collecting EXCEPT ![n] = new]
        /\ current' = IF new.closing THEN 0 ELSE n
    BY <1>5, <1>a, <1>b, <2>a DEF JoinBatch, NewPosition
  <2>2. B \in Batch /\ B.keys \in Seq(Keys) /\ n \in Nat \ {0}
    BY <1>b, <1>c
  <2>3. /\ new.keys = Append(B.keys, k) /\ new.closing = full /\ new.timer = "sleeping"
        /\ new.fetches = (IF full THEN 1 ELSE 0) /\ new.fetched = 0
    BY <2>2, <1>c DEF WithKey, Batch
  <2>4. new \in Batch
    <3>1. Append(B.keys, k) \in Seq(Keys)
      BY <2>2
    <3>2. B.fetches + 1 \in Nat /\ full \in BOOLEAN
      BY <1>c
    <3> QED BY <3>1, <3>2, <2>2, <1>c DEF WithKey, Batch
  <2> HIDE DEF new
  <2>5. /\ batches' \in Seq(Batch) /\ Len(batches') = Len(Collecting)
        /\ DOMAIN batches' = 1 .. Len(Collecting)
        /\ batches'[n] = new
        /\ \A b \in 1 .. Len(Collecting) : b # n => batches'[b] = Collecting[b]
    BY <2>1, <2>4, <1>c
  <2>6. BatchesOK'
    BY <2>1, <2>5, <1>c DEF BatchesOK
  <2>7. BatchInv'
    <3>1. \A i \in DOMAIN B.keys : B.keys[i] # k
      BY <1>5 DEF Positions
    <3>2. /\ Len(new.keys) = Len(B.keys) + 1 /\ new.keys[Len(B.keys) + 1] = k
          /\ DOMAIN new.keys = 1 .. Len(B.keys) + 1
          /\ \A i \in 1 .. Len(B.keys) : new.keys[i] = B.keys[i]
      BY <2>2, <2>3
    <3>c. (full <=> new.closing) /\ (current' = n <=> ~full)
      BY <2>1, <2>2, <2>3
    <3>3. CollectsOnce(n)'
      BY <3>c, <2>3, <2>5 DEF CollectsOnce
    <3>4. KeysInv(n)'
      <4>1. Len(new.keys) <= MaxBatch /\ (current' = n => Len(new.keys) < MaxBatch)
        <5>1. Len(B.keys) \in Nat /\ Len(B.keys) < MaxBatch /\ MaxBatch \in Nat
          BY <2>2, <1>c
        <5> QED BY <5>1, <3>2, <3>c
      <4>2. \A i, j \in DOMAIN new.keys : new.keys[i] = new.keys[j] => i = j
        <5> SUFFICES ASSUME NEW i \in DOMAIN new.keys, NEW j \in DOMAIN new.keys,
                            new.keys[i] = new.keys[j]
                     PROVE  i = j
          OBVIOUS
        <5>1. Len(B.keys) \in Nat /\ DOMAIN B.keys = 1 .. Len(B.keys)
          BY <2>2
        <5>2. \/ i \in DOMAIN B.keys /\ j \in DOMAIN B.keys
              \/ i = Len(B.keys) + 1 /\ j = Len(B.keys) + 1
          BY <5>1, <3>1, <3>2
        <5> QED BY <5>1, <5>2, <3>2, <1>c
      <4> QED BY <2>5, <4>1, <4>2 DEF KeysInv
    <3>5. DataInv(n)'
      BY <2>3, <2>5 DEF DataInv
    <3>6. ASSUME NEW b \in DOMAIN batches', b # n
          PROVE  CollectsOnce(b)' /\ KeysInv(b)' /\ DataInv(b)'
      <4>1. /\ b \in DOMAIN batches /\ b # current /\ b # 0 /\ current' # b
            /\ batches'[b] = batches[b]
        BY <3>6, <2>1, <2>2, <2>5, <1>c
      <4>2. CollectsOnce(b)'
        BY <4>1 DEF BatchInv, CollectsOnce
      <4>3. KeysInv(b)'
        BY <4>1 DEF BatchInv, KeysInv
      <4>4. DataInv(b)'
        BY <4>1, SameVersions DEF BatchInv, DataInv
      <4> QED BY <4>2, <4>3, <4>4
    <3> QED BY <3>3, <3>4, <3>5, <3>6 DEF BatchInv
  <2>8. now \in WaitingCall /\ WaitInv(now)'
    <3>1. /\ Len(B.keys) + 1 \in Nat /\ Len(B.keys) + 1 \in DOMAIN new.keys
          /\ new.keys[Len(B.keys) + 1] = k
      BY <2>2, <2>3
    <3> QED BY <2>2, <2>3, <2>5, <2>a, <3>1, <1>3, <1>c DEF WaitInv, WaitingCall, Waiting, Same
  <2>9. ASSUME NEW s \in Resolvers, s # r, WaitInv(call[s]) PROVE WaitInv(call[s])'
    <3> DEFINE c == call[s]
    <3>1. call'[s] = c
      BY <2>1, <2>9 DEF CallInv
    <3>2. /\ c.batch \in DOMAIN batches /\ Collecting[c.batch] = batches[c.batch]
          /\ c.batch \in 1 .. Len(Collecting)
      BY <2>9, <1>c DEF WaitInv, BatchesOK
    <3>3. CASE c.batch # n
      BY <2>5, <2>9, <3>1, <3>2, <3>3 DEF WaitInv, Same
    <3>4. CASE c.batch = n
      <4>1. c.pos \in DOMAIN B.keys /\ B.keys[c.pos] = c.key
        BY <2>9, <3>2, <3>4, <1>b DEF WaitInv
      <4>2. c.pos \in DOMAIN new.keys /\ new.keys[c.pos] = c.key
        BY <4>1, <2>2, <2>3
      <4>3. c.batch \in DOMAIN batches' /\ batches'[c.batch] = new
        BY <2>5, <3>2, <3>4
      <4>4. c \in WaitingCall /\ c.from <= store[c.key]
        BY <2>9 DEF WaitInv
      <4> QED BY <2>3, <3>1, <4>2, <4>3, <4>4 DEF WaitInv, Same
    <3> QED BY <3>3, <3>4
  <2>10. ASSUME NEW s \in Resolvers, s # r, DoneInv(call[s]) PROVE DoneInv(call[s])'
    BY <1>2, <2>1, <2>10 DEF CallInv
  <2>11. WaitInv(call[r])'
    BY <2>1, <2>8 DEF CallInv, WaitInv
  <2>12. CallInv'
    BY <2>1, <2>8, <2>9, <2>10, <2>11 DEF CallInv
  <2> QED BY <1>1, <2>6, <2>7, <2>12
<1> QED BY <1>4, <1>5
-----------------------------------------------------------------------------
(* For the composition: every step of a resolver's call and of a batch.    *)

LEMMA LoadKeeps ==
  ASSUME Sizes, LoaderInv, UNCHANGED base, NEW r \in Resolvers, NEW k \in Keys, Load(r, k)
  PROVE  /\ LoaderInv'
         /\ call'[r] # Idle /\ call'[r].key = k
         /\ \A s \in Resolvers : s # r => call'[s] = call[s]
<1>1. Same /\ LoaderInv'
  BY LoadCachedKeeps, JoinKeeps DEF Load, LoadCached, JoinBatch, Same
<1>2. ASSUME NEW c, call' = [call EXCEPT ![r] = c], c # Idle, c.key = k
      PROVE  /\ call'[r] # Idle /\ call'[r].key = k
             /\ \A s \in Resolvers : s # r => call'[s] = call[s]
  BY <1>2 DEF LoaderInv, CallInv
<1>3. \A b, i : Waiting(k, b, i) # Idle /\ Waiting(k, b, i).key = k
  BY DEF Waiting, Idle
<1>4. \A from, v : Returned(k, from, v) # Idle /\ Returned(k, from, v).key = k
  BY DEF Returned, Idle
<1>5. CASE LoadCached(r, k)
  <2>1. PICK from, v : call' = [call EXCEPT ![r] = Returned(k, from, v)]
    BY <1>5 DEF LoadCached
  <2> QED BY <1>1, <1>2, <1>4, <2>1
<1>6. CASE JoinBatch(r, k)
  <2>1. PICK b, i : call' = [call EXCEPT ![r] = Waiting(k, b, i)]
    BY <1>6 DEF JoinBatch
  <2> QED BY <1>1, <1>2, <1>3, <2>1
<1> QED BY <1>5, <1>6 DEF Load

LEMMA CallReturns ==
  ASSUME Sizes, LoaderInv, UNCHANGED base, NEW r \in Resolvers, Return(r)
  PROVE  /\ LoaderInv'
         /\ \A s \in Resolvers : call[s] # Idle => call'[s] # Idle /\ call'[s].key = call[s].key
<1>1. LoaderInv'
  BY ReturnKeeps DEF Return, Same
<1>2. \A k, from, v : Returned(k, from, v) # Idle /\ Returned(k, from, v).key = k
  BY DEF Returned, Idle
<1>3. PICK from, v : call' = [call EXCEPT ![r] = Returned(call[r].key, from, v)]
  BY DEF Return, LoaderInv, CallInv
<1>4. \A s \in Resolvers : call'[s] = IF s = r THEN Returned(call[r].key, from, v) ELSE call[s]
  BY <1>3 DEF LoaderInv, CallInv
<1> QED BY <1>1, <1>2, <1>4

LEMMA BatchStepKeeps ==
  ASSUME Sizes, LoaderInv, UNCHANGED base, NEW b \in DOMAIN batches, BatchStep(b)
  PROVE  LoaderInv' /\ UNCHANGED call
<1>1. Same /\ UNCHANGED call
  BY DEF BatchStep, TimerFires, Fetch, Same
<1> QED BY <1>1, TimerKeeps, FetchKeeps DEF BatchStep

(* What a call that returned brings.                                       *)
LEMMA Got ==
  ASSUME LoaderInv, NEW r \in Resolvers, call[r].at = "returned", call[r].got # NoValue
  PROVE  Version(call[r].key, call[r].got)
BY DEF LoaderInv, CallInv, WaitInv, WaitingCall, DoneInv, Idle
-----------------------------------------------------------------------------
(* Which keys a loader knows of, and how old what it has of them may be.   *)

Mentions(k) ==
  \/ k \in DOMAIN cache
  \/ \E b \in DOMAIN batches : \E i \in DOMAIN batches[b].keys : batches[b].keys[i] = k
  \/ \E r \in Resolvers : call[r] # Idle /\ call[r].key = k

AtLeast(k, v) ==
  /\ k \in DOMAIN cache => cache[k].version >= v
  /\ \A b \in DOMAIN batches : batches[b].fetched = 1 =>
       \A i \in DOMAIN batches[b].keys : batches[b].keys[i] = k =>
         batches[b].data[i] = NoValue \/ batches[b].data[i].version >= v
  /\ \A r \in Resolvers : call[r].at = "returned" /\ call[r].key = k =>
       call[r].got = NoValue \/ call[r].got.version >= v

(* Of a key it does not know it has nothing.                               *)
LEMMA NothingOf ==
  ASSUME NEW k, NEW v, ~ Mentions(k)
  PROVE  AtLeast(k, v)
BY DEF Mentions, AtLeast, Idle

(* A new loader knows no key.                                              *)
LEMMA MadeWithout ==
  ASSUME NewLoader, NEW k
  PROVE  ~ Mentions(k)'
BY DEF NewLoader, Mentions, Idle

(* A load makes its own key known, and gets nothing new yet.               *)
LEMMA LoadMentions ==
  ASSUME Sizes, LoaderInv, NEW r \in Resolvers, NEW k \in Keys, Load(r, k), NEW q
  PROVE  /\ Mentions(q)' => Mentions(q) \/ q = k
         /\ \A v : AtLeast(q, v) => AtLeast(q, v)'
<1> USE DEF Sizes, LoaderInv
<1>1. ASSUME NEW c, call' = [call EXCEPT ![r] = c]
      PROVE  call'[r] = c /\ \A s \in Resolvers : s # r => call'[s] = call[s]
  BY <1>1 DEF CallInv
<1>2. CASE LoadCached(r, k)
  <2> DEFINE c == Returned(k, 0, cache[k])
  <2>1. /\ call' = [call EXCEPT ![r] = c] /\ k \in DOMAIN cache
        /\ UNCHANGED <<cache, batches>>
    BY <1>2 DEF LoadCached
  <2>2. c.at = "returned" /\ c.key = k /\ c.got = cache[k]
    BY DEF Returned
  <2> HIDE DEF c
  <2>3. call'[r] = c /\ \A s \in Resolvers : s # r => call'[s] = call[s]
    BY <1>1, <2>1
  <2> QED BY <2>1, <2>2, <2>3 DEF Mentions, AtLeast
<1>3. CASE JoinBatch(r, k)
  <2>1. PICK n : n = Index
    OBVIOUS
  <2>2. PICK B : B = Collecting[n]
    OBVIOUS
  <2>3. /\ Collecting \in Seq(Batch)
        /\ n \in 1 .. Len(Collecting)
        /\ \A b \in 1 .. Len(Collecting) :
             b = n \/ (b \in DOMAIN batches /\ Collecting[b] = batches[b])
        /\ B.keys \in Seq(Keys) /\ B.fetched = 0
        /\ B.keys # << >> => n \in DOMAIN batches /\ B = batches[n]
    BY <2>1, <2>2, Joined DEF BatchesOK
  <2>4. PICK b0, i0 : call' = [call EXCEPT ![r] = Waiting(k, b0, i0)]
    BY <1>3 DEF JoinBatch
  <2>5. /\ call'[r].at = "wait" /\ call'[r].key = k
        /\ \A s \in Resolvers : s # r => call'[s] = call[s]
    BY <1>1, <2>4 DEF Waiting
  <2>6. /\ cache' = cache
        /\ \/ batches' = batches
           \/ batches' = [Collecting EXCEPT ![n] = WithKey(B, k)]
    BY <1>3, <2>1, <2>2 DEF JoinBatch
  <2>7. CASE batches' = batches
    BY <2>5, <2>6, <2>7 DEF Mentions, AtLeast
  <2>8. CASE batches' = [Collecting EXCEPT ![n] = WithKey(B, k)]
    <3>1. B \in Batch
      BY <2>2, <2>3
    <3>2. WithKey(B, k).keys = Append(B.keys, k) /\ WithKey(B, k).fetched = 0
      BY <2>3, <3>1 DEF WithKey, Batch
    <3>3. /\ DOMAIN batches' = 1 .. Len(Collecting)
          /\ batches'[n].keys = Append(B.keys, k) /\ batches'[n].fetched = 0
          /\ \A b \in DOMAIN batches' : b = n \/ (b \in DOMAIN batches /\ batches'[b] = batches[b])
      BY <2>3, <2>8, <3>2
    <3>4. \A i \in DOMAIN batches'[n].keys :
            \/ batches'[n].keys[i] = k
            \/ n \in DOMAIN batches /\ i \in DOMAIN batches[n].keys
               /\ batches[n].keys[i] = batches'[n].keys[i]
      <4> SUFFICES ASSUME NEW i \in DOMAIN batches'[n].keys, batches'[n].keys[i] # k
                   PROVE  /\ n \in DOMAIN batches /\ i \in DOMAIN batches[n].keys
                          /\ batches[n].keys[i] = batches'[n].keys[i]
        OBVIOUS
      <4>1. i \in DOMAIN B.keys /\ batches'[n].keys[i] = B.keys[i]
        BY <2>3, <3>3
      <4>2. B.keys # << >>
        BY <4>1
      <4> QED BY <2>3, <4>1, <4>2
    <3>5. Mentions(q)' => Mentions(q) \/ q = k
      <4>1. ASSUME NEW b \in DOMAIN batches', NEW i \in DOMAIN batches'[b].keys,
                   batches'[b].keys[i] = q
            PROVE  Mentions(q) \/ q = k
        BY <3>3, <3>4, <4>1 DEF Mentions
      <4>2. ASSUME NEW s \in Resolvers, call'[s] # Idle, call'[s].key = q
            PROVE  Mentions(q) \/ q = k
        BY <2>5, <4>2 DEF Mentions
      <4>3. q \in DOMAIN cache' => Mentions(q)
        BY <2>6 DEF Mentions
      <4> QED BY <4>1, <4>2, <4>3 DEF Mentions
    <3>6. ASSUME NEW v, AtLeast(q, v) PROVE AtLeast(q, v)'
      BY <2>5, <2>6, <3>3, <3>6 DEF AtLeast
    <3> QED BY <3>5, <3>6
  <2> QED BY <2>6, <2>7, <2>8
<1> QED BY <1>2, <1>3 DEF Load

(* A call returns what its batch found.                                    *)
LEMMA ReturnMentions ==
  ASSUME LoaderInv, NEW r \in Resolvers, Return(r), NEW q
  PROVE  /\ Mentions(q)' => Mentions(q)
         /\ \A v : AtLeast(q, v) => AtLeast(q, v)'
<1> USE DEF LoaderInv
<1> DEFINE c     == call[r]
           value == batches[c.batch].data[c.pos]
           now   == Returned(c.key, c.from, value)
<1>1. WaitInv(c) /\ c.at = "wait" /\ c # Idle
  BY DEF Return, CallInv, DoneInv, DoneCall, Idle
<1>2. /\ c.batch \in DOMAIN batches /\ c.pos \in DOMAIN batches[c.batch].keys
      /\ batches[c.batch].keys[c.pos] = c.key
  BY <1>1 DEF WaitInv
<1>3. batches[c.batch].fetched = 1
  <2>1. batches[c.batch].fetched \in Nat /\ batches[c.batch].fetches \in Nat
    BY <1>2, BatchTyped
  <2> QED BY <1>2, <2>1 DEF Return, BatchInv, CollectsOnce
<1>4. call' = [call EXCEPT ![r] = now] /\ cache' = Cached(c.key, value) /\ batches' = batches
  BY <1>1 DEF Return, CallInv
<1>5. now.at = "returned" /\ now.key = c.key /\ now.got = value /\ now # Idle
  BY DEF Returned, Idle
<1> HIDE DEF now, value
<1>6. call'[r] = now /\ \A s \in Resolvers : s # r => call'[s] = call[s]
  BY <1>4 DEF CallInv
<1>7. /\ DOMAIN cache' \subseteq DOMAIN cache \cup {c.key}
      /\ \A k \in DOMAIN cache' :
           \/ k \in DOMAIN cache /\ cache'[k] = cache[k]
           \/ k = c.key /\ value # NoValue /\ cache'[k] = value
  BY <1>4 DEF Cached
<1> HIDE DEF c
<1>8. c = call[r]
  BY DEF c
<1>9. Mentions(q)' => Mentions(q)
  BY <1>1, <1>4, <1>5, <1>6, <1>7, <1>8 DEF Mentions
<1>10. ASSUME NEW v, AtLeast(q, v) PROVE AtLeast(q, v)'
  <2>1. c.key = q => value = NoValue \/ value.version >= v
    BY <1>2, <1>3, <1>10 DEF AtLeast, value
  <2> QED BY <1>4, <1>5, <1>6, <1>7, <1>10, <2>1 DEF AtLeast
<1> QED BY <1>9, <1>10

(* A batch finds what is in the table.                                     *)
LEMMA BatchStepMentions ==
  ASSUME LoaderInv, NEW b \in DOMAIN batches, BatchStep(b), NEW q
  PROVE  /\ Mentions(q)' => Mentions(q)
         /\ \A v : AtLeast(q, v) /\ store[q] >= v => AtLeast(q, v)'
<1> USE DEF LoaderInv
<1>1. batches[b] \in Batch /\ batches[b].fetched \in Nat
  BY BatchTyped
<1>2. ASSUME NEW B, batches' = [batches EXCEPT ![b] = B]
      PROVE  /\ DOMAIN batches' = DOMAIN batches /\ batches'[b] = B
             /\ \A d \in DOMAIN batches : d # b => batches'[d] = batches[d]
  BY <1>2 DEF BatchesOK
<1>3. UNCHANGED <<cache, call>>
  BY DEF BatchStep, TimerFires, Fetch
<1>4. CASE TimerFires(b)
  <2>1. PICK B : /\ batches' = [batches EXCEPT ![b] = B]
                 /\ B.keys = batches[b].keys /\ B.fetched = batches[b].fetched
                 /\ B.data = batches[b].data
    <3>1. EndedByTimer(batches[b]).keys = batches[b].keys
          /\ EndedByTimer(batches[b]).fetched = batches[b].fetched
          /\ EndedByTimer(batches[b]).data = batches[b].data
      BY <1>1 DEF EndedByTimer, Batch
    <3>2. LET B == [batches[b] EXCEPT !.timer = "returned"]
          IN  /\ B.keys = batches[b].keys /\ B.fetched = batches[b].fetched
              /\ B.data = batches[b].data
      BY <1>1 DEF Batch
    <3>3. \/ batches' = [batches EXCEPT ![b] = EndedByTimer(batches[b])]
          \/ batches' = [batches EXCEPT ![b] = [batches[b] EXCEPT !.timer = "returned"]]
      BY <1>4 DEF TimerFires, BatchesOK
    <3> QED BY <3>1, <3>2, <3>3
  <2> QED BY <1>2, <1>3, <2>1 DEF Mentions, AtLeast
<1>5. CASE Fetch(b)
  <2>1. PICK data \in {ResultsOf(b), Failed(b)} :
          batches' = [batches EXCEPT ![b] = WithData(batches[b], data)]
    BY <1>5 DEF Fetch
  <2>2. /\ WithData(batches[b], data).keys = batches[b].keys
        /\ WithData(batches[b], data).data = data
    BY <1>1 DEF WithData, Batch
  <2>3. /\ DOMAIN batches' = DOMAIN batches
        /\ batches'[b].keys = batches[b].keys /\ batches'[b].data = data
        /\ \A d \in DOMAIN batches : d # b => batches'[d] = batches[d]
    BY <1>2, <2>1, <2>2
  <2>4. Mentions(q)' => Mentions(q)
    BY <1>3, <2>3 DEF Mentions
  <2>5. ASSUME NEW v, AtLeast(q, v), store[q] >= v PROVE AtLeast(q, v)'
    <3>1. \A i \in DOMAIN batches[b].keys : batches[b].keys[i] = q =>
            data[i] = NoValue \/ data[i].version >= v
      BY <2>1, <2>5 DEF ResultsOf, Failed, Found
    <3> QED BY <1>3, <2>3, <2>5, <3>1 DEF AtLeast
  <2> QED BY <2>4, <2>5
<1> QED BY <1>4, <1>5 DEF BatchStep
=============================================================================
