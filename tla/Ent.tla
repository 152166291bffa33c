-------------------------------- MODULE Ent --------------------------------
(***************************************************************************)
(* Workers save builders and ask queries of one database through the       *)
(* clients ent generates, some in a transaction.  A statement is atomic;   *)
(* what a transaction wrote is seen by its own worker alone, and the       *)
(* statements of others that meet it wait (PostgreSQL, READ COMMITTED).    *)
(***************************************************************************)
EXTENDS EntBuilder, FiniteSets

CONSTANTS
  Workers,      \* goroutines that use the clients
  Programs,     \* sequence of the builders they make
  Questions,    \* sequence of the queries they ask
  Hooks,        \* [Types -> sequence of hooks], what Client.Use added
  Seed,         \* [Types -> rows]: what the tables hold at the start
  MaxBuilders,  \* bound: builders made
  MaxSaves,     \* bound: saves of one builder
  MaxAsks,      \* bound: queries
  MaxTx         \* bound: transactions; one at a time

Listed(s) == Len(s) \in Nat /\ DOMAIN s = 1 .. Len(s)

ASSUME BoundsAssumption ==
  /\ {MaxBuilders, MaxSaves, MaxAsks, MaxTx} \subseteq Nat
  /\ "nobody" \notin Workers

ASSUME ProgramAssumption ==
  \A i \in DOMAIN Programs : LET p == Programs[i] IN
    /\ p.type \in Types /\ p.op \in Ops
    /\ Listed(p.chains) /\ (p.op # "Create" => Len(p.chains) = 1)
    /\ \A j \in DOMAIN p.chains :
         /\ p.ids[j] # <<>> => p.ids[j] = <<p.ids[j][1]>>
         /\ Listed(p.chains[j])
         /\ \A k \in DOMAIN p.chains[j] : Compiles(p.type, p.op, p.chains[j][k])
    /\ Typed(p)

ASSUME QuestionAssumption ==
  \A i \in DOMAIN Questions :
    /\ Questions[i].type \in Types
    /\ Questions[i].limit \in Nat /\ Questions[i].offset \in Nat
    /\ Typed(Questions[i])

\* A hook works on the mutation, not on its builder.
ASSUME HookAssumption ==
  \A t \in Types :
    /\ Listed(Hooks[t])
    /\ \A h \in DOMAIN Hooks[t] : LET calls == Hooks[t][h].calls IN
         /\ Listed(calls)
         /\ \A k \in DOMAIN calls :
              calls[k].via # "builder" /\ Compiles(t, "Update", calls[k])

\* Where the rows of a type are updated on a condition, as the payment repository
\* updates payments, an update that sets their version asks for the one before,
\* and nothing else touches it.
VersionCalls(p) ==
  UNION {{p.chains[j][k] : k \in {l \in DOMAIN p.chains[j] : p.chains[j][l].field = "version"}}
         : j \in DOMAIN p.chains}

Follows(p, c) ==
  /\ c.do = "Set" /\ c.value \in Int
  /\ \E i \in DOMAIN p.where :
       /\ ~ p.where[i].not
       /\ p.where[i].any = <<[col |-> "version", op |-> "EQ", args |-> <<c.value - 1>>]>>

Guarded ==
  {Programs[i].type : i \in {j \in DOMAIN Programs :
     Programs[j].op = "Update" /\ Programs[j].where # <<>>}}

ASSUME VersionAssumption ==
  \A t \in Guarded :
    /\ \A i \in DOMAIN Seed[t] : Seed[t][i]["version"] \in Int
    /\ \A h \in DOMAIN Hooks[t] : \A k \in DOMAIN Hooks[t][h].calls :
         Hooks[t][h].calls[k].field # "version"
    /\ \A i \in DOMAIN Programs : Programs[i].type = t =>
         \A c \in VersionCalls(Programs[i]) :
           CASE Programs[i].op = "Create" -> c.do = "Set" => c.value \in Int
             [] Programs[i].op = "Update" -> Follows(Programs[i], c)
             [] OTHER                     -> Programs[i].op # "UpdateOne"

VARIABLES
  tables,   \* what is committed
  tx,       \* the transaction
  builder,  \* each worker's builder
  answer,   \* the last answer given
  won,      \* how often each version of a row was updated on condition of it
  made, asked, begun   \* counters

vars == <<tables, tx, builder, answer, won, made, asked, begun>>

NoTx == [by |-> "nobody", client |-> "none", aborted |-> FALSE,
         rows |-> [t \in Types |-> << >>], touched |-> [t \in Types |-> {}],
         deleted |-> [t \in Types |-> {}], won |-> << >>]

Idle == [muts |-> <<>>, tx |-> 0, saves |-> 0, fields |-> <<>>]

Nothing(err) == [err |-> err, n |-> 0, nodes |-> {}]
Affected(n)  == [err |-> "none", n |-> n, nodes |-> {}]
Nodes(ns)    == [err |-> "none", n |-> Cardinality(ns), nodes |-> ns]

Init ==
  /\ tables = Seed
  /\ tx = NoTx
  /\ builder = [w \in Workers |-> Idle]
  /\ answer = Nothing("none")
  /\ won = << >>
  /\ made = 0 /\ asked = 0 /\ begun = 0

-----------------------------------------------------------------------------
(* Transactions.  A builder made from the client of a transaction carries  *)
(* its number, and one made from the plain client carries 0.               *)
InTx(n)   == n # 0 /\ n = begun /\ tx.by # "nobody"
Closed(n) == n # 0 /\ ~ InTx(n)

\* What the transaction reads: its own rows, and those committed of others.
Own(t)     == tx.rows[t] ++ Without(tables[t], tx.touched[t])
View(n, t) == IF InTx(n) THEN Own(t) ELSE tables[t]

Begin(w, c) ==
  /\ tx.by = "nobody" /\ begun < MaxTx
  /\ begun' = begun + 1
  /\ tx' = [NoTx EXCEPT !.by = w, !.client = c]
  /\ answer' = Nothing("none")
  /\ UNCHANGED <<tables, builder, won, made, asked>>

\* Tx of a client that is a transaction's is refused.
BeginAgain(w) ==
  /\ tx.by = w
  /\ answer' = Nothing("txstarted")
  /\ UNCHANGED <<tables, tx, builder, won, made, asked, begun>>

Bags(f, g) ==
  [x \in DOMAIN f \cup DOMAIN g |-> (IF x \in DOMAIN f THEN f[x] ELSE 0)
                                    + (IF x \in DOMAIN g THEN g[x] ELSE 0)]

\* What was won of a row is forgotten when the row is deleted: one that is created
\* again under its id starts anew.
Forget(f, gone) == Without(f, {x \in DOMAIN f : x[2] \in gone[x[1]]})

\* The database rolls back the commit of a transaction a statement aborted.
Commit(w) ==
  /\ tx.by = w
  /\ tx' = NoTx
  /\ IF tx.aborted
     THEN /\ answer' = Nothing("aborted")
          /\ UNCHANGED <<tables, won>>
     ELSE /\ tables' = [t \in Types |-> Own(t)]
          /\ won' = Bags(Forget(won, tx.deleted), tx.won)
          /\ answer' = Nothing("none")
  /\ UNCHANGED <<builder, made, asked, begun>>

Rollback(w) ==
  /\ tx.by = w
  /\ tx' = NoTx
  /\ answer' = Nothing("none")
  /\ UNCHANGED <<tables, builder, won, made, asked, begun>>

-----------------------------------------------------------------------------
(* Builders: the client's Create, CreateBulk, Update, UpdateOneID,         *)
(* UpdateOne, Delete and DeleteOneID, and the chain of calls.              *)
Mutations(p) ==
  [j \in DOMAIN p.chains |->
     LET m == NewMutation(p.type, p.op, p.ids[j], p.where)
     IN  Chain(IF p.entity = <<>> THEN m ELSE WithEntity(m, p.entity[1]), p.chains[j])]
Built == [i \in DOMAIN Programs |-> Mutations(Programs[i])]

Build(w, i, n) ==
  LET p == Programs[i] IN
  /\ made < MaxBuilders
  /\ n # 0 => tx.by = w /\ n = begun /\ tx.client = Client(p.type)
  /\ made' = made + 1
  /\ builder' = [builder EXCEPT ![w] =
       [muts |-> Built[i], tx |-> n, saves |-> 0, fields |-> p.fields]]
  /\ answer' = Nothing("none")
  /\ UNCHANGED <<tables, tx, won, asked, begun>>

\* OldX: the first call reads the row, unless the mutation is done, and every
\* later call answers the same.
AskOld(w) ==
  /\ LET b == builder[w]
         m == b.muts[1]
         found == m.id # <<>> /\ m.id[1] \in DOMAIN View(b.tx, m.type)
     IN  /\ b.muts # <<>> /\ m.op = "UpdateOne" /\ m.old.at = "unread"
         /\ builder' = [builder EXCEPT ![w].muts[1].old =
              IF m.done \/ Closed(b.tx) \/ (InTx(b.tx) /\ tx.aborted) \/ ~ found
              THEN [at |-> "failed"]
              ELSE [at |-> "read", row |-> View(b.tx, m.type)[m.id[1]]]]
  /\ UNCHANGED <<tables, tx, answer, won, made, asked, begun>>

-----------------------------------------------------------------------------
(* Statements.  One writes rows and deletes ids, or fails and nothing.     *)
(* Mutant: what is deleted stays.                                          *)
PutKeeps(table, rows, gone) == rows ++ table

Put(table, rows, gone) == rows ++ Without(table, gone)

ShareUnique(t, r, s) ==
  \E c \in Uniques[t] : c \in DOMAIN r \cap DOMAIN s /\ r[c] = s[c]

BreaksUnique(t, table, rows) ==
  \E i \in DOMAIN rows, j \in DOMAIN table \cup DOMAIN rows :
    i # j /\ ShareUnique(t, rows[i], (rows ++ table)[j])

\* Statements of others that meet what the transaction wrote wait for its end.
Waits(n, t, rows, gone) ==
  /\ ~ InTx(n)
  /\ \/ (DOMAIN rows \cup gone) \cap tx.touched[t] # {}
     \/ \E i \in DOMAIN rows, j \in tx.touched[t] :
          \/ j \in DOMAIN tx.rows[t] /\ ShareUnique(t, rows[i], tx.rows[t][j])
          \/ j \in DOMAIN tables[t] /\ ShareUnique(t, rows[i], tables[t][j])

\* The versions that updates made on condition of a version moved rows to.
Wins(m, rows) ==
  [x \in IF m.op = "Update" /\ m.where # <<>> /\ "version" \in DOMAIN m.set
         THEN {<<m.type, id, m.set["version"]>> : id \in DOMAIN rows} ELSE {} |-> 1]
Only(t, gone) == [u \in Types |-> IF u = t THEN gone ELSE {}]

(* Mutant: a statement of a transaction is committed at once.              *)
WrittenThrough(n, t, rows, gone, wins) ==
  /\ tx' = IF InTx(n) THEN [tx EXCEPT !.rows[t] = Put(@, rows, gone),
                                      !.touched[t] = @ \cup DOMAIN rows \cup gone]
           ELSE tx
  /\ tables' = [tables EXCEPT ![t] = Put(@, rows, gone)]
  /\ won' = Bags(Forget(won, Only(t, gone)), wins)

Written(n, t, rows, gone, wins) ==
  IF InTx(n)
  THEN /\ tx' = [tx EXCEPT !.rows[t] = Put(@, rows, gone),
                           !.touched[t] = @ \cup DOMAIN rows \cup gone,
                           !.deleted[t] = @ \cup gone,
                           !.won = Bags(Forget(@, Only(t, gone)), wins)]
       /\ UNCHANGED <<tables, won>>
  ELSE /\ tables' = [tables EXCEPT ![t] = Put(@, rows, gone)]
       /\ won' = Bags(Forget(won, Only(t, gone)), wins)
       /\ UNCHANGED tx

Failed(n) ==
  /\ tx' = [tx EXCEPT !.aborted = @ \/ InTx(n)]
  /\ UNCHANGED <<tables, won>>

-----------------------------------------------------------------------------
(* Save: defaults, hooks, checks, then the statement.  A single create is  *)
(* a bulk of one: no row is inserted unless every builder passes.          *)
Checks(m, fields) ==
  CASE m.op = "Create"    -> CheckCreate(m)
    [] m.op = "Update"    -> CheckUpdate(m)
    [] m.op = "UpdateOne" -> /\ CheckUpdate(m) /\ m.id # <<>>
                             /\ \A i \in DOMAIN fields : fields[i] \in Columns[m.type]
    [] OTHER -> TRUE

Refusing(n) == Closed(n) \/ (InTx(n) /\ tx.aborted)

Stop(r, fields) == CASE r.rejected -> "rejected"
                     [] ~ r.rejected /\ ~ Checks(r.m, fields) -> "validation"
                     [] OTHER -> "no"

Prepare(m, fields) ==
  LET Judged(r) == [m |-> r.m, stop |-> Stop(r, fields)]
  IN  Judged(Hooked(Hooks[m.type], IF m.op = "Create" THEN WithDefaults(m) ELSE m))

\* For an update of many rows that writes no column sqlgraph issues no statement.
Silent(m) == m.op = "Update" /\ Blank(m)

\* The builders of a bulk in turn, up to the first that is refused.
Prepared(b) ==
  LET each    == [j \in DOMAIN b.muts |-> Prepare(b.muts[j], b.fields)]
      refused == {j \in DOMAIN b.muts : each[j].stop # "no"}
  IN  [muts |-> [j \in DOMAIN b.muts |->
                   IF \E k \in refused : k < j THEN b.muts[j] ELSE each[j].m],
       stop |-> CASE refused # {} -> each[Min(refused)].stop
                  [] refused = {} /\ b.muts # <<>> /\ Silent(each[1].m) -> "nothing"
                  [] OTHER -> IF Refusing(b.tx) THEN "closed" ELSE "no"]

Done(muts) == [j \in DOMAIN muts |-> [muts[j] EXCEPT !.done = TRUE]]

Saving(w, op) ==
  /\ builder[w].muts # <<>> /\ builder[w].muts[1].op = op
  /\ builder[w].saves < MaxSaves

Answered(w, muts, ans) ==
  /\ builder' = [builder EXCEPT ![w].muts = muts, ![w].saves = @ + 1]
  /\ answer' = ans
  /\ UNCHANGED <<made, asked, begun>>

\* No statement runs.  A delete is done even so.
SaveRefused(w, op, p) ==
  /\ Saving(w, op)
  /\ p.stop \notin {"no", "nothing"}
  /\ Answered(w, IF p.stop = "closed" /\ op \in {"Delete", "DeleteOne"}
                 THEN Done(p.muts) ELSE p.muts, Nothing(p.stop))
  /\ UNCHANGED <<tables, tx, won>>

\* A row without an id is refused by the database, not by check().
SaveCreate(w, p) ==
  LET n    == builder[w].tx
      t    == p.muts[1].type
      ids  == {p.muts[j].id[1] : j \in DOMAIN p.muts}
      rows == [i \in ids |-> CreateRow(CHOOSE m \in ToSet(p.muts) : m.id = <<i>>)]
      clash == \/ Cardinality(ids) < Len(p.muts) \/ ids \cap DOMAIN View(n, t) # {}
               \/ BreaksUnique(t, View(n, t), rows)
  IN  /\ Saving(w, "Create")
      /\ p.stop = "no"
      /\ IF \E j \in DOMAIN p.muts : p.muts[j].id = <<>>
         THEN Failed(n) /\ Answered(w, p.muts, Nothing("database"))
         ELSE /\ ~ Waits(n, t, rows, {})
              /\ IF clash
                 THEN Failed(n) /\ Answered(w, p.muts, Nothing("constraint"))
                 ELSE /\ Written(n, t, rows, {}, << >>)
                      /\ Answered(w, Done(p.muts), Nodes({rows[i] ++ Zero[t] : i \in ids}))

\* The mutation is done, be its transaction open or not.
SaveNothing(w, p) ==
  /\ Saving(w, "Update")
  /\ p.stop = "nothing"
  /\ Answered(w, Done(p.muts), Affected(0))
  /\ UNCHANGED <<tables, tx, won>>

SaveUpdate(w, p) ==
  LET n    == builder[w].tx
      m    == p.muts[1]
      view == View(n, m.type)
      rows == [i \in Matching(view, m.where) |-> UpdateRow(m, view[i])]
  IN  /\ Saving(w, "Update")
      /\ p.stop = "no"
      /\ ~ Waits(n, m.type, rows, {})
      /\ IF BreaksUnique(m.type, view, rows)
         THEN Failed(n) /\ Answered(w, p.muts, Nothing("constraint"))
         ELSE /\ Written(n, m.type, rows, {}, Wins(m, rows))
              /\ Answered(w, Done(p.muts), Affected(Cardinality(DOMAIN rows)))

\* Where no column is written the row is read all the same.
SaveUpdateOne(w, p) ==
  LET n    == builder[w].tx
      m    == p.muts[1]
      view == View(n, m.type)
      id   == m.id[1]
      row  == UpdateRow(m, view[id])
      rows == IF Blank(m) THEN << >> ELSE One(id, row)
      cols == IF builder[w].fields = <<>> THEN Columns[m.type] ELSE ToSet(builder[w].fields)
  IN  /\ Saving(w, "UpdateOne")
      /\ p.stop = "no"
      /\ IF id \notin DOMAIN view
         THEN /\ Answered(w, p.muts, Nothing("notfound"))
              /\ UNCHANGED <<tables, tx, won>>
         ELSE /\ ~ Waits(n, m.type, rows, {})
              /\ IF BreaksUnique(m.type, view, rows)
                 THEN Failed(n) /\ Answered(w, p.muts, Nothing("constraint"))
                 ELSE /\ Written(n, m.type, rows, {}, << >>)
                      /\ Answered(w, Done(p.muts), Nodes({AssignValues(m.type, row, cols)}))

\* Delete, and DeleteOneID, which answers NotFound when no row was deleted.
ExecDelete(w, op, p) ==
  LET n    == builder[w].tx
      m    == p.muts[1]
      view == View(n, m.type)
      gone == {i \in Matching(view, m.where) : m.id \in {<<>>, <<i>>}}
  IN  /\ Saving(w, op)
      /\ p.stop = "no"
      /\ ~ Waits(n, m.type, << >>, gone)
      /\ Written(n, m.type, << >>, gone, << >>)
      /\ Answered(w, Done(p.muts),
           IF op = "DeleteOne" /\ gone = {} THEN Nothing("notfound")
           ELSE Affected(Cardinality(gone)))

-----------------------------------------------------------------------------
(* Queries.  No order is asked for: LIMIT and OFFSET pick any of the rows. *)
Picked(ids, limit, offset) ==
  LET left == IF offset < Cardinality(ids) THEN Cardinality(ids) - offset ELSE 0
  IN  {S \in SUBSET ids : Cardinality(S) = IF limit = 0 \/ left < limit THEN left ELSE limit}

Limit(q) == CASE q.ask \in {"First", "Exist"} -> 1 [] q.ask = "Only" -> 2 [] OTHER -> q.limit

\* String, Int and their like of a selector take the one value of one column.
Single(nodes) ==
  CASE nodes = {} -> Nothing("notfound")
    [] Cardinality(nodes) > 1 -> Nothing("several")
    [] OTHER -> Nodes(nodes)

Outcome(q, nodes) ==
  CASE q.ask \in {"First", "Only"} /\ nodes = {} -> Nothing("notfound")
    [] q.ask = "Only" /\ Cardinality(nodes) > 1  -> Nothing("notsingular")
    [] q.ask = "String"                          -> Single(nodes)
    [] q.ask \in {"Count", "Exist"}              -> Affected(Cardinality(nodes))
    [] OTHER                                     -> Nodes(nodes)

Ask(w, q, n) ==
  /\ asked < MaxAsks
  /\ n # 0 => tx.by = w /\ n = begun /\ tx.client = Client(q.type)
  /\ asked' = asked + 1
  /\ LET view == View(n, q.type)
         cols == IF q.fields = <<>> THEN Columns[q.type] ELSE ToSet(q.fields)
     IN  \E S \in Picked(Matching(view, q.where), Limit(q), q.offset) :
           answer' =
             IF ~ cols \subseteq Columns[q.type] \/ (q.ask = "String" /\ Len(q.fields) > 1)
             THEN Nothing("validation")
             ELSE IF Refusing(n) THEN Nothing("closed")
             ELSE Outcome(q, {AssignValues(q.type, view[i], cols) : i \in S})
  /\ UNCHANGED <<tables, tx, builder, won, made, begun>>

-----------------------------------------------------------------------------
Save(w) == \E p \in {Prepared(builder[w])} :
  \/ \E op \in Ops : SaveRefused(w, op, p)
  \/ SaveCreate(w, p)
  \/ SaveNothing(w, p)
  \/ SaveUpdate(w, p)
  \/ SaveUpdateOne(w, p)
  \/ \E op \in {"Delete", "DeleteOne"} : ExecDelete(w, op, p)

Next == \E w \in Workers :
  \/ \E c \in Clients : Begin(w, c)
  \/ BeginAgain(w)
  \/ Commit(w)
  \/ Rollback(w)
  \/ \E i \in DOMAIN Programs, n \in {0, begun} : Build(w, i, n)
  \/ AskOld(w)
  \/ Save(w)
  \/ \E i \in DOMAIN Questions, n \in {0, begun} : Ask(w, Questions[i], n)

Spec == Init /\ [][Next]_vars

-----------------------------------------------------------------------------
\* Tables, the transaction's rows and the fields of the builders stay within the
\* schema, and every answer is one of those the builders and queries give.
Errors == {"none", "txstarted", "aborted", "rejected", "validation", "closed",
           "database", "constraint", "notfound", "notsingular", "several"}
TypeOK ==
  /\ \A t \in Types :
       /\ \A i \in DOMAIN tables[t] : DOMAIN tables[t][i] \subseteq Columns[t]
       /\ DOMAIN tx.rows[t] \subseteq tx.touched[t]
  /\ tx.by \in Workers \cup {"nobody"}
  /\ answer.err \in Errors /\ answer.n \in Nat
  /\ \A w \in Workers :
       /\ \A j \in DOMAIN builder[w].muts : LET m == builder[w].muts[j] IN
            /\ m.type \in Types /\ m.op \in Ops
            /\ DOMAIN m.set \subseteq DOMAIN Kinds[m.type]
            /\ DOMAIN m.add \subseteq Numeric[m.type]
            /\ m.cleared \subseteq Nullable[m.type]
       /\ builder[w].saves \in 0 .. MaxSaves
  /\ made \in 0 .. MaxBuilders /\ asked \in 0 .. MaxAsks /\ begun \in 0 .. MaxTx

\* Whatever chain of calls a builder is given, by its own setters, by name or by
\* a hook, and whatever others save meanwhile or a transaction commits, every
\* committed row is one its schema allows and its immutable columns stay while it
\* lives, the nullable key of an order excepted: ClearField of a mutation clears it.
Store == INSTANCE RowStore WITH
  Tables <- Types, rows <- tables, ended <- tx.deleted,
  NotNull <- [t \in Types |-> Required[t] \cup {"id"}], NotBlank <- NotEmpty,
  UniqueCols <- Uniques, Frozen <- [t \in Types |-> Immutable[t] \ Nullable[t]]
ImplementsRowStore == Store!Spec

ASSUME SeedAssumption ==
  /\ DOMAIN Seed = Types
  /\ \A t \in Types :
       /\ IsFiniteSet(DOMAIN Seed[t]) /\ Store!ValidTable(t, Seed[t])
       /\ \A i \in DOMAIN Seed[t] : DOMAIN Seed[t][i] \subseteq Columns[t]

\* What a save answers is what it did: an error left every row as it was; a bulk
\* inserted all its rows or none; a count is that of the rows selected, or 0 where
\* there was no column to write, and no row but those was written.
Changed(old, new) ==
  {i \in DOMAIN old \cup DOMAIN new :
     i \notin DOMAIN old \cap DOMAIN new \/ old[i] # new[i]}
SavedAs(m, muts, blank, ans, old, new) ==
  /\ ans.err # "none" => Changed(old, new) = {}
  /\ ans.err = "none" =>
       CASE m.op = "Create" ->
              LET ids == {muts[j].id[1] : j \in DOMAIN muts}
              IN  ids \cap DOMAIN old = {} /\ Changed(old, new) = ids /\ ids \subseteq DOMAIN new
         [] m.op = "Update" ->
              /\ ans.n = IF blank THEN 0 ELSE Cardinality(Matching(old, m.where))
              /\ blank => old = new
              /\ Changed(old, new) \subseteq Matching(old, m.where)
              /\ DOMAIN old = DOMAIN new
         [] m.op = "UpdateOne" ->
              DOMAIN old = DOMAIN new /\ Changed(old, new) \subseteq {m.id[1]}
         [] OTHER ->
              ans.n = Cardinality(DOMAIN old) - Cardinality(DOMAIN new)
              /\ DOMAIN new \subseteq DOMAIN old /\ \A i \in DOMAIN new : new[i] = old[i]
ExactStep ==
  \A w \in Workers : builder'[w].saves = builder[w].saves + 1 =>
    LET b == builder[w]
        m == b.muts[1]
    IN  SavedAs(m, b.muts, Blank(builder'[w].muts[1]), answer',
                View(b.tx, m.type), View(b.tx, m.type)')
AnswersExact == [][ExactStep]_vars

\* A transaction shows in the tables at its commit, all of it, or never: while
\* it is open no row it wrote changes there, by it or by others, and after a
\* rollback, or the commit of an aborted one, nothing of it is left.
AtomicStep ==
  tx.by # "nobody" =>
    IF tx'.by = "nobody"
    THEN IF answer'.err = "none" /\ ~ tx.aborted /\ tables' # tables
         THEN \A t \in Types : tables'[t] = Own(t)
         ELSE tables' = tables
    ELSE \A t \in Types, i \in UNION {tx.touched[u] : u \in Types} :
           i \in tx'.touched[t] => i \notin Changed(tables[t], tables'[t])
TxAtomic == [][AtomicStep]_vars

\* Of the updates that are made on condition of a row's version, as the payment
\* repository makes them, at most one moves the row to each next version,
\* whether they run alone, are retried, or sit in a transaction.
VersionWonOnce == \A x \in DOMAIN won : won[x] = 1
=============================================================================
