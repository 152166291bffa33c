----------------------------- MODULE EntBuilder -----------------------------
(***************************************************************************)
(* The builders generated by ent, without the database: what the calls on  *)
(* a mutation leave in it, what a save checks, the rows it writes, the     *)
(* rows a predicate selects and the entity a row is read into.  A column   *)
(* that is NULL is not in the domain of its row.                           *)
(***************************************************************************)
EXTENDS EntSchema, Integers, Sequences, SequencesExt

Ops == {"Create", "Update", "UpdateOne", "Delete", "DeleteOne"}

\* No id is <<>>, an id is <<id>>; the predicates are a conjunction.
NewMutation(t, op, id, where) ==
  [type |-> t, op |-> op, id |-> id, set |-> << >>, add |-> << >>, cleared |-> {},
   where |-> where, old |-> [at |-> "unread"], done |-> FALSE]

\* UpdateOne(entity): the entity is the old value.
WithEntity(m, node) ==
  [m EXCEPT !.id = <<node.id>>, !.old = [at |-> "read", row |-> node]]

-----------------------------------------------------------------------------
(* The field functions of a mutation.                                      *)
Without(f, S) == Restrict(f, DOMAIN f \ S)

Set(m, f, v) == [m EXCEPT !.set = One(f, v) ++ @, !.add = Without(@, {f})]

Add(m, f, v) ==
  [m EXCEPT !.add = One(f, IF f \in DOMAIN @ THEN @[f] + v ELSE v) ++ @]

Clear(m, f) == [m EXCEPT !.set = Without(@, {f}), !.cleared = @ \cup {f}]

Reset(m, f) ==
  [m EXCEPT !.set = Without(@, {f}), !.add = Without(@, {f}), !.cleared = @ \ {f}]

\* SetField, AddField, ClearField and ResetField refuse a name that is not of
\* such a field and a value of another type, and change nothing then.
IsField(t, f) == f \in DOMAIN Kinds[t]

(* Mutant: any field may be cleared.                                       *)
AcceptsAnyClear(m, c) ==
  \/ c.do = "Set" /\ IsField(m.type, c.field) /\ c.kind = Kinds[m.type][c.field]
  \/ c.do = "Add" /\ c.field \in Numeric[m.type] /\ c.kind = Kinds[m.type][c.field]
  \/ c.do \in {"Clear", "Reset"} /\ IsField(m.type, c.field)

Accepts(m, c) ==
  \/ c.do = "Set" /\ IsField(m.type, c.field) /\ c.kind = Kinds[m.type][c.field]
  \/ c.do = "Add" /\ c.field \in Numeric[m.type] /\ c.kind = Kinds[m.type][c.field]
  \/ c.do = "Clear" /\ c.field \in Nullable[m.type]
  \/ c.do = "Reset" /\ IsField(m.type, c.field)

Called(m, c) ==
  CASE ~ Accepts(m, c)                  -> m
    [] Accepts(m, c) /\ c.do = "Set"   -> Set(m, c.field, c.value)
    [] Accepts(m, c) /\ c.do = "Add"   -> Add(m, c.field, c.value)
    [] Accepts(m, c) /\ c.do = "Clear" -> Clear(m, c.field)
    [] OTHER                            -> Reset(m, c.field)

\* A chain of calls: on the builder, on its Mutation(), or there by name.
Chain(m, calls) == FoldLeft(Called, m, calls)

Setters(t, op) == CASE op = "Create" -> CreateSetters[t]
                    [] op = "Update" -> UpdateSetters[t]
                    [] op = "UpdateOne" -> UpdateOneSetters[t]
                    [] OTHER -> {}
Compiles(t, op, c) ==
  /\ c.do \in {"Set", "Add", "Clear", "Reset"}
  /\ CASE c.via = "builder" ->
            /\ c.do \in {"Set", "Add"} /\ c.field \in Setters(t, op)
            /\ c.do = "Add" => op # "Create" /\ c.field \in Numeric[t]
            /\ c.kind = Kinds[t][c.field]
       [] c.via = "mutation" -> c.do \in Functions[t][c.field] /\ c.kind = Kinds[t][c.field]
       [] c.via = "name" -> TRUE

-----------------------------------------------------------------------------
(* Hooks: a hook is If(do, condition) or Unless(do, condition), the        *)
(* condition an And of HasOp, HasFields, HasAddedFields, HasClearedFields. *)
HoldsFor(h, m) ==
  /\ m.op \in h.ops
  /\ h.fields \subseteq DOMAIN m.set
  /\ h.added \subseteq DOMAIN m.add
  /\ h.cleared \subseteq m.cleared

Applies(h, m) == HoldsFor(h, m) # h.unless

\* withHooks: Use(f, g) runs f around g around the save; Reject ends it.
Run(r, h) ==
  IF r.rejected \/ ~ Applies(h, r.m) THEN r
  ELSE IF h.do = "reject" THEN [r EXCEPT !.rejected = TRUE]
  ELSE [r EXCEPT !.m = Chain(@, h.calls)]

Hooked(hooks, m) == FoldLeft(Run, [m |-> m, rejected |-> FALSE], hooks)

-----------------------------------------------------------------------------
(* What a save checks and the rows it writes.                              *)
WithDefaults(m) == [m EXCEPT !.set = @ ++ Defaults(m.type)]

(* Mutant: the validators are not run.                                     *)
CheckCreateRequired(m) == Required[m.type] \subseteq DOMAIN m.set

CheckCreate(m) ==
  /\ Required[m.type] \subseteq DOMAIN m.set
  /\ \A f \in NotEmpty[m.type] \ {"id"} : m.set[f] # ""
  /\ m.id # <<"">>

CheckUpdate(m) == \A f \in CheckedOnUpdate[m.type] \cap DOMAIN m.set : m.set[f] # ""

CreateRow(m) == One("id", m.id[1]) ++ Restrict(m.set, Created[m.type] \cap DOMAIN m.set)

\* An addition takes the place of a value set for the same column.
WriteFields(m, row, fields) ==
  [f \in fields \cap DOMAIN m.set |-> m.set[f]] ++ Without(row, m.cleared)

AddFields(m, row, fields) ==
  [f \in fields \cap DOMAIN m.add |-> row[f] + m.add[f]] ++ WriteFields(m, row, fields)

Writes(m) == IF m.op = "Update" THEN Updated[m.type] ELSE UpdatedOne[m.type]

UpdateRow(m, row) == AddFields(m, row, Writes(m))

\* No column is set, added to or cleared.
Blank(m) == (DOMAIN m.set \cup DOMAIN m.add) \cap Writes(m) = {} /\ m.cleared = {}

-----------------------------------------------------------------------------
(* Predicates, on a row, in SQL's three-valued logic: a predicate is       *)
(* [not, any], a disjunction of atoms [col, op, args], perhaps negated.    *)
(* Contains, HasPrefix and their like are left out: strings have no parts. *)
Compare(op, v, args) ==
  CASE op \in {"EQ", "In"}     -> \E i \in DOMAIN args : v = args[i]
    [] op \in {"NEQ", "NotIn"} -> \A i \in DOMAIN args : v # args[i]
    [] op = "GT"  -> v > args[1]
    [] op = "GTE" -> v >= args[1]
    [] op = "LT"  -> v < args[1]
    [] OTHER     -> v <= args[1]   \* LTE

Typed(q) ==
  \A i \in DOMAIN q.where : \A j \in DOMAIN q.where[i].any :
    q.where[i].any[j].op \in Predicates[q.type][q.where[i].any[j].col]

AtomTrue(a, row) ==
  CASE a.op = "IsNil"  -> a.col \notin DOMAIN row
    [] a.op = "NotNil" -> a.col \in DOMAIN row
    [] OTHER -> a.col \in DOMAIN row /\ Compare(a.op, row[a.col], a.args)

AtomFalse(a, row) ==
  CASE a.op = "IsNil"  -> a.col \in DOMAIN row
    [] a.op = "NotNil" -> a.col \notin DOMAIN row
    [] OTHER -> a.col \in DOMAIN row /\ ~ Compare(a.op, row[a.col], a.args)

PredicateTrue(p, row) ==
  IF p.not THEN \A i \in DOMAIN p.any : AtomFalse(p.any[i], row)
           ELSE \E i \in DOMAIN p.any : AtomTrue(p.any[i], row)

(* Mutant: one predicate is used.                                          *)
MatchingFirst(rows, where) ==
  {id \in DOMAIN rows : where # <<>> => PredicateTrue(where[1], rows[id])}

Matching(rows, where) ==
  {id \in DOMAIN rows : \A i \in DOMAIN where : PredicateTrue(where[i], rows[id])}

\* The entity a row is read into, of the columns selected.
AssignValues(t, row, cols) == Restrict(row, (cols \cup {"id"}) \cap DOMAIN row) ++ Zero[t]
=============================================================================
