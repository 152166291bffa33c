------------------------------ MODULE RowStore ------------------------------
(***************************************************************************)
(* What the generated code promises of the tables, whoever writes through  *)
(* it: every committed row is one its schema allows, and the columns the   *)
(* schema calls immutable never change while the row lives.  A row that a  *)
(* transaction deletes lives until the transaction is committed; another   *)
(* may have its id then.                                                   *)
(***************************************************************************)
CONSTANTS
  Tables,       \* names of tables
  NotNull,      \* [Tables -> set of columns]
  NotBlank,     \* [Tables -> set of columns a create may not leave empty]
  UniqueCols,   \* [Tables -> set of columns]
  Frozen        \* [Tables -> set of columns]

VARIABLES
  rows,   \* [Tables -> [ids -> row]], a row a function of its columns
  ended   \* [Tables -> ids], deleted by a transaction not yet committed

Same(r, s, c) ==
  (c \in DOMAIN r) = (c \in DOMAIN s) /\ (c \in DOMAIN r => r[c] = s[c])

ValidRow(t, id, r) ==
  /\ r["id"] = id
  /\ NotNull[t] \subseteq DOMAIN r
  /\ \A c \in NotBlank[t] : r[c] # ""

ValidTable(t, table) ==
  /\ \A id \in DOMAIN table : ValidRow(t, id, table[id])
  /\ \A c \in UniqueCols[t], id, other \in DOMAIN table :
       c \in DOMAIN table[id] \cap DOMAIN table[other] /\ table[id][c] = table[other][c]
         => id = other

Valid == \A t \in Tables : ValidTable(t, rows[t])

Pending == \E t \in Tables : ended[t] # {}

Init == Valid /\ ~ Pending

Next ==
  /\ Valid'
  /\ \A t \in Tables : \A id \in DOMAIN rows[t] \cap DOMAIN rows'[t] :
       \/ \A c \in Frozen[t] : Same(rows[t][id], rows'[t][id], c)
       \/ id \in ended[t] /\ ~ Pending'

Spec == Init /\ [][Next]_<<rows, ended>>
=============================================================================
