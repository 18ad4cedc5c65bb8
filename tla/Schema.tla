------------------------------- MODULE Schema -------------------------------
(***************************************************************************)
(* The database that the revisions under apps/api/alembic/versions change, *)
(* and the statements (alembic operations) they are made of.  A database   *)
(* is [tables, rows]: a table is its columns, its indexes (an index is     *)
(* called ix_<table>_<label>; the label is kept) and the tables its        *)
(* foreign keys point to; rows is a set of <<table, kind>>, the kinds of   *)
(* row the properties tell apart.  Column types, defaults and unique       *)
(* constraints are left out.                                               *)
(***************************************************************************)
EXTENDS Naturals, Sequences

EmptyDatabase == [tables |-> <<>>, rows |-> {}]

HasRows(rows, table) == \E row \in rows : row[1] = table

----------------------------------------------------------------------------
(* Statements.  Every statement is a record of the same fields.            *)

Statement(do, table) ==
    [do |-> do, table |-> table, columns |-> {}, indexes |-> {},
     parents |-> {}, from |-> <<"", "">>, to |-> <<"", "">>, guarded |-> FALSE]

CreateTable(table, columns, parents) ==
    [Statement("create", table) EXCEPT !.columns = columns, !.parents = parents]
DropTable(table) == Statement("drop", table)
AddColumns(table, columns) == [Statement("add", table) EXCEPT !.columns = columns]
DropColumns(table, columns) == [Statement("remove", table) EXCEPT !.columns = columns]
Rename(table, old, new) ==
    [Statement("rename", table) EXCEPT !.columns = {old}, !.from = <<table, old>>,
                                       !.to = <<table, new>>]
CreateIndexes(table, labels) == [Statement("index", table) EXCEPT !.indexes = labels]
DropIndexes(table, labels) == [Statement("unindex", table) EXCEPT !.indexes = labels]
Refer(table, parent) == [Statement("refer", table) EXCEPT !.parents = {parent}]
Unrefer(table, parent) == [Statement("unrefer", table) EXCEPT !.parents = {parent}]

(* Data statements: insert a row; insert one where a row of kind `from`    *)
(* exists; turn rows of one kind into another; set a foreign key of every  *)
(* row to a key of `parent`; set a JSON column from a Python dict.         *)
Insert(row) == [Statement("insert", row[1]) EXCEPT !.to = row]
InsertFrom(from, row) == [Statement("insert_from", row[1]) EXCEPT !.from = from, !.to = row]
Rewrite(from, row) == [Statement("rewrite", row[1]) EXCEPT !.from = from, !.to = row]
PointAt(table, parent) == [Statement("point_at", table) EXCEPT !.parents = {parent}]
SetDict(table) == Statement("set_dict", table)

(* A statement under a guard on the inspected database.                    *)
IfPresent(statement) == [statement EXCEPT !.guarded = TRUE]

----------------------------------------------------------------------------
(* What the guard of IfPresent inspects.                                   *)
Present(tables, s) ==
    /\ s.table \in DOMAIN tables
    /\ s.do # "index" => s.indexes \subseteq tables[s.table].indexes
    /\ s.columns \subseteq tables[s.table].columns
    /\ s.do = "rename" => s.to[2] \notin tables[s.table].columns

(* PostgreSQL executes the statement: otherwise it raises an error.  What  *)
(* the statement asks of the tables,                                       *)
Fits(tables, s) ==
    IF s.do = "create"
    THEN s.table \notin DOMAIN tables /\ s.parents \subseteq DOMAIN tables
    ELSE /\ s.table \in DOMAIN tables
         /\ s.parents \subseteq DOMAIN tables
         /\ LET t == tables[s.table]
            IN CASE s.do = "drop" ->
                      \A other \in DOMAIN tables \ {s.table} :
                          s.table \notin tables[other].parents
                 [] s.do = "add" -> s.columns \cap t.columns = {}
                 [] s.do = "rename" -> s.columns \subseteq t.columns /\ s.to[2] \notin t.columns
                 [] s.do = "remove" -> s.columns \subseteq t.columns
                 [] s.do = "index" -> s.indexes \cap t.indexes = {}
                 [] s.do = "unindex" -> s.indexes \subseteq t.indexes
                 [] s.do = "unrefer" -> s.parents \subseteq t.parents
                 [] OTHER -> TRUE

(* and of the rows: a foreign key is checked by the statement itself (none *)
(* is deferrable), and psycopg cannot bind a dict to a text() parameter.   *)
Allowed(rows, s) ==
    /\ s.do = "point_at" => (HasRows(rows, s.table) => \A p \in s.parents : HasRows(rows, p))
    /\ s.do = "set_dict" => ~HasRows(rows, s.table)

Can(db, s) == Fits(db.tables, s) /\ Allowed(db.rows, s)

Altered(t, s) ==
    CASE s.do = "add" -> [t EXCEPT !.columns = @ \cup s.columns]
      [] s.do = "remove" -> [t EXCEPT !.columns = @ \ s.columns]
      [] s.do = "rename" -> [t EXCEPT !.columns = (@ \ s.columns) \cup {s.to[2]}]
      [] s.do = "index" -> [t EXCEPT !.indexes = @ \cup s.indexes]
      [] s.do = "unindex" -> [t EXCEPT !.indexes = @ \ s.indexes]
      [] s.do = "refer" -> [t EXCEPT !.parents = @ \cup s.parents]
      [] s.do = "unrefer" -> [t EXCEPT !.parents = @ \ s.parents]
      [] OTHER -> t

TablesAfter(tables, s) ==
    CASE s.do = "create" ->
           [t \in DOMAIN tables \cup {s.table} |->
               IF t = s.table
               THEN [columns |-> s.columns, indexes |-> {}, parents |-> s.parents]
               ELSE tables[t]]
      [] s.do = "drop" -> [t \in DOMAIN tables \ {s.table} |-> tables[t]]
      [] OTHER -> [tables EXCEPT ![s.table] = Altered(@, s)]

RowsAfter(rows, s) ==
    CASE s.do = "drop" -> {row \in rows : row[1] # s.table}
      [] s.do = "insert" -> rows \cup {s.to}
      [] s.do = "insert_from" -> IF s.from \in rows THEN rows \cup {s.to} ELSE rows
      [] s.do = "rewrite" -> IF s.from \in rows THEN (rows \ {s.from}) \cup {s.to} ELSE rows
      [] OTHER -> rows

Do(db, s) == [tables |-> TablesAfter(db.tables, s), rows |-> RowsAfter(db.rows, s)]

(* A sequence of statements: the first one that cannot run raises, and     *)
(* nothing after it is executed.                                           *)
Executed(state, s) ==
    IF ~state.ok \/ (s.guarded /\ ~Present(state.db.tables, s)) THEN state
    ELSE IF Can(state.db, s) THEN [ok |-> TRUE, db |-> Do(state.db, s)]
    ELSE [state EXCEPT !.ok = FALSE]

Execute(db, statements) ==
    LET after[n \in 0 .. Len(statements)] ==
            IF n = 0 THEN [ok |-> TRUE, db |-> db]
            ELSE Executed(after[n - 1], statements[n])
    IN after[Len(statements)]
=============================================================================
