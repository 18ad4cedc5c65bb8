---------------------------- MODULE Migrations ----------------------------
(***************************************************************************)
(* How a deployment reaches the schema its code expects.  compose.yml      *)
(* starts the API as `alembic upgrade head && uvicorn`, and the worker     *)
(* once the API is healthy; alembic/env.py runs all the revisions of a     *)
(* command in one transaction.  A database may come from any earlier       *)
(* release, an operator may downgrade it while the stack is down, and any  *)
(* process may be killed at any point.                                     *)
(***************************************************************************)
EXTENDS Naturals, Sequences, SequencesExt, Revisions, Models

CONSTANTS Targets,      \* the revisions an operator downgrades to
          KnownRows     \* the rows a database may hold, as <<table, kind>>

ASSUME TargetsAssumption == Targets \subseteq Nat

VARIABLES db,           \* committed: [version, tables, rows]
          tx,           \* the open transaction of a command, or NoTransaction
          api, worker,  \* the containers
          outcome       \* how the last command ended

vars == <<db, tx, api, worker, outcome>>

HeadRevision == Len(Chain)

NoTransaction == [way |-> "none"]

Number(id) == CHOOSE n \in 1 .. HeadRevision : Chain[n].id = id

(* Built[n + 1] is the database that upgrading an empty one to n makes.    *)
Built ==
    LET upTo[n \in 0 .. HeadRevision] ==
            IF n = 0 THEN <<EmptyDatabase>>
            ELSE LET built == upTo[n - 1]
                 IN Append(built, Execute(built[n], Chain[n].up).db)
    IN upTo[HeadRevision]

SchemaAt(n) == Built[n + 1].tables

(* Foreign keys between the rows that are tracked.                         *)
Needs == {<<"plc_testcases", "plc_test_suites">>, <<"plc_test_runs", "plc_test_suites">>,
          <<"plc_test_runs", "jobs">>, <<"plc_test_run_items", "plc_test_runs">>,
          <<"rag_documents", "rag_collections">>}

Consistent(tables, rows) ==
    /\ \A row \in rows : row[1] \in DOMAIN tables
    /\ \A need \in Needs : HasRows(rows, need[1]) => HasRows(rows, need[2])

(* A database an earlier release left at its own head, or a new one.       *)
Init ==
    /\ \E n \in 0 .. HeadRevision, rows \in SUBSET KnownRows :
          /\ Consistent(SchemaAt(n), rows)
          /\ db = [version |-> n, tables |-> SchemaAt(n), rows |-> rows]
    /\ tx = NoTransaction
    /\ api = "stopped"
    /\ worker = "off"
    /\ outcome = "none"

----------------------------------------------------------------------------
(* A command reads alembic_version and opens its transaction.              *)
Begin(way, target) ==
    tx' = [way |-> way, target |-> target, version |-> db.version,
           tables |-> db.tables, rows |-> db.rows]

(* The API container: `alembic upgrade head`, then uvicorn.                *)
ApiStarts ==
    /\ api \in {"stopped", "exited"}
    /\ tx = NoTransaction
    /\ Begin("up", HeadRevision)
    /\ api' = "migrating"
    /\ outcome' = "none"
    /\ UNCHANGED <<db, worker>>

(* `alembic downgrade <target>`, by hand, with the stack down.             *)
DowngradeStarts ==
    /\ api \in {"stopped", "exited"} /\ worker = "off"
    /\ tx = NoTransaction
    /\ \E target \in Targets : target < db.version /\ Begin("down", target)
    /\ outcome' = "none"
    /\ UNCHANGED <<db, api, worker>>

(* The next revision of the command, and the database after it.            *)
NextRevision == IF tx.way = "up" THEN tx.version + 1 ELSE tx.version

Applied ==
    LET revision == Chain[NextRevision]
    IN Execute(tx, IF tx.way = "up" THEN revision.up ELSE revision.down)

Pending == tx # NoTransaction /\ tx.version # tx.target

RevisionRuns ==
    /\ Pending
    /\ Applied.ok
    /\ tx' = [tx EXCEPT !.version = IF tx.way = "up" THEN @ + 1 ELSE @ - 1,
                        !.tables = Applied.db.tables, !.rows = Applied.db.rows]
    /\ UNCHANGED <<db, api, worker, outcome>>

(* A statement raises: the transaction is rolled back, the command exits   *)
(* with an error and, in the API container, uvicorn is not started.        *)
RevisionFails ==
    /\ Pending
    /\ ~Applied.ok
    /\ tx' = NoTransaction
    /\ api' = IF tx.way = "up" THEN "exited" ELSE api
    /\ outcome' = "failed"
    /\ UNCHANGED <<db, worker>>

\* Mutant: the tables change, their rows do not.
CommitSchemaOnly ==
    /\ tx # NoTransaction /\ tx.version = tx.target
    /\ db' = [db EXCEPT !.version = tx.version, !.tables = tx.tables]
    /\ tx' = NoTransaction
    /\ api' = IF tx.way = "up" THEN "serving" ELSE api
    /\ outcome' = "committed"
    /\ UNCHANGED worker

CommandCommits ==
    /\ tx # NoTransaction /\ tx.version = tx.target
    /\ db' = [version |-> tx.version, tables |-> tx.tables, rows |-> tx.rows]
    /\ tx' = NoTransaction
    /\ api' = IF tx.way = "up" THEN "serving" ELSE api
    /\ outcome' = "committed"
    /\ UNCHANGED worker

\* Mutant: depends_on api: condition: service_started.
WorkerStartsEarly ==
    /\ worker = "off"
    /\ api # "stopped"
    /\ worker' = "polling"
    /\ UNCHANGED <<db, tx, api, outcome>>

(* compose.yml: depends_on api: condition: service_healthy.                *)
WorkerStarts ==
    /\ worker = "off"
    /\ api = "serving"
    /\ worker' = "polling"
    /\ UNCHANGED <<db, tx, api, outcome>>

(* The API commits a row (no code writes datasets any more).               *)
Writes ==
    /\ api = "serving"
    /\ \E row \in KnownRows :
          /\ row[1] \in {"jobs", "rag_collections", "rag_documents"}
          /\ Consistent(db.tables, db.rows \cup {row})
          /\ db' = [db EXCEPT !.rows = @ \cup {row}]
    /\ UNCHANGED <<tx, api, worker, outcome>>

(* A container or a command is stopped or killed; PostgreSQL rolls its     *)
(* transaction back.                                                       *)
ApiKilled ==
    /\ api \in {"migrating", "serving"}
    /\ api' = "stopped"
    /\ tx' = NoTransaction
    /\ outcome' = IF api = "migrating" THEN "killed" ELSE outcome
    /\ UNCHANGED <<db, worker>>

DowngradeKilled ==
    /\ tx.way = "down"
    /\ tx' = NoTransaction
    /\ outcome' = "killed"
    /\ UNCHANGED <<db, api, worker>>

WorkerKilled ==
    /\ worker = "polling"
    /\ worker' = "off"
    /\ UNCHANGED <<db, tx, api, outcome>>

Next ==
    \/ ApiStarts \/ DowngradeStarts
    \/ RevisionRuns \/ RevisionFails \/ CommandCommits
    \/ WorkerStarts \/ Writes
    \/ ApiKilled \/ DowngradeKilled \/ WorkerKilled

Spec == Init /\ [][Next]_vars

----------------------------------------------------------------------------
(* In a command or between commands a row is in a table that exists, and   *)
(* its foreign keys hold; the rows an upgrade inserts for the domain it    *)
(* later drops never stay in a committed database.                         *)
TypeOK ==
    /\ db.version \in 0 .. HeadRevision
    /\ db.rows \subseteq KnownRows
    /\ Consistent(db.tables, db.rows)
    /\ tx # NoTransaction =>
          /\ tx.version \in 0 .. HeadRevision
          /\ Consistent(tx.tables, tx.rows)
    /\ api \in {"stopped", "migrating", "serving", "exited"}
    /\ worker \in {"off", "polling"}
    /\ outcome \in {"none", "committed", "failed", "killed"}

----------------------------------------------------------------------------
(* A schema without the tables and the column that revision 20260523_0013  *)
(* drops and its downgrade does not restore.                               *)
Retired(tables) ==
    [t \in DOMAIN tables \ Range(PLC_TABLES_IN_DROP_ORDER) |->
        IF t = "jobs"
        THEN [columns |-> tables[t].columns \ {"plc_suite_id"},
              indexes |-> tables[t].indexes \ {"plc_suite_status_created_at"},
              parents |-> tables[t].parents]
        ELSE tables[t]]

IsRetired(database) ==
    /\ database.version \in Number("20260417_0010") - 1 .. Number("20260523_0013") - 1
    /\ database.tables = Retired(SchemaAt(database.version))
    /\ database.tables # SchemaAt(database.version)

(* Whatever sequence of upgrades, downgrades and kills led there, the      *)
(* schema is the one that upgrading an empty database to the same revision *)
(* makes: every downgrade() undoes its upgrade() exactly, down to indexes  *)
(* and foreign keys (0016 recreates what four earlier revisions built), a  *)
(* killed command leaves nothing behind; the one exception is the PLC      *)
(* domain, which stays away below revision 20260523_0013.                  *)
SchemaFollowsRevision ==
    db.tables = SchemaAt(db.version) \/ IsRetired(db)

(* A serving API and a polling worker see exactly the schema models.py     *)
(* declares: migrations run before uvicorn, the worker waits for a healthy *)
(* API, and the revisions add up to the models.                            *)
ServedSchemaIsModels ==
    api = "serving" \/ worker = "polling" =>
        db.version = HeadRevision /\ db.tables = ModelTables

(* The rows revision 20260415_0009 cannot upgrade: it points testcases at  *)
(* execution profiles it inserts afterwards, and binds a dict to the runs. *)
(* The testcases may come from revision 20260412_0007.                     *)
HasOldCases(database) ==
    /\ database.version < Number("20260415_0009")
    /\ \/ \E t \in {"plc_testcases", "plc_test_runs"} : HasRows(database.rows, t)
       \/ /\ database.version < Number("20260412_0007")
          /\ <<"plc_test_suites", "cases">> \in database.rows

(* The API's upgrade fails on exactly those databases; on all others it    *)
(* commits, whatever a downgrade left (revisions 0013, 0014 and 0016       *)
(* inspect the database and drop only what is there).                      *)
UpgradeFailsOnOldCases ==
    [][api = "migrating" /\ api' \in {"serving", "exited"} =>
           (api' = "exited") = HasOldCases(db)]_vars

(* Revision 20260607_0016 recreates what it dropped "so the chain stays    *)
(* reversible" (its docstring), and "so the rest of the downgrade chain    *)
(* finds the objects it expects" (downgrade): a downgrade that starts at   *)
(* 20260607_0016 or later does not fail, whatever its target.              *)
ChainStaysReversible ==
    [][tx.way = "down" /\ db.version >= Number("20260607_0016") => outcome' # "failed"]_vars

(* What holds instead, the exact extent of that failure: a downgrade fails *)
(* when it goes below 20260415_0010 from a database that has been at       *)
(* 20260523_0013, whose own downgrade restores nothing, and only then:     *)
(* downgrade() of 20260415_0010 and earlier expect the PLC tables.         *)
DowngradeFailsOnRetired ==
    [][tx.way = "down" /\ outcome' \in {"committed", "failed"} /\ tx' = NoTransaction =>
           (outcome' = "failed") =
               (/\ tx.target < Number("20260415_0010")
                /\ db.version >= Number("20260523_0013") \/ IsRetired(db))]_vars

(* An upgrade keeps every row of the tables the models still have.         *)
UpgradeKeepsRows ==
    [][db'.version > db.version =>
           \A row \in db.rows : row[1] \in DOMAIN ModelTables => row \in db'.rows]_vars
=============================================================================
