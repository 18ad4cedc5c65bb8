# Verification of the Domain-Adaptable AI Workflow Demo Platform

TLA+ models, TLC runs and TLAPS proofs for the part of the platform where order,
failure and concurrency decide what happens: the API process, the worker process
and the PostgreSQL tables and files they share. All paths below without a prefix
are under `src/apps/api/src/api/`.

    tlc -workers 2 -config JobQueueSafety.cfg JobQueueRefinement.tla
    tlapm JobQueueProofs.tla

## 1. Inventory

The platform is one FastAPI application and one worker process on the same
database (`compose.yml`). The API's endpoints are plain functions that run in a
thread pool, each with a session of its own, so requests interleave at every
statement. The worker runs an asyncio loop that executes one job at a time in a
thread. The two processes never talk to each other: they meet in the tables.
PostgreSQL runs at its default isolation level, READ COMMITTED.

| Component | State | Operations | What is hard | What makes it correct |
|---|---|---|---|---|
| Job queue (`services/background_runner.py`, `services/jobs.py`, `worker.py`, `routers/jobs.py`) | `jobs` rows: status, attempts, cancel_requested_at, started_at, finished_at; the worker's current job, its deadline | enqueue, claim (FOR UPDATE SKIP LOCKED), checkpoint, record outcome, requeue or fail, cancel, sweep at worker start, sweep at API start, stop on a signal | cancel requests and finalisers read a row, decide, and write columns later without a lock; kills; failed transactions; two sweeps of the same rows | attempts bounded; running rows have an owner; columns agree; terminal is final; every job ends |
| Job numbering (`services/jobs.py` create_job) | primary keys of `jobs` | scan for the largest suffix, insert, retry on a collision | concurrent scans see the same maximum; bounded retries | numbers follow commits; giving up takes a crowd |
| Evaluation runs (`services/evaluation/runner.py`, `routers/evaluation.py`) | `evaluation_runs`, `evaluation_results` | create run, then its job; begin, answer each question, commit report, fail | run and job end in different transactions; every retrieval commits the runner's session | no partial results; a succeeded job has its report; no run stays running |
| Document store and seeds (`services/rag/collections.py`) | `rag_collections`, `rag_documents`, files under `data/rag_collections` | upload, edit, delete, delete collection; rename; seed the default collections at start | rows and files have no common transaction; requests race; kills between a file and its row, at the start too | a row has a file; deleted stays deleted; files match rows; a restart undoes nothing |
| Graph index (`services/rag/graph_index.py`) | `rag_chunks`, `rag_entities`, `rag_relationships`, link tables, `rag_communities` | clear (commits), chunk, extract, merge, communities, commit | the clear is not part of the rebuild's transaction; documents change under it; foreign keys of other features | the graph is one whole, current build |
| Graph retrieval (`services/rag/graph_retrieval.py`) | `rag_query_traces` | naive, local and global search, each ends with a trace | five SELECTs, each of a different snapshot | the answer is consistent |
| Evaluation sets (`services/evaluation/qa_generator.py`, `service.py`) | `evaluation_sets`, `evaluation_questions` | generate, review, export | questions refer to chunks a reindex removes | questions keep their source |
| Chat shim (`routers/openai_compat.py`) | none beyond the request | list models, complete, stream | a runtime that fails in the middle of a stream, a client that leaves | the answer is the runtime's; a failure shows; terminal chunks are the runtime's, `[DONE]` last |
| Runtime adapters (`services/runtime`, `llm.py`, `services/rag/embedding_client.py`) | the open HTTP response | HTTP calls with timeouts | failure, lateness | failures surface as exceptions; connections are closed |
| Database migrations (`apps/api/alembic`, `compose.yml`) | the schema, `alembic_version`, rows of earlier releases | 22 upgrades and downgrades; start of the stack | revisions meet data and schemas nobody tested; downgrades rebuild from memory; kills; start order | a schema is what its revision makes; what is served is `models.py`; rows survive |
| Previews, lexical retrieval | none | text preview, ranking | - | - |
| Configuration, wiring, static pages, scripts | settings | start-up only | - | - |

Who calls whom: `routers/evaluation.py` creates a run and then a job; the
worker's dispatcher calls the runner of the job's type; the evaluation runner
calls `query_collection` for each question on its own session, which commits it;
the indexing runner reads `rag_documents` and rewrites the graph tables; the
collection endpoints delete rows that the graph, the traces and the evaluation
sets refer to with foreign keys without ON DELETE.

## 2. Plan and state of the project

| Step | Modules | State |
|---|---|---|
| 1 | JobQueue, BoundedExecution, JobQueueRefinement | done |
| 2 | JobQueueProofs, JobQueueRefinementProofs: types, attempts, ownership, columns, settled rows; the queue implements BoundedExecution | done |
| 3 | JobIds, JobIdsProofs | done |
| 4 | EvaluationRun (composes JobQueue with the runner), EvaluationRunProofs | done |
| 5 | DocumentStore, DocumentStoreProofs | done |
| 6 | GraphIndex, GraphIndexProofs | done |
| 7 | Pure algorithms: `chunk_text` (covering and overlap), deduplication of questions, merging of entities and relationships with degrees, clearing of link tables of two collections, the groundedness and coverage scores; functions against reference definitions over bounded inputs | open |
| 8 | CompletionStream, ChatStream, ChatStreamProofs: the completion endpoint and its runtime, refining what a client may rely on | done |
| 9 | DocumentStore: the seeding at the API's start, with kills and user changes between starts | done |
| 9a | Schema, Revisions, Models, Migrations: the chain of revisions, data and kills | done |
| 10 | MigrationsProofs: rows, schema at every revision, what is served, which commands fail | done |

The abstract specifications worth stating are BoundedExecution (one job at a
time, a bounded number of attempts, never again once done) and CompletionStream
(what a chat client may rely on, whichever response path answers). An evaluation run could
refine a "run once" specification, but the code does not keep it (section 4,
`evaluation_interrupted`).

## 3. Modules

### JobQueue

State: `rows` is the `jobs` table; `worker` is the worker process (`pc`, current
job, checkpoints left in the runner, deadline passed, outcome, stop requested);
`seen` and `apiSeen` are the copies that an open transaction of the worker or of
the API's start-up holds; `requests` are the cancel requests being served, each
with the copy it loaded; `restarts` and `dbErrors` count against bounds.

A transaction that reads and later writes is two actions, a load and a commit,
because nothing locks the row in between. `Update(before, after, stored)` is
what the ORM writes: the columns that differ between the copy as loaded and as
changed, over whatever is stored by then. The claim locks its row and is one
action.

| Code | Actions |
|---|---|
| `dispatcher_loop`, `_claim_next_queued_job` | Claim, ClaimLost, WorkerExit |
| runner and `JobControl.check` | Checkpoint, DeadlinePasses, RunnerReturns, RunnerRaises |
| `_dispatch_one` | LoadOutcomeRow, RecordOutcome, RecordLost |
| `reap_unsupported_queue_rows`, `reap_stale_running_jobs` at worker start | WorkerStart, ReapUnsupportedQueueRows, LoadStaleRunningJobs, ReapStaleRunningJobs |
| `main.lifespan` | ApiStart, ApiReap |
| `cancel_job` | CancelLoad, CancelCommit |
| `create_job` | Enqueue |
| signals, kills | WorkerStopRequested, WorkerCrash, ApiCrash |

**BoundedExecution** is the abstract queue; **JobQueueRefinement** maps the rows
to it: a job is executing while the worker has it, whatever its row says, and
done when its row is terminal and no copy in the worker says otherwise.

### JobIds

`ids` and, per request, where it is in `create_job`'s loop. A scan and an insert
are two actions; an insert of a number in use is the IntegrityError. Ids that are
not plain numbers (`OldSuffixes`) count in the scan and never collide.

### EvaluationRun

EXTENDS JobQueue and adds the runs, the requests between their two commits
(`creating`), the runner's stage, and the results it holds (`answered`: in its
list; `pending`: in its session, to be written by the next commit, whoever
commits). Each action of the runner is joined with the job-queue action it
happens in: BeginRun, AskQuestion and CommitReport happen between the claim and
the outcome, and RaiseInRun and RaiseUnrecorded are RunnerRaises, the second when
the database fails what the except clause could have recorded, too.
`create_evaluation_run` is CreateRun and then EnqueueRun, or EnqueueRunFails when
`create_job` raises: its insert failed, or all its tries collided.

### DocumentStore

One collection: `row`, `file`, `dir`, `collection` and per client a request with
a program counter over the database and file operations of its endpoint. An
upload holds the collection's row lock from its flush to its commit (`Locked`).
Opening a file truncates it, so a kill can leave a partial one. `alone` is a
history variable: no two requests have overlapped and none was cut short.
The collection of this module is not indexed; what an index adds is in GraphIndex.

The collection is a default one when `Seeds` is not empty: `api` is the process,
`toSeed` and `seeded` are where its start is in `ensure_default_rag_collections`.
Start looks for the collection (SeedMissing) and chooses the seeds whose source
files exist; SeedOpenFile and SeedWriteFile are `_seed_document`; SeedCommit is
the one commit at the end. A kill (Crash) takes the process back to `off`.

| Code | Actions |
|---|---|
| `add_collection_document` | AddLoad, AddMakeDir, AddFlush, AddOpenFile, AddWriteFile, AddCommit |
| `update_document_content` | UpdateLoad, UpdateMakeDir, UpdateCommit, UpdateOpenFile, UpdateWriteFile |
| `delete_document` | DeleteLoad, DeleteCommit, DeleteUnlink |
| `delete_collection` | DropLoad, DropCommit, DropRemoveTree |
| `main.lifespan`, `ensure_default_rag_collections`, `_seed_document` | Start, SeedOpenFile, SeedWriteFile, SeedCommit |
| kill | Crash |

### GraphIndex

One collection with its documents, the three tables of the graph (a row records
the attempt that made it: `build`), the questions that refer to chunks, the
indexing job (`index`: its pc and what it has gathered in its open transaction)
and the API's requests (`op`). A document is one chunk; a runtime's extraction is
any set of names and pairs; a search's ranking is any choice. Foreign keys are
guards of the deletions and of the commits; a flushed and uncommitted row that
refers to another blocks its deletion (`LockedDoc`, `LockedCollection`).
`stale` is a history variable: the documents changed since the attempt read them.
`IndexFails` is every way an attempt ends early: an aborting checkpoint, an
exception (also that of a broken foreign key), a kill.

### Schema, Revisions, Models, Migrations

`Schema` gives the statements revisions are made of (alembic operations and the
few data statements) and their effect on a database of tables, each its columns,
index labels and referenced tables, and of rows, each a table and a kind.
`Can` says when PostgreSQL executes one: what it asks of the tables (`Fits`: a
referenced table cannot be dropped) and of the rows (`Allowed`: a foreign key is
checked by the statement itself, `psycopg` cannot bind a Python dict in
`text()`); `TablesAfter` and `RowsAfter` are its effect, and `Execute` runs a
sequence until a statement raises. `Revisions` transcribes `upgrade()` and `downgrade()` of
the 22 files, the statements in the order of the code, several columns of one
table in one statement; `IfPresent` is a statement under an inspection of the
database (0013, 0014, 0016). `Models` is `models.py` in the same form.
`Migrations` runs them: `db` is what is committed, `tx` the transaction of the
running command (`alembic/env.py` opens one for all revisions), `api` and
`worker` the containers of `compose.yml`. `SchemaAt(n)` is the schema that
upgrading an empty database to revision n makes, `Needs` the foreign keys between
the kinds of rows that are tracked.

| Code | Actions |
|---|---|
| `compose.yml` api.command | ApiStarts |
| `alembic downgrade`, by hand with the stack down | DowngradeStarts |
| `env.py run_migrations_online` | RevisionRuns, RevisionFails, CommandCommits |
| `compose.yml` worker.depends_on | WorkerStarts |
| requests that create rows | Writes |
| kills | ApiKilled, DowngradeKilled, WorkerKilled |

### CompletionStream, ChatStream

`ChatStream` is one request: `phase` is where the endpoint is, `upstream` its
connection to the runtime, `lines` what the runtime has sent, `status` and `body`
the response. Accept refuses a request or chooses the path: a stream relayed from
the runtime (Connect, Relay, SendMetadata, SendDone), an answer that was buffered
and is streamed (Ask, SendRole, SendContent, SendFinal, SendDone), or one message
(Ask). A line of the runtime is a chunk with a delta (content, reasoning, both or
neither) and perhaps a finish_reason, or one the adapter skips, or one that ends
the stream, well or badly. The two fields of a delta stay apart: Relayed copies the
reasoning into an empty content and leaves it where it was, so a client may find
the text twice, and the error chunk of the endpoint carries a content of its own
(`ErrorText`). Since the generators are pulled by the server,
ClientLeaves may happen at any point, and DropGenerator is what then closes the
connection. `CompletionStream` is the promise to the client; ChatStream has its
variables under the same names, so the refinement mapping is the identity.

## 4. Runs

| Run | Bounds | Question | Outcome |
|---|---|---|---|
| job_queue | 2 jobs and a legacy row, 1 cancel request at a time, 2 attempts, 0-1 checkpoints, deadline on, 2 kills or stops, 1 failed transaction | TypeOK, AttemptsBounded, RunningIsOwned, ColumnsAgree, SettledIsFinal, ImplementsBoundedExecution | hold, 646k states |
| evaluation | 1 evaluation job and a legacy row, 3 attempts of up to 2 questions, 1 cancel request at a time, deadline on, 2 kills or stops, 1 failed transaction | EvalTypeOK, NoPartialResults, SucceededJobHasReport, ReportCountsResults, JobAndRunEndAlike, EveryJobSettles, EveryRunEnds | hold, 267k states |
| job_ids | 4 requests, 2 tries | GivingUpTakesACrowd, IdsFollowCommits | hold |
| documents | 1 seed and 1 upload, 2 contents, 3 clients, 2 kills | TypeOK, RowHasFile, DeletedCollectionIsEmpty, FilesMatchRows, DeletedStaysDeleted, RestartKeepsEdits | hold, 421k states up to symmetry |
| graph | 2 documents, 2 contents, 2 names, 1 client, 2 attempts, 1 evaluation set | TypeOK, GraphIsOneBuild, GraphIsCurrent, QuestionsKeepTheirSource, DeletedCollectionIsEmpty, UndisturbedAnswer, EvaluatedGraphIsFrozen | hold, 751k states up to symmetry |
| migrations | every revision as the start of the database and as the target of a downgrade, 9 kinds of rows, any number of commands and kills | TypeOK, SchemaFollowsRevision, ServedSchemaIsModels, UpgradeFailsOnOldCases, DowngradeFailsOnRetired, UpgradeKeepsRows | hold, 115k states |
| chat | 2 texts, up to 3 lines before the runtime's last one | TypeOK, AnswerIsTheRuntimes, OnlyErrorsAddTerminalChunks, FailureIsVisible, ImplementsCompletionStream, EveryRequestEnds | hold, 333k states |
| job_queue_terminal | as job_queue, smaller | "Already-terminal jobs cannot be cancelled (409)" | violated: a cancel that loaded the row before the job ended overwrites succeeded or failed |
| evaluation_interrupted | 1 job, 3 attempts, 3 kills | "Never leave the run stuck in 'running'" and "kill+restart of the worker is a safe way to interrupt-and-retry" | both violated: a kill between the run's commit and the job's runs the evaluation again on top of its own rows; the last attempt is killed, the sweep fails the job, the run stays running |
| graph_reindex | 1 document | "(re)indexing is idempotent" | violated: questions' foreign key makes every later clear fail |
| migrations_reversible | any database, downgrade to the base | "so the chain stays reversible", "so the rest of the downgrade chain finds the objects it expects" (20260607_0016) | violated: 20260415_0010's downgrade finds no PLC tables, which 20260523_0013 dropped and does not recreate |
| chat_terminal | 1 text, up to 2 lines | "must NOT emit a second non-null finish_reason (... exactly one terminal chunk per choice)" | violated: the runtime fails after its terminal chunk, and the error chunk is a second one |

`InterruptIsSafe` is the least the two statements about interrupted runs promise
together: no run breaks both. Its counterexample is therefore one behaviour in
which both are broken, in turn: result rows that the report does not count, then
a job that is over and a run that is `running`.

Why these bounds are enough. The worker executes one job at a time, so two
supported jobs show the competition for it (newer, older, one running while the
other is cancelled or requeued), and a third row adds the legacy type both
sweeps touch. With two attempts there is an attempt that is requeued and one
that is the last. Two kills are needed for a kill during the last attempt and for
a kill during the sweep that follows a kill. A checkpoint more or less repeats
what the first does, except in an evaluation, where the second question's commit
is what could write the first one's result: that run has two. One evaluation job
is enough there, since the worker holds one run at a time and nothing of a run
survives in it; that several jobs compete for the worker is the question of
job_queue, and that no queued job waits for ever behind another follows from the
bound on attempts. Three attempts are two that are requeued and the last. With
three clients
an upload, an edit and a deletion of the
same document, or two of them and the deletion of the collection, overlap; two
kills are one in a request or between requests and one in the seeding that
follows. A second upload only waits for the first one's lock (with two uploads
and one kill, 4.2 million states, the same properties hold). The migrations need
no bound but the kinds of rows: a revision treats all rows of a kind alike. Three
lines are enough for a terminal chunk with a chunk before and one after it, or a
failure after each. With
two attempts an index is replaced, cut short and rebuilt; one client holds one
search or one generation over it, and what two clients could do to each other
(row locks of two generations, two searches) only reads. The theorems of section
6 hold for every bound.

Every property has a mutant: a definition that changes one operator the way a
plausible bug would (a forgotten lock, a missing reset, a requeue that is off by
one, a table that is not cleared) and that TLC finds. They stand beside the
definition they change, marked `Mutant`.

What the passing runs say that a reader of the code may not expect:

- Every downgrade undoes its upgrade exactly, indexes and foreign keys included,
  with one exception: 0013 drops the PLC domain and its downgrade is empty. So a
  downgrade to a revision before 20260415_0010 fails on every database that has
  been at 0013, and on no other (DowngradeFailsOnRetired): the chain is not
  reversible, as 0016 says it is (`migrations_reversible`).
- A database that holds PLC testcases or test runs of a release before
  20260415_0009, or suites with cases of one before 20260412_0007, cannot be
  upgraded on PostgreSQL: 0009 points testcases at profiles it inserts
  afterwards, and binds a dict (UpgradeFailsOnOldCases). The repository's
  migration test upgrades an empty SQLite database.
- A complete chat response has the terminal chunks the runtime sent, and one more
  exactly when the runtime failed (OnlyErrorsAddTerminalChunks). "Exactly one
  terminal chunk per choice" (`routers/openai_compat.py`) is therefore kept only by
  a runtime that sends one and does not fail afterwards (`chat_terminal`), or
  sends none and fails; a stream that ends without one is passed on without.
- A relayed response has status 200 before the runtime is asked, so there even a
  refused connection shows only as a text in the answer; a buffered answer that
  fails is a 502, or a 500 for JSON that is no object (FailureIsVisible).
- An evaluation run whose job could not be created stays `queued` for ever, and so
  does one whose job is cancelled before its first attempt; no other run is left
  open as long as nothing is killed or lost (JobAndRunEndAlike).
- The docstring of `ensure_default_rag_collections` says that a deleted seed is
  not restored by a restart. That holds for documents (RestartKeepsEdits); a
  deleted collection comes back with its documents at the next start, as the
  comment inside the function says.
- The deadline of a job is tested before its cancel flag (`services/jobs.py`
  JobControl.check), so a running job that was asked to stop and is past its
  deadline is timed out, and retried, although the docstring of `cancel_job` says
  it is stopped at the next checkpoint and marked cancelled; a later attempt then
  meets the flag, or the last one fails (EveryJobSettles).
- A search that overlaps the commit of an indexing job may list relationships
  whose endpoints it does not list; UndisturbedAnswer excludes that for all others.

CHECK_DEADLOCK is off in all configurations but Migrations.cfg: the counters of kills, failures and
attempts are bounded, jobs and requests are finitely many, and a system in which
everything is done stops. The liveness properties show that it does not stop earlier.

## 5. Fairness

Only the worker is fair (WorkerFairness, EvalFairSpec). Weak fairness of each of
its steps stands for: the loop polls for ever, the event loop and the thread are
scheduled, and a runner's calls return since HTTP clients have timeouts. WF of
WorkerStart says that a stopped worker is started again: `compose.yml` has no
restart policy, so it is the operator who does that, and without it nothing
that is queued would end. Nothing is assumed of the API, of clients or of
cancels. A failed transaction of the loop orphans its job until the next start,
which is why EveryJobSettles and EveryRunEnds speak of behaviours without one
(`dbErrors` = 0): nobody has a reason to stop a worker that runs.

In ChatStream the endpoint as a whole is weakly fair (WF of Serve): the server
pulls the next chunk when the last was sent, and each read from the runtime ends
within the timeout of the HTTP client. The runtime may send any line, but not
lines without end: `MaxLines` bounds them, as the model's token budget does.
Nothing makes a client leave or stay. Documents and migrations have no liveness
property: a kill may always be the last thing that happens.

EveryRunEnds is stated for behaviours without kills, cancels and lost
transactions; with a kill it is false (`evaluation_interrupted`), and a queued run whose
job is cancelled stays queued, about which the repository makes no promise.

## 6. Proofs

Each proof module EXTENDS its component and TLAPS. Assumptions are those the
components declare: jobs are positive numbers, bounds are naturals, MaxAttempts
is positive, model values are no words of the vocabulary, and the targets of
downgrades are naturals; nothing is assumed of the rows of a database.

| Theorem | Property |
|---|---|
| JobQueueProofs!TypeCorrect | TypeOK |
| JobQueueProofs!AttemptsAreBounded | AttemptsBounded |
| JobQueueProofs!RunningRowsAreOwned | RunningIsOwned |
| JobQueueProofs!ColumnsAlwaysAgree | ColumnsAgree |
| JobQueueProofs!SettledRowsAreFinal | SettledIsFinal |
| JobQueueRefinementProofs!QueueIsBounded | ImplementsBoundedExecution |
| EvaluationRunProofs!RunsKeepTheQueue | EvalSpec => Spec of JobQueue |
| EvaluationRunProofs!EvalTypeCorrect | EvalTypeOK |
| EvaluationRunProofs!NeverPartialResults | NoPartialResults |
| EvaluationRunProofs!SucceededJobsHaveReports | SucceededJobHasReport |
| EvaluationRunProofs!ReportsCountResults | ReportCountsResults |
| EvaluationRunProofs!JobsAndRunsEndAlike | JobAndRunEndAlike |
| JobIdsProofs!GivingUpNeedsACrowd | GivingUpTakesACrowd |
| JobIdsProofs!IdsAlwaysFollowCommits | IdsFollowCommits |
| GraphIndexProofs!GraphTypeCorrect | TypeOK |
| GraphIndexProofs!GraphAlwaysOneBuild | GraphIsOneBuild |
| GraphIndexProofs!GraphAlwaysCurrent | GraphIsCurrent |
| GraphIndexProofs!QuestionsAlwaysKeepTheirSource | QuestionsKeepTheirSource |
| GraphIndexProofs!EvaluatedGraphsAreFrozen | EvaluatedGraphIsFrozen |
| GraphIndexProofs!DeletedAlwaysEmpty | DeletedCollectionIsEmpty |
| GraphIndexProofs!UndisturbedAnswersResolve | UndisturbedAnswer |
| DocumentStoreProofs!DocTypeCorrect | TypeOK |
| DocumentStoreProofs!RowAlwaysHasFile | RowHasFile |
| DocumentStoreProofs!DeletedCollectionAlwaysEmpty | DeletedCollectionIsEmpty |
| DocumentStoreProofs!FilesAlwaysMatchRows | FilesMatchRows |
| DocumentStoreProofs!DeletedAlwaysStaysDeleted | DeletedStaysDeleted |
| DocumentStoreProofs!RestartAlwaysKeepsEdits | RestartKeepsEdits |
| ChatStreamProofs!StreamTypeCorrect | TypeOK |
| ChatStreamProofs!FailuresAreVisible | FailureIsVisible |
| ChatStreamProofs!TerminalChunksCounted | OnlyErrorsAddTerminalChunks |
| ChatStreamProofs!AnswersAreTheRuntimes | AnswerIsTheRuntimes |
| ChatStreamProofs!StreamsKeepThePromise | ImplementsCompletionStream |
| MigrationsProofs!TypeCorrect | TypeOK |
| MigrationsProofs!SchemaFollows | SchemaFollowsRevision |
| MigrationsProofs!ServedSchema | ServedSchemaIsModels |
| MigrationsProofs!RowsSurviveUpgrades | UpgradeKeepsRows |
| MigrationsProofs!DowngradeFails | DowngradeFailsOnRetired |
| MigrationsProofs!UpgradeFails | UpgradeFailsOnOldCases |

**Job queue.** AttemptsBounded is not inductive: a requeue decides on a copy, so
one must know how old the copy may be. The invariant `Inv` adds CopiesFresh (a
copy the worker holds has the attempts and the start of the stored row, or the
stored row has been ended by the API since), HeldIsClaimed (the row of the
current job was claimed) and RunningWasLoaded (what the stale sweep did not load
is not running). The API's transactions can only end a row (`OnlyEnds`), which
makes one lemma of the four of them. SettledIsFinal needs in addition that the
startup sweeps hold copies of active rows only (SweptIsActive): whoever writes a
row has its job or an active copy of it. The refinement maps each job to its
phase and its attempts; PhaseInv says that nobody writes a row that is not
there and that the dispatcher loads the row of its own job only. Every step is
one abstract step or a stutter; a step that drops copies may finish several jobs
at once.

**Evaluation runs.** Every step of the runner is a step of the queue or leaves
it alone, so EvalSpec implies JobQueue's Spec and the queue's invariant is there
for free. RunInv adds where the runner is when its run is what it is: a request
comes before its run, the run before its job (CreatingInv); between the commit of
the report and the commit of the outcome the run is succeeded and has its report
(StageInv), which gives SucceededJobHasReport across the two transactions; and a
run is reported once unless something was killed or lost (ReportedOnce).
JobAndRunEndAlike needs a second invariant, for behaviours without kills and lost
transactions (EndInv): a job that is not being executed has been attempted only if
its run has ended, since every way an attempt ends sets the run before the
dispatcher records the outcome; and a run without a job is queued, whether its
request is still to create the job or has failed to.

**Job numbers.** A request's collisions are other requests' successes; the
inductive invariant relates each request's collisions and number to the ids in
use.

**Graph index.** `GraphInv` adds to the properties: the tables are empty while
the graph is rebuilt (RebuildInv), chunks carry the current build only once it
has committed (BuildInv), every unchanged document is still to be chunked or is
chunked with its text (CoverInv, the part that makes GraphIsCurrent go through a
commit), flushed rows keep what they refer to (KeyInv), and what an undisturbed
search holds is in the tables (SearchInv).
EvaluatedGraphIsFrozen follows from RebuildInv and QuestionsKeepTheirSource: while
a graph is rebuilt there is no chunk a question could refer to, and once there is
one the next clear meets its question.

**Document store.** DocInv says what the steps of a request may rely on
although others ran in between (Holds), what two requests never share (Apart:
the new document of an upload is nobody else's), and that nobody is served while
the API is down or seeds (SeedInv). A lemma for each kind of step shows that the requests
that did not move still hold what they held. FilesMatchRows is about requests
one at a time: MatchInv names the document a request is at (Touched) and how far
row and file have got (Progress, and SeedProgress for the seeding); all other
documents match throughout.

**Chat.** StreamInv relates what was sent to the phase of the endpoint: its status
and response path (PathInv), the kinds of events it can be (BodyInv), and, until
the end, an error text exactly when the runtime failed, and as many terminal
chunks as lines of the runtime that carried one, plus the one of the error path
(CountInv). FailureIsVisible is about the phase `ended` and part of the invariant;
each path enters that phase by steps of its own: a refusal, a buffered failure, a
message, or `[DONE]` after the metadata. The refinement then rests on each step
sending at most one of the events CompletionStream allows next.
AnswerIsTheRuntimes compares the pieces that say something in what was sent and
in what the runtime sent, each with its content and its reasoning; both are
read as they are, and `Conveys` says which answer a client may find for a piece of the
runtime's, without the operator that makes it. Speech is a recursive function of the
length; that appending a piece appends it to the speech is proved by the same
least-position argument as for migrations (AnswerInv).

**Migrations.** The rows a database may hold and the targets of downgrades are
parameters; the chain is the one of the code, so the proof reads its 22 revisions.

- Statements. A sequence runs exactly when each statement fits the tables it
  meets (`Runs`, `Leads`) and the rows allow it; what it does to the tables does
  not depend on the rows. `Execute` is a recursive function, so a statement about
  all its values is proved over positions: the least position at which it fails
  has a predecessor at which it holds (UpTo).
- Rows. Every statement of an upgrade is `Forward` and every one of a downgrade
  `Backward`: which tables it may drop, where its foreign keys point, what data it
  moves. From this alone, `Tidy` (foreign keys are known ones, rows are in tables
  that exist and have what they need) is kept by every statement, and a row of a
  table that models.py still declares by every upgrade. With CommandOK (who may be
  where while which command runs) and RowsOK that gives RowsSurviveUpgrades.
- Schema. For each revision a lemma says which tables it makes and what they are,
  and that its downgrade leads back to the schema before. Most downgrades mirror
  their upgrade statement by statement, which is enough (Mirrors, Undoes); the
  others, 20260523_0014 and those from 0015 to 0019, are followed to the schema they
  reach. At the end of the chain is models.py (HeadIsModels). On a schema without the PLC domain
  the revisions 11 to 13 do what they do on the whole one, 20260523_0013 finds
  nothing to drop, and the downgrade of 20260415_0010 stops at its first statement.
  Hence SchemasOK: every schema, committed or inside a command, is the chain's or,
  between 10 and 13, the retired one. SchemaFollowsRevision is not inductive
  without it, since a downgrade passes through schemas nobody commits.
- Failures. A revision without `point_at` and `set_dict` runs whenever its tables
  allow it, so that an upgrade can only fail at 20260415_0009, and a downgrade
  only at 20260415_0010. UpOK carries back to the start of the command what makes
  the first fail (only 20260412_0007 adds a testcase, where there were stored
  cases), DownOK what makes the second fail.

TypeOK says more than it did before the proof: the invariant excludes that a
committed database keeps the target row that 20260412_0006 inserts, and so does
the run now.

Only model-checked: liveness under fairness, and ENABLED, which the prover does
not treat (EveryJobSettles, EveryRunEnds, EveryRequestEnds), and the claims of the
repository that TLC refutes. Every invariant and action property of a
passing run, and both refinements, are theorems.

## 7. What is not modelled, and why

- More than one worker, and `FT_BACKGROUND_DISPATCH=true` (the API dispatching
  in process): `compose.yml` runs one worker and an API without a dispatcher.
- SQLite: the deployment is PostgreSQL; the locks and foreign keys are its.
- error_json, result and payload texts, updated_at, logging, response bodies:
  no property is about them.
- Renames of collections and documents, review of questions, the re-sync of a
  default collection's description: updates of one column of one row.
- Previews, global and naive search, scores, chunk texts, communities and the
  link tables: functions of texts and numbers, planned as pure operators.
- What a deployment can do about a run whose job was never created
  (EnqueueRunFails, EvalApiCrash): there is no operation for it.
- The runtimes: an answer is any answer, a failure any exception. Of exceptions in
  the middle of a relayed stream only those the adapter converts are modelled
  (HTTP errors and bad JSON); another one would end the response without
  `[DONE]`, like a client that leaves.
- A document whose preview is empty has no chunk; in GraphIndex every document
  has one.
- Values of columns that no revision's statement depends on: the second UPDATE of
  20260523_0012 renames a trainer_backend, which changes no row that is tracked.
- Column types, nullability, defaults, unique constraints and the columns of an
  index in Schema; `alembic` on SQLite; branches (the chain has none); a command
  beside a running one, which compose does not start.
- Configuration, static pages, scripts and sample data: nothing happens over time.
  (`scripts/e2e_helpers.py` polls a job until it is succeeded or failed and does
  not know `cancelled`; it never cancels one.)
