------------------------------ MODULE JobQueue ------------------------------
(***************************************************************************)
(* The background job queue: the rows of the `jobs` table, the worker      *)
(* process that claims and executes them one at a time                     *)
(* (services/background_runner.py, worker.py), and the API process that    *)
(* enqueues and cancels them (routers/jobs.py, services/jobs.py).          *)
(*                                                                         *)
(* Every database transaction that reads a row and later writes it is two  *)
(* steps, a load that keeps a copy and a commit, because nothing locks the *)
(* row in between (only the claim does, with FOR UPDATE SKIP LOCKED, so    *)
(* the claim is one step).  A commit writes the columns the transaction    *)
(* changed and leaves the others as they are in the table, which is what   *)
(* the ORM's UPDATE does.                                                  *)
(***************************************************************************)
EXTENDS Naturals, FiniteSets

CONSTANTS
    Jobs,          \* the job rows, numbered by created_at
    Legacy,        \* those whose type no runner is registered for
    Clients,       \* concurrent POST /jobs/{id}/cancel requests
    MaxAttempts,   \* the max_attempts column (create_job's default is 3)
    MaxChecks,     \* bound: cooperative checkpoints in one run of a runner
    HasTimeout,    \* FT_JOB_TIMEOUT_SECONDS > 0
    MaxRestarts,   \* bound: times a process is killed or told to stop
    MaxDbErrors    \* bound: transactions the database fails

ASSUME JobsAssumption == Jobs \subseteq Nat \ {0} /\ Legacy \subseteq Jobs
ASSUME AttemptsAssumption == MaxAttempts \in Nat \ {0}
ASSUME BoundsAssumption ==
    /\ MaxChecks \in Nat /\ MaxRestarts \in Nat /\ MaxDbErrors \in Nat
    /\ HasTimeout \in BOOLEAN

VARIABLES
    rows,       \* the jobs table
    worker,     \* the worker process: where it is, and its current job
    seen,       \* the rows the worker's open transaction has loaded
    api,        \* the API process
    apiSeen,    \* the rows its startup transaction has loaded
    requests,   \* the cancel requests being served
    restarts, dbErrors

vars == <<rows, worker, seen, api, apiSeen, requests, restarts, dbErrors>>

-----------------------------------------------------------------------------
(* Rows *)

Terminal == {"succeeded", "failed", "cancelled"}
Active == {"queued", "running"}

Row == [status : Active \cup Terminal \cup {"absent"},
        attempts : Nat,
        cancelRequested : BOOLEAN,   \* cancel_requested_at is not null
        started : BOOLEAN,           \* started_at is not null
        finished : BOOLEAN]          \* finished_at is not null

NoRow == [status |-> "absent", attempts |-> 0, cancelRequested |-> FALSE,
          started |-> FALSE, finished |-> FALSE]

NewRow == [NoRow EXCEPT !.status = "queued"]

Supported == Jobs \ Legacy

Present(row) == row.status # "absent"

Loaded(copy) == {j \in Jobs : Present(copy[j])}
NothingLoaded == [j \in Jobs |-> NoRow]
Load(S) == [j \in Jobs |-> IF j \in S THEN rows[j] ELSE NoRow]

\* An UPDATE names the columns whose value differs from the loaded one; the
\* time a transaction ends a job at differs from every earlier one.
Column(before, after, stored) == IF after = before THEN stored ELSE after

Update(before, after, stored) ==
    [status          |-> Column(before.status, after.status, stored.status),
     attempts        |-> stored.attempts,
     cancelRequested |-> Column(before.cancelRequested, after.cancelRequested,
                                stored.cancelRequested),
     started         |-> Column(before.started, after.started, stored.started),
     finished        |-> (after.finished /\ after.status # before.status)
                         \/ Column(before.finished, after.finished, stored.finished)]

\* What the transactions make of the row they loaded.
\* Mutant: one attempt too many.
RequeueOffByOne(row) ==
    IF row.attempts <= MaxAttempts
    THEN [row EXCEPT !.status = "queued", !.started = FALSE, !.finished = FALSE]
    ELSE [row EXCEPT !.status = "failed", !.finished = TRUE]

\* Mutant: started_at survives the requeue.
RequeueKeepsStart(row) ==
    IF row.attempts < MaxAttempts
    THEN [row EXCEPT !.status = "queued", !.finished = FALSE]
    ELSE [row EXCEPT !.status = "failed", !.finished = TRUE]

RequeueOrFail(row) ==
    IF row.attempts < MaxAttempts
    THEN [row EXCEPT !.status = "queued", !.started = FALSE, !.finished = FALSE]
    ELSE [row EXCEPT !.status = "failed", !.finished = TRUE]

Cancelled(row) == [row EXCEPT !.status = "cancelled", !.finished = TRUE]

\* Mutant: a status that is none of the vocabulary.
UnsupportedStatus(row) == [row EXCEPT !.status = "unsupported", !.finished = TRUE]

Unsupported(row) == [row EXCEPT !.status = "failed", !.finished = TRUE]

Stale(row) == IF row.cancelRequested THEN Cancelled(row) ELSE RequeueOrFail(row)

CancelRequest(row) ==
    LET asked == [row EXCEPT !.cancelRequested = TRUE]
    IN  IF row.status = "queued" THEN Cancelled(asked) ELSE asked

Outcomes == {"returned", "raised", "timeout", "cancelled"}

\* Mutant: a timeout is logged and not recorded.
RecordedButTimeout(row, outcome) ==
    CASE outcome = "returned" -> IF row.status = "running"
                                 THEN [row EXCEPT !.status = "succeeded", !.finished = TRUE]
                                 ELSE row
      [] outcome = "cancelled" -> Cancelled(row)
      [] outcome = "raised" -> RequeueOrFail(row)
      [] outcome = "timeout" -> row

Recorded(row, outcome) ==
    CASE outcome = "returned" -> IF row.status = "running"
                                 THEN [row EXCEPT !.status = "succeeded", !.finished = TRUE]
                                 ELSE row
      [] outcome = "cancelled" -> Cancelled(row)
      [] outcome \in {"raised", "timeout"} -> RequeueOrFail(row)

-----------------------------------------------------------------------------
(* Processes *)

NoJob == 0

WorkerDown == [pc |-> "down", job |-> NoJob, left |-> 0, expired |-> FALSE,
               outcome |-> "none", stopping |-> FALSE]

NoRequest == [pc |-> "free", job |-> NoJob, seen |-> NoRow]

\* Rows of removed job types are still in the table from an earlier release.
OldRows == {NewRow, [NewRow EXCEPT !.status = "running", !.attempts = 1,
                                   !.started = TRUE]}

Init ==
    /\ rows \in [Jobs -> OldRows \cup {NoRow}]
    /\ \A j \in Jobs : Present(rows[j]) <=> j \in Legacy
    /\ worker = WorkerDown
    /\ seen = NothingLoaded
    /\ api = "down"
    /\ apiSeen = NothingLoaded
    /\ requests = [c \in Clients |-> NoRequest]
    /\ restarts = 0
    /\ dbErrors = 0

\* Mutants: a sweep of the rows that have been started, running or not; one that
\* leaves rows with a recorded cancel to the worker.
SupportedStarted == {j \in Supported : rows[j].started}
RunningNotAsked ==
    {j \in Supported : rows[j].status = "running" /\ ~rows[j].cancelRequested}

\* The rows the startup sweeps select.
LegacyActive == {j \in Legacy : rows[j].status \in Active}
SupportedRunning == {j \in Supported : rows[j].status = "running"}

-----------------------------------------------------------------------------
(* The API process *)

apiVars == <<api, apiSeen, requests>>
workerVars == <<worker, seen>>
bounds == <<restarts, dbErrors>>

\* The lifespan hook fails the rows of unsupported types before requests are
\* served.  It leaves `running` rows alone: the worker container owns them.
ApiStart ==
    /\ api = "down"
    /\ api' = "reaping"
    /\ apiSeen' = Load(LegacyActive)
    /\ UNCHANGED <<rows, workerVars, requests, bounds>>

ApiReap ==
    /\ api = "reaping"
    /\ api' = "up"
    /\ rows' = [j \in Jobs |-> IF j \in Loaded(apiSeen)
                               THEN Update(apiSeen[j], Unsupported(apiSeen[j]), rows[j])
                               ELSE rows[j]]
    /\ apiSeen' = NothingLoaded
    /\ UNCHANGED <<workerVars, requests, bounds>>

ApiCrash ==
    /\ api # "down"
    /\ restarts < MaxRestarts
    /\ restarts' = restarts + 1
    /\ api' = "down"
    /\ apiSeen' = NothingLoaded
    /\ requests' = [c \in Clients |-> NoRequest]
    /\ UNCHANGED <<rows, workerVars, dbErrors>>

\* created_at is when the enqueuing transaction starts, so commits may be out of
\* its order.
Enqueue(j) ==
    /\ api = "up"
    /\ j \in Supported
    /\ ~Present(rows[j])
    /\ rows' = [rows EXCEPT ![j] = NewRow]
    /\ UNCHANGED <<workerVars, apiVars, bounds>>

\* A missing job is answered 404 and a terminal one 409: nothing is written.
CancelLoad(c, j) ==
    /\ api = "up"
    /\ requests[c].pc = "free"
    /\ rows[j].status \in Active
    /\ requests' = [requests EXCEPT ![c] = [pc |-> "loaded", job |-> j, seen |-> rows[j]]]
    /\ UNCHANGED <<rows, workerVars, api, apiSeen, bounds>>

CancelCommit(c) ==
    LET r == requests[c]
    IN  /\ r.pc = "loaded"
        /\ rows' = [rows EXCEPT ![r.job] = Update(r.seen, CancelRequest(r.seen), @)]
        /\ requests' = [requests EXCEPT ![c] = NoRequest]
        /\ UNCHANGED <<workerVars, api, apiSeen, bounds>>

-----------------------------------------------------------------------------
(* The worker process *)

WorkerStart ==
    /\ worker.pc = "down"
    /\ worker' = [worker EXCEPT !.pc = "reapingLegacy"]
    /\ seen' = Load(LegacyActive)
    /\ UNCHANGED <<rows, apiVars, bounds>>

ReapUnsupportedQueueRows ==
    /\ worker.pc = "reapingLegacy"
    /\ rows' = [j \in Jobs |-> IF j \in Loaded(seen)
                               THEN Update(seen[j], Unsupported(seen[j]), rows[j])
                               ELSE rows[j]]
    /\ worker' = [worker EXCEPT !.pc = "reapedLegacy"]
    /\ seen' = NothingLoaded
    /\ UNCHANGED <<apiVars, bounds>>

LoadStaleRunningJobs ==
    /\ worker.pc = "reapedLegacy"
    /\ worker' = [worker EXCEPT !.pc = "reapingStale"]
    /\ seen' = Load(SupportedRunning)
    /\ UNCHANGED <<rows, apiVars, bounds>>

ReapStaleRunningJobs ==
    /\ worker.pc = "reapingStale"
    /\ rows' = [j \in Jobs |-> IF j \in Loaded(seen)
                               THEN Update(seen[j], Stale(seen[j]), rows[j])
                               ELSE rows[j]]
    /\ worker' = [worker EXCEPT !.pc = "idle"]
    /\ seen' = NothingLoaded
    /\ UNCHANGED <<apiVars, bounds>>

NextQueued(j) ==
    /\ j \in Supported
    /\ rows[j].status = "queued"
    /\ \A k \in Supported : rows[k].status = "queued" => j <= k

Claimed(row) == [row EXCEPT !.status = "running", !.attempts = @ + 1, !.started = TRUE]

\* n is how many checkpoints the runner will pass: one per chunk and community
\* of an indexing job, one per question of an evaluation.
Claim(j, n) ==
    /\ worker.pc = "idle" /\ ~worker.stopping
    /\ NextQueued(j)
    /\ rows' = [rows EXCEPT ![j] = Claimed(@)]
    /\ worker' = [worker EXCEPT !.pc = "running", !.job = j, !.left = n]
    /\ UNCHANGED <<seen, apiVars, bounds>>

\* The claim is committed but re-reading the row it expired fails; the loop
\* logs the tick and goes on.
ClaimLost(j) ==
    /\ worker.pc = "idle" /\ ~worker.stopping
    /\ dbErrors < MaxDbErrors
    /\ dbErrors' = dbErrors + 1
    /\ NextQueued(j)
    /\ rows' = [rows EXCEPT ![j] = Claimed(@)]
    /\ UNCHANGED <<workerVars, apiVars, restarts>>

DeadlinePasses ==
    /\ HasTimeout
    /\ worker.pc = "running" /\ ~worker.expired
    /\ worker' = [worker EXCEPT !.expired = TRUE]
    /\ UNCHANGED <<rows, seen, apiVars, bounds>>

Ended(outcome) == [worker EXCEPT !.pc = "ended", !.outcome = outcome]

\* JobControl.check: the deadline first, then the flag of the row.
Checkpoint ==
    /\ worker.pc = "running" /\ worker.left > 0
    /\ worker' = IF worker.expired THEN Ended("timeout")
                 ELSE IF rows[worker.job].cancelRequested THEN Ended("cancelled")
                 ELSE [worker EXCEPT !.left = @ - 1]
    /\ UNCHANGED <<rows, seen, apiVars, bounds>>

RunnerReturns ==
    /\ worker.pc = "running" /\ worker.left = 0
    /\ worker' = Ended("returned")
    /\ UNCHANGED <<rows, seen, apiVars, bounds>>

\* An error of the runner's own, or a transaction of its session that the
\* database fails.
RunnerRaises ==
    /\ worker.pc = "running"
    /\ worker' = Ended("raised")
    /\ \/ UNCHANGED dbErrors
       \/ dbErrors < MaxDbErrors /\ dbErrors' = dbErrors + 1
    /\ UNCHANGED <<rows, seen, apiVars, restarts>>

LoadOutcomeRow ==
    /\ worker.pc = "ended"
    /\ worker' = [worker EXCEPT !.pc = "recording"]
    /\ seen' = Load({worker.job})
    /\ UNCHANGED <<rows, apiVars, bounds>>

Idle == [WorkerDown EXCEPT !.pc = "idle", !.stopping = worker.stopping]

RecordOutcome ==
    LET row == seen[worker.job]
    IN  /\ worker.pc = "recording"
        /\ rows' = [rows EXCEPT ![worker.job] = Update(row, Recorded(row, worker.outcome), @)]
        /\ worker' = Idle
        /\ seen' = NothingLoaded
        /\ UNCHANGED <<apiVars, bounds>>

\* The transaction that records the outcome fails: the loop logs the tick and
\* goes on to the next job, and the row keeps what it had.
RecordLost ==
    /\ worker.pc \in {"ended", "recording"}
    /\ dbErrors < MaxDbErrors
    /\ dbErrors' = dbErrors + 1
    /\ worker' = Idle
    /\ seen' = NothingLoaded
    /\ UNCHANGED <<rows, apiVars, restarts>>

\* SIGTERM or SIGINT: the loop ends after the job it is on.
WorkerStopRequested ==
    /\ worker.pc # "down" /\ ~worker.stopping
    /\ restarts < MaxRestarts
    /\ restarts' = restarts + 1
    /\ worker' = [worker EXCEPT !.stopping = TRUE]
    /\ UNCHANGED <<rows, seen, apiVars, dbErrors>>

WorkerExit ==
    /\ worker.pc = "idle" /\ worker.stopping
    /\ worker' = WorkerDown
    /\ UNCHANGED <<rows, seen, apiVars, bounds>>

\* The process is killed; so is the runner's thread.
WorkerCrash ==
    /\ worker.pc # "down"
    /\ restarts < MaxRestarts
    /\ restarts' = restarts + 1
    /\ worker' = WorkerDown
    /\ seen' = NothingLoaded
    /\ UNCHANGED <<rows, apiVars, dbErrors>>

-----------------------------------------------------------------------------
(* The specification *)

ClaimSome == \E j \in Jobs, n \in 0..MaxChecks : Claim(j, n)

Next ==
    \/ ApiStart \/ ApiReap \/ ApiCrash
    \/ \E j \in Jobs : Enqueue(j)
    \/ \E c \in Clients, j \in Jobs : CancelLoad(c, j)
    \/ \E c \in Clients : CancelCommit(c)
    \/ WorkerStart \/ ReapUnsupportedQueueRows
    \/ LoadStaleRunningJobs \/ ReapStaleRunningJobs
    \/ ClaimSome
    \/ \E j \in Jobs : ClaimLost(j)
    \/ DeadlinePasses \/ Checkpoint \/ RunnerReturns \/ RunnerRaises
    \/ LoadOutcomeRow \/ RecordOutcome \/ RecordLost
    \/ WorkerStopRequested \/ WorkerExit \/ WorkerCrash

Spec == Init /\ [][Next]_vars

\* A running worker keeps taking its next step (the loop polls, and a runner's
\* model calls have timeouts), and a worker that is down is started again.
\* Nothing is assumed of the API or of its clients.
WorkerFairness ==
    /\ WF_vars(WorkerStart)
    /\ WF_vars(ReapUnsupportedQueueRows)
    /\ WF_vars(LoadStaleRunningJobs)
    /\ WF_vars(ReapStaleRunningJobs)
    /\ WF_vars(ClaimSome)
    /\ WF_vars(Checkpoint)
    /\ WF_vars(RunnerReturns)
    /\ WF_vars(LoadOutcomeRow)
    /\ WF_vars(RecordOutcome)
    /\ WF_vars(WorkerExit)

FairSpec == Spec /\ WorkerFairness

-----------------------------------------------------------------------------
(* Invariants *)

Table == [Jobs -> Row]
WorkerPcs == {"down", "reapingLegacy", "reapedLegacy", "reapingStale", "idle",
              "running", "ended", "recording"}
Busy == worker.pc \in {"running", "ended", "recording"}

\* Every column, process and open transaction keeps to the values the code
\* gives it; the worker has a job exactly while it executes one
\* (models.py JobRecord, background_runner.py dispatcher_loop).
TypeOK ==
    /\ rows \in Table /\ seen \in Table /\ apiSeen \in Table
    /\ worker \in [pc : WorkerPcs, job : Jobs \cup {NoJob}, left : Nat,
                   expired : BOOLEAN, outcome : Outcomes \cup {"none"},
                   stopping : BOOLEAN]
    /\ Busy <=> worker.job # NoJob
    /\ worker.pc \in {"ended", "recording"} => worker.outcome \in Outcomes
    /\ api \in {"down", "reaping", "up"}
    /\ requests \in [Clients -> [pc : {"free", "loaded"}, job : Jobs \cup {NoJob},
                                 seen : Row]]
    /\ \A c \in Clients : requests[c].pc = "loaded" => requests[c].job \in Jobs
    /\ restarts \in Nat /\ dbErrors \in Nat

\* No job is attempted more than max_attempts times, and a queued job has an
\* attempt left: whatever mix of failures, timeouts, kills, lost transactions
\* and cancels it went through, claiming it can never overrun the budget
\* (jobs.py requeue_or_fail, background_runner.py _claim_next_queued_job).
AttemptsBounded ==
    \A j \in Supported :
        /\ rows[j].attempts <= MaxAttempts
        /\ rows[j].status = "queued" => rows[j].attempts < MaxAttempts

\* Once the startup sweeps are over, a `running` row is the worker's current
\* job: nothing else would ever finish it before the next start of a worker.
\* The one way to lose track of a row is a failed transaction of the loop
\* (background_runner.py dispatcher_loop, reap_stale_running_jobs).
RunningIsOwned ==
    worker.pc \in {"idle", "running", "ended", "recording"} /\ dbErrors = 0 =>
        \A j \in Supported : rows[j].status = "running" => worker.job = j

\* The status and the timestamps of a row agree, although several transactions
\* write them column by column from copies that may be out of date: a terminal
\* row has finished_at, a queued one no started_at, a running one started_at
\* (background_runner.py, jobs.py requeue_or_fail, routers/jobs.py cancel_job).
ColumnsAgree ==
    \A j \in Jobs :
        /\ rows[j].status \in Terminal => rows[j].finished
        /\ rows[j].status = "queued" => ~rows[j].started
        /\ rows[j].status = "running" => rows[j].started

-----------------------------------------------------------------------------
(* Action and liveness properties *)

Holds(copy) == copy.status \in Active

InFlight(j) == \/ Busy /\ worker.job = j
               \/ Holds(seen[j]) \/ Holds(apiSeen[j])
               \/ \E c \in Clients : requests[c].job = j

\* A terminal row that no process is still working on keeps its status for
\* ever: no sweep, claim or cancel that starts from now on touches it
\* (the WHERE clauses of background_runner.py, the 409 of routers/jobs.py).
SettledIsFinal ==
    [][\A j \in Jobs :
          rows[j].status \in Terminal /\ ~InFlight(j) => rows'[j] = rows[j]]_vars

\* As long as no transaction fails, every row is terminal for good in the end,
\* however often the processes are restarted and jobs fail, time out and are
\* cancelled (README "Background jobs").  A failed transaction may leave a row
\* `running` that only the next start of a worker sweeps.
EveryJobSettles ==
    [](dbErrors = 0) =>
        \A j \in Jobs : [](Present(rows[j]) => <>[](rows[j].status \in Terminal))

-----------------------------------------------------------------------------
(* What the comments and the documentation say *)

\* "Already-terminal jobs cannot be cancelled (409)" (routers/jobs.py
\* cancel_job): a succeeded or failed row never becomes cancelled.
TerminalNotCancelled ==
    [][\A j \in Jobs : rows[j].status \in {"succeeded", "failed"} =>
          rows'[j].status # "cancelled"]_vars
=============================================================================
