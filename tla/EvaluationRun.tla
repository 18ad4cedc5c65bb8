--------------------------- MODULE EvaluationRun ---------------------------
(***************************************************************************)
(* Evaluation runs on the job queue: POST /evaluation-runs creates a run   *)
(* and, in a second transaction, its job (routers/evaluation.py); the      *)
(* worker's runner is run_evaluation (services/evaluation/runner.py).      *)
(* Every supported job of JobQueue is an evaluation job here, and run j    *)
(* belongs to job j.  The runner's transactions are steps between the      *)
(* claim of the job and the recording of its outcome.                      *)
(***************************************************************************)
EXTENDS JobQueue

VARIABLES
    runs,       \* the evaluation_runs table, with each run's result rows
    creating,   \* POST requests that have a run and not yet its job
    stage,      \* where run_evaluation is
    answered,   \* questions answered, results still in the runner's list
    pending     \* results the runner's session would write at its next commit

evalVars == <<runs, creating, stage, answered, pending>>

NoReport == [given |-> FALSE, questions |-> 0]

Run == [status : {"absent", "queued", "running", "succeeded", "failed"},
        results : Nat,                  \* rows of evaluation_results
        report : [given : BOOLEAN, questions : Nat]]

NoRun == [status |-> "absent", results |-> 0, report |-> NoReport]

EvalInit ==
    /\ Init
    /\ runs = [j \in Jobs |-> NoRun]
    /\ creating = {}
    /\ stage = "none"
    /\ answered = 0 /\ pending = 0

-----------------------------------------------------------------------------
(* The API *)

\* Mutant: a status that is none of the vocabulary.
CreateRunCreated(j) ==
    /\ api = "up"
    /\ j \in Supported /\ runs[j] = NoRun
    /\ runs' = [runs EXCEPT ![j].status = "created"]
    /\ creating' = creating \cup {j}
    /\ UNCHANGED <<vars, stage, answered, pending>>

CreateRun(j) ==
    /\ api = "up"
    /\ j \in Supported /\ runs[j] = NoRun
    /\ runs' = [runs EXCEPT ![j].status = "queued"]
    /\ creating' = creating \cup {j}
    /\ UNCHANGED <<vars, stage, answered, pending>>

EnqueueRun(j) ==
    /\ j \in creating
    /\ Enqueue(j)
    /\ creating' = creating \ {j}
    /\ UNCHANGED <<runs, stage, answered, pending>>

\* create_job raises, its insert failed or its eight tries all collided: the run
\* is committed and stays without a job.
EnqueueRunFails(j) ==
    /\ j \in creating
    /\ creating' = creating \ {j}
    /\ UNCHANGED <<vars, runs, stage, answered, pending>>

EvalApiCrash ==
    /\ ApiCrash
    /\ creating' = {}
    /\ UNCHANGED <<runs, stage, answered, pending>>

ApiStep ==
    /\ \/ ApiStart \/ ApiReap
       \/ \E c \in Clients, j \in Jobs : CancelLoad(c, j)
       \/ \E c \in Clients : CancelCommit(c)
    /\ UNCHANGED evalVars

-----------------------------------------------------------------------------
(* The runner *)

OwnRun == runs[worker.job]

\* A commit of the runner's session: the run as it was changed, and the results
\* that are pending in the session.
Commit(run) ==
    /\ runs' = [runs EXCEPT ![worker.job] = [run EXCEPT !.results = @ + pending]]
    /\ pending' = 0

ClaimRun ==
    /\ ClaimSome
    /\ stage' = "claimed"
    /\ UNCHANGED <<runs, creating, answered, pending>>

BeginRun ==
    /\ stage = "claimed"
    /\ Commit([OwnRun EXCEPT !.status = "running"])
    /\ stage' = "asking"
    /\ UNCHANGED <<vars, creating, answered>>

\* Mutant: each result is added to the session as soon as it is there.
AskAndAddQuestion ==
    /\ stage = "asking"
    /\ Checkpoint
    /\ IF worker'.pc = "ended"
       THEN stage' = "failing" /\ UNCHANGED <<runs, answered, pending>>
       ELSE /\ runs' = [runs EXCEPT ![worker.job].results = @ + pending]
            /\ pending' = 1
            /\ answered' = answered
            /\ UNCHANGED stage
    /\ UNCHANGED creating

\* One question: the checkpoint, then the retrieval, which commits a query
\* trace on the same session, then the answer.
AskQuestion ==
    /\ stage = "asking"
    /\ Checkpoint
    /\ IF worker'.pc = "ended"
       THEN stage' = "failing" /\ UNCHANGED <<runs, answered, pending>>
       ELSE /\ Commit(OwnRun)
            /\ answered' = answered + 1
            /\ UNCHANGED stage
    /\ UNCHANGED creating

Report == [given |-> TRUE, questions |-> answered]

\* Mutant: the commit is missing.
ReportWithoutCommit ==
    /\ stage = "asking" /\ worker.pc = "running" /\ worker.left = 0
    /\ stage' = "reported"
    /\ UNCHANGED <<vars, creating, answered, runs, pending>>

\* The results, the report and the status in one commit.
CommitReport ==
    /\ stage = "asking" /\ worker.pc = "running" /\ worker.left = 0
    /\ Commit([OwnRun EXCEPT !.status = "succeeded", !.report = Report,
                             !.results = @ + answered])
    /\ stage' = "reported"
    /\ UNCHANGED <<vars, creating, answered>>

ReturnRun ==
    /\ stage = "reported"
    /\ RunnerReturns
    /\ stage' = "none" /\ answered' = 0
    /\ UNCHANGED <<runs, creating, pending>>

\* An error while questions are asked goes to the except clause.
RaiseInRun ==
    /\ stage = "asking"
    /\ RunnerRaises
    /\ stage' = "failing"
    /\ UNCHANGED <<runs, creating, answered, pending>>

\* The database fails the first transaction, before the try block, or both the
\* work and the except clause: nothing is recorded in the run.
RaiseUnrecorded ==
    /\ stage \in {"claimed", "asking"}
    /\ RunnerRaises /\ dbErrors' # dbErrors
    /\ stage' = "none" /\ answered' = 0 /\ pending' = 0
    /\ UNCHANGED <<runs, creating>>

\* Mutants: no rollback before the run is failed; an except clause that an abort
\* passes by.
FailRunKeepingResults ==
    /\ stage = "failing"
    /\ runs' = [runs EXCEPT ![worker.job] =
                    [@ EXCEPT !.status = "failed", !.results = @ + answered]]
    /\ stage' = "none" /\ answered' = 0 /\ pending' = 0
    /\ UNCHANGED <<vars, creating>>
FailRunUnlessAborted ==
    /\ stage = "failing"
    /\ runs' = IF worker.outcome = "raised"
               THEN [runs EXCEPT ![worker.job].status = "failed"] ELSE runs
    /\ stage' = "none" /\ answered' = 0 /\ pending' = 0
    /\ UNCHANGED <<vars, creating>>

\* The except clause: roll the session back, fail the run, re-raise.
FailRun ==
    /\ stage = "failing"
    /\ runs' = [runs EXCEPT ![worker.job].status = "failed"]
    /\ stage' = "none" /\ answered' = 0 /\ pending' = 0
    /\ UNCHANGED <<vars, creating>>

-----------------------------------------------------------------------------
(* The rest of the worker *)

\* The outcome is recorded once the runner's thread is over.
DispatcherStep ==
    /\ \/ WorkerStart \/ ReapUnsupportedQueueRows
       \/ LoadStaleRunningJobs \/ ReapStaleRunningJobs
       \/ \E j \in Jobs : ClaimLost(j)
       \/ DeadlinePasses
       \/ (stage = "none" /\ LoadOutcomeRow)
       \/ RecordOutcome
       \/ (stage = "none" /\ RecordLost)
       \/ WorkerStopRequested \/ WorkerExit
    /\ UNCHANGED evalVars

EvalWorkerCrash ==
    /\ WorkerCrash
    /\ stage' = "none" /\ answered' = 0 /\ pending' = 0
    /\ UNCHANGED <<runs, creating>>

EvalNext ==
    \/ \E j \in Jobs : CreateRun(j) \/ EnqueueRun(j) \/ EnqueueRunFails(j)
    \/ EvalApiCrash \/ ApiStep
    \/ ClaimRun \/ BeginRun \/ AskQuestion \/ CommitReport \/ ReturnRun
    \/ RaiseInRun \/ RaiseUnrecorded \/ FailRun
    \/ DispatcherStep \/ EvalWorkerCrash

allVars == <<vars, evalVars>>

EvalSpec == EvalInit /\ [][EvalNext]_allVars

\* The worker's fairness of JobQueue, for the runner's transactions too.
EvalFairSpec ==
    /\ EvalSpec
    /\ WF_allVars(WorkerStart /\ UNCHANGED evalVars)
    /\ WF_allVars(ReapUnsupportedQueueRows /\ UNCHANGED evalVars)
    /\ WF_allVars(LoadStaleRunningJobs /\ UNCHANGED evalVars)
    /\ WF_allVars(ReapStaleRunningJobs /\ UNCHANGED evalVars)
    /\ WF_allVars(ClaimRun) /\ WF_allVars(BeginRun) /\ WF_allVars(AskQuestion)
    /\ WF_allVars(CommitReport) /\ WF_allVars(ReturnRun) /\ WF_allVars(FailRun)
    /\ WF_allVars(stage = "none" /\ LoadOutcomeRow /\ UNCHANGED evalVars)
    /\ WF_allVars(RecordOutcome /\ UNCHANGED evalVars)
    /\ WF_allVars(WorkerExit /\ UNCHANGED evalVars)

-----------------------------------------------------------------------------
(* Properties *)

\* The runner's transactions happen only while the worker executes the job
\* (services/evaluation/runner.py run_evaluation).
EvalTypeOK ==
    /\ TypeOK
    /\ runs \in [Jobs -> Run]
    /\ creating \subseteq {j \in Supported : runs[j].status = "queued"}
    /\ stage \in {"none", "claimed", "asking", "reported", "failing"}
    /\ stage \in {"claimed", "asking", "reported"} <=> worker.pc = "running"
    /\ stage = "failing" => worker.pc = "ended"
    /\ answered \in Nat /\ pending \in Nat

\* A run that has never produced a report has no result rows, although the
\* session commits once per question: an aborted, failed or killed attempt
\* leaves nothing behind (runner.py run_evaluation, graph_retrieval.py
\* query_collection).
NoPartialResults ==
    \A j \in Jobs : ~runs[j].report.given => runs[j].results = 0

\* A job that counts as succeeded has a run that succeeded, with its report:
\* the order of the runner's and the dispatcher's commits
\* (runner.py run_evaluation, background_runner.py _dispatch_one).
SucceededJobHasReport ==
    \A j \in Supported : rows[j].status = "succeeded" =>
        runs[j].status = "succeeded" /\ runs[j].report.given

Over(j) == rows[j].status \in Terminal /\ ~InFlight(j)

\* As long as no process is killed or stopped and no transaction of the worker
\* fails, a job and its run end alike, although different transactions end them:
\* a failed job has a failed run, and a run that is left open belongs to a job
\* that was cancelled before its first attempt, or is queued without a job, which
\* its request has still to create or could not create (runner.py run_evaluation,
\* background_runner.py _dispatch_one, routers/jobs.py cancel_job,
\* routers/evaluation.py create_evaluation_run).
JobAndRunEndAlike ==
    restarts = 0 /\ dbErrors = 0 => \A j \in Supported :
        /\ Over(j) /\ rows[j].status # "cancelled" => runs[j].status = rows[j].status
        /\ runs[j].status \in {"queued", "running"} =>
              \/ rows[j].status \in Active \/ InFlight(j)
              \/ rows[j].status = "cancelled" /\ rows[j].attempts = 0
              \/ runs[j].status = "queued" /\ ~Present(rows[j])

\* As long as no process is killed or stopped and no transaction fails, the
\* report counts exactly the result rows (runner.py run_evaluation).
ReportCountsResults ==
    restarts = 0 /\ dbErrors = 0 =>
        \A j \in Jobs : runs[j].report.given =>
            runs[j].results = runs[j].report.questions

\* When nothing is killed, nothing cancelled and no transaction fails, a run whose
\* job was enqueued ends as succeeded or failed for good (runner.py
\* run_evaluation: "Never leave the run stuck in 'running'").
EveryRunEnds ==
    [](restarts = 0 /\ dbErrors = 0 /\ \A j \in Jobs : ~rows[j].cancelRequested) =>
        \A j \in Supported :
            [](Present(rows[j]) => <>[](runs[j].status \in {"succeeded", "failed"}))

\* What the two statements promise of an interrupted run.  When nobody will touch
\* its job any more, the run is not left `running`; and when it has a report, its
\* result rows are those the report counts.
LeftRunning(j) == Over(j) /\ runs[j].status = "running"
LeftUnclean(j) == /\ Over(j) /\ runs[j].report.given
                  /\ runs[j].results # runs[j].report.questions

\* "Never leave the run stuck in 'running'; record the failure so the report
\* endpoint and any reaper can see a terminal state" (runner.py), and
\* "kill+restart of the worker is a safe way to interrupt-and-retry" (README,
\* Background jobs): no interrupted run breaks both.
InterruptIsSafe ==
    \A j \in Supported : ~(LeftRunning(j) /\ LeftUnclean(j))
=============================================================================
