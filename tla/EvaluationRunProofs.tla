------------------------ MODULE EvaluationRunProofs ------------------------
(***************************************************************************)
(* Proofs about EvaluationRun, for any number of jobs, questions, requests,*)
(* attempts, kills and failed transactions.  The runner only adds to the   *)
(* job queue: its steps are steps of JobQueue or leave the queue alone     *)
(* (QueueStep), so the invariant of JobQueueProofs holds here too, and     *)
(* RunInv says what the runs add to it.  EndInv, at the end, is about      *)
(* behaviours in which nothing is killed, stopped or lost.                 *)
(***************************************************************************)
EXTENDS EvaluationRun, JobQueueProofs

Given(j) == runs[j].report.given
Reported(j) == runs[j].status = "succeeded" /\ Given(j)

\* A run comes before its job, and a request before both.
CreatingInv ==
    /\ \A j \in creating : ~Present(rows[j])
    /\ \A j \in Supported : Present(rows[j]) => runs[j].status # "absent"
    /\ \A j \in Supported : ~Present(apiSeen[j])
    /\ \A c \in Clients :
          requests[c].pc = "loaded" => Present(rows[requests[c].job])

\* The runner has returned and its outcome is still to be recorded.
Returned == worker.pc \in {"ended", "recording"} /\ worker.outcome = "returned"

StageInv ==
    /\ stage = "reported" => Reported(worker.job)
    /\ Returned => Reported(worker.job) /\ stage = "none"
    /\ Busy => rows[worker.job].status # "succeeded"

\* Without kills and lost transactions a run is reported once: its job is being
\* ended, or has been.
Ending(j) == worker.job = j /\ (stage = "reported" \/ Returned)

Starting == worker.pc \in {"down", "reapingLegacy", "reapedLegacy", "reapingStale"}

ReportedOnce ==
    restarts = 0 /\ dbErrors = 0 =>
        /\ ~worker.stopping
        /\ Starting => \A j \in Jobs : ~Given(j)
        /\ \A j \in Jobs : Given(j) =>
              /\ j \in Supported
              /\ runs[j].results = runs[j].report.questions
              /\ Ending(j) \/ (worker.job # j /\ rows[j].status \in Terminal)

RunInv ==
    /\ EvalTypeOK /\ Inv
    /\ pending = 0
    /\ CreatingInv
    /\ StageInv
    /\ NoPartialResults /\ SucceededJobHasReport
    /\ ReportedOnce

-----------------------------------------------------------------------------
(* The steps of the job queue, but for the creation of a job. *)

QueueStep ==
    \/ ApiStart \/ ApiReap \/ ApiCrash
    \/ \E c \in Clients, j \in Jobs : CancelLoad(c, j)
    \/ \E c \in Clients : CancelCommit(c)
    \/ WorkerStart \/ ReapUnsupportedQueueRows
    \/ LoadStaleRunningJobs \/ ReapStaleRunningJobs
    \/ ClaimSome
    \/ \E j \in Jobs : ClaimLost(j)
    \/ DeadlinePasses \/ Checkpoint \/ RunnerReturns \/ RunnerRaises
    \/ LoadOutcomeRow \/ RecordOutcome \/ RecordLost
    \/ WorkerStopRequested \/ WorkerExit \/ WorkerCrash
    \/ UNCHANGED vars

LEMMA RunnerUsesQueue == EvalNext => QueueStep \/ \E j \in Jobs : EnqueueRun(j)
<1>. SUFFICES ASSUME EvalNext PROVE QueueStep \/ \E j \in Jobs : EnqueueRun(j)
  OBVIOUS
<1>1. ASSUME NEW j \in Jobs, CreateRun(j) \/ EnqueueRun(j) \/ EnqueueRunFails(j)
      PROVE  QueueStep \/ EnqueueRun(j)
  BY <1>1 DEF CreateRun, EnqueueRunFails, QueueStep
<1>2. CASE EvalApiCrash \/ ApiStep
  BY <1>2 DEF EvalApiCrash, ApiStep, QueueStep
<1>3. CASE ClaimRun \/ BeginRun \/ AskQuestion \/ CommitReport \/ ReturnRun
  BY <1>3 DEF ClaimRun, BeginRun, AskQuestion, CommitReport, ReturnRun, QueueStep
<1>4. CASE RaiseInRun \/ RaiseUnrecorded \/ FailRun
  BY <1>4 DEF RaiseInRun, RaiseUnrecorded, FailRun, QueueStep
<1>5. CASE DispatcherStep
  BY <1>5 DEF DispatcherStep, QueueStep
<1>6. CASE EvalWorkerCrash
  BY <1>6 DEF EvalWorkerCrash, QueueStep
<1>. QED BY <1>1, <1>2, <1>3, <1>4, <1>5, <1>6 DEF EvalNext

LEMMA QueueStepIsNext == QueueStep \/ (\E j \in Jobs : EnqueueRun(j)) => [Next]_vars
BY DEF QueueStep, Next, EnqueueRun

LEMMA EvalStepIsQueueStep == [EvalNext]_allVars => [Next]_vars
<1>1. UNCHANGED allVars => UNCHANGED vars BY DEF allVars
<1>. QED BY <1>1, RunnerUsesQueue, QueueStepIsNext

\* Evaluation runs only use the job queue: whatever the runner does, the queue
\* behaves as JobQueue says, so its theorems hold with evaluation jobs too
\* (runner.py run_evaluation, background_runner.py _dispatch_one).
THEOREM RunsKeepTheQueue == EvalSpec => Spec
<1>1. EvalInit => Init BY DEF EvalInit
<1>. QED BY <1>1, EvalStepIsQueueStep, PTL DEF EvalSpec, Spec

-----------------------------------------------------------------------------
(* What a step of the queue does to a row. *)

Move(j) ==
    /\ Present(rows[j]) => Present(rows'[j])
    /\ j \in Supported =>
         /\ Present(rows'[j]) => Present(rows[j])
         /\ rows'[j].status = "succeeded" =>
              \/ rows[j].status = "succeeded"
              \/ worker'.pc = "idle" /\ Returned /\ worker.job = j
         /\ rows[j].status \in Terminal /\ worker.job # j /\ worker.pc # "reapingStale"
              => rows'[j].status \in Terminal

LEMMA RowsMove ==
    ASSUME TypeOK, Inv, CreatingInv, QueueStep, NEW j \in Jobs
    PROVE  Move(j)
<1>. USE DEF Move, Present
<1>0. /\ rows[j] \in Row /\ seen[j] \in Row /\ apiSeen[j] \in Row
  BY DEF TypeOK, Table
<1>1. CASE UNCHANGED rows BY <1>1
<1>2. CASE ApiReap
  <2>1. j \in Supported => rows'[j] = rows[j]
    BY <1>2 DEF ApiReap, Loaded, CreatingInv
  <2>2. rows'[j].status \in {rows[j].status, "failed"}
    BY <1>0, <1>2, UpdateStatus, RewrittenStatus DEF ApiReap
  <2>. QED BY <2>1, <2>2
<1>3. ASSUME NEW c \in Clients, CancelCommit(c) PROVE Move(j)
  <2>. DEFINE r == requests[c]
  <2>1. r.pc = "loaded" /\ r.job \in Jobs /\ r.seen \in Row
    BY <1>3 DEF CancelCommit, TypeOK
  <2>2. Present(rows[r.job]) BY <2>1 DEF CreatingInv
  <2>3. rows' = [rows EXCEPT ![r.job] = Update(r.seen, CancelRequest(r.seen), rows[r.job])]
    BY <1>3 DEF CancelCommit
  <2>4. rows'[j].status \in {rows[j].status, "cancelled"}
    BY <2>1, <2>3, UpdateStatus, RewrittenStatus DEF TypeOK, Table
  <2>5. j # r.job => rows'[j] = rows[j] BY <2>3 DEF TypeOK, Table
  <2>. QED BY <2>2, <2>4, <2>5 DEF Terminal
<1>4. CASE ReapUnsupportedQueueRows
  <2>1. j \in Supported => rows'[j] = rows[j]
    BY <1>4 DEF ReapUnsupportedQueueRows, Loaded, Inv, CopiesFresh
  <2>2. rows'[j].status \in {rows[j].status, "failed"}
    BY <1>0, <1>4, UpdateStatus, RewrittenStatus DEF ReapUnsupportedQueueRows
  <2>. QED BY <2>1, <2>2
<1>5. CASE ReapStaleRunningJobs
  <2>1. Present(seen[j]) => Present(rows[j]) BY DEF Inv, CopiesFresh
  <2>2. rows'[j].status \in {rows[j].status, "cancelled", "queued", "failed"}
    BY <1>0, <1>5, UpdateStatus, RewrittenStatus DEF ReapStaleRunningJobs
  <2>3. ~Present(seen[j]) => rows'[j] = rows[j]
    BY <1>5 DEF ReapStaleRunningJobs, Loaded
  <2>4. worker.pc = "reapingStale" BY <1>5 DEF ReapStaleRunningJobs
  <2>. QED BY <2>1, <2>2, <2>3, <2>4
<1>6. ASSUME NEW k \in Jobs, NextQueued(k), rows' = [rows EXCEPT ![k] = Claimed(rows[k])]
      PROVE  Move(j)
  <2>1. rows[k] \in Row /\ rows[k].status = "queued"
    BY <1>6 DEF TypeOK, Table, NextQueued
  <2>2. rows'[j] = IF j = k THEN Claimed(rows[k]) ELSE rows[j]
    BY <1>6 DEF TypeOK, Table
  <2>. QED BY <2>1, <2>2, RewrittenStatus DEF Terminal
<1>7. CASE RecordOutcome
  <2>. DEFINE k == worker.job
  <2>1. Busy /\ worker.pc = "recording" /\ worker.outcome \in Outcomes
    BY <1>7 DEF RecordOutcome, Busy, TypeOK
  <2>2. k \in Jobs /\ rows[k].status # "absent" /\ seen[k] \in Row
    BY <2>1 DEF Inv, HeldIsClaimed, Supported, TypeOK, Table
  <2>3. /\ rows' = [rows EXCEPT ![k] = Update(seen[k], Recorded(seen[k], worker.outcome), rows[k])]
        /\ worker'.pc = "idle"
    BY <1>7 DEF RecordOutcome, Idle, WorkerDown
  <2>4. j # k => rows'[j] = rows[j] BY <2>3 DEF TypeOK, Table
  <2>5. CASE j = k
    <3>1. rows'[k].status = 
             IF Recorded(seen[k], worker.outcome).status = seen[k].status
             THEN rows[k].status ELSE Recorded(seen[k], worker.outcome).status
      BY <2>2, <2>3, UpdateStatus DEF TypeOK, Table
    <3>2. CASE worker.outcome = "returned"
      <4>1. rows'[k].status \in {rows[k].status, "succeeded"}
        BY <2>2, <3>1, <3>2, RewrittenStatus
      <4>. QED BY <2>1, <2>2, <2>3, <2>5, <3>2, <4>1 DEF Returned
    <3>3. CASE worker.outcome # "returned"
      <4>1. rows'[k].status \in {rows[k].status, "cancelled", "queued", "failed"}
        BY <2>1, <2>2, <3>1, <3>3, RewrittenStatus
      <4>. QED BY <2>2, <2>5, <4>1
    <3>. QED BY <3>2, <3>3
  <2>. QED BY <2>4, <2>5
<1>8. QueueStep =>
         \/ UNCHANGED rows \/ ApiReap \/ (\E c \in Clients : CancelCommit(c))
         \/ ReapUnsupportedQueueRows \/ ReapStaleRunningJobs \/ RecordOutcome
         \/ \E k \in Jobs : NextQueued(k) /\ rows' = [rows EXCEPT ![k] = Claimed(rows[k])]
  BY DEF QueueStep, ApiStart, ApiCrash, CancelLoad, WorkerStart, LoadStaleRunningJobs,
         ClaimSome, Claim, ClaimLost, DeadlinePasses, Checkpoint, RunnerReturns, RunnerRaises,
         LoadOutcomeRow, RecordLost, WorkerStopRequested, WorkerExit, WorkerCrash, vars
<1>. QED BY <1>1, <1>2, <1>3, <1>4, <1>5, <1>6, <1>7, <1>8

-----------------------------------------------------------------------------
(* What a step of the queue keeps of RunInv, if the runner keeps its part. *)

LEMMA CountersGrow ==
    ASSUME TypeOK, [Next]_vars
    PROVE  /\ restarts' = 0 => restarts = 0 /\ (worker'.stopping => worker.stopping)
           /\ dbErrors' = 0 => dbErrors = 0
<1>. USE DEF TypeOK, bounds, workerVars, apiVars
<1>1. CASE /\ UNCHANGED <<restarts, dbErrors>>
           /\ worker'.stopping = worker.stopping \/ worker' = WorkerDown
  BY <1>1 DEF WorkerDown
<1>2. CASE restarts' = restarts + 1 /\ UNCHANGED dbErrors
  BY <1>2
<1>3. CASE /\ dbErrors' = dbErrors + 1 /\ UNCHANGED restarts
           /\ worker'.stopping = worker.stopping
  BY <1>3
<1>4. CASE ApiStart \/ ApiReap \/ (\E j \in Jobs : Enqueue(j))
             \/ (\E c \in Clients, j \in Jobs : CancelLoad(c, j))
             \/ (\E c \in Clients : CancelCommit(c)) \/ UNCHANGED vars
  BY <1>1, <1>4 DEF ApiStart, ApiReap, Enqueue, CancelLoad, CancelCommit, vars
<1>5. CASE WorkerStart \/ ReapUnsupportedQueueRows \/ LoadStaleRunningJobs
             \/ ReapStaleRunningJobs \/ ClaimSome \/ DeadlinePasses
  BY <1>1, <1>5 DEF WorkerStart, ReapUnsupportedQueueRows, LoadStaleRunningJobs,
                    ReapStaleRunningJobs, ClaimSome, Claim, DeadlinePasses
<1>6. CASE Checkpoint \/ RunnerReturns \/ LoadOutcomeRow
             \/ RecordOutcome \/ WorkerExit
  BY <1>1, <1>6 DEF Checkpoint, Ended, RunnerReturns, LoadOutcomeRow,
                    RecordOutcome, Idle, WorkerDown, WorkerExit
<1>7. CASE ApiCrash \/ WorkerStopRequested \/ WorkerCrash
  BY <1>2, <1>7 DEF ApiCrash, WorkerStopRequested, WorkerCrash
<1>8. CASE RecordLost \/ \E j \in Jobs : ClaimLost(j)
  BY <1>3, <1>8 DEF RecordLost, ClaimLost, Idle, WorkerDown
<1>9. CASE RunnerRaises
  <2>1. worker'.stopping = worker.stopping /\ UNCHANGED restarts
    BY <1>9 DEF RunnerRaises, Ended
  <2>2. UNCHANGED dbErrors \/ dbErrors' = dbErrors + 1 BY <1>9 DEF RunnerRaises
  <2>. QED BY <1>1, <1>3, <2>1, <2>2
<1>. QED BY <1>4, <1>5, <1>6, <1>7, <1>8, <1>9 DEF Next, ClaimSome

\* A cancel request has loaded a row that is there.
LEMMA RequestsFollowRows ==
    ASSUME TypeOK, TypeOK', CreatingInv, QueueStep,
           \A j \in Jobs : Move(j), NEW c \in Clients, requests'[c].pc = "loaded"
    PROVE  Present(rows'[requests'[c].job])
<1>1. CASE requests'[c] = requests[c]
  <2>1. requests[c].job \in Jobs BY <1>1 DEF TypeOK
  <2>2. Present(rows[requests[c].job]) BY <1>1 DEF CreatingInv
  <2>. QED BY <1>1, <2>1, <2>2 DEF Move
<1>2. ASSUME NEW e \in Clients, NEW j \in Jobs, CancelLoad(e, j)
      PROVE  Present(rows'[requests'[c].job])
  <2>1. c = e => requests'[c].job = j /\ rows'[j] = rows[j] /\ rows[j].status \in Active
    BY <1>2 DEF CancelLoad, TypeOK
  <2>2. c # e => requests'[c] = requests[c]
    BY <1>2 DEF CancelLoad, TypeOK
  <2>. QED BY <1>1, <2>1, <2>2 DEF Present, Active
<1>3. ASSUME NEW e \in Clients, CancelCommit(e)
      PROVE  requests'[c] = requests[c]
  BY <1>3 DEF CancelCommit, TypeOK, NoRequest
<1>4. CASE ApiCrash
  BY <1>4 DEF ApiCrash, NoRequest
<1>5. CASE UNCHANGED requests BY <1>1, <1>5
<1>6. QueueStep => \/ UNCHANGED requests \/ ApiCrash
                   \/ (\E e \in Clients, j \in Jobs : CancelLoad(e, j))
                   \/ \E e \in Clients : CancelCommit(e)
  BY DEF QueueStep, ApiStart, ApiReap, WorkerStart, ReapUnsupportedQueueRows,
         LoadStaleRunningJobs, ReapStaleRunningJobs, ClaimSome, Claim, ClaimLost,
         DeadlinePasses, Checkpoint, RunnerReturns, RunnerRaises, LoadOutcomeRow,
         RecordOutcome, RecordLost, WorkerStopRequested, WorkerExit, WorkerCrash,
         apiVars, vars
<1>. QED BY <1>1, <1>2, <1>3, <1>4, <1>5, <1>6

LEMMA ApiLoadsLegacy ==
    ASSUME CreatingInv, QueueStep, NEW j \in Supported
    PROVE  ~Present(apiSeen'[j])
<1>1. QueueStep => \/ UNCHANGED apiSeen \/ apiSeen' = NothingLoaded
                   \/ apiSeen' = Load(LegacyActive)
  BY DEF QueueStep, ApiStart, ApiReap, ApiCrash, CancelLoad, CancelCommit, WorkerStart,
         ReapUnsupportedQueueRows, LoadStaleRunningJobs, ReapStaleRunningJobs, ClaimSome,
         Claim, ClaimLost, DeadlinePasses, Checkpoint, RunnerReturns, RunnerRaises,
         LoadOutcomeRow, RecordOutcome, RecordLost, WorkerStopRequested, WorkerExit,
         WorkerCrash, apiVars, vars
<1>2. j \in Jobs /\ j \notin LegacyActive BY DEF Supported, LegacyActive
<1>. QED BY <1>1, <1>2 DEF CreatingInv, NothingLoaded, Load, Present, NoRow

LEMMA CreatingKept ==
    ASSUME RunInv, QueueStep,
           \A j \in creating' : j \in Supported /\ ~Present(rows[j]),
           \A j \in Supported : runs[j].status # "absent" => runs'[j].status # "absent"
    PROVE  CreatingInv'
<1>1. TypeOK /\ Inv /\ CreatingInv BY DEF RunInv, EvalTypeOK
<1>2. TypeOK' BY <1>1, QueueStepIsNext, TypeStep
<1>3. \A j \in Jobs : Move(j) BY <1>1, RowsMove
<1>4. \A j \in Supported : Present(rows'[j]) => Present(rows[j])
  BY <1>3, SupportedJobs DEF Move
<1>5. \A j \in Supported : Present(rows'[j]) => runs'[j].status # "absent"
  BY <1>1, <1>4 DEF CreatingInv
<1>6. \A j \in creating' : ~Present(rows'[j]) BY <1>4
<1>7. \A c \in Clients : requests'[c].pc = "loaded" => Present(rows'[requests'[c].job])
  BY <1>1, <1>2, <1>3, RequestsFollowRows
<1>8. \A j \in Supported : ~Present(apiSeen'[j]) BY <1>1, ApiLoadsLegacy
<1>. QED BY <1>5, <1>6, <1>7, <1>8 DEF CreatingInv, Present

LEMMA ReportsKept ==
    ASSUME RunInv, QueueStep,
           \A j \in Supported :
               Reported(j) /\ (worker.job # j \/ Returned) => Reported(j)'
    PROVE  SucceededJobHasReport'
<1>. SUFFICES ASSUME NEW j \in Supported, rows'[j].status = "succeeded"
              PROVE  Reported(j)'
  BY DEF SucceededJobHasReport, Reported, Given
<1>1. TypeOK /\ Inv /\ CreatingInv /\ StageInv BY DEF RunInv, EvalTypeOK
<1>2. Move(j) BY <1>1, RowsMove, SupportedJobs
<1>3. CASE rows[j].status = "succeeded"
  <2>1. Reported(j) BY <1>3 DEF RunInv, SucceededJobHasReport, Reported, Given
  <2>2. worker.job # j
    BY <1>1, <1>3, SupportedJobs, NoJobNotInJobs DEF StageInv, TypeOK
  <2>. QED BY <2>1, <2>2
<1>4. CASE Returned /\ worker.job = j
  BY <1>1, <1>4 DEF StageInv
<1>. QED BY <1>2, <1>3, <1>4 DEF Move

LEMMA QueueKept ==
    ASSUME RunInv, QueueStep
    PROVE  TypeOK' /\ Inv'
BY QueueStepIsNext, TypeStep, InvStep DEF RunInv, EvalTypeOK

\* A step of the queue that does not claim a job leaves the worker its job or none.
LEMMA JobKept ==
    ASSUME TypeOK, QueueStep, ~ClaimSome
    PROVE  worker'.job \in {worker.job, NoJob}
<1>1. CASE UNCHANGED worker BY <1>1
<1>2. CASE WorkerStart \/ ReapUnsupportedQueueRows \/ LoadStaleRunningJobs
             \/ ReapStaleRunningJobs \/ DeadlinePasses \/ WorkerStopRequested
  BY <1>2 DEF WorkerStart, ReapUnsupportedQueueRows, LoadStaleRunningJobs,
              ReapStaleRunningJobs, DeadlinePasses, WorkerStopRequested, TypeOK
<1>3. CASE Checkpoint \/ RunnerReturns \/ RunnerRaises \/ LoadOutcomeRow
  BY <1>3 DEF Checkpoint, RunnerReturns, RunnerRaises, LoadOutcomeRow, Ended, TypeOK
<1>4. CASE RecordOutcome \/ RecordLost \/ WorkerExit \/ WorkerCrash
  <2>1. worker' = Idle \/ worker' = WorkerDown
    BY <1>4 DEF RecordOutcome, RecordLost, WorkerExit, WorkerCrash
  <2>2. Idle.job = NoJob /\ WorkerDown.job = NoJob BY DEF Idle, WorkerDown
  <2>. QED BY <2>1, <2>2
<1>5. CASE ApiStart \/ ApiReap \/ ApiCrash \/ (\E j \in Jobs : ClaimLost(j))
             \/ (\E c \in Clients, j \in Jobs : CancelLoad(c, j))
             \/ (\E c \in Clients : CancelCommit(c)) \/ UNCHANGED vars
  BY <1>1, <1>5 DEF ApiStart, ApiReap, ApiCrash, ClaimLost, CancelLoad, CancelCommit,
                    workerVars, vars
<1>. QED BY <1>2, <1>3, <1>4, <1>5 DEF QueueStep

LEMMA ClaimDoes ==
    ASSUME TypeOK, ClaimSome
    PROVE  \E k \in Supported :
              /\ rows[k].status = "queued"
              /\ rows' = [rows EXCEPT ![k] = Claimed(rows[k])]
              /\ rows'[k].status = "running"
              /\ worker'.job = k /\ worker'.pc = "running" /\ worker.pc = "idle"
              /\ worker'.stopping = worker.stopping /\ UNCHANGED <<restarts, dbErrors>>
<1>. PICK k \in Jobs, n \in 0..MaxChecks : Claim(k, n) BY DEF ClaimSome
<1>1. k \in Supported /\ rows[k].status = "queued" /\ rows[k] \in Row
  BY DEF Claim, NextQueued, TypeOK, Table
<1>2. rows' = [rows EXCEPT ![k] = Claimed(rows[k])] BY DEF Claim
<1>3. rows'[k].status = "running" BY <1>1, <1>2, RewrittenStatus DEF TypeOK, Table
<1>4. /\ worker'.job = k /\ worker'.pc = "running" /\ worker.pc = "idle"
      /\ worker'.stopping = worker.stopping
  BY DEF Claim, TypeOK
<1>. QED BY <1>1, <1>2, <1>3, <1>4 DEF Claim, bounds

\* The job being executed does not count as succeeded.
LEMMA BusyKept ==
    ASSUME RunInv, QueueStep, Busy'
    PROVE  rows'[worker'.job].status # "succeeded"
<1>1. TypeOK /\ TypeOK' /\ Inv /\ CreatingInv BY QueueKept DEF RunInv, EvalTypeOK
<1>2. CASE ClaimSome BY <1>1, <1>2, ClaimDoes
<1>3. CASE ~ClaimSome
  <2>1. worker'.job # NoJob BY <1>1 DEF TypeOK
  <2>2. worker'.job = worker.job BY <1>1, <1>3, <2>1, JobKept
  <2>3. Busy BY <1>1, <2>1, <2>2 DEF TypeOK
  <2>4. worker.job \in Supported /\ rows[worker.job].status # "succeeded"
    BY <2>3 DEF RunInv, Inv, HeldIsClaimed, StageInv
  <2>5. Move(worker.job) BY <1>1, <2>4, RowsMove, SupportedJobs
  <2>. QED BY <2>2, <2>4, <2>5 DEF Move, Busy
<1>. QED BY <1>2, <1>3

LEMMA OnceKept ==
    ASSUME RunInv, QueueStep,
           \A j \in Jobs : Given(j)' =>
               /\ Given(j) /\ runs'[j].report = runs[j].report
               /\ runs'[j].results = runs[j].results,
           restarts' = 0 /\ dbErrors' = 0 /\ ~worker.stopping =>
               /\ Starting' => Starting
               /\ \A j \in Supported : Ending(j) =>
                     Ending(j)' \/ (worker'.job # j /\ rows'[j].status \in Terminal)
    PROVE  ReportedOnce'
<1>. SUFFICES ASSUME restarts' = 0, dbErrors' = 0 PROVE ReportedOnce'
  BY DEF ReportedOnce
<1>1. TypeOK /\ TypeOK' /\ Inv /\ CreatingInv BY QueueKept DEF RunInv, EvalTypeOK
<1>2. restarts = 0 /\ dbErrors = 0 /\ (worker'.stopping => worker.stopping)
  BY <1>1, CountersGrow, QueueStepIsNext
<1>3. ~worker.stopping /\ ~worker'.stopping BY <1>2 DEF RunInv, ReportedOnce
<1>4. Starting' => \A j \in Jobs : ~Given(j)'
  BY <1>2, <1>3 DEF RunInv, ReportedOnce
<1>5. ASSUME NEW j \in Jobs, Given(j)'
      PROVE  /\ j \in Supported
             /\ runs'[j].results = runs'[j].report.questions
             /\ Ending(j)' \/ (worker'.job # j /\ rows'[j].status \in Terminal)
  <2>1. /\ j \in Supported /\ runs[j].results = runs[j].report.questions
        /\ Ending(j) \/ (worker.job # j /\ rows[j].status \in Terminal)
        /\ ~Starting
    BY <1>2, <1>5 DEF RunInv, ReportedOnce
  <2>2. CASE Ending(j) BY <1>3, <1>5, <2>1, <2>2
  <2>3. CASE worker.job # j /\ rows[j].status \in Terminal
    <3>1. worker.pc # "reapingStale" BY <2>1 DEF Starting
    <3>2. rows'[j].status \in Terminal
      BY <1>1, <2>1, <2>3, <3>1, RowsMove DEF Move
    <3>3. worker'.job # j
      <4>1. CASE ClaimSome BY <1>1, <2>3, <3>2, <4>1, ClaimDoes DEF Terminal
      <4>2. CASE ~ClaimSome BY <1>1, <2>3, <4>2, JobKept, NoJobNotInJobs
      <4>. QED BY <4>1, <4>2
    <3>. QED BY <1>5, <2>1, <3>2, <3>3
  <2>. QED BY <2>1, <2>2, <2>3
<1>. QED BY <1>3, <1>4, <1>5 DEF ReportedOnce, Given

\* The runner's transactions have a job, and a run of their own.
LEMMA RunnerHasJob ==
    ASSUME RunInv, Busy
    PROVE  /\ worker.job \in Supported /\ worker.job \in Jobs
           /\ worker.job \notin creating
           /\ runs[worker.job] \in Run /\ runs[worker.job].status # "absent"
<1>1. worker.job \in Supported /\ Present(rows[worker.job])
  BY DEF RunInv, Inv, HeldIsClaimed, Present
<1>2. worker.job \in Jobs BY <1>1, SupportedJobs
<1>. QED BY <1>1, <1>2 DEF RunInv, CreatingInv, EvalTypeOK

LEMMA StageIsBusy ==
    ASSUME RunInv, stage # "none"
    PROVE  Busy
BY DEF RunInv, EvalTypeOK, Busy

LEMMA CommitDoes ==
    ASSUME RunInv, Busy, NEW run \in Run, Commit(run)
    PROVE  /\ runs' = [runs EXCEPT ![worker.job] = run] /\ pending' = 0
           /\ runs' \in [Jobs -> Run] /\ runs'[worker.job] = run
           /\ \A j \in Jobs \ {worker.job} : runs'[j] = runs[j]
<1>1. pending = 0 /\ runs \in [Jobs -> Run] BY DEF RunInv, EvalTypeOK
<1>2. [run EXCEPT !.results = @ + 0] = run BY DEF Run
<1>. QED BY <1>1, <1>2, RunnerHasJob DEF Commit

-----------------------------------------------------------------------------
(* The steps of the API *)

\* A step of the queue that the runner has no part in, and that leaves the
\* worker's job and outcome alone.
LEMMA QuietStepKeeps ==
    ASSUME RunInv, QueueStep, ~ClaimSome,
           UNCHANGED <<runs, stage, answered, pending>>,
           creating' \subseteq creating,
           worker'.pc = worker.pc, worker'.outcome = worker.outcome,
           worker'.job = worker.job
    PROVE  RunInv'
<1>1. TypeOK /\ TypeOK' /\ Inv' /\ EvalTypeOK /\ CreatingInv
  BY QueueKept DEF RunInv, EvalTypeOK
<1>2. EvalTypeOK' BY <1>1 DEF EvalTypeOK
<1>3. CreatingInv'
  <2>1. \A j \in creating' : j \in Supported /\ ~Present(rows[j])
    BY <1>1 DEF EvalTypeOK, CreatingInv
  <2>. QED BY <2>1, CreatingKept
<1>4. StageInv'
  <2>1. Busy' => rows'[worker'.job].status # "succeeded" BY BusyKept
  <2>. QED BY <2>1 DEF RunInv, StageInv, Returned, Reported, Given
<1>5. NoPartialResults' BY DEF RunInv, NoPartialResults
<1>6. SucceededJobHasReport' BY ReportsKept DEF Reported, Given
<1>7. ReportedOnce'
  BY OnceKept DEF Given, Ending, Starting, Returned
<1>. QED BY <1>1, <1>2, <1>3, <1>4, <1>5, <1>6, <1>7 DEF RunInv

LEMMA CreateRunKeeps ==
    ASSUME RunInv, NEW j \in Jobs, CreateRun(j)
    PROVE  RunInv'
<1>0. QueueStep /\ UNCHANGED <<vars, stage, answered, pending>>
  BY DEF CreateRun, QueueStep
<1>1. TypeOK /\ TypeOK' /\ Inv' /\ EvalTypeOK /\ CreatingInv
  BY <1>0, QueueKept DEF RunInv, EvalTypeOK
<1>2. /\ j \in Supported /\ runs[j] = NoRun
      /\ creating' = creating \cup {j}
  BY DEF CreateRun
<1>3. /\ runs' \in [Jobs -> Run]
      /\ runs'[j].status = "queued" /\ ~Given(j)' /\ runs'[j].results = 0
      /\ \A k \in Jobs \ {j} : runs'[k] = runs[k]
  <2>1. runs' = [runs EXCEPT ![j] = [NoRun EXCEPT !.status = "queued"]]
    BY <1>2 DEF CreateRun
  <2>2. [NoRun EXCEPT !.status = "queued"] \in Run BY DEF NoRun, NoReport, Run
  <2>3. runs'[j] = [NoRun EXCEPT !.status = "queued"]
    BY <1>1, <2>1 DEF EvalTypeOK
  <2>4. ~Given(j)' /\ runs'[j].results = 0 /\ runs'[j].status = "queued"
    BY <2>3 DEF Given, NoRun, NoReport
  <2>. QED BY <1>1, <2>1, <2>2, <2>4 DEF EvalTypeOK
<1>4. ~Present(rows[j]) BY <1>1, <1>2 DEF CreatingInv, NoRun
<1>5. EvalTypeOK'
  <2>1. \A k \in creating' : k \in Supported /\ runs'[k].status = "queued"
    BY <1>1, <1>2, <1>3, SupportedJobs DEF EvalTypeOK
  <2>. QED BY <1>0, <1>1, <1>3, <2>1 DEF EvalTypeOK, vars
<1>6. CreatingInv'
  <2>1. \A k \in creating' : k \in Supported /\ ~Present(rows[k])
    BY <1>1, <1>2, <1>4 DEF EvalTypeOK, CreatingInv
  <2>2. \A k \in Supported : runs[k].status # "absent" => runs'[k].status # "absent"
    BY <1>3, SupportedJobs
  <2>. QED BY <1>0, <2>1, <2>2, CreatingKept
<1>7. \A k \in Jobs : Reported(k) => Reported(k)'
  BY <1>2, <1>3 DEF Reported, Given, NoRun
<1>8. StageInv'
  <2>1. Busy => worker.job \in Jobs BY RunnerHasJob
  <2>2. stage = "reported" \/ Returned => Reported(worker.job)'
    <3>1. stage = "reported" \/ Returned => Busy /\ Reported(worker.job)
      BY StageIsBusy DEF RunInv, StageInv, Returned, Busy
    <3>2. worker' = worker BY <1>0 DEF vars
    <3>. QED BY <1>7, <2>1, <3>1, <3>2 DEF Reported, Given
  <2>. QED BY <1>0, <2>2 DEF RunInv, StageInv, Returned, Busy, vars, Reported, Given
<1>9. NoPartialResults'
  BY <1>3 DEF RunInv, NoPartialResults, Given
<1>10. SucceededJobHasReport' BY <1>0, <1>7, ReportsKept, SupportedJobs
<1>11. ReportedOnce'
  BY <1>0, <1>3, OnceKept DEF vars, Given, Ending, Starting, Returned
<1>12. pending' = 0 BY <1>0 DEF RunInv
<1>. QED BY <1>1, <1>5, <1>6, <1>8, <1>9, <1>10, <1>11, <1>12 DEF RunInv

LEMMA EnqueueRunFailsKeeps ==
    ASSUME RunInv, NEW k \in Jobs, EnqueueRunFails(k)
    PROVE  RunInv'
<1>1. /\ UNCHANGED vars /\ QueueStep /\ creating' \subseteq creating
      /\ UNCHANGED <<runs, stage, answered, pending>>
  BY DEF EnqueueRunFails, QueueStep
<1>2. UNCHANGED <<worker, restarts, dbErrors>> BY <1>1 DEF vars
<1>3. ~ClaimSome BY <1>2, ClaimDoes DEF RunInv, EvalTypeOK
<1>. QED BY <1>1, <1>2, <1>3, QuietStepKeeps

LEMMA EnqueueRunKeeps ==
    ASSUME RunInv, NEW k \in Jobs, EnqueueRun(k)
    PROVE  RunInv'
<1>0. [Next]_vars BY QueueStepIsNext
<1>1. TypeOK /\ TypeOK' /\ Inv' /\ EvalTypeOK /\ CreatingInv
  BY <1>0, TypeStep, InvStep DEF RunInv, EvalTypeOK
<1>2. /\ UNCHANGED <<worker, seen, api, apiSeen, requests, restarts, dbErrors>>
      /\ UNCHANGED <<runs, stage, answered, pending>>
      /\ creating' = creating \ {k} /\ k \in creating
  BY DEF EnqueueRun, Enqueue, workerVars, apiVars, bounds
<1>3. ~Present(rows[k]) /\ rows'[k].status = "queued"
  BY <1>1 DEF EnqueueRun, Enqueue, TypeOK, Table, NewRow, NoRow
<1>4. \A j \in Jobs \ {k} : rows'[j] = rows[j]
  BY <1>1 DEF EnqueueRun, Enqueue, TypeOK, Table
<1>5. EvalTypeOK' BY <1>1, <1>2 DEF EvalTypeOK
<1>6. CreatingInv'
  <2>1. k \in Supported /\ runs[k].status = "queued" BY <1>1, <1>2 DEF EvalTypeOK
  <2>2. \A j \in creating' : j \in Jobs \ {k} /\ ~Present(rows[j])
    BY <1>1, <1>2, SupportedJobs DEF EvalTypeOK, CreatingInv
  <2>3. \A j \in creating' : ~Present(rows'[j]) BY <1>4, <2>2
  <2>4. \A j \in Supported : Present(rows'[j]) => runs'[j].status # "absent"
    BY <1>1, <1>2, <1>4, <2>1, SupportedJobs DEF CreatingInv
  <2>5. \A c \in Clients :
           requests'[c].pc = "loaded" => Present(rows'[requests'[c].job])
    BY <1>1, <1>2, <1>3, <1>4 DEF CreatingInv, TypeOK
  <2>. QED BY <1>1, <1>2, <2>3, <2>4, <2>5 DEF CreatingInv, Present
<1>7. StageInv'
  <2>1. Busy => worker.job \in Jobs \ {k}
    BY <1>3, RunnerHasJob DEF RunInv, Inv, HeldIsClaimed, Present
  <2>. QED BY <1>2, <1>4, <2>1 DEF RunInv, StageInv, Busy, Returned, Reported, Given
<1>8. NoPartialResults' BY <1>2 DEF RunInv, NoPartialResults
<1>9. SucceededJobHasReport'
  BY <1>2, <1>3, <1>4, SupportedJobs DEF RunInv, SucceededJobHasReport
<1>10. ReportedOnce'
  <2>1. \A j \in Jobs : rows[j].status \in Terminal => rows'[j].status \in Terminal
    BY <1>3, <1>4 DEF Present, Terminal
  <2>. QED BY <1>2, <2>1 DEF RunInv, ReportedOnce, Given, Ending, Starting, Returned
<1>. QED BY <1>1, <1>2, <1>5, <1>6, <1>7, <1>8, <1>9, <1>10 DEF RunInv

LEMMA EvalApiCrashKeeps ==
    ASSUME RunInv, EvalApiCrash
    PROVE  RunInv'
<1>1. /\ QueueStep /\ ~ClaimSome /\ UNCHANGED worker /\ creating' \subseteq creating
      /\ UNCHANGED <<runs, stage, answered, pending>>
  BY DEF EvalApiCrash, ApiCrash, QueueStep, workerVars, ClaimSome, Claim, RunInv, EvalTypeOK,
         TypeOK, bounds
<1>. QED BY <1>1, QuietStepKeeps

LEMMA ApiStepKeeps ==
    ASSUME RunInv, ApiStep
    PROVE  RunInv'
<1>1. UNCHANGED evalVars /\ QueueStep BY DEF ApiStep, QueueStep
<1>2. UNCHANGED worker
  BY DEF ApiStep, ApiStart, ApiReap, CancelLoad, CancelCommit, workerVars
<1>3. ~ClaimSome BY <1>2, ClaimDoes DEF RunInv, EvalTypeOK
<1>. QED BY <1>1, <1>2, <1>3, QuietStepKeeps DEF evalVars

-----------------------------------------------------------------------------
(* The steps of the runner *)

LEMMA ClaimRunKeeps ==
    ASSUME RunInv, ClaimRun
    PROVE  RunInv'
<1>0. QueueStep /\ ClaimSome /\ UNCHANGED <<runs, creating, answered, pending>>
      /\ stage' = "claimed"
  BY DEF ClaimRun, QueueStep
<1>1. TypeOK /\ TypeOK' /\ Inv' /\ EvalTypeOK /\ CreatingInv
  BY <1>0, QueueKept DEF RunInv, EvalTypeOK
<1>2. worker'.pc = "running" /\ worker.pc = "idle" BY <1>0, <1>1, ClaimDoes
<1>3. ~Busy /\ stage = "none" /\ ~Returned
  BY <1>1, <1>2, StageIsBusy DEF EvalTypeOK, Busy, Returned
<1>4. EvalTypeOK' BY <1>0, <1>1, <1>2 DEF EvalTypeOK
<1>5. CreatingInv'
  BY <1>0, <1>1, CreatingKept DEF EvalTypeOK, CreatingInv
<1>6. StageInv' BY <1>0, <1>2, BusyKept DEF StageInv, Returned
<1>7. NoPartialResults' BY <1>0 DEF RunInv, NoPartialResults
<1>8. SucceededJobHasReport' BY <1>0, ReportsKept DEF Reported, Given
<1>9. ReportedOnce'
  BY <1>0, <1>2, <1>3, OnceKept DEF Given, Starting, Ending
<1>. QED BY <1>0, <1>1, <1>4, <1>5, <1>6, <1>7, <1>8, <1>9 DEF RunInv

\* The runner's transactions on its run while the job is executed.
LEMMA RunStepKeeps ==
    ASSUME RunInv, UNCHANGED vars, stage # "none", ~Returned,
           UNCHANGED creating, NEW run \in Run,
           runs' = [runs EXCEPT ![worker.job] = run],
           run.status # "absent",
           ~run.report.given => run.results = 0,
           pending' = 0, answered' \in Nat,
           stage' \in {"none", "claimed", "asking", "reported", "failing"},
           stage' \in {"claimed", "asking", "reported"} <=> worker.pc = "running",
           stage' = "failing" => worker.pc = "ended",
           stage' = "reported" => run.status = "succeeded" /\ run.report.given,
           ReportedOnce'
    PROVE  RunInv'
<1>0. QueueStep BY DEF QueueStep
<1>1. TypeOK /\ TypeOK' /\ Inv' /\ EvalTypeOK /\ CreatingInv
  BY <1>0, QueueKept DEF RunInv, EvalTypeOK
<1>. DEFINE j == worker.job
<1>2. Busy /\ j \in Supported /\ j \in Jobs /\ j \notin creating
  BY StageIsBusy, RunnerHasJob
<1>3. /\ runs' \in [Jobs -> Run] /\ runs'[j] = run
      /\ \A k \in Jobs \ {j} : runs'[k] = runs[k]
  BY <1>1, <1>2 DEF EvalTypeOK
<1>4. UNCHANGED <<worker, rows>> BY DEF vars
<1>5. EvalTypeOK'
  <2>1. \A k \in creating' : k \in Supported /\ runs'[k].status = "queued"
    BY <1>1, <1>2, <1>3, SupportedJobs DEF EvalTypeOK
  <2>. QED BY <1>1, <1>3, <1>4, <2>1 DEF EvalTypeOK
<1>6. CreatingInv'
  <2>1. \A k \in creating' : k \in Supported /\ ~Present(rows[k])
    BY <1>1 DEF EvalTypeOK, CreatingInv
  <2>2. \A k \in Supported : runs[k].status # "absent" => runs'[k].status # "absent"
    BY <1>3, SupportedJobs
  <2>. QED BY <1>0, <2>1, <2>2, CreatingKept
<1>7. StageInv'
  BY <1>0, <1>3, <1>4, BusyKept DEF StageInv, Returned, Reported, Given
<1>8. NoPartialResults'
  BY <1>3 DEF RunInv, NoPartialResults
<1>9. SucceededJobHasReport'
  <2>1. \A k \in Supported : Reported(k) /\ (worker.job # k \/ Returned) => Reported(k)'
    BY <1>3, SupportedJobs DEF Reported, Given
  <2>. QED BY <1>0, <2>1, ReportsKept
<1>. QED BY <1>1, <1>5, <1>6, <1>7, <1>8, <1>9 DEF RunInv

\* What has been reported stays reported, unless it is the run that is executed.
LEMMA RunStepOnce ==
    ASSUME RunInv, UNCHANGED vars, stage # "none", stage # "reported", ~Returned,
           NEW run \in Run, runs' = [runs EXCEPT ![worker.job] = run],
           run.report = runs[worker.job].report, run.results = runs[worker.job].results,
           stage' # "reported"
    PROVE  ReportedOnce'
<1>1. QueueStep BY DEF QueueStep
<1>2. worker.job \in Jobs BY StageIsBusy, RunnerHasJob
<1>3. \A j \in Jobs : runs'[j].report = runs[j].report /\ runs'[j].results = runs[j].results
  BY <1>2 DEF RunInv, EvalTypeOK
<1>4. \A j \in Jobs : ~Ending(j) BY DEF Ending
<1>. QED BY <1>1, <1>3, <1>4, OnceKept, SupportedJobs DEF Given, Starting, vars

LEMMA BeginRunKeeps ==
    ASSUME RunInv, BeginRun
    PROVE  RunInv'
<1>. DEFINE run == [runs[worker.job] EXCEPT !.status = "running"]
<1>1. /\ stage = "claimed" /\ stage' = "asking" /\ UNCHANGED <<vars, creating, answered>>
      /\ Commit(run)
  BY DEF BeginRun, OwnRun
<1>2. worker.pc = "running" /\ ~Returned
  BY <1>1 DEF RunInv, EvalTypeOK, Returned
<1>3. Busy BY <1>2 DEF Busy
<1>4. /\ run \in Run /\ run.status = "running"
      /\ run.report = runs[worker.job].report /\ run.results = runs[worker.job].results
  BY <1>3, RunnerHasJob DEF Run
<1>5. runs' = [runs EXCEPT ![worker.job] = run] /\ pending' = 0
  BY <1>1, <1>3, <1>4, CommitDoes
<1>6. ~run.report.given => run.results = 0
  BY <1>3, <1>4, RunnerHasJob DEF RunInv, NoPartialResults
<1>7. answered' \in Nat BY <1>1 DEF RunInv, EvalTypeOK
<1>8. ReportedOnce' BY <1>1, <1>2, <1>4, <1>5, RunStepOnce
<1>. QED BY <1>1, <1>2, <1>4, <1>5, <1>6, <1>7, <1>8, RunStepKeeps

LEMMA FailRunKeeps ==
    ASSUME RunInv, FailRun
    PROVE  RunInv'
<1>. DEFINE run == [runs[worker.job] EXCEPT !.status = "failed"]
<1>1. /\ stage = "failing" /\ stage' = "none" /\ UNCHANGED <<vars, creating>>
      /\ answered' = 0 /\ pending' = 0
      /\ runs' = [runs EXCEPT ![worker.job].status = "failed"]
  BY DEF FailRun
<1>2. worker.pc = "ended" /\ ~Returned
  BY <1>1 DEF RunInv, EvalTypeOK, StageInv
<1>3. Busy BY <1>2 DEF Busy
<1>4. /\ run \in Run /\ run.status = "failed"
      /\ run.report = runs[worker.job].report /\ run.results = runs[worker.job].results
  BY <1>3, RunnerHasJob DEF Run
<1>5. runs' = [runs EXCEPT ![worker.job] = run] BY <1>1
<1>6. ~run.report.given => run.results = 0
  BY <1>3, <1>4, RunnerHasJob DEF RunInv, NoPartialResults
<1>8. ReportedOnce' BY <1>1, <1>2, <1>4, <1>5, RunStepOnce
<1>. QED BY <1>1, <1>2, <1>4, <1>5, <1>6, <1>8, RunStepKeeps

\* Only here are results written, and their number is the report's.
LEMMA CommitReportKeeps ==
    ASSUME RunInv, CommitReport
    PROVE  RunInv'
<1>. DEFINE j == worker.job
            run == [runs[j] EXCEPT !.status = "succeeded", !.report = Report,
                                   !.results = @ + answered]
<1>1. /\ stage = "asking" /\ stage' = "reported" /\ UNCHANGED <<vars, creating, answered>>
      /\ worker.pc = "running" /\ Commit(run)
  BY DEF CommitReport, OwnRun
<1>2. ~Returned /\ Busy BY <1>1 DEF Returned, Busy
<1>3. j \in Supported /\ j \in Jobs /\ runs[j] \in Run /\ answered \in Nat
  BY <1>2, RunnerHasJob DEF RunInv, EvalTypeOK
<1>4. run \in Run /\ run.status = "succeeded" /\ run.report = Report
      /\ run.results = runs[j].results + answered
  <2>1. runs[j].results \in Nat BY <1>3 DEF Run
  <2>2. runs[j].results + answered \in Nat BY <1>3, <2>1
  <2>3. Report \in [given : BOOLEAN, questions : Nat] BY <1>3 DEF Report
  <2>. QED BY <1>3, <2>2, <2>3 DEF Run
<1>5. /\ runs' = [runs EXCEPT ![j] = run] /\ pending' = 0
      /\ runs'[j] = run /\ \A k \in Jobs \ {j} : runs'[k] = runs[k]
  BY <1>1, <1>2, <1>4, CommitDoes
<1>6. Report.given /\ Report.questions = answered BY DEF Report
<1>7. ReportedOnce'
  <2>. SUFFICES ASSUME restarts' = 0, dbErrors' = 0 PROVE ReportedOnce'
    BY DEF ReportedOnce
  <2>1. restarts = 0 /\ dbErrors = 0 /\ UNCHANGED <<worker, rows>> BY <1>1 DEF vars
  <2>2. ~worker.stopping /\ ~Starting' BY <1>1, <2>1 DEF RunInv, ReportedOnce, Starting
  <2>3. ~Given(j) BY <1>1, <1>2, <1>3, <2>1 DEF RunInv, ReportedOnce, Ending
  <2>4. runs[j].results = 0 BY <1>3, <2>3 DEF RunInv, NoPartialResults, Given
  <2>5. runs'[j].results = runs'[j].report.questions
    <3>1. run.results = answered BY <1>3, <1>4, <2>4
    <3>2. run.report.questions = answered BY <1>4, <1>6
    <3>. HIDE DEF run
    <3>. QED BY <1>5, <3>1, <3>2
  <2>6. Ending(j)' BY <1>1, <2>1 DEF Ending
  <2>7. ASSUME NEW k \in Jobs \ {j}, Given(k)'
        PROVE  /\ k \in Supported /\ runs'[k].results = runs'[k].report.questions
               /\ worker'.job # k /\ rows'[k].status \in Terminal
    <3>1. Given(k) /\ ~Ending(k) BY <1>5, <2>7 DEF Given, Ending
    <3>. QED BY <1>5, <2>1, <3>1 DEF RunInv, ReportedOnce
  <2>. QED BY <1>3, <2>1, <2>2, <2>5, <2>6, <2>7 DEF ReportedOnce
<1>. QED BY <1>1, <1>2, <1>3, <1>4, <1>5, <1>6, <1>7, RunStepKeeps

\* The runner's steps in the queue.
LEMMA RunnerStepKeeps ==
    ASSUME RunInv, QueueStep, Busy,
           UNCHANGED <<rows, runs, creating>>, pending' = 0, answered' \in Nat,
           worker'.job = worker.job, worker'.pc \in {"running", "ended", "recording"},
           stage' \in {"none", "claimed", "asking", "failing"},
           stage' \in {"claimed", "asking"} <=> worker'.pc = "running",
           stage' = "failing" => worker'.pc = "ended",
           Returned' => Reported(worker.job) /\ stage' = "none",
           Ending(worker.job) => Returned'
    PROVE  RunInv'
<1>1. TypeOK /\ TypeOK' /\ Inv' /\ EvalTypeOK /\ CreatingInv
  BY QueueKept DEF RunInv, EvalTypeOK
<1>2. EvalTypeOK' BY <1>1 DEF EvalTypeOK
<1>3. CreatingInv'
  <2>1. \A k \in creating' : k \in Supported /\ ~Present(rows[k])
    BY <1>1 DEF EvalTypeOK, CreatingInv
  <2>. QED BY <2>1, CreatingKept
<1>4. StageInv' BY BusyKept DEF StageInv, Reported, Given
<1>5. NoPartialResults' BY DEF RunInv, NoPartialResults
<1>6. SucceededJobHasReport' BY ReportsKept DEF Reported, Given
<1>7. ReportedOnce'
  <2>1. ~Starting' BY DEF Starting
  <2>2. \A k \in Jobs : Ending(k) => Ending(k)' BY DEF Ending
  <2>. QED BY <2>1, <2>2, OnceKept, SupportedJobs DEF Given
<1>. QED BY <1>1, <1>2, <1>3, <1>4, <1>5, <1>6, <1>7 DEF RunInv

LEMMA AskQuestionKeeps ==
    ASSUME RunInv, AskQuestion
    PROVE  RunInv'
<1>1. stage = "asking" /\ Checkpoint /\ UNCHANGED <<rows, creating>> /\ QueueStep
  BY DEF AskQuestion, Checkpoint, QueueStep
<1>2. worker.pc = "running" BY <1>1 DEF Checkpoint
<1>3. Busy /\ ~Ending(worker.job) BY <1>1, <1>2 DEF Busy, Ending, Returned
<1>4. pending = 0 /\ answered \in Nat /\ runs \in [Jobs -> Run] /\ TypeOK
  BY DEF RunInv, EvalTypeOK
<1>5. CASE worker'.pc = "ended"
  <2>1. worker'.job = worker.job /\ worker'.outcome \in {"timeout", "cancelled"}
    BY <1>1, <1>2, <1>4, <1>5 DEF Checkpoint, Ended, TypeOK
  <2>2. stage' = "failing" /\ UNCHANGED <<runs, answered, pending>>
    BY <1>5 DEF AskQuestion
  <2>. QED BY <1>1, <1>3, <1>4, <1>5, <2>1, <2>2, RunnerStepKeeps DEF Returned
<1>6. CASE worker'.pc # "ended"
  <2>1. worker' = [worker EXCEPT !.left = @ - 1]
    BY <1>1, <1>4, <1>6 DEF Checkpoint, Ended, TypeOK
  <2>2. worker'.job = worker.job /\ worker'.pc = "running"
    BY <1>2, <1>4, <2>1 DEF TypeOK
  <2>3. Commit(runs[worker.job]) /\ answered' = answered + 1 /\ stage' = "asking"
    BY <1>1, <1>6 DEF AskQuestion, OwnRun
  <2>4. runs' = [runs EXCEPT ![worker.job] = runs[worker.job]] /\ pending' = 0
    BY <1>3, <2>3, RunnerHasJob, CommitDoes
  <2>5. runs' = runs BY <1>3, <1>4, <2>4, RunnerHasJob
  <2>. QED BY <1>1, <1>3, <1>4, <2>2, <2>3, <2>4, <2>5, RunnerStepKeeps DEF Returned
<1>. QED BY <1>5, <1>6

LEMMA ReturnRunKeeps ==
    ASSUME RunInv, ReturnRun
    PROVE  RunInv'
<1>1. /\ stage = "reported" /\ RunnerReturns /\ UNCHANGED <<rows, runs, creating, pending>>
      /\ stage' = "none" /\ answered' = 0 /\ QueueStep
  BY DEF ReturnRun, RunnerReturns, QueueStep
<1>2. worker.pc = "running" /\ worker' = Ended("returned") BY <1>1 DEF RunnerReturns
<1>3. worker'.pc = "ended" /\ worker'.outcome = "returned" /\ worker'.job = worker.job
  BY <1>2 DEF Ended, RunInv, EvalTypeOK, TypeOK
<1>4. Busy BY <1>2 DEF Busy
<1>5. Reported(worker.job) /\ pending = 0 BY <1>1 DEF RunInv, StageInv
<1>. QED BY <1>1, <1>3, <1>4, <1>5, RunnerStepKeeps DEF Returned

LEMMA RaiseKeeps ==
    ASSUME RunInv, RaiseInRun \/ RaiseUnrecorded
    PROVE  RunInv'
<1>1. /\ stage \in {"claimed", "asking"} /\ RunnerRaises /\ UNCHANGED <<rows, runs, creating>>
      /\ stage' \in {"none", "failing"} /\ QueueStep
      /\ answered' \in {answered, 0} /\ pending' \in {pending, 0}
  BY DEF RaiseInRun, RaiseUnrecorded, RunnerRaises, QueueStep
<1>2. worker.pc = "running" /\ worker' = Ended("raised") BY <1>1 DEF RunnerRaises
<1>3. worker'.pc = "ended" /\ worker'.outcome = "raised" /\ worker'.job = worker.job
  BY <1>2 DEF Ended, RunInv, EvalTypeOK, TypeOK
<1>4. Busy /\ ~Ending(worker.job) BY <1>1, <1>2 DEF Busy, Ending, Returned
<1>5. pending = 0 /\ answered \in Nat BY DEF RunInv, EvalTypeOK
<1>. QED BY <1>1, <1>3, <1>4, <1>5, RunnerStepKeeps DEF Returned

-----------------------------------------------------------------------------
(* The other steps of the worker *)

\* A step after which the worker has no job.
LEMMA IdleStepKeeps ==
    ASSUME RunInv, QueueStep, ~Busy', stage' = "none", UNCHANGED <<runs, creating>>,
           pending' = 0, answered' \in Nat,
           restarts' = 0 /\ dbErrors' = 0 /\ ~worker.stopping =>
               /\ Starting' => Starting
               /\ \A j \in Supported : Ending(j) => rows'[j].status \in Terminal
    PROVE  RunInv'
<1>1. TypeOK /\ TypeOK' /\ Inv' /\ EvalTypeOK /\ CreatingInv
  BY QueueKept DEF RunInv, EvalTypeOK
<1>2. worker'.pc \notin {"running", "ended", "recording"} BY DEF Busy
<1>3. EvalTypeOK' BY <1>1, <1>2 DEF EvalTypeOK
<1>4. CreatingInv'
  <2>1. \A k \in creating' : k \in Supported /\ ~Present(rows[k])
    BY <1>1 DEF EvalTypeOK, CreatingInv
  <2>. QED BY <2>1, CreatingKept
<1>5. StageInv' BY <1>2 DEF StageInv, Returned
<1>6. NoPartialResults' BY DEF RunInv, NoPartialResults
<1>7. SucceededJobHasReport' BY ReportsKept DEF Reported, Given
<1>8. ReportedOnce'
  <2>1. \A j \in Supported : worker'.job # j
    BY <1>1, SupportedJobs, NoJobNotInJobs DEF TypeOK
  <2>. QED BY <2>1, OnceKept DEF Given
<1>. QED BY <1>1, <1>3, <1>4, <1>5, <1>6, <1>7, <1>8 DEF RunInv

\* The dispatcher records that a job succeeded, or finds that it has been ended.
LEMMA RecordOutcomeEnds ==
    ASSUME TypeOK, TypeOK', Inv, RecordOutcome, worker.outcome = "returned"
    PROVE  rows'[worker.job].status \in Terminal
<1>. DEFINE k == worker.job
<1>1. worker.pc = "recording" /\ Busy BY DEF RecordOutcome, Busy
<1>2. k \in Supported /\ k \in Jobs /\ seen[k] \in Row /\ rows[k] \in Row
  BY <1>1, SupportedJobs DEF Inv, HeldIsClaimed, TypeOK, Table
<1>3. rows' = [rows EXCEPT ![k] = Update(seen[k], Recorded(seen[k], "returned"), rows[k])]
  BY DEF RecordOutcome
<1>4. rows'[k] = Update(seen[k], Recorded(seen[k], "returned"), rows[k])
  BY <1>2, <1>3 DEF TypeOK, Table
<1>5. CASE seen[k].status = "running"
  <2>1. rows'[k].status = "succeeded"
    BY <1>2, <1>4, <1>5, UpdateStatus, RewrittenStatus
  <2>. QED BY <2>1 DEF Terminal
<1>6. CASE seen[k].status # "running"
  <2>1. rows'[k].status = rows[k].status
    BY <1>2, <1>4, <1>6, UpdateStatus, RewrittenStatus
  <2>2. rows[k].status \notin {"absent", "queued", "running"}
    BY <1>1, <1>2, <1>6 DEF Inv, HeldIsClaimed, RunningWasLoaded
  <2>. QED BY <1>2, <2>1, <2>2 DEF Row, Active, Terminal
<1>. QED BY <1>5, <1>6

LEMMA DispatcherStepKeeps ==
    ASSUME RunInv, DispatcherStep
    PROVE  RunInv'
<1>1. UNCHANGED evalVars /\ QueueStep BY DEF DispatcherStep, QueueStep
<1>2. /\ TypeOK /\ TypeOK' /\ Inv /\ EvalTypeOK /\ pending = 0 /\ answered \in Nat
      /\ restarts \in Nat /\ dbErrors \in Nat
  BY <1>1, QueueKept DEF RunInv, EvalTypeOK, TypeOK
<1>3. UNCHANGED <<runs, creating, stage, answered, pending>> BY <1>1 DEF evalVars
<1>4. \A j \in Jobs : Ending(j) => Busy
  BY StageIsBusy DEF Ending, Returned, Busy
<1>5. CASE WorkerStart \/ ReapUnsupportedQueueRows \/ LoadStaleRunningJobs
             \/ ReapStaleRunningJobs \/ WorkerExit \/ \E j \in Jobs : ClaimLost(j)
  <2>1. /\ worker.pc \in {"down", "reapingLegacy", "reapedLegacy", "reapingStale", "idle"}
        /\ worker'.pc \in {"down", "reapingLegacy", "reapedLegacy", "reapingStale", "idle"}
        /\ worker.pc = "idle" => 
              (worker'.pc = "idle" /\ dbErrors' = dbErrors + 1) \/ worker.stopping
    BY <1>2, <1>5 DEF WorkerStart, ReapUnsupportedQueueRows, LoadStaleRunningJobs,
           ReapStaleRunningJobs, WorkerExit, WorkerDown, ClaimLost, workerVars, TypeOK
  <2>2. ~Busy /\ ~Busy' BY <2>1 DEF Busy
  <2>3. stage' = "none" BY <1>2, <1>3, <2>1 DEF EvalTypeOK
  <2>4. \A j \in Supported : ~Ending(j) BY <1>4, <2>2, SupportedJobs
  <2>5. restarts' = 0 /\ dbErrors' = 0 /\ ~worker.stopping => (Starting' => Starting)
    BY <1>2, <2>1 DEF Starting
  <2>. QED BY <1>1, <1>2, <1>3, <2>2, <2>3, <2>4, <2>5, IdleStepKeeps
<1>6. CASE DeadlinePasses \/ WorkerStopRequested
  <2>1. worker'.pc = worker.pc /\ worker'.job = worker.job /\ worker'.outcome = worker.outcome
    BY <1>2, <1>6 DEF DeadlinePasses, WorkerStopRequested, TypeOK
  <2>2. ~ClaimSome BY <1>2, <2>1, ClaimDoes
  <2>. QED BY <1>1, <1>3, <2>1, <2>2, QuietStepKeeps
<1>7. CASE stage = "none" /\ LoadOutcomeRow
  <2>1. /\ worker.pc = "ended" /\ worker'.pc = "recording" /\ UNCHANGED rows
        /\ worker'.job = worker.job /\ worker'.outcome = worker.outcome
    BY <1>2, <1>7 DEF LoadOutcomeRow, TypeOK
  <2>2. Busy BY <2>1 DEF Busy
  <2>3. Returned' <=> Returned BY <2>1 DEF Returned
  <2>4. Returned => Reported(worker.job) BY DEF RunInv, StageInv
  <2>5. Ending(worker.job) => Returned' BY <1>7, <2>3 DEF Ending
  <2>. QED BY <1>1, <1>2, <1>3, <1>7, <2>1, <2>2, <2>3, <2>4, <2>5, RunnerStepKeeps
<1>8. CASE RecordOutcome
  <2>1. worker.pc = "recording" /\ worker' = Idle BY <1>8 DEF RecordOutcome
  <2>2. worker'.pc = "idle" BY <2>1 DEF Idle, WorkerDown
  <2>3. stage' = "none" BY <1>2, <1>3, <2>1 DEF EvalTypeOK
  <2>4. ~Busy' /\ ~Starting' BY <2>2 DEF Busy, Starting
  <2>5. \A j \in Supported : Ending(j) => rows'[j].status \in Terminal
    BY <1>2, <1>3, <1>8, <2>3, RecordOutcomeEnds DEF Ending, Returned
  <2>. QED BY <1>1, <1>2, <1>3, <2>3, <2>4, <2>5, IdleStepKeeps
<1>9. CASE stage = "none" /\ RecordLost
  <2>1. worker' = Idle /\ dbErrors' = dbErrors + 1 BY <1>9 DEF RecordLost
  <2>2. worker'.pc = "idle" BY <2>1 DEF Idle, WorkerDown
  <2>3. ~Busy' /\ dbErrors' # 0 BY <1>2, <2>1, <2>2 DEF Busy
  <2>. QED BY <1>1, <1>2, <1>3, <1>9, <2>3, IdleStepKeeps
<1>. QED BY <1>5, <1>6, <1>7, <1>8, <1>9 DEF DispatcherStep

LEMMA EvalWorkerCrashKeeps ==
    ASSUME RunInv, EvalWorkerCrash
    PROVE  RunInv'
<1>1. /\ QueueStep /\ UNCHANGED <<runs, creating>>
      /\ stage' = "none" /\ answered' = 0 /\ pending' = 0
      /\ worker' = WorkerDown /\ restarts' = restarts + 1
  BY DEF EvalWorkerCrash, WorkerCrash, QueueStep
<1>2. ~Busy' BY <1>1 DEF WorkerDown, Busy
<1>3. restarts' # 0 BY <1>1 DEF RunInv, EvalTypeOK, TypeOK
<1>. QED BY <1>1, <1>2, <1>3, IdleStepKeeps

-----------------------------------------------------------------------------
(* Theorems *)

LEMMA RunInvInit == EvalInit => RunInv
<1>. SUFFICES ASSUME EvalInit PROVE RunInv OBVIOUS
<1>1. Init /\ TypeOK /\ Inv BY TypeInit, InvInit DEF EvalInit
<1>2. \A j \in Jobs : runs[j] = NoRun BY DEF EvalInit
<1>3. NoRun \in Run /\ ~NoRun.report.given /\ NoRun.results = 0
  BY DEF NoRun, NoReport, Run
<1>4. worker.pc = "down" /\ ~worker.stopping /\ ~Busy
  BY <1>1 DEF Init, WorkerDown, Busy
<1>5. EvalTypeOK BY <1>1, <1>3, <1>4 DEF EvalInit, EvalTypeOK
<1>6. CreatingInv
  <2>1. \A j \in Supported : ~Present(rows[j]) BY <1>1 DEF Init, Supported
  <2>2. \A c \in Clients : requests[c].pc = "free" BY <1>1 DEF Init, NoRequest
  <2>3. \A j \in Supported : ~Present(apiSeen[j])
    BY <1>1, NothingPresent, SupportedJobs DEF Init
  <2>. QED BY <2>1, <2>2, <2>3 DEF CreatingInv, EvalInit
<1>7. StageInv BY <1>4 DEF StageInv, EvalInit, Returned
<1>8. NoPartialResults BY <1>2, <1>3 DEF NoPartialResults
<1>9. SucceededJobHasReport
  BY <1>1 DEF SucceededJobHasReport, Init, Supported, Present
<1>10. ReportedOnce BY <1>2, <1>3, <1>4 DEF ReportedOnce, Given
<1>. QED BY <1>1, <1>5, <1>6, <1>7, <1>8, <1>9, <1>10 DEF RunInv, EvalInit

LEMMA RunInvStep == RunInv /\ [EvalNext]_allVars => RunInv'
<1>. SUFFICES ASSUME RunInv, [EvalNext]_allVars PROVE RunInv' OBVIOUS
<1>1. ASSUME NEW j \in Jobs, CreateRun(j) PROVE RunInv' BY <1>1, CreateRunKeeps
<1>2. ASSUME NEW j \in Jobs, EnqueueRun(j) \/ EnqueueRunFails(j) PROVE RunInv'
  BY <1>2, EnqueueRunKeeps, EnqueueRunFailsKeeps
<1>3. CASE EvalApiCrash BY <1>3, EvalApiCrashKeeps
<1>4. CASE ApiStep BY <1>4, ApiStepKeeps
<1>5. CASE ClaimRun BY <1>5, ClaimRunKeeps
<1>6. CASE BeginRun BY <1>6, BeginRunKeeps
<1>7. CASE AskQuestion BY <1>7, AskQuestionKeeps
<1>8. CASE CommitReport BY <1>8, CommitReportKeeps
<1>9. CASE ReturnRun BY <1>9, ReturnRunKeeps
<1>10. CASE RaiseInRun \/ RaiseUnrecorded BY <1>10, RaiseKeeps
<1>11. CASE FailRun BY <1>11, FailRunKeeps
<1>12. CASE DispatcherStep BY <1>12, DispatcherStepKeeps
<1>13. CASE EvalWorkerCrash BY <1>13, EvalWorkerCrashKeeps
<1>14. CASE UNCHANGED allVars
  <2>1. UNCHANGED vars /\ UNCHANGED evalVars BY <1>14 DEF allVars
  <2>2. QueueStep /\ UNCHANGED worker BY <2>1 DEF QueueStep, vars
  <2>3. ~ClaimSome BY <2>2, ClaimDoes DEF RunInv, EvalTypeOK
  <2>. QED BY <2>1, <2>2, <2>3, QuietStepKeeps DEF evalVars
<1>. QED BY <1>1, <1>2, <1>3, <1>4, <1>5, <1>6, <1>7, <1>8, <1>9, <1>10, <1>11, <1>12,
            <1>13, <1>14 DEF EvalNext

LEMMA RunInvAlways == EvalSpec => []RunInv
BY RunInvInit, RunInvStep, PTL DEF EvalSpec

\* The runner's transactions happen while the worker executes the job of their
\* run, and a run waits for its job as `queued` (runner.py run_evaluation,
\* routers/evaluation.py).
THEOREM EvalTypeCorrect == EvalSpec => []EvalTypeOK
<1>1. RunInv => EvalTypeOK BY DEF RunInv
<1>. QED BY <1>1, RunInvAlways, PTL

\* However often an evaluation is aborted, fails or is killed, a run without a
\* report has no result rows, although each retrieval commits the session
\* (runner.py run_evaluation, graph_retrieval.py query_collection).
THEOREM NeverPartialResults == EvalSpec => []NoPartialResults
<1>1. RunInv => NoPartialResults BY DEF RunInv
<1>. QED BY <1>1, RunInvAlways, PTL

\* A succeeded job has a succeeded run with its report, although the run and the
\* job are ended by different transactions from different copies (runner.py
\* run_evaluation, background_runner.py _dispatch_one).
THEOREM SucceededJobsHaveReports == EvalSpec => []SucceededJobHasReport
<1>1. RunInv => SucceededJobHasReport BY DEF RunInv
<1>. QED BY <1>1, RunInvAlways, PTL

\* Unless a process was killed or stopped or a transaction failed, the report
\* counts the result rows: no run is reported twice (runner.py run_evaluation).
THEOREM ReportsCountResults == EvalSpec => []ReportCountsResults
<1>1. RunInv => ReportCountsResults
  BY DEF RunInv, ReportedOnce, ReportCountsResults, Given
<1>. QED BY <1>1, RunInvAlways, PTL
-----------------------------------------------------------------------------
(* A job and its run end alike as long as nothing is killed, stopped or lost. *)

Undisturbed == restarts = 0 /\ dbErrors = 0

\* Without disturbance every attempt ends its run before the dispatcher records
\* the outcome, so a run that is open was not attempted or is being attempted.
EndsAlike(j) ==
    /\ Starting => rows[j].attempts = 0 /\ ~Present(seen[j])
    /\ rows[j].status = "running" => worker.job = j
    /\ ~Present(rows[j]) => runs[j].status \in {"absent", "queued"}
    /\ worker.job = j =>
          /\ rows[j].attempts > 0 /\ rows[j].status # "failed"
          /\ stage = "none" /\ ~Returned => runs[j].status = "failed"
    /\ worker.job # j =>
          /\ rows[j].attempts > 0 => runs[j].status \in {"failed", "succeeded"}
          /\ rows[j].status = "failed" => runs[j].status = "failed"

EndInv == Undisturbed => \A j \in Supported : EndsAlike(j)

LEMMA EndInvEnough == RunInv /\ EndInv => JobAndRunEndAlike
<1>. SUFFICES ASSUME RunInv, EndInv, Undisturbed, NEW j \in Supported
              PROVE  /\ Over(j) /\ rows[j].status # "cancelled"
                           => runs[j].status = rows[j].status
                     /\ runs[j].status \in {"queued", "running"} =>
                           \/ rows[j].status \in Active \/ InFlight(j)
                           \/ rows[j].status = "cancelled" /\ rows[j].attempts = 0
                           \/ runs[j].status = "queued" /\ ~Present(rows[j])
  BY DEF JobAndRunEndAlike, Undisturbed
<1>1. EndsAlike(j) BY DEF EndInv
<1>2. TypeOK /\ j \in Jobs /\ rows[j] \in Row
  BY SupportedJobs DEF RunInv, EvalTypeOK, TypeOK, Table
<1>3. rows[j].attempts \in Nat /\ rows[j].status \in Active \cup Terminal \cup {"absent"}
  BY <1>2 DEF Row
<1>4. rows[j].status = "succeeded" => runs[j].status = "succeeded"
  BY DEF RunInv, SucceededJobHasReport
<1>5. worker.job = j => InFlight(j)
  BY <1>2, NoJobNotInJobs DEF TypeOK, InFlight
<1>6. Over(j) /\ rows[j].status # "cancelled" => runs[j].status = rows[j].status
  BY <1>1, <1>4, <1>5 DEF Over, Terminal, EndsAlike
<1>7. ASSUME runs[j].status \in {"queued", "running"}, worker.job # j
      PROVE  \/ rows[j].status \in Active
             \/ rows[j].status = "cancelled" /\ rows[j].attempts = 0
             \/ runs[j].status = "queued" /\ ~Present(rows[j])
  BY <1>1, <1>3, <1>4, <1>7 DEF EndsAlike, Present, Active, Terminal
<1>. QED BY <1>5, <1>6, <1>7

\* What an undisturbed step of the queue does to a job: nothing or a cancel, or
\* it claims the job, or it records the outcome.
Kept(j) ==
    /\ rows'[j].attempts = rows[j].attempts
    /\ rows'[j].status \in {rows[j].status, "cancelled"}
    /\ Present(rows'[j]) <=> Present(rows[j])
    /\ worker'.job = j <=> worker.job = j
    /\ Starting' => Starting /\ ~Present(seen'[j])

Taken(j) ==
    /\ rows[j].status = "queued" /\ rows'[j].status = "running"
    /\ rows'[j].attempts > 0
    /\ worker.job # j /\ worker'.job = j /\ ~Starting'
    /\ ClaimSome

Settled(j) ==
    /\ Present(rows[j]) /\ Present(rows'[j])
    /\ rows'[j].attempts = rows[j].attempts
    /\ worker.job = j /\ worker'.job # j /\ ~Starting'
    /\ rows'[j].status # "running"
    /\ rows'[j].status = "failed" => ~Returned \/ rows[j].status = "failed"
    /\ RecordOutcome


\* A row that is requeued or failed by its outcome belongs to a run that failed.
LEMMA OutcomeSettles ==
    ASSUME RunInv, EndInv, RecordOutcome, restarts' = 0, dbErrors' = 0,
           NEW j \in Supported, worker.job = j, QueueStep
    PROVE  Settled(j)
<1>1. /\ TypeOK /\ TypeOK' /\ Inv /\ Inv' /\ j \in Jobs
      /\ worker.pc = "recording" /\ Busy /\ UNCHANGED <<restarts, dbErrors>>
  BY QueueKept, SupportedJobs DEF RunInv, EvalTypeOK, RecordOutcome, Busy, bounds
<1>2. /\ rows[j] \in Row /\ seen[j] \in Row /\ worker.outcome \in Outcomes
      /\ Present(rows[j])
  BY <1>1 DEF TypeOK, Table, Inv, HeldIsClaimed, Present
<1>3. rows'[j] = Update(seen[j], Recorded(seen[j], worker.outcome), rows[j])
  BY <1>1 DEF RecordOutcome, TypeOK, Table
<1>4. worker'.pc = "idle" /\ worker'.job # j
  BY <1>1, NoJobNotInJobs DEF RecordOutcome, Idle, WorkerDown
<1>5. rows'[j].attempts = rows[j].attempts BY <1>3 DEF Update
<1>6. rows'[j].status # "running"
  BY <1>1, <1>4 DEF EndInv, Inv, RunningIsOwned
<1>7. /\ Present(rows'[j])
      /\ rows'[j].status = "failed" => ~Returned \/ rows[j].status = "failed"
  <2>1. rows'[j].status = IF Recorded(seen[j], worker.outcome).status = seen[j].status
                          THEN rows[j].status ELSE Recorded(seen[j], worker.outcome).status
    BY <1>3, UpdateStatus
  <2>2. CASE worker.outcome = "returned"
    <3>1. rows'[j].status \in {rows[j].status, "succeeded"}
      BY <1>2, <2>1, <2>2, RewrittenStatus
    <3>. QED BY <1>2, <3>1 DEF Present
  <2>3. CASE worker.outcome # "returned"
    <3>1. rows'[j].status \in {rows[j].status, "cancelled", "queued", "failed"}
      BY <1>2, <2>1, <2>3, RewrittenStatus
    <3>. QED BY <1>2, <2>3, <3>1 DEF Present, Returned
  <2>. QED BY <2>2, <2>3
<1>. QED BY <1>2, <1>4, <1>5, <1>6, <1>7 DEF Settled, Starting

LEMMA UndisturbedStep ==
    ASSUME RunInv, EndInv, QueueStep, restarts' = 0, dbErrors' = 0
    PROVE  /\ Undisturbed
           /\ ~RecordLost /\ ~WorkerCrash /\ ~WorkerStopRequested /\ ~WorkerExit /\ ~ApiCrash
           /\ ~RaiseUnrecorded
           /\ \A j \in Jobs : ~ClaimLost(j)
<1>1. /\ TypeOK /\ restarts \in Nat /\ dbErrors = 0 /\ restarts = 0
  BY CountersGrow, QueueStepIsNext DEF RunInv, EvalTypeOK, TypeOK
<1>2. ~RecordLost /\ ~RaiseUnrecorded /\ \A j \in Jobs : ~ClaimLost(j)
  BY <1>1 DEF RecordLost, ClaimLost, RaiseUnrecorded
<1>3. ~WorkerCrash /\ ~WorkerStopRequested /\ ~ApiCrash
  BY <1>1 DEF WorkerCrash, WorkerStopRequested, ApiCrash
<1>4. ~WorkerExit BY <1>1 DEF WorkerExit, RunInv, ReportedOnce
<1>. QED BY <1>1, <1>2, <1>3, <1>4 DEF Undisturbed

LEMMA JobMoves ==
    ASSUME RunInv, EndInv, QueueStep, restarts' = 0, dbErrors' = 0, NEW j \in Supported
    PROVE  Kept(j) \/ Taken(j) \/ Settled(j)
<1>0. /\ TypeOK /\ TypeOK' /\ Inv /\ CreatingInv /\ j \in Jobs /\ rows[j] \in Row
      /\ rows'[j] \in Row /\ EndsAlike(j)
  BY UndisturbedStep, QueueKept, SupportedJobs
     DEF RunInv, EvalTypeOK, TypeOK, Table, EndInv
<1>1. CASE /\ rows'[j] = rows[j] /\ worker'.job = worker.job
           /\ Starting' => Starting /\ ~Present(seen'[j])
  BY <1>1 DEF Kept
<1>2. CASE ApiStart \/ ApiReap \/ UNCHANGED vars
             \/ \E c \in Clients, k \in Jobs : CancelLoad(c, k)
  <2>1. UNCHANGED <<worker, seen>>
    BY <1>2 DEF ApiStart, ApiReap, CancelLoad, workerVars, vars
  <2>2. rows'[j] = rows[j]
    BY <1>0, <1>2 DEF ApiStart, ApiReap, CancelLoad, vars, Loaded, CreatingInv
  <2>. QED BY <1>0, <1>1, <2>1, <2>2 DEF EndsAlike, Starting
<1>3. ASSUME NEW c \in Clients, CancelCommit(c) PROVE Kept(j)
  <2>. DEFINE r == requests[c]
  <2>1. r.pc = "loaded" /\ r.job \in Jobs /\ r.seen \in Row /\ Present(rows[r.job])
    BY <1>0, <1>3 DEF CancelCommit, TypeOK, CreatingInv
  <2>2. rows' = [rows EXCEPT ![r.job] = Update(r.seen, CancelRequest(r.seen), rows[r.job])]
    BY <1>3 DEF CancelCommit
  <2>3. rows'[j].attempts = rows[j].attempts BY <1>0, <2>1, <2>2 DEF Update, TypeOK, Table
  <2>4. rows'[j].status \in {rows[j].status, "cancelled"}
    <3>1. rows \in [Jobs -> Row] BY <1>0 DEF TypeOK, Table
    <3>2. rows'[j] = IF j = r.job THEN Update(r.seen, CancelRequest(r.seen), rows[j])
                     ELSE rows[j]
      BY <1>0, <2>1, <2>2, <3>1
    <3>. HIDE DEF r
    <3>. QED BY <2>1, <3>2, UpdateStatus, RewrittenStatus
  <2>5. j # r.job => rows'[j] = rows[j] BY <1>0, <2>2 DEF TypeOK, Table
  <2>6. UNCHANGED <<worker, seen>> BY <1>3 DEF CancelCommit, workerVars
  <2>. QED BY <1>0, <2>1, <2>3, <2>4, <2>5, <2>6 DEF Kept, Present, EndsAlike, Starting
<1>4. CASE WorkerStart \/ LoadStaleRunningJobs
  <2>1. worker'.job = worker.job /\ Starting /\ rows' = rows
    BY <1>0, <1>4 DEF WorkerStart, LoadStaleRunningJobs, TypeOK, Starting
  <2>2. worker.job # j
    BY <1>0, <2>1, NoJobNotInJobs DEF TypeOK, Starting, Busy
  <2>3. j \notin LegacyActive /\ j \notin SupportedRunning
    BY <1>0, <2>2 DEF EndsAlike, LegacyActive, SupportedRunning, Supported
  <2>4. ~Present(seen'[j])
    BY <1>0, <1>4, <2>3, LoadedRow DEF WorkerStart, LoadStaleRunningJobs, Present, NoRow
  <2>. QED BY <1>1, <2>1, <2>4
<1>5. CASE ReapUnsupportedQueueRows \/ ReapStaleRunningJobs
  <2>1. Starting BY <1>5 DEF ReapUnsupportedQueueRows, ReapStaleRunningJobs, Starting
  <2>2. ~Present(seen[j]) BY <1>0, <2>1 DEF EndsAlike
  <2>3. rows'[j] = rows[j]
    BY <1>0, <1>5, <2>2 DEF ReapUnsupportedQueueRows, ReapStaleRunningJobs, Loaded
  <2>4. worker'.job = worker.job /\ ~Present(seen'[j])
    BY <1>0, <1>5, NothingPresent
       DEF ReapUnsupportedQueueRows, ReapStaleRunningJobs, TypeOK
  <2>. QED BY <1>1, <2>1, <2>3, <2>4
<1>6. CASE ClaimSome
  <2>1. PICK k \in Supported :
           /\ rows[k].status = "queued"
           /\ rows' = [rows EXCEPT ![k] = Claimed(rows[k])]
           /\ rows'[k].status = "running"
           /\ worker'.job = k /\ worker'.pc = "running" /\ worker.pc = "idle"
    BY <1>0, <1>6, ClaimDoes
  <2>2. worker.job # j /\ ~Starting'
    BY <1>0, <2>1, NoJobNotInJobs DEF TypeOK, Busy, Starting
  <2>3. CASE k = j
    <3>1. rows'[j].attempts = rows[j].attempts + 1
      BY <1>0, <2>1, <2>3 DEF Claimed, Row, TypeOK, Table
    <3>2. rows[j].attempts \in Nat BY <1>0 DEF Row
    <3>. QED BY <1>6, <2>1, <2>2, <2>3, <3>1, <3>2 DEF Taken
  <2>4. CASE k # j
    <3>1. rows'[j] = rows[j] BY <1>0, <2>1, <2>4 DEF TypeOK, Table
    <3>. QED BY <2>1, <2>2, <2>4, <3>1 DEF Kept
  <2>. QED BY <2>3, <2>4
<1>7. CASE DeadlinePasses \/ Checkpoint \/ RunnerReturns \/ RunnerRaises \/ LoadOutcomeRow
  <2>1. /\ rows' = rows /\ worker'.job = worker.job
        /\ worker'.pc \in {"running", "ended", "recording"}
    BY <1>0, <1>7 DEF DeadlinePasses, Checkpoint, RunnerReturns, RunnerRaises,
                      LoadOutcomeRow, Ended, TypeOK
  <2>. QED BY <1>1, <2>1 DEF Starting
<1>8. CASE RecordOutcome
  <2>1. CASE worker.job = j BY <1>8, <2>1, OutcomeSettles
  <2>2. CASE worker.job # j
    <3>1. rows'[j] = rows[j] BY <1>0, <1>8, <2>2 DEF RecordOutcome, TypeOK, Table
    <3>2. worker'.pc = "idle" /\ worker'.job = NoJob
      BY <1>8 DEF RecordOutcome, Idle, WorkerDown
    <3>. QED BY <1>0, <2>2, <3>1, <3>2, NoJobNotInJobs DEF Kept, Starting
  <2>. QED BY <2>1, <2>2
<1>. QED BY <1>2, <1>3, <1>4, <1>5, <1>6, <1>7, <1>8, UndisturbedStep DEF QueueStep

\* A step keeps EndsAlike when what the runner does fits what happens to the job.
LEMMA AlikeKept ==
    ASSUME RunInv, EndInv, QueueStep, restarts' = 0, dbErrors' = 0, NEW j \in Supported,
           ~Present(rows[j]) => runs'[j].status \in {"absent", "queued"},
           worker'.job = j /\ stage' = "none" /\ ~Returned' => runs'[j].status = "failed",
           worker.job = j /\ worker'.job # j => stage = "none",
           \/ worker.job = j /\ worker'.job = j
           \/ runs'[j].status = runs[j].status
           \/ ~Present(rows[j])
    PROVE  EndsAlike(j)'
<1>1. /\ EndsAlike(j) /\ TypeOK /\ TypeOK' /\ j \in Jobs /\ rows'[j] \in Row
  BY UndisturbedStep, QueueKept, SupportedJobs
     DEF EndInv, RunInv, EvalTypeOK, TypeOK, Table
<1>2. rows'[j].attempts \in Nat BY <1>1 DEF Row
<1>3. CASE Kept(j)
  <2>1. ~Present(rows[j]) => worker.job # j
    BY <1>1, NoJobNotInJobs DEF RunInv, Inv, HeldIsClaimed, TypeOK, Present
  <2>2. ~Present(rows[j]) => ~(rows[j].attempts > 0)
    BY <1>1, <2>1 DEF EndsAlike, RunInv, EvalTypeOK
  <2>3. CASE ~Present(rows[j])
    <3>1. /\ ~Present(rows'[j]) /\ rows'[j].status = "absent"
          /\ ~(rows'[j].attempts > 0) /\ worker'.job # j
      BY <1>3, <2>1, <2>2, <2>3 DEF Kept, Present
    <3>. QED BY <1>1, <1>3, <2>3, <3>1 DEF Kept, EndsAlike
  <2>4. CASE Present(rows[j])
    <3>1. CASE worker.job = j
      BY <1>1, <1>3, <2>4, <3>1 DEF Kept, EndsAlike, Present
    <3>2. CASE worker.job # j
      BY <1>1, <1>3, <2>4, <3>2 DEF Kept, EndsAlike, Present
    <3>. QED BY <3>1, <3>2
  <2>. QED BY <2>3, <2>4
<1>4. CASE Taken(j)
  BY <1>1, <1>4 DEF Taken, EndsAlike, Present
<1>5. CASE Settled(j)
  <2>1. stage = "none" /\ runs'[j].status = runs[j].status
    BY <1>5 DEF Settled
  <2>2. Returned => runs[j].status = "succeeded" BY <1>5 DEF Settled, RunInv, StageInv, Reported
  <2>3. ~Returned => runs[j].status = "failed" BY <1>1, <1>5, <2>1 DEF Settled, EndsAlike
  <2>. QED BY <1>1, <1>5, <2>1, <2>2, <2>3 DEF Settled, EndsAlike
<1>. QED BY <1>3, <1>4, <1>5, JobMoves

LEMMA EnqueueKeepsAlike ==
    ASSUME RunInv, NEW j \in Supported, EndsAlike(j), NEW k \in Jobs, EnqueueRun(k)
    PROVE  EndsAlike(j)'
<1>1. TypeOK /\ j \in Jobs BY SupportedJobs DEF RunInv, EvalTypeOK
<1>2. /\ UNCHANGED <<worker, seen, runs, stage>> /\ creating' = creating \ {k}
      /\ ~Present(rows[k]) /\ k \in creating /\ rows' = [rows EXCEPT ![k] = NewRow]
  BY DEF EnqueueRun, Enqueue, workerVars
<1>3. CASE j = k
  <2>1. rows'[j].status = "queued" /\ rows'[j].attempts = 0
    BY <1>1, <1>2, <1>3 DEF TypeOK, Table, NewRow, NoRow
  <2>2. worker.job # j
    BY <1>1, <1>2, <1>3, NoJobNotInJobs DEF RunInv, Inv, HeldIsClaimed, TypeOK, Present
  <2>. QED BY <1>2, <1>3, <2>1, <2>2 DEF EndsAlike, Present, Starting
<1>4. CASE j # k
  <2>1. rows'[j] = rows[j] BY <1>1, <1>2, <1>4 DEF TypeOK, Table
  <2>. QED BY <1>2, <1>4, <2>1 DEF EndsAlike, Present, Starting, Returned
<1>. QED BY <1>3, <1>4

LEMMA AlikeStep ==
    ASSUME RunInv, EndInv, EvalNext \/ UNCHANGED allVars, restarts' = 0, dbErrors' = 0,
           QueueStep, NEW j \in Supported
    PROVE  EndsAlike(j)'
<1>0. /\ EndsAlike(j) /\ TypeOK /\ TypeOK' /\ j \in Jobs /\ EvalTypeOK /\ CreatingInv
  BY UndisturbedStep, QueueKept, SupportedJobs DEF EndInv, RunInv, EvalTypeOK
<1>1. worker.job = j => Present(rows[j]) /\ Busy
  BY <1>0, NoJobNotInJobs DEF RunInv, Inv, HeldIsClaimed, TypeOK, Present
<1>2. ASSUME NEW k \in Jobs, CreateRun(k) PROVE EndsAlike(j)'
  <2>1. UNCHANGED <<vars, worker, stage>> /\ creating' = creating \cup {k} /\ runs[k] = NoRun
    BY <1>2 DEF CreateRun, vars
  <2>2. j # k => runs'[j] = runs[j] BY <1>0, <1>2 DEF CreateRun, EvalTypeOK
  <2>3. ~Present(rows[k]) \/ k \notin Supported BY <1>0, <2>1 DEF CreatingInv, NoRun
  <2>4. j = k => worker.job # j BY <1>1, <2>3
  <2>5. Returned' <=> Returned BY <2>1 DEF Returned
  <2>6. runs'[k].status = "queued" BY <1>0, <1>2 DEF CreateRun, EvalTypeOK, Run
  <2>. QED BY <1>0, <2>1, <2>2, <2>3, <2>4, <2>5, <2>6, AlikeKept DEF EndsAlike
<1>3. CASE EvalApiCrash \/ EvalWorkerCrash \/ RaiseUnrecorded
  BY <1>3, UndisturbedStep DEF EvalApiCrash, EvalWorkerCrash, RaiseUnrecorded
<1>4. CASE ApiStep \/ (\E k \in Jobs : EnqueueRunFails(k)) \/ UNCHANGED allVars
  <2>1. UNCHANGED <<worker, runs, stage>>
    BY <1>4 DEF ApiStep, ApiStart, ApiReap, CancelLoad, CancelCommit, workerVars,
                EnqueueRunFails, evalVars, allVars, vars
  <2>. QED BY <1>0, <2>1, AlikeKept DEF EndsAlike, Returned
<1>5. CASE ClaimRun
  <2>1. UNCHANGED <<runs, creating>> /\ stage' = "claimed" /\ ClaimSome
    BY <1>5 DEF ClaimRun
  <2>2. worker.pc = "idle" BY <1>0, <2>1, ClaimDoes
  <2>3. worker.job # j BY <1>1, <2>2 DEF Busy
  <2>. QED BY <1>0, <2>1, <2>3, AlikeKept DEF EndsAlike
<1>6. CASE BeginRun \/ CommitReport \/ FailRun
  <2>1. UNCHANGED <<vars, worker, creating>> /\ stage # "none"
    BY <1>6 DEF BeginRun, CommitReport, FailRun, vars
  <2>2. worker.job # j => runs'[j] = runs[j]
    BY <1>0, <1>6, StageIsBusy, <2>1 DEF BeginRun, CommitReport, FailRun, Commit, EvalTypeOK
  <2>3. worker.job = j /\ stage' = "none" => runs'[j].status = "failed"
    <3>1. runs[j] \in Run BY <1>0 DEF EvalTypeOK
    <3>. QED BY <1>0, <1>6, <3>1 DEF BeginRun, CommitReport, FailRun, EvalTypeOK, Run
  <2>. QED BY <1>0, <1>1, <2>1, <2>2, <2>3, AlikeKept DEF EndsAlike
<1>7. CASE AskQuestion \/ ReturnRun \/ RaiseInRun
  <2>1. /\ UNCHANGED <<rows, creating>> /\ worker'.job = worker.job /\ stage # "none"
        /\ stage' = "none" => worker'.pc = "ended" /\ worker'.outcome = "returned"
    BY <1>0, <1>7 DEF AskQuestion, ReturnRun, RaiseInRun, Checkpoint, RunnerReturns,
                      RunnerRaises, Ended, TypeOK
  <2>2. runs' = runs
    <3>1. CASE AskQuestion
      <4>1. Busy /\ runs[worker.job] \in Run BY <2>1, StageIsBusy, RunnerHasJob
      <4>2. Commit(runs[worker.job]) => runs' = [runs EXCEPT ![worker.job] = runs[worker.job]]
        BY <4>1, CommitDoes
      <4>3. [runs EXCEPT ![worker.job] = runs[worker.job]] = runs
        BY <1>0, <4>1, RunnerHasJob DEF EvalTypeOK
      <4>. QED BY <3>1, <4>2, <4>3 DEF AskQuestion, OwnRun
    <3>. QED BY <1>7, <3>1 DEF ReturnRun, RaiseInRun
  <2>. QED BY <1>0, <2>1, <2>2, AlikeKept DEF EndsAlike, Returned
<1>8. CASE DispatcherStep
  <2>1. UNCHANGED <<runs, creating, stage>> BY <1>8 DEF DispatcherStep, evalVars
  <2>2. \/ RecordOutcome
        \/ worker'.job = worker.job /\ worker'.outcome = worker.outcome
           /\ (Busy => (Returned' <=> Returned))
    BY <1>0, <1>8, UndisturbedStep
       DEF DispatcherStep, WorkerStart, ReapUnsupportedQueueRows, LoadStaleRunningJobs,
           ReapStaleRunningJobs, DeadlinePasses, LoadOutcomeRow, TypeOK, Returned, Busy
  <2>3. RecordOutcome => stage = "none" /\ worker'.job # j
    BY <1>0, NoJobNotInJobs DEF RecordOutcome, Idle, WorkerDown, EvalTypeOK
  <2>. QED BY <1>0, <1>1, <2>1, <2>2, <2>3, AlikeKept DEF EndsAlike
<1>9. ASSUME NEW k \in Jobs, EnqueueRun(k) PROVE EndsAlike(j)'
  BY <1>0, <1>9, EnqueueKeepsAlike
<1>. QED BY <1>2, <1>3, <1>4, <1>5, <1>6, <1>7, <1>8, <1>9 DEF EvalNext

LEMMA EndInvStep == RunInv /\ EndInv /\ [EvalNext]_allVars => EndInv'
<1>. SUFFICES ASSUME RunInv, EndInv, EvalNext \/ UNCHANGED allVars, Undisturbed',
                     NEW j \in Supported
              PROVE  EndsAlike(j)'
  BY DEF EndInv
<1>1. restarts' = 0 /\ dbErrors' = 0 BY DEF Undisturbed
<1>2. CASE QueueStep BY <1>1, <1>2, AlikeStep
<1>3. ASSUME NEW k \in Jobs, EnqueueRun(k) PROVE EndsAlike(j)'
  <2>1. Undisturbed BY <1>1, <1>3 DEF EnqueueRun, Enqueue, bounds, Undisturbed
  <2>. QED BY <1>3, <2>1, EnqueueKeepsAlike DEF EndInv
<1>4. UNCHANGED allVars => QueueStep BY DEF allVars, QueueStep
<1>. QED BY <1>2, <1>3, <1>4, RunnerUsesQueue

LEMMA EndInvInit == EvalInit => EndInv
<1>. SUFFICES ASSUME EvalInit, NEW j \in Supported PROVE EndsAlike(j)
  BY DEF EndInv
<1>1. j \in Jobs /\ j \notin Legacy BY DEF Supported
<1>2. rows[j] = NoRow /\ ~Present(rows[j])
  <2>1. ~Present(rows[j]) BY <1>1 DEF EvalInit, Init
  <2>2. rows[j] \in OldRows \cup {NoRow} BY <1>1 DEF EvalInit, Init
  <2>3. \A row \in OldRows : Present(row)
    BY DEF OldRows, NewRow, NoRow, Present
  <2>. QED BY <2>1, <2>2, <2>3
<1>3. ~Present(seen[j]) BY <1>1, NothingPresent DEF EvalInit, Init
<1>4. worker.job # j
  BY <1>1, NoJobNotInJobs DEF EvalInit, Init, WorkerDown
<1>5. runs[j].status = "absent" BY <1>1 DEF EvalInit, NoRun
<1>6. rows[j].attempts = 0 /\ rows[j].status = "absent" BY <1>2 DEF NoRow
<1>. QED BY <1>2, <1>3, <1>4, <1>5, <1>6 DEF EndsAlike

\* As long as no process is killed or stopped and no transaction of the worker
\* fails, a job and its run end alike, although different transactions end them, whatever cancels,
\* timeouts, errors and further attempts they meet (runner.py run_evaluation,
\* background_runner.py _dispatch_one, routers/jobs.py cancel_job).
THEOREM JobsAndRunsEndAlike == EvalSpec => []JobAndRunEndAlike
<1>1. EvalSpec => []EndInv
  BY RunInvAlways, EndInvInit, EndInvStep, PTL DEF EvalSpec
<1>. QED BY <1>1, RunInvAlways, EndInvEnough, PTL
=============================================================================
