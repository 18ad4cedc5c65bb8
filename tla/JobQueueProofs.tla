--------------------------- MODULE JobQueueProofs ---------------------------
(***************************************************************************)
(* Theorems of JobQueue, for every set of jobs, number of clients, budget  *)
(* of attempts and bound.                                                  *)
(***************************************************************************)
EXTENDS JobQueue, TLAPS

USE AttemptsAssumption

-----------------------------------------------------------------------------
(* The operators on rows *)

LEMMA RowConstants == NoRow \in Row /\ NewRow \in Row
BY DEF NoRow, NewRow, Row, Active, Terminal

LEMMA UpdateInRow ==
    ASSUME NEW before \in Row, NEW after \in Row, NEW stored \in Row
    PROVE  Update(before, after, stored) \in Row
BY DEF Update, Column, Row

LEMMA RewritesInRow ==
    ASSUME NEW row \in Row
    PROVE  /\ RequeueOrFail(row) \in Row
           /\ Cancelled(row) \in Row
           /\ Unsupported(row) \in Row
           /\ Stale(row) \in Row
           /\ CancelRequest(row) \in Row
           /\ Claimed(row) \in Row
           /\ \A o \in Outcomes : Recorded(row, o) \in Row
<1>1. RequeueOrFail(row) \in Row
  BY DEF RequeueOrFail, Row, Active, Terminal
<1>2. Cancelled(row) \in Row
  BY DEF Cancelled, Row, Active, Terminal
<1>3. Unsupported(row) \in Row
  BY DEF Unsupported, Row, Active, Terminal
<1>4. Stale(row) \in Row
  BY <1>1, <1>2 DEF Stale
<1>5. CancelRequest(row) \in Row
  BY DEF CancelRequest, Cancelled, Row, Active, Terminal
<1>6. Claimed(row) \in Row
  <2>1. row.attempts + 1 \in Nat
    BY DEF Row
  <2>2. QED
    BY <2>1 DEF Claimed, Row, Active, Terminal
<1>7. ASSUME NEW o \in Outcomes PROVE Recorded(row, o) \in Row
  <2>1. [row EXCEPT !.status = "succeeded", !.finished = TRUE] \in Row
    BY DEF Row, Active, Terminal
  <2>2. QED
    BY <1>1, <1>2, <2>1 DEF Recorded, Outcomes
<1>8. QED
  BY <1>1, <1>2, <1>3, <1>4, <1>5, <1>6, <1>7

LEMMA UpdateStatus ==
    ASSUME NEW before, NEW after, NEW stored
    PROVE  Update(before, after, stored).status
             = IF after.status = before.status THEN stored.status ELSE after.status
BY DEF Update, Column

LEMMA RewrittenStatus ==
    ASSUME NEW row \in Row
    PROVE  /\ Unsupported(row).status = "failed"
           /\ CancelRequest(row).status \in {row.status, "cancelled"}
           /\ Stale(row).status \in {"cancelled", "queued", "failed"}
           /\ Claimed(row).status = "running"
           /\ Recorded(row, "returned").status = 
                 IF row.status = "running" THEN "succeeded" ELSE row.status
           /\ \A o \in Outcomes \ {"returned"} :
                 Recorded(row, o).status \in {"cancelled", "queued", "failed"}
<1>1. Unsupported(row).status = "failed" BY DEF Unsupported, Row
<1>2. Cancelled(row).status = "cancelled" BY DEF Cancelled, Row
<1>3. RequeueOrFail(row).status \in {"queued", "failed"} BY DEF RequeueOrFail, Row
<1>4. CancelRequest(row).status \in {row.status, "cancelled"}
  BY DEF CancelRequest, Cancelled, Row
<1>5. Stale(row).status \in {"cancelled", "queued", "failed"}
  BY <1>2, <1>3 DEF Stale
<1>6. Claimed(row).status = "running" BY DEF Claimed, Row
<1>7. Recorded(row, "returned").status =
         IF row.status = "running" THEN "succeeded" ELSE row.status
  BY DEF Recorded, Row
<1>8. ASSUME NEW o \in Outcomes \ {"returned"}
      PROVE  Recorded(row, o).status \in {"cancelled", "queued", "failed"}
  BY <1>2, <1>3 DEF Recorded, Outcomes
<1>. QED BY <1>1, <1>4, <1>5, <1>6, <1>7, <1>8

LEMMA LoadInTable ==
    ASSUME rows \in Table, NEW S
    PROVE  Load(S) \in Table
BY RowConstants DEF Load, Table

LEMMA NothingLoadedInTable == NothingLoaded \in Table
BY RowConstants DEF NothingLoaded, Table

-----------------------------------------------------------------------------
(* Types *)

WorkerTypeOK ==
    /\ worker \in [pc : WorkerPcs, job : Jobs \cup {NoJob}, left : Nat,
                   expired : BOOLEAN, outcome : Outcomes \cup {"none"},
                   stopping : BOOLEAN]
    /\ Busy <=> worker.job # NoJob
    /\ worker.pc \in {"ended", "recording"} => worker.outcome \in Outcomes

RequestsTypeOK ==
    /\ requests \in [Clients -> [pc : {"free", "loaded"}, job : Jobs \cup {NoJob},
                                 seen : Row]]
    /\ \A c \in Clients : requests[c].pc = "loaded" => requests[c].job \in Jobs

LEMMA WorkerDownType ==
    worker' = WorkerDown => WorkerTypeOK'
BY DEF WorkerDown, WorkerTypeOK, WorkerPcs, Busy, NoJob

LEMMA WorkerIdleType ==
    WorkerTypeOK /\ worker' = Idle => WorkerTypeOK'
<1> SUFFICES ASSUME WorkerTypeOK, worker' = Idle PROVE WorkerTypeOK'
  OBVIOUS
<1>1. worker.stopping \in BOOLEAN
  BY DEF WorkerTypeOK
<1>2. worker' = [pc |-> "idle", job |-> NoJob, left |-> 0, expired |-> FALSE,
                 outcome |-> "none", stopping |-> worker.stopping]
  BY DEF Idle, WorkerDown
<1>3. QED
  BY <1>1, <1>2 DEF WorkerTypeOK, WorkerPcs, Busy, NoJob

LEMMA NoRequestsType ==
    requests' = [c \in Clients |-> NoRequest] => RequestsTypeOK'
BY RowConstants DEF NoRequest, RequestsTypeOK, NoJob

LEMMA NoJobNotInJobs == NoJob \notin Jobs
BY JobsAssumption DEF NoJob

\* TypeOK holds initially and is kept by every step.
LEMMA TypeInit == Init => TypeOK
<1> SUFFICES ASSUME Init PROVE TypeOK
  OBVIOUS
<1>1. rows \in Table
  <2>1. OldRows \cup {NoRow} \subseteq Row
    <3>1. [NewRow EXCEPT !.status = "running", !.attempts = 1, !.started = TRUE] \in Row
      BY DEF NewRow, NoRow, Row, Active, Terminal
    <3>2. QED
      BY <3>1, RowConstants DEF OldRows
  <2>2. QED
    BY <2>1 DEF Init, Table
<1>2. seen \in Table /\ apiSeen \in Table
  BY NothingLoadedInTable DEF Init
<1>3. WorkerTypeOK
  BY DEF Init, WorkerDown, WorkerTypeOK, WorkerPcs, Busy, NoJob
<1>4. RequestsTypeOK
  BY RowConstants DEF Init, NoRequest, RequestsTypeOK, NoJob
<1>5. QED
  BY <1>1, <1>2, <1>3, <1>4 DEF TypeOK, Init, WorkerTypeOK, RequestsTypeOK

LEMMA TypeStep == TypeOK /\ [Next]_vars => TypeOK'
<1> SUFFICES ASSUME TypeOK, [Next]_vars PROVE TypeOK'
  OBVIOUS
<1> USE DEF TypeOK, WorkerTypeOK, RequestsTypeOK, bounds, workerVars, apiVars
<1>1. CASE ApiStart
  BY <1>1, LoadInTable DEF ApiStart, Busy
<1>2. CASE ApiReap
  <2>1. rows' \in Table
    BY <1>2, UpdateInRow, RewritesInRow DEF ApiReap, Table
  <2>2. QED
    BY <1>2, <2>1, NothingLoadedInTable DEF ApiReap, Busy
<1>3. CASE ApiCrash
  BY <1>3, NothingLoadedInTable, NoRequestsType DEF ApiCrash, Busy
<1>4. ASSUME NEW j \in Jobs, Enqueue(j) PROVE TypeOK'
  <2>1. rows' \in Table
    BY <1>4, RowConstants DEF Enqueue, Table
  <2>2. QED
    BY <1>4, <2>1 DEF Enqueue, Busy
<1>5. ASSUME NEW c \in Clients, NEW j \in Jobs, CancelLoad(c, j) PROVE TypeOK'
  <2>1. rows[j] \in Row
    BY DEF Table
  <2>2. RequestsTypeOK'
    BY <1>5, <2>1 DEF CancelLoad
  <2>3. QED
    BY <1>5, <2>2 DEF CancelLoad, Busy
<1>6. ASSUME NEW c \in Clients, CancelCommit(c) PROVE TypeOK'
  <2>1. rows' \in Table
    <3>1. requests[c].job \in Jobs /\ requests[c].seen \in Row
      BY <1>6 DEF CancelCommit
    <3>2. QED
      BY <1>6, <3>1, UpdateInRow, RewritesInRow DEF CancelCommit, Table
  <2>2. RequestsTypeOK'
    BY <1>6, RowConstants DEF CancelCommit, NoRequest, NoJob
  <2>3. QED
    BY <1>6, <2>1, <2>2 DEF CancelCommit, Busy
<1>7. CASE WorkerStart
  BY <1>7, LoadInTable DEF WorkerStart, Busy, WorkerPcs
<1>8. CASE ReapUnsupportedQueueRows
  <2>1. rows' \in Table
    BY <1>8, UpdateInRow, RewritesInRow DEF ReapUnsupportedQueueRows, Table
  <2>2. QED
    BY <1>8, <2>1, NothingLoadedInTable DEF ReapUnsupportedQueueRows, Busy, WorkerPcs
<1>9. CASE LoadStaleRunningJobs
  BY <1>9, LoadInTable DEF LoadStaleRunningJobs, Busy, WorkerPcs
<1>10. CASE ReapStaleRunningJobs
  <2>1. rows' \in Table
    BY <1>10, UpdateInRow, RewritesInRow DEF ReapStaleRunningJobs, Table
  <2>2. QED
    BY <1>10, <2>1, NothingLoadedInTable DEF ReapStaleRunningJobs, Busy, WorkerPcs
<1>11. ASSUME NEW j \in Jobs, NEW n \in 0..MaxChecks, Claim(j, n) PROVE TypeOK'
  <2>1. rows' \in Table
    BY <1>11, RewritesInRow DEF Claim, Table
  <2>2. WorkerTypeOK'
    <3>1. worker' = [worker EXCEPT !.pc = "running", !.job = j, !.left = n] /\ n \in Nat
      BY <1>11, BoundsAssumption DEF Claim
    <3>2. QED
      BY <3>1, NoJobNotInJobs DEF Busy, WorkerPcs
  <2>3. QED
    BY <1>11, <2>1, <2>2 DEF Claim
<1>12. ASSUME NEW j \in Jobs, ClaimLost(j) PROVE TypeOK'
  <2>1. rows' \in Table
    BY <1>12, RewritesInRow DEF ClaimLost, Table
  <2>2. QED
    BY <1>12, <2>1 DEF ClaimLost, Busy
<1>13. CASE DeadlinePasses
  BY <1>13 DEF DeadlinePasses, Busy
<1>14. CASE Checkpoint
  <2>1. WorkerTypeOK'
    <3>1. CASE worker' = [worker EXCEPT !.left = @ - 1]
      BY <1>14, <3>1 DEF Checkpoint, Busy, WorkerPcs
    <3>2. CASE worker' = Ended("timeout") \/ worker' = Ended("cancelled")
      BY <1>14, <3>2 DEF Checkpoint, Ended, Busy, WorkerPcs, Outcomes
    <3>3. QED
      BY <1>14, <3>1, <3>2 DEF Checkpoint
  <2>2. QED
    BY <1>14, <2>1 DEF Checkpoint
<1>15. CASE RunnerReturns
  BY <1>15 DEF RunnerReturns, Ended, Busy, WorkerPcs, Outcomes
<1>16. CASE RunnerRaises
  <2>1. dbErrors' \in Nat
    BY <1>16 DEF RunnerRaises
  <2>2. WorkerTypeOK'
    BY <1>16 DEF RunnerRaises, Ended, Busy, WorkerPcs, Outcomes
  <2>3. QED
    BY <1>16, <2>1, <2>2 DEF RunnerRaises
<1>17. CASE LoadOutcomeRow
  BY <1>17, LoadInTable DEF LoadOutcomeRow, Busy, WorkerPcs
<1>18. CASE RecordOutcome
  <2>1. rows' \in Table
    <3>1. seen[worker.job] \in Row /\ worker.outcome \in Outcomes
      BY <1>18 DEF RecordOutcome, Busy, Table
    <3>2. QED
      BY <1>18, <3>1, UpdateInRow, RewritesInRow DEF RecordOutcome, Table
  <2>2. QED
    BY <1>18, <2>1, NothingLoadedInTable, WorkerIdleType DEF RecordOutcome
<1>19. CASE RecordLost
  BY <1>19, NothingLoadedInTable, WorkerIdleType DEF RecordLost
<1>20. CASE WorkerStopRequested
  <2>1. WorkerTypeOK'
    BY <1>20 DEF WorkerStopRequested, Busy
  <2>2. QED
    BY <1>20, <2>1 DEF WorkerStopRequested
<1>21. CASE WorkerExit
  BY <1>21, WorkerDownType DEF WorkerExit
<1>22. CASE WorkerCrash
  BY <1>22, NothingLoadedInTable, WorkerDownType DEF WorkerCrash
<1>23. CASE UNCHANGED vars
  BY <1>23 DEF vars, Busy
<1>24. QED
  BY <1>1, <1>2, <1>3, <1>4, <1>5, <1>6, <1>7, <1>8, <1>9, <1>10, <1>11, <1>12,
     <1>13, <1>14, <1>15, <1>16, <1>17, <1>18, <1>19, <1>20, <1>21, <1>22, <1>23
     DEF Next, ClaimSome

\* Type correctness: every reachable state of the queue is well-typed
\* (models.py JobRecord, background_runner.py dispatcher_loop).
THEOREM TypeCorrect == Spec => []TypeOK
<1>1. Init => TypeOK
  BY TypeInit
<1>2. TypeOK /\ [Next]_vars => TypeOK'
  BY TypeStep
<1>3. QED
  BY <1>1, <1>2, PTL DEF Spec

-----------------------------------------------------------------------------
(* The inductive invariant *)

\* The worker's transactions load what their WHERE clauses say, and attempts,
\* which only a claim changes, cannot have moved since.
CopiesFresh ==
    /\ worker.pc \notin {"reapingLegacy", "reapingStale", "recording"} => seen = NothingLoaded
    /\ worker.pc = "reapingLegacy" => \A j \in Supported : ~Present(seen[j])
    /\ worker.pc = "reapingStale" =>
           \A j \in Jobs : Present(seen[j]) =>
               j \in Supported /\ seen[j].status = "running" /\ seen[j].started
    /\ \A j \in Jobs : Present(seen[j]) =>
           Present(rows[j]) /\ seen[j].attempts = rows[j].attempts

\* A row the worker is executing has been claimed and not requeued since.
HeldIsClaimed ==
    /\ Busy => /\ worker.job \in Supported
               /\ rows[worker.job].status \notin {"absent", "queued"}
               /\ rows[worker.job].started
    /\ worker.pc = "recording" => /\ seen[worker.job].status \notin {"absent", "queued"}
                                  /\ seen[worker.job].started

\* A `running` row that a loading transaction is about was loaded as `running`.
RunningWasLoaded ==
    \A j \in Supported :
        /\ worker.pc = "reapingStale" \/ (worker.pc = "recording" /\ worker.job = j)
        /\ rows[j].status = "running"
        => seen[j].status = "running"

Inv == /\ AttemptsBounded /\ RunningIsOwned /\ ColumnsAgree
       /\ CopiesFresh /\ HeldIsClaimed /\ RunningWasLoaded

\* What the API's transactions may do to a row.
OnlyEnds(row, new) ==
    /\ new.attempts = row.attempts /\ new.started = row.started
    /\ new.status = row.status \/ (new.status \in Terminal /\ new.finished)
    /\ row.finished => new.finished

LEMMA ApiWritesOnlyEnd ==
    ASSUME NEW before \in Row, NEW stored \in Row
    PROVE  /\ OnlyEnds(stored, stored)
           /\ OnlyEnds(stored, Update(before, CancelRequest(before), stored))
           /\ OnlyEnds(stored, Update(before, Unsupported(before), stored))
<1>1. OnlyEnds(stored, stored)
  BY DEF OnlyEnds
<1>2. OnlyEnds(stored, Update(before, CancelRequest(before), stored))
  BY DEF OnlyEnds, Update, Column, CancelRequest, Cancelled, Row, Terminal
<1>3. OnlyEnds(stored, Update(before, Unsupported(before), stored))
  BY DEF OnlyEnds, Update, Column, Unsupported, Row, Terminal
<1>4. QED
  BY <1>1, <1>2, <1>3

LEMMA ApiStepKeepsInv ==
    ASSUME TypeOK, TypeOK', Inv, UNCHANGED <<worker, seen, dbErrors>>,
           \A j \in Jobs : OnlyEnds(rows[j], rows'[j])
    PROVE  Inv'
<1>1. \A j \in Jobs : rows[j] \in Row /\ rows'[j] \in Row
  BY DEF TypeOK, Table
<1>2. \A j \in Jobs : rows'[j].status \in {"absent", "queued", "running"} =>
                          rows'[j].status = rows[j].status
  BY DEF OnlyEnds, Terminal
<1>3. AttemptsBounded'
  BY <1>1, <1>2 DEF Inv, AttemptsBounded, OnlyEnds, Supported
<1>4. RunningIsOwned'
  BY <1>2 DEF Inv, RunningIsOwned, Supported
<1>5. ColumnsAgree'
  BY <1>1, <1>2 DEF Inv, ColumnsAgree, OnlyEnds
<1>6. CopiesFresh'
  BY <1>1, <1>2 DEF Inv, CopiesFresh, OnlyEnds, Supported, Present
<1>7. HeldIsClaimed'
  BY <1>1, <1>2 DEF Inv, HeldIsClaimed, OnlyEnds, Supported, Busy
<1>8. RunningWasLoaded'
  BY <1>2 DEF Inv, RunningWasLoaded, Supported
<1>9. QED
  BY <1>3, <1>4, <1>5, <1>6, <1>7, <1>8 DEF Inv

LEMMA InvInit == Init => Inv
<1> SUFFICES ASSUME Init PROVE Inv
  OBVIOUS
<1>1. \A j \in Supported : rows[j] = NoRow
  BY DEF Init, Supported, Present, NoRow, OldRows, NewRow
<1>2. \A j \in Jobs : rows[j] \in OldRows \cup {NoRow}
  BY DEF Init
<1>3. worker.pc = "down" /\ seen = NothingLoaded
  BY DEF Init, WorkerDown
<1>4. AttemptsBounded
  BY <1>1 DEF AttemptsBounded, NoRow
<1>5. ColumnsAgree
  <2> DEFINE orphan == [NewRow EXCEPT !.status = "running", !.attempts = 1,
                                      !.started = TRUE]
  <2>1. /\ NoRow.status = "absent"
        /\ NewRow.status = "queued" /\ ~NewRow.started
        /\ orphan.status = "running" /\ orphan.started
    BY DEF NoRow, NewRow
  <2>2. \A j \in Jobs : rows[j] = NoRow \/ rows[j] = NewRow \/ rows[j] = orphan
    BY <1>2 DEF OldRows
  <2> HIDE DEF orphan
  <2>3. QED
    BY <2>1, <2>2 DEF ColumnsAgree, Terminal
<1>6. CopiesFresh
  BY <1>3 DEF CopiesFresh, NothingLoaded, NoRow, Present
<1>7. RunningIsOwned /\ HeldIsClaimed /\ RunningWasLoaded
  BY <1>3 DEF RunningIsOwned, HeldIsClaimed, RunningWasLoaded, Busy
<1>8. QED
  BY <1>4, <1>5, <1>6, <1>7 DEF Inv

\* What a sweep and the worker's last transaction may do to the row they loaded.
LEMMA StaleUpdate ==
    ASSUME NEW row \in Row, NEW stored \in Row,
           row.status = "running", row.started, row.attempts = stored.attempts
    PROVE  LET new == Update(row, Stale(row), stored)
           IN  /\ new.attempts = stored.attempts
               /\ \/ new.status \in {"failed", "cancelled"} /\ new.finished
                  \/ /\ new.status = "queued" /\ ~new.started
                     /\ stored.attempts < MaxAttempts
<1> DEFINE new == Update(row, Stale(row), stored)
<1>1. new.attempts = stored.attempts
  BY DEF Update
<1>2. CASE row.cancelRequested
  BY <1>2 DEF Update, Column, Stale, Cancelled, Row
<1>3. CASE ~row.cancelRequested
  <2>1. CASE row.attempts < MaxAttempts
    BY <1>3, <2>1 DEF Update, Column, Stale, RequeueOrFail, Row
  <2>2. CASE ~(row.attempts < MaxAttempts)
    BY <1>3, <2>2 DEF Update, Column, Stale, RequeueOrFail, Row
  <2>3. QED
    BY <2>1, <2>2
<1>4. QED
  BY <1>1, <1>2, <1>3

LEMMA RecordedUpdate ==
    ASSUME NEW row \in Row, NEW stored \in Row, NEW o \in Outcomes,
           row.status \notin {"absent", "queued"}, row.started,
           stored.status \notin {"absent", "queued"}, stored.started,
           stored.status = "running" => row.status = "running",
           row.attempts = stored.attempts,
           stored.status \in Terminal => stored.finished
    PROVE  LET new == Update(row, Recorded(row, o), stored)
           IN  /\ new.attempts = stored.attempts
               /\ \/ new.status \in Terminal /\ new.finished
                  \/ /\ new.status = "queued" /\ ~new.started
                     /\ stored.attempts < MaxAttempts
<1> DEFINE new == Update(row, Recorded(row, o), stored)
<1>1. new.attempts = stored.attempts
  BY DEF Update
<1>2. stored.status \in Terminal \/ stored.status = "running"
  BY DEF Row, Active
<1>3. CASE o = "returned" /\ row.status = "running"
  BY <1>2, <1>3 DEF Update, Column, Recorded, Terminal, Row
<1>4. CASE o = "returned" /\ row.status # "running"
  <2>1. Recorded(row, o) = row
    BY <1>4 DEF Recorded
  <2>2. new.status = stored.status /\ (stored.finished => new.finished)
    BY <2>1 DEF Update, Column
  <2>3. QED
    BY <1>1, <1>2, <1>4, <2>2
<1>5. CASE o = "cancelled"
  <2>1. Recorded(row, o) = [row EXCEPT !.status = "cancelled", !.finished = TRUE]
    BY <1>5 DEF Recorded, Cancelled
  <2>2. QED
    BY <1>1, <1>2, <2>1 DEF Update, Column, Terminal, Row
<1>6. CASE o \in {"raised", "timeout"} /\ row.attempts < MaxAttempts
  <2>1. Recorded(row, o) =
            [row EXCEPT !.status = "queued", !.started = FALSE, !.finished = FALSE]
    BY <1>6 DEF Recorded, RequeueOrFail
  <2>2. new.status = "queued" /\ ~new.started
    BY <2>1 DEF Update, Column, Row
  <2>3. QED
    BY <1>1, <1>6, <2>2
<1>7. CASE o \in {"raised", "timeout"} /\ ~(row.attempts < MaxAttempts)
  <2>1. Recorded(row, o) = [row EXCEPT !.status = "failed", !.finished = TRUE]
    BY <1>7 DEF Recorded, RequeueOrFail
  <2>2. QED
    BY <1>1, <1>2, <2>1 DEF Update, Column, Terminal, Row
<1>8. QED
  BY <1>3, <1>4, <1>5, <1>6, <1>7 DEF Outcomes

LEMMA SupportedJobs == Supported \subseteq Jobs
BY DEF Supported

LEMMA LoadedRow ==
    ASSUME NEW S, NEW j \in Jobs
    PROVE  Load(S)[j] = IF j \in S THEN rows[j] ELSE NoRow
BY DEF Load

LEMMA NothingPresent == \A j \in Jobs : ~Present(NothingLoaded[j])
BY DEF NothingLoaded, NoRow, Present

\* A step of the worker that leaves the table alone and does not load from it.
LEMMA QuietStepKeepsInv ==
    ASSUME TypeOK, TypeOK', Inv, rows' = rows, seen' = seen,
           worker'.pc = worker.pc \/ (worker.pc = "running" /\ worker'.pc = "ended"),
           worker'.job = worker.job,
           dbErrors' = 0 => dbErrors = 0
    PROVE  Inv'
<1>1. AttemptsBounded' /\ ColumnsAgree'
  BY DEF Inv, AttemptsBounded, ColumnsAgree
<1>2. RunningIsOwned'
  BY DEF Inv, RunningIsOwned
<1>3. CopiesFresh'
  BY DEF Inv, CopiesFresh
<1>4. HeldIsClaimed'
  BY DEF Inv, HeldIsClaimed, Busy
<1>5. RunningWasLoaded'
  BY DEF Inv, RunningWasLoaded
<1>6. QED
  BY <1>1, <1>2, <1>3, <1>4, <1>5 DEF Inv

\* A step that leaves the table alone and drops the worker's transaction.
LEMMA DropStepKeepsInv ==
    ASSUME TypeOK, TypeOK', Inv, rows' = rows, seen' = NothingLoaded,
           worker'.pc \in {"down", "idle"}, worker'.job = NoJob,
           worker'.pc = "idle" => dbErrors' # 0
    PROVE  Inv'
<1>1. AttemptsBounded' /\ ColumnsAgree'
  BY DEF Inv, AttemptsBounded, ColumnsAgree
<1>2. RunningIsOwned'
  BY DEF RunningIsOwned
<1>3. CopiesFresh'
  BY NothingPresent DEF CopiesFresh
<1>4. HeldIsClaimed' /\ RunningWasLoaded'
  BY DEF HeldIsClaimed, RunningWasLoaded, Busy
<1>5. QED
  BY <1>1, <1>2, <1>3, <1>4 DEF Inv

LEMMA ClaimKeepsInv ==
    ASSUME TypeOK, TypeOK', Inv, NEW j \in Jobs, NextQueued(j),
           worker.pc = "idle", rows' = [rows EXCEPT ![j] = Claimed(@)], seen' = seen,
           \/ worker'.pc = "running" /\ worker'.job = j /\ dbErrors' = dbErrors
           \/ worker' = worker /\ dbErrors' # 0
    PROVE  Inv'
<1>1. j \in Supported /\ rows[j].status = "queued" /\ rows[j].attempts < MaxAttempts
  BY DEF NextQueued, Inv, AttemptsBounded
<1>2. rows[j] \in Row /\ rows \in Table
  BY DEF TypeOK, Table
<1>3. /\ rows'[j].status = "running" /\ rows'[j].started
      /\ rows'[j].attempts = rows[j].attempts + 1
  BY <1>2 DEF Claimed, Row, Table
<1>4. \A k \in Jobs : k # j => rows'[k] = rows[k]
  BY <1>2 DEF Table
<1>5. AttemptsBounded'
  <2> SUFFICES ASSUME NEW k \in Supported
               PROVE  /\ rows'[k].attempts <= MaxAttempts
                      /\ rows'[k].status = "queued" => rows'[k].attempts < MaxAttempts
    BY DEF AttemptsBounded
  <2>1. CASE k = j
    <3>1. rows[j].attempts \in Nat
      BY <1>2 DEF Row
    <3>2. QED
      BY <1>1, <1>3, <2>1, <3>1
  <2>2. CASE k # j
    BY <1>4, <2>2, SupportedJobs DEF Inv, AttemptsBounded
  <2>3. QED
    BY <2>1, <2>2
<1>6. RunningIsOwned'
  BY <1>4, SupportedJobs, NoJobNotInJobs DEF Inv, RunningIsOwned, TypeOK, Busy
<1>7. ColumnsAgree'
  BY <1>3, <1>4 DEF Inv, ColumnsAgree, Terminal
<1>8. seen = NothingLoaded
  BY DEF Inv, CopiesFresh
<1>9. CopiesFresh'
  BY <1>8, NothingPresent DEF CopiesFresh
<1>10. HeldIsClaimed'
  BY <1>1, <1>3 DEF HeldIsClaimed, Busy
<1>11. RunningWasLoaded'
  BY DEF RunningWasLoaded
<1>12. QED
  BY <1>5, <1>6, <1>7, <1>9, <1>10, <1>11 DEF Inv

LEMMA InvStep == TypeOK /\ TypeOK' /\ Inv /\ [Next]_vars => Inv'
<1> SUFFICES ASSUME TypeOK, TypeOK', Inv, [Next]_vars PROVE Inv'
  OBVIOUS
<1> USE DEF bounds, workerVars, apiVars
<1>0. /\ rows \in Table /\ seen \in Table
      /\ \A j \in Jobs : rows[j] \in Row /\ seen[j] \in Row /\ apiSeen[j] \in Row
  BY DEF TypeOK, Table
<1>1. CASE ApiStart \/ ApiCrash \/ \E c \in Clients, j \in Jobs : CancelLoad(c, j)
  <2>1. UNCHANGED <<rows, worker, seen, dbErrors>>
    BY <1>1 DEF ApiStart, ApiCrash, CancelLoad
  <2>2. QED
    BY <2>1, QuietStepKeepsInv
<1>2. CASE ApiReap
  <2>1. \A j \in Jobs : OnlyEnds(rows[j], rows'[j])
    BY <1>0, <1>2, ApiWritesOnlyEnd DEF ApiReap
  <2>2. QED
    BY <1>2, <2>1, ApiStepKeepsInv DEF ApiReap
<1>3. ASSUME NEW j \in Jobs, Enqueue(j) PROVE Inv'
  <2>1. /\ j \in Supported /\ rows[j].status = "absent"
        /\ rows'[j].status = "queued" /\ rows'[j].attempts = 0 /\ ~rows'[j].started
        /\ UNCHANGED <<worker, seen, dbErrors>>
    BY <1>0, <1>3 DEF Enqueue, NewRow, NoRow, Present, Table
  <2>2. \A k \in Jobs : k # j => rows'[k] = rows[k]
    BY <1>0, <1>3 DEF Enqueue, Table
  <2>3. AttemptsBounded' /\ RunningIsOwned' /\ ColumnsAgree'
    BY <2>1, <2>2, SupportedJobs
       DEF Inv, AttemptsBounded, RunningIsOwned, ColumnsAgree, Terminal
  <2>4. CopiesFresh'
    BY <2>1, <2>2, SupportedJobs DEF Inv, CopiesFresh, Present
  <2>5. HeldIsClaimed'
    BY <2>1, <2>2, SupportedJobs DEF Inv, HeldIsClaimed, Busy
  <2>6. RunningWasLoaded'
    BY <2>1, <2>2, SupportedJobs DEF Inv, RunningWasLoaded
  <2>7. QED
    BY <2>3, <2>4, <2>5, <2>6 DEF Inv
<1>4. ASSUME NEW c \in Clients, CancelCommit(c) PROVE Inv'
  <2>1. requests[c].job \in Jobs /\ requests[c].seen \in Row
    BY <1>4 DEF CancelCommit, TypeOK
  <2>2. \A j \in Jobs : OnlyEnds(rows[j], rows'[j])
    BY <1>0, <1>4, <2>1, ApiWritesOnlyEnd DEF CancelCommit, Table
  <2>3. QED
    BY <1>4, <2>2, ApiStepKeepsInv DEF CancelCommit
<1>5. CASE WorkerStart
  <2>1. \A j \in Jobs : seen'[j] = IF j \in LegacyActive THEN rows[j] ELSE NoRow
    BY <1>5, LoadedRow DEF WorkerStart
  <2>2. worker'.pc = "reapingLegacy" /\ rows' = rows
    BY <1>5 DEF WorkerStart, TypeOK
  <2>3. AttemptsBounded' /\ RunningIsOwned' /\ ColumnsAgree'
    BY <2>2 DEF Inv, AttemptsBounded, RunningIsOwned, ColumnsAgree
  <2>4. CopiesFresh'
    BY <2>1, <2>2 DEF CopiesFresh, Present, NoRow, LegacyActive, Supported
  <2>5. HeldIsClaimed' /\ RunningWasLoaded'
    BY <2>2 DEF HeldIsClaimed, RunningWasLoaded, Busy
  <2>6. QED
    BY <2>3, <2>4, <2>5 DEF Inv
<1>6. CASE ReapUnsupportedQueueRows
  <2>1. \A j \in Jobs : OnlyEnds(rows[j], rows'[j])
    BY <1>0, <1>6, ApiWritesOnlyEnd DEF ReapUnsupportedQueueRows
  <2>2. worker'.pc = "reapedLegacy" /\ seen' = NothingLoaded
    BY <1>6 DEF ReapUnsupportedQueueRows, TypeOK
  <2>3. \A j \in Jobs : rows'[j].status \in {"absent", "queued", "running"} =>
                            rows'[j].status = rows[j].status
    BY <2>1 DEF OnlyEnds, Terminal
  <2>4. AttemptsBounded' /\ ColumnsAgree'
    BY <1>0, <2>1, <2>3, SupportedJobs DEF Inv, AttemptsBounded, ColumnsAgree, OnlyEnds
  <2>5. RunningIsOwned' /\ HeldIsClaimed' /\ RunningWasLoaded'
    BY <2>2 DEF RunningIsOwned, HeldIsClaimed, RunningWasLoaded, Busy
  <2>6. CopiesFresh'
    BY <2>2, NothingPresent DEF CopiesFresh
  <2>7. QED
    BY <2>4, <2>5, <2>6 DEF Inv
<1>7. CASE LoadStaleRunningJobs
  <2>1. \A j \in Jobs : seen'[j] = IF j \in SupportedRunning THEN rows[j] ELSE NoRow
    BY <1>7, LoadedRow DEF LoadStaleRunningJobs
  <2>2. worker'.pc = "reapingStale" /\ rows' = rows
    BY <1>7 DEF LoadStaleRunningJobs, TypeOK
  <2>3. AttemptsBounded' /\ RunningIsOwned' /\ ColumnsAgree'
    BY <2>2 DEF Inv, AttemptsBounded, RunningIsOwned, ColumnsAgree
  <2>4. CopiesFresh'
    BY <2>1, <2>2 DEF Inv, ColumnsAgree, CopiesFresh, Present, NoRow, SupportedRunning
  <2>5. HeldIsClaimed'
    BY <2>2 DEF HeldIsClaimed, Busy
  <2>6. RunningWasLoaded'
    BY <2>1, <2>2, SupportedJobs DEF RunningWasLoaded, SupportedRunning
  <2>7. QED
    BY <2>3, <2>4, <2>5, <2>6 DEF Inv
<1>8. CASE ReapStaleRunningJobs
  <2> DEFINE Ends(j) == /\ rows'[j].attempts = rows[j].attempts
                        /\ \/ rows'[j].status \in {"failed", "cancelled"} /\ rows'[j].finished
                           \/ /\ rows'[j].status = "queued" /\ ~rows'[j].started
                              /\ rows[j].attempts < MaxAttempts
  <2>1. worker.pc = "reapingStale" /\ worker'.pc = "idle" /\ seen' = NothingLoaded
    BY <1>8 DEF ReapStaleRunningJobs, TypeOK
  <2>2. ASSUME NEW j \in Jobs, Present(seen[j]) PROVE Ends(j)
    <3>1. rows'[j] = Update(seen[j], Stale(seen[j]), rows[j])
      BY <1>8, <2>2 DEF ReapStaleRunningJobs, Loaded
    <3>2. /\ seen[j].status = "running" /\ seen[j].started
          /\ seen[j].attempts = rows[j].attempts
      BY <2>1, <2>2 DEF Inv, CopiesFresh
    <3>3. QED
      BY <1>0, <3>1, <3>2, StaleUpdate
  <2>3. \A j \in Jobs : ~Present(seen[j]) => rows'[j] = rows[j]
    BY <1>8 DEF ReapStaleRunningJobs, Loaded
  <2>4. AttemptsBounded'
    BY <2>2, <2>3, SupportedJobs DEF Inv, AttemptsBounded
  <2>5. RunningIsOwned'
    <3>1. \A j \in Supported : rows'[j].status # "running"
      BY <2>1, <2>2, <2>3, SupportedJobs DEF Inv, RunningWasLoaded, Present
    <3>2. QED
      BY <3>1 DEF RunningIsOwned
  <2>6. ColumnsAgree'
    BY <2>2, <2>3 DEF Inv, ColumnsAgree, Terminal
  <2>7. CopiesFresh'
    BY <2>1, NothingPresent DEF CopiesFresh
  <2>8. HeldIsClaimed' /\ RunningWasLoaded'
    BY <2>1 DEF HeldIsClaimed, RunningWasLoaded, Busy
  <2>9. QED
    BY <2>4, <2>5, <2>6, <2>7, <2>8 DEF Inv
<1>9. ASSUME NEW j \in Jobs, NEW n \in 0..MaxChecks, Claim(j, n) PROVE Inv'
  <2>1. worker'.pc = "running" /\ worker'.job = j
    BY <1>9 DEF Claim, TypeOK
  <2>2. QED
    BY <1>9, <2>1, ClaimKeepsInv DEF Claim
<1>10. ASSUME NEW j \in Jobs, ClaimLost(j) PROVE Inv'
  <2>1. dbErrors' # 0
    BY <1>10 DEF ClaimLost, TypeOK
  <2>2. QED
    BY <1>10, <2>1, ClaimKeepsInv DEF ClaimLost
<1>11. CASE DeadlinePasses \/ Checkpoint \/ RunnerReturns \/ RunnerRaises
            \/ WorkerStopRequested
  <2>1. /\ UNCHANGED <<rows, seen>> /\ worker'.job = worker.job
        /\ worker'.pc = worker.pc \/ (worker.pc = "running" /\ worker'.pc = "ended")
    BY <1>11 DEF DeadlinePasses, Checkpoint, RunnerReturns, RunnerRaises, Ended,
                 WorkerStopRequested, TypeOK
  <2>2. dbErrors' = 0 => dbErrors = 0
    BY <1>11 DEF DeadlinePasses, Checkpoint, RunnerReturns, RunnerRaises,
                 WorkerStopRequested, TypeOK
  <2>3. QED
    BY <2>1, <2>2, QuietStepKeepsInv
<1>12. CASE LoadOutcomeRow
  <2>1. \A j \in Jobs : seen'[j] = IF j = worker.job THEN rows[j] ELSE NoRow
    BY <1>12, LoadedRow DEF LoadOutcomeRow
  <2>2. /\ worker.pc = "ended" /\ worker'.pc = "recording" /\ worker'.job = worker.job
        /\ UNCHANGED <<rows, dbErrors>>
    BY <1>12 DEF LoadOutcomeRow, TypeOK
  <2>3. worker.job \in Supported /\ worker.job \in Jobs
    BY <2>2, SupportedJobs DEF Inv, HeldIsClaimed, Busy
  <2>4. AttemptsBounded' /\ RunningIsOwned' /\ ColumnsAgree'
    BY <2>2 DEF Inv, AttemptsBounded, RunningIsOwned, ColumnsAgree
  <2>5. CopiesFresh'
    BY <2>1, <2>2 DEF CopiesFresh, Present, NoRow
  <2>6. HeldIsClaimed'
    BY <2>1, <2>2, <2>3 DEF Inv, HeldIsClaimed, Busy
  <2>7. RunningWasLoaded'
    BY <2>1, <2>2, <2>3 DEF RunningWasLoaded
  <2>8. QED
    BY <2>4, <2>5, <2>6, <2>7 DEF Inv
<1>13. CASE RecordOutcome
  <2> DEFINE job == worker.job
  <2>1. /\ worker.pc = "recording" /\ worker'.pc = "idle" /\ worker'.job = NoJob
        /\ seen' = NothingLoaded /\ dbErrors' = dbErrors
    BY <1>13 DEF RecordOutcome, Idle, WorkerDown
  <2>2. /\ job \in Supported /\ job \in Jobs
        /\ rows[job].status \notin {"absent", "queued"} /\ rows[job].started
        /\ seen[job].status \notin {"absent", "queued"} /\ seen[job].started
    BY <2>1, SupportedJobs DEF Inv, HeldIsClaimed, Busy
  <2>3. /\ seen[job].attempts = rows[job].attempts
        /\ rows[job].status = "running" => seen[job].status = "running"
        /\ rows[job].status \in Terminal => rows[job].finished
    BY <2>1, <2>2 DEF Inv, CopiesFresh, RunningWasLoaded, ColumnsAgree, Present
  <2>4. rows'[job] = Update(seen[job], Recorded(seen[job], worker.outcome), rows[job])
    BY <1>0, <1>13, <2>2 DEF RecordOutcome, Table
  <2>5. /\ rows'[job].attempts = rows[job].attempts
        /\ \/ rows'[job].status \in Terminal /\ rows'[job].finished
           \/ /\ rows'[job].status = "queued" /\ ~rows'[job].started
              /\ rows[job].attempts < MaxAttempts
    <3>1. worker.outcome \in Outcomes
      BY <2>1 DEF TypeOK
    <3>2. QED
      BY <1>0, <2>2, <2>3, <2>4, <3>1, RecordedUpdate
  <2>6. \A j \in Jobs : j # job => rows'[j] = rows[j]
    BY <1>0, <1>13 DEF RecordOutcome, Table
  <2> HIDE DEF job
  <2>7. AttemptsBounded'
    BY <2>2, <2>5, <2>6, SupportedJobs DEF Inv, AttemptsBounded, Terminal
  <2>8. RunningIsOwned'
    <3>1. \A j \in Supported : j # job /\ rows[j].status = "running" => dbErrors # 0
      BY <2>1 DEF Inv, RunningIsOwned, job
    <3>2. QED
      BY <2>1, <2>2, <2>5, <2>6, <3>1, SupportedJobs DEF RunningIsOwned, Terminal
  <2>9. ColumnsAgree'
    BY <2>2, <2>5, <2>6 DEF Inv, ColumnsAgree, Terminal
  <2>10. CopiesFresh'
    BY <2>1, NothingPresent DEF CopiesFresh
  <2>11. HeldIsClaimed' /\ RunningWasLoaded'
    BY <2>1 DEF HeldIsClaimed, RunningWasLoaded, Busy
  <2>12. QED
    BY <2>7, <2>8, <2>9, <2>10, <2>11 DEF Inv
<1>14. CASE RecordLost
  <2>1. /\ rows' = rows /\ seen' = NothingLoaded /\ dbErrors' # 0
        /\ worker'.pc = "idle" /\ worker'.job = NoJob
    BY <1>14 DEF RecordLost, Idle, WorkerDown, TypeOK
  <2>2. QED
    BY <2>1, DropStepKeepsInv
<1>15. CASE WorkerExit \/ WorkerCrash
  <2>1. worker'.pc = "down" /\ worker'.job = NoJob /\ rows' = rows
    BY <1>15 DEF WorkerExit, WorkerCrash, WorkerDown
  <2>2. seen' = NothingLoaded
    BY <1>15 DEF WorkerExit, WorkerCrash, Inv, CopiesFresh
  <2>3. QED
    BY <2>1, <2>2, DropStepKeepsInv
<1>16. CASE UNCHANGED vars
  BY <1>16, QuietStepKeepsInv DEF vars
<1>17. QED
  BY <1>1, <1>2, <1>3, <1>4, <1>5, <1>6, <1>7, <1>8, <1>9, <1>10, <1>11, <1>12,
     <1>13, <1>14, <1>15, <1>16 DEF Next, ClaimSome

LEMMA InvCorrect == Spec => []Inv
<1>1. Init => Inv
  BY InvInit
<1>2. TypeOK /\ TypeOK' /\ Inv /\ [Next]_vars => Inv'
  BY InvStep
<1>3. QED
  BY <1>1, <1>2, TypeCorrect, PTL DEF Spec

\* No job is ever attempted more than max_attempts times, and whatever is in
\* the queue may still be claimed (jobs.py requeue_or_fail,
\* background_runner.py _claim_next_queued_job).
THEOREM AttemptsAreBounded == Spec => []AttemptsBounded
<1>1. Inv => AttemptsBounded
  BY DEF Inv
<1>2. QED
  BY <1>1, InvCorrect, PTL

\* Unless a transaction of the dispatcher loop fails, no `running` row is ever
\* left without a worker that will finish it (background_runner.py
\* dispatcher_loop, reap_stale_running_jobs).
THEOREM RunningRowsAreOwned == Spec => []RunningIsOwned
<1>1. Inv => RunningIsOwned
  BY DEF Inv
<1>2. QED
  BY <1>1, InvCorrect, PTL

\* Column-by-column updates from stale copies never leave a row whose status
\* contradicts its timestamps (background_runner.py, routers/jobs.py).
THEOREM ColumnsAlwaysAgree == Spec => []ColumnsAgree
<1>1. Inv => ColumnsAgree
  BY DEF Inv
<1>2. QED
  BY <1>1, InvCorrect, PTL

-----------------------------------------------------------------------------
(* Settled rows *)

\* What a sweep has loaded was active then, and the API loads unsupported jobs.
SweptIsActive ==
    \A j \in Jobs :
        /\ Present(apiSeen[j]) => j \in Legacy /\ apiSeen[j].status \in Active
        /\ worker.pc \in {"reapingLegacy", "reapingStale"} /\ Present(seen[j])
              => seen[j].status \in Active

LEMMA SweptInit == Init => SweptIsActive
BY NothingPresent DEF Init, SweptIsActive, WorkerDown

LEMMA SweptStep == TypeOK /\ SweptIsActive /\ [Next]_vars => SweptIsActive'
<1>. SUFFICES ASSUME TypeOK, SweptIsActive, [Next]_vars, NEW j \in Jobs
              PROVE  /\ Present(apiSeen'[j]) => j \in Legacy /\ apiSeen'[j].status \in Active
                     /\ worker'.pc \in {"reapingLegacy", "reapingStale"} /\ Present(seen'[j])
                           => seen'[j].status \in Active
  BY DEF SweptIsActive, Present
<1>1. UNCHANGED apiSeen \/ apiSeen' = NothingLoaded \/ apiSeen' = Load(LegacyActive)
  BY DEF Next, ApiStart, ApiReap, ApiCrash, Enqueue, CancelLoad, CancelCommit, WorkerStart,
         ReapUnsupportedQueueRows, LoadStaleRunningJobs, ReapStaleRunningJobs, ClaimSome,
         Claim, ClaimLost, DeadlinePasses, Checkpoint, RunnerReturns, RunnerRaises,
         LoadOutcomeRow, RecordOutcome, RecordLost, WorkerStopRequested, WorkerExit,
         WorkerCrash, apiVars, vars
<1>2. Present(apiSeen'[j]) => j \in Legacy /\ apiSeen'[j].status \in Active
  <2>1. Present(Load(LegacyActive)[j]) =>
           j \in Legacy /\ Load(LegacyActive)[j].status \in Active
    BY DEF Load, LegacyActive, Present, NoRow
  <2>. QED BY <1>1, <2>1, NothingPresent DEF SweptIsActive
<1>3. \/ UNCHANGED seen /\ worker'.pc = worker.pc
      \/ seen' = Load(LegacyActive) \/ seen' = Load(SupportedRunning)
      \/ worker'.pc \notin {"reapingLegacy", "reapingStale"}
  <2>1. CASE UNCHANGED <<worker, seen>> BY <2>1
  <2>2. CASE ApiStart \/ ApiReap \/ ApiCrash \/ (\E k \in Jobs : Enqueue(k) \/ ClaimLost(k))
               \/ (\E c \in Clients, k \in Jobs : CancelLoad(c, k))
               \/ (\E c \in Clients : CancelCommit(c)) \/ UNCHANGED vars
    BY <2>1, <2>2 DEF ApiStart, ApiReap, ApiCrash, Enqueue, ClaimLost, CancelLoad,
                      CancelCommit, workerVars, vars
  <2>3. CASE WorkerStart \/ LoadStaleRunningJobs
    BY <2>3 DEF WorkerStart, LoadStaleRunningJobs
  <2>4. CASE ReapUnsupportedQueueRows \/ ReapStaleRunningJobs \/ ClaimSome \/ LoadOutcomeRow
    BY <2>4 DEF ReapUnsupportedQueueRows, ReapStaleRunningJobs, ClaimSome, Claim,
                LoadOutcomeRow, TypeOK
  <2>5. CASE Checkpoint \/ RunnerReturns \/ RunnerRaises \/ DeadlinePasses
               \/ WorkerStopRequested
    BY <2>5 DEF Checkpoint, RunnerReturns, RunnerRaises, Ended, DeadlinePasses,
                WorkerStopRequested, TypeOK
  <2>6. CASE RecordOutcome \/ RecordLost \/ WorkerExit \/ WorkerCrash
    <3>1. worker' = Idle \/ worker' = WorkerDown
      BY <2>6 DEF RecordOutcome, RecordLost, WorkerExit, WorkerCrash
    <3>2. Idle.pc = "idle" /\ WorkerDown.pc = "down" BY DEF Idle, WorkerDown
    <3>. QED BY <3>1, <3>2
  <2>. QED BY <2>2, <2>3, <2>4, <2>5, <2>6 DEF Next
<1>4. /\ Present(Load(LegacyActive)[j]) => Load(LegacyActive)[j].status \in Active
      /\ Present(Load(SupportedRunning)[j]) => Load(SupportedRunning)[j].status \in Active
  BY DEF Load, LegacyActive, SupportedRunning, Present, NoRow, Active
<1>5. worker'.pc \in {"reapingLegacy", "reapingStale"} /\ Present(seen'[j])
         => seen'[j].status \in Active
  BY <1>3, <1>4 DEF SweptIsActive
<1>. QED BY <1>2, <1>5

LEMMA SweptCorrect == Spec => []SweptIsActive
<1>1. TypeOK /\ SweptIsActive /\ [Next]_vars => SweptIsActive' BY SweptStep
<1>. QED BY <1>1, SweptInit, TypeCorrect, PTL DEF Spec

LEMMA SettledStep ==
    ASSUME TypeOK, Inv, SweptIsActive, Next,
           NEW j \in Jobs, rows[j].status \in Terminal, ~InFlight(j)
    PROVE  rows'[j] = rows[j]
<1>1. CASE UNCHANGED rows BY <1>1
<1>2. CASE ApiReap
  <2>1. ~Present(apiSeen[j]) BY DEF InFlight, Holds, SweptIsActive
  <2>. QED BY <1>2, <2>1 DEF ApiReap, Loaded
<1>3. CASE ReapUnsupportedQueueRows
  <2>1. ~Present(seen[j])
    BY <1>3 DEF InFlight, Holds, SweptIsActive, ReapUnsupportedQueueRows
  <2>. QED BY <1>3, <2>1 DEF ReapUnsupportedQueueRows, Loaded
<1>4. CASE ReapStaleRunningJobs
  <2>1. ~Present(seen[j])
    BY <1>4 DEF InFlight, Holds, SweptIsActive, ReapStaleRunningJobs
  <2>. QED BY <1>4, <2>1 DEF ReapStaleRunningJobs, Loaded
<1>5. ASSUME NEW c \in Clients, CancelCommit(c) PROVE rows'[j] = rows[j]
  <2>1. requests[c].job # j BY DEF InFlight
  <2>. QED BY <1>5, <2>1 DEF CancelCommit, TypeOK, Table
<1>6. ASSUME NEW k \in Jobs, Enqueue(k) PROVE rows'[j] = rows[j]
  <2>1. k # j BY <1>6 DEF Enqueue, Present, Terminal
  <2>. QED BY <1>6, <2>1 DEF Enqueue, TypeOK, Table
<1>7. ASSUME NEW k \in Jobs, NextQueued(k), rows' = [rows EXCEPT ![k] = Claimed(@)]
      PROVE  rows'[j] = rows[j]
  <2>1. k # j BY <1>7 DEF NextQueued, Terminal
  <2>. QED BY <1>7, <2>1 DEF TypeOK, Table
<1>8. CASE RecordOutcome
  <2>1. worker.job # j BY <1>8 DEF RecordOutcome, InFlight, Busy
  <2>. QED BY <1>8, <2>1 DEF RecordOutcome, TypeOK, Table
<1>9. \/ UNCHANGED rows \/ ApiReap \/ ReapUnsupportedQueueRows \/ ReapStaleRunningJobs
      \/ (\E c \in Clients : CancelCommit(c)) \/ (\E k \in Jobs : Enqueue(k))
      \/ (\E k \in Jobs : NextQueued(k) /\ rows' = [rows EXCEPT ![k] = Claimed(@)])
      \/ RecordOutcome
  BY DEF Next, ApiStart, ApiCrash, CancelLoad, WorkerStart, LoadStaleRunningJobs, ClaimSome,
         Claim, ClaimLost, DeadlinePasses, Checkpoint, RunnerReturns, RunnerRaises,
         LoadOutcomeRow, RecordLost, WorkerStopRequested, WorkerExit, WorkerCrash
<1>. QED BY <1>1, <1>2, <1>3, <1>4, <1>5, <1>6, <1>7, <1>8, <1>9

\* A terminal row that no process is still working on is never written again
\* (the WHERE clauses of background_runner.py, the 409 of routers/jobs.py).
THEOREM SettledRowsAreFinal == Spec => SettledIsFinal
<1>. DEFINE Kept == \A j \in Jobs :
                       rows[j].status \in Terminal /\ ~InFlight(j) => rows'[j] = rows[j]
<1>1. TypeOK /\ Inv /\ SweptIsActive /\ [Next]_vars => [Kept]_vars
  BY SettledStep
<1>. QED BY <1>1, SweptCorrect, TypeCorrect, InvCorrect, PTL DEF Spec, SettledIsFinal
=============================================================================
