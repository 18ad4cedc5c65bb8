---------------------- MODULE JobQueueRefinementProofs ----------------------
(***************************************************************************)
(* JobQueue implements BoundedExecution, for every set of jobs and bounds. *)
(* Most steps change the phase of no supported job; a step of the worker   *)
(* that drops copies or its job may finish several jobs at once (Finishes).*)
(***************************************************************************)
EXTENDS JobQueueRefinement, JobQueueProofs

\* What the phases depend on besides Inv: nobody writes a row that is not there,
\* and the dispatcher loads the row of its job alone.
PhaseInv ==
    /\ \A c \in Clients :
          requests[c].pc = "loaded" => Present(rows[requests[c].job])
    /\ \A j \in Jobs : ~Present(rows[j]) => rows[j].attempts = 0
    /\ \A j \in Jobs : Present(apiSeen[j]) => Present(rows[j])
    /\ worker.pc = "recording" =>
          \A j \in Jobs : j # worker.job => ~Present(seen[j])

AllInv == TypeOK /\ Inv /\ SweptIsActive /\ PhaseInv

-----------------------------------------------------------------------------
(* Rows that are there stay; only Enqueue makes one. *)

LEMMA UpdateKeepsAttempts ==
    ASSUME NEW before, NEW after, NEW stored
    PROVE  Update(before, after, stored).attempts = stored.attempts
BY DEF Update

LEMMA RowsStay ==
    ASSUME AllInv, [Next]_vars, NEW j \in Jobs
    PROVE  /\ Present(rows[j]) => Present(rows'[j])
           /\ ~Present(rows[j]) => rows'[j] = rows[j] \/ rows'[j] = NewRow
<1>. USE DEF Present
<1>0. /\ TypeOK /\ Inv /\ PhaseInv
      /\ rows[j] \in Row /\ seen[j] \in Row /\ apiSeen[j] \in Row
  BY DEF AllInv, TypeOK, Table
<1>1. CASE UNCHANGED rows BY <1>1
<1>2. CASE ApiReap
  <2>1. rows'[j].status \in {rows[j].status, "failed"}
    BY <1>0, <1>2, UpdateStatus, RewrittenStatus DEF ApiReap
  <2>2. j \in Supported => rows'[j] = rows[j]
    BY <1>2 DEF ApiReap, Loaded, AllInv, SweptIsActive, Supported
  <2>3. Present(apiSeen[j]) => Present(rows[j]) BY <1>0 DEF PhaseInv
  <2>. QED BY <1>2, <2>1, <2>2, <2>3 DEF ApiReap, Loaded, Supported
<1>3. ASSUME NEW c \in Clients, CancelCommit(c)
      PROVE  /\ Present(rows[j]) => Present(rows'[j])
             /\ ~Present(rows[j]) => rows'[j] = rows[j]
  <2>. DEFINE r == requests[c]
  <2>1. r.pc = "loaded" /\ r.job \in Jobs /\ r.seen \in Row
    BY <1>0, <1>3 DEF CancelCommit, TypeOK
  <2>2. Present(rows[r.job]) BY <1>0, <2>1 DEF PhaseInv
  <2>3. rows' = [rows EXCEPT ![r.job] = Update(r.seen, CancelRequest(r.seen), rows[r.job])]
    BY <1>3 DEF CancelCommit
  <2>4. rows'[j].status \in {rows[j].status, "cancelled"}
    BY <1>0, <2>1, <2>3, UpdateStatus, RewrittenStatus DEF TypeOK, Table
  <2>5. j # r.job => rows'[j] = rows[j] BY <1>0, <2>3 DEF TypeOK, Table
  <2>. QED BY <2>2, <2>4, <2>5
<1>4. CASE ReapUnsupportedQueueRows
  <2>1. rows'[j].status \in {rows[j].status, "failed"}
    BY <1>0, <1>4, UpdateStatus, RewrittenStatus DEF ReapUnsupportedQueueRows
  <2>2. Present(seen[j]) => Present(rows[j]) BY <1>0 DEF Inv, CopiesFresh
  <2>. QED BY <1>4, <2>1, <2>2 DEF ReapUnsupportedQueueRows, Loaded
<1>5. CASE ReapStaleRunningJobs
  <2>1. rows'[j].status \in {rows[j].status, "cancelled", "queued", "failed"}
    BY <1>0, <1>5, UpdateStatus, RewrittenStatus DEF ReapStaleRunningJobs
  <2>2. Present(seen[j]) => Present(rows[j]) BY <1>0 DEF Inv, CopiesFresh
  <2>. QED BY <1>5, <2>1, <2>2 DEF ReapStaleRunningJobs, Loaded
<1>6. ASSUME NEW k \in Jobs, NextQueued(k), rows' = [rows EXCEPT ![k] = Claimed(rows[k])]
      PROVE  /\ Present(rows[j]) => Present(rows'[j])
             /\ ~Present(rows[j]) => rows'[j] = rows[j]
  <2>1. rows[k] \in Row /\ rows[k].status = "queued"
    BY <1>0, <1>6 DEF TypeOK, Table, NextQueued
  <2>2. rows'[j] = IF j = k THEN Claimed(rows[k]) ELSE rows[j]
    BY <1>0, <1>6 DEF TypeOK, Table
  <2>. QED BY <2>1, <2>2, RewrittenStatus
<1>7. CASE RecordOutcome
  <2>. DEFINE k == worker.job
  <2>1. Busy /\ worker.pc = "recording" /\ worker.outcome \in Outcomes
    BY <1>0, <1>7 DEF RecordOutcome, Busy, TypeOK
  <2>2. k \in Jobs /\ rows[k].status # "absent" /\ seen[k] \in Row /\ seen[k].status # "absent"
    BY <1>0, <2>1 DEF Inv, HeldIsClaimed, Supported, TypeOK, Table
  <2>3. rows' = [rows EXCEPT ![k] = Update(seen[k], Recorded(seen[k], worker.outcome), rows[k])]
    BY <1>7 DEF RecordOutcome
  <2>4. j # k => rows'[j] = rows[j] BY <1>0, <2>3 DEF TypeOK, Table
  <2>5. rows'[k].status \in {rows[k].status, Recorded(seen[k], worker.outcome).status}
    BY <1>0, <2>2, <2>3, UpdateStatus DEF TypeOK, Table
  <2>6. Recorded(seen[k], worker.outcome).status # "absent"
    <3>1. CASE worker.outcome = "returned" BY <2>2, <3>1, RewrittenStatus
    <3>2. CASE worker.outcome # "returned" BY <2>1, <2>2, <3>2, RewrittenStatus
    <3>. QED BY <3>1, <3>2
  <2>. QED BY <2>2, <2>4, <2>5, <2>6
<1>8. ASSUME NEW k \in Jobs, Enqueue(k)
      PROVE  /\ Present(rows[j]) => Present(rows'[j])
             /\ ~Present(rows[j]) => rows'[j] = rows[j] \/ rows'[j] = NewRow
  BY <1>0, <1>8 DEF Enqueue, TypeOK, Table, NewRow, NoRow
<1>9. [Next]_vars =>
        \/ UNCHANGED rows \/ ApiReap \/ ReapUnsupportedQueueRows \/ ReapStaleRunningJobs
        \/ (\E c \in Clients : CancelCommit(c)) \/ (\E k \in Jobs : Enqueue(k))
        \/ (\E k \in Jobs : NextQueued(k) /\ rows' = [rows EXCEPT ![k] = Claimed(rows[k])])
        \/ RecordOutcome
  BY DEF Next, ApiStart, ApiCrash, CancelLoad, WorkerStart, LoadStaleRunningJobs, ClaimSome,
         Claim, ClaimLost, DeadlinePasses, Checkpoint, RunnerReturns, RunnerRaises,
         LoadOutcomeRow, RecordLost, WorkerStopRequested, WorkerExit, WorkerCrash, vars
<1>. QED BY <1>1, <1>2, <1>3, <1>4, <1>5, <1>6, <1>7, <1>8, <1>9

LEMMA PhaseInvInit == Init => PhaseInv
<1>. SUFFICES ASSUME Init PROVE PhaseInv OBVIOUS
<1>1. \A c \in Clients : requests[c].pc = "free" BY DEF Init, NoRequest
<1>2. \A j \in Jobs : ~Present(rows[j]) => rows[j].attempts = 0
  <2>1. \A row \in OldRows : Present(row) BY DEF OldRows, NewRow, NoRow, Present
  <2>. QED BY <2>1 DEF Init, NoRow
<1>3. \A j \in Jobs : ~Present(apiSeen[j]) BY NothingPresent DEF Init
<1>4. worker.pc = "down" BY DEF Init, WorkerDown
<1>. QED BY <1>1, <1>2, <1>3, <1>4 DEF PhaseInv

LEMMA PhaseInvStep == AllInv /\ [Next]_vars => PhaseInv'
<1>. SUFFICES ASSUME AllInv, [Next]_vars PROVE PhaseInv' OBVIOUS
<1>0. TypeOK /\ TypeOK' /\ Inv /\ PhaseInv BY TypeStep DEF AllInv
<1>1. \A j \in Jobs : ~Present(rows'[j]) => rows'[j].attempts = 0
  BY <1>0, RowsStay DEF PhaseInv, NewRow, NoRow
<1>2. \A j \in Jobs : Present(apiSeen'[j]) => Present(rows'[j])
  <2>. SUFFICES ASSUME NEW j \in Jobs, Present(apiSeen'[j]) PROVE Present(rows'[j]) OBVIOUS
  <2>1. UNCHANGED apiSeen \/ apiSeen' = NothingLoaded
          \/ (apiSeen' = Load(LegacyActive) /\ UNCHANGED rows)
    BY DEF Next, ApiStart, ApiReap, ApiCrash, Enqueue, CancelLoad, CancelCommit, WorkerStart,
           ReapUnsupportedQueueRows, LoadStaleRunningJobs, ReapStaleRunningJobs, ClaimSome,
           Claim, ClaimLost, DeadlinePasses, Checkpoint, RunnerReturns, RunnerRaises,
           LoadOutcomeRow, RecordOutcome, RecordLost, WorkerStopRequested, WorkerExit,
           WorkerCrash, apiVars, vars
  <2>2. Present(Load(LegacyActive)[j]) => Present(rows[j]) BY DEF Load, Present, NoRow
  <2>. QED BY <1>0, <2>1, <2>2, NothingPresent, RowsStay DEF PhaseInv
<1>3. ASSUME NEW c \in Clients, requests'[c].pc = "loaded"
      PROVE  Present(rows'[requests'[c].job])
  <2>1. CASE requests'[c] = requests[c]
    <3>1. requests[c].job \in Jobs BY <1>0, <1>3, <2>1 DEF TypeOK
    <3>2. Present(rows[requests[c].job]) BY <1>0, <1>3, <2>1 DEF PhaseInv
    <3>. QED BY <2>1, <3>1, <3>2, RowsStay
  <2>2. ASSUME NEW e \in Clients, NEW j \in Jobs, CancelLoad(e, j)
        PROVE  Present(rows'[requests'[c].job])
    <3>1. c = e => requests'[c].job = j /\ rows'[j] = rows[j] /\ rows[j].status \in Active
      BY <1>0, <2>2 DEF CancelLoad, TypeOK
    <3>2. c # e => requests'[c] = requests[c]
      BY <1>0, <2>2 DEF CancelLoad, TypeOK
    <3>. QED BY <2>1, <3>1, <3>2 DEF Present, Active
  <2>3. ASSUME NEW e \in Clients, CancelCommit(e)
        PROVE  requests'[c] = requests[c]
    BY <1>0, <1>3, <2>3 DEF CancelCommit, TypeOK, NoRequest
  <2>4. CASE ApiCrash
    BY <1>3, <2>4 DEF ApiCrash, NoRequest
  <2>5. CASE UNCHANGED requests BY <2>1, <2>5
  <2>6. [Next]_vars => \/ UNCHANGED requests \/ ApiCrash
                       \/ (\E e \in Clients, j \in Jobs : CancelLoad(e, j))
                       \/ \E e \in Clients : CancelCommit(e)
    BY DEF Next, ApiStart, ApiReap, Enqueue, WorkerStart, ReapUnsupportedQueueRows,
           LoadStaleRunningJobs, ReapStaleRunningJobs, ClaimSome, Claim, ClaimLost,
           DeadlinePasses, Checkpoint, RunnerReturns, RunnerRaises, LoadOutcomeRow,
           RecordOutcome, RecordLost, WorkerStopRequested, WorkerExit, WorkerCrash,
           apiVars, vars
  <2>. QED BY <2>1, <2>2, <2>3, <2>4, <2>5, <2>6
<1>4. worker'.pc = "recording" => \A j \in Jobs : j # worker'.job => ~Present(seen'[j])
  <2>1. CASE UNCHANGED <<worker, seen>> BY <1>0, <2>1 DEF PhaseInv
  <2>2. CASE LoadOutcomeRow
    <3>1. worker'.job = worker.job BY <1>0, <2>2 DEF LoadOutcomeRow, TypeOK
    <3>. QED BY <2>2, <3>1 DEF LoadOutcomeRow, Load, Present, NoRow
  <2>3. CASE DeadlinePasses \/ WorkerStopRequested
    BY <1>0, <2>3 DEF DeadlinePasses, WorkerStopRequested, TypeOK, PhaseInv
  <2>4. CASE worker'.pc # "recording" BY <2>4
  <2>5. CASE WorkerStart \/ ReapUnsupportedQueueRows \/ LoadStaleRunningJobs
               \/ ReapStaleRunningJobs \/ ClaimSome
    BY <1>0, <2>5 DEF WorkerStart, ReapUnsupportedQueueRows, LoadStaleRunningJobs,
                      ReapStaleRunningJobs, ClaimSome, Claim, TypeOK
  <2>6. CASE Checkpoint \/ RunnerReturns \/ RunnerRaises
    <3>1. worker.pc = "running" /\ \/ \E o \in Outcomes : worker' = Ended(o)
                                   \/ worker' = [worker EXCEPT !.left = @ - 1]
      BY <2>6 DEF Checkpoint, RunnerReturns, RunnerRaises, Outcomes
    <3>2. worker'.pc \in {"running", "ended"}
      BY <1>0, <3>1 DEF Ended, TypeOK
    <3>. QED BY <3>2
  <2>7. CASE RecordOutcome \/ RecordLost \/ WorkerExit \/ WorkerCrash
    <3>1. worker' = Idle \/ worker' = WorkerDown
      BY <2>7 DEF RecordOutcome, RecordLost, WorkerExit, WorkerCrash
    <3>2. Idle.pc = "idle" /\ WorkerDown.pc = "down" BY DEF Idle, WorkerDown
    <3>. QED BY <3>1, <3>2
  <2>8. CASE ApiStart \/ ApiReap \/ ApiCrash \/ (\E k \in Jobs : Enqueue(k) \/ ClaimLost(k))
               \/ (\E c \in Clients, k \in Jobs : CancelLoad(c, k))
               \/ (\E c \in Clients : CancelCommit(c)) \/ UNCHANGED vars
    BY <2>1, <2>8 DEF ApiStart, ApiReap, ApiCrash, Enqueue, ClaimLost, CancelLoad,
                      CancelCommit, workerVars, vars
  <2>. QED BY <2>2, <2>3, <2>5, <2>6, <2>7, <2>8 DEF Next
<1>. QED BY <1>1, <1>2, <1>3, <1>4 DEF PhaseInv, Present

LEMMA AllInvStep == AllInv /\ [Next]_vars => AllInv'
BY TypeStep, InvStep, SweptStep, PhaseInvStep DEF AllInv

LEMMA AllInvAlways == Spec => []AllInv
<1>1. Init => AllInv BY TypeInit, InvInit, SweptInit, PhaseInvInit DEF AllInv
<1>. QED BY <1>1, AllInvStep, PTL DEF Spec

-----------------------------------------------------------------------------
(* What the steps are abstractly. *)

LEMMA Stutters ==
    ASSUME \A j \in Supported : Phase(j)' = Phase(j),
           \A j \in Supported : rows'[j].attempts = rows[j].attempts
    PROVE  [Abstract!Next]_(Abstract!vars)
<1>1. UNCHANGED tries /\ UNCHANGED phase BY DEF tries, phase
<1>. QED BY <1>1 DEF Abstract!vars

LEMMA Finishes ==
    ASSUME NEW S \in SUBSET Supported,
           \A j \in S : Phase(j) \in {"waiting", "executing"} /\ Phase(j)' = "done",
           \A j \in Supported \ S : Phase(j)' = Phase(j),
           \A j \in Supported : rows'[j].attempts = rows[j].attempts
    PROVE  [Abstract!Next]_(Abstract!vars)
<1>1. UNCHANGED tries BY DEF tries
<1>2. phase' = [j \in Supported |-> IF j \in S THEN "done" ELSE phase[j]] BY DEF phase
<1>3. CASE S = {}
  <2>1. \A j \in Supported : Phase(j)' = Phase(j) BY <1>3
  <2>. QED BY <2>1, Stutters
<1>4. CASE S # {}
  <2>1. \A j \in S : phase[j] \in {"waiting", "executing"} BY DEF phase
  <2>2. Abstract!Finish(S) BY <1>1, <1>2, <1>4, <2>1 DEF Abstract!Finish
  <2>. QED BY <2>2 DEF Abstract!Next
<1>. QED BY <1>3, <1>4

\* The worker gives up its job without ending it.
LEMMA Yields ==
    ASSUME NEW k \in Supported, Phase(k) = "executing", Phase(k)' = "waiting",
           \A j \in Supported \ {k} : Phase(j)' = Phase(j),
           \A j \in Supported : rows'[j].attempts = rows[j].attempts
    PROVE  [Abstract!Next]_(Abstract!vars)
<1>1. UNCHANGED tries BY DEF tries
<1>2. phase' = [phase EXCEPT ![k] = "waiting"] BY DEF phase
<1>3. phase[k] = "executing" BY DEF phase
<1>4. Abstract!Yield(k) BY <1>1, <1>2, <1>3 DEF Abstract!Yield
<1>. QED BY <1>4 DEF Abstract!Next

\* Nothing that a phase depends on changes.
LEMMA QuietStep ==
    ASSUME \A j \in Supported : rows'[j] = rows[j],
           Busy' <=> Busy, worker'.job = worker.job,
           \A j \in Supported : rows[j].status \in Terminal /\ ~(Busy /\ worker.job = j) =>
               (Holds(seen'[j]) <=> Holds(seen[j]))
    PROVE  [Abstract!Next]_(Abstract!vars)
<1>1. \A j \in Supported : Phase(j)' = Phase(j) BY DEF Phase, Present, Holds
<1>. QED BY <1>1, Stutters

\* The worker drops its job, whose row may have been ended.
LEMMA JobDropped ==
    ASSUME AllInv, AllInv', Busy, ~Busy', seen' = NothingLoaded,
           \A j \in Supported \ {worker.job} : rows'[j] = rows[j],
           Present(rows'[worker.job]),
           rows'[worker.job].attempts = rows[worker.job].attempts
    PROVE  [Abstract!Next]_(Abstract!vars)
<1>. PICK k \in Supported : k = worker.job BY DEF AllInv, Inv, HeldIsClaimed
<1>1. k \in Jobs /\ Present(rows[k])
  BY SupportedJobs DEF AllInv, Inv, HeldIsClaimed, Present
<1>2. \A j \in Jobs : ~Holds(NothingLoaded[j]) 
  BY NothingPresent DEF Holds, Present, Active
<1>3. \A j \in Jobs \ {k} : ~Holds(seen[j])
  BY <1>2 DEF AllInv, Inv, CopiesFresh, PhaseInv, Busy, Holds, Present, Active
<1>4. \A j \in Supported \ {k} : Phase(j)' = Phase(j)
  BY <1>2, <1>3, SupportedJobs DEF Phase, Present, Holds
<1>5. Phase(k) = "executing" BY <1>1 DEF Phase
<1>6. \A j \in Supported : rows'[j].attempts = rows[j].attempts OBVIOUS
<1>7. CASE rows'[k].status \in Terminal
  <2>1. Phase(k)' = "done" BY <1>1, <1>2, <1>7 DEF Phase, Present, Holds
  <2>2. \A j \in {k} : Phase(j) \in {"waiting", "executing"} /\ Phase(j)' = "done"
    BY <1>5, <2>1
  <2>. QED BY <1>4, <1>6, <2>2, Finishes
<1>8. CASE rows'[k].status \notin Terminal
  <2>1. Phase(k)' = "waiting" BY <1>1, <1>8 DEF Phase, Present
  <2>. QED BY <1>1, <1>4, <1>5, <1>6, <2>1, Yields
<1>. QED BY <1>7, <1>8

\* The worker ends the sweep of the rows it has loaded, or is cut short in it.
LEMMA CopiesDropped ==
    ASSUME AllInv, AllInv', ~Busy, ~Busy', seen' = NothingLoaded,
           \A j \in Supported : 
               /\ rows'[j] = rows[j] \/ Holds(seen[j])
               /\ Present(rows'[j]) <=> Present(rows[j])
               /\ rows'[j].attempts = rows[j].attempts
    PROVE  [Abstract!Next]_(Abstract!vars)
<1>. DEFINE S == {j \in Supported : Phase(j) = "waiting" /\ rows'[j].status \in Terminal}
<1>1. \A j \in Jobs : ~Holds(NothingLoaded[j]) 
  BY NothingPresent DEF Holds, Present, Active
<1>2. \A j \in Supported :
         Phase(j)' = IF ~Present(rows[j]) THEN "absent"
                     ELSE IF rows'[j].status \in Terminal THEN "done" ELSE "waiting"
  BY <1>1, SupportedJobs DEF Phase, Present, Holds
<1>3. \A j \in Supported :
         Phase(j) = IF ~Present(rows[j]) THEN "absent"
                    ELSE IF rows[j].status \in Terminal /\ ~Holds(seen[j])
                         THEN "done" ELSE "waiting"
  BY DEF Phase
<1>4. \A j \in S : Phase(j)' = "done" /\ Phase(j) = "waiting" BY <1>2, <1>3
<1>5. \A j \in Supported \ S : Phase(j)' = Phase(j) BY <1>2, <1>3
<1>. HIDE DEF S
<1>6. S \in SUBSET Supported BY DEF S
<1>. QED BY <1>4, <1>5, <1>6, Finishes

-----------------------------------------------------------------------------
(* The steps of the API *)

LEMMA EnqueueSubmits ==
    ASSUME AllInv, AllInv', NEW k \in Jobs, Enqueue(k)
    PROVE  [Abstract!Next]_(Abstract!vars)
<1>1. TypeOK /\ Inv /\ PhaseInv BY DEF AllInv
<1>2. k \in Supported /\ ~Present(rows[k]) /\ UNCHANGED <<worker, seen>>
  BY DEF Enqueue, workerVars
<1>3. rows'[k] = NewRow /\ \A j \in Jobs \ {k} : rows'[j] = rows[j]
  BY <1>1 DEF Enqueue, TypeOK, Table
<1>4. NewRow.status = "queued" /\ NewRow.attempts = 0 BY DEF NewRow, NoRow
<1>5. ~(Busy /\ worker.job = k) BY <1>1, <1>2 DEF Inv, HeldIsClaimed, Present
<1>6. Phase(k) = "absent" /\ Phase(k)' = "waiting"
  BY <1>2, <1>3, <1>4, <1>5 DEF Phase, Present, Terminal, Busy
<1>7. \A j \in Supported \ {k} : Phase(j)' = Phase(j)
  BY <1>2, <1>3, SupportedJobs DEF Phase, Present, Busy, Holds
<1>8. \A j \in Supported : rows'[j].attempts = rows[j].attempts
  BY <1>1, <1>2, <1>3, <1>4, SupportedJobs DEF PhaseInv
<1>9. UNCHANGED tries BY <1>8 DEF tries
<1>10. phase[k] = "absent" /\ phase' = [phase EXCEPT ![k] = "waiting"]
  BY <1>2, <1>6, <1>7 DEF phase
<1>11. Abstract!Submit(k) BY <1>9, <1>10 DEF Abstract!Submit
<1>. QED BY <1>2, <1>11 DEF Abstract!Next

\* A cancel ends a job that waits, unless the worker holds it or a copy of it.
LEMMA CancelFinishes ==
    ASSUME AllInv, AllInv', NEW c \in Clients, CancelCommit(c)
    PROVE  [Abstract!Next]_(Abstract!vars)
<1>1. TypeOK /\ PhaseInv BY DEF AllInv
<1>. PICK k \in Jobs : k = requests[c].job BY <1>1 DEF CancelCommit, TypeOK
<1>2. Present(rows[k]) BY <1>1 DEF PhaseInv, CancelCommit
<1>3. UNCHANGED <<worker, seen>> BY DEF CancelCommit, workerVars
<1>4. /\ \A j \in Jobs \ {k} : rows'[j] = rows[j]
      /\ rows'[k].attempts = rows[k].attempts
      /\ rows'[k].status \in {rows[k].status, "cancelled"}
  <2>1. requests[c].seen \in Row BY <1>1 DEF TypeOK
  <2>2. rows' = [rows EXCEPT ![k] =
                    Update(requests[c].seen, CancelRequest(requests[c].seen), rows[k])]
    BY DEF CancelCommit
  <2>. QED BY <1>1, <2>1, <2>2, UpdateStatus, UpdateKeepsAttempts, RewrittenStatus
           DEF TypeOK, Table
<1>5. \A j \in Supported \ {k} : Phase(j)' = Phase(j)
  BY <1>3, <1>4, SupportedJobs DEF Phase, Present, Busy, Holds
<1>6. \A j \in Supported : rows'[j].attempts = rows[j].attempts
  BY <1>4, SupportedJobs
<1>7. Phase(k)' = Phase(k) \/ (Phase(k) = "waiting" /\ Phase(k)' = "done")
  BY <1>2, <1>3, <1>4 DEF Phase, Present, Busy, Holds, Terminal
<1>8. CASE k \in Supported /\ Phase(k)' # Phase(k)
  <2>1. \A j \in {k} : Phase(j) \in {"waiting", "executing"} /\ Phase(j)' = "done"
    BY <1>7, <1>8
  <2>2. {k} \in SUBSET Supported BY <1>8
  <2>. QED BY <1>5, <1>6, <2>1, <2>2, Finishes
<1>9. CASE ~(k \in Supported /\ Phase(k)' # Phase(k))
  <2>1. \A j \in Supported : Phase(j)' = Phase(j) BY <1>5, <1>9
  <2>. QED BY <1>6, <2>1, Stutters
<1>. QED BY <1>8, <1>9

\* The steps of the API that concern no row of a supported job.
LEMMA ApiStutters ==
    ASSUME AllInv, AllInv',
           \/ ApiStart \/ ApiReap \/ ApiCrash
           \/ \E c \in Clients, j \in Jobs : CancelLoad(c, j)
    PROVE  [Abstract!Next]_(Abstract!vars)
<1>1. UNCHANGED <<worker, seen>>
  BY DEF ApiStart, ApiReap, ApiCrash, CancelLoad, workerVars
<1>2. \A j \in Supported : rows'[j] = rows[j]
  <2>1. CASE ApiReap
    BY <2>1, SupportedJobs DEF ApiReap, Loaded, AllInv, SweptIsActive, Supported
  <2>2. CASE UNCHANGED rows BY <2>2
  <2>. QED BY <2>1, <2>2 DEF ApiStart, ApiCrash, CancelLoad
<1>. QED BY <1>1, <1>2, QuietStep DEF Busy

-----------------------------------------------------------------------------
(* The steps of the worker *)

\* A job is executed once more, or charged for an attempt that is lost.
LEMMA ClaimBegins ==
    ASSUME AllInv, AllInv', NEW k \in Jobs,
           ClaimLost(k) \/ \E n \in 0..MaxChecks : Claim(k, n)
    PROVE  [Abstract!Next]_(Abstract!vars)
<1>1. TypeOK /\ Inv BY DEF AllInv
<1>2. /\ worker.pc = "idle" /\ UNCHANGED seen
      /\ k \in Supported /\ rows[k].status = "queued" /\ rows[k] \in Row
      /\ rows' = [rows EXCEPT ![k] = Claimed(rows[k])]
  BY <1>1 DEF ClaimLost, Claim, NextQueued, TypeOK, Table, workerVars
<1>3. /\ \A j \in Jobs \ {k} : rows'[j] = rows[j]
      /\ rows'[k].status = "running" /\ rows'[k].attempts = rows[k].attempts + 1
  BY <1>1, <1>2 DEF TypeOK, Table, Claimed, Row
<1>4. ~Busy /\ \A j \in Jobs : ~Holds(seen[j])
  BY <1>1, <1>2, NothingPresent DEF Busy, Inv, CopiesFresh, Holds, Present, Active
<1>5. rows[k].attempts < MaxAttempts BY <1>1, <1>2 DEF Inv, AttemptsBounded
<1>6. /\ phase[k] = "waiting" /\ tries[k] < MaxAttempts
      /\ \A j \in Supported : phase[j] # "executing"
  BY <1>2, <1>4, <1>5 DEF phase, tries, Phase, Present, Terminal
<1>7. tries' = [tries EXCEPT ![k] = @ + 1]
  <2>1. tries' = [j \in Supported |-> IF j = k THEN tries[k] + 1 ELSE tries[j]]
    BY <1>2, <1>3, SupportedJobs DEF tries
  <2>. QED BY <1>2, <2>1 DEF tries
<1>8. CASE ClaimLost(k)
  <2>1. UNCHANGED worker BY <1>8 DEF ClaimLost, workerVars
  <2>2. \A j \in Supported : Phase(j)' = Phase(j)
    BY <1>2, <1>3, <1>4, <2>1, SupportedJobs DEF Phase, Present, Busy, Holds, Terminal
  <2>3. UNCHANGED phase BY <2>2 DEF phase
  <2>4. Abstract!Waste(k) BY <1>6, <1>7, <2>3 DEF Abstract!Waste
  <2>. QED BY <1>2, <2>4 DEF Abstract!Next
<1>9. CASE \E n \in 0..MaxChecks : Claim(k, n)
  <2>1. worker'.pc = "running" /\ worker'.job = k
    BY <1>1, <1>9 DEF Claim, TypeOK
  <2>2. Phase(k)' = "executing"
    BY <1>3, <2>1 DEF Phase, Present, Busy
  <2>3. \A j \in Supported \ {k} : Phase(j)' = Phase(j)
    BY <1>2, <1>3, <1>4, <2>1, SupportedJobs DEF Phase, Present, Busy, Holds
  <2>4. phase' = [phase EXCEPT ![k] = "executing"]
    BY <1>2, <2>2, <2>3 DEF phase
  <2>5. Abstract!Begin(k) BY <1>6, <1>7, <2>4 DEF Abstract!Begin
  <2>. QED BY <1>2, <2>5 DEF Abstract!Next
<1>. QED BY <1>8, <1>9

LEMMA LoadStutters ==
    ASSUME AllInv, AllInv', WorkerStart \/ LoadStaleRunningJobs \/ LoadOutcomeRow
    PROVE  [Abstract!Next]_(Abstract!vars)
<1>1. TypeOK /\ UNCHANGED rows
  BY DEF AllInv, WorkerStart, LoadStaleRunningJobs, LoadOutcomeRow
<1>2. (Busy' <=> Busy) /\ worker'.job = worker.job
  BY <1>1 DEF WorkerStart, LoadStaleRunningJobs, LoadOutcomeRow, TypeOK, Busy
<1>3. worker.pc \in {"down", "reapedLegacy", "ended"}
  BY DEF WorkerStart, LoadStaleRunningJobs, LoadOutcomeRow
<1>4. \A j \in Jobs : ~Holds(seen[j])
  BY <1>3, NothingPresent DEF AllInv, Inv, CopiesFresh, Holds, Present, Active
<1>5. ASSUME NEW j \in Supported, rows[j].status \in Terminal, ~(Busy /\ worker.job = j)
      PROVE  ~Holds(seen'[j])
  <2>1. j \in Jobs /\ j \notin LegacyActive /\ j \notin SupportedRunning
    BY <1>5 DEF Supported, LegacyActive, SupportedRunning, Terminal
  <2>2. LoadOutcomeRow => j # worker.job BY <1>5 DEF LoadOutcomeRow, Busy
  <2>. QED BY <2>1, <2>2 DEF WorkerStart, LoadStaleRunningJobs, LoadOutcomeRow, Load, Holds,
                             NoRow, Active
<1>. QED BY <1>1, <1>2, <1>4, <1>5, SupportedJobs, QuietStep

LEMMA RunnerStutters ==
    ASSUME AllInv, AllInv',
           \/ Checkpoint \/ RunnerReturns \/ RunnerRaises
           \/ DeadlinePasses \/ WorkerStopRequested
    PROVE  [Abstract!Next]_(Abstract!vars)
<1>1. TypeOK /\ UNCHANGED <<rows, seen>>
  BY DEF AllInv, Checkpoint, RunnerReturns, RunnerRaises, DeadlinePasses, WorkerStopRequested
<1>2. \/ worker.pc = "running" /\ \E o \in Outcomes : worker' = Ended(o)
      \/ worker' = [worker EXCEPT !.left = @ - 1]
      \/ worker' = [worker EXCEPT !.expired = TRUE]
      \/ worker' = [worker EXCEPT !.stopping = TRUE]
  BY DEF Checkpoint, RunnerReturns, RunnerRaises, DeadlinePasses, WorkerStopRequested, Outcomes
<1>3. (Busy' <=> Busy) /\ worker'.job = worker.job
  BY <1>1, <1>2 DEF TypeOK, Busy, Ended
<1>. QED BY <1>1, <1>3, QuietStep

\* The steps that forget what the worker's transactions have loaded.
LEMMA DropFinishes ==
    ASSUME AllInv, AllInv', 
           \/ ReapUnsupportedQueueRows \/ ReapStaleRunningJobs \/ WorkerExit
           \/ WorkerCrash \/ RecordOutcome \/ RecordLost
    PROVE  [Abstract!Next]_(Abstract!vars)
<1>1. TypeOK /\ Inv /\ \A j \in Supported : seen[j] \in Row /\ rows[j] \in Row
  BY SupportedJobs DEF AllInv, TypeOK, Table
<1>2. seen' = NothingLoaded
  BY DEF ReapUnsupportedQueueRows, ReapStaleRunningJobs, WorkerExit, WorkerCrash,
         RecordOutcome, RecordLost, AllInv, Inv, CopiesFresh
<1>3. ~Busy'
  <2>1. CASE ReapUnsupportedQueueRows \/ ReapStaleRunningJobs
    BY <1>1, <2>1 DEF ReapUnsupportedQueueRows, ReapStaleRunningJobs, TypeOK, Busy
  <2>2. CASE worker' = Idle \/ worker' = WorkerDown
    <3>1. Idle.pc = "idle" /\ WorkerDown.pc = "down" BY DEF Idle, WorkerDown
    <3>2. worker'.pc \in {"idle", "down"} BY <2>2, <3>1
    <3>. QED BY <3>2 DEF Busy
  <2>3. CASE WorkerExit \/ WorkerCrash
    <3>. QED BY <2>2, <2>3 DEF WorkerExit, WorkerCrash
  <2>4. CASE RecordOutcome \/ RecordLost
    <3>. QED BY <2>2, <2>4 DEF RecordOutcome, RecordLost
  <2>. QED BY <2>1, <2>3, <2>4
<1>4. CASE Busy
  <2>1. worker.job \in Supported /\ Present(rows[worker.job])
    BY <1>1, <1>4 DEF Inv, HeldIsClaimed, Present
  <2>2. CASE UNCHANGED rows
    BY <1>2, <1>3, <1>4, <2>1, <2>2, JobDropped
  <2>3. CASE RecordOutcome
    <3>. PICK k \in Supported : k = worker.job BY <2>1
    <3>1. \A j \in Supported \ {k} : rows'[j] = rows[j]
      BY <1>1, <2>3, SupportedJobs DEF RecordOutcome, TypeOK, Table
    <3>2. rows'[k].attempts = rows[k].attempts
      BY <1>1, <2>3, SupportedJobs, UpdateKeepsAttempts DEF RecordOutcome, TypeOK, Table
    <3>3. Present(rows'[k])
      <4>1. Present(rows[k]) BY <2>1
      <4>2. [Next]_vars BY <2>3 DEF Next
      <4>. QED BY <4>1, <4>2, RowsStay, SupportedJobs
    <3>. QED BY <1>2, <1>3, <1>4, <3>1, <3>2, <3>3, JobDropped
  <2>4. UNCHANGED rows \/ RecordOutcome
    BY <1>4 DEF ReapUnsupportedQueueRows, ReapStaleRunningJobs, WorkerExit, WorkerCrash,
                RecordLost, Busy
  <2>. QED BY <2>2, <2>3, <2>4
<1>5. CASE ~Busy
  <2>1. ASSUME NEW j \in Supported
        PROVE  /\ rows'[j] = rows[j] \/ Holds(seen[j])
               /\ Present(rows'[j]) <=> Present(rows[j])
               /\ rows'[j].attempts = rows[j].attempts
    <3>1. CASE UNCHANGED rows BY <3>1
    <3>2. CASE ReapUnsupportedQueueRows
      <4>1. rows'[j] = rows[j]
        BY <1>1, <3>2, SupportedJobs DEF ReapUnsupportedQueueRows, Loaded, Inv, CopiesFresh
      <4>. QED BY <4>1
    <3>3. CASE ReapStaleRunningJobs
      <4>1. ~Present(seen[j]) => rows'[j] = rows[j]
        BY <3>3, SupportedJobs DEF ReapStaleRunningJobs, Loaded
      <4>2. Present(seen[j]) =>
               rows'[j] = Update(seen[j], Stale(seen[j]), rows[j])
        BY <3>3, SupportedJobs DEF ReapStaleRunningJobs, Loaded
      <4>3. Present(seen[j]) => Holds(seen[j]) /\ Present(rows[j])
        BY <1>1, <3>3, SupportedJobs
           DEF ReapStaleRunningJobs, Inv, CopiesFresh, Holds, Active
      <4>4. rows'[j].attempts = rows[j].attempts
        BY <4>1, <4>2, UpdateKeepsAttempts
      <4>5. Present(rows[j]) => Present(rows'[j])
        BY <3>3, RowsStay, SupportedJobs DEF Next
      <4>. QED BY <4>1, <4>3, <4>4, <4>5
    <3>4. UNCHANGED rows \/ ReapUnsupportedQueueRows \/ ReapStaleRunningJobs
      BY <1>5 DEF WorkerExit, WorkerCrash, RecordOutcome, RecordLost, Busy
    <3>. QED BY <3>1, <3>2, <3>3, <3>4
  <2>. QED BY <1>2, <1>3, <1>5, <2>1, CopiesDropped
<1>. QED BY <1>4, <1>5

LEMMA AbstractInit == Init => Abstract!Init
<1>. SUFFICES ASSUME Init PROVE Abstract!Init OBVIOUS
<1>1. \A j \in Supported : rows[j] = NoRow
  BY DEF Init, Supported, OldRows, Present, NewRow, NoRow
<1>2. /\ phase = [j \in Supported |-> "absent"]
      /\ tries = [j \in Supported |-> 0]
  BY <1>1 DEF phase, tries, Phase, Present, NoRow
<1>. QED BY <1>2 DEF Abstract!Init

LEMMA AbstractStep ==
    AllInv /\ [Next]_vars => [Abstract!Next]_(Abstract!vars)
<1>. SUFFICES ASSUME AllInv, [Next]_vars PROVE [Abstract!Next]_(Abstract!vars) OBVIOUS
<1>0. AllInv' BY AllInvStep
<1>1. CASE \/ ApiStart \/ ApiReap \/ ApiCrash
           \/ \E c \in Clients, j \in Jobs : CancelLoad(c, j)
  BY <1>0, <1>1, ApiStutters
<1>2. ASSUME NEW j \in Jobs, Enqueue(j) PROVE [Abstract!Next]_(Abstract!vars)
  BY <1>0, <1>2, EnqueueSubmits
<1>3. ASSUME NEW c \in Clients, CancelCommit(c) PROVE [Abstract!Next]_(Abstract!vars)
  BY <1>0, <1>3, CancelFinishes
<1>4. ASSUME NEW j \in Jobs, ClaimLost(j) \/ \E n \in 0..MaxChecks : Claim(j, n)
      PROVE  [Abstract!Next]_(Abstract!vars)
  BY <1>0, <1>4, ClaimBegins
<1>5. CASE WorkerStart \/ LoadStaleRunningJobs \/ LoadOutcomeRow
  BY <1>0, <1>5, LoadStutters
<1>6. CASE \/ Checkpoint \/ RunnerReturns \/ RunnerRaises
           \/ DeadlinePasses \/ WorkerStopRequested
  BY <1>0, <1>6, RunnerStutters
<1>7. CASE \/ ReapUnsupportedQueueRows \/ ReapStaleRunningJobs \/ WorkerExit
           \/ WorkerCrash \/ RecordOutcome \/ RecordLost
  BY <1>0, <1>7, DropFinishes
<1>8. CASE UNCHANGED vars
  <2>1. \A j \in Supported : Phase(j)' = Phase(j)
    BY <1>8 DEF vars, Phase, Present, Busy, Holds
  <2>. QED BY <1>8, <2>1, Stutters DEF vars
<1>. QED BY <1>1, <1>2, <1>3, <1>4, <1>5, <1>6, <1>7, <1>8 DEF Next, ClaimSome

\* For any number of jobs, clients, kills and lost transactions the queue
\* executes jobs one at a time, each at most max_attempts times, and never again
\* once it is done (background_runner.py, jobs.py, routers/jobs.py).
THEOREM QueueIsBounded == Spec => ImplementsBoundedExecution
BY AbstractInit, AbstractStep, AllInvAlways, PTL
   DEF Spec, ImplementsBoundedExecution, Abstract!Spec
=============================================================================
