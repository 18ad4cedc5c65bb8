------------------------- MODULE JobQueueRefinement -------------------------
(***************************************************************************)
(* JobQueue implements BoundedExecution.  A job counts as executing while  *)
(* the worker has it, whatever its row says (a stale cancel may have made  *)
(* the row terminal under the worker), and as done only when its row is    *)
(* terminal and no transaction of the worker still holds an active copy.   *)
(***************************************************************************)
EXTENDS JobQueue

Phase(j) ==
    IF ~Present(rows[j]) THEN "absent"
    ELSE IF Busy /\ worker.job = j THEN "executing"
    ELSE IF rows[j].status \in Terminal /\ ~Holds(seen[j]) THEN "done"
    ELSE "waiting"

phase == [j \in Supported |-> Phase(j)]
tries == [j \in Supported |-> rows[j].attempts]

Abstract == INSTANCE BoundedExecution WITH Jobs <- Supported

\* The queue executes jobs one at a time, each at most max_attempts times, and
\* never again once it is done, through every race of cancels, sweeps, kills
\* and lost transactions (background_runner.py, jobs.py, routers/jobs.py).
ImplementsBoundedExecution == Abstract!Spec
=============================================================================
