------------------------------- MODULE JobIds -------------------------------
(***************************************************************************)
(* How create_job (services/jobs.py) numbers jobs: it scans the table for  *)
(* the largest numeric suffix, inserts the next number, and starts again   *)
(* when another request has committed the same primary key meanwhile.      *)
(***************************************************************************)
EXTENDS Naturals, FiniteSets

CONSTANTS
    Requests,      \* the requests that enqueue a job
    Tries,         \* inserts a request attempts before it gives up (8)
    OldSuffixes    \* numeric suffixes of ids that are not plain numbers

ASSUME JobIdsAssumption ==
    /\ IsFiniteSet(Requests) /\ Tries \in Nat \ {0} /\ OldSuffixes \subseteq Nat

VARIABLES
    ids,        \* the plain numbers that are primary keys of jobs
    requests

vars == <<ids, requests>>

InUse == ids \cup OldSuffixes

Init ==
    /\ ids = {}
    /\ requests = [r \in Requests |-> [pc |-> "scan", id |-> 0, collisions |-> 0]]

\* next_job_id: one more than the largest suffix, 1 for an empty table.
Candidates == {x + 1 : x \in InUse \cup {0}}
\* Mutant: the first number that is free.
IsFirstFree(n) ==
    n \in Candidates \ InUse /\ \A m \in Candidates \ InUse : n <= m

IsNextJobId(n) == n \in Candidates /\ \A x \in InUse : x < n

Scan(r, n) ==
    /\ requests[r].pc = "scan"
    /\ IsNextJobId(n)
    /\ requests' = [requests EXCEPT ![r].pc = "insert", ![r].id = n]
    /\ UNCHANGED ids

Insert(r) ==
    /\ requests[r].pc = "insert"
    /\ requests[r].id \notin ids
    /\ ids' = ids \cup {requests[r].id}
    /\ requests' = [requests EXCEPT ![r].pc = "created"]

\* Mutant: retry with the number that collided.
CollideAndRetrySame(r) ==
    LET n == requests[r].collisions + 1
    IN  /\ requests[r].pc = "insert"
        /\ requests[r].id \in ids
        /\ requests' = [requests EXCEPT ![r].pc = IF n < Tries THEN "insert" ELSE "gaveUp",
                                        ![r].collisions = n]
        /\ UNCHANGED ids

\* IntegrityError: roll back and rescan, or re-raise the last one.
Collide(r) ==
    LET n == requests[r].collisions + 1
    IN  /\ requests[r].pc = "insert"
        /\ requests[r].id \in ids
        /\ requests' = [requests EXCEPT ![r].pc = IF n < Tries THEN "scan" ELSE "gaveUp",
                                        ![r].collisions = n]
        /\ UNCHANGED ids

Next == \E r \in Requests :
    \/ \E n \in Candidates : Scan(r, n)
    \/ Insert(r) \/ Collide(r)

Spec == Init /\ [][Next]_vars

-----------------------------------------------------------------------------
Created == {r \in Requests : requests[r].pc = "created"}

\* Numbers are naturals and a request is in one of create_job's states
\* (services/jobs.py create_job).
TypeOK ==
    /\ ids \subseteq Nat
    /\ requests \in [Requests -> [pc : {"scan", "insert", "created", "gaveUp"},
                                  id : Nat, collisions : Nat]]

\* Every collision is another request's success: a request that gives up (and
\* is answered 500) has seen at least Tries jobs being created, so that no
\* request gives up while at most Tries of them run at a time
\* (services/jobs.py create_job).
GivingUpTakesACrowd ==
    \A r \in Requests : requests[r].pc = "gaveUp" => Cardinality(Created) >= Tries

\* Although the number comes from a scan that may be out of date at the insert,
\* a job always gets a number above every number in use, so that ids follow
\* commit order (services/jobs.py next_job_id, create_job).
IdsFollowCommits ==
    [][\A n \in ids' \ ids : \A x \in InUse : x < n]_vars
=============================================================================
