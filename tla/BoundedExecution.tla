-------------------------- MODULE BoundedExecution --------------------------
(***************************************************************************)
(* What the job queue promises, without rows, processes or transactions:   *)
(* jobs are executed one at a time, each at most MaxAttempts times, and a  *)
(* job that is done is never executed again.                               *)
(***************************************************************************)
EXTENDS Naturals

CONSTANTS Jobs, MaxAttempts

VARIABLES phase, tries

vars == <<phase, tries>>

Phases == {"absent", "waiting", "executing", "done"}

Init ==
    /\ phase = [j \in Jobs |-> "absent"]
    /\ tries = [j \in Jobs |-> 0]

Submit(j) ==
    /\ phase[j] = "absent"
    /\ phase' = [phase EXCEPT ![j] = "waiting"]
    /\ UNCHANGED tries

Begin(j) ==
    /\ phase[j] = "waiting" /\ tries[j] < MaxAttempts
    /\ \A k \in Jobs : phase[k] # "executing"
    /\ phase' = [phase EXCEPT ![j] = "executing"]
    /\ tries' = [tries EXCEPT ![j] = @ + 1]

\* An attempt that is charged and never takes place.
Waste(j) ==
    /\ phase[j] = "waiting" /\ tries[j] < MaxAttempts
    /\ \A k \in Jobs : phase[k] # "executing"
    /\ tries' = [tries EXCEPT ![j] = @ + 1]
    /\ UNCHANGED phase

Yield(j) ==
    /\ phase[j] = "executing"
    /\ phase' = [phase EXCEPT ![j] = "waiting"]
    /\ UNCHANGED tries

Finish(S) ==
    /\ S # {} /\ \A j \in S : phase[j] \in {"waiting", "executing"}
    /\ phase' = [j \in Jobs |-> IF j \in S THEN "done" ELSE phase[j]]
    /\ UNCHANGED tries

Next ==
    \/ \E j \in Jobs : Submit(j) \/ Begin(j) \/ Waste(j) \/ Yield(j)
    \/ \E S \in SUBSET Jobs : Finish(S)

Spec == Init /\ [][Next]_vars
=============================================================================
