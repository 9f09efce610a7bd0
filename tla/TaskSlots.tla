----------------------------- MODULE TaskSlots -----------------------------
(***************************************************************************)
(* What a job's dispatch promises, whatever claims, retries, lapses and    *)
(* lost answers it takes to get there: each task of the job ends with the  *)
(* result of at most one contributor, that contributor is credited for it  *)
(* exactly once, a purge or a delete takes every result away together with *)
(* its credit, and the server finishes the job by itself only on a full    *)
(* set of results.                                                         *)
(*                                                                         *)
(* ClaimLifecycle is the detailed specification that implements this one.  *)
(***************************************************************************)
EXTENDS Integers, FiniteSets

CONSTANTS
  Task,     \* the tasks of the job
  Worker,   \* the identities that contribute
  Nobody    \* not an identity: the contributor of a task without a result

VARIABLES
  doneBy,   \* doneBy[t]: whose result the task has, or Nobody
  earned,   \* earned[w]: the results the identity is credited with
  finished  \* whether the server itself has completed the job

vars == <<doneBy, earned, finished>>

Init ==
  /\ doneBy = [t \in Task |-> Nobody]
  /\ earned = [w \in Worker |-> 0]
  /\ finished = FALSE

(* A task that has no result yet gets one, and its worker the credit. *)
Accept(t, w) ==
  /\ doneBy[t] = Nobody
  /\ doneBy' = [doneBy EXCEPT ![t] = w]
  /\ earned' = [earned EXCEPT ![w] = @ + 1]
  /\ UNCHANGED finished

(* The server completes the job: only when every task has its result. *)
Finish ==
  /\ \A t \in Task : doneBy[t] # Nobody
  /\ finished' = TRUE
  /\ UNCHANGED <<doneBy, earned>>

(* A purge or a delete: the results go, and exactly their credit with them. *)
Empty ==
  /\ doneBy' = [t \in Task |-> Nobody]
  /\ earned' = [w \in Worker |-> earned[w] - Cardinality({t \in Task : doneBy[t] = w})]
  /\ finished' = FALSE

Next ==
  \/ \E t \in Task, w \in Worker : Accept(t, w)
  \/ Finish
  \/ Empty

Spec == Init /\ [][Next]_vars
=============================================================================
