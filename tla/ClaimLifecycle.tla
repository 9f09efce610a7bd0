--------------------------- MODULE ClaimLifecycle ---------------------------
(***************************************************************************)
(* One games job of a birdtest server without a match test, its tasks of   *)
(* one game each, and everything that opens, ends or destroys their        *)
(* claims: claim requests, submissions, declines, the reclamation sweep,   *)
(* the finish checks, an admin's allocation and completion, purges and     *)
(* deletes, and restarts of the process.                                   *)
(*                                                                         *)
(* A handler is one request (or one spawned finish check) in flight.  Its  *)
(* steps are the points between which other requests run: a read of the    *)
(* database or of the process's memory, taking a claim's row lock, a       *)
(* commit.  What a transaction does under locks that keep every other      *)
(* request out of the rows it reads is one step.                           *)
(*                                                                         *)
(* Time is left to ClaimDeadlines: here any open claim may have lapsed     *)
(* when a sweep or a late submission looks at it, and any run of tasks at  *)
(* the time limit may have reached the streak that sets the job aside.     *)
(***************************************************************************)
EXTENDS Integers, FiniteSets

CONSTANTS
  Worker,     \* the identities: users and anonymous workers
  Token,      \* the claim tokens that can be issued; one is never issued twice
  Handler,    \* the requests and spawned checks in flight at once
  Purger,     \* the transaction of a purge or a delete, as an owner of row locks
  None,       \* no token, no owner
  MaxUnits,   \* the job's max_units: it finishes when that many games are stored
  MaxHolds,   \* bound: purges and deletes that take a hold per process lifetime
  MaxRestarts \* bound: restarts of the process

ASSUME UnitsAssumption == MaxUnits \in Nat \ {0}
ASSUME BoundsAssumption == MaxHolds \in Nat /\ MaxRestarts \in Nat

(* The tasks by their place in the seed order: task t is generated from    *)
(* seed t, and seeds stop at the cap (past_the_cap).                       *)
Task == 1..MaxUnits

ASSUME ActorsAssumption ==
  /\ IsFiniteSet(Token)
  /\ None \notin Token \cup Handler \cup Worker \cup {Purger}
  /\ None \notin Task
  /\ Purger \notin Handler

VARIABLES
  \* the row of the job
  status,         \* "active", "inactive", "completed", or "deleted"
  finishedBy,     \* who made the completion in force: "admin", the finish check of a
                  \* "submission" or of an "idle" job, or "none" (the audit log's record)
  claimsIssued,   \* jobs.claims_issued
  tasksTotal,     \* jobs.tasks_total
  tasksCompleted, \* jobs.tasks_completed
  \* the rows of its tasks
  slot,           \* slot[t]: tasks.state, or "none" before the task is made
  live,           \* live[t]: tasks.active_claim_count
  accepted,       \* accepted[t]: tasks.accepted_count, the results stored for t
  \* the rows of their claims
  cstate,         \* cstate[c]: task_claims.state; "unissued" before, "deleted" after
  ctask,          \* ctask[c]: the task claimed
  cworker,        \* cworker[c]: the identity the token is bound to
  rowLock,        \* rowLock[c]: the transaction holding the claim's row, or None
  \* the contributors' rows
  credit,         \* credit[w]: tasks_completed of the identity
  \* a purge or a delete, and what the process remembers of it
  purge,          \* where the purge's transaction is
  owed,           \* owed[w]: what it counted for the identity (Contributions)
  held,           \* DispatchHolds: a claims hold on the job
  holdsTaken,     \* DispatchHolds.claims_holds_taken
  restarts,       \* restarts so far, for the bound
  \* the requests in flight
  pc,             \* pc[h]: where handler h is
  req             \* req[h]: what it has read: [token, issued, holds]

jobVars    == <<status, finishedBy, claimsIssued, tasksTotal, tasksCompleted>>
taskVars   == <<slot, live, accepted>>
claimVars  == <<cstate, ctask, cworker>>
purgeVars  == <<purge, owed, held, holdsTaken, restarts>>
vars == <<jobVars, taskVars, claimVars, rowLock, credit, purgeVars, pc, req>>

Statuses    == {"active", "inactive", "completed", "deleted"}
ClaimStates == {"unissued", "claimed", "completed", "declined", "abandoned", "deleted"}
SlotStates  == {"none", "available", "claimed", "completed"}
PurgeStates == {"idle", "held", "dispatch", "claims", "row", "rebuild"}
HandlerStates ==
  {"idle",
   "claiming", "swept", "dispatching",               \* a claim request
   "submitting", "witnessed", "locked", "landed",    \* a submission
   "declining",                                      \* a decline
   "idleCheck", "idleCounted", "idleRead", "evaluating",
   "finishing",                                      \* finish checks
   "activate", "deactivate", "complete"}             \* an admin's request

(* What a request, or a finish check, remembers of what it has read. *)
Requests == [token : Token \cup {None}, issued : Nat, holds : Nat]
NoReq == [token |-> None, issued |-> 0, holds |-> 0]

TypeOK ==
  /\ status \in Statuses
  /\ finishedBy \in {"none", "admin", "submission", "idle"}
  /\ claimsIssued \in Nat /\ tasksTotal \in Nat /\ tasksCompleted \in Nat
  /\ slot \in [Task -> SlotStates]
  /\ live \in [Task -> Nat]
  /\ accepted \in [Task -> Nat]
  /\ cstate \in [Token -> ClaimStates]
  /\ ctask \in [Token -> Task \cup {None}]
  /\ cworker \in [Token -> Worker \cup {None}]
  /\ rowLock \in [Token -> Handler \cup {Purger, None}]
  /\ credit \in [Worker -> Nat]
  /\ purge \in PurgeStates
  /\ owed \in [Worker -> Nat]
  /\ held \in BOOLEAN
  /\ holdsTaken \in 0..MaxHolds
  /\ restarts \in 0..MaxRestarts
  /\ pc \in [Handler -> HandlerStates]
  /\ req \in [Handler -> Requests]

Init ==
  /\ status = "inactive" /\ finishedBy = "none"
  /\ claimsIssued = 0 /\ tasksTotal = 0 /\ tasksCompleted = 0
  /\ slot = [t \in Task |-> "none"]
  /\ live = [t \in Task |-> 0]
  /\ accepted = [t \in Task |-> 0]
  /\ cstate = [c \in Token |-> "unissued"]
  /\ ctask = [c \in Token |-> None]
  /\ cworker = [c \in Token |-> None]
  /\ rowLock = [c \in Token |-> None]
  /\ credit = [w \in Worker |-> 0]
  /\ purge = "idle" /\ held = FALSE /\ holdsTaken = 0 /\ restarts = 0
  /\ owed = [w \in Worker |-> 0]
  /\ pc = [h \in Handler |-> "idle"]
  /\ req = [h \in Handler |-> NoReq]

-----------------------------------------------------------------------------
(* Helpers                                                                 *)

(* GREATEST(n, 0), the floor every counter is written with. *)
Floor(n) == IF n > 0 THEN n ELSE 0

OpenClaims == {c \in Token : cstate[c] = "claimed"}

(* What a task's state becomes when n of its claims end with no result:    *)
(* the formula of reclaim_expired_for and release_claim.                   *)
SlotAfterRelease(t, n) ==
  CASE accepted[t] > 0         -> "completed"
    [] accepted[t] = 0 /\ Floor(live[t] - n) > 0 -> "claimed"
    [] OTHER                   -> "available"

(* A slip: the claims end, and the counter of their tasks drifts. *)
Release_KeepsCount(S, s) ==
  /\ cstate' = [c \in Token |-> IF c \in S THEN s ELSE cstate[c]]
  /\ slot' = [t \in Task |-> IF \E c \in S : ctask[c] = t THEN "available" ELSE slot[t]]
  /\ UNCHANGED live

(* Claims S end as state s and give their tasks' slots back. *)
Release(S, s) ==
  LET ended(t) == Cardinality({c \in S : ctask[c] = t})
      touched  == {ctask[c] : c \in S}
  IN /\ cstate' = [c \in Token |-> IF c \in S THEN s ELSE cstate[c]]
     /\ live' = [t \in Task |-> IF t \in touched THEN Floor(live[t] - ended(t)) ELSE live[t]]
     /\ slot' = [t \in Task |-> IF t \in touched THEN SlotAfterRelease(t, ended(t)) ELSE slot[t]]

(* record_time_limit, as far as the ledger sees it: the run of tasks at    *)
(* the time limit is, or is not, long enough to set an active job aside.   *)
RecordTimeLimit ==
  /\ \/ status' = status
     \/ status = "active" /\ status' = "inactive"
  /\ UNCHANGED <<finishedBy, claimsIssued, tasksTotal, tasksCompleted>>

(* A purge or delete holds the job's row from reading it to its commit,    *)
(* and the job's dispatch lock from before it locks the open claims.       *)
JobRowFree == purge # "row"
DispatchFree == purge \notin {"dispatch", "claims", "row"}

(* The request that h carries is answered. *)
Answer(h) ==
  /\ pc' = [pc EXCEPT ![h] = "idle"]
  /\ req' = [req EXCEPT ![h] = NoReq]

(* The request that h carries goes on to step p, with what it has read. *)
Step(h, p) ==
  /\ pc' = [pc EXCEPT ![h] = p]
  /\ UNCHANGED req

NothingStored == UNCHANGED <<jobVars, taskVars, claimVars, rowLock, credit, purgeVars>>

-----------------------------------------------------------------------------
(* A claim request                                                         *)

(* The job is among the worker's candidates: active, with an allocation. *)
ClaimRead(h) ==
  /\ pc[h] = "idle" /\ status = "active"
  /\ Step(h, "claiming")
  /\ NothingStored

(* A slip: a sweep that takes claims whose rows submissions hold. *)
ClaimSweep_Unlocked(h) ==
  /\ pc[h] = "claiming"
  /\ \E S \in SUBSET OpenClaims : Release(S, "abandoned")
  /\ Step(h, "swept")
  /\ UNCHANGED <<jobVars, accepted, ctask, cworker, rowLock, credit, purgeVars>>

(* reclaim_lapsed over the candidates: any of the job's open claims may    *)
(* have lapsed; one whose row somebody holds is skipped, never waited for. *)
ClaimSweep(h) ==
  /\ pc[h] = "claiming"
  /\ \E S \in SUBSET {c \in OpenClaims : rowLock[c] = None} : Release(S, "abandoned")
  /\ Step(h, "swept")
  /\ UNCHANGED <<jobVars, accepted, ctask, cworker, rowLock, credit, purgeVars>>

(* count_overruns: the sweep's overruns, counted under the dispatch lock.  *)
(* A job they set aside is offered to nobody, this worker included.        *)
ClaimSetAside(h) ==
  /\ pc[h] = "swept" /\ ~held /\ DispatchFree
  /\ \E c \in Token : cstate[c] = "abandoned"
  /\ status = "active" /\ status' = "inactive"
  /\ Answer(h)
  /\ UNCHANGED <<finishedBy, claimsIssued, tasksTotal, tasksCompleted,
                 taskVars, claimVars, rowLock, credit, purgeVars>>

(* try_claim_from_job: a held job is skipped without asking the database. *)
ClaimPass(h) ==
  /\ pc[h] = "swept"
  /\ IF held THEN Answer(h) ELSE Step(h, "dispatching")
  /\ NothingStored

(* A slip: a task goes on being offered while a claim of it is open. *)
Available_WhileClaimed == {t \in Task : slot[t] \in {"available", "claimed"}}

(* What a claim is handed: the oldest task whose last claim ended with no  *)
(* result, but for those this worker declined within the hour (recent),    *)
(* or else the next of the seed order, up to the cap.                      *)
Available == {t \in Task : slot[t] = "available"}
DeclinedBy(w) == {ctask[c] : c \in {d \in Token : cstate[d] = "declined" /\ cworker[d] = w}}
NextSeed == {t \in Task : slot[t] = "none" /\ \A u \in 1..(t - 1) : slot[u] # "none"}
Oldest(T) == {t \in T : \A u \in T : t <= u}
Offered(recent) == IF Available \subseteq recent THEN NextSeed ELSE Oldest(Available \ recent)

(* issue_claim: claim c of task t, made if it is new, for the identity w. *)
IssueClaim(w, c, t) ==
  /\ cstate[c] = "unissued"
  /\ cstate' = [cstate EXCEPT ![c] = "claimed"]
  /\ ctask' = [ctask EXCEPT ![c] = t]
  /\ cworker' = [cworker EXCEPT ![c] = w]
  /\ live' = [live EXCEPT ![t] = @ + 1]
  /\ slot' = [slot EXCEPT ![t] = "claimed"]
  /\ claimsIssued' = claimsIssued + 1
  /\ tasksTotal' = tasksTotal + (IF slot[t] = "none" THEN 1 ELSE 0)

(* acquire and issue_claim, in one transaction under the dispatch lock.    *)
(* Its last statement asks again whether the job is active: a job          *)
(* completed, deactivated or purged since it was selected hands out        *)
(* nothing, and the transaction rolls back.                                *)
ClaimIssue(h) ==
  /\ pc[h] = "dispatching" /\ DispatchFree /\ JobRowFree
  /\ status = "active"
  /\ \E w \in Worker, c \in Token : \E recent \in SUBSET DeclinedBy(w) :
       \E t \in Offered(recent) : IssueClaim(w, c, t)
  /\ Answer(h)
  /\ UNCHANGED <<status, finishedBy, tasksCompleted, accepted, rowLock, credit, purgeVars>>

(* Nothing is handed out: the dispatch lock does not come within its       *)
(* bounded wait, or the job is no longer active.                           *)
ClaimNothing(h) ==
  /\ pc[h] = "dispatching"
  /\ ~DispatchFree \/ status # "active"
  /\ Answer(h)
  /\ NothingStored

(* The job has no task for this worker: the one event left on which a job  *)
(* that is done, with nobody left to say so, is found out.  The check runs *)
(* on a task of its own, and is paced (should_check_idle).                 *)
NoWork == \E w \in Worker : \E recent \in SUBSET DeclinedBy(w) : Offered(recent) = {}

ClaimNoWork(h) ==
  /\ pc[h] = "dispatching" /\ DispatchFree
  /\ NoWork
  /\ Answer(h)
  /\ NothingStored

(* A slip: only submissions check whether the job is done. *)
ClaimIdleCheck_Never(h) == ClaimNoWork(h)

ClaimIdleCheck(h) ==
  /\ pc[h] = "dispatching" /\ DispatchFree
  /\ NoWork
  /\ Step(h, "idleCheck")
  /\ NothingStored

-----------------------------------------------------------------------------
(* Submissions, declines                                                   *)

(* submit_result reads the claim's job, without a lock.  A token that is   *)
(* not open is answered accepted: false, and nothing is done.              *)
SubmitRead(h, c) ==
  /\ pc[h] = "idle" /\ cstate[c] = "claimed"
  /\ pc' = [pc EXCEPT ![h] = "submitting"]
  /\ req' = [req EXCEPT ![h] =
       [NoReq EXCEPT !.token = c, !.issued = IF status = "active" THEN claimsIssued ELSE 0]]
  /\ NothingStored

(* A slip: submissions queue on the rows a purge is waiting for. *)
SubmitWitness_Held(h) ==
  /\ pc[h] = "submitting"
  /\ pc' = [pc EXCEPT ![h] = "witnessed"]
  /\ req' = [req EXCEPT ![h].holds = holdsTaken]
  /\ NothingStored

(* The job's purge count, read after its row, then the hold: a purge that  *)
(* holds the claims answers the submission at once.                        *)
SubmitWitness(h) ==
  /\ pc[h] = "submitting"
  /\ IF held
     THEN Answer(h)
     ELSE /\ pc' = [pc EXCEPT ![h] = "witnessed"]
          /\ req' = [req EXCEPT ![h].holds = holdsTaken]
  /\ NothingStored

(* A slip: the claim looked up before the transaction is taken as open. *)
SubmitLock_Unchecked(h) ==
  /\ pc[h] = "witnessed" /\ rowLock[req[h].token] = None
  /\ rowLock' = [rowLock EXCEPT ![req[h].token] = h]
  /\ Step(h, "locked")
  /\ UNCHANGED <<jobVars, taskVars, claimVars, credit, purgeVars>>

(* The claim's row is locked only as an open claim of this identity. *)
SubmitLock(h) ==
  /\ pc[h] = "witnessed"
  /\ \E c \in OpenClaims :
       /\ c = req[h].token /\ rowLock[c] = None
       /\ rowLock' = [rowLock EXCEPT ![c] = h]
  /\ Step(h, "locked")
  /\ UNCHANGED <<jobVars, taskVars, claimVars, credit, purgeVars>>

(* The claim has ended, or its row does not come within CLAIM_LOCK_WAIT. *)
GiveUp(h) ==
  /\ pc[h] \in {"witnessed", "declining"}
  /\ ~ \E c \in OpenClaims : c = req[h].token /\ rowLock[c] = None
  /\ Answer(h)
  /\ NothingStored

(* The deadline and its grace are past: the claim is released as the sweep *)
(* would release it, and its overrun counted.                              *)
SubmitLate(h) ==
  /\ pc[h] = "locked" /\ JobRowFree
  /\ \E c \in Token :
       /\ c = req[h].token
       /\ Release({c}, "abandoned")
       /\ rowLock' = [rowLock EXCEPT ![c] = None]
  /\ RecordTimeLimit
  /\ Answer(h)
  /\ UNCHANGED <<accepted, ctask, cworker, credit, purgeVars>>

(* The result is stored, the claim and its task completed, the contributor *)
(* and the job credited, in one commit.  What follows it is the finish     *)
(* check, if the job was active when its row was read: `issued` is 0 if it *)
(* was not, and counts this claim at least if it was.                      *)
SubmitCommit(h) ==
  /\ pc[h] = "locked" /\ JobRowFree
  /\ \E c \in Token : LET t == ctask[c] IN
       /\ c = req[h].token
       /\ cstate' = [cstate EXCEPT ![c] = "completed"]
       /\ accepted' = [accepted EXCEPT ![t] = @ + 1]
       /\ live' = [live EXCEPT ![t] = Floor(@ - 1)]
       /\ slot' = [slot EXCEPT ![t] = "completed"]
       /\ credit' = [credit EXCEPT ![cworker[c]] = @ + 1]
       /\ tasksCompleted' = tasksCompleted + (IF accepted[t] + 1 = 1 THEN 1 ELSE 0)
       /\ rowLock' = [rowLock EXCEPT ![c] = None]
  /\ IF req[h].issued > 0 THEN Step(h, "landed") ELSE Answer(h)
  /\ UNCHANGED <<status, finishedBy, claimsIssued, tasksTotal, ctask, cworker, purgeVars>>

(* A decline is refused while a purge holds the job's claims. *)
DeclineRead(h, c) ==
  /\ pc[h] = "idle" /\ cstate[c] = "claimed" /\ ~held
  /\ pc' = [pc EXCEPT ![h] = "declining"]
  /\ req' = [req EXCEPT ![h] = [NoReq EXCEPT !.token = c]]
  /\ NothingStored

(* A slip: the claim is given its task's next state. *)
DeclineCommit_TaskState(h) ==
  /\ pc[h] = "declining" /\ JobRowFree
  /\ \E c \in OpenClaims : c = req[h].token /\ rowLock[c] = None /\ Release({c}, "available")
  /\ RecordTimeLimit
  /\ Answer(h)
  /\ UNCHANGED <<accepted, ctask, cworker, rowLock, credit, purgeVars>>

DeclineCommit(h) ==
  /\ pc[h] = "declining" /\ JobRowFree
  /\ \E c \in OpenClaims :
       /\ c = req[h].token /\ rowLock[c] = None
       /\ Release({c}, "declined")
  /\ RecordTimeLimit
  /\ Answer(h)
  /\ UNCHANGED <<accepted, ctask, cworker, rowLock, credit, purgeVars>>

-----------------------------------------------------------------------------
(* Finish checks                                                           *)

(* finish_idle_job reads the purge count, then the job, then whether any   *)
(* claim is open: if one is, its own submission will check.                *)
IdleCount(h) ==
  /\ pc[h] = "idleCheck"
  /\ pc' = [pc EXCEPT ![h] = "idleCounted"]
  /\ req' = [req EXCEPT ![h].holds = holdsTaken]
  /\ NothingStored

IdleJob(h) ==
  /\ pc[h] = "idleCounted"
  /\ IF status = "active"
     THEN /\ pc' = [pc EXCEPT ![h] = "idleRead"]
          /\ req' = [req EXCEPT ![h].issued = claimsIssued]
     ELSE Answer(h)
  /\ NothingStored

IdleInFlight(h) ==
  /\ pc[h] = "idleRead"
  /\ IF OpenClaims = {} THEN Step(h, "evaluating") ELSE Answer(h)
  /\ NothingStored

(* should_check_finish: one submission in TEST_CHECK_EVERY is checked      *)
(* whatever is in flight, another only when nothing is.                    *)
FinishSkip(h) ==
  /\ pc[h] = "landed" /\ OpenClaims # {}
  /\ Answer(h)
  /\ NothingStored

(* finish_condition_met, with no match test: max_units games are stored. *)
AllStored == \A t \in Task : accepted[t] > 0

FinishEvaluate(h) ==
  /\ pc[h] \in {"landed", "evaluating"}
  /\ IF AllStored THEN Step(h, "finishing") ELSE Answer(h)
  /\ NothingStored

(* A finish check spawned by a claim belongs to no request. *)
Spawned(h) ==
  /\ pc[h] \in {"idleCheck", "idleCounted", "idleRead", "evaluating", "finishing"}
  /\ req[h].token = None

(* A slip: claims_issued is the only witness. *)
PurgedSince_Unasked(h) == FALSE

(* complete_unless_purged: the two witnesses are asked with the job's row  *)
(* locked, and either one that has moved leaves the job as it is.          *)
PurgedSince(h) == holdsTaken # req[h].holds \/ held

Finish(h) ==
  /\ pc[h] = "finishing" /\ JobRowFree
  /\ IF status = "active" /\ claimsIssued >= req[h].issued /\ ~PurgedSince(h)
     THEN status' = "completed" /\ finishedBy' = IF Spawned(h) THEN "idle" ELSE "submission"
     ELSE UNCHANGED <<status, finishedBy>>
  /\ Answer(h)
  /\ UNCHANGED <<claimsIssued, tasksTotal, tasksCompleted,
                 taskVars, claimVars, rowLock, credit, purgeVars>>

-----------------------------------------------------------------------------
(* An admin                                                                *)

AdminOps == {"activate", "deactivate", "complete"}

(* refuse_while_purging *)
AdminRead(h, op) ==
  /\ pc[h] = "idle" /\ ~held
  /\ pc' = [pc EXCEPT ![h] = op]
  /\ req' = [req EXCEPT ![h] = [NoReq EXCEPT !.holds = holdsTaken]]
  /\ NothingStored

(* set_allocations (to some share, or to 0%) and complete_job, with the    *)
(* job's row locked.  A completed job stays completed; a job purged since  *)
(* the request came in, or being purged, is left alone                     *)
(* (refuse_if_purged_since).                                               *)
AdminAct(h) ==
  /\ pc[h] \in AdminOps /\ JobRowFree
  /\ IF status \in {"active", "inactive"} /\ ~PurgedSince(h)
     THEN /\ status' = CASE pc[h] = "activate"   -> "active"
                         [] pc[h] = "deactivate" -> "inactive"
                         [] OTHER                -> "completed"
          /\ finishedBy' = IF pc[h] = "complete" THEN "admin" ELSE finishedBy
     ELSE UNCHANGED <<status, finishedBy>>
  /\ Answer(h)
  /\ UNCHANGED <<claimsIssued, tasksTotal, tasksCompleted,
                 taskVars, claimVars, rowLock, credit, purgeVars>>

-----------------------------------------------------------------------------
(* A purge or a delete, spawned on a task of its own (run_to_completion)   *)

PurgeUnchanged == UNCHANGED <<jobVars, taskVars, claimVars, credit, restarts, pc, req>>

(* try_hold_claims: of two that arrive together, one gets the hold. *)
PurgeHold ==
  /\ purge = "idle" /\ ~held /\ holdsTaken < MaxHolds /\ status # "deleted"
  /\ purge' = "held" /\ held' = TRUE /\ holdsTaken' = holdsTaken + 1
  /\ PurgeUnchanged /\ UNCHANGED <<rowLock, owed>>

PurgeDispatch ==
  /\ purge = "held" /\ purge' = "dispatch"
  /\ PurgeUnchanged /\ UNCHANGED <<rowLock, owed, held, holdsTaken>>

(* lock_open_claims, a row at a time: one that a submission holds is       *)
(* waited for, and passed by if the submission ended the claim.            *)
PurgeLockClaim(c) ==
  /\ purge = "dispatch" /\ cstate[c] = "claimed" /\ rowLock[c] = None
  /\ rowLock' = [rowLock EXCEPT ![c] = Purger]
  /\ PurgeUnchanged /\ UNCHANGED <<purge, owed, held, holdsTaken>>

(* A slip: the claims that submissions hold are passed by, not waited for. *)
PurgeAllLocked_Skips ==
  /\ purge = "dispatch"
  /\ \A c \in OpenClaims : rowLock[c] # None
  /\ purge' = "claims"
  /\ PurgeUnchanged /\ UNCHANGED <<rowLock, owed, held, holdsTaken>>

PurgeAllLocked ==
  /\ purge = "dispatch"
  /\ \A c \in OpenClaims : rowLock[c] = Purger
  /\ purge' = "claims"
  /\ PurgeUnchanged /\ UNCHANGED <<rowLock, owed, held, holdsTaken>>

(* The job's row is locked, and what each contributor earned from the job  *)
(* counted.                                                                *)
CompletedBy(w) == {c \in Token : cstate[c] = "completed" /\ cworker[c] = w}

PurgeCount ==
  /\ purge = "claims" /\ purge' = "row"
  /\ owed' = [w \in Worker |-> Cardinality(CompletedBy(w))]
  /\ PurgeUnchanged /\ UNCHANGED <<rowLock, held, holdsTaken>>

(* A slip: the scheduler's counter survives the claims it counted. *)
Emptied_KeepsIssued(newStatus) ==
  /\ status' = newStatus /\ finishedBy' = "none"
  /\ tasksTotal' = 0 /\ tasksCompleted' = 0 /\ UNCHANGED claimsIssued
  /\ slot' = [t \in Task |-> "none"]
  /\ live' = [t \in Task |-> 0]
  /\ accepted' = [t \in Task |-> 0]
  /\ cstate' = [c \in Token |-> IF cstate[c] = "unissued" THEN "unissued" ELSE "deleted"]
  /\ ctask' = [c \in Token |-> None]
  /\ cworker' = [c \in Token |-> None]
  /\ rowLock' = [c \in Token |-> None]
  /\ credit' = [w \in Worker |-> Floor(credit[w] - owed[w])]
  /\ owed' = [w \in Worker |-> 0]

(* The commit: the job is emptied, or goes, with what it earned anyone. *)
Emptied(newStatus) ==
  /\ status' = newStatus /\ finishedBy' = "none"
  /\ claimsIssued' = 0 /\ tasksTotal' = 0 /\ tasksCompleted' = 0
  /\ slot' = [t \in Task |-> "none"]
  /\ live' = [t \in Task |-> 0]
  /\ accepted' = [t \in Task |-> 0]
  /\ cstate' = [c \in Token |-> IF cstate[c] = "unissued" THEN "unissued" ELSE "deleted"]
  /\ ctask' = [c \in Token |-> None]
  /\ cworker' = [c \in Token |-> None]
  /\ rowLock' = [c \in Token |-> None]
  /\ credit' = [w \in Worker |-> Floor(credit[w] - owed[w])]
  /\ owed' = [w \in Worker |-> 0]

PurgeCommit ==
  /\ purge = "row" /\ purge' = "rebuild"
  /\ \E newStatus \in {"inactive", "deleted"} : Emptied(newStatus)
  /\ UNCHANGED <<held, holdsTaken, restarts, pc, req>>

(* What follows the commit (a leave job's rebuild) is over: the guard of   *)
(* the hold is dropped.                                                    *)
PurgeRelease ==
  /\ purge = "rebuild"
  /\ purge' = "idle" /\ held' = FALSE
  /\ PurgeUnchanged /\ UNCHANGED <<rowLock, owed, holdsTaken>>

(* An error: the transaction rolls back, and the guard is dropped. *)
PurgeAbort ==
  /\ purge \in {"held", "dispatch", "claims", "row"}
  /\ purge' = "idle" /\ held' = FALSE
  /\ rowLock' = [c \in Token |-> IF rowLock[c] = Purger THEN None ELSE rowLock[c]]
  /\ owed' = [w \in Worker |-> 0]
  /\ PurgeUnchanged /\ UNCHANGED holdsTaken

-----------------------------------------------------------------------------
(* Failures                                                                *)

(* A slip: the lock outlives the request. *)
Drop_KeepsLock(h) ==
  /\ pc[h] # "idle" /\ ~Spawned(h)
  /\ Answer(h)
  /\ NothingStored

(* A request fails or is dropped: its transaction rolls back. *)
Drop(h) ==
  /\ pc[h] # "idle" /\ ~Spawned(h)
  /\ rowLock' = [c \in Token |-> IF rowLock[c] = h THEN None ELSE rowLock[c]]
  /\ Answer(h)
  /\ UNCHANGED <<jobVars, taskVars, claimVars, credit, purgeVars>>

(* The process stops and starts again: what is stored stays, its memory    *)
(* and everything in flight go.                                            *)
Restart ==
  /\ restarts < MaxRestarts /\ restarts' = restarts + 1
  /\ pc' = [h \in Handler |-> "idle"]
  /\ req' = [h \in Handler |-> NoReq]
  /\ rowLock' = [c \in Token |-> None]
  /\ purge' = "idle" /\ held' = FALSE /\ holdsTaken' = 0
  /\ owed' = [w \in Worker |-> 0]
  /\ UNCHANGED <<jobVars, taskVars, claimVars, credit>>

-----------------------------------------------------------------------------
ClaimStep(h) ==
  \/ ClaimRead(h) \/ ClaimSweep(h) \/ ClaimSetAside(h) \/ ClaimPass(h)
  \/ ClaimIssue(h) \/ ClaimNothing(h) \/ ClaimNoWork(h) \/ ClaimIdleCheck(h)

WorkerStep(h) ==
  \/ \E c \in Token : SubmitRead(h, c) \/ DeclineRead(h, c)
  \/ SubmitWitness(h) \/ SubmitLock(h) \/ GiveUp(h)
  \/ SubmitLate(h) \/ SubmitCommit(h) \/ DeclineCommit(h)

FinishStep(h) ==
  \/ IdleCount(h) \/ IdleJob(h) \/ IdleInFlight(h)
  \/ FinishSkip(h) \/ FinishEvaluate(h) \/ Finish(h)

AdminStep(h) == (\E op \in AdminOps : AdminRead(h, op)) \/ AdminAct(h)

PurgeStep ==
  \/ PurgeDispatch \/ PurgeAllLocked \/ PurgeCount \/ PurgeCommit \/ PurgeRelease
  \/ \E c \in Token : PurgeLockClaim(c)

Next ==
  \/ \E h \in Handler :
       ClaimStep(h) \/ WorkerStep(h) \/ FinishStep(h) \/ AdminStep(h) \/ Drop(h)
  \/ PurgeHold \/ PurgeStep \/ PurgeAbort
  \/ Restart

Spec == Init /\ [][Next]_vars

-----------------------------------------------------------------------------
(* Safety                                                                  *)

(* The claims of a task that count against its one slot. *)
Occupying == {c \in Token : cstate[c] \in {"claimed", "completed"}}
Occupied(t, s) == \E c \in Token : cstate[c] = s /\ ctask[c] = t

(* A task's slot has at most one occupant, an open claim or the one whose  *)
(* result was accepted, and the state and both counters that dispatch      *)
(* reads instead of the claims agree with it, whatever claims lapsed, were *)
(* declined, retried or answered late on the way.                          *)
SlotInv ==
  /\ \A c, d \in Occupying : ctask[c] = ctask[d] => c = d
  /\ \A t \in Task :
       /\ slot[t] = "claimed" <=> Occupied(t, "claimed")
       /\ slot[t] = "completed" <=> Occupied(t, "completed")
       /\ live[t] = IF slot[t] = "claimed" THEN 1 ELSE 0
       /\ accepted[t] = IF slot[t] = "completed" THEN 1 ELSE 0

(* A contributor is credited for exactly the results that exist: what a    *)
(* purge takes back is what the submissions it destroys had given, however *)
(* the two are interleaved.                                                *)
CreditInv == \A w \in Worker : credit[w] = Cardinality(CompletedBy(w))

(* The job's running counters are what a count of its rows would find. *)
JobCountersInv ==
  /\ claimsIssued = Cardinality({c \in Token : cstate[c] \notin {"unissued", "deleted"}})
  /\ tasksTotal = Cardinality({t \in Task : slot[t] # "none"})
  /\ tasksCompleted = Cardinality({t \in Task : slot[t] = "completed"})

(* A job completed by a submission's finish check holds every result it    *)
(* was completed on: no purge between the check's reads and its write is   *)
(* overlooked, not even one that was waiting on that very submission.      *)
FinishInv == finishedBy = "submission" => status = "completed" /\ AllStored

(* The same of either finish check, which is what complete_unless_purged   *)
(* says of itself: a job is completed "unless it was purged after the      *)
(* evidence for that decision was read".                                   *)
FinishEvidence ==
  finishedBy \in {"submission", "idle"} => status = "completed" /\ AllStored

(* Once a purge has the open claims, no submission is between locking its  *)
(* claim and its commit, until the purge lets go: what it counts is what   *)
(* it destroys, and neither waits for the other's locks.                   *)
PurgeExclusive ==
  purge \in {"claims", "row"} =>
    /\ \A h \in Handler : pc[h] # "locked"
    /\ purge = "row" => \A w \in Worker : owed[w] = Cardinality(CompletedBy(w))

(* A claim ends once: a claim that lapsed, was declined or had its result  *)
(* accepted never becomes anything else, short of being deleted.           *)
ClaimEndsOnce ==
  [][\A c \in Token : cstate[c] \in {"completed", "declined", "abandoned"} =>
       cstate'[c] \in {cstate[c], "deleted"}]_cstate

-----------------------------------------------------------------------------
(* The inductive invariant behind SlotInv, CreditInv, FinishInv and        *)
(* PurgeExclusive                                                          *)

(* A claim has a task and an owner from its issue until it is deleted. *)
RowInv ==
  \A c \in Token :
    cstate[c] \in {"claimed", "completed", "declined", "abandoned"} =>
      ctask[c] \in Task /\ cworker[c] \in Worker

(* Who holds a claim's row: the submission about to end it, or the purge   *)
(* about to delete it, and nobody the row of a claim that has ended.       *)
LockInv ==
  /\ \A h \in Handler : pc[h] = "locked" =>
       req[h].token \in OpenClaims /\ rowLock[req[h].token] = h
  /\ \A c \in Token : rowLock[c] # None => cstate[c] = "claimed"
  /\ \A c \in Token : rowLock[c] \in Handler =>
       pc[rowLock[c]] = "locked" /\ req[rowLock[c]].token = c
  /\ \A c \in Token : rowLock[c] = Purger => purge \in {"dispatch", "claims", "row"}
  /\ purge \in {"claims", "row"} => \A c \in OpenClaims : rowLock[c] = Purger

(* A submission's purge count is one no purge under way had a part in, so  *)
(* that if it still stands, nothing it has seen stored has been deleted.   *)
WitnessOf(h) ==
  /\ pc[h] \in {"submitting", "witnessed", "locked", "landed"} => req[h].token # None
  /\ pc[h] \in {"idle", "claiming", "swept", "dispatching", "idleCheck",
                "idleCounted", "idleRead", "evaluating"} => req[h].token = None
  /\ pc[h] \in {"witnessed", "locked", "landed", "finishing"} /\ req[h].token # None =>
       /\ req[h].holds <= holdsTaken
       /\ held => req[h].holds < holdsTaken
       /\ pc[h] = "finishing" /\ req[h].holds = holdsTaken => AllStored

WitnessInv == (held <=> purge # "idle") /\ \A h \in Handler : WitnessOf(h)

CountedInv == purge = "row" => \A w \in Worker : owed[w] = Cardinality(CompletedBy(w))

(* Claims, locks, purge counts and credit agree in every state a step of   *)
(* the system can start from.                                              *)
IInv ==
  TypeOK /\ RowInv /\ SlotInv /\ LockInv /\ WitnessInv /\ CountedInv /\ CreditInv /\ FinishInv

-----------------------------------------------------------------------------
(* What the dispatch of a job promises, of which this is an implementation *)

Holder(t) == {c \in Token : cstate[c] = "completed" /\ ctask[c] = t}
DoneBy(t) == IF Holder(t) = {} THEN None ELSE cworker[CHOOSE c \in Holder(t) : TRUE]

Slots == INSTANCE TaskSlots WITH
  Nobody   <- None,
  doneBy   <- [t \in Task |-> DoneBy(t)],
  earned   <- credit,
  finished <- (finishedBy = "submission")

(* Whatever happens to its claims, each task ends with one contributor's   *)
(* result, credited once; emptying the job takes both away together.       *)
ImplementsTaskSlots == Slots!Spec

-----------------------------------------------------------------------------
(* Liveness                                                                *)

(* Every step of a request that is under way, and of a purge, is taken in  *)
(* time.  Workers keep asking for work; and though requests can be dropped *)
(* at any point, they are not for ever all dropped at the same one.        *)
Fairness ==
  /\ \A h \in Handler :
       /\ WF_vars(ClaimSweep(h) \/ ClaimPass(h))
       /\ WF_vars(ClaimIssue(h) \/ ClaimNothing(h) \/ ClaimIdleCheck(h))
       /\ WF_vars(SubmitWitness(h) \/ SubmitLock(h) \/ GiveUp(h))
       /\ WF_vars(SubmitCommit(h) \/ DeclineCommit(h))
       /\ WF_vars(FinishStep(h))
       /\ WF_vars(AdminAct(h))
  /\ SF_vars(\E h \in Handler : ClaimRead(h))
  /\ SF_vars(\E h \in Handler : ClaimSweep(h))
  /\ SF_vars(\E h \in Handler : ClaimPass(h) /\ ~held)
  /\ SF_vars(\E h \in Handler : ClaimIdleCheck(h))
  /\ WF_vars(PurgeStep)

LiveSpec == Spec /\ Fairness

(* An active job whose results are all stored stops being active, even if  *)
(* no submission is left to check it: it was inactive when the last one    *)
(* landed, or that one's finish check failed.                              *)
DoneJobLeavesDispatch == (status = "active" /\ AllStored) ~> status # "active"

(* A purge or a delete comes to its end, however many workers go on        *)
(* submitting to the job.                                                  *)
PurgeEnds == held ~> ~held
=============================================================================
