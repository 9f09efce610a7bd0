----------------------- MODULE ClaimLifecycle_proofs -----------------------
(***************************************************************************)
(* Proofs about ClaimLifecycle, for any number of workers, tokens,         *)
(* requests in flight, tasks, purges and restarts: its type invariant, its *)
(* inductive invariant and what follows from it, that it implements        *)
(* TaskSlots, and that the job's running counters are exact.               *)
(*                                                                         *)
(* A step does one of few things to the ledger (the claims, their tasks    *)
(* and the contributors' credit): nothing, give slots back, issue a claim, *)
(* accept a result, or empty the job.  LedgerSteps says so once, and the   *)
(* parts of IInv that speak of the ledger are proved over those five; the  *)
(* parts about locks and what requests have read, over the actions.        *)
(*                                                                         *)
(* Every step is a step of TaskSlots or a stutter: an accepted submission  *)
(* is Accept, the commit of a purge or a delete is Empty, a completion by  *)
(* a submission's finish check is Finish, and every other step leaves each *)
(* task with the result it had.                                            *)
(***************************************************************************)
EXTENDS ClaimLifecycle, FiniteSetTheorems, TLAPS

-----------------------------------------------------------------------------
(* Facts about the helpers                                                 *)

(* A floored counter is a natural number. *)
LEMMA FloorType == \A n \in Int : Floor(n) \in Nat
BY DEF Floor

(* Sets of tokens are finite, so counting them gives a natural number. *)
LEMMA CountType == \A S \in SUBSET Token : IsFiniteSet(S) /\ Cardinality(S) \in Nat
BY ActorsAssumption, FS_Subset, FS_CardinalityType

(* A request starts from nothing read. *)
LEMMA NoReqType == NoReq \in Requests
BY DEF NoReq, Requests

(* Answering a request, or taking it a step on, keeps the handlers typed. *)
LEMMA AnswerType ==
  ASSUME TypeOK, NEW h \in Handler, Answer(h)
  PROVE  pc' \in [Handler -> HandlerStates] /\ req' \in [Handler -> Requests]
BY NoReqType DEF TypeOK, Answer, HandlerStates

LEMMA StepType ==
  ASSUME TypeOK, NEW h \in Handler, NEW p \in HandlerStates, Step(h, p)
  PROVE  pc' \in [Handler -> HandlerStates] /\ req' \in [Handler -> Requests]
BY DEF TypeOK, Step

(* So does taking it a step on with what it has just read. *)
LEMMA ReadType ==
  ASSUME TypeOK, NEW h \in Handler, NEW p \in HandlerStates, NEW r \in Requests,
         pc' = [pc EXCEPT ![h] = p], req' = [req EXCEPT ![h] = r]
  PROVE  pc' \in [Handler -> HandlerStates] /\ req' \in [Handler -> Requests]
BY DEF TypeOK

(* The one release formula keeps the rows it writes of their types. *)
LEMMA ReleaseType ==
  ASSUME TypeOK, NEW S \in SUBSET Token, NEW s \in ClaimStates, Release(S, s)
  PROVE  /\ cstate' \in [Token -> ClaimStates]
         /\ live' \in [Task -> Nat]
         /\ slot' \in [Task -> SlotStates]
<1> DEFINE ended(t) == Cardinality({c \in S : ctask[c] = t})
<1>1. \A t \in Task : live[t] \in Nat /\ ended(t) \in Nat
  BY CountType DEF TypeOK
<1>2. \A t \in Task : Floor(live[t] - ended(t)) \in Nat
  BY <1>1, FloorType
<1>3. cstate' \in [Token -> ClaimStates]
  BY DEF Release, TypeOK
<1>4. live' \in [Task -> Nat]
  BY <1>1, <1>2 DEF Release
<1>5. slot' \in [Task -> SlotStates]
  BY DEF Release, TypeOK, SlotStates, SlotAfterRelease
<1> QED BY <1>3, <1>4, <1>5

-----------------------------------------------------------------------------
(* Types                                                                   *)

(* Every step leaves every variable in its type: no counter goes negative, *)
(* no row is given a state of another kind of row.                         *)
LEMMA TypeStep == TypeOK /\ [Next]_vars => TypeOK'
<1> SUFFICES ASSUME TypeOK, [Next]_vars PROVE TypeOK'
  OBVIOUS
<1> USE DEF jobVars, taskVars, claimVars, purgeVars, NothingStored, TypeOK
<1>1. ASSUME NEW h \in Handler, ClaimStep(h) PROVE TypeOK'
  <2>1. CASE ClaimRead(h)
    BY <2>1, StepType DEF ClaimRead, HandlerStates
  <2>2. CASE ClaimSweep(h)
    <3>1. PICK S \in SUBSET Token : Release(S, "abandoned")
      BY <2>2 DEF ClaimSweep, OpenClaims
    <3>2. cstate' \in [Token -> ClaimStates] /\ live' \in [Task -> Nat]
            /\ slot' \in [Task -> SlotStates]
      BY <3>1, ReleaseType DEF ClaimStates
    <3> QED BY <2>2, <3>2, StepType DEF ClaimSweep, HandlerStates
  <2>3. CASE ClaimSetAside(h)
    BY <2>3, AnswerType DEF ClaimSetAside, Statuses
  <2>4. CASE ClaimPass(h)
    BY <2>4, AnswerType, StepType DEF ClaimPass, HandlerStates
  <2>5. CASE ClaimIssue(h)
    BY <2>5, AnswerType DEF ClaimIssue, IssueClaim, ClaimStates, SlotStates,
                Offered, NextSeed, Oldest, Available
  <2>6. CASE ClaimNothing(h)
    BY <2>6, AnswerType DEF ClaimNothing
  <2>7. CASE ClaimNoWork(h)
    BY <2>7, AnswerType DEF ClaimNoWork
  <2>8. CASE ClaimIdleCheck(h)
    BY <2>8, StepType DEF ClaimIdleCheck, HandlerStates
  <2> QED BY <1>1, <2>1, <2>2, <2>3, <2>4, <2>5, <2>6, <2>7, <2>8 DEF ClaimStep
<1>2. ASSUME NEW h \in Handler, WorkerStep(h) PROVE TypeOK'
  <2>1. ASSUME NEW c \in Token, SubmitRead(h, c) PROVE TypeOK'
    <3> DEFINE n == IF status = "active" THEN claimsIssued ELSE 0
               r == [NoReq EXCEPT !.token = c, !.issued = n]
    <3>1. n \in Nat
      OBVIOUS
    <3>2. r \in Requests
      BY <3>1 DEF NoReq, Requests
    <3> QED BY <2>1, <3>2, ReadType DEF SubmitRead, HandlerStates
  <2>2. ASSUME NEW c \in Token, DeclineRead(h, c) PROVE TypeOK'
    <3>1. [NoReq EXCEPT !.token = c] \in Requests
      BY DEF NoReq, Requests
    <3> QED BY <2>2, <3>1, ReadType DEF DeclineRead, HandlerStates
  <2>3. CASE SubmitWitness(h)
    <3>1. CASE held
      BY <2>3, <3>1, AnswerType DEF SubmitWitness
    <3>2. CASE ~held
      <4>1. [req[h] EXCEPT !.holds = holdsTaken] \in Requests
        BY DEF Requests
      <4>2. /\ pc' = [pc EXCEPT ![h] = "witnessed"]
            /\ req' = [req EXCEPT ![h] = [req[h] EXCEPT !.holds = holdsTaken]]
        BY <2>3, <3>2 DEF SubmitWitness
      <4> QED BY <2>3, <4>1, <4>2, ReadType DEF SubmitWitness, HandlerStates
    <3> QED BY <3>1, <3>2
  <2>4. CASE SubmitLock(h)
    BY <2>4, StepType DEF SubmitLock, HandlerStates, OpenClaims
  <2>5. CASE GiveUp(h)
    BY <2>5, AnswerType DEF GiveUp
  <2>6. CASE SubmitLate(h)
    <3>1. PICK c \in Token : /\ Release({c}, "abandoned")
                             /\ rowLock' = [rowLock EXCEPT ![c] = None]
      BY <2>6 DEF SubmitLate
    <3>2. cstate' \in [Token -> ClaimStates] /\ live' \in [Task -> Nat]
            /\ slot' \in [Task -> SlotStates]
      BY <3>1, ReleaseType DEF ClaimStates
    <3> QED BY <2>6, <3>1, <3>2, AnswerType DEF SubmitLate, RecordTimeLimit, Statuses
  <2>7. CASE SubmitCommit(h)
    <3>1. \A t \in Task : Floor(live[t] - 1) \in Nat
      BY FloorType
    <3>2. pc' \in [Handler -> HandlerStates] /\ req' \in [Handler -> Requests]
      BY <2>7, AnswerType, StepType DEF SubmitCommit, HandlerStates
    <3>3. PICK c \in Token :
            /\ cstate' = [cstate EXCEPT ![c] = "completed"]
            /\ accepted' = [accepted EXCEPT ![ctask[c]] = @ + 1]
            /\ live' = [live EXCEPT ![ctask[c]] = Floor(@ - 1)]
            /\ slot' = [slot EXCEPT ![ctask[c]] = "completed"]
            /\ credit' = [credit EXCEPT ![cworker[c]] = @ + 1]
            /\ tasksCompleted' = tasksCompleted + (IF accepted[ctask[c]] + 1 = 1 THEN 1 ELSE 0)
            /\ rowLock' = [rowLock EXCEPT ![c] = None]
      BY <2>7 DEF SubmitCommit
    <3>4. accepted' \in [Task -> Nat]
      <4>1. \A t \in Task : accepted[t] + 1 \in Nat
        OBVIOUS
      <4> QED BY <4>1, <3>3
    <3>7. credit' \in [Worker -> Nat]
      <4>1. \A w \in Worker : credit[w] + 1 \in Nat
        OBVIOUS
      <4> QED BY <4>1, <3>3
    <3>6. live' \in [Task -> Nat]
      BY <3>1, <3>3
    <3>5. tasksCompleted' \in Nat
      BY <3>3
    <3> QED BY <2>7, <3>2, <3>3, <3>4, <3>5, <3>6, <3>7 DEF SubmitCommit, ClaimStates, SlotStates
  <2>8. CASE DeclineCommit(h)
    <3>1. PICK c \in Token : Release({c}, "declined")
      BY <2>8 DEF DeclineCommit, OpenClaims
    <3>2. cstate' \in [Token -> ClaimStates] /\ live' \in [Task -> Nat]
            /\ slot' \in [Task -> SlotStates]
      BY <3>1, ReleaseType DEF ClaimStates
    <3> QED BY <2>8, <3>2, AnswerType DEF DeclineCommit, RecordTimeLimit, Statuses
  <2> QED BY <1>2, <2>1, <2>2, <2>3, <2>4, <2>5, <2>6, <2>7, <2>8 DEF WorkerStep
<1>3. ASSUME NEW h \in Handler, FinishStep(h) PROVE TypeOK'
  <2>1. CASE IdleCount(h)
    <3>1. [req[h] EXCEPT !.holds = holdsTaken] \in Requests
      BY DEF Requests
    <3>2. /\ pc' = [pc EXCEPT ![h] = "idleCounted"]
          /\ req' = [req EXCEPT ![h] = [req[h] EXCEPT !.holds = holdsTaken]]
      BY <2>1 DEF IdleCount
    <3> QED BY <2>1, <3>1, <3>2, ReadType DEF IdleCount, HandlerStates
  <2>2. CASE IdleJob(h)
    <3>1. CASE status = "active"
      <4>1. [req[h] EXCEPT !.issued = claimsIssued] \in Requests
        BY DEF Requests
      <4>2. /\ pc' = [pc EXCEPT ![h] = "idleRead"]
            /\ req' = [req EXCEPT ![h] = [req[h] EXCEPT !.issued = claimsIssued]]
        BY <2>2, <3>1 DEF IdleJob
      <4> QED BY <2>2, <4>1, <4>2, ReadType DEF IdleJob, HandlerStates
    <3>2. CASE status # "active"
      BY <2>2, <3>2, AnswerType DEF IdleJob
    <3> QED BY <3>1, <3>2
  <2>3. CASE IdleInFlight(h)
    BY <2>3, AnswerType, StepType DEF IdleInFlight, HandlerStates
  <2>4. CASE FinishSkip(h)
    BY <2>4, AnswerType DEF FinishSkip
  <2>5. CASE FinishEvaluate(h)
    BY <2>5, AnswerType, StepType DEF FinishEvaluate, HandlerStates
  <2>6. CASE Finish(h)
    BY <2>6, AnswerType DEF Finish, Statuses
  <2> QED BY <1>3, <2>1, <2>2, <2>3, <2>4, <2>5, <2>6 DEF FinishStep
<1>4. ASSUME NEW h \in Handler, AdminStep(h) PROVE TypeOK'
  <2>1. ASSUME NEW op \in AdminOps, AdminRead(h, op) PROVE TypeOK'
    <3>1. [NoReq EXCEPT !.holds = holdsTaken] \in Requests
      BY DEF NoReq, Requests
    <3> QED BY <2>1, <3>1, ReadType DEF AdminRead, AdminOps, HandlerStates
  <2>2. CASE AdminAct(h)
    BY <2>2, AnswerType DEF AdminAct, Statuses
  <2> QED BY <1>4, <2>1, <2>2 DEF AdminStep
<1>5. ASSUME NEW h \in Handler, Drop(h) PROVE TypeOK'
  BY <1>5, AnswerType DEF Drop
<1>6. CASE PurgeHold
  BY <1>6, BoundsAssumption DEF PurgeHold, PurgeUnchanged, PurgeStates
<1>7. CASE PurgeStep
  <2>1. CASE PurgeDispatch
    BY <2>1 DEF PurgeDispatch, PurgeUnchanged, PurgeStates
  <2>2. CASE PurgeAllLocked
    BY <2>2 DEF PurgeAllLocked, PurgeUnchanged, PurgeStates
  <2>3. CASE PurgeCount
    <3>1. \A w \in Worker : Cardinality(CompletedBy(w)) \in Nat
      BY CountType DEF CompletedBy
    <3> QED BY <2>3, <3>1 DEF PurgeCount, PurgeUnchanged, PurgeStates
  <2>4. CASE PurgeCommit
    <3>1. \A w \in Worker : Floor(credit[w] - owed[w]) \in Nat
      BY FloorType
    <3> QED BY <2>4, <3>1 DEF PurgeCommit, Emptied, PurgeStates, Statuses,
                              ClaimStates, SlotStates
  <2>5. CASE PurgeRelease
    BY <2>5 DEF PurgeRelease, PurgeUnchanged, PurgeStates
  <2>6. ASSUME NEW c \in Token, PurgeLockClaim(c) PROVE TypeOK'
    BY <2>6 DEF PurgeLockClaim, PurgeUnchanged
  <2> QED BY <1>7, <2>1, <2>2, <2>3, <2>4, <2>5, <2>6 DEF PurgeStep
<1>8. CASE PurgeAbort
  BY <1>8 DEF PurgeAbort, PurgeUnchanged, PurgeStates
<1>9. CASE Restart
  <2>1. /\ pc' \in [Handler -> HandlerStates] /\ req' \in [Handler -> Requests]
        /\ rowLock' \in [Token -> Handler \cup {Purger, None}]
        /\ owed' \in [Worker -> Nat]
    BY <1>9, NoReqType DEF Restart, HandlerStates
  <2>2. purge' \in PurgeStates
    BY <1>9 DEF Restart, PurgeStates
  <2>4. held' \in BOOLEAN
    BY <1>9 DEF Restart
  <2>5. holdsTaken' \in 0..MaxHolds
    BY <1>9, BoundsAssumption DEF Restart
  <2>3. restarts' \in 0..MaxRestarts
    BY <1>9, BoundsAssumption DEF Restart
  <2> QED BY <1>9, <2>1, <2>2, <2>3, <2>4, <2>5 DEF Restart
<1>10. CASE UNCHANGED vars
  BY <1>10 DEF vars
<1> QED BY <1>1, <1>2, <1>3, <1>4, <1>5, <1>6, <1>7, <1>8, <1>9, <1>10 DEF Next

(* An empty job, with nothing in flight, is well typed. *)
LEMMA TypeInit == Init => TypeOK
<1>1. ASSUME Init PROVE TypeOK
  <2>1. pc \in [Handler -> HandlerStates] /\ req \in [Handler -> Requests]
    BY <1>1, NoReqType DEF Init, HandlerStates
  <2>2. /\ status \in Statuses /\ finishedBy \in {"none", "admin", "submission", "idle"}
        /\ claimsIssued \in Nat /\ tasksTotal \in Nat /\ tasksCompleted \in Nat
        /\ slot \in [Task -> SlotStates]
        /\ live \in [Task -> Nat] /\ accepted \in [Task -> Nat]
    BY <1>1 DEF Init, Statuses, SlotStates
  <2>3. /\ cstate \in [Token -> ClaimStates]
        /\ ctask \in [Token -> Task \cup {None}]
        /\ cworker \in [Token -> Worker \cup {None}]
        /\ rowLock \in [Token -> Handler \cup {Purger, None}]
    BY <1>1 DEF Init, ClaimStates
  <2>4. /\ purge \in PurgeStates
        /\ credit \in [Worker -> Nat] /\ owed \in [Worker -> Nat]
    BY <1>1 DEF Init, PurgeStates
  <2>5. held \in BOOLEAN
    BY <1>1 DEF Init
  <2>6. holdsTaken \in 0..MaxHolds /\ restarts \in 0..MaxRestarts
    BY <1>1, BoundsAssumption DEF Init
  <2> QED BY <2>1, <2>2, <2>3, <2>4, <2>5, <2>6 DEF TypeOK
<1> QED BY <1>1

(* Every variable keeps its type in every state of the system. *)
THEOREM TypeInvariant == Spec => []TypeOK
BY TypeInit, TypeStep, PTL DEF Spec

-----------------------------------------------------------------------------
(* What a step does to the ledger                                          *)

LedgerQuiet == UNCHANGED <<taskVars, claimVars, credit>>

(* Some open claims end with no result, and give their slots back. *)
LedgerRelease ==
  /\ \E S \in SUBSET OpenClaims, s \in {"abandoned", "declined"} : Release(S, s)
  /\ UNCHANGED <<accepted, ctask, cworker, credit>>

(* Every step is one of these five to the claims, tasks and credits; only  *)
(* a release, an issue, an accepted submission and a purge's commit write  *)
(* them at all.                                                            *)
LEMMA LedgerSteps ==
  ASSUME IInv, [Next]_vars
  PROVE  \/ LedgerQuiet
         \/ LedgerRelease
         \/ \E h \in Handler : ClaimIssue(h) \/ SubmitCommit(h)
         \/ PurgeCommit
<1> USE DEF LedgerQuiet
<1>1. ASSUME NEW h \in Handler, ClaimStep(h), ~ClaimIssue(h)
      PROVE  LedgerQuiet \/ LedgerRelease
  <2>1. CASE ClaimSweep(h)
    <3>1. PICK S \in SUBSET {c \in OpenClaims : rowLock[c] = None} : Release(S, "abandoned")
      BY <2>1 DEF ClaimSweep
    <3>2. S \in SUBSET OpenClaims
      OBVIOUS
    <3> QED BY <2>1, <3>1, <3>2 DEF LedgerRelease, ClaimSweep
  <2>2. CASE ~ClaimSweep(h)
    BY <1>1, <2>2 DEF ClaimStep, ClaimRead, ClaimSetAside, ClaimPass, ClaimNothing,
                  ClaimNoWork, ClaimIdleCheck, NothingStored
  <2> QED BY <2>1, <2>2
<1>2. ASSUME NEW h \in Handler, WorkerStep(h), ~SubmitCommit(h)
      PROVE  LedgerQuiet \/ LedgerRelease
  <2>1. CASE SubmitLate(h)
    <3>1. PICK c \in Token : c = req[h].token /\ Release({c}, "abandoned")
      BY <2>1 DEF SubmitLate
    <3>2. {c} \in SUBSET OpenClaims
      BY <2>1, <3>1 DEF SubmitLate, IInv, LockInv
    <3> QED BY <2>1, <3>1, <3>2 DEF LedgerRelease, SubmitLate
  <2>2. CASE DeclineCommit(h)
    <3>1. PICK c \in OpenClaims : Release({c}, "declined")
      BY <2>2 DEF DeclineCommit
    <3>2. {c} \in SUBSET OpenClaims
      BY <3>1
    <3> QED BY <2>2, <3>1, <3>2 DEF LedgerRelease, DeclineCommit
  <2>3. CASE ~SubmitLate(h) /\ ~DeclineCommit(h)
    BY <1>2, <2>3 DEF WorkerStep, SubmitRead, DeclineRead, SubmitWitness, SubmitLock,
                  GiveUp, NothingStored
  <2> QED BY <2>1, <2>2, <2>3
<1>3. ASSUME NEW h \in Handler, FinishStep(h) \/ AdminStep(h) \/ Drop(h) PROVE LedgerQuiet
  BY <1>3 DEF FinishStep, IdleCount, IdleJob, IdleInFlight, FinishSkip, FinishEvaluate,
              Finish, AdminStep, AdminRead, AdminAct, Drop, NothingStored
<1>4. ASSUME PurgeHold \/ PurgeStep \/ PurgeAbort, ~PurgeCommit PROVE LedgerQuiet
  BY <1>4 DEF PurgeHold, PurgeStep, PurgeDispatch, PurgeLockClaim, PurgeAllLocked,
              PurgeCount, PurgeRelease, PurgeAbort, PurgeUnchanged
<1>5. ASSUME Restart PROVE LedgerQuiet
  BY <1>5 DEF Restart
<1>6. ASSUME UNCHANGED vars PROVE LedgerQuiet
  BY <1>6 DEF vars
<1> QED BY <1>1, <1>2, <1>3, <1>4, <1>5, <1>6 DEF Next, PurgeStep

-----------------------------------------------------------------------------
(* Claims, tasks and their slots                                           *)

(* Ending open claims frees the slots of exactly their tasks, each of      *)
(* which had that one claim.                                               *)
LEMMA ReleaseFrees ==
  ASSUME IInv, NEW S \in SUBSET OpenClaims, NEW s \in {"abandoned", "declined"},
         Release(S, s)
  PROVE  \A t \in Task :
           IF \E c \in S : ctask[c] = t
           THEN slot[t] = "claimed" /\ slot'[t] = "available" /\ live'[t] = 0
           ELSE slot'[t] = slot[t] /\ live'[t] = live[t]
<1> DEFINE ended(t) == {c \in S : ctask[c] = t}
<1> TAKE t \in Task
<1>1. CASE \E c \in S : ctask[c] = t
  <2>1. PICK d \in S : ctask[d] = t
    BY <1>1
  <2>2. S \subseteq Occupying /\ d \in Token /\ cstate[d] = "claimed"
    BY DEF Occupying, OpenClaims
  <2>3. ended(t) = {d}
    BY <2>1, <2>2 DEF IInv, SlotInv
  <2>4. Cardinality(ended(t)) = 1
    BY <2>3, FS_Singleton
  <2>5. slot[t] = "claimed"
    BY <2>1, <2>2 DEF IInv, SlotInv, Occupied
  <2>6. live[t] = 1 /\ accepted[t] = 0
    BY <2>5 DEF IInv, SlotInv
  <2>7. live'[t] = Floor(live[t] - 1) /\ slot'[t] = SlotAfterRelease(t, 1)
    BY <1>1, <2>4 DEF Release
  <2>8. live'[t] = 0
    BY <2>6, <2>7 DEF Floor
  <2>9. slot'[t] = "available"
    BY <2>6, <2>7 DEF SlotAfterRelease, Floor
  <2> QED BY <1>1, <2>5, <2>8, <2>9
<1>2. CASE ~ \E c \in S : ctask[c] = t
  BY <1>2 DEF Release
<1> QED BY <1>1, <1>2

(* A claim is handed a task that nothing occupies. *)
LEMMA OfferedFree ==
  ASSUME IInv, NEW recent, NEW t \in Offered(recent)
  PROVE  /\ t \in Task /\ slot[t] \in {"none", "available"}
         /\ \A c \in Occupying : ctask[c] # t
         /\ live[t] = 0 /\ accepted[t] = 0
<1>1. t \in Task /\ slot[t] \in {"none", "available"}
  BY DEF Offered, NextSeed, Oldest, Available
<1>2. slot[t] # "claimed" /\ slot[t] # "completed"
  BY <1>1
<1>3. \A c \in Occupying : ctask[c] # t
  BY <1>1, <1>2 DEF IInv, SlotInv, Occupied, Occupying
<1>4. live[t] = 0 /\ accepted[t] = 0
  BY <1>1, <1>2 DEF IInv, SlotInv
<1> QED BY <1>1, <1>3, <1>4

(* Rows stay bound to a task and an owner, and slots to their occupants,   *)
(* through every step.                                                     *)
LEMMA SlotStep ==
  ASSUME IInv, [Next]_vars, TypeOK'
  PROVE  RowInv' /\ SlotInv'
<1>1. TypeOK /\ RowInv /\ SlotInv
  BY DEF IInv
<1>2. CASE LedgerQuiet
  BY <1>1, <1>2 DEF LedgerQuiet, taskVars, claimVars, RowInv, SlotInv, Occupying, Occupied
<1>3. CASE LedgerRelease
  <2>1. PICK S \in SUBSET OpenClaims, s \in {"abandoned", "declined"} : Release(S, s)
    BY <1>3 DEF LedgerRelease
  <2>2. UNCHANGED <<accepted, ctask, cworker>>
    BY <1>3 DEF LedgerRelease
  <2>3. \A c \in Token : cstate'[c] = IF c \in S THEN s ELSE cstate[c]
    BY <2>1 DEF Release
  <2>4. \A c \in S : c \in Token /\ cstate[c] = "claimed"
    BY DEF OpenClaims
  <2>5. RowInv'
    BY <1>1, <2>2, <2>3, <2>4 DEF RowInv
  <2>6. Occupying' = Occupying \ S
    BY <2>3, <2>4 DEF Occupying
  <2>7. \A c, d \in Occupying' : ctask'[c] = ctask'[d] => c = d
    BY <1>1, <2>2, <2>6 DEF SlotInv
  <2>8. ASSUME NEW t \in Task
        PROVE  /\ slot'[t] = "claimed" <=> Occupied(t, "claimed")'
               /\ slot'[t] = "completed" <=> Occupied(t, "completed")'
               /\ live'[t] = IF slot'[t] = "claimed" THEN 1 ELSE 0
               /\ accepted'[t] = IF slot'[t] = "completed" THEN 1 ELSE 0
    <3>1. CASE \E c \in S : ctask[c] = t
      <4>1. slot[t] = "claimed" /\ slot'[t] = "available" /\ live'[t] = 0
        BY <2>1, <3>1, ReleaseFrees
      <4>2. accepted'[t] = 0
        BY <1>1, <2>2, <4>1 DEF SlotInv
      <4>3. \A c \in Occupying' : ctask'[c] # t
        BY <1>1, <2>2, <2>4, <2>6, <3>1 DEF SlotInv, Occupying
      <4> QED BY <4>1, <4>2, <4>3 DEF Occupied, Occupying
    <3>2. CASE ~ \E c \in S : ctask[c] = t
      <4>1. slot'[t] = slot[t] /\ live'[t] = live[t] /\ accepted'[t] = accepted[t]
        BY <2>1, <2>2, <3>2, ReleaseFrees
      <4>2. \A x \in {"claimed", "completed"} : Occupied(t, x)' <=> Occupied(t, x)
        BY <2>2, <2>3, <3>2 DEF Occupied
      <4> QED BY <1>1, <4>1, <4>2 DEF SlotInv
    <3> QED BY <3>1, <3>2
  <2> QED BY <2>5, <2>7, <2>8 DEF SlotInv
<1>4. ASSUME NEW h \in Handler, ClaimIssue(h) PROVE RowInv' /\ SlotInv'
  <2>1. PICK w \in Worker, c \in Token : \E recent \in SUBSET DeclinedBy(w) :
          \E t \in Offered(recent) : IssueClaim(w, c, t)
    BY <1>4 DEF ClaimIssue
  <2>11. PICK recent \in SUBSET DeclinedBy(w) : \E t \in Offered(recent) : IssueClaim(w, c, t)
    BY <2>1
  <2>12. PICK t \in Offered(recent) : IssueClaim(w, c, t)
    BY <2>11
  <2>2. /\ cstate[c] = "unissued"
        /\ cstate' = [cstate EXCEPT ![c] = "claimed"]
        /\ ctask' = [ctask EXCEPT ![c] = t]
        /\ cworker' = [cworker EXCEPT ![c] = w]
        /\ live' = [live EXCEPT ![t] = @ + 1]
        /\ slot' = [slot EXCEPT ![t] = "claimed"]
    BY <2>12 DEF IssueClaim
  <2>3. accepted' = accepted
    BY <1>4 DEF ClaimIssue
  <2>4. /\ t \in Task /\ slot[t] \in {"none", "available"}
        /\ \A d \in Occupying : ctask[d] # t
        /\ live[t] = 0 /\ accepted[t] = 0
    BY OfferedFree
  <2>5. RowInv'
    BY <1>1, <2>2, <2>4 DEF RowInv, TypeOK
  <2>6. Occupying' = Occupying \cup {c}
    BY <1>1, <2>2 DEF Occupying, TypeOK
  <2>7. \A d \in Occupying : ctask'[d] = ctask[d]
    BY <1>1, <2>2 DEF Occupying, TypeOK
  <2>8. ctask'[c] = t
    BY <1>1, <2>2 DEF TypeOK
  <2>9. \A d, e \in Occupying' : ctask'[d] = ctask'[e] => d = e
    BY <1>1, <2>4, <2>6, <2>7, <2>8 DEF SlotInv
  <2>10. ASSUME NEW u \in Task
         PROVE  /\ slot'[u] = "claimed" <=> Occupied(u, "claimed")'
                /\ slot'[u] = "completed" <=> Occupied(u, "completed")'
                /\ live'[u] = IF slot'[u] = "claimed" THEN 1 ELSE 0
                /\ accepted'[u] = IF slot'[u] = "completed" THEN 1 ELSE 0
    <3>1. CASE u = t
      <4>1. slot'[u] = "claimed" /\ live'[u] = 1 /\ accepted'[u] = 0
        BY <1>1, <2>2, <2>3, <2>4, <3>1 DEF TypeOK
      <4>2. Occupied(u, "claimed")'
        BY <1>1, <2>2, <2>8, <3>1 DEF Occupied, TypeOK
      <4>3. ~Occupied(u, "completed")'
        BY <1>1, <2>2, <2>4, <3>1 DEF Occupied, Occupying, TypeOK
      <4> QED BY <4>1, <4>2, <4>3
    <3>2. CASE u # t
      <4>1. slot'[u] = slot[u] /\ live'[u] = live[u] /\ accepted'[u] = accepted[u]
        BY <1>1, <2>2, <2>3, <3>2 DEF TypeOK
      <4>2. \A x \in {"claimed", "completed"} : Occupied(u, x)' <=> Occupied(u, x)
        BY <1>1, <2>2, <3>2 DEF Occupied, TypeOK
      <4> QED BY <1>1, <4>1, <4>2 DEF SlotInv
    <3> QED BY <3>1, <3>2
  <2> QED BY <2>5, <2>9, <2>10 DEF SlotInv
<1>5. ASSUME NEW h \in Handler, SubmitCommit(h) PROVE RowInv' /\ SlotInv'
  <2>1. PICK c \in Token :
          /\ c = req[h].token
          /\ cstate' = [cstate EXCEPT ![c] = "completed"]
          /\ accepted' = [accepted EXCEPT ![ctask[c]] = @ + 1]
          /\ live' = [live EXCEPT ![ctask[c]] = Floor(@ - 1)]
          /\ slot' = [slot EXCEPT ![ctask[c]] = "completed"]
    BY <1>5 DEF SubmitCommit
  <2> DEFINE t == ctask[c]
  <2>2. ctask' = ctask /\ cworker' = cworker
    BY <1>5 DEF SubmitCommit
  <2>3. cstate[c] = "claimed"
    BY <1>5, <2>1 DEF SubmitCommit, IInv, LockInv, OpenClaims
  <2>4. t \in Task
    BY <1>1, <2>3 DEF RowInv
  <2>5. slot[t] = "claimed" /\ live[t] = 1 /\ accepted[t] = 0
    <3>1. slot[t] = "claimed"
      BY <1>1, <2>3, <2>4 DEF SlotInv, Occupied
    <3> QED BY <1>1, <2>4, <3>1 DEF SlotInv
  <2>6. RowInv'
    BY <1>1, <2>1, <2>2, <2>3 DEF RowInv, TypeOK
  <2>7. Occupying' = Occupying
    BY <1>1, <2>1, <2>3 DEF Occupying, TypeOK
  <2>8. ASSUME NEW u \in Task
        PROVE  /\ slot'[u] = "claimed" <=> Occupied(u, "claimed")'
               /\ slot'[u] = "completed" <=> Occupied(u, "completed")'
               /\ live'[u] = IF slot'[u] = "claimed" THEN 1 ELSE 0
               /\ accepted'[u] = IF slot'[u] = "completed" THEN 1 ELSE 0
    <3>1. CASE u = t
      <4>1. slot'[u] = "completed" /\ accepted'[u] = 0 + 1 /\ live'[u] = Floor(1 - 1)
        BY <1>1, <2>1, <2>4, <2>5, <3>1 DEF TypeOK
      <4>2. live'[u] = 0
        BY <4>1 DEF Floor
      <4>3. Occupied(u, "completed")'
        BY <1>1, <2>1, <2>2, <3>1 DEF Occupied, TypeOK
      <4>4. \A d \in Occupying : ctask[d] = t => d = c
        BY <1>1, <2>3 DEF SlotInv, Occupying
      <4>5. ~Occupied(u, "claimed")'
        BY <1>1, <2>1, <2>2, <3>1, <4>4 DEF Occupied, Occupying, TypeOK
      <4> QED BY <4>1, <4>2, <4>3, <4>5
    <3>2. CASE u # t
      <4>1. slot'[u] = slot[u] /\ live'[u] = live[u] /\ accepted'[u] = accepted[u]
        BY <1>1, <2>1, <2>4, <3>2 DEF TypeOK
      <4>2. \A x \in {"claimed", "completed"} : Occupied(u, x)' <=> Occupied(u, x)
        BY <1>1, <2>1, <2>2, <3>2 DEF Occupied, TypeOK
      <4> QED BY <1>1, <4>1, <4>2 DEF SlotInv
    <3> QED BY <3>1, <3>2
  <2>9. \A d, e \in Occupying' : ctask'[d] = ctask'[e] => d = e
    BY <1>1, <2>2, <2>7 DEF SlotInv
  <2> QED BY <2>6, <2>8, <2>9 DEF SlotInv
<1>6. CASE PurgeCommit
  <2>1. /\ \A c \in Token : cstate'[c] \in {"unissued", "deleted"}
        /\ slot' = [t \in Task |-> "none"]
        /\ live' = [t \in Task |-> 0]
        /\ accepted' = [t \in Task |-> 0]
    BY <1>6 DEF PurgeCommit, Emptied
  <2>2. Occupying' = {}
    BY <2>1 DEF Occupying
  <2>3. \A t \in Task : ~Occupied(t, "claimed")' /\ ~Occupied(t, "completed")'
    BY <2>1 DEF Occupied
  <2> QED BY <2>1, <2>2, <2>3 DEF RowInv, SlotInv
<1> QED BY <1>2, <1>3, <1>4, <1>5, <1>6, LedgerSteps
-----------------------------------------------------------------------------
(* Credit                                                                  *)

(* No step but an accepted submission and a purge's commit changes what a  *)
(* contributor has completed.                                              *)
LEMMA CompletedKept ==
  ASSUME IInv, LedgerQuiet \/ LedgerRelease \/ \E h \in Handler : ClaimIssue(h)
  PROVE  \A w \in Worker : CompletedBy(w)' = CompletedBy(w)
<1>1. CASE LedgerQuiet
  BY <1>1 DEF LedgerQuiet, claimVars, CompletedBy
<1>2. CASE LedgerRelease
  <2>1. PICK S \in SUBSET OpenClaims, s \in {"abandoned", "declined"} : Release(S, s)
    BY <1>2 DEF LedgerRelease
  <2>2. \A c \in Token : cstate'[c] = "completed" <=> cstate[c] = "completed"
    BY <2>1 DEF Release, OpenClaims
  <2> QED BY <1>2, <2>2 DEF LedgerRelease, CompletedBy
<1>3. ASSUME NEW h \in Handler, ClaimIssue(h)
      PROVE  \A w \in Worker : CompletedBy(w)' = CompletedBy(w)
  <2>1. PICK w \in Worker, c \in Token : \E recent \in SUBSET DeclinedBy(w) :
          \E t \in Offered(recent) : IssueClaim(w, c, t)
    BY <1>3 DEF ClaimIssue
  <2>2. /\ cstate[c] = "unissued"
        /\ cstate' = [cstate EXCEPT ![c] = "claimed"]
        /\ cworker' = [cworker EXCEPT ![c] = w]
    BY <2>1 DEF IssueClaim
  <2> QED BY <2>2 DEF CompletedBy, IInv, TypeOK
<1> QED BY <1>1, <1>2, <1>3

(* The credit of every contributor stays the number of its results stored. *)
LEMMA CreditStep ==
  ASSUME IInv, [Next]_vars, TypeOK'
  PROVE  CreditInv'
<1>1. TypeOK /\ RowInv /\ CreditInv
  BY DEF IInv
<1>2. CASE LedgerQuiet \/ LedgerRelease \/ \E h \in Handler : ClaimIssue(h)
  <2>1. UNCHANGED credit
    BY <1>2 DEF LedgerQuiet, LedgerRelease, ClaimIssue
  <2> QED BY <1>1, <1>2, <2>1, CompletedKept DEF CreditInv
<1>6. ASSUME NEW h \in Handler, SubmitCommit(h) PROVE CreditInv'
  <2>1. PICK c \in Token : /\ c = req[h].token
                           /\ cstate' = [cstate EXCEPT ![c] = "completed"]
                           /\ credit' = [credit EXCEPT ![cworker[c]] = @ + 1]
    BY <1>6 DEF SubmitCommit
  <2>2. cstate[c] = "claimed" /\ cworker' = cworker
    BY <1>6, <2>1 DEF SubmitCommit, IInv, LockInv, OpenClaims
  <2>3. cworker[c] \in Worker
    BY <1>1, <2>2 DEF RowInv
  <2>4. ASSUME NEW w \in Worker PROVE credit'[w] = Cardinality(CompletedBy(w)')
    <3>1. CASE w = cworker[c]
      <4>1. CompletedBy(w)' = CompletedBy(w) \cup {c}
        BY <1>1, <2>1, <2>2, <3>1 DEF CompletedBy, TypeOK
      <4>2. c \notin CompletedBy(w)
        BY <2>2 DEF CompletedBy
      <4>3. IsFiniteSet(CompletedBy(w))
        BY CountType DEF CompletedBy
      <4>4. Cardinality(CompletedBy(w)') = Cardinality(CompletedBy(w)) + 1
        BY <4>1, <4>2, <4>3, FS_AddElement
      <4>5. credit'[w] = credit[w] + 1
        BY <1>1, <2>1, <2>3, <3>1 DEF TypeOK
      <4> QED BY <1>1, <4>4, <4>5 DEF CreditInv
    <3>2. CASE w # cworker[c]
      <4>1. CompletedBy(w)' = CompletedBy(w)
        BY <1>1, <2>1, <2>2, <3>2 DEF CompletedBy, TypeOK
      <4>2. credit'[w] = credit[w]
        BY <1>1, <2>1, <3>2 DEF TypeOK
      <4> QED BY <1>1, <4>1, <4>2 DEF CreditInv
    <3> QED BY <3>1, <3>2
  <2> QED BY <2>4 DEF CreditInv
<1>7. CASE PurgeCommit
  <2>1. ASSUME NEW w \in Worker PROVE credit'[w] = Cardinality(CompletedBy(w)')
    <3>1. owed[w] = credit[w] /\ credit[w] \in Nat
      BY <1>1, <1>7 DEF PurgeCommit, IInv, CountedInv, CreditInv, TypeOK
    <3>2. credit'[w] = Floor(credit[w] - owed[w])
      BY <1>7 DEF PurgeCommit, Emptied
    <3>3. credit'[w] = 0
      BY <3>1, <3>2 DEF Floor
    <3>4. CompletedBy(w)' = {}
      BY <1>7 DEF PurgeCommit, Emptied, CompletedBy
    <3> QED BY <3>3, <3>4, FS_EmptySet
  <2> QED BY <2>1 DEF CreditInv
<1> QED BY <1>2, <1>6, <1>7, LedgerSteps

(* What a purge has counted stays what it is about to take back.           *)
LEMMA CountedStep ==
  ASSUME IInv, [Next]_vars
  PROVE  CountedInv'
<1>1. CASE PurgeCount
  <2>1. \A w \in Worker : owed'[w] = Cardinality(CompletedBy(w))
    BY <1>1 DEF PurgeCount
  <2>2. \A w \in Worker : CompletedBy(w)' = CompletedBy(w)
    BY <1>1 DEF PurgeCount, PurgeUnchanged, claimVars, CompletedBy
  <2> QED BY <2>1, <2>2 DEF CountedInv
<1>2. CASE ~PurgeCount
  <2>1. purge' = "row" => purge = "row" /\ owed' = owed
    <3>1. ASSUME NEW h \in Handler,
                 ClaimStep(h) \/ WorkerStep(h) \/ FinishStep(h) \/ AdminStep(h) \/ Drop(h)
          PROVE  purge' = purge /\ owed' = owed
      BY <3>1 DEF ClaimStep, ClaimRead, ClaimSweep, ClaimSetAside, ClaimPass, ClaimIssue,
                  ClaimNothing, ClaimNoWork, ClaimIdleCheck, WorkerStep, SubmitRead,
                  DeclineRead, SubmitWitness, SubmitLock, GiveUp, SubmitLate, SubmitCommit,
                  DeclineCommit, FinishStep, IdleCount, IdleJob, IdleInFlight, FinishSkip,
                  FinishEvaluate, Finish, AdminStep, AdminRead, AdminAct, Drop,
                  NothingStored, purgeVars
    <3>2. CASE PurgeHold \/ PurgeStep \/ PurgeAbort \/ Restart
      BY <1>2, <3>2 DEF PurgeHold, PurgeStep, PurgeDispatch, PurgeLockClaim,
                        PurgeAllLocked, PurgeCommit, PurgeRelease, PurgeAbort, Restart
    <3>3. CASE UNCHANGED vars
      BY <3>3 DEF vars, purgeVars
    <3> QED BY <3>1, <3>2, <3>3 DEF Next
  <2>2. purge = "row" => ~PurgeCommit \/ purge' # "row"
    BY DEF PurgeCommit
  <2>3. \A h \in Handler : SubmitCommit(h) => purge # "row"
    BY DEF SubmitCommit, JobRowFree
  <2>4. purge' = "row" => \A w \in Worker : CompletedBy(w)' = CompletedBy(w)
    BY <2>1, <2>2, <2>3, LedgerSteps, CompletedKept
  <2> QED BY <2>1, <2>4 DEF CountedInv, IInv
<1> QED BY <1>1, <1>2

-----------------------------------------------------------------------------
(* Locks on the rows of claims                                             *)

(* What the handlers other than h do not notice. *)
OthersKept(h) == \A g \in Handler : g # h => pc'[g] = pc[g] /\ req'[g] = req[g]

LEMMA Others ==
  ASSUME TypeOK, NEW h \in Handler
  PROVE  /\ Answer(h) => OthersKept(h) /\ pc'[h] = "idle" /\ req'[h] = NoReq
         /\ \A p : Step(h, p) => OthersKept(h) /\ pc'[h] = p /\ req'[h] = req[h]
         /\ \A p, r : pc' = [pc EXCEPT ![h] = p] /\ req' = [req EXCEPT ![h] = r] =>
              OthersKept(h) /\ pc'[h] = p /\ req'[h] = r
BY DEF TypeOK, Answer, Step, OthersKept

(* A step of a request that neither holds nor takes a lock, and leaves the *)
(* locked claims alone, leaves the locks in order.                         *)
LEMMA LockKept ==
  ASSUME IInv, NEW h \in Handler, OthersKept(h), pc[h] # "locked", pc'[h] # "locked",
         UNCHANGED <<rowLock, purge>>,
         \A c \in Token : rowLock[c] # None => cstate'[c] = cstate[c],
         purge \in {"claims", "row"} =>
           \A c \in Token : cstate'[c] = "claimed" => cstate[c] = "claimed"
  PROVE  LockInv'
<1>1. LockInv
  BY DEF IInv
<1>2. \A g \in Handler : pc'[g] = "locked" =>
        pc[g] = "locked" /\ req'[g] = req[g]
  BY DEF OthersKept
<1>3. \A g \in Handler : pc'[g] = "locked" =>
        req'[g].token \in OpenClaims' /\ rowLock'[req'[g].token] = g
  BY <1>1, <1>2, ActorsAssumption DEF LockInv, OpenClaims
<1>4. \A c \in Token : rowLock'[c] # None => cstate'[c] = "claimed"
  BY <1>1 DEF LockInv
<1>5. \A c \in Token : rowLock'[c] \in Handler =>
        pc'[rowLock'[c]] = "locked" /\ req'[rowLock'[c]].token = c
  BY <1>1 DEF LockInv, OthersKept
<1>6. purge' \in {"claims", "row"} => \A c \in OpenClaims' : rowLock'[c] = Purger
  BY <1>1 DEF LockInv, OpenClaims
<1>7. \A c \in Token : rowLock'[c] = Purger => purge' \in {"dispatch", "claims", "row"}
  BY <1>1 DEF LockInv
<1> QED BY <1>3, <1>4, <1>5, <1>6, <1>7 DEF LockInv

(* A request that lets go of its claim's row, and writes no other claim's, *)
(* does too: a purge that has its locks cannot be there.                   *)
LEMMA LockFreed ==
  ASSUME IInv, NEW h \in Handler, OthersKept(h), pc[h] = "locked", pc'[h] # "locked",
         UNCHANGED purge,
         \A c \in Token : rowLock'[c] = IF c = req[h].token THEN None ELSE rowLock[c],
         \A c \in Token : c # req[h].token => cstate'[c] = cstate[c]
  PROVE  LockInv'
<1>1. /\ req[h].token \in OpenClaims /\ rowLock[req[h].token] = h
      /\ purge \notin {"claims", "row"}
  BY ActorsAssumption DEF IInv, LockInv
<1>2. \A g \in Handler : g # h /\ pc[g] = "locked" => req[g].token # req[h].token
  BY <1>1 DEF IInv, LockInv
<1>3. \A g \in Handler : pc'[g] = "locked" =>
        req'[g].token \in OpenClaims' /\ rowLock'[req'[g].token] = g
  BY <1>1, <1>2 DEF IInv, LockInv, OthersKept, OpenClaims
<1>4. \A c \in Token : rowLock'[c] # None => cstate'[c] = "claimed"
  BY DEF IInv, LockInv
<1>5. \A c \in Token : rowLock'[c] \in Handler =>
        pc'[rowLock'[c]] = "locked" /\ req'[rowLock'[c]].token = c
  BY <1>1, ActorsAssumption DEF IInv, LockInv, OthersKept
<1>6. \A c \in Token : rowLock'[c] = Purger => purge' \in {"dispatch", "claims", "row"}
  BY ActorsAssumption DEF IInv, LockInv
<1>7. purge' \notin {"claims", "row"}
  BY <1>1
<1> QED BY <1>3, <1>4, <1>5, <1>6, <1>7 DEF LockInv

(* Ending claims nobody holds writes no locked claim, and opens none.      *)
LEMMA ReleaseUnlocked ==
  ASSUME NEW S \in SUBSET OpenClaims, NEW s \in {"abandoned", "declined"}, Release(S, s),
         \A c \in S : rowLock[c] = None
  PROVE  \A c \in Token : /\ rowLock[c] # None => cstate'[c] = cstate[c]
                          /\ cstate'[c] = "claimed" => cstate[c] = "claimed"
BY DEF Release, OpenClaims

(* The row of a claim is held by the one submission about to end it, or by *)
(* the purge about to delete it, after every step.                         *)
LEMMA LockStep ==
  ASSUME IInv, [Next]_vars
  PROVE  LockInv'
<1>1. TypeOK /\ LockInv
  BY DEF IInv
<1>2. ASSUME NEW h \in Handler, ClaimStep(h) PROVE LockInv'
  <2>1. pc[h] # "locked" /\ UNCHANGED <<rowLock, purge>>
    BY <1>2 DEF ClaimStep, ClaimRead, ClaimSweep, ClaimSetAside, ClaimPass, ClaimIssue,
                ClaimNothing, ClaimNoWork, ClaimIdleCheck, NothingStored, purgeVars
  <2>2. OthersKept(h) /\ pc'[h] # "locked"
    BY <1>1, <1>2, Others DEF ClaimStep, ClaimRead, ClaimSweep, ClaimSetAside, ClaimPass,
                ClaimIssue, ClaimNothing, ClaimNoWork, ClaimIdleCheck
  <2>3. CASE ClaimSweep(h)
    <3>1. PICK S \in SUBSET {c \in OpenClaims : rowLock[c] = None} : Release(S, "abandoned")
      BY <2>3 DEF ClaimSweep
    <3>2. S \in SUBSET OpenClaims /\ \A c \in S : rowLock[c] = None
      OBVIOUS
    <3> QED BY <2>1, <2>2, <3>1, <3>2, ReleaseUnlocked, LockKept
  <2>4. CASE ClaimIssue(h)
    <3>1. PICK w \in Worker, c \in Token : \E recent \in SUBSET DeclinedBy(w) :
            \E t \in Offered(recent) : IssueClaim(w, c, t)
      BY <2>4 DEF ClaimIssue
    <3>2. cstate[c] = "unissued" /\ cstate' = [cstate EXCEPT ![c] = "claimed"]
      BY <3>1 DEF IssueClaim
    <3>3. rowLock[c] = None /\ purge \notin {"claims", "row"}
      BY <1>1, <2>4, <3>2 DEF LockInv, ClaimIssue, DispatchFree
    <3>4. \A d \in Token : rowLock[d] # None => cstate'[d] = cstate[d]
      BY <1>1, <3>2, <3>3 DEF TypeOK
    <3> QED BY <2>1, <2>2, <3>3, <3>4, LockKept
  <2>5. CASE ~ClaimSweep(h) /\ ~ClaimIssue(h)
    <3>1. UNCHANGED cstate
      BY <1>2, <2>5 DEF ClaimStep, ClaimRead, ClaimSetAside, ClaimPass, ClaimNothing,
                        ClaimNoWork, ClaimIdleCheck, NothingStored, claimVars
    <3> QED BY <2>1, <2>2, <3>1, LockKept
  <2> QED BY <2>3, <2>4, <2>5
<1>3. ASSUME NEW h \in Handler, WorkerStep(h) PROVE LockInv'
  <2>1. CASE \/ \E c \in Token : SubmitRead(h, c) \/ DeclineRead(h, c)
             \/ SubmitWitness(h) \/ GiveUp(h)
    <3>1. pc[h] # "locked" /\ UNCHANGED <<rowLock, purge, cstate>>
      BY <2>1 DEF SubmitRead, DeclineRead, SubmitWitness, GiveUp, NothingStored,
                  purgeVars, claimVars
    <3>2. OthersKept(h) /\ pc'[h] # "locked"
      <4>1. ASSUME NEW c \in Token, SubmitRead(h, c) \/ DeclineRead(h, c)
            PROVE  OthersKept(h) /\ pc'[h] # "locked"
        BY <1>1, <4>1 DEF SubmitRead, DeclineRead, OthersKept, TypeOK
      <4>2. CASE SubmitWitness(h)
        BY <1>1, <4>2, Others DEF SubmitWitness, OthersKept, TypeOK
      <4>3. CASE GiveUp(h)
        BY <1>1, <4>3, Others DEF GiveUp
      <4> QED BY <2>1, <4>1, <4>2, <4>3
    <3> QED BY <3>1, <3>2, LockKept
  <2>2. CASE DeclineCommit(h)
    <3>1. PICK c \in OpenClaims : rowLock[c] = None /\ Release({c}, "declined")
      BY <2>2 DEF DeclineCommit
    <3>2. {c} \in SUBSET OpenClaims /\ \A d \in {c} : rowLock[d] = None
      BY <3>1
    <3>3. \A d \in Token : /\ rowLock[d] # None => cstate'[d] = cstate[d]
                           /\ cstate'[d] = "claimed" => cstate[d] = "claimed"
      BY <3>1, <3>2, ReleaseUnlocked
    <3>4. pc[h] # "locked" /\ UNCHANGED <<rowLock, purge>>
      BY <2>2 DEF DeclineCommit, purgeVars
    <3>5. OthersKept(h) /\ pc'[h] # "locked"
      BY <1>1, <2>2, Others DEF DeclineCommit
    <3> QED BY <3>3, <3>4, <3>5, LockKept
  <2>3. CASE SubmitLate(h)
    <3>1. /\ pc[h] = "locked" /\ UNCHANGED purge
          /\ req[h].token \in Token
          /\ \A c \in Token : c # req[h].token => cstate'[c] = cstate[c]
          /\ \A c \in Token : rowLock'[c] = IF c = req[h].token THEN None ELSE rowLock[c]
      BY <1>1, <2>3 DEF SubmitLate, Release, TypeOK, purgeVars
    <3>2. OthersKept(h) /\ pc'[h] # "locked"
      BY <1>1, <2>3, Others DEF SubmitLate
    <3> QED BY <3>1, <3>2, LockFreed
  <2>4. CASE SubmitCommit(h)
    <3>1. /\ pc[h] = "locked" /\ UNCHANGED purge
          /\ req[h].token \in Token
          /\ \A c \in Token : c # req[h].token => cstate'[c] = cstate[c]
          /\ \A c \in Token : rowLock'[c] = IF c = req[h].token THEN None ELSE rowLock[c]
      BY <1>1, <2>4 DEF SubmitCommit, TypeOK, purgeVars
    <3>2. OthersKept(h) /\ pc'[h] # "locked"
      BY <1>1, <2>4, Others DEF SubmitCommit
    <3> QED BY <3>1, <3>2, LockFreed
  <2>5. CASE SubmitLock(h)
    <3>1. PICK c \in OpenClaims : /\ c = req[h].token /\ rowLock[c] = None
                                  /\ rowLock' = [rowLock EXCEPT ![req[h].token] = h]
      BY <2>5 DEF SubmitLock
    <3>2. /\ OthersKept(h) /\ pc'[h] = "locked" /\ req'[h] = req[h]
          /\ UNCHANGED <<purge, cstate>> /\ pc[h] = "witnessed"
      BY <1>1, <2>5, Others DEF SubmitLock, purgeVars, claimVars
    <3>3. \A d \in Token : rowLock'[d] = IF d = c THEN h ELSE rowLock[d]
      BY <1>1, <3>1 DEF TypeOK
    <3>4. purge \notin {"claims", "row"}
      BY <1>1, <3>1, ActorsAssumption DEF LockInv
    <3>5. c \in Token /\ cstate[c] = "claimed"
      BY DEF OpenClaims
    <3>6. \A g \in Handler : pc'[g] = "locked" =>
            req'[g].token \in OpenClaims' /\ rowLock'[req'[g].token] = g
      BY <1>1, <3>1, <3>2, <3>3, <3>5, ActorsAssumption DEF LockInv, OthersKept, OpenClaims
    <3>7. \A d \in Token : rowLock'[d] # None => cstate'[d] = "claimed"
      BY <1>1, <3>2, <3>3, <3>5 DEF LockInv
    <3>8. \A d \in Token : rowLock'[d] \in Handler =>
            pc'[rowLock'[d]] = "locked" /\ req'[rowLock'[d]].token = d
      BY <1>1, <3>1, <3>2, <3>3 DEF LockInv, OthersKept
    <3>9. \A d \in Token : rowLock'[d] = Purger => purge' \in {"dispatch", "claims", "row"}
      BY <1>1, <3>2, <3>3, ActorsAssumption DEF LockInv
    <3> QED BY <3>2, <3>4, <3>6, <3>7, <3>8, <3>9 DEF LockInv
  <2> QED BY <1>3, <2>1, <2>2, <2>3, <2>4, <2>5 DEF WorkerStep
<1>4. ASSUME NEW h \in Handler, FinishStep(h) \/ AdminStep(h) PROVE LockInv'
  <2>1. pc[h] # "locked" /\ UNCHANGED <<rowLock, purge, cstate>>
    BY <1>4 DEF FinishStep, IdleCount, IdleJob, IdleInFlight, FinishSkip, FinishEvaluate,
                Finish, AdminStep, AdminRead, AdminAct, AdminOps, NothingStored,
                purgeVars, claimVars
  <2>2. OthersKept(h) /\ pc'[h] # "locked"
    <3>1. CASE FinishStep(h)
      BY <1>1, <3>1, Others DEF FinishStep, IdleCount, IdleJob, IdleInFlight, FinishSkip,
                FinishEvaluate, Finish
    <3>2. CASE AdminStep(h)
      BY <1>1, <3>2, Others DEF AdminStep, AdminRead, AdminAct, AdminOps
    <3> QED BY <1>4, <3>1, <3>2
  <2> QED BY <2>1, <2>2, LockKept
<1>5. ASSUME NEW h \in Handler, Drop(h) PROVE LockInv'
  <2>1. /\ OthersKept(h) /\ pc'[h] # "locked" /\ UNCHANGED <<purge, cstate>>
        /\ \A c \in Token : rowLock'[c] = IF rowLock[c] = h THEN None ELSE rowLock[c]
    BY <1>1, <1>5, Others DEF Drop, purgeVars, claimVars
  <2>2. CASE pc[h] = "locked"
    <3>1. \A c \in Token : rowLock[c] = h <=> c = req[h].token
      BY <1>1, <2>2 DEF LockInv, OpenClaims
    <3> QED BY <2>1, <2>2, <3>1, LockFreed
  <2>3. CASE pc[h] # "locked"
    <3>1. \A c \in Token : rowLock'[c] = rowLock[c]
      BY <1>1, <2>1, <2>3 DEF LockInv
    <3>2. rowLock' = rowLock
      BY <1>1, <1>5, <3>1 DEF Drop, TypeOK
    <3> QED BY <2>1, <2>3, <3>2, LockKept
  <2> QED BY <2>2, <2>3
<1>6. CASE PurgeHold \/ PurgeStep \/ PurgeAbort
  <2>1. CASE PurgeHold \/ PurgeDispatch \/ PurgeCount \/ PurgeRelease \/ PurgeAllLocked
    BY <1>1, <2>1 DEF PurgeHold, PurgeDispatch, PurgeCount, PurgeRelease, PurgeAllLocked,
                      PurgeUnchanged, claimVars, LockInv, OpenClaims
  <2>2. ASSUME NEW c \in Token, PurgeLockClaim(c) PROVE LockInv'
    <3>1. \A d \in Token : rowLock'[d] = IF d = c THEN Purger ELSE rowLock[d]
      BY <1>1, <2>2 DEF PurgeLockClaim, TypeOK
    <3>2. /\ UNCHANGED <<pc, req, cstate, purge>> /\ purge = "dispatch"
          /\ cstate[c] = "claimed" /\ rowLock[c] = None
      BY <2>2 DEF PurgeLockClaim, PurgeUnchanged, claimVars
    <3> QED BY <1>1, <3>1, <3>2, ActorsAssumption DEF LockInv, OpenClaims
  <2>3. CASE PurgeCommit
    <3>1. \A h \in Handler : pc[h] # "locked"
      BY <1>1, <2>3, ActorsAssumption DEF LockInv, PurgeCommit
    <3>2. /\ \A c \in Token : rowLock'[c] = None
          /\ UNCHANGED pc /\ purge' = "rebuild"
      BY <2>3 DEF PurgeCommit, Emptied
    <3> QED BY <3>1, <3>2, ActorsAssumption DEF LockInv
  <2>4. CASE PurgeAbort
    <3>1. \A c \in Token : rowLock'[c] = IF rowLock[c] = Purger THEN None ELSE rowLock[c]
      BY <2>4 DEF PurgeAbort
    <3>2. UNCHANGED <<pc, req, cstate>> /\ purge' = "idle"
      BY <2>4 DEF PurgeAbort, PurgeUnchanged, claimVars
    <3> QED BY <1>1, <3>1, <3>2, ActorsAssumption DEF LockInv, OpenClaims
  <2> QED BY <1>6, <2>1, <2>2, <2>3, <2>4 DEF PurgeStep
<1>7. CASE Restart
  <2>1. /\ \A h \in Handler : pc'[h] = "idle"
        /\ \A c \in Token : rowLock'[c] = None
        /\ purge' = "idle"
    BY <1>7 DEF Restart
  <2> QED BY <2>1, ActorsAssumption DEF LockInv
<1>8. CASE UNCHANGED vars
  BY <1>1, <1>8 DEF vars, claimVars, purgeVars, LockInv, OpenClaims
<1> QED BY <1>2, <1>3, <1>4, <1>5, <1>6, <1>7, <1>8 DEF Next

-----------------------------------------------------------------------------
(* Purge counts as witnesses                                               *)

(* Results leave only with the job: a purge's commit, or not at all.       *)
LEMMA StoredKept ==
  ASSUME IInv, [Next]_vars, ~PurgeCommit
  PROVE  AllStored => AllStored'
<1>1. CASE LedgerQuiet \/ LedgerRelease \/ \E h \in Handler : ClaimIssue(h)
  <2>1. accepted' = accepted
    BY <1>1 DEF LedgerQuiet, LedgerRelease, taskVars, ClaimIssue
  <2> QED BY <2>1 DEF AllStored
<1>2. ASSUME NEW h \in Handler, SubmitCommit(h) PROVE AllStored => AllStored'
  <2>1. PICK c \in Token : accepted' = [accepted EXCEPT ![ctask[c]] = @ + 1]
    BY <1>2 DEF SubmitCommit
  <2>2. \A t \in Task : accepted[t] > 0 => accepted'[t] > 0
    BY <2>1 DEF IInv, TypeOK
  <2> QED BY <2>2 DEF AllStored
<1> QED BY <1>1, <1>2, LedgerSteps

(* A step of one request, with the holds as they were, keeps the witnesses *)
(* of the others; its own remain to be shown.                              *)
LEMMA WitnessKept ==
  ASSUME IInv, NEW h \in Handler, OthersKept(h), UNCHANGED <<purge, held, holdsTaken>>,
         AllStored => AllStored', WitnessOf(h)'
  PROVE  WitnessInv'
<1>1. WitnessInv
  BY DEF IInv
<1>2. ASSUME NEW g \in Handler, g # h PROVE WitnessOf(g)'
  <2>1. WitnessOf(g) /\ pc'[g] = pc[g] /\ req'[g] = req[g]
    BY <1>1, <1>2 DEF WitnessInv, OthersKept
  <2> QED BY <2>1 DEF WitnessOf
<1> QED BY <1>1, <1>2 DEF WitnessInv

(* The purge count a submission holds has seen no purge still under way,   *)
(* whichever step any other request or a purge takes.                      *)
LEMMA WitnessStep ==
  ASSUME IInv, [Next]_vars
  PROVE  WitnessInv'
<1>1. TypeOK /\ WitnessInv
  BY DEF IInv
<1>2. \A h \in Handler : WitnessOf(h)
  BY <1>1 DEF WitnessInv
<1>3. ASSUME NEW h \in Handler, Answer(h) PROVE OthersKept(h) /\ WitnessOf(h)'
  BY <1>1, <1>3, Others DEF WitnessOf, NoReq
<1>4. ASSUME NEW h \in Handler,
             ClaimStep(h) \/ WorkerStep(h) \/ FinishStep(h) \/ AdminStep(h) \/ Drop(h)
      PROVE  WitnessInv'
  <2>1. UNCHANGED <<purge, held, holdsTaken>>
    BY <1>4 DEF ClaimStep, ClaimRead, ClaimSweep, ClaimSetAside, ClaimPass, ClaimIssue,
                ClaimNothing, ClaimNoWork, ClaimIdleCheck, WorkerStep, SubmitRead,
                DeclineRead, SubmitWitness, SubmitLock, GiveUp, SubmitLate, SubmitCommit,
                DeclineCommit, FinishStep, IdleCount, IdleJob, IdleInFlight, FinishSkip,
                FinishEvaluate, Finish, AdminStep, AdminRead, AdminAct, Drop,
                NothingStored, purgeVars
  <2>2. AllStored => AllStored'
    <3>1. ~PurgeCommit
      BY <1>1, <2>1 DEF PurgeCommit, TypeOK, PurgeStates
    <3> QED BY <3>1, StoredKept
  <2>3. CASE ClaimStep(h)
    <3>1. OthersKept(h) /\ WitnessOf(h)'
      <4>1. CASE Answer(h)
        BY <4>1, <1>3
      <4>2. CASE ~Answer(h)
        <5>1. \E p : /\ p \in {"claiming", "swept", "dispatching", "idleCheck"} /\ Step(h, p)
                     /\ pc[h] \in {"idle", "claiming", "swept", "dispatching"}
          BY <2>3, <4>2 DEF ClaimStep, ClaimRead, ClaimSweep, ClaimSetAside, ClaimPass,
                            ClaimIssue, ClaimNothing, ClaimNoWork, ClaimIdleCheck
        <5> QED BY <1>1, <1>2, <5>1, Others DEF WitnessOf
      <4> QED BY <4>1, <4>2
    <3> QED BY <2>1, <2>2, <3>1, WitnessKept
  <2>4. CASE WorkerStep(h)
    <3>1. CASE Answer(h)
      BY <1>3, <2>1, <2>2, <3>1, WitnessKept
    <3>2. ASSUME NEW c \in Token, SubmitRead(h, c) \/ DeclineRead(h, c)
          PROVE  OthersKept(h) /\ WitnessOf(h)'
      <4>1. OthersKept(h) /\ pc'[h] \in {"submitting", "declining"} /\ req'[h].token = c
        BY <1>1, <3>2 DEF SubmitRead, DeclineRead, OthersKept, TypeOK, NoReq
      <4>2. c # None
        BY ActorsAssumption
      <4> QED BY <4>1, <4>2 DEF WitnessOf
    <3>3. ASSUME SubmitWitness(h), ~Answer(h) PROVE OthersKept(h) /\ WitnessOf(h)'
      <4>1. /\ pc[h] = "submitting" /\ ~held
            /\ pc' = [pc EXCEPT ![h] = "witnessed"]
            /\ req' = [req EXCEPT ![h].holds = holdsTaken]
        BY <3>3 DEF SubmitWitness
      <4>2. OthersKept(h) /\ pc'[h] = "witnessed"
        BY <1>1, <4>1 DEF TypeOK, OthersKept
      <4>3. req'[h].token = req[h].token /\ req'[h].holds = holdsTaken
        BY <1>1, <4>1 DEF TypeOK, Requests
      <4>4. holdsTaken <= holdsTaken
        BY <1>1, BoundsAssumption DEF TypeOK
      <4> QED BY <1>2, <2>1, <4>1, <4>2, <4>3, <4>4 DEF WitnessOf
    <3>4. ASSUME SubmitLock(h) \/ SubmitCommit(h), ~Answer(h)
          PROVE  OthersKept(h) /\ WitnessOf(h)'
      <4>1. \E p \in {"locked", "landed"} : Step(h, p) /\ pc[h] \in {"witnessed", "locked"}
        BY <3>4 DEF SubmitLock, SubmitCommit
      <4> QED BY <1>1, <1>2, <2>1, <4>1, Others DEF WitnessOf
    <3>5. \/ Answer(h) \/ SubmitWitness(h) \/ SubmitLock(h) \/ SubmitCommit(h)
          \/ \E c \in Token : SubmitRead(h, c) \/ DeclineRead(h, c)
      BY <2>4 DEF WorkerStep, GiveUp, SubmitLate, DeclineCommit
    <3> QED BY <2>1, <2>2, <3>1, <3>2, <3>3, <3>4, <3>5, WitnessKept
  <2>5. CASE FinishStep(h)
    <3>1. CASE Answer(h)
      BY <1>3, <2>1, <2>2, <3>1, WitnessKept
    <3>2. ASSUME IdleCount(h) \/ IdleJob(h), ~Answer(h) PROVE OthersKept(h) /\ WitnessOf(h)'
      <4>1. /\ OthersKept(h) /\ pc'[h] \in {"idleCounted", "idleRead"}
            /\ pc[h] \in {"idleCheck", "idleCounted"} /\ req'[h].token = req[h].token
        BY <1>1, <3>2 DEF IdleCount, IdleJob, OthersKept, TypeOK, Requests
      <4> QED BY <1>2, <4>1 DEF WitnessOf
    <3>3. ASSUME IdleInFlight(h), ~Answer(h) PROVE OthersKept(h) /\ WitnessOf(h)'
      <4>1. Step(h, "evaluating") /\ pc[h] = "idleRead"
        BY <3>3 DEF IdleInFlight
      <4> QED BY <1>1, <1>2, <4>1, Others DEF WitnessOf
    <3>4. ASSUME FinishEvaluate(h), ~Answer(h) PROVE OthersKept(h) /\ WitnessOf(h)'
      <4>1. Step(h, "finishing") /\ pc[h] \in {"landed", "evaluating"} /\ AllStored
        BY <3>4 DEF FinishEvaluate
      <4> QED BY <1>1, <1>2, <2>1, <2>2, <4>1, Others DEF WitnessOf
    <3>5. Answer(h) \/ IdleCount(h) \/ IdleJob(h) \/ IdleInFlight(h) \/ FinishEvaluate(h)
      BY <2>5 DEF FinishStep, FinishSkip, Finish
    <3> QED BY <2>1, <2>2, <3>1, <3>2, <3>3, <3>4, <3>5, WitnessKept
  <2>6. CASE AdminStep(h)
    <3>1. CASE Answer(h)
      BY <1>3, <2>1, <2>2, <3>1, WitnessKept
    <3>2. ASSUME NEW op \in AdminOps, AdminRead(h, op)
          PROVE  OthersKept(h) /\ WitnessOf(h)'
      BY <1>1, <3>2 DEF AdminRead, AdminOps, OthersKept, TypeOK, NoReq, WitnessOf
    <3> QED BY <2>1, <2>2, <2>6, <3>1, <3>2, WitnessKept DEF AdminStep, AdminAct
  <2>7. CASE Drop(h)
    <3>1. Answer(h)
      BY <2>7 DEF Drop
    <3> QED BY <1>3, <2>1, <2>2, <3>1, WitnessKept
  <2> QED BY <1>4, <2>3, <2>4, <2>5, <2>6, <2>7
<1>5. CASE PurgeHold
  <2>1. /\ purge' = "held" /\ held' = TRUE /\ holdsTaken' = holdsTaken + 1
        /\ UNCHANGED <<pc, req>>
    BY <1>5 DEF PurgeHold, PurgeUnchanged
  <2>2. holdsTaken \in Nat /\ \A h \in Handler : req[h].holds \in Nat
    BY <1>1, BoundsAssumption DEF TypeOK, Requests
  <2>3. \A n \in Nat : n <= holdsTaken => n < holdsTaken + 1 /\ n <= holdsTaken + 1
    BY <2>2
  <2>4. \A n \in Nat : n <= holdsTaken => n # holdsTaken + 1
    BY <2>2
  <2>5. \A h \in Handler : WitnessOf(h)'
    BY <1>2, <2>1, <2>2, <2>3, <2>4 DEF WitnessOf
  <2> QED BY <2>1, <2>5 DEF WitnessInv
<1>6. CASE PurgeStep \/ PurgeAbort
  <2>1. /\ UNCHANGED <<pc, req, holdsTaken>> /\ held
        /\ held' <=> purge' # "idle"
    BY <1>1, <1>6 DEF PurgeStep, PurgeDispatch, PurgeLockClaim, PurgeAllLocked, PurgeCount,
                PurgeCommit, PurgeRelease, PurgeAbort, PurgeUnchanged, WitnessInv
  <2>2. \A h \in Handler : req[h].holds < holdsTaken => req[h].holds # holdsTaken
    BY <1>1, BoundsAssumption DEF TypeOK, Requests
  <2>3. \A h \in Handler : WitnessOf(h)'
    BY <1>2, <2>1, <2>2 DEF WitnessOf
  <2> QED BY <2>1, <2>3 DEF WitnessInv
<1>7. CASE Restart
  <2>1. \A h \in Handler : pc'[h] = "idle" /\ req'[h].token = None
    BY <1>7 DEF Restart, NoReq
  <2>2. purge' = "idle" /\ held' = FALSE
    BY <1>7 DEF Restart
  <2> QED BY <2>1, <2>2 DEF WitnessInv, WitnessOf
<1>8. CASE UNCHANGED vars
  BY <1>1, <1>8 DEF vars, taskVars, purgeVars, WitnessInv, WitnessOf, AllStored
<1> QED BY <1>4, <1>5, <1>6, <1>7, <1>8 DEF Next

-----------------------------------------------------------------------------
(* Completions                                                             *)

(* A completed job is reopened by nobody but a purge, and a submission's   *)
(* check completes only what holds every result.                           *)
LEMMA FinishKept ==
  ASSUME IInv, [Next]_vars
  PROVE  FinishInv'
<1>1. FinishInv
  BY DEF IInv
<1>2. CASE PurgeCommit
  BY <1>2 DEF PurgeCommit, Emptied, FinishInv
<1>3. ASSUME ~PurgeCommit, UNCHANGED finishedBy, status' = status \/ status # "completed"
      PROVE  FinishInv'
  BY <1>1, <1>3, StoredKept DEF FinishInv
<1>4. ASSUME NEW h \in Handler, ClaimStep(h) \/ WorkerStep(h)
      PROVE  UNCHANGED finishedBy /\ (status' = status \/ status # "completed")
  BY <1>4 DEF ClaimStep, ClaimRead, ClaimSweep, ClaimSetAside, ClaimPass, ClaimIssue,
              ClaimNothing, ClaimNoWork, ClaimIdleCheck, WorkerStep, SubmitRead,
              DeclineRead, SubmitWitness, SubmitLock, GiveUp, SubmitLate, SubmitCommit,
              DeclineCommit, RecordTimeLimit, NothingStored, jobVars
<1>5. ASSUME NEW h \in Handler, Finish(h), ~PurgeCommit PROVE FinishInv'
  <2>1. CASE /\ status = "active" /\ claimsIssued >= req[h].issued /\ ~PurgedSince(h)
             /\ ~Spawned(h)
    <3>1. status' = "completed"
      BY <1>5, <2>1 DEF Finish
    <3>2. pc[h] = "finishing" /\ req[h].token # None /\ holdsTaken = req[h].holds
      BY <1>5, <2>1 DEF Finish, Spawned, PurgedSince
    <3>3. AllStored
      BY <3>2 DEF IInv, WitnessInv, WitnessOf
    <3>4. AllStored'
      BY <1>5, <3>3, StoredKept
    <3> QED BY <3>1, <3>4 DEF FinishInv
  <2>2. CASE /\ status = "active" /\ claimsIssued >= req[h].issued /\ ~PurgedSince(h)
             /\ Spawned(h)
    BY <1>5, <2>2 DEF Finish, FinishInv
  <2>3. CASE ~(status = "active" /\ claimsIssued >= req[h].issued /\ ~PurgedSince(h))
    <3>1. UNCHANGED <<status, finishedBy>>
      BY <1>5, <2>3 DEF Finish
    <3> QED BY <1>3, <1>5, <3>1
  <2> QED BY <2>1, <2>2, <2>3
<1>6. ASSUME NEW h \in Handler, FinishStep(h), ~Finish(h)
      PROVE  UNCHANGED <<finishedBy, status>>
  BY <1>6 DEF FinishStep, IdleCount, IdleJob, IdleInFlight, FinishSkip, FinishEvaluate,
              NothingStored, jobVars
<1>7. ASSUME NEW h \in Handler, AdminAct(h), ~PurgeCommit PROVE FinishInv'
  <2>1. CASE UNCHANGED <<status, finishedBy>>
    BY <1>3, <1>7, <2>1
  <2>2. CASE status \in {"active", "inactive"} /\ finishedBy' \in {"admin", finishedBy}
    BY <1>1, <2>2 DEF FinishInv
  <2> QED BY <1>7, <2>1, <2>2 DEF AdminAct
<1>8. ASSUME NEW h \in Handler, (\E op \in AdminOps : AdminRead(h, op)) \/ Drop(h)
      PROVE  UNCHANGED <<finishedBy, status>>
  BY <1>8 DEF AdminRead, Drop, NothingStored, jobVars
<1>9. ASSUME PurgeHold \/ PurgeStep \/ PurgeAbort \/ Restart, ~PurgeCommit
      PROVE  UNCHANGED <<finishedBy, status>>
  BY <1>9 DEF PurgeHold, PurgeStep, PurgeDispatch, PurgeLockClaim, PurgeAllLocked,
              PurgeCount, PurgeRelease, PurgeAbort, PurgeUnchanged, Restart, jobVars
<1>10. CASE UNCHANGED vars
  BY <1>1, <1>10 DEF vars, jobVars, taskVars, FinishInv, AllStored
<1> QED BY <1>2, <1>3, <1>4, <1>5, <1>6, <1>7, <1>8, <1>9, <1>10 DEF Next, AdminStep

-----------------------------------------------------------------------------
(* The theorems                                                            *)

(* An empty job, with nothing in flight, satisfies the invariant. *)
LEMMA IInvInit == Init => IInv
<1> SUFFICES ASSUME Init PROVE IInv
  OBVIOUS
<1>1. TypeOK
  BY TypeInit
<1>2. RowInv
  BY DEF Init, RowInv
<1>3. SlotInv
  BY DEF Init, SlotInv, Occupying, Occupied
<1>4. LockInv
  BY ActorsAssumption DEF Init, LockInv, OpenClaims
<1>5. WitnessInv
  BY DEF Init, WitnessInv, WitnessOf, NoReq
<1>6. CountedInv
  BY DEF Init, CountedInv
<1>7. CreditInv
  <2>1. \A w \in Worker : CompletedBy(w) = {} /\ credit[w] = 0
    BY DEF Init, CompletedBy
  <2> QED BY <2>1, FS_EmptySet DEF CreditInv
<1>8. FinishInv
  BY DEF Init, FinishInv
<1> QED BY <1>1, <1>2, <1>3, <1>4, <1>5, <1>6, <1>7, <1>8 DEF IInv

(* Claims, tasks, locks, purge counts and credit agree in every state.     *)
THEOREM Invariant == Spec => []IInv
<1>1. IInv /\ [Next]_vars => IInv'
  <2> SUFFICES ASSUME IInv, [Next]_vars PROVE IInv'
    OBVIOUS
  <2>1. TypeOK'
    BY TypeStep DEF IInv
  <2> QED BY <2>1, SlotStep, LockStep, WitnessStep, CountedStep, CreditStep, FinishKept
          DEF IInv
<1> QED BY <1>1, IInvInit, PTL DEF Spec

(* However its claims lapse, are declined, retried or answered late, a     *)
(* task's slot has one occupant, and the columns dispatch reads say which. *)
THEOREM OneOccupant == Spec => []SlotInv
<1>1. IInv => SlotInv
  BY DEF IInv
<1> QED BY <1>1, Invariant, PTL

(* A contributor's tasks_completed is the number of results it has stored: *)
(* a purge takes back what the claims it destroys had given, and no more.  *)
THEOREM CreditExact == Spec => []CreditInv
<1>1. IInv => CreditInv
  BY DEF IInv
<1> QED BY <1>1, Invariant, PTL

(* complete_unless_purged, called for a submission, never completes a job  *)
(* a purge has emptied since the submission's evidence was read.           *)
THEOREM FinishSafe == Spec => []FinishInv
<1>1. IInv => FinishInv
  BY DEF IInv
<1> QED BY <1>1, Invariant, PTL

(* A purge that has the open claims' rows shares the job with no           *)
(* submission, and what it has counted stays what there is to take back.   *)
THEOREM PurgeAlone == Spec => []PurgeExclusive
<1>1. IInv => PurgeExclusive
  <2> SUFFICES ASSUME IInv, purge \in {"claims", "row"} PROVE PurgeExclusive
    BY DEF PurgeExclusive
  <2>1. \A h \in Handler : pc[h] # "locked"
    BY ActorsAssumption DEF IInv, LockInv
  <2> QED BY <2>1 DEF PurgeExclusive, IInv, CountedInv
<1> QED BY <1>1, Invariant, PTL

(* A claim that has lapsed, been declined or had its result accepted never *)
(* becomes anything else while it exists.                                  *)
THEOREM EndsOnce == Spec => ClaimEndsOnce
<1> DEFINE Ended == {"completed", "declined", "abandoned"}
           Kept == \A c \in Token : cstate[c] \in Ended => cstate'[c] \in {cstate[c], "deleted"}
<1>1. IInv /\ [Next]_vars => [Kept]_cstate
  <2> SUFFICES ASSUME IInv, [Next]_vars PROVE Kept
    OBVIOUS
  <2>1. CASE LedgerQuiet
    BY <2>1 DEF LedgerQuiet, claimVars
  <2>2. CASE LedgerRelease
    BY <2>2 DEF LedgerRelease, Release, OpenClaims
  <2>3. ASSUME NEW h \in Handler, ClaimIssue(h) PROVE Kept
    <3>1. PICK w \in Worker, c \in Token : \E recent \in SUBSET DeclinedBy(w) :
            \E t \in Offered(recent) : IssueClaim(w, c, t)
      BY <2>3 DEF ClaimIssue
    <3> QED BY <3>1 DEF IssueClaim, IInv, TypeOK
  <2>4. ASSUME NEW h \in Handler, SubmitCommit(h) PROVE Kept
    <3>1. PICK c \in Token : /\ c = req[h].token
                             /\ cstate' = [cstate EXCEPT ![c] = "completed"]
      BY <2>4 DEF SubmitCommit
    <3>2. cstate[c] = "claimed"
      BY <2>4, <3>1 DEF SubmitCommit, IInv, LockInv, OpenClaims
    <3> QED BY <3>1, <3>2 DEF IInv, TypeOK
  <2>5. CASE PurgeCommit
    BY <2>5 DEF PurgeCommit, Emptied
  <2> QED BY <2>1, <2>2, <2>3, <2>4, <2>5, LedgerSteps
<1> QED BY <1>1, Invariant, PTL DEF Spec, ClaimEndsOnce

-----------------------------------------------------------------------------
(* Whose result a task has                                                 *)

(* A task's result is that of its one completed claim, if it has one. *)
HolderTells ==
  \A t \in Task :
    /\ \A c \in Token : cstate[c] = "completed" /\ ctask[c] = t => DoneBy(t) = cworker[c]
    /\ ~Occupied(t, "completed") => DoneBy(t) = None

(* Two completed claims of one task would be two occupants of its slot, so *)
(* the choice DoneBy makes is no choice.                                   *)
LEMMA OneHolder == SlotInv => HolderTells
<1> SUFFICES ASSUME SlotInv, NEW t \in Task
             PROVE  /\ \A c \in Token :
                         cstate[c] = "completed" /\ ctask[c] = t => DoneBy(t) = cworker[c]
                    /\ ~Occupied(t, "completed") => DoneBy(t) = None
  BY DEF HolderTells
<1>1. ASSUME NEW c \in Token, cstate[c] = "completed", ctask[c] = t
      PROVE  DoneBy(t) = cworker[c]
  <2>1. Holder(t) = {c}
    BY <1>1 DEF SlotInv, Occupying, Holder
  <2>2. (CHOOSE d \in {c} : TRUE) = c
    OBVIOUS
  <2> QED BY <2>1, <2>2 DEF DoneBy
<1>2. ASSUME ~Occupied(t, "completed") PROVE DoneBy(t) = None
  BY <1>2 DEF Occupied, Holder, DoneBy
<1> QED BY <1>1, <1>2

(* The same after a step. *)
LEMMA OneHolderNext == SlotInv' => HolderTells'
BY OneHolder, PTL

(* A step that neither makes nor unmakes a completed claim leaves every    *)
(* task with the result it had.                                            *)
LEMMA SameHolder ==
  ASSUME IInv, SlotInv',
         \A c \in Token : cstate'[c] = "completed" <=> cstate[c] = "completed",
         \A c \in Token : cstate[c] = "completed" =>
           ctask'[c] = ctask[c] /\ cworker'[c] = cworker[c]
  PROVE  \A t \in Task : DoneBy(t)' = DoneBy(t)
<1>1. HolderTells /\ HolderTells'
  BY OneHolder, OneHolderNext DEF IInv
<1> TAKE t \in Task
<1>2. CASE Occupied(t, "completed")
  <2>1. PICK c \in Token : cstate[c] = "completed" /\ ctask[c] = t
    BY <1>2 DEF Occupied
  <2>2. DoneBy(t) = cworker[c]
    BY <1>1, <2>1 DEF HolderTells
  <2>3. DoneBy(t)' = cworker'[c]
    BY <1>1, <2>1 DEF HolderTells
  <2> QED BY <2>1, <2>2, <2>3
<1>3. CASE ~Occupied(t, "completed")
  <2>1. ~Occupied(t, "completed")'
    BY <1>3 DEF Occupied
  <2>2. DoneBy(t)' = None
    BY <1>1, <2>1 DEF HolderTells
  <2> QED BY <1>1, <1>3, <2>2 DEF HolderTells
<1> QED BY <1>2, <1>3

(* What contributors hold is what they have completed: a purge that counts *)
(* completed claims counts the tasks the contributor is shown to have.     *)
LEMMA TasksOfWorker ==
  ASSUME IInv, NEW w \in Worker
  PROVE  Cardinality({t \in Task : DoneBy(t) = w}) = credit[w]
<1> DEFINE D == {t \in Task : DoneBy(t) = w}
           f == [c \in CompletedBy(w) |-> ctask[c]]
<1>1. HolderTells
  BY OneHolder DEF IInv
<1>2. \A c \in CompletedBy(w) : ctask[c] \in D
  BY <1>1 DEF IInv, RowInv, CompletedBy, HolderTells
<1>3. \A t \in D : \E c \in CompletedBy(w) : ctask[c] = t
  <2> TAKE t \in D
  <2>1. w # None
    BY ActorsAssumption
  <2>2. PICK c \in Token : cstate[c] = "completed" /\ ctask[c] = t
    BY <1>1, <2>1 DEF HolderTells, Occupied
  <2>3. cworker[c] = w
    BY <1>1, <2>2 DEF HolderTells
  <2> QED BY <2>2, <2>3 DEF CompletedBy
<1>4. \A c, d \in CompletedBy(w) : ctask[c] = ctask[d] => c = d
  BY DEF IInv, SlotInv, Occupying, CompletedBy
<1>5. f \in Bijection(CompletedBy(w), D)
  <2>1. f \in [CompletedBy(w) -> D]
    BY <1>2
  <2>2. f \in Surjection(CompletedBy(w), D)
    BY <2>1, <1>3 DEF Surjection
  <2>3. f \in Injection(CompletedBy(w), D)
    BY <2>1, <1>4 DEF Injection, IsInjective
  <2> QED BY <2>2, <2>3 DEF Bijection
<1>6. ExistsBijection(CompletedBy(w), D)
  BY <1>5 DEF ExistsBijection
<1>7. IsFiniteSet(CompletedBy(w))
  BY CountType DEF CompletedBy
<1>8. Cardinality(D) = Cardinality(CompletedBy(w))
  BY <1>6, <1>7, FS_Bijection
<1> QED BY <1>8 DEF IInv, CreditInv

-----------------------------------------------------------------------------
(* Each kind of step, in TaskSlots                                         *)

(* Only a submission's finish check makes a completion the server's own,   *)
(* and only a purge or a delete unmakes one.                               *)
LEMMA FinishedStep ==
  ASSUME IInv, [Next]_vars, ~PurgeCommit
  PROVE  \/ (finishedBy' = "submission") <=> (finishedBy = "submission")
         \/ LedgerQuiet /\ finishedBy' = "submission"
<1>1. FinishInv
  BY DEF IInv
<1>2. ASSUME NEW h \in Handler, ClaimStep(h) \/ WorkerStep(h) PROVE UNCHANGED finishedBy
  BY <1>2 DEF ClaimStep, ClaimRead, ClaimSweep, ClaimSetAside, ClaimPass, ClaimIssue,
              ClaimNothing, ClaimNoWork, ClaimIdleCheck, WorkerStep, SubmitRead,
              DeclineRead, SubmitWitness, SubmitLock, GiveUp, SubmitLate, SubmitCommit,
              DeclineCommit, RecordTimeLimit, NothingStored, jobVars
<1>3. ASSUME NEW h \in Handler, Finish(h)
      PROVE  \/ (finishedBy' = "submission") <=> (finishedBy = "submission")
             \/ LedgerQuiet /\ finishedBy' = "submission"
  <2>1. LedgerQuiet
    BY <1>3 DEF Finish, LedgerQuiet
  <2>2. \/ UNCHANGED finishedBy
        \/ status = "active" /\ finishedBy' \in {"idle", "submission"}
    BY <1>3 DEF Finish
  <2> QED BY <1>1, <2>1, <2>2 DEF FinishInv
<1>4. ASSUME NEW h \in Handler, FinishStep(h), ~Finish(h) PROVE UNCHANGED finishedBy
  BY <1>4 DEF FinishStep, IdleCount, IdleJob, IdleInFlight, FinishSkip, FinishEvaluate,
              NothingStored, jobVars
<1>5. ASSUME NEW h \in Handler, AdminAct(h)
      PROVE  (finishedBy' = "submission") <=> (finishedBy = "submission")
  <2>1. \/ UNCHANGED finishedBy
        \/ status \in {"active", "inactive"} /\ finishedBy' \in {"admin", finishedBy}
    BY <1>5 DEF AdminAct
  <2> QED BY <1>1, <2>1 DEF FinishInv
<1>6. ASSUME NEW h \in Handler, (\E op \in AdminOps : AdminRead(h, op)) \/ Drop(h)
      PROVE  UNCHANGED finishedBy
  BY <1>6 DEF AdminRead, Drop, NothingStored, jobVars
<1>7. ASSUME PurgeHold \/ PurgeStep \/ PurgeAbort \/ Restart PROVE UNCHANGED finishedBy
  BY <1>7 DEF PurgeHold, PurgeStep, PurgeDispatch, PurgeLockClaim, PurgeAllLocked,
              PurgeCount, PurgeRelease, PurgeAbort, PurgeUnchanged, Restart, jobVars
<1>8. CASE UNCHANGED vars
  BY <1>8 DEF vars, jobVars
<1> QED BY <1>2, <1>3, <1>4, <1>5, <1>6, <1>7, <1>8 DEF Next, AdminStep

(* Slots given back, a claim issued, or nothing: no result changes hands. *)
LEMMA NoResultMoves ==
  ASSUME IInv, SlotInv', LedgerQuiet \/ LedgerRelease \/ \E h \in Handler : ClaimIssue(h)
  PROVE  (\A t \in Task : DoneBy(t)' = DoneBy(t)) /\ UNCHANGED credit
<1> DEFINE Kept == /\ \A c \in Token : cstate'[c] = "completed" <=> cstate[c] = "completed"
                   /\ \A c \in Token : cstate[c] = "completed" =>
                        ctask'[c] = ctask[c] /\ cworker'[c] = cworker[c]
<1>1. CASE LedgerQuiet
  BY <1>1, SameHolder DEF LedgerQuiet, claimVars
<1>2. CASE LedgerRelease
  <2>1. PICK S \in SUBSET OpenClaims, s \in {"abandoned", "declined"} : Release(S, s)
    BY <1>2 DEF LedgerRelease
  <2>2. Kept
    BY <1>2, <2>1 DEF LedgerRelease, Release, OpenClaims
  <2> QED BY <1>2, <2>2, SameHolder DEF LedgerRelease
<1>3. ASSUME NEW h \in Handler, ClaimIssue(h)
      PROVE  (\A t \in Task : DoneBy(t)' = DoneBy(t)) /\ UNCHANGED credit
  <2>1. PICK w \in Worker, c \in Token : \E recent \in SUBSET DeclinedBy(w) :
          \E t \in Offered(recent) : IssueClaim(w, c, t)
    BY <1>3 DEF ClaimIssue
  <2>2. PICK t : IssueClaim(w, c, t)
    BY <2>1
  <2>3. Kept
    BY <2>2 DEF IssueClaim, IInv, TypeOK
  <2> QED BY <1>3, <2>3, SameHolder DEF ClaimIssue
<1> QED BY <1>1, <1>2, <1>3

(* Task t, which had no result, has one of w, and w the credit for it. *)
ResultAccepted(t, w) ==
  /\ DoneBy(t) = None /\ DoneBy(t)' = w
  /\ \A u \in Task : u # t => DoneBy(u)' = DoneBy(u)
  /\ credit' = [credit EXCEPT ![w] = @ + 1]

(* A submission's commit does that to the task of its claim. *)
LEMMA CommitAccepts ==
  ASSUME IInv, SlotInv', NEW h \in Handler, SubmitCommit(h)
  PROVE  \E t \in Task, w \in Worker : ResultAccepted(t, w)
<1>1. TypeOK /\ RowInv /\ SlotInv /\ HolderTells /\ HolderTells'
  BY OneHolder, OneHolderNext DEF IInv
<1>2. PICK c \in Token : /\ c = req[h].token
                         /\ cstate' = [cstate EXCEPT ![c] = "completed"]
                         /\ credit' = [credit EXCEPT ![cworker[c]] = @ + 1]
  BY DEF SubmitCommit
<1>3. cstate[c] = "claimed" /\ UNCHANGED <<ctask, cworker>>
  BY <1>2 DEF SubmitCommit, IInv, LockInv, OpenClaims
<1>4. ctask[c] \in Task /\ cworker[c] \in Worker
  BY <1>1, <1>3 DEF RowInv
<1>5. \A d \in Token : cstate'[d] = IF d = c THEN "completed" ELSE cstate[d]
  BY <1>1, <1>2 DEF TypeOK
<1>6. DoneBy(ctask[c]) = None
  <2>1. ~Occupied(ctask[c], "completed")
    BY <1>1, <1>3 DEF SlotInv, Occupying, Occupied
  <2> QED BY <1>1, <1>4, <2>1 DEF HolderTells
<1>7. DoneBy(ctask[c])' = cworker[c]
  <2>1. cstate'[c] = "completed" /\ ctask'[c] = ctask[c] /\ cworker'[c] = cworker[c]
    BY <1>3, <1>5
  <2> QED BY <1>1, <1>4, <2>1 DEF HolderTells
<1>8. ASSUME NEW u \in Task, u # ctask[c] PROVE DoneBy(u)' = DoneBy(u)
  <2>1. CASE Occupied(u, "completed")
    <3>1. PICK d \in Token : cstate[d] = "completed" /\ ctask[d] = u
      BY <2>1 DEF Occupied
    <3>2. DoneBy(u) = cworker[d]
      BY <1>1, <3>1 DEF HolderTells
    <3>3. cstate'[d] = "completed" /\ ctask'[d] = u /\ cworker'[d] = cworker[d]
      BY <1>3, <1>5, <3>1
    <3>4. DoneBy(u)' = cworker'[d]
      BY <1>1, <3>3 DEF HolderTells
    <3> QED BY <3>2, <3>3, <3>4
  <2>2. CASE ~Occupied(u, "completed")
    <3>1. ~Occupied(u, "completed")'
      BY <1>3, <1>5, <1>8, <2>2 DEF Occupied
    <3>2. DoneBy(u)' = None
      BY <1>1, <3>1 DEF HolderTells
    <3> QED BY <1>1, <2>2, <3>2 DEF HolderTells
  <2> QED BY <2>1, <2>2
<1>9. ResultAccepted(ctask[c], cworker[c])
  BY <1>2, <1>6, <1>7, <1>8 DEF ResultAccepted
<1> QED BY <1>4, <1>9

(* A purge's or a delete's commit leaves no result, and no credit for one. *)
LEMMA PurgeTakesAll ==
  ASSUME IInv, SlotInv', PurgeCommit
  PROVE  /\ \A t \in Task : DoneBy(t)' = None
         /\ credit' = [w \in Worker |-> credit[w] - Cardinality({t \in Task : DoneBy(t) = w})]
         /\ finishedBy' = "none"
<1>1. HolderTells'
  BY OneHolderNext
<1>2. \A t \in Task : DoneBy(t)' = None
  <2>1. \A t \in Task : ~Occupied(t, "completed")'
    BY DEF PurgeCommit, Emptied, Occupied
  <2> QED BY <1>1, <2>1 DEF HolderTells
<1>3. ASSUME NEW w \in Worker
      PROVE  Floor(credit[w] - owed[w]) = credit[w] - Cardinality({t \in Task : DoneBy(t) = w})
  <2>1. owed[w] = credit[w] /\ credit[w] \in Nat
    BY DEF PurgeCommit, IInv, CountedInv, CreditInv, TypeOK
  <2>2. Floor(credit[w] - owed[w]) = 0
    BY <2>1 DEF Floor
  <2> QED BY <2>1, <2>2, TasksOfWorker
<1> QED BY <1>2, <1>3 DEF PurgeCommit, Emptied

(* When every task has a result stored, every task is some contributor's. *)
LEMMA StoredHeld ==
  ASSUME IInv, AllStored
  PROVE  \A t \in Task : DoneBy(t) # None
<1>1. TypeOK /\ RowInv /\ SlotInv /\ HolderTells
  BY OneHolder DEF IInv
<1> TAKE t \in Task
<1>2. slot[t] = "completed"
  BY <1>1 DEF SlotInv, AllStored
<1>3. PICK c \in Token : cstate[c] = "completed" /\ ctask[c] = t
  BY <1>1, <1>2 DEF SlotInv, Occupied
<1>4. DoneBy(t) = cworker[c] /\ cworker[c] \in Worker
  BY <1>1, <1>3 DEF HolderTells, RowInv
<1> QED BY <1>4, ActorsAssumption

(* Counting in TaskSlots is counting here. *)
LEMMA SameCount == \A S : Slots!Cardinality(S) = Cardinality(S)
BY DEF Slots!Cardinality, Cardinality

-----------------------------------------------------------------------------
(* The refinement                                                          *)

(* Whatever becomes of its claims, each task of the job ends with one      *)
(* contributor's result, credited once; a purge or a delete takes all      *)
(* results away with exactly their credit; and only on a full set of them  *)
(* does a submission's finish check complete the job.                      *)
THEOREM Refines == Spec => ImplementsTaskSlots
<1>1. Init => Slots!Init
  <2> SUFFICES ASSUME Init PROVE Slots!Init
    OBVIOUS
  <2>1. \A t \in Task : DoneBy(t) = None
    BY DEF Init, DoneBy, Holder
  <2> QED BY <2>1 DEF Init, Slots!Init
<1>2. IInv /\ IInv' /\ [Next]_vars => [Slots!Next]_Slots!vars
  <2> SUFFICES ASSUME IInv, IInv', [Next]_vars PROVE [Slots!Next]_Slots!vars
    OBVIOUS
  <2>1. SlotInv' /\ FinishInv'
    BY DEF IInv
  <2>2. CASE PurgeCommit
    <3>1. /\ \A t \in Task : DoneBy(t)' = None
          /\ credit' = [w \in Worker |-> credit[w] - Cardinality({t \in Task : DoneBy(t) = w})]
          /\ finishedBy' = "none"
      BY <2>1, <2>2, PurgeTakesAll
    <3>2. \A w \in Worker :
            {t \in Task : [u \in Task |-> DoneBy(u)][t] = w} = {t \in Task : DoneBy(t) = w}
      OBVIOUS
    <3>3. credit' = [w \in Worker |-> credit[w] -
            Slots!Cardinality({t \in Task : [u \in Task |-> DoneBy(u)][t] = w})]
      BY <3>1, <3>2, SameCount
    <3>4. Slots!Empty
      BY <3>1, <3>3 DEF Slots!Empty
    <3> QED BY <3>4 DEF Slots!Next
  <2>3. ASSUME NEW h \in Handler, SubmitCommit(h) PROVE [Slots!Next]_Slots!vars
    <3>1. PICK t \in Task, w \in Worker : ResultAccepted(t, w)
      BY <2>1, <2>3, CommitAccepts
    <3>2. UNCHANGED finishedBy
      BY <2>3 DEF SubmitCommit
    <3>3. Slots!Accept(t, w)
      BY <3>1, <3>2 DEF Slots!Accept, ResultAccepted
    <3> QED BY <3>3 DEF Slots!Next
  <2>4. ASSUME LedgerQuiet \/ LedgerRelease \/ \E h \in Handler : ClaimIssue(h), ~PurgeCommit
        PROVE  [Slots!Next]_Slots!vars
    <3>1. (\A t \in Task : DoneBy(t)' = DoneBy(t)) /\ UNCHANGED credit
      BY <2>1, <2>4, NoResultMoves
    <3>2. CASE (finishedBy' = "submission") <=> (finishedBy = "submission")
      BY <3>1, <3>2 DEF Slots!vars
    <3>3. CASE LedgerQuiet /\ finishedBy' = "submission"
      <4>1. AllStored
        BY <2>1, <3>3 DEF FinishInv, LedgerQuiet, taskVars, AllStored
      <4>2. Slots!Finish
        BY <3>1, <3>3, <4>1, StoredHeld DEF Slots!Finish
      <4> QED BY <4>2 DEF Slots!Next
    <3> QED BY <2>4, <3>2, <3>3, FinishedStep
  <2> QED BY <2>2, <2>3, <2>4, LedgerSteps
<1> QED BY <1>1, <1>2, Invariant, PTL DEF Spec, ImplementsTaskSlots, Slots!Spec

-----------------------------------------------------------------------------
(* The job's running counters                                              *)

Issued    == {c \in Token : cstate[c] \notin {"unissued", "deleted"}}
Made      == {t \in Task : slot[t] # "none"}
Completed == {t \in Task : slot[t] = "completed"}
jobCounters == <<claimsIssued, tasksTotal, tasksCompleted>>

(* What the counters count is finite. *)
LEMMA CountedFinite ==
  IsFiniteSet(Issued) /\ IsFiniteSet(Made) /\ IsFiniteSet(Completed)
<1>1. IsFiniteSet(Task)
  BY UnitsAssumption, FS_Interval DEF Task
<1> QED BY <1>1, FS_Subset, CountType DEF Issued, Made, Completed

(* Only an issue, an accepted submission and a purge's commit write the    *)
(* job's counters.                                                         *)
LEMMA CountersWritten ==
  ASSUME [Next]_vars, ~PurgeCommit, \A h \in Handler : ~ClaimIssue(h) /\ ~SubmitCommit(h)
  PROVE  UNCHANGED jobCounters
<1> USE DEF jobCounters, jobVars, NothingStored
<1>1. ASSUME NEW h \in Handler, ClaimStep(h) \/ WorkerStep(h) PROVE UNCHANGED jobCounters
  BY <1>1 DEF ClaimStep, ClaimRead, ClaimSweep, ClaimSetAside, ClaimPass,
              ClaimNothing, ClaimNoWork, ClaimIdleCheck, WorkerStep, SubmitRead,
              DeclineRead, SubmitWitness, SubmitLock, GiveUp, SubmitLate,
              DeclineCommit, RecordTimeLimit
<1>2. ASSUME NEW h \in Handler, FinishStep(h) \/ AdminStep(h) \/ Drop(h)
      PROVE  UNCHANGED jobCounters
  BY <1>2 DEF FinishStep, IdleCount, IdleJob, IdleInFlight, FinishSkip, FinishEvaluate,
              Finish, AdminStep, AdminRead, AdminAct, Drop
<1>3. ASSUME PurgeHold \/ PurgeStep \/ PurgeAbort \/ Restart PROVE UNCHANGED jobCounters
  BY <1>3 DEF PurgeHold, PurgeStep, PurgeDispatch, PurgeLockClaim, PurgeAllLocked,
              PurgeCount, PurgeRelease, PurgeAbort, PurgeUnchanged, Restart
<1>4. CASE UNCHANGED vars
  BY <1>4 DEF vars
<1> QED BY <1>1, <1>2, <1>3, <1>4 DEF Next

(* Each counter is moved by what moves the set it counts.                  *)
LEMMA CountersStep ==
  ASSUME IInv, JobCountersInv, [Next]_vars, TypeOK'
  PROVE  JobCountersInv'
<1>1. TypeOK /\ SlotInv
  BY DEF IInv
<1>2. /\ claimsIssued = Cardinality(Issued) /\ tasksTotal = Cardinality(Made)
      /\ tasksCompleted = Cardinality(Completed)
  BY DEF JobCountersInv, Issued, Made, Completed
<1>3. SUFFICES /\ claimsIssued' = Cardinality(Issued') /\ tasksTotal' = Cardinality(Made')
               /\ tasksCompleted' = Cardinality(Completed')
  BY DEF JobCountersInv, Issued, Made, Completed
<1>4. ASSUME NEW h \in Handler, ClaimIssue(h)
      PROVE  /\ claimsIssued' = Cardinality(Issued') /\ tasksTotal' = Cardinality(Made')
             /\ tasksCompleted' = Cardinality(Completed')
  <2>1. PICK w \in Worker, c \in Token : \E recent \in SUBSET DeclinedBy(w) :
          \E t \in Offered(recent) : IssueClaim(w, c, t)
    BY <1>4 DEF ClaimIssue
  <2>2. PICK recent \in SUBSET DeclinedBy(w) : \E t \in Offered(recent) : IssueClaim(w, c, t)
    BY <2>1
  <2>3. PICK t \in Offered(recent) : IssueClaim(w, c, t)
    BY <2>2
  <2>4. t \in Task /\ slot[t] \in {"none", "available"}
    BY OfferedFree
  <2>5. /\ \A d \in Token : cstate'[d] = IF d = c THEN "claimed" ELSE cstate[d]
        /\ \A u \in Task : slot'[u] = IF u = t THEN "claimed" ELSE slot[u]
        /\ cstate[c] = "unissued"
    BY <1>1, <2>3, <2>4 DEF IssueClaim, TypeOK
  <2>6. claimsIssued' = Cardinality(Issued')
    <3>1. Issued' = Issued \cup {c} /\ c \notin Issued
      BY <2>5 DEF Issued
    <3>2. claimsIssued' = claimsIssued + 1
      BY <2>3 DEF IssueClaim
    <3> QED BY <1>2, <3>1, <3>2, CountedFinite, FS_AddElement
  <2>7. tasksTotal' = Cardinality(Made')
    <3>1. Made' = Made \cup {t} /\ (t \in Made <=> slot[t] # "none")
      BY <2>4, <2>5 DEF Made
    <3>2. tasksTotal' = tasksTotal + (IF slot[t] = "none" THEN 1 ELSE 0)
      BY <2>3 DEF IssueClaim
    <3>3. Cardinality(Made') = IF t \in Made THEN Cardinality(Made) ELSE Cardinality(Made) + 1
      BY <3>1, CountedFinite, FS_AddElement
    <3> QED BY <1>1, <1>2, <3>1, <3>2, <3>3 DEF TypeOK
  <2>8. Completed' = Completed /\ tasksCompleted' = tasksCompleted
    BY <1>4, <2>4, <2>5 DEF Completed, ClaimIssue
  <2> QED BY <1>2, <2>6, <2>7, <2>8
<1>5. ASSUME NEW h \in Handler, SubmitCommit(h)
      PROVE  /\ claimsIssued' = Cardinality(Issued') /\ tasksTotal' = Cardinality(Made')
             /\ tasksCompleted' = Cardinality(Completed')
  <2>1. PICK c \in Token :
          /\ c = req[h].token
          /\ cstate' = [cstate EXCEPT ![c] = "completed"]
          /\ slot' = [slot EXCEPT ![ctask[c]] = "completed"]
          /\ tasksCompleted' = tasksCompleted + (IF accepted[ctask[c]] + 1 = 1 THEN 1 ELSE 0)
    BY <1>5 DEF SubmitCommit
  <2>2. cstate[c] = "claimed"
    BY <1>5, <2>1 DEF SubmitCommit, IInv, LockInv, OpenClaims
  <2>3. ctask[c] \in Task
    BY <2>2 DEF IInv, RowInv
  <2>4. slot[ctask[c]] = "claimed" /\ accepted[ctask[c]] = 0
    BY <1>1, <2>2, <2>3 DEF SlotInv, Occupied
  <2>5. Issued' = Issued /\ Made' = Made
    BY <1>1, <2>1, <2>2, <2>3, <2>4 DEF Issued, Made, TypeOK
  <2>6. Completed' = Completed \cup {ctask[c]} /\ ctask[c] \notin Completed
    BY <1>1, <2>1, <2>3, <2>4 DEF Completed, TypeOK
  <2>7. Cardinality(Completed') = Cardinality(Completed) + 1
    BY <2>6, CountedFinite, FS_AddElement
  <2>8. claimsIssued' = claimsIssued /\ tasksTotal' = tasksTotal
    BY <1>5 DEF SubmitCommit
  <2> QED BY <1>2, <2>1, <2>4, <2>5, <2>7, <2>8
<1>6. CASE PurgeCommit
  <2>1. Issued' = {} /\ Made' = {} /\ Completed' = {}
    BY <1>6 DEF PurgeCommit, Emptied, Issued, Made, Completed
  <2> QED BY <1>6, <2>1, FS_EmptySet DEF PurgeCommit, Emptied
<1>7. ASSUME ~PurgeCommit, \A h \in Handler : ~ClaimIssue(h) /\ ~SubmitCommit(h)
      PROVE  /\ claimsIssued' = Cardinality(Issued') /\ tasksTotal' = Cardinality(Made')
             /\ tasksCompleted' = Cardinality(Completed')
  <2>1. UNCHANGED jobCounters
    BY <1>7, CountersWritten
  <2>2. Issued' = Issued /\ Made' = Made /\ Completed' = Completed
    <3>1. CASE LedgerQuiet
      BY <3>1 DEF LedgerQuiet, claimVars, taskVars, Issued, Made, Completed
    <3>2. CASE LedgerRelease
      <4>1. PICK S \in SUBSET OpenClaims, s \in {"abandoned", "declined"} : Release(S, s)
        BY <3>2 DEF LedgerRelease
      <4>2. Issued' = Issued
        BY <4>1 DEF Release, OpenClaims, Issued
      <4>3. \A t \in Task : \/ slot'[t] = slot[t]
                            \/ slot[t] = "claimed" /\ slot'[t] = "available"
        BY <4>1, ReleaseFrees
      <4> QED BY <4>2, <4>3 DEF Made, Completed
    <3> QED BY <1>7, <3>1, <3>2, LedgerSteps
  <2> QED BY <1>2, <2>1, <2>2 DEF jobCounters
<1> QED BY <1>4, <1>5, <1>6, <1>7

(* claims_issued, tasks_total and tasks_completed, written a step at a     *)
(* time by whoever issues, submits or empties, are what a count of the     *)
(* job's rows would find.                                                  *)
THEOREM CountersExact == Spec => []JobCountersInv
<1>1. Init => JobCountersInv
  <2> SUFFICES ASSUME Init PROVE JobCountersInv
    OBVIOUS
  <2>1. Issued = {} /\ Made = {} /\ Completed = {}
    BY DEF Init, Issued, Made, Completed
  <2> QED BY <2>1, FS_EmptySet DEF Init, JobCountersInv, Issued, Made, Completed
<1>2. IInv /\ IInv' /\ JobCountersInv /\ [Next]_vars => JobCountersInv'
  BY CountersStep DEF IInv
<1> QED BY <1>1, <1>2, Invariant, PTL DEF Spec
=============================================================================
