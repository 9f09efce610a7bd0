------------------------------ MODULE FairShare -----------------------------
(***************************************************************************)
(* The choice between jobs: claim requests that arrive together and walk   *)
(* the candidates from the one furthest behind its share, the turn check   *)
(* each makes with the job's dispatch lock held, the lifts and joins that  *)
(* keep the jobs' standings comparable, and the allocation changes, capped *)
(* at the whole fleet, that admins make meanwhile.                         *)
(*                                                                         *)
(* A job's standing is claims_issued - claims_baseline, all that anything  *)
(* here reads of either.  Ratios of standing to share are kept as integers *)
(* by the factor Scale.  Whether a job has a task to hand out is nobody's  *)
(* choice here: the other models say when.                                 *)
(***************************************************************************)
EXTENDS Integers, Sequences, FiniteSets, SequencesExt

CONSTANTS
  Job,          \* jobs, integers in order of creation
  Request,      \* claim requests in flight at once
  CanRun,       \* CanRun[h]: the jobs the worker of request h can run
  Admin,        \* allocation changes in flight at once
  Change,       \* what they may ask: sequences of rows <<job, allocation>>
  Initially,    \* the allocations of jobs that joined some time ago
  Lead,         \* their standings by then
  Whole,        \* the whole fleet: 100%
  Scale,        \* a multiple of every allocation asked for
  Rounds,       \* CLAIM_ROUNDS
  JoinSettle,   \* JOIN_SETTLE, in heartbeat timeouts
  MaxClaims,    \* bound: claims issued
  MaxEvents     \* bound: allocation changes, heartbeat timeouts that pass, gaps,
                \* and declines by workers that cannot run the job

ASSUME SizesAssumption ==
  /\ Job \subseteq Nat /\ IsFiniteSet(Job) /\ Whole \in Nat \ {0} /\ Scale \in Nat \ {0} /\ Rounds \in Nat \ {0}
  /\ JoinSettle \in Nat \ {0}
  /\ MaxClaims \in Nat /\ MaxEvents \in Nat
  /\ CanRun \in [Request -> SUBSET Job] /\ Initially \in [Job -> 0..Whole]
  /\ Lead \in [Job -> Nat]
  /\ \A j \in Job : Initially[j] # 0 => Scale % Initially[j] = 0
  /\ SumFunctionOnSet(Initially, Job) <= Whole
ASSUME ChangesAssumption ==    \* set_allocations: what it refuses unlocked
  \A c \in Change : /\ c \in Seq(Job \X (0..Whole)) /\ c # << >>
                    /\ \A i \in DOMAIN c : c[i][2] # 0 => Scale % c[i][2] = 0
                    /\ \A i, k \in DOMAIN c : i # k => c[i][1] # c[k][1]

VARIABLES
  share,    \* jobs.allocation: the job is active if it is above 0
  standing, \* jobs: claims_issued - claims_baseline
  last,     \* jobs.last_claimed_at, in heartbeat timeouts; Never before the first
  joined,   \* jobs.activated_at, likewise
  work,     \* jobs with a task to hand out and no hold on their dispatch
  req,      \* req[h]: where claim request h is, what its list said, and which
            \* standings anything but a claim moved (shifted, history) since its turn
  adm,      \* adm[a]: where allocation change a is
  recent,   \* RECENTLY_BUSY: jobs some claim found busy
  clock, claims, events,
  newcomer, \* history: jobs that joined since the start, and were not lifted while idle
  beside,   \* history: beside[k]: the jobs being served when newcomer k joined, and
            \* not moved since but by claims and lifts
  waited,   \* history: waited[k][j]: claims of j that passed k by before its first
  streak    \* history: streak[h][j]: claims of j at a join by the worker of h, with
            \* rivals each time, since any other job it can run was claimed or moved

vars == <<share, standing, last, joined, work, req, adm, recent,
          clock, claims, events, newcomer, beside, waited, streak>>

Never == -1

IdleReq == [at |-> "idle", list |-> << >>, ratio |-> << >>, alloc |-> << >>, i |-> 0,
            passed |-> {}, busy |-> {}, round |-> 0, outrun |-> FALSE, shifted |-> {}]
IdleAdm == [at |-> "idle", rows |-> << >>]
NoneYet == [j \in Job |-> 0]

Init ==
  /\ share = Initially /\ standing = Lead
  /\ last = [j \in Job |-> IF Initially[j] = 0 THEN Never ELSE 1]
  /\ joined = [j \in Job |-> -JoinSettle]
  /\ work = Job
  /\ req = [h \in Request |-> IdleReq] /\ adm = [a \in Admin |-> IdleAdm]
  /\ recent = {}
  /\ clock = 1 /\ claims = 0 /\ events = 0
  /\ newcomer = {} /\ beside = [k \in Job |-> {}] /\ waited = [k \in Job |-> NoneYet]
  /\ streak = [h \in Request |-> NoneYet]

-----------------------------------------------------------------------------
(* Ratios                                                                  *)

Least(S)    == CHOOSE n \in S : \A m \in S : n <= m
Greatest(S) == CHOOSE n \in S : \A m \in S : m <= n
Larger(m, n) == IF m < n THEN n ELSE m

Active(s) == {j \in Job : s[j] > 0}

(* The ratio of n claims to a share, and the claims a share has at a ratio. *)
Ratio(n, alloc) == n * (Scale \div alloc)
At(r, alloc)    == (r * alloc) \div Scale

(* candidate_jobs: furthest behind its share first, then the oldest. *)
Ahead(j, k) ==
  LET rj == Ratio(standing[j], share[j])  rk == Ratio(standing[k], share[k])
  IN rj < rk \/ (rj = rk /\ j < k)
Candidates(h) ==
  LET S == Active(share) \cap CanRun[h]
  IN CHOOSE s \in [1..Cardinality(S) -> S] :
       \A i, k \in DOMAIN s : i < k => Ahead(s[i], s[k])

(* PARITY_TARGET: the lowest ratio of the other active jobs that were      *)
(* claimed within a window of the latest claim of any; {} without one.     *)
Served(j, s) ==
  LET others == {o \in Active(s) \ {j} : last[o] # Never}
  IN {o \in others : last[o] > Greatest({last[p] : p \in others}) - 1}
ParityTarget(j, s, n) ==
  IF Served(j, s) = {} THEN {} ELSE {Least({Ratio(n[o], s[o]) : o \in Served(j, s)})}

(* A slip: level with the fastest of the jobs being served. *)
JoinRatio_Highest(j, s, n) ==
  LET others == Active(s) \ {j}
  IN IF others = {} THEN 0 ELSE Greatest({Ratio(n[o], s[o]) : o \in others})

(* join_at_parity: or the highest of those on offer, or zero. *)
JoinRatio(j, s, n) ==
  LET others == Active(s) \ {j}
  IN IF ParityTarget(j, s, n) # {} THEN Least(ParityTarget(j, s, n))
     ELSE IF others # {} THEN Greatest({Ratio(n[o], s[o]) : o \in others}) ELSE 0

(* pace_for: the lowest ratio of the worker's other candidates, as read,   *)
(* less one of that job's claims and one of this one's, and a unit more    *)
(* for a job found busy of late; {} without one.                           *)
Pace(q) ==
  LET j == q.list[q.i]
      o == q.list[IF q.i = 1 THEN 2 ELSE 1]
  IN IF Len(q.list) = 1 THEN {}
     ELSE {q.ratio[o] - Ratio(1, q.alloc[o]) - Ratio(1, q.alloc[j])
             - (IF j \in recent THEN Scale ELSE 0)}

-----------------------------------------------------------------------------
(* Claims                                                                  *)

RowFree(j) == \A a \in Admin : \A i \in DOMAIN adm[a].rows : adm[a].rows[i][1] # j
DispatchFree(j) ==
  \A h \in Request : req[h].at = "locked" => req[h].list[req[h].i] # j

Chosen(q) == q.list[q.i]

history  == <<newcomer, beside, waited, streak>>
jobsRest == <<share, standing, last, joined, work, history>>
others   == <<adm, recent, clock, events>>

(* A round, with the candidates as they are now.                           *)
Read(h, round) ==
  LET list == Candidates(h)
  IN IF list = << >> THEN [IdleReq EXCEPT !.at = "none"]
     ELSE [at |-> "walk", list |-> list, i |-> 1, round |-> round,
           ratio |-> [j \in ToSet(list) |-> Ratio(standing[j], share[j])],
           alloc |-> [j \in ToSet(list) |-> share[j]],
           passed |-> {}, busy |-> IF round = 1 THEN {} ELSE req[h].busy, outrun |-> FALSE, shifted |-> {}]

(* claim_task: a worker says what it is and what it cannot run.            *)
ClaimStart(h) ==
  /\ req[h].at = "idle"
  /\ Cardinality({g \in Request : req[g].at \notin {"idle", "gone"}}) + claims < MaxClaims  \* bound
  /\ req' = [req EXCEPT ![h] = Read(h, 1)]
  /\ UNCHANGED <<jobsRest, others, claims>>

(* With no candidate, the jobs on offer are counted: if any is beyond this *)
(* worker it is told to shut down, and comes back no more.                 *)
RuledOut(h) == Active(share) \ CanRun[h] # {}

ShutdownOrIdle(h) ==
  /\ req[h].at = "none"
  /\ req' = [req EXCEPT ![h] = IF RuledOut(h) THEN [IdleReq EXCEPT !.at = "gone"] ELSE IdleReq]
  /\ UNCHANGED <<jobsRest, others, claims>>

(* On to the next candidate; from the last, round again if a job was       *)
(* outrun, and otherwise away with nothing.                                *)
GoOn(h, q) ==
  req' = [req EXCEPT ![h] =
    IF q.i < Len(q.list) THEN [q EXCEPT !.i = @ + 1, !.at = "walk"]
    ELSE IF q.outrun /\ q.round < Rounds THEN [Read(h, q.round + 1) EXCEPT !.busy = q.busy]
    ELSE IdleReq]

(* A job found busy earlier in the request is not tried again. *)
Skip(h) ==
  /\ req[h].at = "walk" /\ Chosen(req[h]) \in req[h].busy
  /\ GoOn(h, req[h])
  /\ UNCHANGED <<jobsRest, others, claims>>

Walking(h) == req[h].at = "walk" /\ Chosen(req[h]) \notin req[h].busy

(* Nothing to hand out, found before or under the lock. *)
PassOver(h) ==
  LET q == req[h]
  IN /\ \/ Walking(h) /\ Chosen(q) \notin work
        \/ q.at = "locked" /\ (Chosen(q) \notin work \/ (RowFree(Chosen(q)) /\ share[Chosen(q)] = 0))
     /\ GoOn(h, [q EXCEPT !.passed = @ \cup {Chosen(q)}])
     /\ UNCHANGED <<jobsRest, others, claims>>

FindBusy(h) ==
  LET q == req[h]
  IN /\ Walking(h) /\ Chosen(q) \in work /\ ~DispatchFree(Chosen(q))
     /\ GoOn(h, [q EXCEPT !.busy = @ \cup {Chosen(q)}])
     /\ recent' = recent \cup {Chosen(q)}
     /\ UNCHANGED <<jobsRest, adm, clock, events, claims>>

(* The worker's other candidates still in play; none in the last round.    *)
Rivals(q) ==
  IF q.round = Rounds THEN {} ELSE ToSet(q.list) \ (q.passed \cup q.busy \cup {Chosen(q)})

(* A slip: no turn check. *)
Outrun_Never(q) == FALSE

(* Further on than one of a rival's claims, or than a unit past a job      *)
(* found busy: claims since the list was read were this job's.             *)
Outrun(q) ==
  LET r == Ratio(standing[Chosen(q)], share[Chosen(q)])
  IN \/ \E o \in Rivals(q) : share[o] > 0 /\ r > Ratio(standing[o] + 1, share[o])
     \/ \E o \in q.busy : share[o] > 0 /\ r > Ratio(standing[o], share[o]) + Scale

(* The job's dispatch lock, and the turn check under it. *)
TakeTurn(h) ==
  LET q == req[h]
  IN /\ Walking(h) /\ Chosen(q) \in work /\ DispatchFree(Chosen(q))
     /\ IF share[Chosen(q)] = 0 THEN GoOn(h, [q EXCEPT !.passed = @ \cup {Chosen(q)}])
        ELSE IF Outrun(q) THEN GoOn(h, [q EXCEPT !.outrun = TRUE])
        ELSE req' = [req EXCEPT ![h].at = "locked", ![h].shifted = {}]
     /\ UNCHANGED <<jobsRest, others, claims>>

(* Unserved for a window before the latest claim of any other job. *)
Stale(j) ==
  LET others_ == {o \in Active(share) \ {j} : last[o] # Never}
  IN /\ others_ # {}
     /\ (IF last[j] = Never THEN joined[j] ELSE last[j]) <= Greatest({last[o] : o \in others_}) - 1

Settling(j) == joined[j] > clock - JoinSettle

(* A job that a claim levels: it was not served, or joined of late.        *)
Levelled(j) == Stale(j) \/ Settling(j)

(* A slip: a joined job is not lifted to the pace of who claims it. *)
Lifted_Never(j, q) == standing[j]

(* issue_claim: level with this worker's pace, or with where a job that    *)
(* was not served rejoins; never lowered.                                  *)
Lifted(j, q) ==
  LET paces == Pace(q) \cup (IF Stale(j) THEN ParityTarget(j, share, standing) ELSE {})
      marks == {At(r, share[j]) : r \in paces}
  IN IF Levelled(j) /\ marks # {}
       THEN Larger(standing[j], Greatest(marks)) ELSE standing[j]

(* A newcomer that was not claimed yet; the streaks that a move of jobs    *)
(* does not end.                                                           *)
First(k) == k \in newcomer /\ last[k] = Never
Unbroken(jobs) ==
  [h \in Request |-> [j \in Job |-> IF CanRun[h] \cap jobs \subseteq {j} THEN streak[h][j] ELSE 0]]

IssueClaim(h) ==
  LET q == req[h]  j == Chosen(q)
  IN /\ q.at = "locked" /\ j \in work /\ RowFree(j) /\ share[j] > 0
     /\ standing' = [standing EXCEPT ![j] = Lifted(j, q) + 1]
     /\ joined' = [joined EXCEPT ![j] = IF Stale(j) THEN clock ELSE @]
     /\ last' = [last EXCEPT ![j] = clock]
     /\ newcomer' = newcomer
     /\ beside' = [beside EXCEPT ![j] = {}]
     /\ waited' = [k \in Job |-> IF k = j THEN NoneYet
                                 ELSE IF First(k) /\ k \in Rivals(q) /\ j \in beside[k]
                                   THEN [waited[k] EXCEPT ![j] = @ + 1]
                                 ELSE waited[k]]
     /\ streak' = [Unbroken({j}) EXCEPT ![h][j] =
          IF Levelled(j) /\ q.passed = {} /\ Rivals(q) # {} THEN @ + 1 ELSE 0]
     /\ claims' = claims + 1
     /\ req' = [req EXCEPT ![h] = IF q.passed = {} THEN IdleReq ELSE [q EXCEPT !.at = "lift"]]
     /\ UNCHANGED <<share, work, others>>

(* Requests q once something but a claim moved the standings of jobs. *)
Shift(q, jobs) ==
  req' = [h \in Request |->
            IF q[h].at = "locked" THEN [q[h] EXCEPT !.shifted = @ \cup jobs] ELSE q[h]]

(* lift_passed_over: level with the job chosen, as the list had it, those  *)
(* whose row no other transaction has.                                     *)
LiftPassedOver(h) ==
  LET q == req[h]
      pace == q.ratio[Chosen(q)]
      lifted == {j \in q.passed : /\ share[j] > 0 /\ RowFree(j)
                                  /\ standing[j] < At(pace, share[j])}
  IN /\ q.at = "lift"
     /\ standing' = [j \in Job |-> IF j \in lifted THEN At(pace, share[j]) ELSE standing[j]]
     /\ Shift([req EXCEPT ![h] = IdleReq], lifted)
     /\ newcomer' = newcomer \ lifted
     /\ streak' = Unbroken(lifted)
     /\ UNCHANGED <<share, last, joined, work, beside, waited, others, claims>>

Event == events < MaxEvents /\ events' = events + 1    \* bound

(* A job runs out of tasks, or is held; it has some again. *)
Gap(j) ==
  /\ j \in work /\ Event
  /\ work' = work \ {j}
  /\ UNCHANGED <<share, standing, last, joined, history, req, adm, recent, clock, claims>>

GapEnds(j) ==
  /\ j \notin work
  /\ work' = work \cup {j}
  /\ UNCHANGED <<share, standing, last, joined, history, req, adm, recent, clock, claims, events>>

(* unsettle: a worker declines a job it cannot run, which is put back      *)
(* where it joined.                                                        *)
Unsettle(j) ==
  /\ last[j] # Never /\ share[j] > 0 /\ RowFree(j) /\ Settling(j) /\ Event
  /\ ParityTarget(j, share, standing) # {}
  /\ LET mark == At(Least(ParityTarget(j, share, standing)), share[j])
     IN standing' = [standing EXCEPT ![j] = IF mark < @ THEN mark ELSE @]
  /\ Shift(req, {j})
  /\ beside' = [k \in Job |-> beside[k] \ {j}]
  /\ streak' = [h \in Request |-> [Unbroken({j})[h] EXCEPT ![j] = 0]]
  /\ UNCHANGED <<share, last, joined, work, newcomer, waited, adm, recent, clock, claims>>

Tick ==
  /\ Event
  /\ clock' = clock + 1
  /\ UNCHANGED <<jobsRest, req, adm, recent, claims>>

-----------------------------------------------------------------------------
(* Allocation changes                                                      *)

admRest == <<last, work, recent, clock, claims>>

(* Every row named, in id order, so that two changes never wait for each   *)
(* other; then the activation lock.                                        *)
AllocRows(a, rows) ==
  /\ adm[a].at = "idle" /\ Event
  /\ \A i \in DOMAIN rows : RowFree(rows[i][1])
  /\ adm' = [adm EXCEPT ![a] = [at |-> "rows", rows |-> rows]]
  /\ UNCHANGED <<share, standing, joined, history, req, admRest>>

(* A slip: the sum of the others is read with no lock. *)
ActivationFree_Unasked == TRUE

ActivationFree == \A a \in Admin : adm[a].at # "write"

SumOf(S) == SumFunctionOnSet(share, S)

Named(rows) == {rows[i][1] : i \in DOMAIN rows}

(* The whole of the change is checked, with what the others hold now. *)
AllocCheck(a) ==
  LET rows  == adm[a].rows
      total == SumOf(Job \ Named(rows))
                 + SumFunctionOnSet([i \in DOMAIN rows |-> rows[i][2]], DOMAIN rows)
  IN /\ adm[a].at = "rows" /\ ActivationFree
     /\ adm' = [adm EXCEPT ![a] = IF total > Whole THEN IdleAdm ELSE [@ EXCEPT !.at = "write"]]
     /\ UNCHANGED <<share, standing, joined, history, events, req, admRest>>

(* A job whose share changes joins level with the others, row by row. *)
Applied(rows) ==
  FoldLeft(LAMBDA s, row :
             IF row[2] = s.share[row[1]] THEN s
             ELSE LET to == [s.share EXCEPT ![row[1]] = row[2]]
                  IN [share |-> to,
                      standing |-> IF row[2] = 0 THEN s.standing
                        ELSE [s.standing EXCEPT ![row[1]] =
                                At(JoinRatio(row[1], to, s.standing), row[2])]],
           [share |-> share, standing |-> standing], rows)

AllocWrite(a) ==
  LET rows  == adm[a].rows
      after == Applied(rows)
      moved == {j \in Named(rows) : after.share[j] # share[j]}
  IN /\ adm[a].at = "write"
     /\ share' = after.share /\ standing' = after.standing
     /\ joined' = [j \in Job |-> IF j \in moved /\ after.share[j] > 0 THEN clock ELSE joined[j]]
     /\ newcomer' = newcomer \cup moved
     /\ beside' = [k \in Job |->
          (IF k \in moved THEN Served(k, share) \cap Served(k, after.share) ELSE beside[k]) \ moved]
     /\ waited' = [k \in Job |-> IF k \in moved THEN NoneYet ELSE waited[k]]
     /\ streak' = IF moved = {} THEN streak ELSE [h \in Request |-> NoneYet]
     /\ adm' = [adm EXCEPT ![a] = IdleAdm]
     /\ Shift(req, moved)
     /\ UNCHANGED <<events, admRest>>

-----------------------------------------------------------------------------
Next ==
  \/ \E h \in Request :
       \/ ClaimStart(h) \/ ShutdownOrIdle(h) \/ Skip(h) \/ PassOver(h) \/ FindBusy(h) \/ TakeTurn(h)
       \/ IssueClaim(h) \/ LiftPassedOver(h)
  \/ \E j \in Job : Gap(j) \/ GapEnds(j) \/ Unsettle(j)
  \/ Tick
  \/ \E a \in Admin : \/ \E rows \in Change : AllocRows(a, rows)
                      \/ AllocCheck(a) \/ AllocWrite(a)

Spec == Init /\ [][Next]_vars

-----------------------------------------------------------------------------
(* The active jobs never share out more than the whole fleet, whichever    *)
(* changes are made at once.                                               *)
WholeFleet == SumOf(Job) <= Whole

(* "Never starved": a job that joins, at the lowest pace served, is passed *)
(* by before its first claim by each of the jobs it joined for no longer   *)
(* than that job's turn and a claim, whichever workers claim at once.      *)
NewcomerServed ==
  \A k \in newcomer : First(k) /\ share[k] > 0 =>
    \A j \in beside[k] : waited[k][j] <= 1 + share[j] \div share[k]

(* A claim's slack each way, and the unit a job that was busy is forgiven. *)
Slack(j) ==
  2 * Ratio(1, Least({share[i] : i \in Active(share)}))
    + (IF j \in recent THEN Scale ELSE 0) + (IF recent \ {j} # {} THEN Scale ELSE 0)

(* A join is no takeover: while no other job of its worker's gets a claim, *)
(* a job at a join is claimed four times and for as long as the slack is,  *)
(* however far ahead the others were of where it joined.                   *)
NoTakeover ==
  \A h \in Request : \A j \in Active(share) : Ratio(streak[h][j] - 4, share[j]) < Slack(j)

(* Claims that read the candidates together do not all land on the first   *)
(* job: each is at most one of its rivals' claims past each of them when   *)
(* it is issued.                                                           *)
NoBurst ==
  [][\A h \in Request :
       LET q == req[h]  j == Chosen(q)
       IN q.at = "locked" /\ req'[h].at # "locked" /\ claims' > claims =>
            \A o \in Rivals(q) \ q.shifted : share[o] > 0 /\ j \notin q.shifted =>
              Ratio(standing[j], share[j]) <= Ratio(standing[o] + 1, share[o])]_vars

(* "Ruled out of all of them": a worker told that every active job needs   *)
(* more than it has could run none of the jobs on offer when it was told.  *)
(* The code counts the jobs that rule it out, and not those that do not.   *)
ShutDownWhenRuledOut ==
  \A h \in Request : req[h].at = "none" /\ RuledOut(h) => Active(share) \cap CanRun[h] = {}
=============================================================================
