--------------------------- MODULE ClaimDeadlines ---------------------------
(***************************************************************************)
(* The clocks of one job's claims: heartbeats and the timeout, deadlines   *)
(* and their grace, the sweep that takes claims back, the graces after a   *)
(* restart and after a purge that gave up, and the run of tasks that hit   *)
(* the time limit, which sets the job aside.                               *)
(*                                                                         *)
(* The clock counts ticks longer than a worker leaves between heartbeats,  *)
(* and between two tries to submit.  A claim request sweeps, then counts   *)
(* the overruns marked by then, then is issued its claim: three actions    *)
(* here, as other requests come between them.  Tasks never run out.        *)
(***************************************************************************)
EXTENDS Integers, FiniteSets, FiniteSetsExt

CONSTANTS
  Claim,        \* claims, 1..n in the order they are made
  Timeout,      \* heartbeat_timeout, in ticks
  Grace,        \* DEADLINE_GRACE
  Limits,       \* max_task_seconds an admin may choose
  Streak,       \* TIME_LIMIT_STREAK
  MaxTime,      \* bound: the clock
  MaxMishaps    \* bound: outages, purges, deaths, and changes by admins together

ASSUME ClocksAssumption ==
  /\ {Timeout, Grace, Streak} \cup Limits \cup Claim \subseteq Nat \ {0}
  /\ IsFiniteSet(Claim) /\ Limits # {} /\ MaxTime \in Nat /\ MaxMishaps \in Nat

VARIABLES
  clock, mishaps,
  up,            \* the server answers
  reclaimFrom,   \* AppState::reclaim_from
  held,          \* a purge has the job's claims
  notBefore,     \* DispatchHolds: reclaim_not_before
  active,        \* jobs.status and allocation
  limit,         \* jobs.max_task_seconds
  run, since,    \* jobs.time_limit_streak, time_limit_streak_since
  claim,         \* task_claims, each with the worker that has it
  restarted      \* history: when the run was last begun by an admin

vars == <<clock, mishaps, up, reclaimFrom, held, notBefore, active, limit, run, since, claim,
          restarted>>

Never == -1

Unclaimed == [state |-> "none", claimed |-> Never, deadline |-> Never, beat |-> Never,
              overrun |-> "no", alive |-> TRUE, done |-> "no", ended |-> Never,
              hit |-> FALSE]    \* done, ended, hit: what happened, and when

Init ==
  /\ clock = 0 /\ mishaps = 0
  /\ up = TRUE /\ reclaimFrom = 0 /\ held = FALSE /\ notBefore = 0
  /\ active = TRUE /\ limit \in Limits
  /\ run = 0 /\ since = Never /\ restarted = Never
  /\ claim = [c \in Claim |-> Unclaimed]

server == <<up, reclaimFrom, held, notBefore>>
job    == <<active, limit, run, since, restarted>>

Open(c) == claim[c].state = "claimed"

(* A worker's request for its claim is answered: not during an outage, and *)
(* with a 503, or skipped, while a purge has the claim.                    *)
Reachable == up /\ ~held

Ended(c, how) == [claim EXCEPT ![c].state = how, ![c].ended = clock, ![c].beat = Never]

-----------------------------------------------------------------------------
(* Workers                                                                 *)

Finish(c) ==
  /\ Open(c) /\ claim[c].alive /\ claim[c].done = "no"
  /\ claim' = [claim EXCEPT ![c].done = IF clock <= claim[c].deadline THEN "in time" ELSE "late"]
  /\ UNCHANGED <<clock, mishaps, server, job>>

Die(c) ==
  /\ Open(c) /\ claim[c].alive /\ mishaps < MaxMishaps    \* bound
  /\ mishaps' = mishaps + 1
  /\ claim' = [claim EXCEPT ![c].alive = FALSE]
  /\ UNCHANGED <<clock, server, job>>

(* Those of a tick, together: their order says nothing. *)
Heartbeat ==
  LET due == {c \in Claim : Open(c) /\ claim[c].alive /\ claim[c].beat # clock}
  IN /\ Reachable /\ due # {}
     /\ claim' = [c \in Claim |-> IF c \in due THEN [claim[c] EXCEPT !.beat = clock] ELSE claim[c]]
     /\ UNCHANGED <<clock, mishaps, server, job>>

(* record_time_limit: declines now, and the overruns nobody has counted,   *)
(* of which those whose deadline came after the run began are part of it.  *)
Pending(cl) == {c \in Claim : cl[c].overrun = "pending"}

(* A slip: an overrun is part of whatever run it is counted in. *)
InRun_Whenever(c, cl) == TRUE

(* A slip: so is only one whose claim was made since the run began. *)
InRun_Claimed(c, cl) == since = Never \/ cl[c].claimed > since

InRun(c, cl) == since = Never \/ cl[c].deadline > since

RecordTimeLimit(cl, declines) ==
  LET hits == declines + Cardinality({c \in Pending(cl) : InRun(c, cl)})
      some == declines > 0 \/ Pending(cl) # {}
  IN /\ run' = run + hits
     /\ active' = (active /\ ~(some /\ run + hits >= Streak))
     /\ claim' = [c \in Claim |->
                    IF c \in Pending(cl) THEN [cl[c] EXCEPT !.overrun = "counted"] ELSE cl[c]]
     /\ UNCHANGED <<limit, since, restarted>>

PastDeadline(c) == claim[c].deadline < clock - Grace

DeadlinesEnforced == clock >= reclaimFrom /\ clock >= notBefore

SubmitLate(c) ==
  /\ Reachable /\ Open(c) /\ claim[c].alive /\ claim[c].done # "no"
  /\ PastDeadline(c) /\ DeadlinesEnforced
  /\ RecordTimeLimit([Ended(c, "abandoned") EXCEPT ![c].overrun = "pending", ![c].hit = TRUE], 0)
  /\ UNCHANGED <<clock, mishaps, server>>

(* An accepted result ends the run, as it completes its task. *)
Submit(c) ==
  /\ Reachable /\ Open(c) /\ claim[c].alive /\ claim[c].done # "no"
  /\ ~(PastDeadline(c) /\ DeadlinesEnforced)
  /\ claim' = Ended(c, "completed")
  /\ run' = 0 /\ since' = clock
  /\ UNCHANGED <<clock, mishaps, server, active, limit, restarted>>

(* A worker that stops at the limit hands its claim back and says so.      *)
DeclineTimeLimit(c) ==
  /\ Reachable /\ Open(c) /\ claim[c].alive /\ claim[c].done = "no"
  /\ clock >= claim[c].deadline
  /\ RecordTimeLimit([Ended(c, "declined") EXCEPT ![c].hit = TRUE], 1)
  /\ UNCHANGED <<clock, mishaps, server>>

DeclineOther(c) ==
  /\ Reachable /\ Open(c) /\ claim[c].alive /\ mishaps < MaxMishaps    \* bound
  /\ mishaps' = mishaps + 1
  /\ claim' = Ended(c, "declined")
  /\ UNCHANGED <<clock, server, job>>

-----------------------------------------------------------------------------
(* Claim requests                                                          *)

Silent(c) == Max({claim[c].beat, claim[c].claimed}) < clock - Timeout

(* Its worker was alive when the claim lapsed at its deadline. *)
Overran(c) ==
  /\ PastDeadline(c)
  /\ Max({claim[c].beat, claim[c].claimed}) >= claim[c].deadline + Grace - Timeout

(* reclaim_lapsed: not within a timeout of the start, or of a hold that    *)
(* let go of the job's claims; a claim that somebody has is skipped.       *)
Sweep ==
  LET lapsed == {c \in Claim : Open(c) /\ (Silent(c) \/ PastDeadline(c))}
  IN /\ Reachable /\ active /\ lapsed # {} /\ DeadlinesEnforced
     /\ claim' = [c \in Claim |->
          IF c \notin lapsed THEN claim[c]
          ELSE [claim[c] EXCEPT !.state = "abandoned", !.ended = clock, !.beat = Never, !.hit = Overran(c),
                                !.overrun = IF Overran(c) THEN "pending" ELSE "no"]]
     /\ UNCHANGED <<clock, mishaps, server, job>>

(* count_overruns, with the job's dispatch lock, which a purge would have. *)
CountOverruns ==
  /\ Reachable /\ active /\ Pending(claim) # {}
  /\ RecordTimeLimit(claim, 0)
  /\ UNCHANGED <<clock, mishaps, server>>

Oldest(c) == claim[c].state = "none" /\ \A b \in Claim : b < c => claim[b].state # "none"

(* The deadline follows the limit as it stands. *)
Issue(c) ==
  /\ Reachable /\ active /\ Oldest(c)
  /\ Cardinality({b \in Claim : Open(b)}) < 2    \* bound: two workers
  /\ claim' = [claim EXCEPT ![c].state = "claimed", ![c].claimed = clock,
                            ![c].deadline = clock + limit]
  /\ UNCHANGED <<clock, mishaps, server, job>>

-----------------------------------------------------------------------------
(* Outages, purges and admins                                              *)

Mishap == mishaps < MaxMishaps /\ mishaps' = mishaps + 1    \* bound

Down ==
  /\ up /\ Mishap
  /\ up' = FALSE /\ held' = FALSE
  /\ UNCHANGED <<clock, reclaimFrom, notBefore, job, claim>>

(* A slip: the clock of lapses does not start with the process. *)
Started_AtOnce == clock

Started == clock + Timeout

Restart ==
  /\ ~up
  /\ up' = TRUE /\ reclaimFrom' = Started /\ notBefore' = 0
  /\ UNCHANGED <<clock, mishaps, held, job, claim>>

PurgeHolds ==
  /\ Reachable /\ Mishap
  /\ held' = TRUE
  /\ UNCHANGED <<clock, up, reclaimFrom, notBefore, job, claim>>

(* The transaction fails, or the request is dropped. *)
PurgeGivesUp ==
  /\ held
  /\ held' = FALSE /\ notBefore' = clock + Timeout
  /\ UNCHANGED <<clock, mishaps, up, reclaimFrom, job, claim>>

PurgeCommits ==
  /\ held
  /\ held' = FALSE
  /\ active' = FALSE /\ run' = 0 /\ since' = Never /\ restarted' = clock
  /\ claim' = [c \in Claim |-> IF claim[c].state = "none" THEN claim[c]
                               ELSE [Unclaimed EXCEPT !.state = "completed"]]
  /\ UNCHANGED <<clock, mishaps, up, reclaimFrom, notBefore, limit>>

(* set_allocations above 0%: an inactive job begins a new run. *)
Activate ==
  /\ up /\ ~held /\ ~active /\ Mishap
  /\ active' = TRUE /\ run' = 0 /\ since' = clock /\ restarted' = clock
  /\ UNCHANGED <<clock, server, limit, claim>>

Deactivate ==
  /\ up /\ ~held /\ active /\ Mishap
  /\ active' = FALSE
  /\ UNCHANGED <<clock, server, limit, run, since, restarted, claim>>

UpdateTimeLimit(l) ==
  /\ up /\ ~held /\ l # limit /\ Mishap
  /\ limit' = l
  /\ UNCHANGED <<clock, server, active, run, since, restarted, claim>>

(* Live workers that can reach their claims have heartbeat, and submitted  *)
(* what they have, before another tick passes.                             *)
Tick ==
  /\ clock < MaxTime    \* bound
  /\ Reachable => \A c \in Claim : Open(c) /\ claim[c].alive =>
                    claim[c].beat = clock /\ claim[c].done = "no"
  /\ clock' = clock + 1
  /\ UNCHANGED <<mishaps, server, job, claim>>

Next ==
  \/ \E c \in Claim :
       \/ Issue(c) \/ Finish(c) \/ Die(c)
       \/ Submit(c) \/ SubmitLate(c) \/ DeclineTimeLimit(c) \/ DeclineOther(c)
  \/ Heartbeat \/ Sweep \/ CountOverruns
  \/ Down \/ Restart \/ PurgeHolds \/ PurgeGivesUp \/ PurgeCommits
  \/ Activate \/ Deactivate
  \/ \E l \in Limits : UpdateTimeLimit(l)
  \/ Tick

Spec == Init /\ [][Next]_vars

-----------------------------------------------------------------------------
(* No server's fault costs a worker its work: the claim of a live worker   *)
(* is taken back only past its deadline and the grace, and never once its  *)
(* task was finished by the deadline, however long an outage or a purge    *)
(* that gave up kept the result and the heartbeats from arriving.          *)
NoLostWork ==
  \A c \in Claim : claim[c].state = "abandoned" /\ claim[c].alive =>
    /\ claim[c].ended > claim[c].deadline + Grace
    /\ claim[c].done # "in time"

(* The tasks that hit the limit since the last one completed and the last  *)
(* activation or purge: an overrun when its deadline came, a decline when  *)
(* it was handed back.                                                     *)
LastGood == Max({restarted} \cup {claim[c].ended : c \in {b \in Claim : claim[b].state = "completed"}})
HitsInARow(cl) ==
  {c \in Claim : cl[c].hit /\ (IF cl[c].state = "declined" THEN cl[c].ended >= LastGood
                               ELSE cl[c].deadline > LastGood)}

(* A job is set aside only when that many of its tasks hit the limit in    *)
(* the order things happened, whenever the overruns came to be counted:    *)
(* never one that completes tasks in between.                              *)
SetAsideDeserved ==
  [][run' > run /\ active /\ ~active' => Cardinality(HitsInARow(claim')) >= Streak]_vars

(* And none goes on being handed out: with Streak hits in a row, one of    *)
(* them an overrun still to be counted by the next claim, or it is off.    *)
SetAsideInTime ==
  active /\ Pending(claim) = {} =>
    Cardinality({c \in HitsInARow(claim) :
                   claim[c].state = "declined" => claim[c].ended > LastGood}) < Streak
=============================================================================
