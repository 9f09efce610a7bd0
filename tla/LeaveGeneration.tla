-------------------------- MODULE LeaveGeneration --------------------------
(***************************************************************************)
(* One leave-generation job: the claims that sweep its racks and then pick *)
(* the ones furthest below target, the results staged beside its totals,   *)
(* the merges that fold them in, and the transitions that close one        *)
(* generation after another, with purges, lapses, failures and restarts.   *)
(*                                                                         *)
(* A claim decides under the job's dispatch lock, so there is one at a     *)
(* time; but submissions, declines, merges and transitions do not take     *)
(* that lock, and commit between any two of its reads.  Each read of a     *)
(* claim that one of them could make stale is a step of its own.           *)
(*                                                                         *)
(* A transition is taken to outlast neither the takeover bound nor its     *)
(* process: its row goes stale when it fails or when the process dies.     *)
(* Nor does it outlast a purge of its job so long that its generation is   *)
(* played to the end again (Overtaken).                                    *)
(***************************************************************************)
EXTENDS Integers, FiniteSets

CONSTANTS
  NumRacks,     \* the full racks of the universe are 1..NumRacks, in key order
  Generations,  \* job_leave_config: how many generations
  Target,       \* job_leave_config: occurrences wanted of each rack
  RacksPerTask, \* job_leave_config: racks forced by one task
  SweepBound,   \* below-target racks up to which selection is lowest count first
  Passes,       \* the slices by rack a merge is made in
  Task,         \* tasks not yet merged at once, as many as the bound allows
  Runner,       \* transitions running at once
  Sweeper,      \* the owner of the merge lock that is no transition
  NoOne,        \* nobody: the merge lock is free
  NoKlv,        \* no artifact, no object
  MaxMishaps    \* bound: lapses, failures, stops, purges and restarts

Rack       == 1..NumRacks
Generation == 1..Generations

ASSUME SizesAssumption ==
  /\ NumRacks \in Nat \ {0} /\ Generations \in Nat \ {0} /\ Target \in Nat \ {0}
  /\ RacksPerTask \in Nat \ {0} /\ SweepBound \in Nat /\ Passes \in Nat \ {0}
  /\ MaxMishaps \in Nat
ASSUME NamesAssumption ==
  /\ Sweeper \notin Runner /\ NoOne \notin Runner \cup {Sweeper}
  /\ IsFiniteSet(Task)
  /\ NoKlv \notin [Rack -> Nat]

VARIABLES
  status,   \* jobs.status: "active", "inactive" or "completed"
  zero,     \* generation 0's artifact exists
  art,      \* art[g]: the totals generation g's stored KLV was built from, or NoKlv
  trans,    \* trans[g]: its row in leave_generation_transitions
  seeded,   \* seeded[g]: its rows in leave_rack_progress are written
  count,    \* count[g][r]: occurrence_count of those rows
  below,    \* below[g]: racks below target when its summary was last computed
  cursor,   \* cursor[g]: its row in leave_selection_cursors
  task,     \* task[t]: an unmerged task, its claim, and its staged result
  claim,    \* the claim request that holds the dispatch lock: where it is
  merge,    \* the merge that holds the merge lock: what it read
  run,      \* run[x]: a spawned transition
  wanted,   \* generations whose seeding (for 0: whose zero KLV) was spawned
  mishaps   \* lapses, failures, stops, purges and restarts so far

vars == <<status, zero, art, trans, seeded, count, below, cursor,
          task, claim, merge, run, wanted, mishaps>>

NoLap == 0             \* no row: the last lap is over
Tail  == NumRacks + 1  \* a row with no rack: lowest count first from here on

Spare   == [state |-> "spare", gen |-> 0, forced |-> {}, found |-> {}]
Idle    == [at |-> "idle", gen |-> 0]
Free    == [by |-> NoOne, gen |-> 0, ids |-> {}, pass |-> 0]
Resting == [at |-> "idle", gen |-> 0, klv |-> NoKlv]

NoCounts == [g \in Generation |-> [r \in Rack |-> 0]]

Init ==
  /\ status = "inactive" /\ zero = FALSE
  /\ art = [g \in Generation |-> NoKlv]
  /\ trans = [g \in Generation |-> "none"]
  /\ seeded = [g \in Generation |-> FALSE]
  /\ count = NoCounts
  /\ below = [g \in Generation |-> 0]
  /\ cursor = [g \in Generation |-> NoLap]
  /\ task = [t \in Task |-> Spare]
  /\ claim = Idle /\ merge = Free
  /\ run = [x \in Runner |-> Resting]
  /\ wanted = {0} /\ mishaps = 0

-----------------------------------------------------------------------------
(* What the reads find                                                     *)

Closed   == {g \in Generation : art[g] # NoKlv}
Finished == Cardinality(Closed) >= Generations
Current  == Cardinality(Closed) + 1

Of(g, state) == {t \in Task : task[t].state = state /\ task[t].gen = g}

Rows(g)        == IF seeded[g] THEN Rack ELSE {}
BelowTarget(g) == {r \in Rows(g) : count[g][r] < Target}

(* racks_after: the next racks of a lap, in key order, and what is left.   *)
After(g, place) == {r \in BelowTarget(g) : r > place}
NextRacks(S)   == {r \in S : Cardinality({q \in S : q < r}) < RacksPerTask}
More(S)         == Cardinality(S) > RacksPerTask
Last(S)         == CHOOSE r \in S : \A q \in S : q <= r

(* The racks an open claim or a staged result of the generation forces. *)
OutNow(g) == UNION {task[t].forced : t \in Of(g, "claimed") \cup Of(g, "staged")}

(* Any choice of the racks furthest below target that are not out: equal   *)
(* counts come in whatever order the index holds them.                     *)
Furthest(g) ==
  LET S == BelowTarget(g) \ OutNow(g)
  IN  {F \in SUBSET S :
         /\ \/ Cardinality(F) = RacksPerTask
            \/ F = S /\ ~More(S)
         /\ \A r \in F, q \in S \ F : count[g][r] <= count[g][q]}

Mishap == mishaps < MaxMishaps /\ mishaps' = mishaps + 1

-----------------------------------------------------------------------------
(* A claim: acquire and generate_leave_gen, then next_step                 *)

EndClaim == claim' = Idle
GoTo(step, g) == claim' = [at |-> step, gen |-> g]

jobRest == <<seeded, count, below, merge, mishaps>>

(* JobFinished: every generation has closed. *)
FinishJob ==
  /\ status' = IF status = "active" THEN "completed" ELSE status
  /\ EndClaim
  /\ UNCHANGED <<zero, art, trans, cursor, task, run, wanted, jobRest>>

ClaimStart ==
  /\ status = "active" /\ claim.at = "idle"
  /\ \E t \in Task : task[t] = Spare       \* bound
  /\ \E x \in Runner : run[x] = Resting    \* bound
  /\ \/ Finished /\ FinishJob
     \/ /\ ~Finished
        /\ GoTo("opened", Current)
        /\ UNCHANGED <<status, zero, art, trans, cursor, task, run, wanted, jobRest>>

(* Nothing for this claim here: its transaction commits what it wrote.     *)
NoWork ==
  /\ EndClaim
  /\ UNCHANGED <<status, zero, art, trans, cursor, task, run, wanted, jobRest>>

ClaimTransitionRuns ==
  claim.at = "opened" /\ trans[claim.gen] = "open" /\ NoWork

ClaimNeeds(g) ==
  /\ claim.at = "opened" /\ trans[claim.gen] # "open"
  /\ \/ g = claim.gen /\ ~seeded[g]                                  \* NeedsUniverse
     \/ g = 0 /\ claim.gen = 1 /\ ~zero /\ seeded[1]                 \* NeedsZeroGeneration
  /\ wanted' = wanted \cup {g}
  /\ EndClaim
  /\ UNCHANGED <<status, zero, art, trans, cursor, task, run, jobRest>>

Ready == /\ claim.at = "opened" /\ trans[claim.gen] # "open" /\ seeded[claim.gen]
         /\ claim.gen = 1 => zero

ClaimReissue(t) ==
  /\ Ready /\ t \in Of(claim.gen, "available")
  /\ task' = [task EXCEPT ![t].state = "claimed"]
  /\ EndClaim
  /\ UNCHANGED <<status, zero, art, trans, cursor, run, wanted, jobRest>>

(* Unlike other jobs', a declined task is offered to whoever asks next.    *)
ClaimNext ==
  /\ Ready /\ Of(claim.gen, "available") = {}
  /\ GoTo("step", claim.gen)
  /\ UNCHANGED <<status, zero, art, trans, cursor, task, run, wanted, jobRest>>

(* A new task of generation g with these racks, played with generation     *)
(* g - 1's KLV: without one the claim fails and its writes are undone.     *)
Dispatch(g, racks, place) ==
  LET t == CHOOSE t \in Task : task[t] = Spare
  IN /\ IF g = 1 THEN zero ELSE art[g - 1] # NoKlv
     /\ task' = [task EXCEPT ![t] =
                   [state |-> "claimed", gen |-> g, forced |-> racks, found |-> {}]]
     /\ cursor' = [cursor EXCEPT ![g] = place]
     /\ EndClaim
     /\ UNCHANGED <<status, zero, art, trans, run, wanted, jobRest>>

(* A slip: a transition that failed is not taken over. *)
Takeable_Once(g) == trans[g] = "none"

Takeable(g) == trans[g] \in {"none", "stale"}

(* A transition of the generation from before a purge still runs: bound.   *)
Overtaken(g) == trans[g] = "none" /\ \E x \in Runner : run[x].at # "idle" /\ run[x].gen = g

(* The generation is complete: whoever writes this row owns its transition. *)
ClaimTransition(g, place) ==
  /\ ~Overtaken(g)
  /\ cursor' = [cursor EXCEPT ![g] = place]
  /\ EndClaim
  /\ IF Takeable(g)
       THEN /\ trans' = [trans EXCEPT ![g] = "open"]
            /\ \E x \in Runner :
                 /\ run[x] = Resting
                 /\ run' = [run EXCEPT ![x] = [at |-> "drain", gen |-> g, klv |-> NoKlv]]
       ELSE UNCHANGED <<trans, run>>
  /\ UNCHANGED <<status, zero, art, task, wanted, jobRest>>

Proceed(step, g, place) ==
  /\ GoTo(step, g)
  /\ cursor' = [cursor EXCEPT ![g] = place]
  /\ UNCHANGED <<status, zero, art, trans, task, run, wanted, jobRest>>

(* continue_lap: the next racks of a lap under way, which ends with the    *)
(* last of them, or at the boundary when none is left.                     *)
ContinueLap(g) ==
  LET S == After(g, cursor[g])
  IN IF More(S) THEN Dispatch(g, NextRacks(S), Last(NextRacks(S)))
     ELSE IF S # {} THEN Dispatch(g, S, NoLap)
     ELSE Proceed("boundary", g, NoLap)

(* next_step asks for the current generation again: its transition may     *)
(* have committed since the claim was opened.                              *)
ClaimStep ==
  /\ claim.at = "step"
  /\ \/ Finished /\ FinishJob
     \/ /\ ~Finished
        /\ \/ cursor[Current] = NoLap /\ Proceed("boundary", Current, NoLap)
           \/ cursor[Current] = Tail /\ Proceed("tail", Current, Tail)
           \/ cursor[Current] \in Rack /\ ContinueLap(Current)

(* A slip: only what is staged is looked at. *)
InFlight_Unread(g) == {}

InFlight(g) == Of(g, "claimed")

(* nothing_to_hand_out, at the boundary of a lap or with no rack to pick:  *)
(* claims in flight are read first, staged results after.                  *)
ClaimInFlight ==
  /\ claim.at \in {"boundary", "tailflight"}
  /\ \/ InFlight(claim.gen) # {} /\ NoWork
     \/ /\ InFlight(claim.gen) = {}
        /\ Proceed(IF claim.at = "boundary" THEN "flightless" ELSE "tailstaged",
                   claim.gen, cursor[claim.gen])

ClaimStaged ==
  /\ claim.at \in {"flightless", "tailstaged"} /\ Of(claim.gen, "staged") # {}
  /\ NoWork                                          \* NeedsMerge: one is spawned

(* sweep: the first racks of a new lap. *)
Sweep(g) ==
  LET S == BelowTarget(g)
  IN IF S = {} THEN ClaimTransition(g, NoLap)
     ELSE Dispatch(g, NextRacks(S), IF More(S) THEN Last(NextRacks(S)) ELSE NoLap)

ClaimBoundary ==
  LET g == claim.gen
  IN /\ claim.at = "flightless" /\ Of(g, "staged") = {}
     /\ IF below[g] <= SweepBound THEN Proceed("tail", g, Tail) ELSE Sweep(g)

ClaimTail ==
  LET g == claim.gen
  IN /\ claim.at = "tail"
     /\ \/ \E F \in Furthest(g) \ {{}} : Dispatch(g, F, Tail)
        \/ {} \in Furthest(g) /\ Proceed("tailflight", g, Tail)

ClaimTailDone ==
  /\ claim.at = "tailstaged" /\ Of(claim.gen, "staged") = {}
  /\ IF BelowTarget(claim.gen) # {} THEN NoWork ELSE ClaimTransition(claim.gen, Tail)

-----------------------------------------------------------------------------
(* What is spawned: seeding, and the zero KLV of generation 1              *)

rest == <<status, cursor, claim, run>>

(* One transaction under the dispatch lock, which a claim that holds it    *)
(* only delays to a later attempt.                                         *)
Seed(g) ==
  /\ g \in wanted /\ g # 0 /\ claim.at = "idle"
  /\ wanted' = wanted \ {g}
  /\ seeded' = [seeded EXCEPT ![g] = TRUE]
  /\ below' = [below EXCEPT ![g] = IF seeded[g] THEN @ ELSE NumRacks]
  /\ UNCHANGED <<rest, merge, zero, art, trans, count, task, mishaps>>

SeedZero ==
  /\ 0 \in wanted
  /\ wanted' = wanted \ {0}
  /\ zero' = TRUE
  /\ UNCHANGED <<rest, merge, art, trans, seeded, count, below, task, mishaps>>

-----------------------------------------------------------------------------
(* Results                                                                 *)

taskRest == <<status, zero, art, trans, seeded, count, below, cursor,
              claim, merge, run, wanted>>

(* stage_fold: a result is staged for its generation, or, when that has    *)
(* closed, discarded (its worker is credited all the same).  The games of  *)
(* a task draw its forced racks, and whatever others.                      *)
Submit(t, found) ==
  /\ task[t].state = "claimed" /\ task[t].forced \subseteq found
  /\ task' = [task EXCEPT ![t] =
                IF art[task[t].gen] # NoKlv THEN Spare
                ELSE [@ EXCEPT !.state = "staged", !.found = found]]
  /\ UNCHANGED <<taskRest, mishaps>>

(* The claim lapses, or is declined.                                       *)
Lose(t) ==
  /\ task[t].state = "claimed" /\ Mishap
  /\ task' = [task EXCEPT ![t].state = "available"]
  /\ UNCHANGED taskRest

-----------------------------------------------------------------------------
(* Merges                                                                  *)

Occurrences(r, ids) == Cardinality({t \in ids : r \in task[t].found})

MergeLockFree == merge.by = NoOne

MergeTake(who, g) ==
  /\ MergeLockFree
  /\ merge' = [by |-> who, gen |-> g, ids |-> Of(g, "staged"), pass |-> 0]

(* merge_all_staged's sweep, and the merges claims ask for, which give up  *)
(* when another is running.                                                *)
MergeStart(g) ==
  /\ Of(g, "staged") # {}
  /\ MergeTake(Sweeper, g)
  /\ UNCHANGED <<rest, zero, art, trans, seeded, count, below, task, wanted, mishaps>>

MorePasses == merge.pass < Passes

(* One slice of the racks folded, in the merge's own transaction. *)
MergePass ==
  /\ ~MergeLockFree /\ MorePasses
  /\ merge' = [merge EXCEPT !.pass = @ + 1]
  /\ UNCHANGED <<rest, zero, art, trans, seeded, count, below, task, wanted, mishaps>>

Folded(r) == r % Passes < merge.pass

(* A slip: whatever is staged by now is deleted. *)
Deleted_All == Of(merge.gen, "staged")

Deleted == merge.ids  \* and nothing staged since they were read

(* What was read is added to its racks and deleted, and the summary of the *)
(* generation computed again.                                              *)
MergeCommit ==
  LET g == merge.gen
      added == [r \in Rack |->
                  IF seeded[g] /\ Folded(r) THEN Occurrences(r, merge.ids) ELSE 0]
      counts == [r \in Rack |-> count[g][r] + added[r]]
  IN /\ ~MergeLockFree /\ merge.pass = Passes
     /\ count' = [count EXCEPT ![g] = counts]
     /\ task' = [t \in Task |-> IF t \in Deleted THEN Spare ELSE task[t]]
     /\ below' = [below EXCEPT ![g] =
                    IF merge.ids = {} THEN @
                    ELSE Cardinality({r \in Rows(g) : counts[r] < Target})]
     /\ run' = [x \in Runner |->
                  IF x = merge.by THEN [run[x] EXCEPT !.at = "read"] ELSE run[x]]
     /\ merge' = Free
     /\ UNCHANGED <<status, cursor, claim, zero, art, trans, seeded, wanted, mishaps>>

-----------------------------------------------------------------------------
(* A transition: run_transition on its own task, and what a failure leaves *)

runRest == <<status, zero, seeded, count, below, task, claim, wanted>>

RunDrain(x) ==
  /\ run[x].at = "drain"
  /\ MergeTake(x, run[x].gen)
  /\ run' = [run EXCEPT ![x].at = "merging"]
  /\ UNCHANGED <<runRest, art, trans, cursor, mishaps>>

(* generation_klv: the rows as one statement reads them, refused when the  *)
(* universe is not whole; built and uploaded under the generation's key.   *)
RunRead(x) ==
  /\ run[x].at = "read" /\ Rows(run[x].gen) = Rack
  /\ run' = [run EXCEPT ![x].at = "close", ![x].klv = count[run[x].gen]]
  /\ UNCHANGED <<runRest, art, trans, cursor, merge, mishaps>>

(* close_generation: conditional on a row that has not completed, which is *)
(* all that tells this transition that the job is the one it started on.   *)
RunClose(x) ==
  LET g == run[x].gen
  IN /\ run[x].at = "close" /\ MergeLockFree
     /\ run' = [run EXCEPT ![x] = Resting]
     /\ IF trans[g] \in {"open", "stale"}
          THEN /\ trans' = [trans EXCEPT ![g] = "closed"]
               /\ art' = [art EXCEPT ![g] = IF @ = NoKlv THEN run[x].klv ELSE @]
               /\ cursor' = [cursor EXCEPT ![g] = NoLap]
               /\ status' = IF g >= Generations /\ status = "active"
                              THEN "completed" ELSE status
          ELSE UNCHANGED <<trans, art, cursor, status>>
     /\ UNCHANGED <<zero, seeded, count, below, task, claim, merge, wanted, mishaps>>

(* A failure hands the transition back to the next claim, whoever has it.  *)
Backdated(g) == IF trans[g] = "open" THEN [trans EXCEPT ![g] = "stale"] ELSE trans

RunFailed(x) ==
  /\ run' = [run EXCEPT ![x] = Resting]
  /\ merge' = IF merge.by = x THEN Free ELSE merge
  /\ trans' = Backdated(run[x].gen)
  /\ UNCHANGED <<runRest, art, cursor>>

RunRefused(x) ==
  /\ run[x].at = "read" /\ Rows(run[x].gen) # Rack
  /\ RunFailed(x) /\ UNCHANGED mishaps

RunFail(x) == run[x].at # "idle" /\ Mishap /\ RunFailed(x)

-----------------------------------------------------------------------------
(* The admin, and the process                                              *)

Activate ==
  /\ status = "inactive"
  /\ wanted \subseteq {0}   \* a spawned seeding has found the pool's connection by then
  /\ status' = "active"
  /\ wanted' = IF zero THEN wanted ELSE wanted \cup {0}
  /\ UNCHANGED <<zero, art, trans, seeded, count, below, cursor, task, claim,
                 merge, run, mishaps>>

Deactivate ==
  /\ status = "active" /\ Mishap
  /\ status' = "inactive"
  /\ UNCHANGED <<zero, art, trans, seeded, count, below, cursor, task, claim,
                 merge, run, wanted>>

(* purge_body, under the merge lock and the dispatch lock: every row of    *)
(* the job goes, a transition that is running and what was spawned do not. *)
Purge ==
  /\ MergeLockFree /\ claim.at = "idle" /\ Mishap
  /\ status' = "inactive" /\ zero' = FALSE
  /\ art' = [g \in Generation |-> NoKlv]
  /\ trans' = [g \in Generation |-> "none"]
  /\ seeded' = [g \in Generation |-> FALSE]
  /\ count' = NoCounts
  /\ below' = [g \in Generation |-> 0]
  /\ cursor' = [g \in Generation |-> NoLap]
  /\ task' = [t \in Task |-> Spare]
  /\ wanted' = wanted \cup {0}
  /\ UNCHANGED <<claim, merge, run>>

(* release_orphaned_transitions is the start-up's part of this. *)
Restart ==
  /\ Mishap
  /\ claim' = Idle /\ merge' = Free /\ wanted' = {}
  /\ run' = [x \in Runner |-> Resting]
  /\ trans' = [g \in Generation |-> IF trans[g] = "open" THEN "stale" ELSE trans[g]]
  /\ UNCHANGED <<status, zero, art, seeded, count, below, cursor, task>>

-----------------------------------------------------------------------------
Claim ==
  \/ ClaimTransitionRuns \/ ClaimStep \/ ClaimInFlight \/ ClaimStaged
  \/ ClaimBoundary \/ ClaimTail \/ ClaimTailDone
  \/ ClaimNext
  \/ \E g \in 0..Generations : ClaimNeeds(g)
  \/ \E t \in Task : ClaimReissue(t)

Transition(x) ==
  RunDrain(x) \/ RunRead(x) \/ RunClose(x) \/ RunRefused(x)

Answer(t) == \E found \in SUBSET Rack : Submit(t, found)

Next ==
  \/ ClaimStart \/ Claim
  \/ SeedZero \/ \E g \in Generation : Seed(g)
  \/ \E t \in Task : Answer(t) \/ Lose(t)
  \/ (\E g \in Generation : MergeStart(g)) \/ MergePass \/ MergeCommit
  \/ \E x \in Runner : Transition(x) \/ RunFail(x)
  \/ Activate \/ Deactivate \/ Purge \/ Restart

Spec == Init /\ [][Next]_vars

(* Workers keep asking and answer what they were given in the end, lapses  *)
(* being finitely many; the sweep merges whatever is staged; spawned work  *)
(* runs.  A seeding tries for the dispatch lock each time a claim asks for *)
(* it, and cannot for ever find a claim holding it.                        *)
Fairness ==
  /\ WF_vars(ClaimStart) /\ WF_vars(Claim)
  /\ WF_vars(\E t \in Task : Answer(t))
  /\ WF_vars(\E g \in Generation : MergeStart(g)) /\ WF_vars(MergePass \/ MergeCommit)
  /\ SF_vars(\E x \in Runner : Transition(x))
  /\ WF_vars(SeedZero) /\ SF_vars(\E g \in Generation : Seed(g))

LiveSpec == Spec /\ Fairness

-----------------------------------------------------------------------------
(* The results the generations hold, wherever they are kept: merged, or    *)
(* staged for a merge.                                                     *)
Totals ==
  [g \in Generation |-> [r \in Rack |-> count[g][r] + Occurrences(r, Of(g, "staged"))]]

Ledger == INSTANCE LeaveTotals WITH
  total <- Totals, closed <- Cardinality(Closed)

(* Every accepted result is in its generation's totals once, through any   *)
(* merge, failure or takeover, and a generation closes only once those     *)
(* totals are complete.                                                    *)
ImplementsLeaveTotals == Ledger!Spec

(* A generation closes with none of its tasks out and none of its results  *)
(* staged: "what this merge leaves behind is nothing" (run_transition).    *)
ClosesQuietly ==
  [][\A g \in Generation : art[g] = NoKlv /\ art'[g] # NoKlv =>
       Of(g, "claimed") \cup Of(g, "staged") = {}]_vars

(* "The generation is complete.  Whoever writes this row owns its          *)
(* transition" (claim_transition): a transition starts on a universe that  *)
(* is written, with every rack of it at target.                            *)
TransitionOfComplete ==
  [][\A g \in Generation : trans[g] # "open" /\ trans'[g] = "open" =>
       seeded[g] /\ BelowTarget(g) = {}]_vars

(* While workers keep asking, an active job builds its last generation: no *)
(* order of merges, failed transitions, takeovers and restarts leaves it   *)
(* with nothing to hand out for ever.                                      *)
GenerationsEnd == (status = "active") ~> (status # "active")
=============================================================================
