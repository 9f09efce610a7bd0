---------------------------- MODULE OpeningRacks ----------------------------
(***************************************************************************)
(* One opening-rack job: its first pass over the rack space, slice by      *)
(* slice, the reissues of racks its workers do not agree on, the standing  *)
(* of each rack and the job's totals of them, the consensus settings an    *)
(* admin edits under all of that, and the finish check.                    *)
(*                                                                         *)
(* A claim holds the job's dispatch lock, and so does an edit; but         *)
(* submissions, declines and finish checks do not take it, and commit      *)
(* between any two statements of a claim.  An analysis is the move it      *)
(* ranks first, and a move is when it first came up for its rack.          *)
(***************************************************************************)
EXTENDS Integers, Sequences, FiniteSets, Functions

CONSTANTS
  NumRacks,     \* job_opening_rack_config: total_racks; the racks are 1..NumRacks
  RacksPerTask, \* job_opening_rack_config: racks_per_batch
  Window,       \* batches of candidates whose analysts a reissue looks at
  Setting,      \* the consensus settings an admin may choose
  Identity,     \* workers' identities
  Task,         \* tasks not completed at once, as many as the bound allows
  NoRow,        \* a rack with no row in opening_rack_progress
  None,         \* no settings, no identity
  Analyses,     \* bound: moves ranked first for one rack
  MaxEdits,     \* bound: edits of the settings
  MaxMishaps    \* bound: declines, lapses, stops and restarts

Rack == 1..NumRacks

ASSUME SizesAssumption ==
  /\ NumRacks \in Nat \ {0} /\ RacksPerTask \in Nat \ {0} /\ Window \in Nat \ {0}
  /\ Analyses \in Nat \ {0} /\ MaxEdits \in Nat /\ MaxMishaps \in Nat
ASSUME SettingsAssumption ==    \* consensus_problems
  \A s \in Setting : /\ s.min \in Nat \ {0} /\ s.max \in Nat /\ s.min <= s.max
                     /\ s.pct \in 51..100
ASSUME RowAssumption ==
  NoRow \notin [results : Int, top : Int, settled : BOOLEAN, without : BOOLEAN]

VARIABLES
  status,    \* jobs.status: "active", "inactive" or "completed"
  settings,  \* job_opening_rack_config: the consensus settings
  covered,   \* racks of the first pass dispatched: MAX(seed) and its batch
  task,      \* task[t]: a task not completed, its racks, and who declined it
  sub,       \* sub[t]: what a submission that holds its claim's lock read
  firsts,    \* firsts[r][m]: analyses of rack r that rank its m-th move first
  seen,      \* seen[r]: identities with an analysis of rack r
  row,       \* row[r]: its row in opening_rack_progress
  totals,    \* jobs: racks_analyzed, racks_settled, racks_without_consensus
  claim,     \* the claim request that holds the dispatch lock
  edit,      \* the consensus edit under way: the settings it brings
  asked,     \* a finish check is due
  check,     \* it has found the job finished, and has yet to write it
  edits, mishaps

vars == <<status, settings, covered, task, sub, firsts, seen, row, totals,
          claim, edit, asked, check, edits, mishaps>>

Spare  == [state |-> "spare", racks |-> {}, by |-> None, declined |-> {}]
Idle   == [at |-> "idle", by |-> None, out |-> {}]
NoEdit == [at |-> "idle", new |-> None]

Init ==
  /\ status = "inactive" /\ settings \in Setting /\ covered = 0
  /\ task = [t \in Task |-> Spare]
  /\ sub = [t \in Task |-> None]
  /\ firsts = [r \in Rack |-> << >>]
  /\ seen = [r \in Rack |-> {}]
  /\ row = [r \in Rack |-> NoRow]
  /\ totals = [analysed |-> 0, settled |-> 0, without |-> 0]
  /\ claim = Idle /\ edit = NoEdit
  /\ asked = FALSE /\ check = FALSE /\ edits = 0 /\ mishaps = 0

-----------------------------------------------------------------------------
(* Where a rack stands                                                     *)

Agreed(s, results, top) == results >= s.min /\ top * 100 >= s.pct * results

(* A rack is settled without a consensus at its most analyses. *)
RowOf(s, results, top) ==
  [results |-> results, top |-> top,
   settled |-> Agreed(s, results, top) \/ results >= s.max,
   without |-> results >= s.max /\ ~Agreed(s, results, top)]

Results(f)  == FoldFunction(+, 0, f)
TopCount(f) == CHOOSE n \in Range(f) : \A m \in DOMAIN f : f[m] <= n

(* standing: a rack's row from its analyses. *)
Standing(s, f) == RowOf(s, Results(f), TopCount(f))

Analysed  == {r \in Rack : row[r] # NoRow}
Settled   == {r \in Analysed : row[r].settled}
Without   == {r \in Analysed : row[r].without}
Unsettled == Analysed \ Settled

Size(S) == Cardinality(S)

-----------------------------------------------------------------------------
(* Claims: acquire, generate_opening_rack, next_request, next_reissue      *)

In(state) == {t \in Task : task[t].state = state}

Rest == <<settings, sub, firsts, seen, row, totals, edit, check, edits>>

NoHold == edit.at = "idle"

(* A task this identity declined within the hour goes to another. *)
ClaimAvailable(w, t) ==
  /\ status = "active" /\ claim.at = "idle" /\ NoHold
  /\ t \in In("available") /\ w \notin task[t].declined
  /\ task' = [task EXCEPT ![t].state = "claimed", ![t].by = w]
  /\ UNCHANGED <<status, covered, claim, asked, mishaps, Rest>>

ClaimStart(w) ==
  /\ status = "active" /\ claim.at = "idle" /\ NoHold
  /\ \A t \in In("available") : w \in task[t].declined
  /\ In("spare") # {}    \* bound
  /\ claim' = [at |-> "next", by |-> w, out |-> {}]
  /\ UNCHANGED <<status, covered, task, asked, mishaps, Rest>>

(* insert_on_demand_task and insert_request: a task of these racks. *)
Dispatch(racks) ==
  /\ task' = [task EXCEPT ![CHOOSE t \in Task : task[t] = Spare] =
                [state |-> "claimed", racks |-> racks, by |-> claim.by, declined |-> {}]]
  /\ claim' = Idle

(* Nothing for this claim: the job is due an idle finish check. *)
NoWork ==
  /\ claim' = Idle /\ asked' = TRUE
  /\ UNCHANGED <<status, covered, task, mishaps, Rest>>

NextSlice ==
  {r \in Rack : covered < r /\ r <= covered + RacksPerTask}

ClaimSlice ==
  /\ claim.at = "next" /\ covered < NumRacks
  /\ Dispatch(NextSlice)
  /\ covered' = covered + Size(NextSlice)
  /\ UNCHANGED <<status, asked, mishaps, Rest>>

Reissues == settings.max > 1

(* A slip: only claimed tasks are in flight, not those declined. *)
InFlight_ClaimedOnly == Analysed \cap UNION {task[t].racks : t \in In("claimed")}

(* The racks of every reissue not completed: waiting to go out again, or   *)
(* claimed.  A first-pass task lists none: its racks have no row while it  *)
(* is out, and may have one by the time the claim picks.                   *)
InFlight == Analysed \cap UNION {task[t].racks : t \in In("available") \cup In("claimed")}

ClaimInFlight ==
  /\ claim.at = "next" /\ covered >= NumRacks
  /\ \/ Reissues
        /\ claim' = [claim EXCEPT !.at = "pick", !.out = InFlight]
        /\ UNCHANGED <<status, covered, task, asked, mishaps, Rest>>
     \/ ~Reissues /\ NoWork

(* The first n of S: fewest analyses first, then in order. *)
Before(q, r)    == \/ row[q].results < row[r].results
                   \/ row[q].results = row[r].results /\ q < r
FirstOf(S, n)   == {r \in S : Size({q \in S : Before(q, r)}) < n}

(* A slip: racks this identity analysed are never reissued to it. *)
Picked_UnseenOnly ==
  FirstOf({r \in FirstOf(Unsettled \ claim.out, RacksPerTask * Window) :
             claim.by \notin seen[r]}, RacksPerTask)

(* The window's racks this identity has not analysed, filled up with ones  *)
(* it has.                                                                 *)
Picked ==
  LET window == FirstOf(Unsettled \ claim.out, RacksPerTask * Window)
      unseen == FirstOf({r \in window : claim.by \notin seen[r]}, RacksPerTask)
  IN  unseen \cup FirstOf(window \ unseen, RacksPerTask - Size(unseen))

ClaimReissue ==
  /\ claim.at = "pick"
  /\ \/ Picked = {} /\ NoWork
     \/ Picked # {} /\ Dispatch(Picked)
        /\ UNCHANGED <<status, covered, asked, mishaps, Rest>>

-----------------------------------------------------------------------------
(* Results                                                                 *)

Mishap == mishaps < MaxMishaps /\ mishaps' = mishaps + 1

(* A submission locks its claim, then reads the settings; while an edit's  *)
(* hold is on it is refused, and retried.                                  *)
SubmitStart(t) ==
  /\ task[t].state = "claimed" /\ sub[t] = None /\ NoHold
  /\ sub' = [sub EXCEPT ![t] = settings]
  /\ UNCHANGED <<status, settings, covered, task, firsts, seen, row, totals,
                 claim, edit, asked, check, edits, mishaps>>

(* One more analysis that ranks the m-th move first, or a new one. *)
OneMore(f, m) == IF m > Len(f) THEN Append(f, 1) ELSE [f EXCEPT ![m] = @ + 1]

WasSettled(racks) == racks \cap Settled

(* store_result and record_consensus: the analyses of every rack of the    *)
(* task are stored, its standing recomputed, and the change added to the   *)
(* totals.  The last task out has its submission check the job.            *)
SubmitCommit(t) ==
  \E best \in [task[t].racks -> 1..Analyses] :
    LET racks  == task[t].racks
        found  == [r \in Rack |-> IF r \in racks THEN OneMore(firsts[r], best[r])
                                                ELSE firsts[r]]
        now    == [r \in racks |-> Standing(sub[t], found[r])]
    IN /\ sub[t] # None
       /\ \A r \in racks : best[r] <= Len(firsts[r]) + 1
       /\ firsts' = found
       /\ seen' = [r \in Rack |-> IF r \in racks THEN seen[r] \cup {task[t].by} ELSE seen[r]]
       /\ row' = [r \in Rack |-> IF r \in racks THEN now[r] ELSE row[r]]
       /\ totals' =
            [analysed |-> totals.analysed + Size(racks \ Analysed),
             settled  |-> totals.settled + Size({r \in racks : now[r].settled})
                                         - Size(WasSettled(racks)),
             without  |-> totals.without + Size({r \in racks : now[r].without})
                                         - Size(racks \cap Without)]
       /\ task' = [task EXCEPT ![t] = Spare]
       /\ sub' = [sub EXCEPT ![t] = None]
       /\ asked' = (asked \/ (status = "active" /\ In("claimed") = {t}))
       /\ UNCHANGED <<status, settings, covered, claim, edit, check, edits, mishaps>>

(* A claim lapses, or its worker declines the task and is not offered it   *)
(* again for an hour.  Neither is done to a claim that is locked.          *)
GiveBack(t, declined) ==
  /\ task[t].state = "claimed" /\ sub[t] = None /\ NoHold /\ Mishap
  /\ task' = [task EXCEPT ![t].state = "available", ![t].by = None,
                          ![t].declined = @ \cup declined]
  /\ UNCHANGED <<status, covered, claim, asked, Rest>>

HourPasses(t) ==
  /\ task[t].declined # {}
  /\ task' = [task EXCEPT ![t].declined = {}]
  /\ UNCHANGED <<status, covered, claim, asked, mishaps, Rest>>

-----------------------------------------------------------------------------
(* Consensus edits                                                         *)

(* Checked first, with nothing held: an unchanged request is answered.     *)
EditHold(new) ==
  /\ NoHold /\ edits < MaxEdits /\ new # settings
  /\ edit' = [at |-> "held", new |-> new]
  /\ edits' = edits + 1
  /\ UNCHANGED <<status, settings, covered, task, sub, firsts, seen, row, totals,
                 claim, asked, check, mishaps>>

(* A slip: the open claims are not locked, so submissions go on. *)
ClaimsLocked_Unasked == TRUE

(* lock_open_claims: a submission that holds its claim is waited for. *)
ClaimsLocked == \A t \in Task : sub[t] = None

(* The dispatch lock, which a claim holds to its end, then every claim. *)
EditLock ==
  /\ edit.at = "held" /\ claim.at = "idle" /\ ClaimsLocked
  /\ edit' = [edit EXCEPT !.at = "locked"]
  /\ UNCHANGED <<status, settings, covered, task, sub, firsts, seen, row, totals,
                 claim, asked, check, edits, mishaps>>

(* restate_racks: every rack's row under the new settings. *)
Restated(new) ==
  [r \in Rack |-> IF row[r] = NoRow THEN NoRow ELSE RowOf(new, row[r].results, row[r].top)]

(* A completed job left with unsettled racks is reopened, inactive; an     *)
(* active one left with none is checked at once.                           *)
EditCommit ==
  LET new       == Restated(edit.new)
      settled   == {r \in Analysed : new[r].settled}
      unsettled == Analysed \ settled
  IN /\ edit.at = "locked"
     /\ settings' = edit.new /\ row' = new
     /\ totals' = [totals EXCEPT !.settled = Size(settled),
                                 !.without = Size({r \in Analysed : new[r].without})]
     /\ status' = IF status = "completed" /\ unsettled # {} THEN "inactive" ELSE status
     /\ asked' = (asked \/ (status = "active" /\ unsettled = {}))
     /\ edit' = NoEdit
     /\ UNCHANGED <<covered, task, sub, firsts, seen, claim, check, edits, mishaps>>

-----------------------------------------------------------------------------
(* Finish checks                                                           *)

(* OPENING_RACK_FINISHED: every rack settled, some task made, none out. *)
FinishConditionMet ==
  /\ totals.settled >= NumRacks /\ covered > 0
  /\ In("available") \cup In("claimed") = {}

CheckRest == <<settings, covered, task, sub, firsts, seen, row, totals,
               claim, edit, edits, mishaps>>

CheckRead ==
  /\ asked /\ ~check
  /\ asked' = FALSE
  /\ check' = (status = "active" /\ FinishConditionMet)
  /\ UNCHANGED <<status, CheckRest>>

(* A slip: the racks are not looked at again with the job's row locked. *)
StillSettled_Unasked == TRUE

StillSettled == totals.settled >= NumRacks

(* complete_unless_purged: an edit since the read is looked for in the     *)
(* update's own predicate.                                                 *)
CheckComplete ==
  /\ check
  /\ check' = FALSE
  /\ status' = IF status = "active" /\ StillSettled THEN "completed" ELSE status
  /\ UNCHANGED <<asked, CheckRest>>

-----------------------------------------------------------------------------
(* The admin and the process                                               *)

Activate ==
  /\ status = "inactive" /\ NoHold
  /\ status' = "active"
  /\ UNCHANGED <<asked, check, CheckRest>>

(* set_allocations to 0, or complete_job. *)
Stop(to) ==
  /\ status = "active" /\ NoHold /\ Mishap
  /\ status' = to
  /\ UNCHANGED <<settings, covered, task, sub, firsts, seen, row, totals,
                 claim, edit, asked, check, edits>>

(* What was not committed is undone. *)
Restart ==
  /\ Mishap
  /\ sub' = [t \in Task |-> None]
  /\ claim' = Idle /\ edit' = NoEdit /\ asked' = FALSE /\ check' = FALSE
  /\ UNCHANGED <<status, settings, covered, task, firsts, seen, row, totals, edits>>

-----------------------------------------------------------------------------
ClaimOpens == \E w \in Identity : ClaimStart(w) \/ \E t \in Task : ClaimAvailable(w, t)
ClaimGoesOn == ClaimSlice \/ ClaimInFlight \/ ClaimReissue
Submission == \E t \in Task : SubmitStart(t) \/ SubmitCommit(t)
Lapse      == \E t \in Task : \E d \in {{}, {task[t].by}} : GiveBack(t, d)
EditGoesOn == EditLock \/ EditCommit

Next ==
  \/ ClaimOpens \/ ClaimGoesOn \/ Submission \/ Lapse
  \/ \E t \in Task : HourPasses(t)
  \/ \E new \in Setting : EditHold(new)
  \/ EditGoesOn
  \/ CheckRead \/ CheckComplete
  \/ Activate
  \/ \E to \in {"inactive", "completed"} : Stop(to)
  \/ Restart

Spec == Init /\ [][Next]_vars

(* Workers keep asking, answer what they are handed, and retry what was    *)
(* refused while an edit ran; requests that were started end; hours pass.  *)
(* Nobody need edit, and nothing need fail.                                *)
Fairness ==
  /\ SF_vars(ClaimOpens) /\ WF_vars(ClaimGoesOn)
  /\ SF_vars(Submission)
  /\ WF_vars(\E t \in Task : HourPasses(t))
  /\ WF_vars(EditGoesOn) /\ WF_vars(CheckRead) /\ WF_vars(CheckComplete)

LiveSpec == Spec /\ Fairness

-----------------------------------------------------------------------------
(* Every rack's row is its standing under the settings as they are, and    *)
(* the job's totals count those rows: no order of submissions and edits    *)
(* leaves a rack judged by settings that are gone (record_consensus).      *)
StandingInv ==
  /\ \A r \in Rack :
       row[r] = IF firsts[r] = << >> THEN NoRow ELSE Standing(settings, firsts[r])
  /\ totals = [analysed |-> Size(Analysed), settled |-> Size(Settled), without |-> Size(Without)]

(* "A rack is analysed by one task at a time" (record_consensus): through  *)
(* declines, lapses and the statements of a claim that others commit       *)
(* between.                                                                *)
OneTaskPerRack ==
  \A t, u \in Task : t # u => task[t].racks \cap task[u].racks = {}

(* The server completes the job only with every rack settled under the     *)
(* settings of that moment, whatever was edited since its check read them. *)
CompletesSettled ==
  [][check /\ status = "active" /\ status' = "completed" /\ ~check'
       => Settled = Rack]_vars

(* While workers keep asking, an active job gets to its end: racks that no *)
(* two analyses agree on settle at their most, and one identity alone can  *)
(* take every one of them there.                                           *)
RacksEnd == (status = "active") ~> (status # "active")
=============================================================================
