---------------------------- MODULE RatingSweep ----------------------------
(***************************************************************************)
(* The ratings of one pool: a sweep that refits it when its evidence has   *)
(* changed, the refits admins ask for, and what changes under them: the    *)
(* results of the jobs between its members, purges, its members and its    *)
(* anchor.  A fit reads statement by statement, under the pool's lock.     *)
(*                                                                         *)
(* The code compares amounts of evidence: pairs played, a pair being the   *)
(* games a result adds to its job.  Which pairs they are is kept beside    *)
(* the amounts, as how many of which era of a job: a purge begins a new    *)
(* one.  What a fit makes of them is a pure function of what it read.  Of  *)
(* the runs only the newest, which the page shows and the next fit         *)
(* compares with, is kept.                                                 *)
(***************************************************************************)
EXTENDS Integers, Functions

CONSTANTS
  Config,    \* player configs
  Job,       \* game pair jobs of the pool's variant, letters and board
  Players,   \* Players[j]: the one or two configs job j plays
  MaxPairs,  \* bound: pairs of one job
  MaxMishaps \* bound: fits that fail, purges, pools deleted, changes of anchor

VARIABLES
  played,  \* played[j]: games_completed of the job, in pairs
  era,     \* era[j]: how often its results have been purged
  pool,    \* there is a pool
  members, \* rating_pool_members
  anchor,  \* rating_pools.anchor_player_config_id
  newest,  \* its newest run: pairs_used, its rows, evidence_games, members, anchor
  lock,    \* who holds the pool's fit lock
  fit,     \* the fit under way: what it has read
  target,  \* the config a removal, or the job a purge, is about
  mishaps

vars == <<played, era, pool, members, anchor, newest, lock, fit, target, mishaps>>

Null   == -1   \* evidence_games IS NULL
NoRows == [j \in Job |-> [era |-> 0, pairs |-> 0]]
NoRun  == [pairs |-> Null, rows |-> NoRows, sum |-> Null, members |-> {}, anchor |-> {}]
NoFit  == [by |-> "none", at |-> "none", sum |-> 0, members |-> {}, pairs |-> 0, rows |-> NoRows,
           anchor |-> {}]

Init ==
  /\ played = [j \in Job |-> 0] /\ era = [j \in Job |-> 0]
  /\ pool = TRUE
  /\ anchor \in Config /\ members = {anchor}
  /\ newest = NoRun /\ fit = NoFit
  /\ lock = "none" /\ target = {} /\ mishaps = 0

Mishap == mishaps < MaxMishaps /\ mishaps' = mishaps + 1

(***************************************************************************)
(* The fit lock                                                            *)
(***************************************************************************)
(* lock_pool_fit.  The slip kept for comparison checks a removal without.  *)
Takes_NotRemoval(who) == lock = "none" /\ lock' = IF who = "removal" THEN "none" ELSE who

Takes(who) == lock = "none" /\ lock' = who

Frees == lock' = "none"

(***************************************************************************)
(* Evidence                                                                *)
(***************************************************************************)
(* The sum of the cheap question counts every job between members.  The    *)
(* matrix leaves out a job of one config against itself, and rows of a     *)
(* member it had not read.                                                 *)
Of(ms)          == {j \in Job : Players[j] \subseteq ms}
Sum(ms)         == SumFunctionOnSet(played, Of(ms))
Counted(ms, is) == {j \in Of(ms) : Players[j] \subseteq is /\ \A c \in Config : Players[j] # {c}}
Pairs(ms, is)   == SumFunctionOnSet(played, Counted(ms, is))
Rows(ms, is)    == [j \in Job |-> IF j \in Counted(ms, is)
                                 THEN [era |-> era[j], pairs |-> played[j]]
                                 ELSE [era |-> 0, pairs |-> 0]]

Purging(j) == lock = "purge" /\ target = {j}

Result(j) ==
  /\ played[j] < MaxPairs /\ ~Purging(j)
  /\ played' = [played EXCEPT ![j] = @ + 1]
  /\ UNCHANGED <<era, pool, members, anchor, newest, lock, fit, target, mishaps>>

(* A purge or a delete: the results go, and the newest run is marked.      *)
Purge(j) ==
  /\ Mishap /\ Takes("purge")
  /\ target' = {j}
  /\ UNCHANGED <<played, era, pool, members, anchor, newest, fit>>

Marked(run) == [run EXCEPT !.sum = Null]

PurgeEnds(committed) ==
  /\ lock = "purge" /\ Frees
  /\ IF committed
     THEN /\ played' = [j \in Job |-> IF {j} = target THEN 0 ELSE played[j]]
          /\ era' = [j \in Job |-> IF {j} = target THEN era[j] + 1 ELSE era[j]]
          /\ newest' = Marked(newest)
     ELSE UNCHANGED <<played, era, newest>>
  /\ target' = {}
  /\ UNCHANGED <<pool, members, anchor, fit, mishaps>>

(***************************************************************************)
(* A fit: the sweep's, an admin's, or that of a change of anchor, which is *)
(* a step of the change's own transaction                                  *)
(***************************************************************************)
Fitting(at) == lock = "fit" /\ fit.at = at

(* The members a fit's transaction sees: with the anchor it is to set.     *)
Seen == members \cup fit.anchor

Begin(by, a) ==
  /\ Takes("fit")
  /\ fit' = [NoFit EXCEPT !.by = by, !.at = "sum", !.anchor = {a}]
  /\ UNCHANGED <<played, era, pool, members, anchor, newest, target>>

SweepBegins     == pool /\ Begin("sweep", anchor) /\ UNCHANGED mishaps
RecomputeBegins == pool /\ Begin("admin", anchor) /\ UNCHANGED mishaps

(* The change commits with its refit.  The slip kept for comparison leaves *)
(* that to a request after it.                                             *)
UpdatePool_FitsLater(a) ==
  /\ pool /\ a # anchor /\ lock = "none" /\ Mishap
  /\ anchor' = a /\ members' = members \cup {a}
  /\ UNCHANGED <<played, era, pool, newest, lock, fit, target>>

UpdatePool(a) == pool /\ a # anchor /\ Mishap /\ Begin("anchor", a)

ReadSum ==
  /\ Fitting("sum")
  /\ fit' = [fit EXCEPT !.at = "check", !.sum = Sum(Seen)]
  /\ UNCHANGED <<played, era, pool, members, anchor, newest, lock, target, mishaps>>

(* The sweep stops here when neither the sum nor the members have moved.   *)
Unmoved == fit.by = "sweep" /\ newest.sum = fit.sum /\ newest.members = members

Check ==
  /\ Fitting("check")
  /\ IF Unmoved
     THEN Frees /\ fit' = NoFit
     ELSE fit' = [fit EXCEPT !.at = "members"] /\ UNCHANGED lock
  /\ UNCHANGED <<played, era, pool, members, anchor, newest, target, mishaps>>

ReadMembers ==
  /\ Fitting("members")
  /\ fit' = [fit EXCEPT !.at = "rows", !.members = Seen]
  /\ UNCHANGED <<played, era, pool, members, anchor, newest, lock, target, mishaps>>

ReadRows ==
  /\ Fitting("rows")
  /\ fit' = [fit EXCEPT !.at = "store", !.pairs = Pairs(Seen, fit.members),
                         !.rows = Rows(Seen, fit.members)]
  /\ UNCHANGED <<played, era, pool, members, anchor, newest, lock, target, mishaps>>

(* The sum is the one read before the matrix: a result in between makes it *)
(* short of the fit, and the next sweep looks again.  The slip kept for    *)
(* comparison reads it when the run is stored.                             *)
Recorded_AtStore(f) == IF f.by = "none" THEN f.sum ELSE Sum(f.members)

Recorded(f) == f.sum

(* The sweep that finds as much evidence records the sum alone: the run    *)
(* stays the one there is, whichever pairs it was fitted to.               *)
SameEvidence == fit.by = "sweep" /\ newest.pairs = fit.pairs /\ newest.members = fit.members

Run == [pairs |-> fit.pairs, rows |-> fit.rows, sum |-> Recorded(fit),
        members |-> fit.members, anchor |-> fit.anchor]

Store ==
  /\ Fitting("store") /\ Frees
  /\ newest' = IF SameEvidence THEN [newest EXCEPT !.sum = Recorded(fit)] ELSE Run
  /\ anchor' = CHOOSE a \in fit.anchor : TRUE
  /\ members' = members \cup fit.anchor
  /\ fit' = NoFit
  /\ UNCHANGED <<played, era, pool, target, mishaps>>

(* Its request is dropped, the database fails, the fit panics.             *)
FitFails ==
  /\ lock = "fit" /\ Mishap /\ Frees
  /\ fit' = NoFit
  /\ UNCHANGED <<played, era, pool, members, anchor, newest, target>>

(***************************************************************************)
(* The pool and its members.  The refit an addition or a removal asks for  *)
(* may never run, its request gone: RecomputeBegins is any of them.        *)
(***************************************************************************)
(* Without the fit lock, but under the pool's row, which a change of       *)
(* anchor holds.                                                           *)
AddMember(c) ==
  /\ pool /\ c \notin members /\ fit.by # "anchor"
  /\ members' = members \cup {c}
  /\ UNCHANGED <<played, era, pool, anchor, newest, lock, fit, target, mishaps>>

RemoveChecks(c) ==
  /\ pool /\ c \in members /\ c # anchor /\ target = {}
  /\ Takes("removal")
  /\ target' = {c}
  /\ UNCHANGED <<played, era, pool, members, anchor, newest, fit, mishaps>>

Removes ==
  /\ target # {} /\ target \subseteq Config
  /\ members' = members \ target
  /\ target' = {}
  /\ lock' = IF lock = "removal" THEN "none" ELSE lock
  /\ UNCHANGED <<played, era, pool, anchor, newest, fit, mishaps>>

(* Under the fit lock: a fit in flight is waited for.                      *)
DeletePool ==
  /\ pool /\ lock = "none" /\ target = {} /\ Mishap
  /\ pool' = FALSE /\ members' = {} /\ newest' = NoRun
  /\ UNCHANGED <<played, era, anchor, lock, fit, target>>

CreatePool(a) ==
  /\ ~pool /\ lock = "none"
  /\ pool' = TRUE /\ members' = {a} /\ anchor' = a
  /\ UNCHANGED <<played, era, newest, lock, fit, target, mishaps>>

Next ==
  \/ \E j \in Job : Result(j) \/ Purge(j)
  \/ \E committed \in BOOLEAN : PurgeEnds(committed)
  \/ SweepBegins \/ RecomputeBegins
  \/ ReadSum \/ Check \/ ReadMembers \/ ReadRows \/ Store \/ FitFails
  \/ \E c \in Config : UpdatePool(c) \/ AddMember(c) \/ RemoveChecks(c) \/ CreatePool(c)
  \/ Removes \/ DeletePool

Spec == Init /\ [][Next]_vars

(***************************************************************************)
(* Properties                                                              *)
(***************************************************************************)
(* The sweep would leave the pool alone.                                   *)
Quiet == newest.sum = Sum(members) /\ newest.members = members

(* Every pair the newest run was fitted to is still there.                 *)
Stands == \A j \in Job : newest.rows[j].pairs > 0 => newest.rows[j].era = era[j]

(* A pool the sweep would leave alone shows ratings fitted to as many      *)
(* pairs as its jobs have, whatever landed while they were being fitted    *)
(* and whatever was purged since; and, unless some that they were fitted   *)
(* to are gone, to those very pairs, all of every job.                     *)
QuietIsCurrent ==
  Quiet =>
    /\ newest.pairs = Pairs(members, members)
    /\ Stands => \A j \in Counted(members, members) : newest.rows[j].pairs = played[j]

(* No pair that is gone stays in the ratings of a pool the sweep would     *)
(* leave alone, which is what the mark of a purge is for.  It can: a pair  *)
(* of another job, or of the same one played again, makes up for it.       *)
PurgedIsGone == Quiet => Stands

(* The pool's anchor is a member of it, or no fit is possible: although a  *)
(* removal looks first and deletes afterwards, and an admin may meanwhile  *)
(* make the config the anchor.  And the newest run is measured against it, *)
(* not against the one before, which the sweep could not tell.             *)
AnchorHolds ==
  /\ pool => anchor \in members
  /\ newest # NoRun => newest.anchor = {anchor}
=============================================================================
