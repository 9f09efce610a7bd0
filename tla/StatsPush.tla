----------------------------- MODULE StatsPush -----------------------------
(***************************************************************************)
(* The statistics open pages show of one job: results and admins' changes  *)
(* ask for a push; one loop a job builds and publishes, cools down, and    *)
(* goes round again if it was asked meanwhile; a page subscribes and then  *)
(* reads a payload kept from an earlier build, or builds one.              *)
(*                                                                         *)
(* What the statistics are is told by a number that every change raises.   *)
(* A build is from when it started: it is superseded by a change that      *)
(* forgets what is kept, or by what is kept of a build that started later. *)
(* Builds of the same statistics are not told apart, although the code     *)
(* drops the earlier of two.                                               *)
(*                                                                         *)
(* JOB_STATS_CACHE_SECONDS is not 0: with 0, which the tests run with,     *)
(* nothing is kept, every page builds for itself, and no build counts as   *)
(* superseded.                                                             *)
(***************************************************************************)
EXTENDS Integers, FiniteSets

CONSTANTS
  Page,       \* pages that show the job
  MaxRounds,  \* builds a push may have superseded before it gives up: 3
  MaxChanges, \* bound: results and admins' changes
  MaxMishaps  \* bound: builds that fail, pages closed, a deletion

VARIABLES
  data,   \* the job's statistics
  gone,   \* the job is deleted
  owed,   \* an admin's change committed, and how far its push_after_change is
  cut,    \* the newest change that forgot what was kept
  kept,   \* PAYLOADS: what is kept for the job, and whether still young enough
  push,   \* SseBroadcaster.pushes: whether there is one, its pending mark and its wake-up
  loop,   \* the loop that owns the push
  view,   \* the build a page waits for, behind the job's build lock
  page,   \* page[p]: its subscription, what was pushed to it, what it shows
  due,    \* due[p]: the newest change a push was asked for while p was subscribed
  last,   \* the payload published last
  mishaps

vars == <<data, gone, owed, cut, kept, push, loop, view, page, due, last, mishaps>>

None    == 0   \* no payload: the job's statistics start at 1
NoPush  == [there |-> FALSE, pending |-> FALSE, urgent |-> FALSE]
NoBuild == [at |-> "idle", read |-> None, forgotten |-> FALSE]
NotKept == [payload |-> None, young |-> FALSE]
NotOwed == [change |-> None, forgot |-> FALSE]
Closed  == [at |-> "closed", pushed |-> None, shows |-> None]

Init ==
  /\ data = 1 /\ gone = FALSE /\ owed = NotOwed /\ cut = None
  /\ kept = NotKept
  /\ push = NoPush
  /\ loop = [build |-> NoBuild, round |-> 0, at |-> "none"]
  /\ view = NoBuild
  /\ page = [p \in Page |-> Closed]
  /\ due  = [p \in Page |-> None]
  /\ last = None /\ mishaps = 0

Mishap == mishaps < MaxMishaps /\ mishaps' = mishaps + 1

(***************************************************************************)
(* Asking for a push                                                       *)
(***************************************************************************)
Subscribed == {p \in Page : page[p].at # "closed"}

(* Skipped when nobody is watching.  The first ask owns the loop; another  *)
(* only marks it to go round again, and an urgent one wakes it.            *)
Ask(l, urgent, change) ==
  IF Subscribed = {} THEN loop' = l /\ UNCHANGED <<push, due>>
  ELSE /\ due' = [p \in Page |-> IF p \in Subscribed THEN change ELSE due[p]]
       /\ IF push.there
          THEN /\ push' = [push EXCEPT !.pending = TRUE, !.urgent = @ \/ urgent]
               /\ loop' = l
          ELSE /\ push' = [NoPush EXCEPT !.there = TRUE]
               /\ loop' = [l EXCEPT !.at = "round", !.round = 1]

(* A result lands; the submission asks after its commit.                   *)
Submission ==
  /\ ~gone /\ data < MaxChanges
  /\ data' = data + 1
  /\ Ask(loop, FALSE, data')
  /\ UNCHANGED <<gone, owed, cut, kept, view, page, last, mishaps>>

(* An admin's change, a completion, a generation closing: committed, then  *)
(* what is kept is forgotten and an urgent push is asked for.              *)
ChangeCommits ==
  /\ ~gone /\ data < MaxChanges /\ owed = NotOwed
  /\ data' = data + 1
  /\ owed' = [change |-> data', forgot |-> FALSE]
  /\ UNCHANGED <<gone, cut, kept, push, loop, view, page, due, last, mishaps>>

Forgotten(b) == [b EXCEPT !.forgotten = b.at = "building"]

Forgets ==
  /\ owed # NotOwed /\ ~owed.forgot
  /\ cut' = owed.change /\ owed' = [owed EXCEPT !.forgot = TRUE]
  /\ kept' = NotKept
  /\ view' = Forgotten(view)
  /\ loop' = [loop EXCEPT !.build = Forgotten(@)]
  /\ UNCHANGED <<data, gone, push, page, due, last, mishaps>>

PushAfterChange ==
  /\ owed.forgot
  /\ owed' = NotOwed
  /\ Ask(loop, TRUE, owed.change)
  /\ UNCHANGED <<data, gone, cut, kept, view, page, last, mishaps>>

(***************************************************************************)
(* Builds                                                                  *)
(***************************************************************************)
Started == [NoBuild EXCEPT !.at = "building", !.read = data]

Superseded_ByBuilds(b) == kept.payload > b.read

Superseded(b) == b.forgotten \/ kept.payload > b.read

(* A build that ends is kept unless superseded.  What is too old goes.     *)
Kept(b) ==
  IF ~Superseded(b) THEN [payload |-> b.read, young |-> TRUE]
  ELSE IF kept.young THEN kept ELSE NotKept

(***************************************************************************)
(* The push loop                                                           *)
(***************************************************************************)
(* A wake-up from before the build is spent: the build will reflect it.    *)
LoopBuilds ==
  /\ loop.at = "round"
  /\ IF gone
     THEN /\ push' = NoPush
          /\ loop' = [build |-> NoBuild, at |-> "none", round |-> 0]
     ELSE /\ push' = [push EXCEPT !.urgent = FALSE]
          /\ loop' = [loop EXCEPT !.at = "building", !.build = Started]
  /\ UNCHANGED <<data, gone, owed, cut, kept, view, page, due, last, mishaps>>

ToCool(l) == [l EXCEPT !.at = "cooling", !.build = NoBuild]

Received(s, payload) ==
  [s EXCEPT !.pushed = IF s.at \in {"opening", "building"} THEN payload ELSE @,
            !.shows  = IF s.at = "open" THEN payload ELSE @]

(* Given up, nothing is promised any more unless a later ask is marked.    *)
Excused == due' = IF push.pending \/ owed # NotOwed THEN due ELSE [p \in Page |-> None]

(* Superseded, it is built again, up to MaxRounds times.  This is judged   *)
(* under the payloads' lock, which is let go before what was built is      *)
(* published.                                                              *)
LoopKeeps ==
  /\ loop.at = "building"
  /\ kept' = Kept(loop.build)
  /\ IF ~Superseded(loop.build)
     THEN /\ loop' = [loop EXCEPT !.at = "publishing", !.build.at = "built"]
          /\ UNCHANGED due
     ELSE IF loop.round < MaxRounds
          THEN loop' = [build |-> NoBuild, at |-> "round", round |-> loop.round + 1] /\ UNCHANGED due
          ELSE loop' = ToCool(loop) /\ Excused
  /\ UNCHANGED <<data, gone, owed, cut, push, view, page, last, mishaps>>

(* To every subscriber.                                                    *)
LoopPublishes ==
  /\ loop.at = "publishing"
  /\ last' = loop.build.read
  /\ page' = [p \in Page |-> Received(page[p], loop.build.read)]
  /\ loop' = ToCool(loop)
  /\ UNCHANGED <<data, gone, owed, cut, kept, push, view, due, mishaps>>

LoopFails ==
  /\ loop.at = "building" /\ Mishap
  /\ loop' = ToCool(loop) /\ Excused
  /\ UNCHANGED <<data, gone, owed, cut, kept, push, view, page, last>>

(* The cool-down ends by itself or on a wake-up; the loop ends, or goes    *)
(* round again if one was asked for.  The slip kept for comparison only    *)
(* counts asks that woke it.                                               *)
GoesRound_IfWoken == push.urgent

GoesRound == push.pending

EndPush ==
  /\ loop.at = "cooling"
  /\ IF GoesRound
     THEN /\ push' = [push EXCEPT !.pending = FALSE, !.urgent = FALSE]
          /\ loop' = [loop EXCEPT !.at = "round", !.round = 1]
     ELSE /\ push' = NoPush
          /\ loop' = [loop EXCEPT !.at = "none", !.round = 0]
  /\ UNCHANGED <<data, gone, owed, cut, kept, view, page, due, last, mishaps>>

(***************************************************************************)
(* Pages                                                                   *)
(***************************************************************************)
(* Subscribed before the first payload is read.                            *)
Subscribe(p) ==
  /\ ~gone /\ page[p].at = "closed"
  /\ page' = [page EXCEPT ![p].at = "opening"]
  /\ UNCHANGED <<data, gone, owed, cut, kept, push, loop, view, due, last, mishaps>>

(* The first payload, and after it what was pushed meanwhile.              *)
Opened(p, payload) ==
  page' = [page EXCEPT ![p] =
    [at |-> "open", pushed |-> None,
     shows |-> IF page[p].pushed = None THEN payload ELSE page[p].pushed]]

ReadsKept(p) ==
  /\ page[p].at = "opening" /\ kept.young
  /\ Opened(p, kept.payload)
  /\ UNCHANGED <<data, gone, owed, cut, kept, push, loop, view, due, last, mishaps>>

(* Nothing young is kept: one page at a time builds, and the others wait   *)
(* for the job's build lock and look again.                                *)
BuildLock == view.at = "idle" /\ ~kept.young /\ ~gone

ViewBuilds(p) ==
  /\ BuildLock /\ page[p].at = "opening"
  /\ page' = [page EXCEPT ![p].at = "building"]
  /\ view' = Started
  /\ UNCHANGED <<data, gone, owed, cut, kept, push, loop, due, last, mishaps>>

(* What was built is kept for the next, unless superseded.                 *)
Keeps ==
  /\ kept' = Kept(view)
  /\ view' = NoBuild
  /\ UNCHANGED <<data, gone, owed, cut, push, loop, due, last, mishaps>>

(* The page that built is given what it built even if it was superseded.   *)
ViewBuilt(p) == page[p].at = "building" /\ Keeps /\ Opened(p, view.read)

(* GET /api/jobs/:id builds as a page does, and subscribes to nothing.     *)
ReaderBuilds ==
  /\ BuildLock
  /\ view' = Started
  /\ UNCHANGED <<data, gone, owed, cut, kept, push, loop, page, due, last, mishaps>>

ReaderBuilt ==
  /\ view.at = "building" /\ \A p \in Page : page[p].at # "building"
  /\ Keeps
  /\ UNCHANGED page

(* What is kept grows too old to be given out, and then goes when a build  *)
(* of any job ends.                                                        *)
Grows ==
  /\ kept.payload # None
  /\ kept' = IF kept.young THEN [kept EXCEPT !.young = FALSE] ELSE NotKept
  /\ UNCHANGED <<data, gone, owed, cut, push, loop, view, page, due, last, mishaps>>

Close(p) ==
  /\ page[p].at = "open" /\ Mishap
  /\ page' = [page EXCEPT ![p] = Closed]
  /\ due'  = [due EXCEPT ![p] = None]
  /\ UNCHANGED <<data, gone, owed, cut, kept, push, loop, view, last>>

(* Deleted: every stream ends and what is kept goes.                       *)
Delete ==
  /\ ~gone /\ owed = NotOwed /\ Mishap
  /\ gone' = TRUE
  /\ kept' = NotKept
  /\ page' = [p \in Page |-> Closed]
  /\ due'  = [p \in Page |-> None]
  /\ loop' = [loop EXCEPT !.build = Forgotten(@)]
  /\ view' = NoBuild
  /\ UNCHANGED <<data, owed, cut, push, last>>

Next ==
  \/ Submission \/ ChangeCommits \/ Forgets \/ PushAfterChange
  \/ LoopBuilds \/ LoopKeeps \/ LoopPublishes \/ LoopFails \/ EndPush
  \/ ReaderBuilds \/ ReaderBuilt \/ Grows \/ Delete
  \/ \E p \in Page : Subscribe(p) \/ ReadsKept(p) \/ ViewBuilds(p) \/ ViewBuilt(p) \/ Close(p)

(* What the server began it goes on with; results and readers come as they *)
(* please.  The build lock is given in turn, so a page that waits for it   *)
(* is not passed over forever.                                             *)
Fairness ==
  /\ WF_vars(Forgets \/ PushAfterChange)
  /\ WF_vars(LoopBuilds \/ LoopKeeps \/ LoopPublishes \/ EndPush)
  /\ WF_vars(ReaderBuilt)
  /\ \A p \in Page : SF_vars(ReadsKept(p) \/ ViewBuilds(p)) /\ WF_vars(ViewBuilt(p))

Spec == Init /\ [][Next]_vars /\ Fairness

(***************************************************************************)
(* Properties                                                              *)
(***************************************************************************)
(* What is kept, and given to new pages, is never from before an admin's   *)
(* change that forgot it: a build that read before the change, and ends    *)
(* after it, is not kept, whoever builds and however slowly.               *)
KeptIsCurrent == kept.payload # None => kept.payload >= cut

(* After an admin's change has forgotten what was kept, no build from      *)
(* before it is published: it would put the status before the change on    *)
(* every page.  It can be: a build is judged when it ends, and published   *)
(* a moment later.                                                         *)
NoStalePush == [][last' # last => last' >= cut]_vars

(* A change a push was asked for is shown by every page subscribed then,   *)
(* or a later one is, although asks coalesce, builds are superseded and    *)
(* the loop ends; unless the page closes, a build fails, or MaxRounds      *)
(* builds in a row are superseded and the loop gives up (Excused).         *)
EveryAskShows ==
  \A p \in Page : \A change \in 2..MaxChanges :
    due[p] = change ~> (page[p].shows >= change \/ due[p] # change)

(* An open page does not stay behind the job's statistics: it lags by the  *)
(* pushes' interval at most.                                               *)
PageCatchesUp ==
  \A p \in Page : \A change \in 1..MaxChanges :
    (page[p].at = "open" /\ data = change) ~>
      (page[p].shows >= change \/ page[p].at = "closed")
=============================================================================
