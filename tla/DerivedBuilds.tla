--------------------------- MODULE DerivedBuilds ---------------------------
(***************************************************************************)
(* The files a job's workers build for themselves, and the server's        *)
(* reference builds of them: a queue of rows that scheduled builder tasks  *)
(* take on a lease, build, and record the outcome of; and the web process, *)
(* which asks for what a job needs, hands the job out once all of it is    *)
(* built, and remembers that it was.                                       *)
(*                                                                         *)
(* A file is a need of the job under one version of the builders; a        *)
(* deployment brings the next version, while builder tasks of the one      *)
(* before still run.  A lease is told by the task that took it, which      *)
(* holds one at a time, and may lapse at any moment: the code gives it     *)
(* longer than a build may take, on a clock a stalled process does not     *)
(* follow.  A scheduled task that would find the queue empty is left out.  *)
(***************************************************************************)
EXTENDS Integers, Sequences, FiniteSets

CONSTANTS
  Need,        \* needs_for_job: the files the job needs
  Builder,     \* builder tasks
  None,        \* no task
  Versions,    \* 1..Versions: the builders' versions, deployed in turn
  MaxAttempts, \* MAX_ATTEMPTS
  PerRun,      \* MAX_BUILDS_PER_RUN
  MaxMishaps   \* bound: builds lost, inputs damaged, retries

File == Need \X (1..Versions)

VARIABLES
  row,     \* row[f]: its row in derived_data
  queue,   \* the files with a row, in the order they were requested
  task,    \* task[b]: a builder task: its version, what it may still build, its lease
  damaged, \* needs whose inputs cannot be read
  live,    \* the job exists
  version, \* the builders of the web process
  asking,  \* a claim's answer from the database, not yet remembered
  cache,   \* derived_ready: what the web process remembers for the job
  mishaps

vars == <<row, queue, task, damaged, live, version, asking, cache, mishaps>>
web  == <<live, version, asking, cache>>

NoRow   == [state |-> "none", attempts |-> 0, lease |-> None, lapsed |-> TRUE]
Pending == [NoRow EXCEPT !.state = "pending"]
NoTask  == [version |-> 0, left |-> 0, file |-> <<>>]

Init ==
  /\ row = [f \in File |-> NoRow] /\ queue = <<>>
  /\ task = [b \in Builder |-> NoTask]
  /\ damaged = {}
  /\ live = TRUE /\ version = 1 /\ asking = {} /\ cache = {}
  /\ mishaps = 0

Mishap == mishaps < MaxMishaps /\ mishaps' = mishaps + 1

(***************************************************************************)
(* The web process                                                         *)
(***************************************************************************)
Needed      == {<<n, version>> : n \in Need}
Unrequested == {f \in Needed : row[f].state = "none"}

(* Asked for when the job is created or activated, and by a claim that     *)
(* finds files without a row: a conflict with a row does nothing.          *)
Request ==
  /\ live /\ Unrequested # {}
  /\ row' = [f \in File |-> IF f \in Unrequested THEN Pending ELSE row[f]]
  /\ \E order \in [1..Cardinality(Unrequested) -> Unrequested] :
       /\ \A i, j \in DOMAIN order : i # j => order[i] # order[j]
       /\ queue' = queue \o order
  /\ UNCHANGED <<task, damaged, web, mishaps>>

(* A claim asks once for the job; dispatchable when none is missing.       *)
Built == {f \in Needed : row[f].state = "built"}

ClaimAsks ==
  /\ live /\ cache = {} /\ asking = {}
  /\ Built = Needed
  /\ asking' = Built
  /\ UNCHANGED <<row, queue, task, damaged, live, version, cache, mishaps>>

ClaimRemembers ==
  /\ asking # {}
  /\ cache' = asking /\ asking' = {}
  /\ UNCHANGED <<row, queue, task, damaged, live, version, mishaps>>

(* An upgrade of MAGPIE: a new web process, which remembers nothing.       *)
Deploy ==
  /\ version < Versions
  /\ version' = version + 1 /\ asking' = {} /\ cache' = {}
  /\ UNCHANGED <<row, queue, task, damaged, live, mishaps>>

DeleteJob ==
  /\ live /\ Mishap
  /\ live' = FALSE /\ cache' = {}
  /\ UNCHANGED <<row, queue, task, damaged, version, asking>>

(* A file no job pins is deleted with all that was built from it.          *)
DeleteInput ==
  /\ ~live /\ queue # <<>>
  /\ row' = [f \in File |-> NoRow] /\ queue' = <<>>
  /\ UNCHANGED <<task, damaged, web, mishaps>>

(* An admin reopens a failed build, of the builders there are now.         *)
Retry(f) ==
  /\ row[f].state = "failed" /\ f[2] = version /\ Mishap
  /\ row' = [row EXCEPT ![f] = Pending]
  /\ UNCHANGED <<queue, task, damaged, web>>

(***************************************************************************)
(* The builder tasks                                                       *)
(***************************************************************************)
(* Scheduled every few minutes, from the image deployed by then; each run  *)
(* builds a few files at most.                                             *)
StartRun(b) ==
  /\ task[b].left = 0
  /\ \E f \in File : f[2] = version /\ row[f].state \in {"pending", "building"}
  /\ task' = [task EXCEPT ![b] = [NoTask EXCEPT !.version = version, !.left = PerRun]]
  /\ UNCHANGED <<row, queue, damaged, web, mishaps>>

(* A build that died on its last attempt has recorded nothing.  The slip   *)
(* kept for comparison waits for it to record a failure.                   *)
Dead_Never(f) == row[f].attempts > MaxAttempts

Dead(f) == row[f].state = "building" /\ row[f].lapsed /\ row[f].attempts >= MaxAttempts

Outstanding(f) ==
  [row[f] EXCEPT !.state = IF Dead(f) THEN "failed" ELSE @]

Due(f, v) ==
  /\ row[f].state \in {"pending", "building"} /\ row[f].lapsed
  /\ row[f].attempts < MaxAttempts
  /\ f[2] = v

(* take_next: the oldest row that is due, of the builders this task has.   *)
Take(b) ==
  /\ task[b].left > 0 /\ task[b].file = <<>>
  /\ LET due == {i \in DOMAIN queue : Due(queue[i], task[b].version)}
     IN IF due = {}
        THEN /\ row' = [f \in File |-> Outstanding(f)]
             /\ task' = [task EXCEPT ![b] = NoTask]
        ELSE LET f == queue[CHOOSE i \in due : \A j \in due : i <= j]
             IN /\ row' = [g \in File |->
                     IF g = f THEN [state |-> "building", attempts |-> row[f].attempts + 1,
                                    lease |-> b, lapsed |-> FALSE]
                     ELSE Outstanding(g)]
                /\ task' = [task EXCEPT ![b].file = f]
  /\ UNCHANGED <<queue, damaged, web, mishaps>>

(* An outcome is recorded against the lease it was built under.  The slip  *)
(* kept for comparison asks only that there is still a row.                *)
Holds_Any(b) == row[task[b].file].state # "none"

Holds(b) == LET r == row[task[b].file] IN r.state = "building" /\ r.lease = b

Done(b) == task' = [task EXCEPT ![b].left = @ - 1, ![b].file = <<>>]

Succeed(b) ==
  /\ task[b].file # <<>> /\ task[b].file[1] \notin damaged
  /\ LET f == task[b].file
     IN row' = IF Holds(b)
               THEN [row EXCEPT ![f].state = "built", ![f].lease = None, ![f].lapsed = TRUE]
               ELSE row
  /\ Done(b)
  /\ UNCHANGED <<queue, damaged, web, mishaps>>

(* Back to the queue, to be due again after a wait; or given up.           *)
Fail(b) ==
  /\ task[b].file # <<>>
  /\ \/ task[b].file[1] \in damaged /\ UNCHANGED mishaps
     \/ task[b].file[1] \notin damaged /\ Mishap
  /\ LET f == task[b].file
         over == row[f].attempts >= MaxAttempts
     IN row' = IF Holds(b)
               THEN [row EXCEPT ![f].state = IF over THEN "failed" ELSE "pending",
                                ![f].lease = None, ![f].lapsed = over]
               ELSE row
  /\ Done(b)
  /\ UNCHANGED <<queue, damaged, web>>

(* Killed, or out of memory; or its outcome could not be recorded.         *)
Die(b) ==
  /\ task[b].left > 0 /\ Mishap
  /\ task' = [task EXCEPT ![b] = NoTask]
  /\ UNCHANGED <<row, queue, damaged, web>>

(* A lease runs out, or the wait after a failure.                          *)
Lapse(f) ==
  /\ ~row[f].lapsed
  /\ row' = [row EXCEPT ![f].lapsed = TRUE]
  /\ UNCHANGED <<queue, task, damaged, web, mishaps>>

(* The store's copy of an input is lost or damaged; importing it again     *)
(* puts it back.                                                           *)
Damage(n) ==
  /\ n \notin damaged /\ Mishap
  /\ damaged' = damaged \cup {n}
  /\ UNCHANGED <<row, queue, task, web>>

Reimport(n) ==
  /\ n \in damaged
  /\ damaged' = damaged \ {n}
  /\ UNCHANGED <<row, queue, task, web, mishaps>>

Next ==
  \/ Request \/ ClaimAsks \/ ClaimRemembers \/ Deploy \/ DeleteJob \/ DeleteInput
  \/ \E f \in File : Retry(f) \/ Lapse(f)
  \/ \E b \in Builder : StartRun(b) \/ Take(b) \/ Succeed(b) \/ Fail(b) \/ Die(b)
  \/ \E n \in Need : Damage(n) \/ Reimport(n)

(* Workers ask for work, tasks are scheduled, a build ends by its deadline *)
(* one way or the other, and leases run out.                               *)
Fairness ==
  /\ WF_vars(Request)
  /\ \A b \in Builder : WF_vars(StartRun(b)) /\ WF_vars(Take(b)) /\ WF_vars(Succeed(b) \/ Fail(b))
  /\ \A f \in File : WF_vars(Lapse(f))

Spec == Init /\ [][Next]_vars /\ Fairness

(***************************************************************************)
(* Properties                                                              *)
(***************************************************************************)
(* What the web process remembers of a job it hands out stays true: every  *)
(* file the job needs under its builders is built, whatever builds that    *)
(* outlived their lease, retries and deletions have done since.            *)
HandedOutIsBuilt ==
  live /\ cache # {} => cache = Needed /\ \A f \in Needed : row[f].state = "built"

(* Every file a job waits for is built or given up, where an admin sees it,*)
(* although builders die, overrun their leases and stop after a few files: *)
(* nothing stays queued or building for good under the current builders.   *)
WaitsEnd ==
  \A f \in File : (f \in Needed /\ live) ~>
    \/ row[f].state \in {"built", "failed"}
    \/ ~live \/ f \notin Needed
=============================================================================
