------------------------------ MODULE Exports ------------------------------
(***************************************************************************)
(* The exports of one job: an admin starts one, a task of the server reads *)
(* the job in one snapshot, uploads what it read and marks the export      *)
(* ready, as the job's final corpus if that is what the snapshot saw.      *)
(* Beside it the job takes results, completes, is purged, or has its       *)
(* consensus settings edited; and the server is replaced by another, which *)
(* gives up on the exports it finds running while their builds may go on.  *)
(*                                                                         *)
(* What a job's results are is told by a number that every change of them  *)
(* raises.  A purge and an edit hold the job's row from their first write  *)
(* of job_exports to their commit.                                         *)
(***************************************************************************)
EXTENDS Integers, FiniteSets

CONSTANTS
  Export,      \* rows of job_exports, of this one job
  Turns,       \* EXPORT_BUILDS: exports a process builds at once
  MaxCorpus,   \* bound: changes of the job's results
  MaxMishaps   \* bound: failures, time limits, roll-backs, expiries, replacements of the server

VARIABLES
  job,     \* its kind, status, results, claims open, and results staged
  writer,  \* the transaction that holds the job's row: "none", "purge" or "edit"
  touched, \* the exports it has written
  asked,   \* an admin's request for an export has found the job settled
  row,     \* row[e]: state, is_final, the results it holds, the objects it names
  stored,  \* stored[e]: its objects in the store
  build,   \* build[e]: where its build is, what its snapshot read, in an old process or not
  mishaps

vars == <<job, writer, touched, asked, row, stored, build, mishaps>>

Object  == {"results", "positions"}
NoRow   == [state |-> "none", final |-> FALSE, holds |-> 0, names |-> {}, aged |-> FALSE]
NoBuild == [at |-> "none", final |-> FALSE, holds |-> 0, names |-> {}, old |-> FALSE]

Init ==
  /\ job \in [kind : {"games", "leave", "racks"}, status : {"active"}, corpus : {0},
              open : {0}, staged : {FALSE}]
  /\ writer = "none" /\ touched = {} /\ asked = FALSE
  /\ row    = [e \in Export |-> NoRow]
  /\ stored = [e \in Export |-> {}]
  /\ build  = [e \in Export |-> NoBuild]
  /\ mishaps = 0

exports == <<row, stored, build>>

Mishap == mishaps < MaxMishaps /\ mishaps' = mishaps + 1

(***************************************************************************)
(* The job                                                                 *)
(***************************************************************************)
Issue ==
  /\ job.status = "active" /\ job.open = 0 /\ writer = "none"
  /\ job.corpus < MaxCorpus
  /\ job' = [job EXCEPT !.open = 1]
  /\ UNCHANGED <<writer, touched, asked, exports, mishaps>>

(* A result is stored, or for a leave job staged until a merge, in the     *)
(* transaction that ends its claim.                                        *)
Submit ==
  /\ job.open > 0 /\ writer = "none"
  /\ job' = IF job.kind = "leave" THEN [job EXCEPT !.open = 0, !.staged = TRUE]
            ELSE [job EXCEPT !.open = 0, !.corpus = @ + 1]
  /\ UNCHANGED <<writer, touched, asked, exports, mishaps>>

Lapse ==
  /\ job.open > 0 /\ writer = "none"
  /\ job' = [job EXCEPT !.open = 0]
  /\ UNCHANGED <<writer, touched, asked, exports, mishaps>>

Merged(j) == [j EXCEPT !.staged = FALSE, !.corpus = @ + 1]

MergeSweep ==
  /\ job.staged /\ writer = "none"
  /\ job' = Merged(job)
  /\ UNCHANGED <<writer, touched, asked, exports, mishaps>>

(* By its rule or by an admin; claims that are out stay out.               *)
Complete ==
  /\ job.status = "active" /\ writer = "none"
  /\ job' = [job EXCEPT !.status = "completed"]
  /\ UNCHANGED <<writer, touched, asked, exports, mishaps>>

Activate ==
  /\ job.status = "inactive" /\ writer = "none"
  /\ job' = [job EXCEPT !.status = "active"]
  /\ UNCHANGED <<writer, touched, asked, exports, mishaps>>

(***************************************************************************)
(* Starting an export                                                      *)
(***************************************************************************)
(* A completed job with a claim in flight is refused; one lapsed by then   *)
(* is ended first, by the statement dispatch uses (Lapse).                 *)
StartAsk ==
  /\ ~asked
  /\ job.status = "completed" => job.open = 0
  /\ asked' = TRUE
  /\ UNCHANGED <<job, writer, touched, exports, mishaps>>

Running == {e \in Export : row[e].state = "running"}

(* Under a share lock on the job's row, which waits for a purge or an edit;*)
(* one export of a job runs at a time.                                     *)
Start(e) ==
  /\ asked /\ row[e].state = "none" /\ writer = "none"
  /\ asked' = FALSE
  /\ IF Running = {}
     THEN /\ row'   = [row EXCEPT ![e].state = "running"]
          /\ build' = [build EXCEPT ![e] = [NoBuild EXCEPT !.at = "queued"]]
     ELSE UNCHANGED <<row, build>>
  /\ UNCHANGED <<job, writer, touched, stored, mishaps>>

(***************************************************************************)
(* Building it                                                             *)
(***************************************************************************)
Phase    == {"settle", "snapshot", "results", "positions", "mark"}
Building(old) == {e \in Export : build[e].at \in Phase /\ build[e].old = old}

To(e, at) == build' = [build EXCEPT ![e].at = at]

(* Its turn comes; an export purged or given up meanwhile is not built.    *)
Turn(e) ==
  /\ build[e].at = "queued"
  /\ Cardinality(Building(build[e].old)) < Turns
  /\ To(e, IF row[e].state = "running" THEN "settle" ELSE "none")
  /\ UNCHANGED <<job, writer, touched, asked, row, stored, mishaps>>

(* Results a completed leave job still has staged are merged first.        *)
Settle(e) ==
  /\ build[e].at = "settle"
  /\ IF job.status = "completed" /\ job.kind = "leave" /\ job.staged
     THEN writer = "none" /\ job' = Merged(job)
     ELSE UNCHANGED job
  /\ To(e, "snapshot")
  /\ UNCHANGED <<writer, touched, asked, row, stored, mishaps>>

Settled == job.status = "completed" /\ job.open = 0 /\ ~job.staged

(* The snapshot: what it reads, whether that is all there will be, and     *)
(* whether any positions were captured.                                    *)
ReadSnapshot(e) ==
  /\ build[e].at = "snapshot"
  /\ \E names \in IF job.kind = "games" THEN {{"results"}, Object} ELSE {{"results"}} :
       build' = [build EXCEPT ![e] = [@ EXCEPT !.at = "results", !.final = Settled,
                                               !.holds = job.corpus, !.names = names]]
  /\ UNCHANGED <<job, writer, touched, asked, row, stored, mishaps>>

Upload(e) ==
  /\ build[e].at \in {"results", "positions"}
  /\ stored' = [stored EXCEPT ![e] = @ \cup {build[e].at}]
  /\ To(e, IF build[e].at = "results" /\ "positions" \in build[e].names THEN "positions"
           ELSE "mark")
  /\ UNCHANGED <<job, writer, touched, asked, row, mishaps>>

(* The row becomes ready if it is still running; objects nothing will name *)
(* are removed.  The update reads the job's row FOR SHARE, so it waits for *)
(* a purge or an edit.  Its answer can be lost after it committed.         *)
Ready(e) == [state |-> "ready", final |-> build[e].final /\ job.status = "completed",
             holds |-> build[e].holds, names |-> build[e].names, aged |-> FALSE]

MarkReady(e) ==
  /\ build[e].at = "mark"
  /\ writer = "none" \/ row[e].state # "running"
  /\ IF row[e].state = "running"
     THEN /\ row' = [row EXCEPT ![e] = Ready(e)]
          /\ \/ To(e, "none") /\ UNCHANGED mishaps
             \/ To(e, "failed") /\ Mishap
          /\ UNCHANGED stored
     ELSE /\ stored' = [stored EXCEPT ![e] = {}]
          /\ To(e, "none")
          /\ UNCHANGED <<row, mishaps>>
  /\ UNCHANGED <<job, writer, touched, asked>>

(* Any of it can fail: a merge, the database, the store.                   *)
BuildFails(e) ==
  /\ build[e].at \in Phase /\ Mishap
  /\ To(e, "failed")
  /\ UNCHANGED <<job, writer, touched, asked, row, stored>>

(* A failed build removes what it wrote, unless the row names it: the      *)
(* update did commit.  A row that cannot be read might, and is let be.  The *)
(* slip kept for comparison never looks.                                   *)
Named_Never(e) == e \notin Export

Named(e) == row[e].state = "ready"

CleanUp(e) ==
  /\ build[e].at = "failed"
  /\ \E unreadable \in BOOLEAN :
       stored' = IF Named(e) \/ unreadable THEN stored ELSE [stored EXCEPT ![e] = {}]
  /\ To(e, "record")
  /\ UNCHANGED <<job, writer, touched, asked, row, mishaps>>

(* A build past EXPORT_BUILD_LIMIT, or that panicked, is stopped where it  *)
(* is, and what it uploaded is left to the store's expiry.                 *)
BuildStopped(e) ==
  /\ build[e].at \in Phase /\ Mishap
  /\ To(e, "record")
  /\ UNCHANGED <<job, writer, touched, asked, row, stored>>

Failed(e) == IF row[e].state = "running" THEN [row[e] EXCEPT !.state = "failed"] ELSE row[e]

RecordFailure(e) ==
  /\ build[e].at = "record" /\ (writer = "none" \/ e \notin touched)
  /\ row' = [row EXCEPT ![e] = Failed(e)]
  /\ To(e, "none")
  /\ UNCHANGED <<job, writer, touched, asked, stored, mishaps>>

(***************************************************************************)
(* A purge and a consensus edit                                            *)
(***************************************************************************)
Begin(w) ==
  /\ writer = "none"
  /\ job.corpus < MaxCorpus
  /\ w = "edit" => job.kind = "racks"
  /\ writer' = w
  /\ touched' = {e \in Export : row[e].state \notin {"none", "deleted"}}
  /\ UNCHANGED <<job, asked, exports, mishaps>>

(* The results go, and the exports of them with their objects.             *)
PurgeCommit ==
  /\ writer = "purge"
  /\ job' = [job EXCEPT !.status = "inactive", !.corpus = @ + 1, !.open = 0, !.staged = FALSE]
  /\ row' = [e \in Export |-> IF e \in touched THEN [NoRow EXCEPT !.state = "deleted"] ELSE row[e]]
  /\ stored' = [e \in Export |-> IF e \in touched /\ row[e].state = "ready" THEN {} ELSE stored[e]]
  /\ writer' = "none" /\ touched' = {}
  /\ UNCHANGED <<asked, build, mishaps>>

(* A completed job's final exports become snapshots, and those under way   *)
(* fail.  The slip kept for comparison lets those go on.                   *)
Unfinalized_Running(e) == [row[e] EXCEPT !.final = FALSE]

Unfinalized(e) == [Failed(e) EXCEPT !.final = FALSE]

(* Every rack's standing is stated anew; a completed job with racks no     *)
(* longer settled is taken back out of completion.                         *)
EditCommit ==
  /\ writer = "edit"
  /\ \E reopened \in IF job.status = "completed" THEN BOOLEAN ELSE {FALSE} :
       job' = [job EXCEPT !.corpus = @ + 1, !.status = IF reopened THEN "inactive" ELSE @]
  /\ row' = IF job.status = "completed"
            THEN [e \in Export |-> IF e \in touched THEN Unfinalized(e) ELSE row[e]]
            ELSE row
  /\ writer' = "none" /\ touched' = {}
  /\ UNCHANGED <<asked, stored, build, mishaps>>

RollBack ==
  /\ writer # "none" /\ Mishap
  /\ writer' = "none" /\ touched' = {}
  /\ UNCHANGED <<job, asked, exports>>

(***************************************************************************)
(* Time and the process                                                    *)
(***************************************************************************)
(* 29 days after it was built an export is no longer relied on; a day      *)
(* later the store's lifecycle rule deletes its objects.                   *)
Age(e) ==
  /\ row[e].state = "ready" /\ Mishap
  /\ IF row[e].aged
     THEN stored' = [stored EXCEPT ![e] = {}] /\ UNCHANGED row
     ELSE row' = [row EXCEPT ![e].aged = TRUE] /\ UNCHANGED stored
  /\ UNCHANGED <<job, writer, touched, asked, build>>

(* A new process fails the exports left running.  Builds of the old one    *)
(* end with it, or go on beside it for a while.                            *)
Restart ==
  /\ Mishap
  /\ writer' = "none" /\ touched' = {} /\ asked' = FALSE
  /\ row' = [e \in Export |-> Failed(e)]
  /\ \E goesOn \in SUBSET {e \in Export : build[e].at # "none"} :
       build' = [e \in Export |-> IF e \in goesOn THEN [build[e] EXCEPT !.old = TRUE]
                                 ELSE NoBuild]
  /\ UNCHANGED <<job, stored>>

Next ==
  \/ Issue \/ Submit \/ Lapse \/ MergeSweep \/ Complete \/ Activate
  \/ StartAsk
  \/ \E e \in Export : \/ Start(e) \/ Turn(e) \/ Settle(e) \/ ReadSnapshot(e) \/ Upload(e)
                       \/ MarkReady(e) \/ BuildFails(e) \/ CleanUp(e)
                       \/ BuildStopped(e) \/ RecordFailure(e) \/ Age(e)
  \/ \E w \in {"purge", "edit"} : Begin(w)
  \/ PurgeCommit \/ EditCommit \/ RollBack \/ Restart

Spec == Init /\ [][Next]_vars

(***************************************************************************)
(* Properties                                                              *)
(***************************************************************************)
(* What downloads of the job may be given: newest_ready, ready_objects.    *)
Relied(e) == row[e].state = "ready" /\ ~row[e].aged

(* An export that says it is the job's final corpus is: the job is         *)
(* completed, nothing more of it is in flight or staged, and its results   *)
(* are those the export holds -- although it was read long before it was   *)
(* marked, and the job may have been purged, run again or edited since.    *)
FinalIsCorpus ==
  \A e \in Export : row[e].state = "ready" /\ row[e].final =>
    Settled /\ row[e].holds = job.corpus

(* An export that downloads are sent to has every object it names, although*)
(* a build that was told it failed removes what it uploaded, and the store *)
(* removes what is old.                                                    *)
ReadyHasObjects ==
  \A e \in Export : Relied(e) => row[e].names # {} /\ row[e].names \subseteq stored[e]
=============================================================================
