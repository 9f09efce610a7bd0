------------------------------ MODULE Imports ------------------------------
(***************************************************************************)
(* Imports of input data: an admin starts one, a task of the server        *)
(* fetches the release, puts what is built from into the object store and  *)
(* stages a diff against what is known; the admin confirms the diff, or it *)
(* expires.  Beside it players are configured on files and jobs created on *)
(* players and files, admins delete what nothing pins, and the server is   *)
(* replaced by another, which gives up on the imports it finds running     *)
(* while the old one's may go on.                                          *)
(*                                                                         *)
(* A file is a path and a digest.  An object's key is its digest, and      *)
(* nothing removes one.  What a player or a job says besides its files,    *)
(* and what the players of a job must agree on, is left out.               *)
(***************************************************************************)
EXTENDS Integers, FiniteSets

CONSTANTS
  Import,    \* rows of input_data_imports
  File,      \* files a release may carry
  Path,      \* Path[f]: no release names one twice
  Kept,      \* the files whose role stores an object: kwg, klv
  Player,     \* rows of player_configs
  MaxMishaps \* bound: failures, time limits, expiries, replacements of the server

VARIABLES
  state,   \* state[i] of the import's row
  rows,    \* rows[i]: its staged rows: a file, and whether it was known
  task,    \* task[i]: the task that runs it, and what it has read and staged so far
  data,    \* the files in input_data
  stored,  \* the files whose object is in the store
  config,  \* config[p]: the files player p names, none before it is made
  jobs,    \* jobs: their players, and the file each names itself
  deleting,\* the file or player whose uses an admin's delete has counted: none
  mishaps

vars == <<state, rows, task, data, stored, config, jobs, deleting, mishaps>>
input == <<data, stored, config, jobs, deleting>>

NoTask  == [at |-> "none", files |-> {}, rows |-> {}]
Release == {fs \in (SUBSET File) \ {{}} : \A f, g \in fs : Path[f] = Path[g] => f = g}

Init ==
  /\ state = [i \in Import |-> "none"] /\ rows = [i \in Import |-> {}]
  /\ task = [i \in Import |-> NoTask]
  /\ data = {} /\ stored = {} /\ deleting = {}
  /\ config = [p \in Player |-> {}] /\ jobs = {}
  /\ mishaps = 0

Mishap == mishaps < MaxMishaps /\ mishaps' = mishaps + 1

To(i, at) == task' = [task EXCEPT ![i].at = at]

(***************************************************************************)
(* Running an import                                                       *)
(***************************************************************************)
StartImport(i) ==
  /\ state[i] = "none"
  /\ state' = [state EXCEPT ![i] = "running"]
  /\ To(i, "fetch")
  /\ UNCHANGED <<rows, input, mishaps>>

(* The release is downloaded and walked.                                   *)
Fetch(i) ==
  /\ task[i].at = "fetch"
  /\ \E fs \in Release :
       task' = [task EXCEPT ![i] = [NoTask EXCEPT !.at = "upload", !.files = fs]]
  /\ UNCHANGED <<state, rows, input, mishaps>>

(* Every object, before anything is staged; one already there is skipped.  *)
(* The slip kept for comparison goes on without one that failed.           *)
ToUpload(i) == (task[i].files \cap Kept) \ stored

Upload_MayFail(i) ==
  /\ task[i].at = "upload"
  /\ \E some \in SUBSET ToUpload(i) : stored' = stored \cup some
  /\ To(i, "stage")
  /\ UNCHANGED <<state, rows, data, config, jobs, deleting, mishaps>>

Upload(i) ==
  /\ task[i].at = "upload"
  /\ IF ToUpload(i) = {}
     THEN To(i, "stage") /\ UNCHANGED stored
     ELSE /\ \E f \in ToUpload(i) : stored' = stored \cup {f}
          /\ UNCHANGED task
  /\ UNCHANGED <<state, rows, data, config, jobs, deleting, mishaps>>

(* One transaction, which asks of each file in turn whether it is known.   *)
StagedBy(i) == {r.file : r \in task[i].rows}

StageRow(i) ==
  /\ task[i].at = "stage"
  /\ \E f \in task[i].files \ StagedBy(i) :
       task' = [task EXCEPT ![i].rows = @ \cup {[file |-> f, known |-> f \in data]}]
  /\ UNCHANGED <<state, rows, input, mishaps>>

(* The time limit may stop the task after its rows are committed.          *)
StageCommit(i) ==
  /\ task[i].at = "stage" /\ StagedBy(i) = task[i].files
  /\ rows' = [rows EXCEPT ![i] = task[i].rows]
  /\ \/ To(i, "finish") /\ UNCHANGED mishaps
     \/ To(i, "fail") /\ Mishap
  /\ UNCHANGED <<state, input>>

New(i) == {r.file : r \in {r \in rows[i] : ~r.known}}

Ends(i, end) == state' = [state EXCEPT ![i] = IF @ = "running" THEN end ELSE @]

(* finish_staging.  The slip kept for comparison is not guarded on running.*)
FinishStaging_Unguarded(i) ==
  state' = [state EXCEPT ![i] = IF New(i) # {} THEN "staged" ELSE "nothing_new"]

FinishStaging(i) == Ends(i, IF New(i) # {} THEN "staged" ELSE "nothing_new")

(* If that fails nothing is recorded: the row stays running.               *)
Finish(i) ==
  /\ task[i].at = "finish"
  /\ \/ FinishStaging(i) /\ UNCHANGED mishaps
     \/ Mishap /\ UNCHANGED state
  /\ task' = [task EXCEPT ![i] = NoTask]
  /\ UNCHANGED <<rows, input>>

(* The download, the archive, the store, the database, the time limit.     *)
StageFails(i) ==
  /\ task[i].at \in {"fetch", "upload", "stage"} /\ Mishap
  /\ To(i, "fail")
  /\ UNCHANGED <<state, rows, input>>

RecordFailure(i) ==
  /\ task[i].at = "fail"
  /\ Ends(i, "failed")
  /\ task' = [task EXCEPT ![i] = NoTask]
  /\ UNCHANGED <<rows, input, mishaps>>

(* A process that starts fails what it finds running.  A task of the old   *)
(* one ends with it, or goes on for a moment beside the new.               *)
Restart ==
  /\ Mishap
  /\ state' = [i \in Import |-> IF state[i] = "running" THEN "failed" ELSE state[i]]
  /\ \E goesOn \in SUBSET Import :
       task' = [i \in Import |-> IF i \in goesOn THEN task[i] ELSE NoTask]
  /\ deleting' = {}
  /\ UNCHANGED <<rows, data, stored, config, jobs>>

(***************************************************************************)
(* The diff                                                                *)
(***************************************************************************)
Confirm(i) ==
  /\ state[i] = "staged"
  /\ data' = data \cup New(i)
  /\ state' = [state EXCEPT ![i] = "confirmed"]
  /\ UNCHANGED <<rows, task, stored, config, jobs, deleting, mishaps>>

(* 24 hours after it was requested.                                        *)
Expire(i) ==
  /\ state[i] = "staged" /\ Mishap
  /\ state' = [state EXCEPT ![i] = "cancelled"]
  /\ rows' = [rows EXCEPT ![i] = {}]
  /\ UNCHANGED <<task, input>>

(***************************************************************************)
(* Uses and deletion                                                       *)
(***************************************************************************)
Made   == {p \in Player : config[p] # {}}
Pinned == (UNION {config[p] : p \in Player}) \cup {j.file : j \in jobs}

(* What a row names is checked first, and held by foreign keys when it is  *)
(* inserted: it is there, then, or the insert fails.  Of a player's files  *)
(* those with objects are told apart, and of a job's the others.           *)
CreatePlayer(p) ==
  /\ p \notin Made
  /\ \E fs \in Release : fs \subseteq data \cap Kept /\ config' = [config EXCEPT ![p] = fs]
  /\ UNCHANGED <<state, rows, task, data, stored, jobs, deleting, mishaps>>

(* A player alone plays itself; of several, each pair plays once.          *)
Pairings(ps) == IF Cardinality(ps) = 1 THEN {ps} ELSE {pair \in SUBSET ps : Cardinality(pair) = 2}

InsertJob(pair, f) == [players |-> pair, file |-> f]

Planned(ps, f) == {InsertJob(pair, f) : pair \in Pairings(ps)}

(* Every pairing's job or none, in one transaction.                        *)
CreateJobs(ps, f) ==
  /\ ps # {} /\ ps \subseteq Made /\ f \in data \ Kept
  /\ jobs' = jobs \cup Planned(ps, f)
  /\ UNCHANGED <<state, rows, task, data, stored, config, deleting, mishaps>>

DeleteJob(j) ==
  /\ j \in jobs
  /\ jobs' = jobs \ {j}
  /\ UNCHANGED <<state, rows, task, data, stored, config, deleting, mishaps>>

(* The uses of a file or a player, counted before its delete begins.       *)
InUse(x) == x \in Pinned \/ \E j \in jobs : x \in j.players

DeleteCounts(x) ==
  /\ x \in data \cup Made /\ ~InUse(x) /\ deleting = {}
  /\ deleting' = {x}
  /\ UNCHANGED <<state, rows, task, data, stored, config, jobs, mishaps>>

(* What pinned it since then fails the delete by its foreign key.  The     *)
(* slip kept for comparison trusts the count.                              *)
Refused_Counted(x) == x \notin data \cup Made

Refused(x) == InUse(x)

DeleteInputData(f) ==
  /\ deleting = {f}
  /\ data' = IF Refused(f) THEN data ELSE data \ {f}
  /\ deleting' = {}
  /\ UNCHANGED <<state, rows, task, stored, config, jobs, mishaps>>

DeletePlayerConfig(p) ==
  /\ deleting = {p}
  /\ config' = IF Refused(p) THEN config ELSE [config EXCEPT ![p] = {}]
  /\ deleting' = {}
  /\ UNCHANGED <<state, rows, task, data, stored, jobs, mishaps>>

Next ==
  \/ \E i \in Import : \/ StartImport(i) \/ Fetch(i) \/ Upload(i) \/ StageRow(i) \/ StageCommit(i)
                       \/ Finish(i) \/ StageFails(i) \/ RecordFailure(i)
                       \/ Confirm(i) \/ Expire(i)
  \/ \E p \in Player : CreatePlayer(p) \/ DeleteCounts(p) \/ DeletePlayerConfig(p)
  \/ \E ps \in SUBSET Player, f \in File : CreateJobs(ps, f)
  \/ \E j \in jobs : DeleteJob(j)
  \/ \E f \in File : DeleteCounts(f) \/ DeleteInputData(f)
  \/ Restart

Spec == Init /\ [][Next]_vars

(***************************************************************************)
(* Properties                                                              *)
(***************************************************************************)
(* What a job is made on is there, its players, their files and its own,   *)
(* and so are the bytes its derived files are built from: although imports *)
(* fail half way, overlap and are cut short, and a delete counts the uses  *)
(* of what it deletes before it does.                                      *)
PinnedHasBytes ==
  /\ Pinned \subseteq data /\ \A j \in jobs : j.players \subseteq Made
  /\ data \cap Kept \subseteq stored

(* An import that has ended stays as it ended: a task that outlived its    *)
(* process does not offer again a diff the new process gave up.            *)
EndedStays ==
  [][\A i \in Import : state[i] \in {"nothing_new", "confirmed", "cancelled", "failed"} =>
       state'[i] = state[i]]_vars
=============================================================================
