--------------------------- MODULE Records_proofs ---------------------------
(***************************************************************************)
(* What the seven components of Records promise, proved of each of them    *)
(* and so of their sum, for every value of the constants: any sets of      *)
(* exports, jobs, configs, accounts, imports, names, requests and checks,  *)
(* and any limits.  Each section has the inductive invariant of one        *)
(* component, and the last has the theorems.                               *)
(***************************************************************************)
EXTENDS Records, SumFacts, Sequences, TLAPS


(***************************************************************************)
(* Exports                                                                 *)
(*                                                                         *)
(* What a build has read is still so when it is marked, or its row is not  *)
(* running any more: a purge or an edit writes every export there is       *)
(* (WriterInv) before it changes what they hold (BuildInv).  Only a row's  *)
(* own build removes what it stored, and not once the row is ready.        *)
(***************************************************************************)

ExportJobState == [kind : {"games", "leave", "racks"}, status : {"active", "completed", "inactive"},
             corpus : Nat, open : Nat, staged : BOOLEAN]
ExportRowState == [state : {"none", "running", "ready", "failed", "deleted"}, final : BOOLEAN,
             holds : Nat, names : SUBSET Ex!Object, aged : BOOLEAN]
ExportBuildState == [at : Ex!Phase \cup {"none", "queued", "failed", "record"}, final : BOOLEAN,
               holds : Nat, names : SUBSET Ex!Object, old : BOOLEAN]

ExportTypeInv ==
  /\ job \in ExportJobState
  /\ writer \in {"none", "purge", "edit"} /\ touched \subseteq Export
  /\ row \in [Export -> ExportRowState]
  /\ stored \in [Export -> SUBSET Ex!Object]
  /\ build \in [Export -> ExportBuildState]

(* Whoever holds the job's row has written every export there is.          *)
ExportWriterInv ==
  writer # "none" =>
    \A e \in Export : row[e].state \in {"running", "ready", "failed"} => e \in touched

(* What a build read, while its export is still to be marked.              *)
ExportReadIt(e) == build[e].at \in {"results", "positions", "mark"} /\ row[e].state = "running"

ExportBuildInv ==
  \A e \in Export :
    /\ ExportReadIt(e) /\ build[e].final => Ex!Settled /\ build[e].holds = job.corpus
    /\ ExportReadIt(e) => build[e].names # {} /\ "results" \in build[e].names
    /\ row[e].state = "running" /\ build[e].at = "positions" => "results" \in stored[e]
    /\ row[e].state = "running" /\ build[e].at = "mark" => build[e].names \subseteq stored[e]
    /\ row[e].state = "ready" => build[e].at \in {"none", "failed", "record"}

ExportIInv == ExportTypeInv /\ ExportWriterInv /\ ExportBuildInv /\ Ex!FinalIsCorpus
  /\ Ex!ReadyHasObjects

(* What no step on another export or on the requests can disturb.          *)
LEMMA ExportRowsKept ==
  ASSUME ExportIInv, UNCHANGED <<job, row, stored, build>>, ExportTypeInv', ExportWriterInv'
  PROVE  ExportIInv'
BY DEF ExportIInv, ExportBuildInv, ExportReadIt, Ex!FinalIsCorpus, Ex!ReadyHasObjects, Ex!Relied,
   Ex!Settled

(* The fields a step may change.                                           *)
LEMMA ExportJobFields ==
  ASSUME NEW j \in ExportJobState
  PROVE  /\ [j EXCEPT !.open = 0] \in ExportJobState
         /\ [j EXCEPT !.staged = FALSE] \in ExportJobState
         /\ [j EXCEPT !.staged = TRUE] \in ExportJobState
         /\ [j EXCEPT !.status = "inactive"] \in ExportJobState
         /\ [j EXCEPT !.corpus = @ + 1] \in ExportJobState
<1>1. /\ [j EXCEPT !.open = 0] \in ExportJobState /\ [j EXCEPT !.staged = FALSE] \in ExportJobState
      /\ [j EXCEPT !.staged = TRUE] \in ExportJobState
      /\ [j EXCEPT !.status = "inactive"] \in ExportJobState
  BY DEF ExportJobState
<1>2. [j EXCEPT !.corpus = @ + 1] \in ExportJobState
  BY DEF ExportJobState
<1> QED
  BY <1>1, <1>2

LEMMA ExportFields ==
  /\ \A at \in Ex!Phase \cup {"none", "queued", "failed", "record"} :
       \A b \in ExportBuildState : [b EXCEPT !.at = at] \in ExportBuildState
  /\ Ex!NoBuild \in ExportBuildState /\ Ex!NoRow \in ExportRowState
  /\ [Ex!NoBuild EXCEPT !.at = "queued"] \in ExportBuildState
  /\ [Ex!NoRow EXCEPT !.state = "deleted"] \in ExportRowState
  /\ \A e \in Export : row[e] \in ExportRowState =>
       Ex!Failed(e) \in ExportRowState /\ Ex!Unfinalized(e) \in ExportRowState
  /\ job \in ExportJobState => Ex!Merged(job) \in ExportJobState
<1>1. \A at \in Ex!Phase \cup {"none", "queued", "failed", "record"} :
       \A b \in ExportBuildState : [b EXCEPT !.at = at] \in ExportBuildState
  BY DEF ExportBuildState
<1>2. Ex!NoBuild \in ExportBuildState /\ Ex!NoRow \in ExportRowState
  BY DEF Ex!NoBuild, Ex!NoRow, ExportBuildState, ExportRowState
<1>3. [Ex!NoBuild EXCEPT !.at = "queued"] \in ExportBuildState
        /\ [Ex!NoRow EXCEPT !.state = "deleted"] \in ExportRowState
  BY <1>2 DEF ExportBuildState, ExportRowState
<1>4. \A r \in ExportRowState : [r EXCEPT !.state = "failed"] \in ExportRowState
        /\ [r EXCEPT !.final = FALSE] \in ExportRowState
  BY DEF ExportRowState
<1>5. \A e \in Export : row[e] \in ExportRowState => Ex!Failed(e) \in ExportRowState
        /\ Ex!Unfinalized(e) \in ExportRowState
  BY <1>4 DEF Ex!Failed, Ex!Unfinalized
<1>6. job \in ExportJobState => Ex!Merged(job) \in ExportJobState
  <2>3. job \in ExportJobState =>
          [[job EXCEPT !.staged = FALSE] EXCEPT !.corpus = @ + 1] \in ExportJobState
    BY ExportJobFields
  <2> QED
    BY <2>3 DEF Ex!Merged
<1> QED
  BY <1>1, <1>2, <1>3, <1>5, <1>6

(* The job's own steps: none of them disturbs a job that is settled.       *)
LEMMA ExportJobStep ==
  ASSUME ExportIInv, Ex!Issue \/ Ex!Submit \/ Ex!Lapse \/ Ex!MergeSweep \/ Ex!Complete
           \/ Ex!Activate
  PROVE  ExportIInv'
<1> USE DEF ExportIInv, ExportTypeInv
<1>1. ASSUME ~Ex!Settled, UNCHANGED <<writer, touched, row, stored, build>>, job' \in ExportJobState
      PROVE  ExportIInv'
  BY <1>1 DEF ExportWriterInv, ExportBuildInv, ExportReadIt, Ex!FinalIsCorpus,
     Ex!ReadyHasObjects, Ex!Relied
<1>2. CASE Ex!Issue
  BY <1>1, <1>2 DEF Ex!Issue, Ex!Settled, ExportJobState, Ex!exports
<1>3. CASE Ex!Submit
  <2>3. /\ [[job EXCEPT !.open = 0] EXCEPT !.staged = TRUE] \in ExportJobState
        /\ [[job EXCEPT !.open = 0] EXCEPT !.corpus = @ + 1] \in ExportJobState
    BY ExportJobFields
  <2>4. job' \in ExportJobState
    BY <1>3, <2>3 DEF Ex!Submit
  <2> QED
    BY <1>1, <1>3, <2>4 DEF Ex!Submit, Ex!Settled, ExportJobState, Ex!exports
<1>4. CASE Ex!Lapse
  BY <1>1, <1>4 DEF Ex!Lapse, Ex!Settled, ExportJobState, Ex!exports
<1>5. CASE Ex!MergeSweep
  BY <1>1, <1>5, ExportFields DEF Ex!MergeSweep, Ex!Settled, Ex!exports
<1>6. CASE Ex!Complete
  BY <1>1, <1>6 DEF Ex!Complete, Ex!Settled, ExportJobState, Ex!exports
<1>7. CASE Ex!Activate
  BY <1>1, <1>7 DEF Ex!Activate, Ex!Settled, ExportJobState, Ex!exports
<1> QED
  BY <1>2, <1>3, <1>4, <1>5, <1>6, <1>7

(* A build that does not become ready: its row, and what its export has    *)
(* stored, stay; it reads nothing new.                                     *)
LEMMA ExportBuildMoves ==
  ASSUME ExportIInv, NEW e \in Export, NEW at \in {"none", "settle", "snapshot", "failed",
     "record"},
         build' = [build EXCEPT ![e].at = at],
         row[e].state = "ready" => at \in {"none", "failed", "record"},
         UNCHANGED <<writer, touched, row, stored>>,
         job' = job \/ (~Ex!Settled /\ job' \in ExportJobState)
  PROVE  ExportIInv'
<1> USE DEF ExportIInv, ExportTypeInv
<1>1. build' \in [Export -> ExportBuildState]
  BY ExportFields DEF Ex!Phase
<1>2. \A x \in Export : x # e => build'[x] = build[x]
  OBVIOUS
<1>3. build'[e].at = at
  BY DEF ExportBuildState
<1>4. job' \in ExportJobState
  OBVIOUS
<1>5. Ex!Settled => job' = job
  OBVIOUS
<1>6. ExportBuildInv'
  BY <1>2, <1>3, <1>5 DEF ExportBuildInv, ExportReadIt, Ex!Settled
<1> QED
  BY <1>1, <1>4, <1>5, <1>6 DEF ExportWriterInv, Ex!FinalIsCorpus, Ex!ReadyHasObjects, Ex!Relied,
     Ex!Settled

LEMMA ExportStartStep ==
  ASSUME ExportIInv, NEW e \in Export, Ex!Start(e)
  PROVE  ExportIInv'
<1> USE DEF ExportIInv, ExportTypeInv
<1>1. UNCHANGED <<job, writer, touched, stored>>
  BY DEF Ex!Start
<1>2. CASE Ex!Running = {}
  <2>1. /\ row' = [row EXCEPT ![e].state = "running"] /\ row[e].state = "none" /\ writer = "none"
        /\ build' = [build EXCEPT ![e] = [Ex!NoBuild EXCEPT !.at = "queued"]]
    BY <1>2 DEF Ex!Start
  <2>2. row' \in [Export -> ExportRowState] /\ build' \in [Export -> ExportBuildState]
    <3>1. [row[e] EXCEPT !.state = "running"] \in ExportRowState
      BY DEF ExportRowState
    <3> QED
      BY <2>1, <3>1, ExportFields
  <2>3. build'[e].at = "queued" /\ row'[e].state = "running"
    BY <2>1 DEF Ex!NoBuild, ExportRowState
  <2>4. \A x \in Export : x # e => row'[x] = row[x] /\ build'[x] = build[x]
    BY <2>1
  <2>5. ExportBuildInv'
    BY <1>1, <2>3, <2>4 DEF ExportBuildInv, ExportReadIt, Ex!Settled
  <2> QED
    BY <1>1, <2>1, <2>2, <2>3, <2>4, <2>5
    DEF ExportWriterInv, Ex!FinalIsCorpus, Ex!ReadyHasObjects, Ex!Relied, Ex!Settled
<1>3. CASE Ex!Running # {}
  BY <1>1, <1>3, ExportRowsKept DEF Ex!Start, ExportWriterInv
<1> QED
  BY <1>2, <1>3

LEMMA ExportSnapshotStep ==
  ASSUME ExportIInv, NEW e \in Export, Ex!ReadSnapshot(e)
  PROVE  ExportIInv'
<1> USE DEF ExportIInv, ExportTypeInv
<1>1. UNCHANGED <<job, writer, touched, row, stored>> /\ build[e].at = "snapshot"
  BY DEF Ex!ReadSnapshot
<1>2. PICK names \in {{"results"}, Ex!Object} :
        build' = [build EXCEPT ![e] = [@ EXCEPT !.at = "results", !.final = Ex!Settled,
                                               !.holds = job.corpus, !.names = names]]
  BY DEF Ex!ReadSnapshot
<1>3. /\ build'[e] \in ExportBuildState /\ build'[e].at = "results" /\ build'[e].final = Ex!Settled
      /\ build'[e].holds = job.corpus /\ build'[e].names = names
  <2>1. Ex!Settled \in BOOLEAN /\ job.corpus \in Nat /\ names \in SUBSET Ex!Object
    BY DEF Ex!Settled, ExportJobState, Ex!Object
  <2> QED
    BY <1>2, <2>1 DEF ExportBuildState, Ex!Phase
<1>4. \A x \in Export : x # e => build'[x] = build[x]
  BY <1>2
<1>5. build' \in [Export -> ExportBuildState]
  BY <1>2, <1>3, <1>4
<1>6. names # {} /\ "results" \in names
  BY DEF Ex!Object
<1>7. row[e].state # "ready"
  BY <1>1 DEF ExportBuildInv
<1>8. ExportBuildInv'
  BY <1>1, <1>3, <1>4, <1>6, <1>7 DEF ExportBuildInv, ExportReadIt, Ex!Settled
<1> QED
  BY <1>1, <1>5, <1>8 DEF ExportWriterInv, Ex!FinalIsCorpus, Ex!ReadyHasObjects, Ex!Relied,
     Ex!Settled

LEMMA ExportUploadStep ==
  ASSUME ExportIInv, NEW e \in Export, Ex!Upload(e)
  PROVE  ExportIInv'
<1> USE DEF ExportIInv, ExportTypeInv
<1> DEFINE at == IF build[e].at = "results" /\ "positions" \in build[e].names THEN "positions"
                 ELSE "mark"
<1>1. /\ UNCHANGED <<job, writer, touched, row>> /\ build[e].at \in {"results", "positions"}
      /\ stored' = [stored EXCEPT ![e] = @ \cup {build[e].at}]
      /\ build' = [build EXCEPT ![e].at = at]
  BY DEF Ex!Upload, Ex!To
<1>2. build'[e] \in ExportBuildState /\ build'[e].at = at
  BY <1>1 DEF ExportBuildState, Ex!Phase
<1>3. build'[e].names = build[e].names /\ build'[e].final = build[e].final
      /\ build'[e].holds = build[e].holds
  BY <1>1 DEF ExportBuildState
<1>4. \A x \in Export : x # e => build'[x] = build[x] /\ stored'[x] = stored[x]
  BY <1>1
<1>5. /\ build' \in [Export -> ExportBuildState]
      /\ stored' \in [Export -> SUBSET Ex!Object]
      /\ \A x \in Export : stored[x] \subseteq stored'[x]
      /\ build[e].at \in stored'[e]
  <2>1. build[e].at \in Ex!Object
    BY <1>1 DEF Ex!Object
  <2> QED
    BY <1>1, <1>2, <1>4, <2>1
<1>6. at = "mark" /\ row[e].state = "running" => build[e].names \subseteq stored'[e]
  <2>1. build[e].names \subseteq {"results", "positions"}
    BY DEF ExportBuildState, Ex!Object
  <2>2. row[e].state = "running" /\ build[e].at = "positions" => "results" \in stored'[e]
    BY <1>5 DEF ExportBuildInv
  <2> QED
    BY <1>1, <1>5, <2>1, <2>2
<1>7. row[e].state # "ready"
  BY <1>1 DEF ExportBuildInv
<1>8. at = "positions" => "results" \in stored'[e]
  BY <1>1, <1>5
<1>9. at \in {"positions", "mark"}
  OBVIOUS
<1> HIDE DEF at
<1>10. ExportBuildInv'
  BY <1>1, <1>2, <1>3, <1>4, <1>6, <1>7, <1>8, <1>9 DEF ExportBuildInv, ExportReadIt, Ex!Settled
<1> QED
  BY <1>1, <1>4, <1>5, <1>7, <1>10 DEF ExportWriterInv, Ex!FinalIsCorpus, Ex!ReadyHasObjects,
     Ex!Relied, Ex!Settled

LEMMA ExportMarkStep ==
  ASSUME ExportIInv, NEW e \in Export, Ex!MarkReady(e)
  PROVE  ExportIInv'
<1> USE DEF ExportIInv, ExportTypeInv
<1>1. UNCHANGED <<job, writer, touched>> /\ build[e].at = "mark"
  BY DEF Ex!MarkReady
<1>2. PICK at \in {"none", "failed"} : build' = [build EXCEPT ![e].at = at]
  BY DEF Ex!MarkReady, Ex!To
<1>3. build' \in [Export -> ExportBuildState] /\ build'[e].at = at
  <2>1. build[e] \in ExportBuildState
    OBVIOUS
  <2>2. [build[e] EXCEPT !.at = at] \in ExportBuildState /\ [build[e] EXCEPT !.at = at].at = at
    BY <2>1 DEF ExportBuildState
  <2> QED
    BY <1>2, <2>2
<1>4. \A x \in Export : x # e => build'[x] = build[x]
  BY <1>2
<1>5. CASE row[e].state = "running"
  <2>1. row' = [row EXCEPT ![e] = Ex!Ready(e)] /\ stored' = stored /\ writer = "none"
    BY <1>5 DEF Ex!MarkReady
  <2>2. Ex!Ready(e) \in ExportRowState
    BY DEF Ex!Ready, ExportRowState, ExportBuildState, ExportJobState
  <2>3. /\ row'[e].state = "ready" /\ row'[e].final = (build[e].final /\ job.status = "completed")
        /\ row'[e].holds = build[e].holds /\ row'[e].names = build[e].names
    BY <2>1 DEF Ex!Ready
  <2>4. \A x \in Export : x # e => row'[x] = row[x]
    BY <2>1
  <2>5. ExportBuildInv'
    BY <1>1, <1>3, <1>4, <2>1, <2>3, <2>4 DEF ExportBuildInv, ExportReadIt, Ex!Settled
  <2>6. Ex!FinalIsCorpus'
    BY <1>1, <1>5, <2>3, <2>4 DEF Ex!FinalIsCorpus, Ex!Settled, ExportBuildInv, ExportReadIt
  <2>7. Ex!ReadyHasObjects'
    BY <1>1, <1>5, <2>1, <2>3, <2>4 DEF Ex!ReadyHasObjects, Ex!Relied, ExportBuildInv, ExportReadIt
  <2> QED
    BY <1>1, <1>3, <2>1, <2>2, <2>5, <2>6, <2>7 DEF ExportWriterInv
<1>6. CASE row[e].state # "running"
  <2>1. row' = row /\ stored' = [stored EXCEPT ![e] = {}]
    BY <1>6 DEF Ex!MarkReady
  <2>2. row[e].state # "ready"
    BY <1>1 DEF ExportBuildInv
  <2>3. ExportBuildInv'
    BY <1>1, <1>3, <1>4, <1>6, <2>1, <2>2 DEF ExportBuildInv, ExportReadIt, Ex!Settled
  <2> QED
    BY <1>1, <1>3, <2>1, <2>2, <2>3 DEF ExportWriterInv, Ex!FinalIsCorpus, Ex!ReadyHasObjects,
       Ex!Relied, Ex!Settled
<1> QED
  BY <1>5, <1>6

LEMMA ExportCleanUpStep ==
  ASSUME ExportIInv, NEW e \in Export, Ex!CleanUp(e)
  PROVE  ExportIInv'
<1> USE DEF ExportIInv, ExportTypeInv
<1>1. /\ UNCHANGED <<job, writer, touched, row>> /\ build[e].at = "failed"
      /\ build' = [build EXCEPT ![e].at = "record"]
      /\ stored' = stored \/ (row[e].state # "ready" /\ stored' = [stored EXCEPT ![e] = {}])
  BY DEF Ex!CleanUp, Ex!To, Ex!Named
<1>2. build' \in [Export -> ExportBuildState] /\ build'[e].at = "record"
  BY <1>1, ExportFields DEF ExportBuildState
<1>3. \A x \in Export : x # e => build'[x] = build[x] /\ stored'[x] = stored[x]
  BY <1>1
<1>4. ExportBuildInv'
  BY <1>1, <1>2, <1>3 DEF ExportBuildInv, ExportReadIt, Ex!Settled
<1> QED
  BY <1>1, <1>2, <1>3, <1>4 DEF ExportWriterInv, Ex!FinalIsCorpus, Ex!ReadyHasObjects, Ex!Relied,
     Ex!Settled

LEMMA ExportRecordStep ==
  ASSUME ExportIInv, NEW e \in Export, Ex!RecordFailure(e)
  PROVE  ExportIInv'
<1> USE DEF ExportIInv, ExportTypeInv
<1>1. /\ UNCHANGED <<job, writer, touched, stored>> /\ build[e].at = "record"
      /\ build' = [build EXCEPT ![e].at = "none"] /\ row' = [row EXCEPT ![e] = Ex!Failed(e)]
  BY DEF Ex!RecordFailure, Ex!To
<1>2. build' \in [Export -> ExportBuildState] /\ build'[e].at = "none"
        /\ row' \in [Export -> ExportRowState]
  BY <1>1, ExportFields DEF ExportBuildState
<1>3. \A x \in Export : x # e => build'[x] = build[x] /\ row'[x] = row[x]
  BY <1>1
<1>4. row'[e] = row[e] \/ (row[e].state = "running" /\ row'[e].state = "failed")
  BY <1>1 DEF Ex!Failed, ExportRowState
<1>5. ExportBuildInv'
  BY <1>1, <1>2, <1>3, <1>4 DEF ExportBuildInv, ExportReadIt, Ex!Settled
<1>6. ExportWriterInv'
  BY <1>1, <1>3, <1>4 DEF ExportWriterInv
<1> QED
  BY <1>1, <1>2, <1>3, <1>4, <1>5, <1>6 DEF Ex!FinalIsCorpus, Ex!ReadyHasObjects, Ex!Relied,
     Ex!Settled

LEMMA ExportAgeStep ==
  ASSUME ExportIInv, NEW e \in Export, Ex!Age(e)
  PROVE  ExportIInv'
<1> USE DEF ExportIInv, ExportTypeInv
<1>1. UNCHANGED <<job, writer, touched, build>> /\ row[e].state = "ready"
  BY DEF Ex!Age
<1>2. CASE row[e].aged
  <2>1. row' = row /\ stored' = [stored EXCEPT ![e] = {}]
    BY <1>2 DEF Ex!Age
  <2>2. ExportBuildInv'
    BY <1>1, <2>1 DEF ExportBuildInv, ExportReadIt, Ex!Settled
  <2> QED
    BY <1>1, <1>2, <2>1, <2>2 DEF ExportWriterInv, Ex!FinalIsCorpus, Ex!ReadyHasObjects,
       Ex!Relied, Ex!Settled
<1>3. CASE ~row[e].aged
  <2>1. row' = [row EXCEPT ![e].aged = TRUE] /\ stored' = stored
    BY <1>3 DEF Ex!Age
  <2>2. /\ row'[e] \in ExportRowState /\ row'[e].aged /\ row'[e].state = "ready"
        /\ row'[e].final = row[e].final /\ row'[e].holds = row[e].holds
    BY <1>1, <2>1 DEF ExportRowState
  <2>3. \A x \in Export : x # e => row'[x] = row[x]
    BY <2>1
  <2>4. row' \in [Export -> ExportRowState]
    BY <2>1, <2>2, <2>3
  <2>5. ExportBuildInv'
    BY <1>1, <2>1, <2>2, <2>3 DEF ExportBuildInv, ExportReadIt, Ex!Settled
  <2>6. ExportWriterInv'
    BY <1>1, <2>2, <2>3 DEF ExportWriterInv
  <2>7. Ex!FinalIsCorpus'
    BY <1>1, <2>2, <2>3 DEF Ex!FinalIsCorpus, Ex!Settled
  <2>8. Ex!ReadyHasObjects'
    BY <2>1, <2>2, <2>3 DEF Ex!ReadyHasObjects, Ex!Relied
  <2> QED
    BY <1>1, <2>1, <2>4, <2>5, <2>6, <2>7, <2>8
<1> QED
  BY <1>2, <1>3 DEF ExportRowState

LEMMA ExportPurgeStep ==
  ASSUME ExportIInv, Ex!PurgeCommit
  PROVE  ExportIInv'
<1> USE DEF ExportIInv, ExportTypeInv
<1>1. /\ writer = "purge" /\ writer' = "none" /\ touched' = {} /\ build' = build
     
      /\ row' = [e \in Export |-> IF e \in touched
           THEN [Ex!NoRow EXCEPT !.state = "deleted"] ELSE row[e]]
      /\ stored' = [e \in Export |-> IF e \in touched /\ row[e].state = "ready"
           THEN {} ELSE stored[e]]
      /\ job' = [job EXCEPT !.status = "inactive", !.corpus = @ + 1, !.open = 0, !.staged = FALSE]
  BY DEF Ex!PurgeCommit
<1>2. job' \in ExportJobState
  <2>2. [[[[job EXCEPT !.status =
          "inactive"] EXCEPT !.corpus = @ + 1] EXCEPT !.open = 0] EXCEPT !.staged = FALSE]
          \in ExportJobState
    BY ExportJobFields
  <2> QED
    BY <1>1, <2>2
<1>3. row' \in [Export -> ExportRowState] /\ stored' \in [Export -> SUBSET Ex!Object]
  BY <1>1, ExportFields
<1>4. \A e \in Export : row'[e].state \notin {"running", "ready"}
  BY <1>1 DEF ExportWriterInv, Ex!NoRow, ExportRowState
<1>5. ExportBuildInv'
  BY <1>4 DEF ExportBuildInv, ExportReadIt
<1> QED
  BY <1>1, <1>2, <1>3, <1>4, <1>5 DEF ExportWriterInv, Ex!FinalIsCorpus, Ex!ReadyHasObjects,
     Ex!Relied

LEMMA ExportEditStep ==
  ASSUME ExportIInv, Ex!EditCommit
  PROVE  ExportIInv'
<1> USE DEF ExportIInv, ExportTypeInv
<1>1. writer = "edit" /\ writer' = "none" /\ touched' = {} /\ UNCHANGED <<build, stored>>
  BY DEF Ex!EditCommit
<1>2. job' \in ExportJobState
  <2>1. PICK reopened \in BOOLEAN :
          job' = [job EXCEPT !.corpus = @ + 1, !.status = IF reopened THEN "inactive" ELSE @]
    BY DEF Ex!EditCommit
  <2>2. \A j \in ExportJobState : [j EXCEPT !.corpus = @ + 1] \in ExportJobState
    BY DEF ExportJobState
  <2>3. \A j \in ExportJobState : [j EXCEPT !.status =
          IF reopened THEN "inactive" ELSE @] \in ExportJobState
    BY DEF ExportJobState
  <2>4. [[job EXCEPT !.corpus = @ + 1] EXCEPT !.status =
          IF reopened THEN "inactive" ELSE @] \in ExportJobState
    BY <2>2, <2>3
  <2> QED
    BY <2>1, <2>4
<1>3. CASE job.status = "completed"
  <2>1. row' = [e \in Export |-> IF e \in touched THEN Ex!Unfinalized(e) ELSE row[e]]
    BY <1>3 DEF Ex!EditCommit
  <2>2. row' \in [Export -> ExportRowState]
    BY <2>1, ExportFields
  <2>3. \A e \in Export : /\ row'[e].state # "running"
                          /\ row'[e].state = "ready" =>
                               /\ ~row'[e].final /\ row[e].state = "ready"
                               /\ row'[e].names = row[e].names /\ row'[e].aged = row[e].aged
    <3>1. TAKE e \in Export
    <3>2. CASE e \in touched
      BY <2>1, <3>2 DEF Ex!Unfinalized, Ex!Failed, ExportRowState
    <3>3. CASE e \notin touched
      BY <1>1, <2>1, <3>3 DEF ExportWriterInv, ExportRowState
    <3> QED
      BY <3>2, <3>3
  <2>4. ExportBuildInv'
    BY <1>1, <2>3 DEF ExportBuildInv, ExportReadIt
  <2> QED
    BY <1>1, <1>2, <2>2, <2>3, <2>4 DEF ExportWriterInv, Ex!FinalIsCorpus, Ex!ReadyHasObjects,
       Ex!Relied
<1>4. CASE job.status # "completed"
  <2>1. ~Ex!Settled /\ row' = row
    BY <1>4 DEF Ex!EditCommit, Ex!Settled
  <2> QED
    BY <1>1, <1>2, <2>1 DEF ExportWriterInv, ExportBuildInv, ExportReadIt, Ex!FinalIsCorpus,
       Ex!ReadyHasObjects, Ex!Relied
<1> QED
  BY <1>3, <1>4

LEMMA ExportRestartStep ==
  ASSUME ExportIInv, Ex!Restart
  PROVE  ExportIInv'
<1> USE DEF ExportIInv, ExportTypeInv
<1>1. /\ writer' = "none" /\ touched' = {} /\ UNCHANGED <<job, stored>>
      /\ row' = [e \in Export |-> Ex!Failed(e)]
  BY DEF Ex!Restart
<1>2. PICK goesOn \in SUBSET Export :
        build' = [e \in Export |-> IF e \in goesOn
          THEN [build[e] EXCEPT !.old = TRUE] ELSE Ex!NoBuild]
  BY DEF Ex!Restart
<1>3. /\ build' \in [Export -> ExportBuildState]
      /\ \A e \in Export : build'[e].at \in {build[e].at, "none"}
  <2>1. \A e \in Export : [build[e] EXCEPT !.old = TRUE] \in ExportBuildState
                          /\ [build[e] EXCEPT !.old = TRUE].at = build[e].at
    BY DEF ExportBuildState
  <2>2. Ex!NoBuild.at = "none"
    BY DEF Ex!NoBuild
  <2> QED
    BY <1>2, <2>1, <2>2, ExportFields
<1>4. row' \in [Export -> ExportRowState]
  BY <1>1, ExportFields
<1>5. \A e \in Export : /\ row'[e].state # "running"
                        /\ row'[e].state = "ready" => row'[e] = row[e]
  BY <1>1 DEF Ex!Failed, ExportRowState
<1>6. ExportBuildInv'
  BY <1>3, <1>5 DEF ExportBuildInv, ExportReadIt
<1> QED
  BY <1>1, <1>3, <1>4, <1>5, <1>6 DEF ExportWriterInv, Ex!FinalIsCorpus, Ex!ReadyHasObjects,
     Ex!Relied, Ex!Settled

LEMMA ExportNextInv ==
  ASSUME ExportIInv, [Ex!Next]_Ex!vars
  PROVE  ExportIInv'
<1>1. CASE UNCHANGED Ex!vars
  BY <1>1, ExportRowsKept DEF Ex!vars, ExportIInv, ExportTypeInv, ExportWriterInv
<1>2. CASE Ex!StartAsk
  BY <1>2, ExportRowsKept DEF Ex!StartAsk, Ex!exports, ExportIInv, ExportTypeInv, ExportWriterInv
<1>3. ASSUME NEW w \in {"purge", "edit"}, Ex!Begin(w)  PROVE ExportIInv'
  BY <1>3, ExportRowsKept DEF Ex!Begin, Ex!exports, ExportIInv, ExportTypeInv, ExportWriterInv
<1>4. CASE Ex!RollBack
  BY <1>4, ExportRowsKept DEF Ex!RollBack, Ex!exports, ExportIInv, ExportTypeInv, ExportWriterInv
<1>5. ASSUME NEW e \in Export, Ex!Turn(e)  PROVE ExportIInv'
  <2>1. row[e].state # "ready"
    BY <1>5 DEF Ex!Turn, ExportIInv, ExportBuildInv
  <2> QED
    BY <1>5, <2>1, ExportBuildMoves DEF Ex!Turn, Ex!To
<1>6. ASSUME NEW e \in Export, Ex!Settle(e)  PROVE ExportIInv'
  <2>1. row[e].state # "ready"
    BY <1>6 DEF Ex!Settle, ExportIInv, ExportBuildInv
  <2>2. job' = job \/ (~Ex!Settled /\ job' \in ExportJobState)
    BY <1>6, ExportFields DEF Ex!Settle, Ex!Settled, ExportIInv, ExportTypeInv
  <2> QED
    BY <1>6, <2>1, <2>2, ExportBuildMoves DEF Ex!Settle, Ex!To
<1>7. ASSUME NEW e \in Export, Ex!BuildFails(e) \/ Ex!BuildStopped(e)  PROVE ExportIInv'
  BY <1>7, ExportBuildMoves DEF Ex!BuildFails, Ex!BuildStopped, Ex!To
<1> QED
  BY <1>1, <1>2, <1>3, <1>4, <1>5, <1>6, <1>7, ExportJobStep, ExportStartStep,
     ExportSnapshotStep, ExportUploadStep,
     ExportMarkStep, ExportCleanUpStep, ExportRecordStep, ExportAgeStep, ExportPurgeStep,
        ExportEditStep, ExportRestartStep
  DEF Ex!Next

LEMMA ExportInvariant == Ex!Spec => []ExportIInv
<1>1. Ex!Init => ExportIInv
  <2>1. Ex!Init => job \in ExportJobState
    <3>1. {"active"} \subseteq {"active", "completed", "inactive"} /\ {0} \subseteq Nat
          /\ {FALSE} \subseteq BOOLEAN
      OBVIOUS
    <3> QED
      BY <3>1, Zenon DEF Ex!Init, ExportJobState
  <2>2. Ex!Init => ExportTypeInv
    <3>1. Ex!NoBuild \in ExportBuildState /\ Ex!NoRow \in ExportRowState
      BY ExportFields
    <3>2. Ex!Init => /\ row \in [Export -> ExportRowState]
                     /\ stored \in [Export -> SUBSET Ex!Object]
                     /\ build \in [Export -> ExportBuildState]
      BY <3>1 DEF Ex!Init
    <3>3. Ex!Init => writer = "none" /\ touched = {}
      BY DEF Ex!Init
    <3> QED
      BY <2>1, <3>2, <3>3 DEF ExportTypeInv
  <2>3. Ex!Init => \A e \in Export : row[e].state = "none"
    BY DEF Ex!Init, Ex!NoRow
  <2> QED
    BY <2>2, <2>3
    DEF Ex!Init, ExportIInv, ExportWriterInv, ExportBuildInv, ExportReadIt, Ex!FinalIsCorpus,
       Ex!ReadyHasObjects, Ex!Relied
<1> QED
  BY <1>1, ExportNextInv, PTL DEF Ex!Spec

LEMMA ExportFinalHolds == Ex!Spec => []Ex!FinalIsCorpus
<1>1. ExportIInv => Ex!FinalIsCorpus
  BY DEF ExportIInv
<1> QED
  BY <1>1, ExportInvariant, PTL

LEMMA ExportObjectsThere == Ex!Spec => []Ex!ReadyHasObjects
<1>1. ExportIInv => Ex!ReadyHasObjects
  BY DEF ExportIInv
<1> QED
  BY <1>1, ExportInvariant, PTL


(***************************************************************************)
(* RatingSweep                                                             *)
(*                                                                         *)
(* A run says of its evidence no more than there is, and if that is all    *)
(* there is, so are its pairs (Fits): a result only adds to it, whatever   *)
(* removes from it marks the run, and a fit reads the sum before the rows. *)
(* The rows of a job in its present era are never more than it has now, so *)
(* as many of them in all are all of each job's (Stand).  The sums are of  *)
(* any finite set of jobs.                                                 *)
(***************************************************************************)

RatingRowsState == [GameJob -> [era : Nat, pairs : Nat]]
RatingFitState == [by : {"none", "sweep", "admin", "anchor"},
             at : {"none", "sum", "check", "members", "rows", "store"},
             sum : Int, members : SUBSET Config, pairs : Int, rows : RatingRowsState,
             anchor : SUBSET Config]
RatingRunState == [pairs : Int, rows : RatingRowsState, sum : Int, members : SUBSET Config, anchor : SUBSET Config]

RatingTypeInv ==
  /\ played \in [GameJob -> Nat] /\ era \in [GameJob -> Nat] /\ pool \in BOOLEAN
  /\ members \in SUBSET Config /\ anchor \in Config
  /\ lock \in {"none", "fit", "purge", "removal"}
  /\ newest \in RatingRunState /\ fit \in RatingFitState

(* A fit is under way while its lock is held, and is of the pool's anchor  *)
(* or of the one it is to have.                                            *)
RatingLockInv ==
  /\ lock # "fit" => fit = Ra!NoFit
  /\ lock = "fit" => /\ pool /\ fit.at # "none"
                     /\ \E a \in Config : fit.anchor = {a}
                     /\ fit.by # "anchor" => fit.anchor = {anchor}

(* No removal is under way of the anchor.                                  *)
RatingRemovalInv ==
  target # {} /\ target \subseteq Config => lock = "removal" /\ anchor \notin target

RatingMemberInv == pool => anchor \in members

RatingNewestInv == newest # Ra!NoRun => pool /\ newest.anchor = {anchor}

(* What a run, or a fit about to be stored, says of its evidence: its sum  *)
(* is at most what there is, and if it is all there is so are its pairs.   *)
RatingFits(r) ==
  r.sum # Ra!Null => /\ r.sum <= Ra!Sum(r.members)
                     /\ r.sum = Ra!Sum(r.members) => r.pairs = Ra!Pairs(r.members, r.members)

RatingEvidenceInv ==
  /\ RatingFits(newest)
  /\ fit.at \in {"check", "members"} => fit.sum \in Nat /\ fit.sum <= Ra!Sum(Ra!Seen)
  /\ fit.at = "rows"  =>
       fit.sum \in Nat /\ fit.members \subseteq Ra!Seen /\ fit.sum <= Ra!Sum(fit.members)
  /\ fit.at = "store" => fit.sum \in Nat /\ fit.pairs \in Nat /\ RatingFits(fit)

(* Rows of a job's present era are of pairs it has, and the pairs said to  *)
(* be fitted are those of the rows.                                        *)
RatingRowsStand(rs) ==
  \A j \in GameJob : /\ rs[j].era <= era[j]
                     /\ rs[j].era = era[j] => rs[j].pairs <= played[j]

RatingRowPairs(rs) == [j \in GameJob |-> rs[j].pairs]

RatingRowsCount(r) ==
  r.pairs = Ra!SumFunctionOnSet(RatingRowPairs(r.rows), Ra!Counted(r.members, r.members))

RatingRowsInv ==
  /\ RatingRowsStand(newest.rows) /\ RatingRowsStand(fit.rows)
  /\ newest.pairs # Ra!Null => RatingRowsCount(newest)
  /\ fit.at = "store" => RatingRowsCount(fit)

RatingIInv == RatingTypeInv /\ RatingLockInv /\ RatingRemovalInv /\ RatingMemberInv
  /\ RatingNewestInv /\ RatingEvidenceInv /\ RatingRowsInv

(* The sum the model speaks of is the one the lemmas are about.            *)
LEMMA RatingSumsAre == \A f, S : Ra!SumFunctionOnSet(f, S) = SumFunctionOnSet(f, S)
BY DEF Ra!SumFunctionOnSet, Ra!FoldFunctionOnSet, Ra!MapThenFoldSet,
       SumFunctionOnSet, FoldFunctionOnSet, MapThenFoldSet

(* The sums are counts, and more members have no less evidence.            *)
LEMMA RatingAmounts ==
  ASSUME played \in [GameJob -> Nat]
  PROVE  /\ \A ms : Ra!Sum(ms) \in Nat
         /\ \A ms, is : Ra!Pairs(ms, is) \in Nat
         /\ \A ms, ns : ms \subseteq ns => Ra!Sum(ms) <= Ra!Sum(ns)
<1> USE RecordsAssumption
<1>1. \A j \in GameJob : played[j] \in Nat
  OBVIOUS
<1>2. ASSUME NEW S \in SUBSET GameJob, NEW T \in SUBSET S
      PROVE  /\ SumFunctionOnSet(played, S) \in Nat
             /\ SumFunctionOnSet(played, T) <= SumFunctionOnSet(played, S)
  <2>1. IsFiniteSet(S)
    BY FS_Subset
  <2> QED
    BY <1>1, <2>1, SumPart
<1>3. \A ms, is : Ra!Of(ms) \in SUBSET GameJob /\ Ra!Counted(ms, is) \in SUBSET GameJob
  BY DEF Ra!Of, Ra!Counted
<1>4. \A ms, ns : ms \subseteq ns => Ra!Of(ms) \in SUBSET Ra!Of(ns)
  BY DEF Ra!Of
<1>5. \A ms : Ra!Sum(ms) \in Nat
  BY <1>2, <1>3, RatingSumsAre DEF Ra!Sum
<1>6. \A ms, is : Ra!Pairs(ms, is) \in Nat
  BY <1>2, <1>3, RatingSumsAre DEF Ra!Pairs
<1>7. \A ms, ns : ms \subseteq ns => Ra!Sum(ms) <= Ra!Sum(ns)
  BY <1>2, <1>3, <1>4, RatingSumsAre DEF Ra!Sum
<1> QED
  BY <1>5, <1>6, <1>7

(* A result of a job adds to what the job is evidence for, and if it adds  *)
(* to none of it the pairs are as they were.                               *)
LEMMA RatingResultAdds ==
  ASSUME played \in [GameJob -> Nat], NEW j \in GameJob, Ra!Result(j)
  PROVE  \A ms : /\ Ra!Sum(ms)' \in Nat /\ Ra!Pairs(ms, ms)' \in Nat
                 /\ Ra!Sum(ms) <= Ra!Sum(ms)'
                 /\ Ra!Sum(ms) = Ra!Sum(ms)' => Ra!Pairs(ms, ms) = Ra!Pairs(ms, ms)'
<1> USE RecordsAssumption
<1>1. /\ played' \in [GameJob -> Nat]
      /\ \A i \in GameJob : played[i] \in Int /\ played'[i] \in Int /\ played[i] <= played'[i]
  BY DEF Ra!Result
<1>2. TAKE ms
<1>3. Ra!Of(ms) \in SUBSET GameJob /\ Ra!Counted(ms, ms) \in SUBSET Ra!Of(ms)
  BY DEF Ra!Of, Ra!Counted
<1>4. IsFiniteSet(Ra!Of(ms)) /\ IsFiniteSet(Ra!Counted(ms, ms))
  BY <1>3, FS_Subset
<1>5. Ra!Sum(ms)' = SumFunctionOnSet(played', Ra!Of(ms))
  BY RatingSumsAre DEF Ra!Sum, Ra!Of
<1>6. Ra!Pairs(ms, ms)' = SumFunctionOnSet(played', Ra!Counted(ms, ms))
  BY RatingSumsAre DEF Ra!Pairs, Ra!Counted, Ra!Of
<1>7. /\ Ra!Sum(ms) <= Ra!Sum(ms)'
      /\ Ra!Sum(ms) = Ra!Sum(ms)' => \A i \in Ra!Of(ms) : played[i] = played'[i]
  BY <1>1, <1>3, <1>4, <1>5, SumCompare, RatingSumsAre DEF Ra!Sum
<1>8. ASSUME \A i \in Ra!Of(ms) : played[i] = played'[i]
      PROVE  Ra!Pairs(ms, ms) = Ra!Pairs(ms, ms)'
  BY <1>1, <1>3, <1>4, <1>6, <1>8, SumSame, RatingSumsAre DEF Ra!Pairs
<1>9. Ra!Sum(ms)' \in Nat /\ Ra!Pairs(ms, ms)' \in Nat
  <2>1. \A i \in GameJob : played'[i] \in Nat
    BY <1>1
  <2> QED
    BY <1>3, <1>4, <1>5, <1>6, <2>1, SumPart
<1> QED
  BY <1>7, <1>8, <1>9

(* Fields of what the two records may be.                                  *)
LEMMA RatingRecords ==
  /\ Ra!NoFit \in RatingFitState /\ Ra!NoRun \in RatingRunState
  /\ \A r \in RatingRunState : Ra!Marked(r) \in RatingRunState /\ Ra!Marked(r).sum = Ra!Null
                         /\ (Ra!Marked(r) # Ra!NoRun =>
                              r # Ra!NoRun) /\ Ra!Marked(r).anchor = r.anchor
<1>1. Ra!NoRows \in RatingRowsState
  BY DEF Ra!NoRows, RatingRowsState
<1> QED
  BY <1>1 DEF Ra!NoFit, Ra!NoRun, RatingFitState, RatingRunState, Ra!Marked, Ra!Null

LEMMA RatingFitFields ==
  ASSUME NEW f \in RatingFitState, NEW n \in Nat, NEW rs \in RatingRowsState
  PROVE  /\ [f EXCEPT !.at = "check", !.sum = n] \in RatingFitState
         /\ [f EXCEPT !.at = "store", !.pairs = n, !.rows = rs] \in RatingFitState
<1>1. [f EXCEPT !.at = "check"] \in RatingFitState /\ [f EXCEPT !.at = "store"] \in RatingFitState
  BY DEF RatingFitState
<1>2. \A g \in RatingFitState : [g EXCEPT !.sum = n] \in RatingFitState
        /\ [g EXCEPT !.pairs = n] \in RatingFitState /\ [g EXCEPT !.rows = rs] \in RatingFitState
  BY DEF RatingFitState
<1>3. /\ [[f EXCEPT !.at = "check"] EXCEPT !.sum = n] \in RatingFitState
      /\ [[[f EXCEPT !.at = "store"] EXCEPT !.pairs = n] EXCEPT !.rows = rs] \in RatingFitState
  BY <1>1, <1>2
<1> QED
  BY <1>3

LEMMA RatingTypeStep ==
  ASSUME RatingIInv, [Ra!Next]_Ra!vars
  PROVE  RatingTypeInv'
<1> USE DEF RatingIInv, RatingTypeInv
<1>1. CASE UNCHANGED Ra!vars
  BY <1>1 DEF Ra!vars
<1>2. ASSUME NEW j \in GameJob, Ra!Result(j) \/ Ra!Purge(j)  PROVE RatingTypeInv'
  BY <1>2 DEF Ra!Result, Ra!Purge, Ra!Takes
<1>3. ASSUME NEW committed \in BOOLEAN, Ra!PurgeEnds(committed)  PROVE RatingTypeInv'
  BY <1>3, RatingRecords DEF Ra!PurgeEnds, Ra!Frees
<1>4. ASSUME NEW by \in {"sweep", "admin", "anchor"}, NEW a \in Config, Ra!Begin(by, a)
      PROVE  RatingTypeInv'
  <2>1. fit' = [by |-> by, at |-> "sum", sum |-> 0, members |-> {}, pairs |-> 0, rows |-> Ra!NoRows,
                anchor |-> {a}]
    BY <1>4 DEF Ra!Begin, Ra!NoFit
  <2>2. fit' \in RatingFitState
    BY <2>1 DEF RatingFitState, RatingRowsState, Ra!NoRows
  <2> QED
    BY <1>4, <2>2 DEF Ra!Begin, Ra!Takes
<1>5. CASE Ra!ReadSum
  <2>1. Ra!Sum(Ra!Seen) \in Nat /\ Ra!NoRows \in RatingRowsState
    BY RatingAmounts DEF Ra!NoRows, RatingRowsState
  <2>2. [fit EXCEPT !.at = "check", !.sum = Ra!Sum(Ra!Seen)] \in RatingFitState
    BY <2>1, RatingFitFields
  <2> QED
    BY <1>5, <2>1, <2>2 DEF Ra!ReadSum
<1>6. CASE Ra!Check
  BY <1>6, RatingRecords DEF Ra!Check, Ra!Frees, RatingFitState
<1>7. CASE Ra!ReadMembers
  BY <1>7 DEF Ra!ReadMembers, Ra!Fitting, Ra!Seen, RatingFitState
<1>8. CASE Ra!ReadRows
  <2>1. /\ Ra!Pairs(Ra!Seen, fit.members) \in Nat
        /\ Ra!Rows(Ra!Seen, fit.members) \in RatingRowsState
    BY RatingAmounts DEF Ra!Rows, RatingRowsState
  <2>2. [fit EXCEPT !.at = "store", !.pairs = Ra!Pairs(Ra!Seen, fit.members),
                    !.rows = Ra!Rows(Ra!Seen, fit.members)] \in RatingFitState
    BY <2>1, RatingFitFields
  <2> QED
    BY <1>8, <2>1, <2>2 DEF Ra!ReadRows
<1>9. CASE Ra!Store
  <2>1. PICK a \in Config : fit.anchor = {a}
    BY <1>9 DEF Ra!Store, Ra!Fitting, RatingLockInv
  <2>2. anchor' = a /\ members' = members \cup {a}
    BY <1>9, <2>1 DEF Ra!Store
  <2>3. newest' \in RatingRunState
    BY <1>9 DEF Ra!Store, Ra!Run, Ra!Recorded, RatingFitState, RatingRunState
  <2> QED
    BY <1>9, <2>2, <2>3, RatingRecords DEF Ra!Store, Ra!Frees
<1>10. CASE Ra!FitFails
  BY <1>10, RatingRecords DEF Ra!FitFails, Ra!Frees
<1>11. ASSUME NEW c \in Config, Ra!AddMember(c) \/ Ra!RemoveChecks(c) \/ Ra!CreatePool(c)
       PROVE  RatingTypeInv'
  BY <1>11 DEF Ra!AddMember, Ra!RemoveChecks, Ra!CreatePool, Ra!Takes
<1>12. CASE Ra!Removes
  BY <1>12 DEF Ra!Removes
<1>13. CASE Ra!DeletePool
  BY <1>13, RatingRecords DEF Ra!DeletePool
<1> QED
  BY <1>1, <1>2, <1>3, <1>4, <1>5, <1>6, <1>7, <1>8, <1>9, <1>10, <1>11, <1>12, <1>13
  DEF Ra!Next, Ra!SweepBegins, Ra!RecomputeBegins, Ra!UpdatePool

(* The lock, the anchor and the members.                                   *)
LEMMA RatingAnchorStep ==
  ASSUME RatingIInv, [Ra!Next]_Ra!vars, RatingTypeInv'
  PROVE  RatingLockInv' /\ RatingRemovalInv' /\ RatingMemberInv' /\ RatingNewestInv'
<1> DEFINE Inv == RatingLockInv /\ RatingRemovalInv /\ RatingMemberInv /\ RatingNewestInv
<1> USE RecordsAssumption DEF RatingIInv, RatingTypeInv, RatingLockInv, RatingRemovalInv,
   RatingMemberInv, RatingNewestInv
<1>1. CASE UNCHANGED Ra!vars
  BY <1>1 DEF Ra!vars
<1>2. ASSUME NEW j \in GameJob, Ra!Result(j)  PROVE Inv'
  BY <1>2 DEF Ra!Result
<1>14. ASSUME NEW j \in GameJob, Ra!Purge(j)  PROVE Inv'
  BY <1>14 DEF Ra!Purge, Ra!Takes
<1>3. ASSUME NEW committed \in BOOLEAN, Ra!PurgeEnds(committed)  PROVE Inv'
  BY <1>3, RatingRecords DEF Ra!PurgeEnds, Ra!Frees
<1>4. ASSUME NEW by \in {"sweep", "admin", "anchor"}, NEW a \in Config, Ra!Begin(by, a),
             pool, by # "anchor" => a = anchor
      PROVE  Inv'
  BY <1>4 DEF Ra!Begin, Ra!Takes, Ra!NoFit
<1>5. CASE Ra!ReadSum
  BY <1>5 DEF Ra!ReadSum, Ra!Fitting, RatingFitState
<1>6. CASE Ra!Check
  BY <1>6 DEF Ra!Check, Ra!Fitting, Ra!Frees, RatingFitState
<1>7. CASE Ra!ReadMembers
  BY <1>7 DEF Ra!ReadMembers, Ra!Fitting, RatingFitState
<1>8. CASE Ra!ReadRows
  BY <1>8 DEF Ra!ReadRows, Ra!Fitting, RatingFitState
<1>9. CASE Ra!Store
  <2>1. PICK a \in Config : fit.anchor = {a}
    BY <1>9 DEF Ra!Store, Ra!Fitting
  <2>2. anchor' = a /\ members' = members \cup {a} /\ UNCHANGED <<pool, target>>
    BY <1>9, <2>1 DEF Ra!Store
  <2>3. fit' = Ra!NoFit /\ lock = "fit" /\ lock' = "none"
    BY <1>9 DEF Ra!Store, Ra!Fitting, Ra!Frees
  <2>4. newest'.anchor = {a}
    <3>1. CASE Ra!SameEvidence
      <4>1. newest # Ra!NoRun /\ a = anchor
        <5>1. fit.pairs \in Nat
          BY <1>9 DEF Ra!Store, Ra!Fitting, RatingEvidenceInv
        <5> QED
          BY <2>1, <2>3, <3>1, <5>1 DEF Ra!SameEvidence, Ra!NoRun, Ra!Null
      <4> QED
        BY <1>9, <3>1, <4>1 DEF Ra!Store, RatingRunState
    <3>2. CASE ~Ra!SameEvidence
      BY <1>9, <2>1, <3>2 DEF Ra!Store, Ra!Run
    <3> QED
      BY <3>1, <3>2
  <2> QED
    BY <2>2, <2>3, <2>4
<1>10. CASE Ra!FitFails
  BY <1>10 DEF Ra!FitFails, Ra!Frees
<1>11. ASSUME NEW c \in Config, Ra!AddMember(c) \/ Ra!RemoveChecks(c)  PROVE Inv'
  BY <1>11 DEF Ra!AddMember, Ra!RemoveChecks, Ra!Takes
<1>15. ASSUME NEW c \in Config, Ra!CreatePool(c)  PROVE Inv'
  BY <1>15 DEF Ra!CreatePool
<1>12. CASE Ra!Removes
  BY <1>12 DEF Ra!Removes
<1>13. CASE Ra!DeletePool
  BY <1>13 DEF Ra!DeletePool
<1> QED
  BY <1>1, <1>2, <1>3, <1>4, <1>5, <1>6, <1>7, <1>8, <1>9, <1>10, <1>11, <1>12, <1>13, <1>14, <1>15
  DEF Ra!Next, Ra!SweepBegins, Ra!RecomputeBegins, Ra!UpdatePool

(* The evidence a fit says it read.                                        *)
LEMMA RatingEvidenceStep ==
  ASSUME RatingIInv, [Ra!Next]_Ra!vars, RatingTypeInv'
  PROVE  RatingEvidenceInv'
<1> USE DEF RatingIInv, RatingTypeInv, RatingEvidenceInv
<1>1. ASSUME UNCHANGED <<played, newest, fit>>, members \subseteq members'  PROVE RatingEvidenceInv'
  <2>1. Ra!Sum(Ra!Seen) <= Ra!Sum(Ra!Seen)' /\ Ra!Seen \subseteq Ra!Seen'
    <3>1. Ra!Seen \subseteq Ra!Seen'
      BY <1>1 DEF Ra!Seen
    <3>2. Ra!Sum(Ra!Seen)' = Ra!Sum(Ra!Seen')
      BY <1>1 DEF Ra!Sum, Ra!Of
    <3> QED
      BY <3>1, <3>2, RatingAmounts
  <2>2. \A ms : Ra!Sum(ms)' = Ra!Sum(ms) /\ Ra!Pairs(ms, ms)' = Ra!Pairs(ms, ms)
    BY <1>1 DEF Ra!Sum, Ra!Pairs, Ra!Of, Ra!Counted
  <2>3. RatingFits(newest)' = RatingFits(newest) /\ RatingFits(fit)' = RatingFits(fit)
          /\ Ra!Sum(fit.members)' = Ra!Sum(fit.members)
    BY <1>1, <2>2 DEF RatingFits
  <2>4. Ra!Sum(Ra!Seen) \in Nat /\ Ra!Sum(Ra!Seen)' \in Nat
    BY <2>2, RatingAmounts
  <2> QED
    BY <1>1, <2>1, <2>3, <2>4
<1>2. ASSUME NEW j \in GameJob, Ra!Result(j)  PROVE RatingEvidenceInv'
  <2>1. UNCHANGED <<newest, fit, members>> /\ Ra!Seen' = Ra!Seen
    BY <1>2 DEF Ra!Result, Ra!Seen
  <2>2. \A ms : /\ Ra!Sum(ms)' \in Nat /\ Ra!Sum(ms) \in Nat
                /\ Ra!Sum(ms) <= Ra!Sum(ms)'
                /\ Ra!Sum(ms) = Ra!Sum(ms)' => Ra!Pairs(ms, ms) = Ra!Pairs(ms, ms)'
    BY <1>2, RatingAmounts, RatingResultAdds
  <2>3. RatingFits(newest)'
    BY <2>1, <2>2 DEF RatingFits, RatingRunState
  <2>4. fit.at = "store" => RatingFits(fit)'
    BY <2>1, <2>2 DEF RatingFits, RatingFitState
  <2>5. Ra!Sum(Ra!Seen) <= Ra!Sum(Ra!Seen)' /\ Ra!Sum(Ra!Seen)' \in Nat /\ Ra!Sum(Ra!Seen) \in Nat
    <3>1. Ra!Of(Ra!Seen)' = Ra!Of(Ra!Seen)
      BY <2>1 DEF Ra!Of
    <3>2. \A ms : Ra!Sum(ms)' = SumFunctionOnSet(played', Ra!Of(ms))
      BY RatingSumsAre DEF Ra!Sum, Ra!Of
    <3>3. Ra!Sum(Ra!Seen)' = SumFunctionOnSet(played', Ra!Of(Ra!Seen)')
      BY RatingSumsAre DEF Ra!Sum
    <3> QED
      BY <2>2, <3>1, <3>2, <3>3
  <2>6. Ra!Sum(fit.members) <= Ra!Sum(fit.members)' /\ Ra!Sum(fit.members)' \in Nat
          /\ Ra!Sum(fit.members) \in Nat
    BY <2>1, <2>2
  <2> QED
    BY <2>1, <2>3, <2>4, <2>5, <2>6 DEF RatingFitState
<1>3. ASSUME NEW j \in GameJob, Ra!Purge(j)  PROVE RatingEvidenceInv'
  BY <1>1, <1>3 DEF Ra!Purge
<1>4. ASSUME NEW committed \in BOOLEAN, Ra!PurgeEnds(committed)  PROVE RatingEvidenceInv'
  <2>1. fit.at = "none" /\ fit' = fit
    BY <1>4 DEF Ra!PurgeEnds, RatingLockInv, Ra!NoFit
  <2>2. RatingFits(newest)'
    <3>1. CASE committed
      <4>1. newest'.sum = Ra!Null
        BY <1>4, <3>1, RatingRecords DEF Ra!PurgeEnds
      <4> QED
        BY <4>1 DEF RatingFits
    <3>2. CASE ~committed
      BY <1>1, <1>4, <3>2 DEF Ra!PurgeEnds
    <3> QED
      BY <3>1, <3>2
  <2> QED
    BY <2>1, <2>2
<1>5. ASSUME NEW by, NEW a, Ra!Begin(by, a)  PROVE RatingEvidenceInv'
  <2>1. fit'.at = "sum" /\ UNCHANGED <<newest, played>>
    BY <1>5 DEF Ra!Begin, Ra!NoFit
  <2>2. RatingFits(newest)' = RatingFits(newest)
    BY <2>1 DEF RatingFits, Ra!Sum, Ra!Pairs, Ra!Of, Ra!Counted
  <2> QED
    BY <2>1, <2>2
<1>6. CASE Ra!ReadSum
  <2>1. fit'.at = "check" /\ fit'.sum = Ra!Sum(Ra!Seen) /\ UNCHANGED <<newest, played, members>>
        /\ fit'.anchor = fit.anchor
    BY <1>6 DEF Ra!ReadSum, Ra!Fitting, RatingFitState
  <2>2. RatingFits(newest)' = RatingFits(newest)
    BY <2>1 DEF RatingFits, Ra!Sum, Ra!Pairs, Ra!Of, Ra!Counted
  <2>3. Ra!Sum(Ra!Seen)' = Ra!Sum(Ra!Seen) /\ Ra!Sum(Ra!Seen) \in Nat
    <3>1. Ra!Seen' = Ra!Seen
      BY <2>1 DEF Ra!Seen
    <3> QED
      BY <2>1, <3>1, RatingAmounts DEF Ra!Sum, Ra!Of
  <2> QED
    BY <2>1, <2>2, <2>3
<1>7. CASE Ra!Check
  <2>1. \/ fit'.at = "none"
        \/ /\ fit.at = "check" /\ fit'.at = "members" /\ fit'.sum = fit.sum
           /\ fit'.anchor = fit.anchor /\ fit'.members = fit.members
    BY <1>7 DEF Ra!Check, Ra!Fitting, Ra!NoFit, RatingFitState
  <2>2. UNCHANGED <<newest, played, members>>
    BY <1>7 DEF Ra!Check
  <2>3. RatingFits(newest)' = RatingFits(newest)
    BY <2>2 DEF RatingFits, Ra!Sum, Ra!Pairs, Ra!Of, Ra!Counted
  <2>4. CASE fit'.at = "members" /\ fit.at = "check"
    <3>1. Ra!Seen' = Ra!Seen
      BY <2>1, <2>2, <2>4 DEF Ra!Seen
    <3>2. Ra!Sum(Ra!Seen)' = Ra!Sum(Ra!Seen)
      BY <2>2, <3>1 DEF Ra!Sum, Ra!Of
    <3> QED
      BY <2>1, <2>3, <2>4, <3>2
  <2> QED
    BY <2>1, <2>3, <2>4
<1>8. CASE Ra!ReadMembers
  <2>1. /\ fit.at = "members" /\ fit'.at = "rows" /\ fit'.sum = fit.sum
        /\ fit'.anchor = fit.anchor /\ fit'.members = Ra!Seen
        /\ UNCHANGED <<newest, played, members>>
    BY <1>8 DEF Ra!ReadMembers, Ra!Fitting, RatingFitState
  <2>2. RatingFits(newest)' = RatingFits(newest)
    BY <2>1 DEF RatingFits, Ra!Sum, Ra!Pairs, Ra!Of, Ra!Counted
  <2>3. Ra!Seen' = Ra!Seen
    BY <2>1 DEF Ra!Seen
  <2>4. Ra!Sum(fit.members)' = Ra!Sum(Ra!Seen)
    BY <2>1 DEF Ra!Sum, Ra!Of
  <2> QED
    BY <2>1, <2>2, <2>3, <2>4
<1>9. CASE Ra!ReadRows
  <2>1. /\ fit.at = "rows" /\ fit'.at = "store" /\ fit'.sum = fit.sum
        /\ fit'.members = fit.members /\ fit'.pairs = Ra!Pairs(Ra!Seen, fit.members)
        /\ UNCHANGED <<newest, played, members>>
    BY <1>9 DEF Ra!ReadRows, Ra!Fitting, RatingFitState
  <2>2. RatingFits(newest)' = RatingFits(newest)
    BY <2>1 DEF RatingFits, Ra!Sum, Ra!Pairs, Ra!Of, Ra!Counted
  <2>3. Ra!Counted(Ra!Seen, fit.members) = Ra!Counted(fit.members, fit.members)
    BY <2>1 DEF Ra!Counted, Ra!Of
  <2>4. Ra!Pairs(Ra!Seen, fit.members) = Ra!Pairs(fit.members, fit.members)
    BY <2>3 DEF Ra!Pairs
  <2>5. /\ Ra!Sum(fit.members)' = Ra!Sum(fit.members)
        /\ Ra!Pairs(fit.members, fit.members)' = Ra!Pairs(fit.members, fit.members)
    BY <2>1 DEF Ra!Sum, Ra!Pairs, Ra!Of, Ra!Counted
  <2>6. Ra!Pairs(Ra!Seen, fit.members) \in Nat
    BY RatingAmounts
  <2> QED
    BY <2>1, <2>2, <2>4, <2>5, <2>6 DEF RatingFits
<1>10. CASE Ra!Store
  <2>1. fit'.at = "none" /\ fit.at = "store" /\ UNCHANGED played
    BY <1>10 DEF Ra!Store, Ra!Fitting, Ra!NoFit
  <2>2. newest'.sum = fit.sum /\ newest'.members = fit.members /\ newest'.pairs = fit.pairs
    BY <1>10 DEF Ra!Store, Ra!SameEvidence, Ra!Run, Ra!Recorded, RatingRunState
  <2>3. RatingFits(newest)' = RatingFits(fit)
    BY <2>1, <2>2 DEF RatingFits, Ra!Sum, Ra!Pairs, Ra!Of, Ra!Counted
  <2> QED
    BY <2>1, <2>3
<1>11. CASE Ra!FitFails
  <2>1. fit'.at = "none" /\ UNCHANGED <<newest, played>>
    BY <1>11 DEF Ra!FitFails, Ra!NoFit
  <2> QED
    BY <2>1 DEF RatingFits, Ra!Sum, Ra!Pairs, Ra!Of, Ra!Counted
<1>12. ASSUME NEW c \in Config, Ra!AddMember(c) \/ Ra!RemoveChecks(c)  PROVE RatingEvidenceInv'
  BY <1>1, <1>12 DEF Ra!AddMember, Ra!RemoveChecks
<1>13. ASSUME UNCHANGED played, fit = Ra!NoFit, fit' = Ra!NoFit, newest' \in {newest, Ra!NoRun}
       PROVE  RatingEvidenceInv'
  <2>1. fit'.at = "none"
    BY <1>13 DEF Ra!NoFit
  <2>2. newest' = Ra!NoRun => newest'.sum = Ra!Null
    BY DEF Ra!NoRun
  <2>3. RatingFits(newest)'
    BY <1>13, <2>2 DEF RatingFits, Ra!Sum, Ra!Pairs, Ra!Of, Ra!Counted
  <2> QED
    BY <2>1, <2>3
<1>14. CASE Ra!Removes
  BY <1>13, <1>14 DEF Ra!Removes, RatingRemovalInv, RatingLockInv
<1>15. CASE Ra!DeletePool
  BY <1>13, <1>15 DEF Ra!DeletePool, RatingLockInv
<1>16. ASSUME NEW c \in Config, Ra!CreatePool(c)  PROVE RatingEvidenceInv'
  BY <1>13, <1>16 DEF Ra!CreatePool, RatingLockInv
<1>17. CASE UNCHANGED Ra!vars
  BY <1>1, <1>17 DEF Ra!vars
<1> QED
  BY <1>2, <1>3, <1>4, <1>5, <1>6, <1>7, <1>8, <1>9, <1>10, <1>11, <1>12, <1>14, <1>15,
     <1>16, <1>17
  DEF Ra!Next, Ra!SweepBegins, Ra!RecomputeBegins, Ra!UpdatePool

(* The rows a run was fitted to, and those a fit has read.                 *)
LEMMA RatingRowsStep ==
  ASSUME RatingIInv, [Ra!Next]_Ra!vars, RatingTypeInv'
  PROVE  RatingRowsInv'
<1> USE RecordsAssumption DEF RatingRowsInv
<1>1. RatingTypeInv /\ RatingLockInv /\ RatingRowsInv
  BY DEF RatingIInv
<1>2. /\ \A j \in GameJob : played[j] \in Nat /\ era[j] \in Nat
      /\ \A j \in GameJob : Ra!NoRows[j].era = 0 /\ Ra!NoRows[j].pairs = 0
      /\ newest.rows \in RatingRowsState /\ fit.rows \in RatingRowsState
  BY <1>1 DEF RatingTypeInv, RatingFitState, RatingRunState, Ra!NoRows
<1>3. /\ \A rs : UNCHANGED <<played, era>> => (RatingRowsStand(rs) => RatingRowsStand(rs)')
      /\ RatingRowsStand(Ra!NoRows)
  BY <1>2 DEF RatingRowsStand
<1>4. ASSUME UNCHANGED <<played, era, newest>>,
             \/ fit' = Ra!NoFit
             \/ fit'.rows = fit.rows /\ fit'.at # "store"
             \/ fit' = fit
      PROVE  RatingRowsInv'
  <2>1. RatingRowsStand(newest.rows)' /\ RatingRowsStand(fit.rows)'
    BY <1>1, <1>3, <1>4 DEF RatingRowsStand, Ra!NoFit
  <2>2. RatingRowsCount(newest)' = RatingRowsCount(newest)
    BY <1>4 DEF RatingRowsCount, RatingRowPairs, Ra!Counted, Ra!Of
  <2>3. fit' = fit => RatingRowsCount(fit)' = RatingRowsCount(fit)
    BY <1>4 DEF RatingRowsCount, RatingRowPairs, Ra!Counted, Ra!Of
  <2> QED
    BY <1>1, <1>4, <2>1, <2>2, <2>3 DEF Ra!NoFit
<1>5. ASSUME NEW j \in GameJob, Ra!Result(j)  PROVE RatingRowsInv'
  <2>1. UNCHANGED <<era, newest, fit>> /\ \A i \in GameJob : played'[i] \in Nat /\ played[i] <= played'[i]
    BY <1>2, <1>5, <1>1 DEF Ra!Result, RatingTypeInv
  <2>2. \A rs \in RatingRowsState : RatingRowsStand(rs) => RatingRowsStand(rs)'
    <3>1. \A rs \in RatingRowsState, i \in GameJob : rs[i].pairs \in Nat
      BY DEF RatingRowsState
    <3> QED
      BY <1>2, <2>1, <3>1 DEF RatingRowsStand
  <2>3. RatingRowsStand(newest.rows)' /\ RatingRowsStand(fit.rows)'
    BY <1>1, <1>2, <2>1, <2>2 DEF RatingRowsStand
  <2> QED
    BY <1>1, <2>1, <2>3 DEF RatingRowsCount, RatingRowPairs, Ra!Counted, Ra!Of
<1>6. ASSUME NEW j \in GameJob, Ra!Purge(j)  PROVE RatingRowsInv'
  BY <1>4, <1>6 DEF Ra!Purge
<1>7. ASSUME NEW committed \in BOOLEAN, Ra!PurgeEnds(committed)  PROVE RatingRowsInv'
  <2>1. CASE ~committed
    BY <1>4, <1>7, <2>1 DEF Ra!PurgeEnds
  <2>2. CASE committed
    <3>1. /\ newest'.rows = newest.rows /\ newest'.pairs = newest.pairs
          /\ newest'.members = newest.members /\ fit' = fit /\ fit.at = "none"
      BY <1>1, <1>7, <2>2 DEF Ra!PurgeEnds, Ra!Marked, RatingTypeInv, RatingRunState,
         RatingLockInv, Ra!NoFit
    <3>2. \A i \in GameJob : \/ era'[i] = era[i] + 1
                             \/ era'[i] = era[i] /\ played'[i] = played[i]
      BY <1>7, <2>2 DEF Ra!PurgeEnds
    <3>3. \A rs \in RatingRowsState : RatingRowsStand(rs) => RatingRowsStand(rs)'
      <4>1. \A rs \in RatingRowsState, i \in GameJob : rs[i].era \in Nat
        BY DEF RatingRowsState
      <4> QED
        BY <1>2, <3>2, <4>1 DEF RatingRowsStand
    <3>4. RatingRowsStand(newest.rows)' /\ RatingRowsStand(fit.rows)'
      BY <1>1, <1>2, <3>1, <3>3 DEF RatingRowsStand
    <3>5. newest'.pairs # Ra!Null => RatingRowsCount(newest)'
      BY <1>1, <3>1 DEF RatingRowsCount, RatingRowPairs, Ra!Counted, Ra!Of
    <3> QED
      BY <3>1, <3>4, <3>5
  <2> QED
    BY <2>1, <2>2
<1>8. ASSUME NEW by, NEW a, Ra!Begin(by, a)  PROVE RatingRowsInv'
  <2>1. fit'.at = "sum" /\ fit'.rows = Ra!NoRows /\ UNCHANGED <<played, era, newest>>
    BY <1>8 DEF Ra!Begin, Ra!NoFit
  <2>2. RatingRowsStand(newest.rows)' /\ RatingRowsStand(fit.rows)'
    BY <1>1, <1>3, <2>1 DEF RatingRowsStand
  <2> QED
    BY <1>1, <2>1, <2>2 DEF RatingRowsCount, RatingRowPairs, Ra!Counted, Ra!Of
<1>9. CASE Ra!ReadSum \/ Ra!Check \/ Ra!ReadMembers
  <2>1. fit' = Ra!NoFit \/ (fit'.rows = fit.rows /\ fit'.at # "store")
    BY <1>1, <1>9 DEF Ra!ReadSum, Ra!Check, Ra!ReadMembers, RatingTypeInv, RatingFitState
  <2> QED
    BY <1>4, <1>9, <2>1 DEF Ra!ReadSum, Ra!Check, Ra!ReadMembers
<1>10. CASE Ra!ReadRows
  <2> DEFINE C == Ra!Counted(fit.members, fit.members)
             R == Ra!Rows(Ra!Seen, fit.members)
  <2>1. /\ fit'.members = fit.members /\ fit'.pairs = Ra!Pairs(Ra!Seen, fit.members)
        /\ fit'.rows = R /\ UNCHANGED <<played, era, newest>>
    BY <1>1, <1>10 DEF Ra!ReadRows, RatingTypeInv, RatingFitState
  <2>2. fit.members \subseteq Ra!Seen
    BY <1>10 DEF Ra!ReadRows, Ra!Fitting, RatingIInv, RatingEvidenceInv
  <2>3. Ra!Counted(Ra!Seen, fit.members) = C
    BY <2>2 DEF Ra!Counted, Ra!Of
  <2>4. C \in SUBSET GameJob /\ IsFiniteSet(C)
    <3>1. C \in SUBSET GameJob
      BY DEF Ra!Counted, Ra!Of
    <3> QED
      BY <3>1, FS_Subset
  <2>5. RatingRowsStand(R)
    BY <1>2 DEF Ra!Rows, RatingRowsStand
  <2>6. \A j \in C : RatingRowPairs(R)[j] = played[j] /\ played[j] \in Int
    BY <1>2, <2>3, <2>4 DEF Ra!Rows, RatingRowPairs
  <2>7. SumFunctionOnSet(RatingRowPairs(R), C) = SumFunctionOnSet(played, C)
    <3> DEFINE g == RatingRowPairs(R)
    <3>1. \A j \in C : g[j] = played[j] /\ g[j] \in Int /\ played[j] \in Int
      BY <2>6
    <3> HIDE DEF g, C
    <3>2. SumFunctionOnSet(g, C) = SumFunctionOnSet(played, C)
      BY <2>4, <3>1, SumSame
    <3> QED
      BY <3>2 DEF g
  <2>8. Ra!Pairs(Ra!Seen, fit.members) = Ra!SumFunctionOnSet(RatingRowPairs(R), C)
    BY <2>3, <2>7, RatingSumsAre DEF Ra!Pairs
  <2>9. RatingRowsCount(fit)'
    <3>1. Ra!Counted(fit.members, fit.members)' = C
      BY <2>1 DEF Ra!Counted, Ra!Of
    <3>2. RatingRowPairs(fit.rows)' = RatingRowPairs(R)
      BY <2>1 DEF RatingRowPairs
    <3> QED
      BY <2>1, <2>8, <3>1, <3>2 DEF RatingRowsCount
  <2>10. RatingRowsStand(newest.rows)' /\ RatingRowsStand(fit.rows)'
    BY <1>1, <2>1, <2>5 DEF RatingRowsStand
  <2>11. RatingRowsCount(newest)' = RatingRowsCount(newest)
    BY <2>1 DEF RatingRowsCount, RatingRowPairs, Ra!Counted, Ra!Of
  <2> QED
    BY <1>1, <2>1, <2>9, <2>10, <2>11
<1>11. CASE Ra!Store
  <2>1. fit' = Ra!NoFit /\ UNCHANGED <<played, era>> /\ RatingRowsCount(fit)
    BY <1>1, <1>11 DEF Ra!Store, Ra!Fitting
  <2>2. \/ /\ newest'.rows = newest.rows /\ newest'.pairs = newest.pairs
           /\ newest'.members = newest.members
        \/ /\ newest'.rows = fit.rows /\ newest'.pairs = fit.pairs
           /\ newest'.members = fit.members
    BY <1>1, <1>11 DEF Ra!Store, Ra!Run, RatingTypeInv, RatingRunState
  <2>3. RatingRowsStand(newest.rows)' /\ RatingRowsStand(fit.rows)'
    BY <1>1, <1>3, <2>1, <2>2 DEF RatingRowsStand, Ra!NoFit
  <2>4. newest'.pairs # Ra!Null => RatingRowsCount(newest)'
    BY <1>1, <2>1, <2>2 DEF RatingRowsCount, RatingRowPairs, Ra!Counted, Ra!Of
  <2> QED
    BY <2>1, <2>3, <2>4 DEF Ra!NoFit
<1>12. CASE Ra!FitFails
  BY <1>4, <1>12 DEF Ra!FitFails
<1>13. ASSUME NEW c \in Config, Ra!AddMember(c) \/ Ra!RemoveChecks(c) \/ Ra!CreatePool(c)
       PROVE  RatingRowsInv'
  BY <1>4, <1>13 DEF Ra!AddMember, Ra!RemoveChecks, Ra!CreatePool
<1>14. CASE Ra!Removes
  BY <1>4, <1>14 DEF Ra!Removes
<1>15. CASE Ra!DeletePool
  <2>1. newest' = Ra!NoRun /\ UNCHANGED <<played, era, fit>> /\ fit.at = "none"
    BY <1>1, <1>15 DEF Ra!DeletePool, RatingLockInv, Ra!NoFit
  <2>2. RatingRowsStand(newest.rows)' /\ RatingRowsStand(fit.rows)'
    BY <1>1, <1>3, <2>1 DEF RatingRowsStand, Ra!NoRun
  <2> QED
    BY <2>1, <2>2 DEF Ra!NoRun
<1>16. CASE UNCHANGED Ra!vars
  BY <1>4, <1>16 DEF Ra!vars
<1> QED
  BY <1>5, <1>6, <1>7, <1>8, <1>9, <1>10, <1>11, <1>12, <1>13, <1>14, <1>15, <1>16
  DEF Ra!Next, Ra!SweepBegins, Ra!RecomputeBegins, Ra!UpdatePool

LEMMA RatingInitInv == Ra!Init => RatingIInv
<1>1. Ra!Init => RatingTypeInv /\ RatingLockInv /\ RatingRemovalInv /\ RatingMemberInv
                 /\ RatingNewestInv /\ RatingEvidenceInv
  BY RatingRecords DEF Ra!Init, RatingTypeInv, RatingLockInv, RatingRemovalInv,
     RatingMemberInv, RatingNewestInv, RatingEvidenceInv,
     RatingFits, Ra!NoRun, Ra!NoFit
<1>2. Ra!Init => RatingRowsInv
  BY DEF Ra!Init, RatingRowsInv, RatingRowsStand, Ra!NoRun, Ra!NoFit, Ra!NoRows
<1> QED
  BY <1>1, <1>2 DEF RatingIInv

LEMMA RatingInvariant == Ra!Spec => []RatingIInv
<1>1. RatingIInv /\ [Ra!Next]_Ra!vars => RatingIInv'
  BY RatingTypeStep, RatingAnchorStep, RatingEvidenceStep, RatingRowsStep DEF RatingIInv
<1> QED
  BY <1>1, RatingInitInv, PTL DEF Ra!Spec

(* store_run, purge_rows and the sweep.  *)
LEMMA RatingQuietFits == Ra!Spec => []Ra!QuietIsCurrent
<1> USE RecordsAssumption
<1>1. RatingIInv => Ra!QuietIsCurrent
  <2> SUFFICES ASSUME RatingIInv, newest.sum = Ra!Sum(members), newest.members = members
               PROVE  /\ newest.pairs = Ra!Pairs(members, members)
                      /\ Ra!Stands => \A j \in Ra!Counted(members, members) :
                                        newest.rows[j].pairs = played[j]
    BY DEF Ra!QuietIsCurrent, Ra!Quiet
  <2> DEFINE C == Ra!Counted(members, members)
             g == RatingRowPairs(newest.rows)
  <2>1. Ra!Sum(members) \in Nat /\ Ra!Pairs(members, members) \in Nat
    BY RatingAmounts DEF RatingIInv, RatingTypeInv
  <2>2. newest.pairs = Ra!Pairs(members, members)
    BY <2>1 DEF RatingIInv, RatingEvidenceInv, RatingFits, Ra!Null
  <2>3. C \in SUBSET GameJob /\ IsFiniteSet(C)
    <3>1. C \in SUBSET GameJob
      BY DEF Ra!Counted, Ra!Of
    <3> QED
      BY <3>1, FS_Subset
  <2>4. /\ \A j \in GameJob : played[j] \in Nat
        /\ \A j \in GameJob : newest.rows[j].pairs \in Nat
    BY DEF RatingIInv, RatingTypeInv, RatingRunState, RatingRowsState
  <2>5. SumFunctionOnSet(g, C) = SumFunctionOnSet(played, C)
    BY <2>1, <2>2, RatingSumsAre
    DEF RatingIInv, RatingRowsInv, RatingRowsCount, Ra!Pairs, Ra!Null
  <2>6. ASSUME Ra!Stands  PROVE \A j \in C : newest.rows[j].pairs = played[j]
    <3>1. \A j \in GameJob : newest.rows[j].pairs <= played[j]
      BY <2>4, <2>6 DEF Ra!Stands, RatingIInv, RatingRowsInv, RatingRowsStand
    <3>2. \A j \in C : g[j] = newest.rows[j].pairs
      BY <2>3 DEF RatingRowPairs
    <3>3. \A j \in C : g[j] \in Int /\ played[j] \in Int /\ g[j] <= played[j]
      BY <2>3, <2>4, <3>1, <3>2
    <3> HIDE DEF g, C
    <3>4. \A j \in C : g[j] = played[j]
      BY <2>3, <2>5, <3>3, SumCompare
    <3> QED
      BY <3>2, <3>4
  <2> QED
    BY <2>2, <2>6
<1> QED
  BY <1>1, RatingInvariant, PTL

LEMMA RatingAnchorKept == Ra!Spec => []Ra!AnchorHolds
<1>1. RatingIInv => Ra!AnchorHolds
  BY DEF RatingIInv, RatingMemberInv, RatingNewestInv, Ra!AnchorHolds
<1> QED
  BY <1>1, RatingInvariant, PTL


(***************************************************************************)
(* Accounts                                                                *)
(*                                                                         *)
(* SessionKnowsPassword is not inductive: a session is issued a step after *)
(* its login read the account, so the login has to be bound as the session *)
(* will be (TokenInv), and an account whose name is released, or who is    *)
(* registered anew, must have neither (NewInv).  CodeInv says that a code  *)
(* confirms only who has not confirmed: a deleted account stays so.        *)
(***************************************************************************)

AccountToken == [password : Nat, generation : Nat]

AccountTypeInv ==
  /\ user \in [Account -> [status : {"none", "unconfirmed", "confirmed", "deleted"},
                           code : {"none", "live", "expired", "used"},
                           password : Nat, generation : Nat, keys : Nat]]
  /\ links \in [Account -> SUBSET Link]
  /\ sessions \in [Account -> SUBSET AccountToken]
  /\ login \in [Account -> AccountToken]
  /\ signup \subseteq Account
  /\ adding \in [Account -> Int]
  /\ asking \subseteq Account
  /\ redeem \in [Account -> SUBSET Link]

AccountCodeInv == \A a \in Account : user[a].code = "live" => user[a].status = "unconfirmed"

AccountNewInv ==
  \A a \in Account :
    /\ a \in signup => user[a].status = "none"
    /\ user[a].status \in {"none", "unconfirmed"} => sessions[a] = {} /\ login[a] = Ac!NoLogin

(* What a session may be for: no later generation than the account's, and  *)
(* the account's password if it is of this one.                            *)
AccountSound(a, s) ==
  /\ s.generation <= user[a].generation
  /\ Ac!Accepted(a, s) => s.password = user[a].password

AccountTokenInv ==
  \A a \in Account :
    /\ \A s \in sessions[a] : AccountSound(a, s)
    /\ login[a] # Ac!NoLogin => AccountSound(a, login[a])

AccountGoneInv ==
  \A a \in Account :
    /\ user[a].keys <= MaxKeys
    /\ user[a].status = "deleted" => user[a].keys = 0 /\ user[a].code = "none" /\ links[a] = {}

AccountIInv == AccountTypeInv /\ AccountCodeInv /\ AccountNewInv /\ AccountTokenInv
  /\ AccountGoneInv

(* Every type of the state is kept, whatever the request.                  *)
AccountState ==
  [status : {"none", "unconfirmed", "confirmed", "deleted"},
   code : {"none", "live", "expired", "used"}, password : Nat, generation : Nat, keys : Nat]

LEMMA AccountFields ==
  ASSUME NEW u \in AccountState
  PROVE  /\ [u EXCEPT !.code = "expired"] \in AccountState
         /\ \A n \in Nat : /\ [u EXCEPT !.generation = n] \in AccountState
                            /\ [u EXCEPT !.keys = n] \in AccountState
<1>1. [u EXCEPT !.code = "expired"] \in AccountState
  BY DEF AccountState
<1>2. \A n \in Nat : [u EXCEPT !.generation = n] \in AccountState
  BY DEF AccountState
<1>3. \A n \in Nat : [u EXCEPT !.keys = n] \in AccountState
  BY DEF AccountState
<1> QED
  BY <1>1, <1>2, <1>3

LEMMA AccountRow ==
  ASSUME AccountTypeInv, NEW a \in Account, NEW u \in AccountState,
         user' = [user EXCEPT ![a] = u],
         UNCHANGED <<links, sessions, login, signup, adding, asking, redeem>>
  PROVE  AccountTypeInv'
<1>1. user' \in [Account -> AccountState]
  BY DEF AccountTypeInv, AccountState
<1> QED
  BY <1>1 DEF AccountTypeInv, AccountState

LEMMA AccountTypeStep ==
  ASSUME AccountIInv, [Ac!Next]_Ac!vars
  PROVE  AccountTypeInv'
<1>0. \A a \in Account : user[a] \in AccountState
  BY DEF AccountIInv, AccountTypeInv, AccountState
<1> USE DEF AccountIInv, AccountTypeInv, AccountToken
<1>1. CASE UNCHANGED Ac!vars
  BY <1>1 DEF Ac!vars
<1>2. ASSUME NEW a \in Account, Ac!Register(a)  PROVE AccountTypeInv'
  BY <1>2 DEF Ac!Register, Ac!NoUser
<1>3. ASSUME NEW a \in Account, Ac!RegisterInserts(a)  PROVE AccountTypeInv'
  BY <1>3 DEF Ac!RegisterInserts, Ac!NoUser
<1>4. ASSUME NEW a \in Account, Ac!CodeExpires(a)  PROVE AccountTypeInv'
  <2>1. [user[a] EXCEPT !.code = "expired"] \in AccountState
    BY <1>0, AccountFields
  <2>2. user' = [user EXCEPT ![a] = [user[a] EXCEPT !.code = "expired"]]
        /\ UNCHANGED <<links, sessions, login, signup, adding, asking, redeem>>
    BY <1>4 DEF Ac!CodeExpires
  <2> QED
    BY <2>1, <2>2, AccountRow
<1>5. ASSUME NEW a \in Account, Ac!ConfirmEmail(a)  PROVE AccountTypeInv'
  <2>1. user' = [user EXCEPT ![a] = [user[a] EXCEPT !.code = "used", !.status = "confirmed"]]
        /\ UNCHANGED <<links, sessions, login, signup, adding, asking, redeem>>
    BY <1>5 DEF Ac!ConfirmEmail
  <2>2. [user[a] EXCEPT !.code = "used", !.status = "confirmed"] \in AccountState
    BY <1>0 DEF AccountState
  <2> QED
    BY <2>1, <2>2, AccountRow
<1>6. ASSUME NEW a \in Account, Ac!LoginReads(a)  PROVE AccountTypeInv'
  BY <1>6 DEF Ac!LoginReads
<1>7. ASSUME NEW a \in Account, Ac!LoginIssues(a)  PROVE AccountTypeInv'
  BY <1>7 DEF Ac!LoginIssues, Ac!Issued, Ac!NoLogin
<1>8. ASSUME NEW a \in Account, Ac!SignOutEverywhere(a)  PROVE AccountTypeInv'
  <2>1. user[a].generation + 1 \in Nat
    OBVIOUS
  <2>2. [user[a] EXCEPT !.generation = user[a].generation + 1] \in AccountState
    BY <1>0, <2>1, AccountFields
  <2>3. user' = [user EXCEPT ![a] = [user[a] EXCEPT !.generation = user[a].generation + 1]]
        /\ UNCHANGED <<links, sessions, login, signup, adding, asking, redeem>>
    BY <1>8 DEF Ac!SignOutEverywhere
  <2> QED
    BY <2>2, <2>3, AccountRow
<1>9. ASSUME NEW a \in Account, Ac!AsksForKey(a)  PROVE AccountTypeInv'
  BY <1>9 DEF Ac!AsksForKey
<1>10. ASSUME NEW a \in Account, Ac!CreateKey(a)  PROVE AccountTypeInv'
  <2>1. user' \in [Account -> AccountState]
    <3>1. PICK n \in Nat : user' = [user EXCEPT ![a] = [user[a] EXCEPT !.keys = n]]
      <4>1. user[a].keys \in Nat /\ user[a].keys + 1 \in Nat
        OBVIOUS
      <4> QED
        BY <1>10, <4>1 DEF Ac!CreateKey
    <3>2. [user[a] EXCEPT !.keys = n] \in AccountState
      BY <1>0, AccountFields
    <3> QED
      BY <1>0, <3>1, <3>2
  <2>2. adding' \in [Account -> Int]
    BY <1>10 DEF Ac!CreateKey
  <2>3. UNCHANGED <<links, sessions, login, signup, asking, redeem>>
    BY <1>10 DEF Ac!CreateKey
  <2> QED
    BY <2>1, <2>2, <2>3 DEF AccountState
<1>11. ASSUME NEW a \in Account, Ac!RevokeKey(a)  PROVE AccountTypeInv'
  <2>1. user[a].keys - 1 \in Nat
    BY <1>11 DEF Ac!RevokeKey
  <2>2. [user[a] EXCEPT !.keys = user[a].keys - 1] \in AccountState
    BY <1>0, <2>1, AccountFields
  <2>3. user' = [user EXCEPT ![a] = [user[a] EXCEPT !.keys = user[a].keys - 1]]
        /\ UNCHANGED <<links, sessions, login, signup, adding, asking, redeem>>
    BY <1>11 DEF Ac!RevokeKey
  <2> QED
    BY <2>2, <2>3, AccountRow
<1>12. ASSUME NEW a \in Account, Ac!AsksForReset(a)  PROVE AccountTypeInv'
  BY <1>12 DEF Ac!AsksForReset
<1>13. ASSUME NEW a \in Account, Ac!RequestReset(a)  PROVE AccountTypeInv'
  BY <1>13 DEF Ac!RequestReset
<1>14. ASSUME NEW a \in Account, NEW l \in Link, Ac!LinkExpires(a, l)  PROVE AccountTypeInv'
  BY <1>14 DEF Ac!LinkExpires
<1>17. ASSUME NEW a \in Account, NEW l \in Link, Ac!ResetReads(a, l)  PROVE AccountTypeInv'
  BY <1>17 DEF Ac!ResetReads
<1>15. ASSUME NEW a \in Account, NEW l \in Link, Ac!ConfirmReset(a, l)  PROVE AccountTypeInv'
  BY <1>15 DEF Ac!ConfirmReset
<1>16. ASSUME NEW a \in Account, Ac!DeleteUser(a)  PROVE AccountTypeInv'
  BY <1>16 DEF Ac!DeleteUser
<1> QED
  BY <1>1, <1>2, <1>3, <1>4, <1>5, <1>6, <1>7, <1>8, <1>9, <1>10, <1>11, <1>12,
     <1>13, <1>14, <1>15, <1>16, <1>17 DEF Ac!Next

(* A code is made for who is registered, and spent with the confirmation.  *)
LEMMA AccountCodeStep ==
  ASSUME AccountIInv, [Ac!Next]_Ac!vars, AccountTypeInv'
  PROVE  AccountCodeInv'
<1> USE DEF AccountIInv, AccountTypeInv, AccountCodeInv
<1>1. CASE UNCHANGED Ac!vars
  BY <1>1 DEF Ac!vars
<1>2. ASSUME NEW a \in Account, Ac!Register(a)  PROVE AccountCodeInv'
  BY <1>2 DEF Ac!Register, Ac!Released, Ac!NoUser
<1>3. ASSUME NEW a \in Account, Ac!RegisterInserts(a)  PROVE AccountCodeInv'
  BY <1>3 DEF Ac!RegisterInserts, Ac!NoUser
<1>4. ASSUME NEW a \in Account, Ac!CodeExpires(a)  PROVE AccountCodeInv'
  BY <1>4 DEF Ac!CodeExpires
<1>5. ASSUME NEW a \in Account, Ac!ConfirmEmail(a)  PROVE AccountCodeInv'
  BY <1>5 DEF Ac!ConfirmEmail
<1>6. ASSUME NEW a \in Account, Ac!LoginReads(a)  PROVE AccountCodeInv'
  BY <1>6 DEF Ac!LoginReads
<1>7. ASSUME NEW a \in Account, Ac!LoginIssues(a)  PROVE AccountCodeInv'
  BY <1>7 DEF Ac!LoginIssues, Ac!Issued
<1>8. ASSUME NEW a \in Account, Ac!SignOutEverywhere(a)  PROVE AccountCodeInv'
  BY <1>8 DEF Ac!SignOutEverywhere
<1>9. ASSUME NEW a \in Account, Ac!AsksForKey(a)  PROVE AccountCodeInv'
  BY <1>9 DEF Ac!AsksForKey
<1>10. ASSUME NEW a \in Account, Ac!CreateKey(a)  PROVE AccountCodeInv'
  BY <1>10 DEF Ac!CreateKey
<1>11. ASSUME NEW a \in Account, Ac!RevokeKey(a)  PROVE AccountCodeInv'
  BY <1>11 DEF Ac!RevokeKey
<1>12. ASSUME NEW a \in Account, Ac!AsksForReset(a)  PROVE AccountCodeInv'
  BY <1>12 DEF Ac!AsksForReset
<1>13. ASSUME NEW a \in Account, Ac!RequestReset(a)  PROVE AccountCodeInv'
  BY <1>13 DEF Ac!RequestReset
<1>14. ASSUME NEW a \in Account, NEW l \in Link, Ac!LinkExpires(a, l)  PROVE AccountCodeInv'
  BY <1>14 DEF Ac!LinkExpires
<1>15. ASSUME NEW a \in Account, NEW l \in Link, Ac!ResetReads(a, l)  PROVE AccountCodeInv'
  BY <1>15 DEF Ac!ResetReads
<1>16. ASSUME NEW a \in Account, NEW l \in Link, Ac!ConfirmReset(a, l)  PROVE AccountCodeInv'
  BY <1>16 DEF Ac!ConfirmReset
<1>17. ASSUME NEW a \in Account, Ac!DeleteUser(a)  PROVE AccountCodeInv'
  BY <1>17 DEF Ac!DeleteUser
<1> QED
  BY <1>1, <1>2, <1>3, <1>4, <1>5, <1>6, <1>7, <1>8, <1>9, <1>10, <1>11, <1>12,
     <1>13, <1>14, <1>15, <1>16, <1>17 DEF Ac!Next

(* Only a confirmed account comes by a login or a session.                 *)
LEMMA AccountNewStep ==
  ASSUME AccountIInv, [Ac!Next]_Ac!vars, AccountTypeInv'
  PROVE  AccountNewInv'
<1> USE DEF AccountIInv, AccountTypeInv, AccountCodeInv, AccountNewInv
<1>1. CASE UNCHANGED Ac!vars
  BY <1>1 DEF Ac!vars
<1>2. ASSUME NEW a \in Account, Ac!Register(a)  PROVE AccountNewInv'
  BY <1>2 DEF Ac!Register, Ac!Released, Ac!NoUser
<1>3. ASSUME NEW a \in Account, Ac!RegisterInserts(a)  PROVE AccountNewInv'
  BY <1>3 DEF Ac!RegisterInserts, Ac!NoUser
<1>4. ASSUME NEW a \in Account, Ac!CodeExpires(a)  PROVE AccountNewInv'
  BY <1>4 DEF Ac!CodeExpires
<1>5. ASSUME NEW a \in Account, Ac!ConfirmEmail(a)  PROVE AccountNewInv'
  BY <1>5 DEF Ac!ConfirmEmail
<1>6. ASSUME NEW a \in Account, Ac!LoginReads(a)  PROVE AccountNewInv'
  BY <1>6 DEF Ac!LoginReads
<1>7. ASSUME NEW a \in Account, Ac!LoginIssues(a)  PROVE AccountNewInv'
  BY <1>7 DEF Ac!LoginIssues, Ac!Issued
<1>8. ASSUME NEW a \in Account, Ac!SignOutEverywhere(a)  PROVE AccountNewInv'
  BY <1>8 DEF Ac!SignOutEverywhere
<1>9. ASSUME NEW a \in Account, Ac!AsksForKey(a)  PROVE AccountNewInv'
  BY <1>9 DEF Ac!AsksForKey
<1>10. ASSUME NEW a \in Account, Ac!CreateKey(a)  PROVE AccountNewInv'
  BY <1>10 DEF Ac!CreateKey
<1>11. ASSUME NEW a \in Account, Ac!RevokeKey(a)  PROVE AccountNewInv'
  BY <1>11 DEF Ac!RevokeKey
<1>12. ASSUME NEW a \in Account, Ac!AsksForReset(a)  PROVE AccountNewInv'
  BY <1>12 DEF Ac!AsksForReset
<1>13. ASSUME NEW a \in Account, Ac!RequestReset(a)  PROVE AccountNewInv'
  BY <1>13 DEF Ac!RequestReset
<1>14. ASSUME NEW a \in Account, NEW l \in Link, Ac!LinkExpires(a, l)  PROVE AccountNewInv'
  BY <1>14 DEF Ac!LinkExpires
<1>15. ASSUME NEW a \in Account, NEW l \in Link, Ac!ResetReads(a, l)  PROVE AccountNewInv'
  BY <1>15 DEF Ac!ResetReads
<1>16. ASSUME NEW a \in Account, NEW l \in Link, Ac!ConfirmReset(a, l)  PROVE AccountNewInv'
  BY <1>16 DEF Ac!ConfirmReset
<1>17. ASSUME NEW a \in Account, Ac!DeleteUser(a)  PROVE AccountNewInv'
  BY <1>17 DEF Ac!DeleteUser, Ac!Holds
<1> QED
  BY <1>1, <1>2, <1>3, <1>4, <1>5, <1>6, <1>7, <1>8, <1>9, <1>10, <1>11, <1>12,
     <1>13, <1>14, <1>15, <1>16, <1>17 DEF Ac!Next

(* A generation ends every token of the one before; within one, the        *)
(* password does not change.                                               *)
LEMMA AccountTokenStep ==
  ASSUME AccountIInv, [Ac!Next]_Ac!vars, AccountTypeInv'
  PROVE  AccountTokenInv'
<1> USE DEF AccountIInv, AccountTypeInv, AccountCodeInv, AccountNewInv, AccountTokenInv,
   AccountToken, AccountSound, Ac!Accepted, Ac!Holds
<1>1. CASE UNCHANGED Ac!vars
  BY <1>1 DEF Ac!vars
<1>2. ASSUME NEW a \in Account, Ac!Register(a)  PROVE AccountTokenInv'
  BY <1>2 DEF Ac!Register, Ac!Released, Ac!NoUser
<1>3. ASSUME NEW a \in Account, Ac!RegisterInserts(a)  PROVE AccountTokenInv'
  BY <1>3 DEF Ac!RegisterInserts, Ac!NoUser
<1>4. ASSUME NEW a \in Account, Ac!CodeExpires(a)  PROVE AccountTokenInv'
  BY <1>4 DEF Ac!CodeExpires
<1>5. ASSUME NEW a \in Account, Ac!ConfirmEmail(a)  PROVE AccountTokenInv'
  BY <1>5 DEF Ac!ConfirmEmail
<1>6. ASSUME NEW a \in Account, Ac!LoginReads(a)  PROVE AccountTokenInv'
  BY <1>6 DEF Ac!LoginReads
<1>7. ASSUME NEW a \in Account, Ac!LoginIssues(a)  PROVE AccountTokenInv'
  BY <1>7 DEF Ac!LoginIssues, Ac!Issued
<1>8. ASSUME NEW a \in Account, Ac!SignOutEverywhere(a)  PROVE AccountTokenInv'
  BY <1>8 DEF Ac!SignOutEverywhere
<1>9. ASSUME NEW a \in Account, Ac!AsksForKey(a)  PROVE AccountTokenInv'
  BY <1>9 DEF Ac!AsksForKey
<1>10. ASSUME NEW a \in Account, Ac!CreateKey(a)  PROVE AccountTokenInv'
  BY <1>10 DEF Ac!CreateKey
<1>11. ASSUME NEW a \in Account, Ac!RevokeKey(a)  PROVE AccountTokenInv'
  BY <1>11 DEF Ac!RevokeKey
<1>12. ASSUME NEW a \in Account, Ac!AsksForReset(a)  PROVE AccountTokenInv'
  BY <1>12 DEF Ac!AsksForReset
<1>13. ASSUME NEW a \in Account, Ac!RequestReset(a)  PROVE AccountTokenInv'
  BY <1>13 DEF Ac!RequestReset
<1>14. ASSUME NEW a \in Account, NEW l \in Link, Ac!LinkExpires(a, l)  PROVE AccountTokenInv'
  BY <1>14 DEF Ac!LinkExpires
<1>15. ASSUME NEW a \in Account, NEW l \in Link, Ac!ResetReads(a, l)  PROVE AccountTokenInv'
  BY <1>15 DEF Ac!ResetReads
<1>16. ASSUME NEW a \in Account, NEW l \in Link, Ac!ConfirmReset(a, l)  PROVE AccountTokenInv'
  BY <1>16 DEF Ac!ConfirmReset
<1>17. ASSUME NEW a \in Account, Ac!DeleteUser(a)  PROVE AccountTokenInv'
  BY <1>17 DEF Ac!DeleteUser
<1> QED
  BY <1>1, <1>2, <1>3, <1>4, <1>5, <1>6, <1>7, <1>8, <1>9, <1>10, <1>11, <1>12,
     <1>13, <1>14, <1>15, <1>16, <1>17 DEF Ac!Next

(* What had found an account before its deletion adds nothing to it.       *)
LEMMA AccountGoneStep ==
  ASSUME MaxKeys \in Nat, AccountIInv, [Ac!Next]_Ac!vars, AccountTypeInv'
  PROVE  AccountGoneInv'
<1> USE DEF AccountIInv, AccountTypeInv, AccountCodeInv, AccountGoneInv
<1>1. CASE UNCHANGED Ac!vars
  BY <1>1 DEF Ac!vars
<1>2. ASSUME NEW a \in Account, Ac!Register(a)  PROVE AccountGoneInv'
  BY <1>2 DEF Ac!Register, Ac!Released, Ac!NoUser
<1>3. ASSUME NEW a \in Account, Ac!RegisterInserts(a)  PROVE AccountGoneInv'
  BY <1>3 DEF Ac!RegisterInserts, Ac!NoUser
<1>4. ASSUME NEW a \in Account, Ac!CodeExpires(a)  PROVE AccountGoneInv'
  BY <1>4 DEF Ac!CodeExpires
<1>5. ASSUME NEW a \in Account, Ac!ConfirmEmail(a)  PROVE AccountGoneInv'
  BY <1>5 DEF Ac!ConfirmEmail
<1>6. ASSUME NEW a \in Account, Ac!LoginReads(a)  PROVE AccountGoneInv'
  BY <1>6 DEF Ac!LoginReads
<1>7. ASSUME NEW a \in Account, Ac!LoginIssues(a)  PROVE AccountGoneInv'
  BY <1>7 DEF Ac!LoginIssues, Ac!Issued
<1>8. ASSUME NEW a \in Account, Ac!SignOutEverywhere(a)  PROVE AccountGoneInv'
  BY <1>8 DEF Ac!SignOutEverywhere
<1>9. ASSUME NEW a \in Account, Ac!AsksForKey(a)  PROVE AccountGoneInv'
  BY <1>9 DEF Ac!AsksForKey
<1>10. ASSUME NEW a \in Account, Ac!CreateKey(a)  PROVE AccountGoneInv'
  BY <1>10 DEF Ac!CreateKey, Ac!MayHaveKey, Ac!Holds
<1>11. ASSUME NEW a \in Account, Ac!RevokeKey(a)  PROVE AccountGoneInv'
  BY <1>11 DEF Ac!RevokeKey, Ac!SignedIn, Ac!Accepted, Ac!Holds
<1>12. ASSUME NEW a \in Account, Ac!AsksForReset(a)  PROVE AccountGoneInv'
  BY <1>12 DEF Ac!AsksForReset
<1>13. ASSUME NEW a \in Account, Ac!RequestReset(a)  PROVE AccountGoneInv'
  BY <1>13 DEF Ac!RequestReset
<1>14. ASSUME NEW a \in Account, NEW l \in Link, Ac!LinkExpires(a, l)  PROVE AccountGoneInv'
  BY <1>14 DEF Ac!LinkExpires
<1>15. ASSUME NEW a \in Account, NEW l \in Link, Ac!ResetReads(a, l)  PROVE AccountGoneInv'
  BY <1>15 DEF Ac!ResetReads
<1>16. ASSUME NEW a \in Account, NEW l \in Link, Ac!ConfirmReset(a, l)  PROVE AccountGoneInv'
  BY <1>16 DEF Ac!ConfirmReset, Ac!Holds
<1>17. ASSUME NEW a \in Account, Ac!DeleteUser(a)  PROVE AccountGoneInv'
  BY <1>17 DEF Ac!DeleteUser
<1> QED
  BY <1>1, <1>2, <1>3, <1>4, <1>5, <1>6, <1>7, <1>8, <1>9, <1>10, <1>11, <1>12,
     <1>13, <1>14, <1>15, <1>16, <1>17 DEF Ac!Next

(* The inductive invariant, from the first state to every next one.        *)
LEMMA AccountInitInv ==
  ASSUME MaxKeys \in Nat, Ac!Init
  PROVE  AccountIInv
BY DEF Ac!Init, AccountIInv, AccountTypeInv, AccountCodeInv, AccountNewInv, AccountTokenInv,
   AccountGoneInv, AccountToken, Ac!NoUser, Ac!NoLogin

LEMMA AccountNextInv ==
  ASSUME MaxKeys \in Nat, AccountIInv, [Ac!Next]_Ac!vars
  PROVE  AccountIInv'
<1>1. AccountTypeInv'
  BY AccountTypeStep
<1> QED
  BY <1>1, AccountCodeStep, AccountNewStep, AccountTokenStep, AccountGoneStep DEF AccountIInv

(* Every state the accounts reach satisfies the inductive invariant: what  *)
(* register, login, confirm_password_reset and delete_user leave behind.   *)
THEOREM AccountInvariant ==
  ASSUME MaxKeys \in Nat
  PROVE  Ac!Spec => []AccountIInv
<1>1. Ac!Init => AccountIInv
  BY AccountInitInv
<1>2. AccountIInv /\ [Ac!Next]_Ac!vars => AccountIInv'
  BY AccountNextInv
<1> QED
  BY <1>1, <1>2, PTL DEF Ac!Spec

(* A session CurrentUser accepts was issued to someone who knew the        *)
(* password the account has now, whatever resets ran beside the login.     *)
THEOREM AccountSessionsSound ==
  ASSUME MaxKeys \in Nat
  PROVE  Ac!Spec => []Ac!SessionKnowsPassword
<1>1. AccountIInv => Ac!SessionKnowsPassword
  BY DEF AccountIInv, AccountTokenInv, AccountSound, Ac!SessionKnowsPassword
<1> QED
  BY <1>1, AccountInvariant, PTL

(* delete_user leaves an account nothing to act by, and create_key keeps   *)
(* to its limit, however many requests were under way.                     *)
THEOREM AccountDeletedIsEmpty ==
  ASSUME MaxKeys \in Nat
  PROVE  Ac!Spec => []Ac!DeletedHasNothing
<1>1. AccountIInv => Ac!DeletedHasNothing
  BY DEF AccountIInv, AccountGoneInv, Ac!DeletedHasNothing, Ac!SignedIn, Ac!Accepted, Ac!Holds
<1> QED
  BY <1>1, AccountInvariant, PTL

(* register never releases the name of an account that has confirmed.      *)
THEOREM AccountConfirmedIsKept ==
  ASSUME MaxKeys \in Nat
  PROVE  Ac!Spec => Ac!ConfirmedStays
<1> DEFINE Keeps == \A a \in Account :
                     user[a].status = "confirmed" => user'[a].status \in {"confirmed", "deleted"}
<1>1. ASSUME AccountIInv, [Ac!Next]_Ac!vars  PROVE Keeps
  <2> USE <1>1 DEF AccountIInv, AccountTypeInv
  <2>1. CASE UNCHANGED Ac!vars
    BY <2>1 DEF Ac!vars
  <2>2. ASSUME NEW a \in Account, Ac!Register(a) \/ Ac!RegisterInserts(a)  PROVE Keeps
    BY <2>2 DEF Ac!Register, Ac!Released, Ac!RegisterInserts, AccountNewInv
  <2>3. ASSUME NEW a \in Account, Ac!CodeExpires(a) \/ Ac!ConfirmEmail(a)  PROVE Keeps
    BY <2>3 DEF Ac!CodeExpires, Ac!ConfirmEmail
  <2>4. ASSUME NEW a \in Account, Ac!LoginReads(a) \/ Ac!LoginIssues(a)  PROVE Keeps
    BY <2>4 DEF Ac!LoginReads, Ac!LoginIssues
  <2>5. ASSUME NEW a \in Account, Ac!SignOutEverywhere(a)  PROVE Keeps
    BY <2>5 DEF Ac!SignOutEverywhere
  <2>6. ASSUME NEW a \in Account, Ac!AsksForKey(a)  PROVE Keeps
    BY <2>6 DEF Ac!AsksForKey
  <2>10. ASSUME NEW a \in Account, Ac!CreateKey(a)  PROVE Keeps
    BY <2>10 DEF Ac!CreateKey
  <2>11. ASSUME NEW a \in Account, Ac!RevokeKey(a)  PROVE Keeps
    BY <2>11 DEF Ac!RevokeKey
  <2>7. ASSUME NEW a \in Account, Ac!AsksForReset(a) \/ Ac!RequestReset(a)  PROVE Keeps
    BY <2>7 DEF Ac!AsksForReset, Ac!RequestReset
  <2>8. ASSUME NEW a \in Account, NEW l \in Link,
               Ac!LinkExpires(a, l) \/ Ac!ResetReads(a, l) \/ Ac!ConfirmReset(a, l)
        PROVE  Keeps
    BY <2>8 DEF Ac!LinkExpires, Ac!ResetReads, Ac!ConfirmReset
  <2>9. ASSUME NEW a \in Account, Ac!DeleteUser(a)  PROVE Keeps
    BY <2>9 DEF Ac!DeleteUser
  <2> QED
    BY <2>1, <2>2, <2>3, <2>4, <2>5, <2>6, <2>7, <2>8, <2>9, <2>10, <2>11
    DEF Ac!Next
<1>2. AccountIInv /\ [Ac!Next]_Ac!vars => [Keeps]_Ac!vars
  BY <1>1
<1> QED
  BY <1>2, AccountInvariant, PTL DEF Ac!Spec, Ac!ConfirmedStays


(***************************************************************************)
(* Imports                                                                 *)
(*                                                                         *)
(* PinnedHasBytes follows a file's bytes from the upload on: what a task   *)
(* stages it has uploaded (StagingInv), so what a diff offers has its      *)
(* bytes, whoever reads it.                                                *)
(***************************************************************************)

ImportRow == [file : InputFile, known : BOOLEAN]
ImportAt  == {"none", "fetch", "upload", "stage", "finish", "fail"}

ImportTypeInv ==
  /\ state \in [Import -> {"none", "running", "staged", "nothing_new", "confirmed",
                           "cancelled", "failed"}]
  /\ rows \in [Import -> SUBSET ImportRow]
  /\ task \in [Import -> [at : ImportAt, files : SUBSET InputFile, rows : SUBSET ImportRow]]
  /\ config \in [Player -> SUBSET InputFile]
  /\ jobs \subseteq [players : SUBSET Player, file : InputFile]

(* The bytes of f are in the store, if it is of a role that stores any.    *)
ImportHasBytes(f) == f \in Kept => f \in objects

ImportStagingInv ==
  \A i \in Import :
    /\ task[i].at \in {"stage", "finish"} => \A f \in task[i].files : ImportHasBytes(f)
    /\ \A r \in task[i].rows : r.file \in task[i].files
    /\ \A r \in rows[i] : ImportHasBytes(r.file)

ImportIInv == ImportTypeInv /\ ImportStagingInv /\ Im!PinnedHasBytes

LEMMA ImportTypeStep ==
  ASSUME ImportIInv, [Im!Next]_Im!vars
  PROVE  ImportTypeInv'
<1> USE DEF ImportIInv, ImportTypeInv, ImportRow, ImportAt, Im!To, Im!NoTask, Im!Ends
<1>1. CASE UNCHANGED Im!vars
  BY <1>1 DEF Im!vars
<1>2. ASSUME NEW i \in Import, Im!StartImport(i)  PROVE ImportTypeInv'
  BY <1>2 DEF Im!StartImport, Im!input
<1>3. ASSUME NEW i \in Import, Im!Fetch(i)  PROVE ImportTypeInv'
  <2>1. PICK fs \in Im!Release :
          task' = [task EXCEPT ![i] = [Im!NoTask EXCEPT !.at = "upload", !.files = fs]]
    BY <1>3 DEF Im!Fetch
  <2>2. fs \in SUBSET InputFile
    BY DEF Im!Release
  <2>3. [Im!NoTask EXCEPT !.at = "upload", !.files = fs]
          \in [at : ImportAt, files : SUBSET InputFile, rows : SUBSET ImportRow]
    BY <2>2
  <2>4. task' \in [Import -> [at : ImportAt, files : SUBSET InputFile, rows : SUBSET ImportRow]]
    BY <2>1, <2>2, <2>3
  <2> QED
    BY <1>3, <2>4 DEF Im!Fetch, Im!input
<1>4. ASSUME NEW i \in Import, Im!Upload(i)  PROVE ImportTypeInv'
  BY <1>4 DEF Im!Upload
<1>5. ASSUME NEW i \in Import, Im!StageRow(i)  PROVE ImportTypeInv'
  <2>1. PICK f \in task[i].files :
          task' = [task EXCEPT ![i].rows = @ \cup {[file |-> f, known |-> f \in data]}]
    BY <1>5 DEF Im!StageRow
  <2>2. [file |-> f, known |-> f \in data] \in ImportRow
    BY <2>1
  <2>3. task[i].rows \cup {[file |-> f, known |-> f \in data]} \in SUBSET ImportRow
    BY <2>2
  <2>4. task' \in [Import -> [at : ImportAt, files : SUBSET InputFile, rows : SUBSET ImportRow]]
    BY <2>1, <2>3
  <2> QED
    BY <1>5, <2>4 DEF Im!StageRow, Im!input
<1>6. ASSUME NEW i \in Import, Im!StageCommit(i)  PROVE ImportTypeInv'
  <2>1. rows' \in [Import -> SUBSET ImportRow]
    BY <1>6 DEF Im!StageCommit
  <2>2. task' \in [Import -> [at : ImportAt, files : SUBSET InputFile, rows : SUBSET ImportRow]]
    BY <1>6 DEF Im!StageCommit
  <2> QED
    BY <1>6, <2>1, <2>2 DEF Im!StageCommit, Im!input
<1>7. ASSUME NEW i \in Import, Im!Finish(i)  PROVE ImportTypeInv'
  BY <1>7 DEF Im!Finish, Im!FinishStaging, Im!input
<1>8. ASSUME NEW i \in Import, Im!StageFails(i)  PROVE ImportTypeInv'
  BY <1>8 DEF Im!StageFails, Im!input
<1>9. ASSUME NEW i \in Import, Im!RecordFailure(i)  PROVE ImportTypeInv'
  BY <1>9 DEF Im!RecordFailure, Im!input
<1>10. ASSUME NEW i \in Import, Im!Confirm(i) \/ Im!Expire(i)  PROVE ImportTypeInv'
  BY <1>10 DEF Im!Confirm, Im!Expire, Im!input
<1>11. ASSUME NEW p \in Player, Im!CreatePlayer(p)  PROVE ImportTypeInv'
  BY <1>11 DEF Im!CreatePlayer, Im!Release
<1>12. ASSUME NEW ps \in SUBSET Player, NEW f \in InputFile, Im!CreateJobs(ps, f)  PROVE ImportTypeInv'
  BY <1>12 DEF Im!CreateJobs, Im!Planned, Im!Pairings, Im!InsertJob
<1>13. ASSUME NEW j \in jobs, Im!DeleteJob(j)  PROVE ImportTypeInv'
  BY <1>13 DEF Im!DeleteJob
<1>14. ASSUME NEW x, Im!DeleteCounts(x)  PROVE ImportTypeInv'
  BY <1>14 DEF Im!DeleteCounts
<1>15. ASSUME NEW f \in InputFile, Im!DeleteInputData(f)  PROVE ImportTypeInv'
  BY <1>15 DEF Im!DeleteInputData
<1>16. ASSUME NEW p \in Player, Im!DeletePlayerConfig(p)  PROVE ImportTypeInv'
  BY <1>16 DEF Im!DeletePlayerConfig
<1>17. CASE Im!Restart
  BY <1>17 DEF Im!Restart
<1> QED
  BY <1>1, <1>2, <1>3, <1>4, <1>5, <1>6, <1>7, <1>8, <1>9, <1>10, <1>11, <1>12,
     <1>13, <1>14, <1>15, <1>16, <1>17 DEF Im!Next

(* What is staged was uploaded, and nothing takes an object away.          *)
LEMMA ImportStagingStep ==
  ASSUME ImportIInv, [Im!Next]_Im!vars, ImportTypeInv'
  PROVE  ImportStagingInv'
<1> USE DEF ImportIInv, ImportTypeInv, ImportStagingInv, ImportHasBytes, ImportAt, Im!To, Im!NoTask
<1>1. CASE UNCHANGED Im!vars
  BY <1>1 DEF Im!vars
<1>2. ASSUME NEW i \in Import, Im!StartImport(i)  PROVE ImportStagingInv'
  <2>1. UNCHANGED <<rows, objects>> /\ task' = [task EXCEPT ![i].at = "fetch"]
    BY <1>2 DEF Im!StartImport, Im!input
  <2> QED
    BY <2>1
<1>3. ASSUME NEW i \in Import, Im!Fetch(i)  PROVE ImportStagingInv'
  BY <1>3 DEF Im!Fetch, Im!input
<1>4. ASSUME NEW i \in Import, Im!Upload(i)  PROVE ImportStagingInv'
  BY <1>4 DEF Im!Upload, Im!ToUpload
<1>5. ASSUME NEW i \in Import, Im!StageRow(i)  PROVE ImportStagingInv'
  <2>1. PICK f \in task[i].files :
          task' = [task EXCEPT ![i].rows = @ \cup {[file |-> f, known |-> f \in data]}]
    BY <1>5 DEF Im!StageRow
  <2>2. UNCHANGED <<rows, objects>> /\ task[i].at = "stage"
    BY <1>5 DEF Im!StageRow, Im!input
  <2>3. \A k \in Import : task'[k].at = task[k].at /\ task'[k].files = task[k].files
    BY <2>1
  <2>4. \A k \in Import : \A r \in task'[k].rows : r.file \in task[k].files
    BY <2>1
  <2>5. \A k \in Import \ {i} : task'[k] = task[k]
    BY <2>1
  <2> QED
    BY <2>2, <2>3, <2>4, <2>5
<1>6. ASSUME NEW i \in Import, Im!StageCommit(i)  PROVE ImportStagingInv'
  <2>1. /\ UNCHANGED objects /\ task[i].at = "stage"
        /\ rows' = [rows EXCEPT ![i] = task[i].rows]
        /\ \E at \in {"finish", "fail"} : task' = [task EXCEPT ![i].at = at]
    BY <1>6 DEF Im!StageCommit, Im!input
  <2>2. \A k \in Import : task'[k].files = task[k].files /\ task'[k].rows = task[k].rows
    BY <2>1
  <2>3. \A k \in Import \ {i} : task'[k] = task[k] /\ rows'[k] = rows[k]
    BY <2>1
  <2>4. task'[i].at \in {"finish", "fail"} /\ rows'[i] = task[i].rows
    BY <2>1
  <2> QED
    BY <2>1, <2>2, <2>3, <2>4
<1>7. ASSUME NEW i \in Import, Im!Finish(i)  PROVE ImportStagingInv'
  BY <1>7 DEF Im!Finish, Im!input
<1>8. ASSUME NEW i \in Import, Im!StageFails(i)  PROVE ImportStagingInv'
  BY <1>8 DEF Im!StageFails, Im!input
<1>9. ASSUME NEW i \in Import, Im!RecordFailure(i)  PROVE ImportStagingInv'
  BY <1>9 DEF Im!RecordFailure, Im!input
<1>10. ASSUME NEW i \in Import, Im!Confirm(i) \/ Im!Expire(i)  PROVE ImportStagingInv'
  BY <1>10 DEF Im!Confirm, Im!Expire, Im!input
<1>11. ASSUME UNCHANGED <<rows, task, objects>>  PROVE ImportStagingInv'
  BY <1>11
<1>12. ASSUME NEW p \in Player, Im!CreatePlayer(p) \/ Im!DeletePlayerConfig(p)
       PROVE ImportStagingInv'
  BY <1>11, <1>12 DEF Im!CreatePlayer, Im!DeletePlayerConfig
<1>13. ASSUME NEW ps, NEW f, Im!CreateJobs(ps, f)  PROVE ImportStagingInv'
  BY <1>11, <1>13 DEF Im!CreateJobs
<1>14. ASSUME NEW x, Im!DeleteJob(x) \/ Im!DeleteCounts(x) \/ Im!DeleteInputData(x)
       PROVE ImportStagingInv'
  BY <1>11, <1>14 DEF Im!DeleteJob, Im!DeleteCounts, Im!DeleteInputData
<1>15. CASE Im!Restart
  BY <1>15 DEF Im!Restart
<1> QED
  BY <1>1, <1>2, <1>3, <1>4, <1>5, <1>6, <1>7, <1>8, <1>9, <1>10, <1>12, <1>13, <1>14,
     <1>15 DEF Im!Next

(* A use is of what is there, and nothing used is deleted; what a confirm  *)
(* makes known was staged, and so has its bytes.                           *)
LEMMA ImportPinnedStep ==
  ASSUME ImportIInv, [Im!Next]_Im!vars, ImportTypeInv'
  PROVE  Im!PinnedHasBytes'
<1> USE DEF ImportIInv, ImportTypeInv, Im!PinnedHasBytes, Im!Pinned, Im!Made
<1>1. ASSUME UNCHANGED <<data, config, jobs>>, objects \subseteq objects'  PROVE Im!PinnedHasBytes'
  BY <1>1
<1>2. CASE UNCHANGED Im!vars
  BY <1>1, <1>2 DEF Im!vars
<1>3. ASSUME NEW i \in Import,
             Im!StartImport(i) \/ Im!Fetch(i) \/ Im!StageRow(i) \/ Im!StageCommit(i)
      PROVE  Im!PinnedHasBytes'
  BY <1>1, <1>3 DEF Im!StartImport, Im!Fetch, Im!StageRow, Im!StageCommit, Im!input
<1>4. ASSUME NEW i \in Import,
             Im!Finish(i) \/ Im!StageFails(i) \/ Im!RecordFailure(i) \/ Im!Expire(i)
      PROVE  Im!PinnedHasBytes'
  BY <1>1, <1>4 DEF Im!Finish, Im!StageFails, Im!RecordFailure, Im!Expire, Im!input
<1>5. ASSUME NEW i \in Import, Im!Upload(i)  PROVE Im!PinnedHasBytes'
  BY <1>1, <1>5 DEF Im!Upload
<1>6. ASSUME NEW i \in Import, Im!Confirm(i)  PROVE Im!PinnedHasBytes'
  BY <1>6 DEF Im!Confirm, Im!New, ImportStagingInv, ImportHasBytes
<1>7. ASSUME NEW p \in Player, Im!CreatePlayer(p)  PROVE Im!PinnedHasBytes'
  <2>1. PICK fs \in SUBSET InputFile :
          fs \in Im!Release /\ fs \subseteq data /\ config' = [config EXCEPT ![p] = fs]
    BY <1>7 DEF Im!CreatePlayer, Im!Release
  <2>2. fs # {}
    BY <2>1 DEF Im!Release
  <2> QED
    BY <1>7, <2>1, <2>2 DEF Im!CreatePlayer
<1>8. ASSUME NEW ps \in SUBSET Player, NEW f \in InputFile, Im!CreateJobs(ps,
   f)  PROVE Im!PinnedHasBytes'
  <2>1. \A j \in Im!Planned(ps, f) : j.file = f /\ j.players \subseteq ps
    BY DEF Im!Planned, Im!Pairings, Im!InsertJob
  <2> QED
    BY <1>8, <2>1 DEF Im!CreateJobs
<1>9. ASSUME NEW j \in jobs, Im!DeleteJob(j)  PROVE Im!PinnedHasBytes'
  BY <1>9 DEF Im!DeleteJob
<1>10. ASSUME NEW x, Im!DeleteCounts(x)  PROVE Im!PinnedHasBytes'
  BY <1>1, <1>10 DEF Im!DeleteCounts
<1>11. ASSUME NEW f \in InputFile, Im!DeleteInputData(f)  PROVE Im!PinnedHasBytes'
  BY <1>11 DEF Im!DeleteInputData, Im!Refused, Im!InUse
<1>12. ASSUME NEW p \in Player, Im!DeletePlayerConfig(p)  PROVE Im!PinnedHasBytes'
  BY <1>12 DEF Im!DeletePlayerConfig, Im!Refused, Im!InUse
<1>13. CASE Im!Restart
  BY <1>1, <1>13 DEF Im!Restart
<1> QED
  BY <1>2, <1>3, <1>4, <1>5, <1>6, <1>7, <1>8, <1>9, <1>10, <1>11, <1>12, <1>13 DEF Im!Next

(* What stage_import, confirm_import and the deletes keep: every job and   *)
(* player is on files that are there, whose bytes are in the store.        *)
THEOREM ImportPinnedIsThere == Im!Spec => []Im!PinnedHasBytes
<1>1. Im!Init => ImportIInv
  BY DEF Im!Init, ImportIInv, ImportTypeInv, ImportRow, ImportAt, Im!NoTask, ImportStagingInv,
     ImportHasBytes, Im!PinnedHasBytes, Im!Pinned, Im!Made
<1>2. ImportIInv /\ [Im!Next]_Im!vars => ImportIInv'
  BY ImportTypeStep, ImportStagingStep, ImportPinnedStep DEF ImportIInv
<1>3. ImportIInv => Im!PinnedHasBytes
  BY DEF ImportIInv
<1> QED
  BY <1>1, <1>2, <1>3, PTL DEF Im!Spec

(* finish_staging, record_failure, confirm_import and a start of the       *)
(* server leave an import that has ended as it ended.                      *)
THEOREM ImportEndedIsKept == Im!Spec => Im!EndedStays
<1> DEFINE Ended == {"nothing_new", "confirmed", "cancelled", "failed"}
           Kept_ == \A i \in Import : state[i] \in Ended => state'[i] = state[i]
           Typed == state \in [Import -> Ended \cup {"none", "running", "staged"}]
<1>1. Im!Init => Typed
  BY DEF Im!Init
<1>2. ASSUME Typed, [Im!Next]_Im!vars  PROVE Typed' /\ Kept_
  <2>1. ASSUME UNCHANGED state  PROVE Typed' /\ Kept_
    BY <1>2, <2>1
  <2>2. ASSUME NEW i \in Import, NEW s \in Ended \cup {"none", "running", "staged"},
               state' = [state EXCEPT ![i] = s], state[i] \notin Ended
        PROVE  Typed' /\ Kept_
    BY <1>2, <2>2
  <2>3. ASSUME NEW i \in Import, Im!StartImport(i) \/ Im!Confirm(i) \/ Im!Expire(i)
        PROVE  Typed' /\ Kept_
    BY <2>2, <2>3 DEF Im!StartImport, Im!Confirm, Im!Expire
  <2>4. ASSUME NEW i \in Import, Im!Finish(i) \/ Im!RecordFailure(i)  PROVE Typed' /\ Kept_
    BY <1>2, <2>4 DEF Im!Finish, Im!FinishStaging, Im!RecordFailure, Im!Ends
  <2>5. CASE Im!Restart
    BY <1>2, <2>5 DEF Im!Restart
  <2> QED
    BY <1>2, <2>1, <2>3, <2>4, <2>5
    DEF Im!Next, Im!vars, Im!Fetch, Im!Upload, Im!StageRow, Im!StageCommit, Im!StageFails,
       Im!CreatePlayer, Im!CreateJobs,
        Im!DeleteJob, Im!DeleteCounts, Im!DeleteInputData, Im!DeletePlayerConfig
<1>3. Typed /\ [Im!Next]_Im!vars => Typed' /\ [Kept_]_Im!vars
  BY <1>2
<1> QED
  BY <1>1, <1>3, PTL DEF Im!Spec, Im!EndedStays


(***************************************************************************)
(* ArchiveWalk                                                             *)
(*                                                                         *)
(* While it takes entries the walk knows which name tar gives to each, and *)
(* has what tar has under every name it pins; of the aliases it resolves   *)
(* it keeps that the links tar has made lead to a file of that digest.     *)
(* They do so without coming by one name twice, so a reader finds it       *)
(* within as many hops as there are names.                                 *)
(***************************************************************************)

WalkNames  == Name \cup {None}
WalkFiles  == [path : Name, digest : Nat \ {0}]
WalkLinks  == [path : Name, target : Name]
WalkOnDisk == [link : WalkNames, digest : Nat]
WalkState  == [at : {"walking", "aliases", "accepted", "refused"}, path : WalkNames,
               link : WalkNames, pax : BOOLEAN, seen : SUBSET Name, files : SUBSET WalkFiles,
               links : Seq(WalkLinks)]

WalkTypeInv ==
  /\ read \in Nat /\ dirs \subseteq Name
  /\ walk \in WalkState
  /\ given \in [long : WalkNames, longLink : WalkNames, pax : WalkNames, paxLink : WalkNames]
  /\ disk \in [Name -> WalkOnDisk]

(* What headers gave tar is one name at most, and the walk's.              *)
WalkOneOf(slot, long, pax) ==
  /\ long = None \/ pax = None
  /\ slot = IF long # None THEN long ELSE pax

WalkGivenInv ==
  walk.at = "walking" =>
    /\ WalkOneOf(walk.path, given.long, given.pax)
    /\ WalkOneOf(walk.link, given.longLink, given.paxLink)
    /\ ~walk.pax => given.pax = None /\ given.paxLink = None

(* Under the names the walk pins tar has what the walk has read.           *)
WalkLinked(n) == \E i \in DOMAIN walk.links : walk.links[i].path = n

WalkSeenInv ==
  walk.at # "refused" =>
    /\ \A n \in Name : Kind[n] # None =>
         IF n \in walk.seen THEN Wa!FileAt(n) # {} \/ WalkLinked(n)
                            ELSE Wa!FileAt(n) = {} /\ disk[n] = Wa!Nothing
    /\ \A i \in DOMAIN walk.links :
         disk[walk.links[i].path] = [link |-> walk.links[i].target, digest |-> 0]
    /\ \A i \in DOMAIN walk.links :
         walk.links[i].path \in walk.seen /\ Kind[walk.links[i].path] # None
    /\ \A f \in walk.files : f.path \in walk.seen /\ Kind[f.path] # None

(* The links of d from n, followed for m hops, come to the names of c.     *)
WalkPath(d, n, m, c) ==
  /\ c \in [0..m -> Name] /\ c[0] = n
  /\ \A i \in 1..m : d[c[i - 1]].link = c[i]

(* They lead to a file of that digest.                                     *)
WalkLeads(d, n, digest) ==
  \E m \in Nat : \E c \in [0..m -> Name] :
    WalkPath(d, n, m, c) /\ d[c[m]] = [link |-> None, digest |-> digest]

WalkLeadsInv ==
  /\ \A n \in Name : disk[n].link # None => disk[n].digest = 0
  /\ walk.at = "walking" =>
       \A f \in walk.files : disk[f.path] = [link |-> None, digest |-> f.digest]
  /\ walk.at # "refused" => \A f \in walk.files : WalkLeads(disk, f.path, f.digest)
  /\ walk.at = "accepted" => Wa!Unresolved = {}

WalkIInv == WalkTypeInv /\ WalkGivenInv /\ WalkSeenInv /\ WalkLeadsInv

(* A reader of headers refuses a second name, and otherwise keeps the one  *)
(* there is.                                                               *)
LEMMA WalkHeaders ==
  ASSUME WalkTypeInv, WalkGivenInv,
         \/ \E n \in Name : Wa!LongName(n) \/ Wa!LongLink(n)
         \/ \E n, t \in Name \cup {None} : Wa!PaxHeader(n, t)
  PROVE  /\ WalkTypeInv' /\ WalkGivenInv' /\ UNCHANGED <<disk, dirs>>
         /\ \/ walk'.at = "refused"
            \/ /\ walk'.at = walk.at /\ walk'.seen = walk.seen
               /\ walk'.files = walk.files /\ walk'.links = walk.links
<1> USE DEF WalkTypeInv, WalkNames, WalkState
<1> DEFINE Keeps(w) == /\ w.at = walk.at /\ w.seen = walk.seen
                       /\ w.files = walk.files /\ w.links = walk.links
           Takes(w, p, l, x) ==
             /\ Keeps(w)
             /\ ~(p # None /\ walk.path # None) /\ ~(l # None /\ walk.link # None)
             /\ ~(x /\ walk.pax)
             /\ w.path = (IF p = None THEN walk.path ELSE p)
             /\ w.link = (IF l = None THEN walk.link ELSE l)
             /\ w.pax = (walk.pax \/ x)
           Reads(w, p, l, x) == w \in WalkState /\ (w.at = "refused" \/ Takes(w, p, l, x))
<1>1. Wa!Refused \in WalkState /\ Wa!Refused.at = "refused"
  <2>1. << >> \in Seq(WalkLinks)
    OBVIOUS
  <2> QED
    BY <2>1 DEF Wa!Refused, Wa!Walking
<1>2. ASSUME NEW p \in WalkNames, NEW l \in WalkNames, NEW x \in BOOLEAN, walk.at = "walking"
      PROVE  Reads(Wa!Named(p, l, x), p, l, x)
  <2> DEFINE np == IF p = None THEN walk.path ELSE p
             nl == IF l = None THEN walk.link ELSE l
             w  == [walk EXCEPT !.path = np, !.link = nl, !.pax = walk.pax \/ x]
  <2>1. CASE (p # None /\ walk.path # None) \/ (l # None /\ walk.link # None) \/ (x /\ walk.pax)
    <3>1. Wa!Named(p, l, x) = Wa!Refused
      BY <2>1 DEF Wa!Named, Wa!Slot
    <3> QED
      BY <1>1, <3>1
  <2>2. CASE ~((p # None /\ walk.path # None) \/ (l # None /\ walk.link # None) \/ (x /\ walk.pax))
    <3>1. Wa!Named(p, l, x) = w
      BY <2>2 DEF Wa!Named, Wa!Slot
    <3>2. w \in WalkState /\ Keeps(w) /\ w.path = np /\ w.link = nl /\ w.pax = (walk.pax \/ x)
      OBVIOUS
    <3> HIDE DEF w
    <3> QED
      BY <2>2, <3>1, <3>2
  <2> QED
    BY <2>1, <2>2
<1> HIDE DEF WalkState, Takes, Reads
<1>3. ASSUME NEW n \in Name, Wa!LongName(n)
      PROVE  /\ WalkTypeInv' /\ WalkGivenInv' /\ UNCHANGED <<disk, dirs>>
             /\ walk'.at = "refused" \/ Keeps(walk')
  <2>1. walk.at = "walking" /\ walk' = Wa!Named(n, None, FALSE) /\ UNCHANGED <<disk, dirs>>
    BY <1>3 DEF Wa!LongName, Wa!NextEntry
  <2>2. read' \in Nat /\ given' = [given EXCEPT !.long = n]
    BY <1>3 DEF Wa!LongName, Wa!NextEntry
  <2>3. n # None /\ None \in WalkNames /\ n \in WalkNames
    BY RecordsAssumption DEF RecordsAssumption
  <2>4. Reads(walk', n, None, FALSE)
    BY <1>2, <2>1, <2>3
  <2>5. walk' \in WalkState /\ (walk'.at = "refused" \/ Keeps(walk'))
    BY <2>4 DEF Reads, Takes
  <2>6. CASE walk'.at = "refused"
    BY <2>1, <2>2, <2>3, <2>5, <2>6 DEF WalkGivenInv
  <2>7. CASE Takes(walk', n, None, FALSE)
    BY <2>1, <2>2, <2>3, <2>5, <2>7 DEF Takes, WalkGivenInv, WalkOneOf
  <2> QED
    BY <2>4, <2>6, <2>7 DEF Reads
<1>4. ASSUME NEW n \in Name, Wa!LongLink(n)
      PROVE  /\ WalkTypeInv' /\ WalkGivenInv' /\ UNCHANGED <<disk, dirs>>
             /\ walk'.at = "refused" \/ Keeps(walk')
  <2>1. walk.at = "walking" /\ walk' = Wa!Named(None, n, FALSE) /\ UNCHANGED <<disk, dirs>>
    BY <1>4 DEF Wa!LongLink, Wa!NextEntry
  <2>2. read' \in Nat /\ given' = [given EXCEPT !.longLink = n]
    BY <1>4 DEF Wa!LongLink, Wa!NextEntry
  <2>3. n # None /\ None \in WalkNames /\ n \in WalkNames
    BY RecordsAssumption DEF RecordsAssumption
  <2>4. Reads(walk', None, n, FALSE)
    BY <1>2, <2>1, <2>3
  <2>5. walk' \in WalkState /\ (walk'.at = "refused" \/ Keeps(walk'))
    BY <2>4 DEF Reads, Takes
  <2>6. CASE walk'.at = "refused"
    BY <2>1, <2>2, <2>3, <2>5, <2>6 DEF WalkGivenInv
  <2>7. CASE Takes(walk', None, n, FALSE)
    BY <2>1, <2>2, <2>3, <2>5, <2>7 DEF Takes, WalkGivenInv, WalkOneOf
  <2> QED
    BY <2>4, <2>6, <2>7 DEF Reads
<1>5. ASSUME NEW n \in Name \cup {None}, NEW t \in Name \cup {None}, Wa!PaxHeader(n, t)
      PROVE  /\ WalkTypeInv' /\ WalkGivenInv' /\ UNCHANGED <<disk, dirs>>
             /\ walk'.at = "refused" \/ Keeps(walk')
  <2>1. walk.at = "walking" /\ walk' = Wa!Named(n, t, TRUE) /\ UNCHANGED <<disk, dirs>>
    BY <1>5 DEF Wa!PaxHeader, Wa!NextEntry
  <2>2. given' = [given EXCEPT !.pax = n, !.paxLink = t] /\ read' \in Nat
    <3>1. given' = [given EXCEPT !.pax = n, !.paxLink = t]
      BY <1>5 DEF Wa!PaxHeader
    <3>2. read' = read + 1 /\ read \in Nat
      BY <1>5 DEF Wa!PaxHeader, Wa!NextEntry
    <3> QED
      BY <3>1, <3>2
  <2>3. n \in WalkNames /\ t \in WalkNames
    OBVIOUS
  <2>4. Reads(walk', n, t, TRUE)
    BY <1>2, <2>1, <2>3
  <2>5. walk' \in WalkState /\ (walk'.at = "refused" \/ Keeps(walk'))
    BY <2>4 DEF Reads, Takes
  <2>6. CASE walk'.at = "refused"
    BY <2>1, <2>2, <2>3, <2>5, <2>6 DEF WalkGivenInv
  <2>7. CASE Takes(walk', n, t, TRUE)
    BY <2>1, <2>2, <2>3, <2>5, <2>7 DEF Takes, WalkGivenInv, WalkOneOf
  <2> QED
    BY <2>4, <2>6, <2>7 DEF Reads
<1> QED
  BY <1>3, <1>4, <1>5

(* Tar and the walk give an entry one name, and a link one target.         *)
LEMMA WalkUnpacks ==
  ASSUME WalkTypeInv, WalkGivenInv, walk.at = "walking",
         NEW own \in Name, NEW goal \in WalkNames, NEW digest \in Nat,
         Wa!Unpacks(own, goal, digest)
  PROVE  LET n == Wa!Own(walk.path, own)
             t == IF goal = None THEN None ELSE Wa!Own(walk.link, goal)
         IN /\ n \in Name /\ t \in WalkNames /\ (goal # None => t \in Name)
            /\ disk' = [disk EXCEPT ![n] = [link |-> t, digest |-> digest]]
            /\ disk' \in [Name -> WalkOnDisk] /\ dirs' \subseteq Name
<1> DEFINE n == Wa!Own(walk.path, own)
           t == IF goal = None THEN None ELSE Wa!Own(walk.link, goal)
<1>1. /\ walk.path \in WalkNames /\ walk.link \in WalkNames
      /\ WalkOneOf(walk.path, given.long, given.pax)
      /\ WalkOneOf(walk.link, given.longLink, given.paxLink)
      /\ given.long \in WalkNames /\ given.pax \in WalkNames
      /\ given.longLink \in WalkNames /\ given.paxLink \in WalkNames
  BY DEF WalkTypeInv, WalkState, WalkGivenInv
<1>2. Wa!Either(given.long, given.pax, own) = {n} /\ n \in Name
  BY <1>1 DEF Wa!Either, Wa!Own, WalkOneOf, WalkNames
<1>3. ASSUME goal # None
      PROVE  Wa!Either(given.longLink, given.paxLink, goal) = {t} /\ t \in Name
  BY <1>1, <1>3 DEF Wa!Either, Wa!Own, WalkOneOf, WalkNames
<1>4. (IF goal = None THEN {None} ELSE Wa!Either(given.longLink, given.paxLink, goal)) = {t}
  BY <1>3
<1>5. t \in WalkNames
  BY <1>3 DEF WalkNames
<1> HIDE DEF n, t
<1>6. disk' = [disk EXCEPT ![n] = [link |-> t, digest |-> digest]]
  BY <1>2, <1>4 DEF Wa!Unpacks
<1>7. disk' \in [Name -> WalkOnDisk]
  BY <1>2, <1>5, <1>6 DEF WalkTypeInv, WalkOnDisk
<1>8. dirs' \subseteq Name
  BY <1>2, <1>4 DEF Wa!Unpacks, WalkTypeInv
<1> QED
  BY <1>2, <1>3, <1>5, <1>6, <1>7, <1>8 DEF n, t

LEMMA WalkDirect ==
  ASSUME NEW d, NEW n \in Name, NEW digest, d[n] = [link |-> None, digest |-> digest]
  PROVE  WalkLeads(d, n, digest)
<1> DEFINE c == [k \in 0..0 |-> n]
<1>1. c \in [0..0 -> Name] /\ c[0] = n
  OBVIOUS
<1> HIDE DEF c
<1>2. WalkPath(d, n, 0, c)
  BY <1>1 DEF WalkPath
<1> QED
  BY <1>1, <1>2 DEF WalkLeads

LEMMA WalkPathsAre ==
  ASSUME walk \in WalkState
  PROVE  /\ \A i \in DOMAIN walk.links : walk.links[i].path \in Name /\ walk.links[i].target \in Name
         /\ \A f \in walk.files : f.path \in Name /\ f.digest \in Nat \ {0}
<1>1. walk.links \in Seq(WalkLinks) /\ walk.files \in SUBSET WalkFiles
  BY DEF WalkState
<1>2. \A i \in DOMAIN walk.links : walk.links[i] \in WalkLinks
  BY <1>1
<1>3. \A f \in walk.files : f \in WalkFiles
  BY <1>1
<1> QED
  BY <1>2, <1>3 DEF WalkLinks, WalkFiles

(* A refused archive is not looked at again.                               *)
LEMMA WalkRefuses ==
  ASSUME WalkIInv, walk'.at = "refused", WalkTypeInv',
         \A n \in Name : disk'[n].link # None => disk'[n].digest = 0
  PROVE  WalkIInv'
BY DEF WalkIInv, WalkGivenInv, WalkSeenInv, WalkLeadsInv

LEMMA WalkHeaderStep ==
  ASSUME WalkIInv,
         \/ \E n \in Name : Wa!LongName(n) \/ Wa!LongLink(n)
         \/ \E n, t \in Name \cup {None} : Wa!PaxHeader(n, t)
  PROVE  WalkIInv'
<1> USE DEF WalkIInv
<1>1. WalkTypeInv' /\ WalkGivenInv' /\ UNCHANGED disk
  BY WalkHeaders
<1>2. CASE walk'.at = "refused"
  BY <1>1, <1>2, WalkRefuses DEF WalkLeadsInv
<1>3. CASE /\ walk'.at = walk.at /\ walk'.seen = walk.seen
           /\ walk'.files = walk.files /\ walk'.links = walk.links
  <2>1. WalkSeenInv'
    BY <1>1, <1>3 DEF WalkSeenInv, WalkLinked, Wa!FileAt
  <2>2. WalkLeadsInv'
    BY <1>1, <1>3 DEF WalkLeadsInv, Wa!Unresolved, Wa!FileAt
  <2> QED
    BY <1>1, <2>1, <2>2
<1> QED
  BY <1>2, <1>3, WalkHeaders

(* A file, and what the walk keeps of it.                                  *)
LEMMA WalkFileStep ==
  ASSUME WalkIInv, NEW own \in Name, Wa!File(own)
  PROVE  WalkIInv'
<1>0. PICK digest \in Nat \ {0} : digest = read + 1
  BY DEF WalkIInv, WalkTypeInv
<1>1. /\ walk.at = "walking" /\ walk \in WalkState /\ read' = digest
      /\ walk' = Wa!WalkFile(Wa!Own(walk.path, own), digest) /\ given' = Wa!NoGiven
      /\ Wa!Unpacks(own, None, digest)
  BY <1>0 DEF Wa!File, Wa!NextEntry, WalkIInv, WalkTypeInv
<1>2. PICK n \in Name :
        /\ n = Wa!Own(walk.path, own)
        /\ disk' = [disk EXCEPT ![n] = [link |-> None, digest |-> digest]]
        /\ disk' \in [Name -> WalkOnDisk] /\ disk \in [Name -> WalkOnDisk] /\ dirs' \subseteq Name
  BY <1>1, WalkUnpacks DEF WalkIInv, WalkTypeInv, WalkNames
<1> DEFINE file == [path |-> n, digest |-> digest]
           e == Wa!Entry(walk)
<1>3. /\ e \in WalkState /\ e.at = "walking" /\ e.path = None /\ e.link = None /\ ~e.pax
      /\ e.seen = walk.seen /\ e.files = walk.files /\ e.links = walk.links
  BY <1>1 DEF Wa!Entry, WalkState, WalkNames
<1>4. /\ Wa!Refused \in WalkState /\ Wa!Refused.at = "refused"
      /\ Wa!NoGiven \in [long : WalkNames, longLink : WalkNames, pax : WalkNames, paxLink : WalkNames]
  <2>1. << >> \in Seq(WalkLinks)
    OBVIOUS
  <2> QED
    BY <2>1 DEF Wa!Refused, Wa!Walking, WalkState, WalkNames, Wa!NoGiven
<1> HIDE DEF e
<1>5. \A k \in Name : disk'[k].link # None => disk'[k].digest = 0
  BY <1>2 DEF WalkIInv, WalkLeadsInv
<1> DEFINE w == [e EXCEPT !.seen = @ \cup {n}, !.files = @ \cup {file}]
<1>6. CASE Kind[n] # None /\ Wa!Twice(n)
  <2>1. walk' = Wa!Refused
    BY <1>1, <1>2, <1>6 DEF Wa!WalkFile
  <2>2. WalkTypeInv'
    BY <1>1, <1>2, <1>4, <2>1 DEF WalkTypeInv
  <2> QED
    BY <1>4, <1>5, <2>1, <2>2, WalkRefuses
<1>7. CASE Kind[n] = None
  <2>1. walk' = e
    BY <1>1, <1>2, <1>7 DEF Wa!WalkFile, e
  <2>2. WalkTypeInv' /\ WalkGivenInv'
    BY <1>1, <1>2, <1>3, <1>4, <2>1 DEF WalkTypeInv, WalkGivenInv, WalkOneOf, Wa!NoGiven
  <2>3. \A k \in Name : Kind[k] # None => disk'[k] = disk[k]
    BY <1>2, <1>7
  <2>4. /\ \A i \in DOMAIN walk.links : walk.links[i].path \in Name
        /\ \A f \in walk.files : f.path \in Name
    BY <1>1, WalkPathsAre
  <2>5. WalkSeenInv'
    BY <1>1, <1>3, <2>1, <2>3, <2>4 DEF WalkIInv, WalkSeenInv, WalkLinked, Wa!FileAt
  <2>6. \A f \in walk.files : disk'[f.path] = [link |-> None, digest |-> f.digest]
    BY <1>1, <2>3, <2>4 DEF WalkIInv, WalkSeenInv, WalkLeadsInv
  <2>7. WalkLeadsInv'
    BY <1>3, <1>5, <2>1, <2>4, <2>6, WalkDirect DEF WalkLeadsInv
  <2> QED
    BY <2>2, <2>5, <2>7 DEF WalkIInv
<1>8. CASE Kind[n] # None /\ ~Wa!Twice(n)
  <2>1. walk' = w
    BY <1>1, <1>2, <1>8 DEF Wa!WalkFile, e
  <2>2. file \in WalkFiles /\ file.path = n /\ file.digest = digest
    BY <1>1, <1>2 DEF WalkFiles
  <2> HIDE DEF file
  <2>3. /\ w \in WalkState /\ w.at = "walking" /\ w.path = None /\ w.link = None /\ ~w.pax
        /\ w.seen = walk.seen \cup {n} /\ w.files = walk.files \cup {file}
        /\ w.links = walk.links
    BY <1>2, <1>3, <2>2 DEF WalkState
  <2> HIDE DEF w
  <2>4. WalkTypeInv' /\ WalkGivenInv'
    BY <1>1, <1>2, <1>4, <2>1, <2>3 DEF WalkTypeInv, WalkGivenInv, WalkOneOf, Wa!NoGiven
  <2>5. n \notin walk.seen
    BY <1>8 DEF Wa!Twice
  <2>6. \A k \in Name \ {n} : disk'[k] = disk[k]
    BY <1>2
  <2>7. disk'[n] = [link |-> None, digest |-> digest]
    BY <1>2
  <2>8. /\ \A i \in DOMAIN walk.links : walk.links[i].path \in Name \ {n}
        /\ \A f \in walk.files : f.path \in Name \ {n}
    BY <1>1, <2>5, WalkPathsAre DEF WalkIInv, WalkSeenInv
  <2>9. WalkSeenInv'
    <3>1. \A k \in Name \ {n} : Wa!FileAt(k)' = Wa!FileAt(k)
      BY <2>1, <2>2, <2>3 DEF Wa!FileAt
    <3>2. Wa!FileAt(n)' # {}
      BY <2>1, <2>2, <2>3 DEF Wa!FileAt
    <3>3. \A k : WalkLinked(k)' <=> WalkLinked(k)
      BY <2>1, <2>3 DEF WalkLinked
    <3> QED
      BY <1>1, <1>8, <2>1, <2>2, <2>3, <2>5, <2>6, <2>8, <3>1, <3>2, <3>3 DEF WalkIInv, WalkSeenInv
  <2>10. \A f \in walk.files \cup {file} : disk'[f.path] = [link |-> None, digest |-> f.digest]
    BY <1>1, <2>2, <2>6, <2>7, <2>8 DEF WalkIInv, WalkLeadsInv
  <2>11. WalkLeadsInv'
    <3>1. walk'.files = walk.files \cup {file}
      BY <2>1, <2>3
    <3>2. \A f \in walk'.files : f.path \in Name
      BY <2>2, <2>8, <3>1
    <3>3. \A f \in walk'.files : disk'[f.path] = [link |-> None, digest |-> f.digest]
      BY <2>10, <3>1
    <3>4. \A f \in walk'.files : WalkLeads(disk', f.path, f.digest)
      BY <3>2, <3>3, WalkDirect
    <3> QED
      BY <1>5, <2>1, <2>3, <3>3, <3>4 DEF WalkLeadsInv
  <2> QED
    BY <2>4, <2>9, <2>11 DEF WalkIInv
<1> QED
  BY <1>6, <1>7, <1>8

LEMMA WalkSymlinkStep ==
  ASSUME WalkIInv, NEW own \in Name, NEW goal \in Name, Wa!Symlink(own, goal)
  PROVE  WalkIInv'
<1>1. /\ walk.at = "walking" /\ walk \in WalkState /\ read' \in Nat
      /\ walk' = Wa!WalkLink(Wa!Own(walk.path, own), Wa!Own(walk.link, goal))
      /\ given' = Wa!NoGiven
      /\ Wa!Unpacks(own, goal, 0)
  BY DEF Wa!Symlink, Wa!NextEntry, WalkIInv, WalkTypeInv
<1>2. goal \in WalkNames /\ goal # None /\ None \notin Name /\ 0 \in Nat
  BY RecordsAssumption DEF WalkNames, RecordsAssumption
<1>3. PICK n \in Name, t \in Name :
        /\ n = Wa!Own(walk.path, own) /\ t = Wa!Own(walk.link, goal)
        /\ disk' = [disk EXCEPT ![n] = [link |-> t, digest |-> 0]]
        /\ disk' \in [Name -> WalkOnDisk] /\ disk \in [Name -> WalkOnDisk] /\ dirs' \subseteq Name
  <2>1. WalkTypeInv /\ WalkGivenInv /\ disk \in [Name -> WalkOnDisk]
    BY DEF WalkIInv, WalkTypeInv
  <2>2. LET n == Wa!Own(walk.path, own)
            t == IF goal = None THEN None ELSE Wa!Own(walk.link, goal)
        IN /\ n \in Name /\ t \in WalkNames /\ (goal # None => t \in Name)
           /\ disk' = [disk EXCEPT ![n] = [link |-> t, digest |-> 0]]
           /\ disk' \in [Name -> WalkOnDisk] /\ dirs' \subseteq Name
    BY <1>1, <1>2, <2>1, WalkUnpacks
  <2> QED
    BY <1>2, <2>1, <2>2
<1> DEFINE l == [path |-> n, target |-> t]
           e == Wa!Entry(walk)
<1>4. /\ e \in WalkState /\ e.at = "walking" /\ e.path = None /\ e.link = None /\ ~e.pax
      /\ e.seen = walk.seen /\ e.files = walk.files /\ e.links = walk.links
  BY <1>1 DEF Wa!Entry, WalkState, WalkNames
<1>5. /\ Wa!Refused \in WalkState /\ Wa!Refused.at = "refused"
      /\ Wa!NoGiven \in [long : WalkNames, longLink : WalkNames, pax : WalkNames, paxLink : WalkNames]
  <2>1. << >> \in Seq(WalkLinks)
    OBVIOUS
  <2> QED
    BY <2>1 DEF Wa!Refused, Wa!Walking, WalkState, WalkNames, Wa!NoGiven
<1> HIDE DEF e
<1>6. \A k \in Name : disk'[k].link # None => disk'[k].digest = 0
  BY <1>3 DEF WalkIInv, WalkLeadsInv
<1> DEFINE w == [e EXCEPT !.seen = @ \cup {n}, !.links = Append(@, l)]
<1>7. CASE Kind[n] # None /\ Wa!Twice(n)
  <2>1. walk' = Wa!Refused
    BY <1>1, <1>3, <1>7 DEF Wa!WalkLink
  <2>2. WalkTypeInv'
    BY <1>1, <1>3, <1>5, <2>1 DEF WalkTypeInv
  <2> QED
    BY <1>5, <1>6, <2>1, <2>2, WalkRefuses
<1>8. CASE Kind[n] = None
  <2>1. walk' = e
    BY <1>1, <1>3, <1>8 DEF Wa!WalkLink, e
  <2>2. WalkTypeInv' /\ WalkGivenInv'
    BY <1>1, <1>3, <1>4, <1>5, <2>1 DEF WalkTypeInv, WalkGivenInv, WalkOneOf, Wa!NoGiven
  <2>3. \A k \in Name : Kind[k] # None => disk'[k] = disk[k]
    BY <1>3, <1>8
  <2>4. /\ \A i \in DOMAIN walk.links : walk.links[i].path \in Name
        /\ \A f \in walk.files : f.path \in Name
    BY <1>1, WalkPathsAre
  <2>5. WalkSeenInv'
    BY <1>1, <1>4, <2>1, <2>3, <2>4 DEF WalkIInv, WalkSeenInv, WalkLinked, Wa!FileAt
  <2>6. \A f \in walk.files : disk'[f.path] = [link |-> None, digest |-> f.digest]
    BY <1>1, <2>3, <2>4 DEF WalkIInv, WalkSeenInv, WalkLeadsInv
  <2>7. WalkLeadsInv'
    BY <1>4, <1>6, <2>1, <2>4, <2>6, WalkDirect DEF WalkLeadsInv
  <2> QED
    BY <2>2, <2>5, <2>7 DEF WalkIInv
<1>9. CASE Kind[n] # None /\ ~Wa!Twice(n)
  <2>1. walk' = w
    BY <1>1, <1>3, <1>9 DEF Wa!WalkLink, e
  <2>2. l \in WalkLinks /\ l.path = n /\ l.target = t
    BY <1>3 DEF WalkLinks
  <2> HIDE DEF l
  <2>3. /\ w \in WalkState /\ w.at = "walking" /\ w.path = None /\ w.link = None /\ ~w.pax
        /\ w.seen = walk.seen \cup {n} /\ w.files = walk.files
        /\ w.links = Append(walk.links, l)
    <3>1. walk.links \in Seq(WalkLinks) /\ Append(walk.links, l) \in Seq(WalkLinks)
      BY <1>1, <2>2 DEF WalkState
    <3> QED
      BY <1>3, <1>4, <2>2, <3>1 DEF WalkState
  <2> HIDE DEF w
  <2>4. WalkTypeInv' /\ WalkGivenInv'
    BY <1>1, <1>3, <1>5, <2>1, <2>3 DEF WalkTypeInv, WalkGivenInv, WalkOneOf, Wa!NoGiven
  <2>5. n \notin walk.seen
    BY <1>9 DEF Wa!Twice
  <2>6. \A k \in Name \ {n} : disk'[k] = disk[k]
    BY <1>3
  <2>7. disk'[n] = [link |-> t, digest |-> 0]
    BY <1>3
  <2>8. /\ \A i \in DOMAIN walk.links : walk.links[i].path \in Name \ {n}
        /\ \A f \in walk.files : f.path \in Name \ {n}
    BY <1>1, <2>5, WalkPathsAre DEF WalkIInv, WalkSeenInv
  <2>9. /\ DOMAIN walk'.links = DOMAIN walk.links \cup {Len(walk.links) + 1}
        /\ \A i \in DOMAIN walk.links : walk'.links[i] = walk.links[i]
        /\ walk'.links[Len(walk.links) + 1] = l
    <3>1. walk.links \in Seq(WalkLinks)
      BY <1>1 DEF WalkState
    <3>2. walk'.links = Append(walk.links, l)
      BY <2>1, <2>3
    <3> QED
      BY <3>1, <3>2
  <2>10. WalkSeenInv'
    <3>1. \A k \in Name : Wa!FileAt(k)' = Wa!FileAt(k)
      BY <2>1, <2>3 DEF Wa!FileAt
    <3>2. \A k \in Name : WalkLinked(k)' <=> (WalkLinked(k) \/ k = n)
      BY <2>2, <2>9 DEF WalkLinked
    <3>3. \A i \in DOMAIN walk'.links :
            /\ disk'[walk'.links[i].path] = [link |-> walk'.links[i].target, digest |-> 0]
            /\ walk'.links[i].path \in walk'.seen /\ Kind[walk'.links[i].path] # None
      <4>1. ASSUME NEW i \in DOMAIN walk.links
            PROVE  /\ walk.links[i].path \in Name \ {n} /\ walk.links[i].path \in walk.seen
                   /\ Kind[walk.links[i].path] # None
                   /\ disk[walk.links[i].path] = [link |-> walk.links[i].target, digest |-> 0]
        BY <1>1, <2>8 DEF WalkIInv, WalkSeenInv
      <4>2. walk'.seen = walk.seen \cup {n}
        BY <2>1, <2>3
      <4>3. ASSUME NEW i \in DOMAIN walk.links
            PROVE  /\ disk'[walk'.links[i].path] = [link |-> walk'.links[i].target, digest |-> 0]
                   /\ walk'.links[i].path \in walk'.seen /\ Kind[walk'.links[i].path] # None
        BY <2>6, <2>9, <4>1, <4>2
      <4>4. /\ disk'[l.path] = [link |-> l.target, digest |-> 0]
            /\ l.path \in walk'.seen /\ Kind[l.path] # None
        BY <1>9, <2>2, <2>7, <4>2
      <4> QED
        BY <2>9, <4>3, <4>4
    <3>4. \A f \in walk'.files : f.path \in walk'.seen /\ Kind[f.path] # None
      BY <1>1, <2>1, <2>3 DEF WalkIInv, WalkSeenInv
    <3>5. \A k \in Name : Kind[k] # None =>
            IF k \in walk'.seen THEN Wa!FileAt(k)' # {} \/ WalkLinked(k)'
                                ELSE Wa!FileAt(k)' = {} /\ disk'[k] = Wa!Nothing
      BY <1>1, <2>1, <2>3, <2>6, <3>1, <3>2 DEF WalkIInv, WalkSeenInv
    <3> QED
      BY <3>3, <3>4, <3>5 DEF WalkSeenInv
  <2>11. WalkLeadsInv'
    <3>1. walk'.files = walk.files
      BY <2>1, <2>3
    <3>2. \A f \in walk'.files : f.path \in Name
      BY <2>8, <3>1
    <3>3. \A f \in walk'.files : disk'[f.path] = [link |-> None, digest |-> f.digest]
      BY <1>1, <2>6, <2>8, <3>1 DEF WalkIInv, WalkLeadsInv
    <3>4. \A f \in walk'.files : WalkLeads(disk', f.path, f.digest)
      BY <3>2, <3>3, WalkDirect
    <3> QED
      BY <1>6, <2>1, <2>3, <3>3, <3>4 DEF WalkLeadsInv
  <2> QED
    BY <2>4, <2>10, <2>11 DEF WalkIInv
<1> QED
  BY <1>7, <1>8, <1>9

(* A directory takes names, and the walk keeps nothing of it; the end of   *)
(* the archive and its acceptance change nothing the walk has read.        *)
LEMMA WalkOtherStep ==
  ASSUME WalkIInv, (\E own \in Name : Wa!Directory(own)) \/ Wa!Refuses \/ Wa!End \/ Wa!Accept
  PROVE  WalkIInv'
<1> USE DEF WalkIInv
<1>1. /\ walk \in WalkState /\ read' \in Nat /\ disk' = disk
      /\ given' = given \/ given' = Wa!NoGiven
      /\ dirs' \subseteq Name
  <2>1. CASE Wa!Refuses \/ Wa!End \/ Wa!Accept
    BY <2>1 DEF WalkTypeInv, Wa!Refuses, Wa!End, Wa!Accept, Wa!NextEntry
  <2>2. ASSUME NEW own \in Name, Wa!Directory(own)
        PROVE  /\ walk \in WalkState /\ read' \in Nat /\ disk' = disk
               /\ given' = Wa!NoGiven /\ dirs' \subseteq Name
    <3>1. PICK n \in Wa!Either(given.long, given.pax, own) : dirs' = dirs \cup {n}
      BY <2>2 DEF Wa!Directory
    <3>2. n \in Name
      BY <3>1 DEF Wa!Either, WalkTypeInv, WalkNames
    <3> QED
      BY <2>2, <3>1, <3>2 DEF WalkTypeInv, Wa!Directory, Wa!NextEntry
  <2> QED
    BY <2>1, <2>2
<1>2. /\ Wa!Refused \in WalkState /\ Wa!Refused.at = "refused"
      /\ Wa!NoGiven \in [long : WalkNames, longLink : WalkNames, pax : WalkNames, paxLink : WalkNames]
  <2>1. << >> \in Seq(WalkLinks)
    OBVIOUS
  <2> QED
    BY <2>1 DEF Wa!Refused, Wa!Walking, WalkState, WalkNames, Wa!NoGiven
<1> DEFINE Same(w) == w.seen = walk.seen /\ w.files = walk.files /\ w.links = walk.links
<1>3. CASE walk' = Wa!Refused
  <2>1. WalkTypeInv'
    BY <1>1, <1>2, <1>3 DEF WalkTypeInv
  <2> QED
    BY <1>1, <1>2, <1>3, <2>1, WalkRefuses DEF WalkLeadsInv
<1>4. ASSUME Same(walk'), walk' \in WalkState, walk.at # "refused",
             walk'.at = "walking" => walk.at = "walking",
             walk'.at = "walking" => WalkGivenInv', walk'.at = "accepted" => Wa!Unresolved = {}
      PROVE  WalkIInv'
  <2>1. WalkTypeInv'
    BY <1>1, <1>2, <1>4 DEF WalkTypeInv
  <2>2. WalkGivenInv'
    BY <1>4 DEF WalkGivenInv
  <2>3. WalkSeenInv'
    BY <1>1, <1>4 DEF WalkSeenInv, WalkLinked, Wa!FileAt
  <2>4. WalkLeadsInv'
    BY <1>1, <1>4 DEF WalkLeadsInv, Wa!Unresolved, Wa!FileAt
  <2> QED
    BY <2>1, <2>2, <2>3, <2>4
<1>5. CASE \E own \in Name : Wa!Directory(own)
  <2>1. walk.at = "walking" /\ walk' = Wa!Entry(walk) /\ given' = Wa!NoGiven
    BY <1>5 DEF Wa!Directory, Wa!NextEntry
  <2>2. /\ walk' \in WalkState /\ walk'.at = "walking" /\ Same(walk')
        /\ walk'.path = None /\ walk'.link = None /\ ~walk'.pax
    BY <1>1, <2>1 DEF Wa!Entry, WalkState, WalkNames
  <2>3. WalkGivenInv'
    BY <2>1, <2>2 DEF WalkGivenInv, WalkOneOf, Wa!NoGiven
  <2> QED
    BY <1>4, <2>1, <2>2, <2>3
<1>6. CASE Wa!End
  <2>1. walk.at = "walking" /\ walk' = [walk EXCEPT !.at = "aliases"]
    BY <1>6 DEF Wa!End
  <2>2. walk' \in WalkState /\ walk'.at = "aliases" /\ Same(walk')
    BY <1>1, <2>1 DEF WalkState
  <2> QED
    BY <1>4, <2>1, <2>2
<1>7. CASE Wa!Accept /\ walk' # Wa!Refused
  <2>1. /\ walk.at = "aliases" /\ Wa!Unresolved = {}
        /\ walk' = [walk EXCEPT !.at = "accepted"]
    BY <1>7 DEF Wa!Accept
  <2>2. walk' \in WalkState /\ walk'.at = "accepted" /\ Same(walk')
    BY <1>1, <2>1 DEF WalkState
  <2> QED
    BY <1>4, <2>1, <2>2
<1> QED
  BY <1>3, <1>5, <1>6, <1>7 DEF Wa!Refuses

(* One path goes on where another ends.                                    *)
LEMMA WalkGoesOn ==
  ASSUME NEW d, NEW n \in Name, NEW digest, NEW m \in Nat, NEW c \in [0..m -> Name],
         WalkPath(d, n, m, c), WalkLeads(d, c[m], digest)
  PROVE  WalkLeads(d, n, digest)
<1>1. PICK p \in Nat : \E b \in [0..p -> Name] :
        WalkPath(d, c[m], p, b) /\ d[b[p]] = [link |-> None, digest |-> digest]
  BY DEF WalkLeads
<1>2. PICK b \in [0..p -> Name] :
        WalkPath(d, c[m], p, b) /\ d[b[p]] = [link |-> None, digest |-> digest]
  BY <1>1
<1> DEFINE a == [i \in 0..(m + p) |-> IF i <= m THEN c[i] ELSE b[i - m]]
<1>3. a \in [0..(m + p) -> Name]
  <2>1. \A i \in 0..(m + p) : IF i <= m THEN i \in 0..m ELSE i - m \in 0..p
    OBVIOUS
  <2> QED
    BY <2>1
<1>4. /\ \A i \in 0..m : a[i] = c[i]
      /\ \A i \in 0..p : a[m + i] = b[i]
  <2>1. b[0] = c[m]
    BY <1>2 DEF WalkPath
  <2>2. \A i \in 0..m : i \in 0..(m + p) /\ i <= m
    OBVIOUS
  <2>3. \A i \in 0..p : /\ m + i \in 0..(m + p) /\ (m + i) - m = i
                         /\ (m + i <= m) <=> i = 0
    OBVIOUS
  <2>4. \A i \in 0..(m + p) : a[i] = IF i <= m THEN c[i] ELSE b[i - m]
    OBVIOUS
  <2> HIDE DEF a
  <2>5. ASSUME NEW i \in 0..m PROVE a[i] = c[i]
    BY <2>2, <2>4
  <2>6. ASSUME NEW i \in 0..p PROVE a[m + i] = b[i]
    <3>1. CASE i = 0
      BY <2>1, <2>5, <3>1
    <3>2. CASE i # 0
      BY <2>3, <2>4, <3>2
    <3> QED
      BY <3>1, <3>2
  <2> QED
    BY <2>5, <2>6
<1>5. a[0] = n
  BY <1>4 DEF WalkPath
<1>6. ASSUME NEW i \in 1..(m + p) PROVE d[a[i - 1]].link = a[i]
  <2>1. CASE i <= m
    <3>1. i \in 1..m /\ i - 1 \in 0..m /\ i \in 0..m
      BY <2>1
    <3> HIDE DEF a
    <3> QED
      BY <1>4, <3>1 DEF WalkPath
  <2>2. CASE ~(i <= m)
    <3>1. PICK k \in 1..p : k = i - m
      BY <2>2
    <3>2. /\ k \in 0..p /\ k - 1 \in 0..p /\ m + k = i /\ m + (k - 1) = i - 1
      BY <2>2, <3>1
    <3>3. d[b[k - 1]].link = b[k]
      BY <1>2, <3>1 DEF WalkPath
    <3>4. a[m + k] = b[k] /\ a[m + (k - 1)] = b[k - 1]
      BY <1>4, <3>2
    <3> HIDE DEF a
    <3> QED
      BY <3>2, <3>3, <3>4
  <2> QED
    BY <2>1, <2>2
<1>7. a[m + p] = b[p]
  BY <1>4
<1> HIDE DEF a
<1>8. WalkPath(d, n, m + p, a)
  BY <1>3, <1>5, <1>6 DEF WalkPath
<1>9. d[a[m + p]] = [link |-> None, digest |-> digest] /\ m + p \in Nat
  BY <1>2, <1>7
<1> QED
  BY <1>3, <1>8, <1>9 DEF WalkLeads

(* A link's target is what tar has made of it.                             *)
LEMMA WalkTargets ==
  ASSUME walk \in WalkState, WalkSeenInv, walk.at # "refused", NEW n \in WalkNames
  PROVE  /\ Wa!TargetOf(n) \in WalkNames
         /\ Wa!TargetOf(n) # None => n \in Name /\ disk[n].link = Wa!TargetOf(n)
<1> DEFINE of == {i \in DOMAIN walk.links : walk.links[i].path = n}
           j == CHOOSE i \in of : TRUE
<1>1. CASE of = {}
  BY <1>1 DEF Wa!TargetOf, WalkNames
<1>2. CASE of # {}
  <2>1. j \in DOMAIN walk.links /\ walk.links[j].path = n
    BY <1>2
  <2>2. Wa!TargetOf(n) = walk.links[j].target
    BY <1>2 DEF Wa!TargetOf
  <2> HIDE DEF j
  <2>3. walk.links[j].path \in Name /\ walk.links[j].target \in Name
    BY <2>1, WalkPathsAre
  <2>4. disk[walk.links[j].path] = [link |-> walk.links[j].target, digest |-> 0]
    BY <2>1 DEF WalkSeenInv
  <2> QED
    BY <2>1, <2>2, <2>3, <2>4 DEF WalkNames
<1> QED
  BY <1>1, <1>2

(* The hops of an alias are tar's links, from its path to what it reaches. *)
LEMMA WalkReaches ==
  ASSUME walk \in WalkState, WalkSeenInv, walk.at # "refused",
         NEW j \in DOMAIN walk.links, NEW n \in Wa!Reached(walk.links[j])
  PROVE  /\ n \in Name /\ Wa!FileAt(n) # {}
         /\ \E m \in Nat : \E c \in [0..m -> Name] :
              WalkPath(disk, walk.links[j].path, m, c) /\ c[m] = n
<1>1. PICK p \in Name, t \in Name : p = walk.links[j].path /\ t = walk.links[j].target
  BY WalkPathsAre
<1> DEFINE Goes(x) == Wa!SameKind(Kind[p], x) /\ Wa!FileAt(x) = {}
           step == [x \in WalkNames |-> IF Goes(x) THEN Wa!TargetOf(x) ELSE None]
           Hop(g) == g = [k \in 0..Hops - 1 |->
                           IF k = 0 THEN walk.links[j].target
                           ELSE IF Wa!SameKind(Kind[walk.links[j].path], g[k - 1])
                                   /\ Wa!FileAt(g[k - 1]) = {}
                                THEN Wa!TargetOf(g[k - 1])
                                ELSE None]
           h == CHOOSE g : Hop(g)
<1>2. Hops - 1 \in Nat /\ None \notin Name
  BY RecordsAssumption DEF RecordsAssumption
<1>3. \A x \in WalkNames : step[x] \in WalkNames
  BY WalkTargets DEF WalkNames
<1>4. t \in WalkNames /\ p \in WalkNames
  BY DEF WalkNames
<1>5. PICK g \in [0..(Hops - 1) -> WalkNames] :
        g[0] = t /\ \A k \in 1..(Hops - 1) : g[k] = step[g[k - 1]]
  <2>1. PICK N \in Nat : N = Hops - 1
    BY <1>2
  <2> HIDE DEF step
  <2>2. PICK s : s = step
    OBVIOUS
  <2>3. PICK A : A = WalkNames
    OBVIOUS
  <2>4. t \in A /\ s \in [A -> A]
    <3>1. step \in [WalkNames -> WalkNames]
      BY <1>3 DEF step
    <3> QED
      BY <1>4, <2>2, <2>3, <3>1
  <2>5. StepsFrom(A, t, s, N) # {}
    BY <2>4, StepsExist
  <2> QED
    BY <2>1, <2>2, <2>3, <2>5 DEF StepsFrom
<1>6. Hop(g)
  <2>1. ASSUME NEW k \in 0..(Hops - 1), k # 0
        PROVE  g[k] = IF Goes(g[k - 1]) THEN Wa!TargetOf(g[k - 1]) ELSE None
    <3>1. k \in 1..(Hops - 1) /\ k - 1 \in 0..(Hops - 1)
      BY <1>2, <2>1
    <3>2. g[k - 1] \in WalkNames
      BY <1>5, <3>1
    <3> HIDE DEF Goes
    <3> QED
      BY <1>5, <3>1, <3>2
  <2> QED
    BY <1>1, <1>5, <2>1
<1>7. Hop(h)
  <2> HIDE DEF Hop
  <2> QED
    BY <1>6
<1>8. Wa!Reached(walk.links[j]) =
        {x \in {h[k] : k \in 0..Hops - 1} :
           Wa!SameKind(Kind[walk.links[j].path], x) /\ Wa!FileAt(x) # {}}
  BY DEF Wa!Reached
<1> HIDE DEF h
<1>9. h[0] = t
  BY <1>1, <1>2, <1>7
<1>10. ASSUME NEW k \in 1..(Hops - 1)
       PROVE  h[k] = IF Goes(h[k - 1]) THEN Wa!TargetOf(h[k - 1]) ELSE None
  <2>1. k \in 0..(Hops - 1) /\ k # 0
    BY <1>2
  <2> QED
    BY <1>1, <1>7, <2>1
<1>11. PICK k \in 0..(Hops - 1) :
         n = h[k] /\ Wa!SameKind(Kind[p], n) /\ Wa!FileAt(n) # {}
  BY <1>1, <1>8
<1>12. n # None
  BY <1>11 DEF Wa!SameKind
<1>13. \A i \in 0..k : h[i] # None
  <2> DEFINE C == {i \in Nat : i <= k /\ h[k - i] = None}
  <2>1. ASSUME C # {} PROVE FALSE
    <3>1. PICK i \in C : \A o \in C : i <= o
      <4>1. C \in SUBSET Nat
        OBVIOUS
      <4> HIDE DEF C
      <4> QED
        BY <2>1, <4>1, FirstNatural
    <3>2. i \in Nat /\ i <= k /\ h[k - i] = None
      BY <3>1
    <3>3. i # 0
      BY <1>11, <1>12, <3>2
    <3>4. i - 1 \in Nat /\ i - 1 \notin C
      <4>1. \A o \in C : i <= o
        BY <3>1
      <4> HIDE DEF C
      <4> QED
        BY <3>2, <3>3, <4>1
    <3>5. PICK o \in 1..(Hops - 1) : o = k - (i - 1) /\ o - 1 = k - i
      BY <1>2, <3>2, <3>3
    <3>6. h[o] # None
      BY <3>2, <3>4, <3>5
    <3>7. ~Goes(h[o - 1])
      BY <3>2, <3>5 DEF Wa!SameKind
    <3> HIDE DEF Goes
    <3> QED
      BY <1>10, <3>6, <3>7
  <2>2. ASSUME NEW i \in 0..k, h[i] = None PROVE FALSE
    <3>1. k - i \in Nat /\ k - i <= k /\ k - (k - i) = i
      OBVIOUS
    <3> QED
      BY <2>1, <2>2, <3>1
  <2> QED
    BY <2>2
<1>14. ASSUME NEW i \in 1..k
       PROVE  h[i] = Wa!TargetOf(h[i - 1]) /\ h[i] # None
  <2>1. i \in 1..(Hops - 1) /\ i \in 0..k
    BY <1>2
  <2> HIDE DEF Goes
  <2> QED
    BY <1>10, <1>13, <2>1
<1>15. ASSUME NEW i \in 0..k PROVE h[i] \in Name
  <2>1. h[i] \in WalkNames
    <3>1. CASE i = 0
      BY <1>4, <1>9, <3>1
    <3>2. CASE i # 0
      <4>1. i \in 1..(Hops - 1)
        BY <1>2, <3>2
      <4>2. i \in 1..k /\ i - 1 \in 0..k
        BY <3>2
      <4>3. Goes(h[i - 1]) /\ h[i - 1] # None
        BY <1>10, <1>13, <4>1, <4>2
      <4> DEFINE of == {o \in DOMAIN walk.links : walk.links[o].path = h[i - 1]}
                 r == CHOOSE o \in of : TRUE
      <4>4. h[i] = Wa!TargetOf(h[i - 1]) /\ h[i] # None
        BY <1>14, <4>2
      <4>5. of # {} /\ h[i] = walk.links[r].target
        BY <4>4 DEF Wa!TargetOf
      <4>6. r \in DOMAIN walk.links
        BY <4>5
      <4> HIDE DEF r
      <4> QED
        BY <4>5, <4>6, WalkPathsAre DEF WalkNames
    <3> QED
      BY <3>1, <3>2
  <2> QED
    BY <1>13, <2>1 DEF WalkNames
<1> DEFINE c == [i \in 0..(k + 1) |-> IF i = 0 THEN p ELSE h[i - 1]]
<1>16. c \in [0..(k + 1) -> Name]
  <2>1. \A i \in 0..(k + 1) : i # 0 => i - 1 \in 0..k
    OBVIOUS
  <2> QED
    BY <1>15, <2>1
<1>17. c[0] = p /\ \A i \in 0..k : c[i + 1] = h[i]
  <2>1. 0 \in 0..(k + 1) /\ \A i \in 0..k : i + 1 \in 0..(k + 1) /\ i + 1 # 0 /\ (i + 1) - 1 = i
    OBVIOUS
  <2> QED
    BY <2>1
<1> HIDE DEF c
<1>18. ASSUME NEW i \in 1..(k + 1) PROVE disk[c[i - 1]].link = c[i]
  <2>1. CASE i = 1
    <3>1. disk[p] = [link |-> t, digest |-> 0]
      BY <1>1 DEF WalkSeenInv
    <3>2. c[1] = h[0] /\ 0 \in 0..k
      BY <1>17
    <3> QED
      BY <1>9, <1>17, <2>1, <3>1, <3>2
  <2>2. CASE i # 1
    <3>1. PICK o \in 1..k : o = i - 1
      BY <2>2
    <3>2. o \in 0..k /\ o - 1 \in 0..k /\ o + 1 = i /\ (o - 1) + 1 = i - 1
      BY <3>1
    <3>3. c[i] = h[o] /\ c[i - 1] = h[o - 1]
      BY <1>17, <3>2
    <3>4. h[o] = Wa!TargetOf(h[o - 1]) /\ h[o] # None /\ h[o - 1] \in WalkNames
      BY <1>14, <1>15, <3>1, <3>2 DEF WalkNames
    <3> QED
      BY <3>3, <3>4, WalkTargets
  <2> QED
    BY <2>1, <2>2
<1>19. WalkPath(disk, walk.links[j].path, k + 1, c) /\ c[k + 1] = n
  BY <1>1, <1>11, <1>16, <1>17, <1>18 DEF WalkPath
<1>20. n \in Name /\ k + 1 \in Nat
  BY <1>11, <1>15
<1> QED
  BY <1>11, <1>16, <1>19, <1>20

(* An alias is resolved to what tar's links lead to.                       *)
LEMMA WalkResolveStep ==
  ASSUME WalkIInv, Wa!Resolve
  PROVE  WalkIInv'
<1>1. /\ walk \in WalkState /\ disk' = disk /\ read' = read /\ given' = given /\ dirs' = dirs
      /\ walk.at = "aliases" /\ Wa!Unresolved # {} /\ WalkSeenInv /\ WalkTypeInv
  BY DEF WalkIInv, WalkTypeInv, Wa!Resolve
<1>2. /\ Wa!Refused \in WalkState /\ Wa!Refused.at = "refused"
  <2>1. << >> \in Seq(WalkLinks)
    OBVIOUS
  <2> QED
    BY <2>1 DEF Wa!Refused, Wa!Walking, WalkState, WalkNames
<1> DEFINE j == CHOOSE i \in Wa!Unresolved : \A o \in Wa!Unresolved : i <= o
           l == walk.links[j]
           new == {[path |-> l.path, digest |-> f.digest] :
                     f \in UNION {Wa!FileAt(n) : n \in Wa!Reached(l)}}
<1>3. walk' = IF Wa!Reached(l) = {} THEN Wa!Refused
              ELSE [walk EXCEPT !.files = @ \cup new]
  BY DEF Wa!Resolve
<1>4. j \in DOMAIN walk.links
  <2>1. Wa!Unresolved \in SUBSET Nat /\ Wa!Unresolved \subseteq DOMAIN walk.links
    <3>1. walk.links \in Seq(WalkLinks)
      BY <1>1 DEF WalkState
    <3>2. DOMAIN walk.links \subseteq Nat
      BY <3>1
    <3> QED
      BY <3>2 DEF Wa!Unresolved
  <2>2. \E i \in Wa!Unresolved : \A o \in Wa!Unresolved : i <= o
    BY <1>1, <2>1, FirstNatural
  <2> QED
    BY <2>1, <2>2
<1> HIDE DEF j
<1>5. l.path \in Name /\ l.target \in Name
  BY <1>1, <1>4, WalkPathsAre
<1>6. l.path \in walk.seen /\ Kind[l.path] # None
  BY <1>1, <1>4 DEF WalkSeenInv
<1>7. ASSUME NEW g \in new
      PROVE  g \in WalkFiles /\ g.path = l.path /\ WalkLeads(disk, l.path, g.digest)
  <2>1. PICK n \in Wa!Reached(l) : \E f \in Wa!FileAt(n) : g = [path |-> l.path, digest |-> f.digest]
    BY <1>7
  <2>2. PICK f \in Wa!FileAt(n) : g = [path |-> l.path, digest |-> f.digest]
    BY <2>1
  <2>3. f \in walk.files /\ f.path = n /\ f.digest \in Nat \ {0}
    BY <1>1, <2>2, WalkPathsAre DEF Wa!FileAt
  <2>4. WalkLeads(disk, n, f.digest)
    BY <1>1, <2>3 DEF WalkIInv, WalkLeadsInv
  <2>5. \E m \in Nat : \E c \in [0..m -> Name] : WalkPath(disk, l.path, m, c) /\ c[m] = n
    BY <1>1, <1>4, WalkReaches
  <2>6. WalkLeads(disk, l.path, f.digest)
    BY <1>5, <2>4, <2>5, WalkGoesOn
  <2> QED
    BY <1>5, <2>2, <2>3, <2>6 DEF WalkFiles
<1> HIDE DEF new
<1>8. CASE walk' = Wa!Refused
  <2>1. WalkTypeInv'
    BY <1>1, <1>2, <1>8 DEF WalkTypeInv
  <2> QED
    BY <1>1, <1>2, <1>8, <2>1, WalkRefuses DEF WalkIInv, WalkLeadsInv
<1>9. CASE walk' = [walk EXCEPT !.files = @ \cup new]
  <2>1. /\ walk' \in WalkState /\ walk'.at = "aliases" /\ walk'.files = walk.files \cup new
        /\ walk'.seen = walk.seen /\ walk'.links = walk.links
    <3>1. new \subseteq WalkFiles
      BY <1>7
    <3> QED
      BY <1>1, <1>9, <3>1 DEF WalkState
  <2>2. WalkTypeInv' /\ WalkGivenInv'
    BY <1>1, <2>1 DEF WalkTypeInv, WalkGivenInv
  <2>3. \A n \in Name : /\ Wa!FileAt(n) \subseteq Wa!FileAt(n)'
                        /\ n # l.path => Wa!FileAt(n)' = Wa!FileAt(n)
    BY <1>7, <2>1 DEF Wa!FileAt
  <2>4. \A n : WalkLinked(n)' <=> WalkLinked(n)
    BY <2>1 DEF WalkLinked
  <2>5. WalkSeenInv'
    <3>1. \A f \in walk'.files : f.path \in walk'.seen /\ Kind[f.path] # None
      BY <1>1, <1>6, <1>7, <2>1 DEF WalkSeenInv
    <3>2. ASSUME NEW n \in Name, Kind[n] # None
          PROVE  IF n \in walk'.seen THEN Wa!FileAt(n)' # {} \/ WalkLinked(n)'
                                      ELSE Wa!FileAt(n)' = {} /\ disk'[n] = Wa!Nothing
      BY <1>1, <1>6, <2>1, <2>3, <2>4, <3>2 DEF WalkSeenInv
    <3> QED
      BY <1>1, <2>1, <3>1, <3>2 DEF WalkSeenInv
  <2>6. WalkLeadsInv'
    <3>1. \A f \in walk'.files : WalkLeads(disk', f.path, f.digest)
      BY <1>1, <1>7, <2>1 DEF WalkIInv, WalkLeadsInv
    <3> QED
      BY <1>1, <2>1, <3>1 DEF WalkIInv, WalkLeadsInv
  <2> QED
    BY <2>2, <2>5, <2>6 DEF WalkIInv
<1> QED
  BY <1>3, <1>8, <1>9

(* The shortest way to a file comes by no name twice: there are no more    *)
(* hops than names.                                                        *)
LEMMA WalkShort ==
  ASSUME NEW d, NEW n \in Name, NEW digest, WalkLeads(d, n, digest)
  PROVE  \E m \in 0..Cardinality(Name) : \E c \in [0..m -> Name] :
           WalkPath(d, n, m, c) /\ d[c[m]] = [link |-> None, digest |-> digest]
<1> DEFINE Ends(m, c) == WalkPath(d, n, m, c) /\ d[c[m]] = [link |-> None, digest |-> digest]
           C == {m \in Nat : \E c \in [0..m -> Name] : Ends(m, c)}
<1>1. PICK m \in C : \A o \in C : m <= o
  <2>1. C \in SUBSET Nat /\ C # {}
    BY DEF WalkLeads
  <2> HIDE DEF C
  <2> QED
    BY <2>1, FirstNatural
<1>2. PICK c \in [0..m -> Name] : Ends(m, c)
  BY <1>1
<1>3. m \in Nat /\ \A o \in C : m <= o
  BY <1>1
<1>4. ASSUME NEW i \in 0..m, NEW j \in 0..m, i < j, c[i] = c[j]
      PROVE  FALSE
  <2>1. PICK q \in Nat \ {0} : j = i + q
    <3>1. j - i \in Nat \ {0} /\ j = i + (j - i)
      BY <1>3, <1>4
    <3> QED
      BY <3>1
  <2>2. PICK r \in Nat : r = m - q
    BY <1>3, <2>1
  <2>3. r + q = m /\ r < m /\ i <= r
    BY <1>3, <2>1, <2>2
  <2> DEFINE b == [k \in 0..r |-> IF k <= i THEN c[k] ELSE c[k + q]]
  <2>4. b \in [0..r -> Name]
    <3>1. \A k \in 0..r : k \in 0..m /\ k + q \in 0..m
      BY <1>3, <2>1, <2>3
    <3> QED
      BY <3>1
  <2>5. /\ \A k \in 0..i : b[k] = c[k]
        /\ \A k \in i..r : b[k] = c[k + q]
    <3>1. \A k \in 0..r : b[k] = IF k <= i THEN c[k] ELSE c[k + q]
      OBVIOUS
    <3> HIDE DEF b
    <3>2. ASSUME NEW k \in 0..i PROVE b[k] = c[k]
      <4>1. k \in 0..r /\ k <= i
        BY <2>2, <2>3
      <4> QED
        BY <3>1, <4>1
    <3>3. ASSUME NEW k \in i..r PROVE b[k] = c[k + q]
      <4>1. k \in 0..r /\ (k = i \/ ~(k <= i))
        BY <2>2, <2>3
      <4> QED
        BY <1>4, <2>1, <3>1, <4>1
    <3> QED
      BY <3>2, <3>3
  <2> HIDE DEF b
  <2>6. b[0] = n
    BY <1>2, <2>5 DEF WalkPath
  <2>7. ASSUME NEW k \in 1..r PROVE d[b[k - 1]].link = b[k]
    <3>1. CASE k <= i
      <4>1. k \in 0..i /\ k - 1 \in 0..i /\ k \in 1..m
        BY <2>3, <3>1
      <4> QED
        BY <1>2, <2>5, <4>1 DEF WalkPath
    <3>2. CASE ~(k <= i)
      <4>1. PICK o \in 1..m : o = k + q /\ o - 1 = (k - 1) + q
        BY <2>1, <2>3
      <4>2. k \in i..r /\ k - 1 \in i..r
        BY <3>2
      <4> QED
        BY <1>2, <2>5, <4>1, <4>2 DEF WalkPath
    <3> QED
      BY <3>1, <3>2
  <2>8. b[r] = c[m]
    <3>1. r \in i..r
      BY <2>2, <2>3
    <3> QED
      BY <2>3, <2>5, <3>1
  <2>9. Ends(r, b)
    BY <1>2, <2>4, <2>6, <2>7, <2>8 DEF WalkPath
  <2>10. r \in C
    BY <2>2, <2>4, <2>9
  <2> HIDE DEF C
  <2> QED
    BY <1>3, <2>2, <2>3, <2>10
<1>5. m <= Cardinality(Name)
  <2>1. IsFiniteSet(Name) /\ Cardinality(Name) \in Nat
    BY RecordsAssumption, FS_CardinalityType DEF RecordsAssumption
  <2>2. IsFiniteSet(0..m) /\ Cardinality(0..m) = m + 1
    BY <1>3, FS_Interval
  <2>3. ASSUME Cardinality(Name) < Cardinality(0..m) PROVE FALSE
    <3>1. PICK i \in 0..m, j \in 0..m : i # j /\ c[i] = c[j]
      BY <1>2, <2>1, <2>2, <2>3, FS_PigeonHole
    <3>2. i < j \/ j < i
      BY <1>3, <3>1
    <3> QED
      BY <1>4, <3>1, <3>2
  <2> QED
    BY <1>3, <2>1, <2>2, <2>3
<1> QED
  BY <1>2, <1>3, <1>5, FS_CardinalityType, RecordsAssumption DEF RecordsAssumption

(* A reader follows the links to the file, and finds it alone.             *)
LEMMA WalkFinds ==
  ASSUME WalkTypeInv, \A x \in Name : disk[x].link # None => disk[x].digest = 0,
         NEW n \in Name, NEW digest \in Nat, WalkLeads(disk, n, digest)
  PROVE  {disk[x].digest : x \in Wa!Follows(n)} \ {0} = {digest} \ {0}
<1>1. PICK N \in Nat : N = Cardinality(Name) /\ N = Wa!Cardinality(Name)
  BY RecordsAssumption, FS_CardinalityType DEF RecordsAssumption, Wa!Cardinality, Cardinality
<1>2. PICK m \in 0..N : \E c \in [0..m -> Name] :
        WalkPath(disk, n, m, c) /\ disk[c[m]] = [link |-> None, digest |-> digest]
  BY <1>1, WalkShort
<1>3. PICK c \in [0..m -> Name] :
        WalkPath(disk, n, m, c) /\ disk[c[m]] = [link |-> None, digest |-> digest]
  BY <1>2
<1>4. None \notin Name
  BY RecordsAssumption DEF RecordsAssumption
<1> DEFINE At(g) == g = [k \in 0..Wa!Cardinality(Name) |->
                          IF k = 0 THEN n
                          ELSE IF g[k - 1] = None THEN None ELSE disk[g[k - 1]].link]
           at == CHOOSE g : At(g)
           g == [k \in 0..N |-> IF k <= m THEN c[k] ELSE None]
<1>5. \A k \in 0..N : g[k] = IF k <= m THEN c[k] ELSE None
  OBVIOUS
<1>6. g = [k \in 0..N |-> g[k]]
  OBVIOUS
<1> HIDE DEF g
<1>7. ASSUME NEW k \in 0..N
      PROVE  g[k] = IF k = 0 THEN n
                    ELSE IF g[k - 1] = None THEN None ELSE disk[g[k - 1]].link
  <2>1. CASE k = 0
    BY <1>1, <1>2, <1>3, <1>5, <2>1 DEF WalkPath
  <2>2. CASE k # 0 /\ k <= m
    <3>1. k \in 1..m /\ k - 1 \in 0..N /\ k - 1 <= m /\ k - 1 \in 0..m
      BY <1>1, <2>2
    <3>2. g[k] = c[k] /\ g[k - 1] = c[k - 1] /\ c[k - 1] \in Name
      BY <1>3, <1>5, <2>2, <3>1
    <3> QED
      BY <1>3, <1>4, <2>2, <3>1, <3>2 DEF WalkPath
  <2>3. CASE k = m + 1
    <3>1. m \in 0..N /\ ~(k <= m) /\ m <= m /\ m \in 0..m /\ k - 1 = m /\ k # 0
      BY <1>1, <1>2, <2>3
    <3>2. g[k] = None /\ g[k - 1] = c[m] /\ c[m] \in Name
      BY <1>3, <1>5, <3>1
    <3> QED
      BY <1>3, <1>4, <3>1, <3>2
  <2>4. CASE k > m + 1
    <3>1. k - 1 \in 0..N /\ ~(k <= m) /\ ~(k - 1 <= m) /\ k # 0
      BY <1>1, <1>2, <2>4
    <3>2. g[k] = None /\ g[k - 1] = None
      BY <1>5, <3>1
    <3> QED
      BY <3>1, <3>2
  <2> QED
    BY <1>1, <1>2, <2>1, <2>2, <2>3, <2>4
<1>8. At(g)
  BY <1>1, <1>6, <1>7
<1>9. At(at)
  <2> HIDE DEF At
  <2> QED
    BY <1>8
<1>10. Wa!Follows(n) = {at[k] : k \in DOMAIN at} \ {None}
  BY DEF Wa!Follows
<1> HIDE DEF at
<1>11. /\ DOMAIN at = 0..N
       /\ \A k \in 0..N : at[k] = IF k = 0 THEN n
                                ELSE IF at[k - 1] = None THEN None ELSE disk[at[k - 1]].link
  BY <1>1, <1>9
<1>12. \A k \in 0..N : at[k] = g[k]
  <2> DEFINE C == {k \in Nat : k <= N /\ at[k] # g[k]}
  <2>1. ASSUME C # {} PROVE FALSE
    <3>1. PICK k \in C : \A o \in C : k <= o
      <4>1. C \in SUBSET Nat
        OBVIOUS
      <4> HIDE DEF C
      <4> QED
        BY <2>1, <4>1, FirstNatural
    <3>2. k \in 0..N /\ at[k] # g[k]
      BY <3>1
    <3>3. k # 0
      BY <1>7, <1>11, <3>2
    <3>4. k - 1 \in Nat /\ k - 1 \notin C /\ k - 1 <= N
      <4>1. \A o \in C : k <= o
        BY <3>1
      <4> HIDE DEF C
      <4> QED
        BY <3>2, <3>3, <4>1
    <3>5. at[k - 1] = g[k - 1]
      BY <3>4
    <3> QED
      BY <1>7, <1>11, <3>2, <3>3, <3>5
  <2> QED
    BY <1>1, <2>1
<1>13. {at[k] : k \in DOMAIN at} \ {None} = {c[k] : k \in 0..m}
  <2>1. ASSUME NEW k \in 0..N PROVE at[k] = IF k <= m THEN c[k] ELSE None
    BY <1>5, <1>12
  <2>2. \A k \in 0..m : k \in 0..N /\ k <= m /\ c[k] \in Name
    BY <1>1, <1>2, <1>3
  <2>3. \A k \in 0..N : k <= m => k \in 0..m
    BY <1>1, <1>2
  <2> QED
    BY <1>4, <1>11, <2>1, <2>2, <2>3
<1>14. ASSUME NEW k \in 0..m
       PROVE  disk[c[k]].digest = IF k = m THEN digest ELSE 0
  <2>1. CASE k = m
    BY <1>3, <2>1
  <2>2. CASE k # m
    <3>1. PICK o \in 1..m : o - 1 = k
      <4>1. k + 1 \in 1..m /\ (k + 1) - 1 = k
        BY <1>1, <1>2, <2>2
      <4> QED
        BY <4>1
    <3>2. disk[c[k]].link = c[o] /\ c[o] \in Name /\ c[k] \in Name
      BY <1>3, <3>1 DEF WalkPath
    <3> QED
      BY <1>4, <2>2, <3>2
  <2> QED
    BY <2>1, <2>2
<1>15. m \in 0..m
  BY <1>1, <1>2
<1>16. Wa!Follows(n) = {c[k] : k \in 0..m}
  BY <1>10, <1>13
<1>17. disk[c[m]].digest = digest /\ \A k \in 0..m : disk[c[k]].digest \in {0, digest}
  BY <1>14, <1>15
<1> QED
  BY <1>15, <1>16, <1>17

LEMMA WalkBegins ==
  ASSUME Wa!Init
  PROVE  WalkIInv
<1>1. << >> \in Seq(WalkLinks) /\ 0 \in Nat
  OBVIOUS
<1>2. /\ walk = Wa!Walking /\ read = 0 /\ given = Wa!NoGiven /\ dirs = {}
      /\ disk = [n \in Name |-> Wa!Nothing]
  BY DEF Wa!Init
<1>3. /\ walk.at = "walking" /\ walk.path = None /\ walk.link = None /\ ~walk.pax
      /\ walk.seen = {} /\ walk.files = {} /\ walk.links = << >> /\ walk \in WalkState
  BY <1>1, <1>2 DEF Wa!Walking, WalkState, WalkNames
<1>4. Wa!Nothing \in WalkOnDisk /\ Wa!Nothing.link = None
  BY <1>1 DEF Wa!Nothing, WalkOnDisk, WalkNames
<1>5. WalkTypeInv
  BY <1>1, <1>2, <1>3, <1>4 DEF WalkTypeInv, WalkNames, Wa!NoGiven
<1>6. WalkGivenInv
  BY <1>2, <1>3 DEF WalkGivenInv, WalkOneOf, Wa!NoGiven
<1>7. WalkSeenInv
  BY <1>2, <1>3 DEF WalkSeenInv, WalkLinked, Wa!FileAt
<1>8. WalkLeadsInv
  BY <1>2, <1>3, <1>4 DEF WalkLeadsInv
<1> QED
  BY <1>5, <1>6, <1>7, <1>8 DEF WalkIInv

LEMMA WalkStep ==
  ASSUME WalkIInv, [Wa!Next]_Wa!vars
  PROVE  WalkIInv'
<1>1. CASE Wa!Next
  BY <1>1, WalkHeaderStep, WalkFileStep, WalkSymlinkStep, WalkOtherStep, WalkResolveStep
  DEF Wa!Next
<1>2. CASE UNCHANGED Wa!vars
  BY <1>2 DEF Wa!vars, WalkIInv, WalkTypeInv, WalkGivenInv, WalkSeenInv, WalkLinked, WalkLeadsInv,
     Wa!FileAt, Wa!Unresolved
<1> QED
  BY <1>1, <1>2

(* An archive that is accepted has a digest for every pinned name tar has  *)
(* made, the one its links lead to, and none for the others; a directory   *)
(* on the way hides it.                                                    *)
LEMMA WalkAccepts ==
  ASSUME WalkIInv
  PROVE  Wa!PinnedIsUnpacked
<1>1. /\ walk \in WalkState /\ WalkTypeInv /\ WalkSeenInv /\ WalkLeadsInv
      /\ \A x \in Name : disk[x].link # None => disk[x].digest = 0
  BY DEF WalkIInv, WalkTypeInv, WalkLeadsInv
<1>2. SUFFICES ASSUME walk.at = "accepted", NEW n \in Name, Kind[n] # None
               PROVE  {disk[x].digest : x \in Wa!Follows(n)} \ {0} = Wa!Pinned(n)
  BY DEF Wa!PinnedIsUnpacked, Wa!Reads
<1> DEFINE There == {disk[x].digest : x \in Wa!Follows(n)} \ {0}
<1>3. CASE Wa!FileAt(n) = {}
  <2>1. disk[n] = [link |-> None, digest |-> 0]
    <3>1. ~WalkLinked(n)
      BY <1>1, <1>2, <1>3 DEF WalkLinked, WalkLeadsInv, Wa!Unresolved
    <3> QED
      BY <1>1, <1>2, <1>3, <3>1 DEF WalkSeenInv, Wa!Nothing
  <2>2. WalkLeads(disk, n, 0) /\ 0 \in Nat
    BY <2>1, WalkDirect
  <2>3. There = {0} \ {0}
    BY <1>1, <2>2, WalkFinds
  <2> HIDE DEF There
  <2>4. There = Wa!Pinned(n)
    BY <1>3, <2>3 DEF Wa!Pinned
  <2> QED
    BY <2>4 DEF There
<1>4. CASE Wa!FileAt(n) # {}
  <2>1. ASSUME NEW f \in Wa!FileAt(n) PROVE There = {f.digest}
    <3>1. f \in walk.files /\ f.path = n /\ f.digest \in Nat \ {0}
      BY <1>1, WalkPathsAre DEF Wa!FileAt
    <3>2. WalkLeads(disk, n, f.digest)
      BY <1>1, <1>2, <3>1 DEF WalkLeadsInv
    <3>3. There = {f.digest} \ {0}
      BY <1>1, <3>1, <3>2, WalkFinds
    <3> HIDE DEF There
    <3> QED
      BY <3>1, <3>3
  <2> HIDE DEF There
  <2>2. There = Wa!Pinned(n)
    BY <1>4, <2>1 DEF Wa!Pinned
  <2> QED
    BY <2>2 DEF There
<1> QED
  BY <1>3, <1>4

(* Whatever walk_archive accepts, a worker reads under every pinned path   *)
(* the bytes of the digest pinned to it; or it reads none, where tar has   *)
(* made a directory of what the path names or leads to.                    *)
THEOREM WalkUnpackedIsPinned == Wa!Spec => []Wa!PinnedIsUnpacked
<1>1. Wa!Init => WalkIInv
  BY WalkBegins
<1>2. WalkIInv /\ [Wa!Next]_Wa!vars => WalkIInv'
  BY WalkStep
<1>3. WalkIInv => Wa!PinnedIsUnpacked
  BY WalkAccepts
<1> QED
  BY <1>1, <1>2, <1>3, PTL DEF Wa!Spec


(***************************************************************************)
(* BodyBudget                                                              *)
(*                                                                         *)
(* Each action moves one request between the sets that the budget, the     *)
(* shares and the turns are sums over.                                     *)
(***************************************************************************)

BodyWhere == {"none", "reading", "parsing", "waiting", "storing", "permits", "share"}

BodyTypeInv ==
  /\ free \in Int /\ turns \in Int
  /\ held \in [Owner -> Int]
  /\ req \in [Request -> [at : BodyWhere, owner : SUBSET Owner, units : Nat]]

(* A request under way is one owner's, and one that is not has nothing.    *)
BodyReqInv ==
  \A r \in Request : IF req[r].at = "none" THEN req[r] = Bo!NoRequest
                                           ELSE \E o \in Owner : req[r].owner = {o}

BodyInCharge == {r \in Request : Bo!Charged(r)}
BodyOwnedBy(o) == {r \in Request : o \in req[r].owner}
BodyStoring == {r \in Request : req[r].at = "storing"}
BodySize    == [r \in Request |-> req[r].units]

(* BudgetAddsUp, said of these.                                            *)
BodyAddsUpInv ==
  /\ free + SumFunctionOnSet(BodySize, BodyInCharge) = Budget
  /\ \A o \in Owner : held[o] <= Share /\ held[o] = SumFunctionOnSet(BodySize, BodyOwnedBy(o))
  /\ turns + Cardinality(BodyStoring) = BodyTurns
  /\ free >= 0 /\ turns >= 0

BodyIInv == BodyTypeInv /\ BodyReqInv /\ BodyAddsUpInv

LEMMA BodyTypeStep ==
  ASSUME BodyIInv, [Bo!Next]_Bo!vars
  PROVE  BodyTypeInv' /\ BodyReqInv'
<1> USE RecordsAssumption DEF BodyIInv, BodyTypeInv, BodyReqInv, BodyWhere
<1>1. CASE UNCHANGED Bo!vars
  BY <1>1 DEF Bo!vars
<1>2. ASSUME NEW r \in Request, NEW o \in Owner, NEW units \in 1..Share, Bo!Reserve(r, o, units)
      PROVE  BodyTypeInv' /\ BodyReqInv'
  BY <1>2 DEF Bo!Reserve, Bo!Charge
<1>3. ASSUME NEW r \in Request, Bo!Arrives(r) \/ Bo!Checked(r) \/ Bo!TakesTurn(r) \/ Bo!Ends(r)
      PROVE  BodyTypeInv' /\ BodyReqInv'
  <2>1. UNCHANGED <<free, held>> /\ turns' \in Int
    BY <1>3 DEF Bo!Arrives, Bo!Checked, Bo!TakesTurn, Bo!Ends
  <2>2. PICK at \in BodyWhere \ {"none"} : req' = [req EXCEPT ![r].at = at]
    BY <1>3 DEF Bo!Arrives, Bo!Checked, Bo!TakesTurn, Bo!Ends, Bo!To
  <2>3. req[r].at # "none"
    BY <1>3 DEF Bo!Arrives, Bo!Checked, Bo!TakesTurn, Bo!Ends
  <2> QED
    BY <2>1, <2>2, <2>3
<1>4. ASSUME NEW r \in Request, Bo!GivesPermits(r)  PROVE BodyTypeInv' /\ BodyReqInv'
  BY <1>4 DEF Bo!GivesPermits, Bo!To
<1>5. ASSUME NEW r \in Request, Bo!GivesShare(r)  PROVE BodyTypeInv' /\ BodyReqInv'
  <2>1. held' \in [Owner -> Int] /\ UNCHANGED <<free, turns>>
    BY <1>5 DEF Bo!GivesShare
  <2>2. req' = [req EXCEPT ![r] = [at |-> "none", owner |-> {}, units |-> 0]]
    BY <1>5 DEF Bo!GivesShare, Bo!NoRequest
  <2>3. req' \in [Request -> [at : BodyWhere, owner : SUBSET Owner, units : Nat]] /\ BodyReqInv'
    BY <2>2 DEF Bo!NoRequest
  <2> QED
    BY <2>1, <2>3
<1> QED
  BY <1>1, <1>2, <1>3, <1>4, <1>5 DEF Bo!Next

(* The sum the model speaks of is the one the lemmas are about.            *)
LEMMA BodySumsAre == \A f, S : Bo!SumFunctionOnSet(f, S) = SumFunctionOnSet(f, S)
BY DEF Bo!SumFunctionOnSet, Bo!FoldFunctionOnSet, Bo!MapThenFoldSet,
       SumFunctionOnSet, FoldFunctionOnSet, MapThenFoldSet

LEMMA BodyAddsUpIs ==
  ASSUME BodyAddsUpInv
  PROVE  Bo!BudgetAddsUp
<1>1. \A S : Bo!Units(S) = SumFunctionOnSet(BodySize, S)
  BY BodySumsAre DEF Bo!Units, BodySize
<1>2. SumFunctionOnSet(BodySize, BodyInCharge) = Bo!Units({r \in Request : Bo!Charged(r)})
  BY <1>1 DEF BodyInCharge
<1>3. \A o :
        SumFunctionOnSet(BodySize, BodyOwnedBy(o)) = Bo!Units({r \in Request : o \in req[r].owner})
  BY <1>1 DEF BodyOwnedBy
<1>4. Cardinality(BodyStoring) = Bo!Cardinality({r \in Request : req[r].at = "storing"})
  BY DEF BodyStoring, Cardinality, Bo!Cardinality
<1> QED
  BY <1>2, <1>3, <1>4 DEF Bo!BudgetAddsUp, BodyAddsUpInv

LEMMA BodyBudgetStep ==
  ASSUME BodyIInv, [Bo!Next]_Bo!vars, BodyTypeInv', BodyReqInv'
  PROVE  BodyAddsUpInv'
<1> USE DEF BodyIInv, BodyTypeInv, BodyReqInv
<1>1. \A r \in Request : BodySize[r] \in Int /\ BodySize'[r] \in Int
  BY DEF BodySize
<1>2. /\ IsFiniteSet(BodyInCharge) /\ IsFiniteSet(BodyStoring) /\ \A o : IsFiniteSet(BodyOwnedBy(o))
      /\ BodyInCharge \subseteq Request /\ \A o : BodyOwnedBy(o) \subseteq Request
  <2>1. \A S \in SUBSET Request : IsFiniteSet(S)
    BY RecordsAssumption, FS_Subset
  <2> QED
    BY <2>1 DEF BodyInCharge, BodyStoring, BodyOwnedBy
<1>3. /\ free + SumFunctionOnSet(BodySize, BodyInCharge) = Budget
      /\ \A o \in Owner : held[o] <= Share /\ held[o] = SumFunctionOnSet(BodySize, BodyOwnedBy(o))
      /\ turns + Cardinality(BodyStoring) = BodyTurns
      /\ free >= 0 /\ turns >= 0
  BY DEF BodyAddsUpInv
<1>4. SUFFICES /\ free' + SumFunctionOnSet(BodySize', BodyInCharge') = Budget
               /\ \A o \in Owner : held'[o] <= Share /\ held'[o] = SumFunctionOnSet(BodySize',
                  BodyOwnedBy(o)')
               /\ turns' + Cardinality(BodyStoring') = BodyTurns
               /\ free' >= 0 /\ turns' >= 0
  BY DEF BodyAddsUpInv
<1>5. CASE UNCHANGED Bo!vars
  BY <1>3, <1>5 DEF Bo!vars, BodySize, BodyInCharge, BodyOwnedBy, BodyStoring, Bo!Charged
<1>6. ASSUME NEW r \in Request, NEW o \in Owner, NEW units \in 1..Share, Bo!Reserve(r, o, units)
      PROVE  /\ free' + SumFunctionOnSet(BodySize', BodyInCharge') = Budget
             /\ \A p \in Owner : held'[p] <= Share /\ held'[p] = SumFunctionOnSet(BodySize',
                BodyOwnedBy(p)')
             /\ turns' + Cardinality(BodyStoring') = BodyTurns
             /\ free' >= 0 /\ turns' >= 0
  <2>1. /\ req[r] = Bo!NoRequest /\ free' = free - units /\ turns' = turns /\ units <= free
        /\ held[o] + units <= Share /\ held' = [held EXCEPT ![o] = @ + units]
        /\ req' = [req EXCEPT ![r] = [at |-> "reading", owner |-> {o}, units |-> units]]
    BY <1>6 DEF Bo!Reserve, Bo!Charge
  <2>2. BodyInCharge' = BodyInCharge \cup {r} /\ r \notin BodyInCharge
    BY <2>1 DEF BodyInCharge, Bo!Charged, Bo!NoRequest
  <2>3. BodyStoring' = BodyStoring
    BY <2>1 DEF BodyStoring, Bo!NoRequest
  <2>4. \A p \in Owner : BodyOwnedBy(p)' = IF p = o THEN BodyOwnedBy(p) \cup {r} ELSE BodyOwnedBy(p)
    BY <2>1 DEF BodyOwnedBy, Bo!NoRequest
  <2>5. r \notin BodyOwnedBy(o) /\ \A p \in Owner : r \notin BodyOwnedBy(p)
    BY <2>1 DEF BodyOwnedBy, Bo!NoRequest
  <2>6. \A s \in Request : s # r => BodySize'[s] = BodySize[s]
    BY <2>1 DEF BodySize
  <2>7. BodySize'[r] = units
    BY <2>1 DEF BodySize
  <2>8. SumFunctionOnSet(BodySize', BodyInCharge') = SumFunctionOnSet(BodySize,
     BodyInCharge) + units
    <3>1. \A s \in BodyInCharge : BodySize[s] \in Int /\ BodySize'[s] = BodySize[s]
      BY <1>1, <1>2, <2>2, <2>6
    <3>2. BodySize'[r] \in Int /\ IsFiniteSet(BodyInCharge) /\ r \notin BodyInCharge
      BY <1>1, <1>2, <2>2
    <3>3. SumFunctionOnSet(BodySize', BodyInCharge \cup {r}) = SumFunctionOnSet(BodySize,
       BodyInCharge) + BodySize'[r]
      BY <3>1, <3>2, SumAdd
    <3> QED
      BY <2>2, <2>7, <3>3
  <2>9. SumFunctionOnSet(BodySize', BodyOwnedBy(o)') = SumFunctionOnSet(BodySize,
     BodyOwnedBy(o)) + units
    <3>1. \A s \in BodyOwnedBy(o) : BodySize[s] \in Int /\ BodySize'[s] = BodySize[s]
      BY <1>1, <1>2, <2>5, <2>6
    <3>2. BodySize'[r] \in Int /\ IsFiniteSet(BodyOwnedBy(o))
      BY <1>1, <1>2
    <3>3. SumFunctionOnSet(BodySize', BodyOwnedBy(o) \cup {r}) = SumFunctionOnSet(BodySize,
       BodyOwnedBy(o)) + BodySize'[r]
      BY <2>5, <3>1, <3>2, SumAdd
    <3> QED
      BY <2>4, <2>7, <3>3
  <2>10. ASSUME NEW p \in Owner, p # o
         PROVE  SumFunctionOnSet(BodySize', BodyOwnedBy(p)') = SumFunctionOnSet(BodySize,
            BodyOwnedBy(p))
    <3>1. \A s \in BodyOwnedBy(p) : BodySize[s] \in Int /\ BodySize[s] = BodySize'[s]
      BY <1>1, <1>2, <2>5, <2>6
    <3> QED
      BY <1>2, <2>4, <2>10, <3>1, SumSame
  <2>11. SumFunctionOnSet(BodySize, BodyInCharge) \in Int
    BY <1>1, <1>2, SumTakeOut
  <2> QED
    BY <1>3, <2>1, <2>3, <2>8, <2>9, <2>10, <2>11
<1>7. ASSUME NEW r \in Request, NEW at \in BodyWhere, req' = [req EXCEPT ![r].at = at]
      PROVE  /\ BodySize' = BodySize /\ \A o : BodyOwnedBy(o)' = BodyOwnedBy(o)
             /\ (req[r].at \notin {"none", "share"} /\ at \notin {"none", "share"}) =>
                  BodyInCharge' = BodyInCharge
             /\ BodyStoring' = IF at = "storing" THEN BodyStoring \cup {r} ELSE BodyStoring \ {r}
  BY <1>7 DEF BodySize, BodyOwnedBy, BodyInCharge, Bo!Charged, BodyStoring
<1>8. ASSUME NEW r \in Request, Bo!Arrives(r) \/ Bo!Checked(r) \/ Bo!TakesTurn(r) \/ Bo!Ends(r)
      PROVE  /\ free' + SumFunctionOnSet(BodySize', BodyInCharge') = Budget
             /\ \A p \in Owner : held'[p] <= Share /\ held'[p] = SumFunctionOnSet(BodySize',
                BodyOwnedBy(p)')
             /\ turns' + Cardinality(BodyStoring') = BodyTurns
             /\ free' >= 0 /\ turns' >= 0
  <2>1. UNCHANGED <<free, held>>
    BY <1>8 DEF Bo!Arrives, Bo!Checked, Bo!TakesTurn, Bo!Ends
  <2>2. PICK at \in {"parsing", "waiting", "storing", "permits"} :
           /\ req' = [req EXCEPT ![r].at = at]
           /\ at # "storing" /\ req[r].at # "storing" => turns' = turns
           /\ at # "storing" /\ req[r].at = "storing" => turns' = turns + 1
           /\ at = "storing" => req[r].at # "storing" /\ turns > 0 /\ turns' = turns - 1
           /\ req[r].at \notin {"none", "share"}
    BY <1>8 DEF Bo!Arrives, Bo!Checked, Bo!TakesTurn, Bo!Ends, Bo!To
  <2>3. /\ BodySize' = BodySize /\ (\A o :
             BodyOwnedBy(o)' = BodyOwnedBy(o)) /\ BodyInCharge' = BodyInCharge
        /\ BodyStoring' = IF at = "storing" THEN BodyStoring \cup {r} ELSE BodyStoring \ {r}
    BY <1>7, <2>2 DEF BodyWhere
  <2>4. r \in BodyStoring <=> req[r].at = "storing"
    BY DEF BodyStoring
  <2>5. turns' + Cardinality(BodyStoring') = BodyTurns /\ turns' >= 0
    <3>1. /\ Cardinality(BodyStoring) \in Nat
         
          /\ Cardinality(BodyStoring \cup {r}) =
               IF r \in BodyStoring THEN Cardinality(BodyStoring) ELSE Cardinality(BodyStoring) + 1
         
          /\ Cardinality(BodyStoring \ {r}) =
               IF r \in BodyStoring THEN Cardinality(BodyStoring) - 1 ELSE Cardinality(BodyStoring)
      BY <1>2, FS_AddElement, FS_RemoveElement, FS_CardinalityType
    <3>2. CASE at = "storing"
      <4>1. Cardinality(BodyStoring') = Cardinality(BodyStoring) + 1
        BY <2>2, <2>3, <2>4, <3>1, <3>2
      <4>2. turns' = turns - 1 /\ turns > 0 /\ turns \in Int
        BY <2>2, <3>2
      <4> QED
        BY <1>3, <3>1, <4>1, <4>2
    <3>3. CASE at # "storing"
      <4>1. Cardinality(BodyStoring') =
              IF req[r].at = "storing" THEN Cardinality(BodyStoring) - 1 ELSE Cardinality(BodyStoring)
        BY <2>3, <2>4, <3>1, <3>3
      <4> QED
        BY <1>3, <2>2, <3>1, <3>3, <4>1
    <3> QED
      BY <3>2, <3>3
  <2> QED
    BY <1>3, <2>1, <2>3, <2>5
<1>9. ASSUME NEW r \in Request, Bo!GivesPermits(r)
      PROVE  /\ free' + SumFunctionOnSet(BodySize', BodyInCharge') = Budget
             /\ \A p \in Owner : held'[p] <= Share /\ held'[p] = SumFunctionOnSet(BodySize',
                BodyOwnedBy(p)')
             /\ turns' + Cardinality(BodyStoring') = BodyTurns
             /\ free' >= 0 /\ turns' >= 0
  <2>1. /\ req' = [req EXCEPT ![r].at = "share"] /\ free' = free + req[r].units
        /\ UNCHANGED <<held, turns>> /\ req[r].at = "permits"
    BY <1>9 DEF Bo!GivesPermits, Bo!To
  <2>2. /\ BodySize' = BodySize /\ (\A o :
             BodyOwnedBy(o)' = BodyOwnedBy(o)) /\ BodyStoring' = BodyStoring
    BY <1>7, <2>1 DEF BodyWhere, BodyStoring
  <2>3. BodyInCharge' = BodyInCharge \ {r} /\ r \in BodyInCharge
    BY <2>1 DEF BodyInCharge, Bo!Charged
  <2>4. SumFunctionOnSet(BodySize, BodyInCharge) = req[r].units + SumFunctionOnSet(BodySize,
     BodyInCharge \ {r})
    <3>1. BodySize[r] = req[r].units
      BY DEF BodySize
    <3>2. \A s \in BodyInCharge : BodySize[s] \in Int
      BY <1>1, <1>2
    <3> QED
      BY <1>2, <2>3, <3>1, <3>2, SumTakeOut
  <2>5. SumFunctionOnSet(BodySize, BodyInCharge \ {r}) \in Int
    <3>1. IsFiniteSet(BodyInCharge \ {r})
      BY <1>2, FS_Subset
    <3> QED
      BY <1>1, <1>2, <3>1, SumTakeOut
  <2> QED
    BY <1>3, <2>1, <2>2, <2>3, <2>4, <2>5
<1>10. ASSUME NEW r \in Request, Bo!GivesShare(r)
       PROVE  /\ free' + SumFunctionOnSet(BodySize', BodyInCharge') = Budget
              /\ \A p \in Owner : held'[p] <= Share /\ held'[p] = SumFunctionOnSet(BodySize',
                 BodyOwnedBy(p)')
              /\ turns' + Cardinality(BodyStoring') = BodyTurns
              /\ free' >= 0 /\ turns' >= 0
  <2>1. PICK o \in Owner : req[r].owner = {o}
    BY <1>10 DEF Bo!GivesShare
  <2>2. /\ UNCHANGED <<free, turns>> /\ req[r].at = "share"
        /\ req' = [req EXCEPT ![r] = Bo!NoRequest]
        /\ \A p \in Owner : held'[p] = IF p = o THEN held[p] - req[r].units ELSE held[p]
    BY <1>10, <2>1 DEF Bo!GivesShare
  <2>3. \A s \in Request : s # r => BodySize'[s] = BodySize[s]
    BY <2>2 DEF BodySize
  <2>4. BodyInCharge' = BodyInCharge /\ r \notin BodyInCharge /\ BodyStoring' = BodyStoring
    BY <2>2 DEF BodyInCharge, Bo!Charged, BodyStoring, Bo!NoRequest
  <2>5. \A p \in Owner : BodyOwnedBy(p)' = BodyOwnedBy(p) \ {r}
    BY <2>2 DEF BodyOwnedBy, Bo!NoRequest
  <2>6. r \in BodyOwnedBy(o) /\ \A p \in Owner : p # o => r \notin BodyOwnedBy(p)
    BY <2>1 DEF BodyOwnedBy
  <2>7. SumFunctionOnSet(BodySize', BodyInCharge') = SumFunctionOnSet(BodySize, BodyInCharge)
    <3>1. \A s \in BodyInCharge : BodySize[s] \in Int /\ BodySize[s] = BodySize'[s]
      BY <1>1, <1>2, <2>3, <2>4
    <3> QED
      BY <1>2, <2>4, <3>1, SumSame
  <2>8. ASSUME NEW p \in Owner
        PROVE  SumFunctionOnSet(BodySize', BodyOwnedBy(p)') = SumFunctionOnSet(BodySize,
           BodyOwnedBy(p) \ {r})
    <3>1. IsFiniteSet(BodyOwnedBy(p) \ {r})
      BY <1>2, FS_Subset
    <3>2. \A s \in BodyOwnedBy(p) \ {r} : BodySize[s] \in Int /\ BodySize[s] = BodySize'[s]
      BY <1>1, <1>2, <2>3
    <3>3. SumFunctionOnSet(BodySize, BodyOwnedBy(p) \ {r}) = SumFunctionOnSet(BodySize',
       BodyOwnedBy(p) \ {r})
      BY <3>1, <3>2, SumSame
    <3> QED
      BY <2>5, <3>3
  <2>9. SumFunctionOnSet(BodySize, BodyOwnedBy(o)) = req[r].units + SumFunctionOnSet(BodySize,
     BodyOwnedBy(o) \ {r})
    <3>1. BodySize[r] = req[r].units
      BY DEF BodySize
    <3>2. \A s \in BodyOwnedBy(o) : BodySize[s] \in Int
      BY <1>1, <1>2
    <3>3. IsFiniteSet(BodyOwnedBy(o)) /\ r \in BodyOwnedBy(o)
      BY <1>2, <2>6
    <3>4. SumFunctionOnSet(BodySize, BodyOwnedBy(o)) = BodySize[r] + SumFunctionOnSet(BodySize,
       BodyOwnedBy(o) \ {r})
      BY <3>2, <3>3, SumTakeOut
    <3> QED
      BY <3>1, <3>4
  <2>10. SumFunctionOnSet(BodySize, BodyOwnedBy(o) \ {r}) \in Int
    <3>1. IsFiniteSet(BodyOwnedBy(o) \ {r})
      BY <1>2, FS_Subset
    <3> QED
      BY <1>1, <1>2, <3>1, SumTakeOut
  <2>11. \A p \in Owner : p # o => BodyOwnedBy(p) \ {r} = BodyOwnedBy(p)
    BY <2>6
  <2>12. held'[o] <= Share /\ held'[o] = SumFunctionOnSet(BodySize', BodyOwnedBy(o)')
    <3>1. req[r].units \in Nat /\ held[o] \in Int
      OBVIOUS
    <3> QED
      BY <1>3, <2>2, <2>8, <2>9, <2>10, <3>1, RecordsAssumption
  <2>13. ASSUME NEW p \in Owner, p # o
         PROVE  held'[p] <= Share /\ held'[p] = SumFunctionOnSet(BodySize', BodyOwnedBy(p)')
    BY <1>3, <2>2, <2>8, <2>11, <2>13
  <2> QED
    BY <1>3, <2>2, <2>4, <2>7, <2>12, <2>13
<1> QED
  BY <1>5, <1>6, <1>8, <1>9, <1>10 DEF Bo!Next

LEMMA BodyInitInv == Bo!Init => BodyIInv
<1> SUFFICES ASSUME Bo!Init PROVE BodyIInv
  OBVIOUS
<1>1. BodyTypeInv /\ BodyReqInv
  BY RecordsAssumption DEF Bo!Init, BodyTypeInv, BodyReqInv, Bo!NoRequest, BodyWhere
<1>2. BodyInCharge = {} /\ BodyStoring = {} /\ \A o : BodyOwnedBy(o) = {}
  BY DEF Bo!Init, BodyInCharge, Bo!Charged, BodyStoring, BodyOwnedBy, Bo!NoRequest
<1>3. BodyAddsUpInv
  BY <1>2, SumEmpty, FS_EmptySet, RecordsAssumption DEF Bo!Init, BodyAddsUpInv
<1> QED
  BY <1>1, <1>3 DEF BodyIInv

LEMMA BodyAddsUp == Bo!Spec => []Bo!BudgetAddsUp
<1>1. BodyIInv /\ [Bo!Next]_Bo!vars => BodyIInv'
  BY BodyTypeStep, BodyBudgetStep DEF BodyIInv
<1>2. BodyIInv => Bo!BudgetAddsUp
  BY BodyAddsUpIs DEF BodyIInv
<1> QED
  BY <1>1, <1>2, BodyInitInv, PTL DEF Bo!Spec


(***************************************************************************)
(* KlvArtifacts                                                            *)
(*                                                                         *)
(* That the row never serves another run's KLV rests on what a check that  *)
(* is under way has: a row of a run no later than the last, and, while     *)
(* that run is the current one, the row still there and a KLV of that run  *)
(* (CheckInv).  What a check left alone ends with rests on nothing having  *)
(* moved beneath it (AloneInv).                                            *)
(***************************************************************************)

KlvHash == [run : Nat, by : Nat]
KlvRow  == [sha : KlvHash, served : KlvHash]

KlvCheckState == [at : {"idle", "build", "look", "put", "record"}, force : BOOLEAN,
               row : KlvRow, klv : KlvHash, found : KlvHash]

KlvTypeInv ==
  /\ runs \in Nat \ {0} /\ current \in 1..runs /\ builder \in Nat \ {0}
  /\ artifact \in KlvRow /\ backup \in KlvRow /\ object \in KlvHash
  /\ closing \in [at : {"idle", "put", "close"}, klv : KlvHash]
  /\ check \in [KlvCheck -> KlvCheckState]
  /\ fetch \in KlvHash /\ kept \in [hash : KlvHash, bytes : KlvHash]
  /\ alone \subseteq KlvCheck /\ checked \in Nat

(* A row is of one run, and there has been that run.                       *)
KlvOfARun(r) == r.sha.run = r.served.run /\ r.sha.run \in 1..runs

KlvRowInv ==
  /\ artifact # Kl!NoRow => KlvOfARun(artifact) /\ artifact.sha.run = current
  /\ backup # Kl!NoRow => KlvOfARun(backup)

KlvCheckInv ==
  \A x \in KlvCheck :
    check[x].at # "idle" =>
      /\ KlvOfARun(check[x].row)
      /\ check[x].row.sha.run = current =>
           artifact # Kl!NoRow /\ (check[x].at # "build" => check[x].klv.run = current)

(* What the check that runs alone has read is what there is.               *)
KlvUndisturbed(x) ==
  /\ check[x].at # "idle" /\ \A y \in KlvCheck : y # x => check[y].at = "idle"
  /\ artifact # Kl!NoRow /\ artifact = check[x].row
  /\ check[x].at # "build" => check[x].klv.run = current /\ check[x].klv.by # 0
  /\ check[x].at = "put" => check[x].found = object
  /\ check[x].at = "record" =>
       object = IF Kl!Rewritten(check[x]) THEN check[x].klv ELSE check[x].found

KlvAloneInv == \A x \in alone : KlvUndisturbed(x)

KlvCheckedInv ==
  checked # 0 /\ artifact # Kl!NoRow =>
    \/ artifact.served = object
    \/ /\ object \notin {Kl!Missing, artifact.sha, artifact.served, Kl!Klv(current, checked)}
       /\ artifact.sha # Kl!Klv(current, checked)

KlvKeptInv == kept.bytes = kept.hash

KlvIInv == KlvTypeInv /\ KlvRowInv /\ KlvCheckInv /\ KlvAloneInv /\ KlvCheckedInv /\ KlvKeptInv

(* A check's steps set one or two of its fields.                           *)
LEMMA KlvCheckFields ==
  ASSUME NEW c \in KlvCheckState, NEW at \in {"idle", "build", "look", "put", "record"},
     NEW k \in KlvHash
  PROVE  /\ [c EXCEPT !.at = at] \in KlvCheckState
         /\ [c EXCEPT !.at = at, !.klv = k] \in KlvCheckState
         /\ [c EXCEPT !.at = at, !.found = k] \in KlvCheckState
<1>1. [c EXCEPT !.at = at] \in KlvCheckState
  BY DEF KlvCheckState
<1>2. \A d \in KlvCheckState : [d EXCEPT !.klv = k] \in KlvCheckState
        /\ [d EXCEPT !.found = k] \in KlvCheckState
  BY DEF KlvCheckState
<1> QED
  BY <1>1, <1>2

LEMMA KlvTypeStep ==
  ASSUME KlvIInv, [Kl!Next]_Kl!vars
  PROVE  KlvTypeInv'
<1> USE DEF KlvIInv, KlvTypeInv, KlvHash, KlvRow, Kl!Klv, Kl!Missing, Kl!Other, Kl!NoRow,
   Kl!Resting, Kl!NoCheck,
            Kl!rows, Kl!serving, Kl!history, Kl!Disturbed, KlvRowInv, KlvOfARun
<1>1. CASE UNCHANGED Kl!vars
  BY <1>1 DEF Kl!vars
<1>2. CASE Kl!TransitionBuilds
  BY <1>2 DEF Kl!TransitionBuilds
<1>3. CASE Kl!TransitionPuts
  BY <1>3 DEF Kl!TransitionPuts
<1>4. CASE Kl!CloseGeneration
  BY <1>4 DEF Kl!CloseGeneration
<1>5. CASE Kl!Purge
  BY <1>5 DEF Kl!Purge
<1>6. CASE Kl!CopyBack
  BY <1>6 DEF Kl!CopyBack
<1>7. CASE Kl!Spoil \/ Kl!Upgrade
  BY <1>7 DEF Kl!Spoil, Kl!Upgrade
<1>8. ASSUME NEW x \in KlvCheck, NEW force \in BOOLEAN, Kl!CheckReads(x, force)  PROVE KlvTypeInv'
  BY <1>8 DEF Kl!CheckReads, KlvCheckState
<1>9. ASSUME NEW x \in KlvCheck, Kl!CheckBuilds(x)  PROVE KlvTypeInv'
  <2>1. Kl!GenerationKlv \in KlvHash
    BY DEF Kl!GenerationKlv
  <2>2. [check[x] EXCEPT !.at = "look", !.klv = Kl!GenerationKlv] \in KlvCheckState
    BY <2>1, KlvCheckFields DEF KlvIInv, KlvTypeInv
  <2>3. check' = [check EXCEPT ![x] = [check[x] EXCEPT !.at = "look", !.klv = Kl!GenerationKlv]]
    BY <1>9 DEF Kl!CheckBuilds
  <2> QED
    BY <1>9, <2>2, <2>3 DEF Kl!CheckBuilds
<1>10. ASSUME NEW x \in KlvCheck, Kl!CheckLooks(x)  PROVE KlvTypeInv'
  <2>1. [check[x] EXCEPT !.at = "put", !.found = object] \in KlvCheckState
    BY KlvCheckFields DEF KlvIInv, KlvTypeInv
  <2>2. check' = [check EXCEPT ![x] = [check[x] EXCEPT !.at = "put", !.found = object]]
    BY <1>10 DEF Kl!CheckLooks
  <2> QED
    BY <1>10, <2>1, <2>2 DEF Kl!CheckLooks
<1>11. ASSUME NEW x \in KlvCheck, Kl!CheckPuts(x)  PROVE KlvTypeInv'
  <2>1. object' \in KlvHash
    BY <1>11 DEF Kl!CheckPuts, KlvCheckState
  <2>2. [check[x] EXCEPT !.at = "record"] \in KlvCheckState
    BY KlvCheckFields
  <2>3. check' = [check EXCEPT ![x] = [check[x] EXCEPT !.at = "record"]]
    BY <1>11 DEF Kl!CheckPuts
  <2> QED
    BY <1>11, <2>1, <2>2, <2>3 DEF Kl!CheckPuts
<1>12. ASSUME NEW x \in KlvCheck, Kl!CheckRecords(x)  PROVE KlvTypeInv'
  BY <1>12 DEF Kl!CheckRecords, Kl!Served, KlvCheckState
<1>13. ASSUME NEW x \in KlvCheck, Kl!CutOff(x)  PROVE KlvTypeInv'
  BY <1>13 DEF Kl!CutOff, KlvCheckState
<1>14. CASE Kl!FetchReads
  BY <1>14 DEF Kl!FetchReads
<1>15. CASE Kl!FetchAnswers
  BY <1>15 DEF Kl!FetchAnswers
<1> QED
  BY <1>1, <1>2, <1>3, <1>4, <1>5, <1>6, <1>7, <1>8, <1>9, <1>10, <1>11, <1>12,
     <1>13, <1>14, <1>15 DEF Kl!Next

(* A row that is made, or has what it serves changed, is of the current    *)
(* run: a close asks for it, and a check has built from its totals.        *)
LEMMA KlvRowStep ==
  ASSUME KlvIInv, [Kl!Next]_Kl!vars, KlvTypeInv'
  PROVE  KlvRowInv'
<1> USE DEF KlvIInv, KlvTypeInv, KlvRowInv, KlvOfARun, Kl!rows
<1>1. CASE UNCHANGED <<runs, current, artifact, backup>>
  BY <1>1
<1>2. CASE Kl!CloseGeneration
  BY <1>2 DEF Kl!CloseGeneration, Kl!StillOurs
<1>3. CASE Kl!Purge
  BY <1>3 DEF Kl!Purge
<1>4. CASE Kl!CopyBack
  BY <1>4 DEF Kl!CopyBack
<1>5. ASSUME NEW x \in KlvCheck, Kl!CheckRecords(x)  PROVE KlvRowInv'
  <2>1. CASE artifact # check[x].row
    BY <1>1, <1>5, <2>1 DEF Kl!CheckRecords
  <2>2. CASE artifact = check[x].row
    <3>1. check[x].at = "record" /\ artifact' = [artifact EXCEPT !.served = Kl!Served(check[x])]
      BY <1>5, <2>2 DEF Kl!CheckRecords
    <3>2. artifact # Kl!NoRow /\ check[x].klv.run = current
      BY <2>2, <3>1 DEF KlvCheckInv, Kl!NoRow, Kl!Missing, Kl!Klv
    <3>3. Kl!Served(check[x]).run = current
      BY <2>2, <3>2 DEF Kl!Served, Kl!Rewritten, Kl!Accounted
    <3>4. artifact'.sha = artifact.sha /\ artifact'.served = Kl!Served(check[x])
      BY <3>1 DEF KlvRow
    <3> QED
      BY <1>5, <3>2, <3>3, <3>4 DEF Kl!CheckRecords
  <2> QED
    BY <2>1, <2>2
<1> QED
  BY <1>1, <1>2, <1>3, <1>4, <1>5
  DEF Kl!Next, Kl!vars, Kl!TransitionBuilds, Kl!TransitionPuts, Kl!Spoil, Kl!Upgrade,
     Kl!CheckReads, Kl!CheckBuilds,
      Kl!CheckLooks, Kl!CheckPuts, Kl!CutOff, Kl!FetchReads, Kl!FetchAnswers

(* A run that is purged does not come back while a check is under way.     *)
LEMMA KlvCheckStep ==
  ASSUME KlvIInv, [Kl!Next]_Kl!vars, KlvTypeInv'
  PROVE  KlvCheckInv'
<1> USE DEF KlvIInv, KlvTypeInv, KlvRowInv, KlvCheckInv, KlvOfARun, Kl!rows
<1>1. CASE UNCHANGED <<runs, current, artifact, check>>
  BY <1>1
<1>2. CASE Kl!CloseGeneration
  BY <1>2 DEF Kl!CloseGeneration, Kl!StillOurs, Kl!NoRow, Kl!Missing, Kl!Klv
<1>3. CASE Kl!Purge
  BY <1>3 DEF Kl!Purge
<1>4. CASE Kl!CopyBack
  BY <1>4 DEF Kl!CopyBack, Kl!NoCheck
<1>5. ASSUME NEW x \in KlvCheck, NEW force \in BOOLEAN, Kl!CheckReads(x, force)  PROVE KlvCheckInv'
  <2>1. check'[x].row = artifact /\ check'[x].at = "build" /\ artifact # Kl!NoRow
    BY <1>5 DEF Kl!CheckReads, Kl!NoCheck
  <2>2. \A y \in KlvCheck \ {x} : check'[y] = check[y]
    BY <1>5 DEF Kl!CheckReads
  <2>3. UNCHANGED <<runs, current, artifact>>
    BY <1>5 DEF Kl!CheckReads
  <2> QED
    BY <2>1, <2>2, <2>3
<1>6. ASSUME NEW x \in KlvCheck, Kl!CheckBuilds(x)  PROVE KlvCheckInv'
  <2>1. check[x].at = "build" /\ check'[x].row = check[x].row /\ check'[x].klv = Kl!GenerationKlv
    BY <1>6 DEF Kl!CheckBuilds, KlvCheckState
  <2>2. \A y \in KlvCheck \ {x} : check'[y] = check[y]
    BY <1>6 DEF Kl!CheckBuilds
  <2>3. UNCHANGED <<runs, current, artifact>>
    BY <1>6 DEF Kl!CheckBuilds
  <2>4. artifact # Kl!NoRow => Kl!GenerationKlv.run = current
    BY DEF Kl!GenerationKlv, Kl!Klv
  <2> QED
    BY <2>1, <2>2, <2>3, <2>4
<1>7. ASSUME NEW x \in KlvCheck, Kl!CheckLooks(x) \/ Kl!CheckPuts(x)  PROVE KlvCheckInv'
  <2>1. /\ check[x].at \in {"look", "put"}
        /\ check'[x].row = check[x].row /\ check'[x].klv = check[x].klv
    BY <1>7 DEF Kl!CheckLooks, Kl!CheckPuts, KlvCheckState
  <2>2. \A y \in KlvCheck \ {x} : check'[y] = check[y]
    BY <1>7 DEF Kl!CheckLooks, Kl!CheckPuts
  <2>3. UNCHANGED <<runs, current, artifact>>
    BY <1>7 DEF Kl!CheckLooks, Kl!CheckPuts
  <2> QED
    BY <2>1, <2>2, <2>3
<1>8. ASSUME NEW x \in KlvCheck, Kl!CheckRecords(x) \/ Kl!CutOff(x)  PROVE KlvCheckInv'
  <2>1. check'[x].at = "idle" /\ \A y \in KlvCheck \ {x} : check'[y] = check[y]
    BY <1>8 DEF Kl!CheckRecords, Kl!CutOff, Kl!NoCheck
  <2>2. UNCHANGED <<runs, current>> /\ (artifact # Kl!NoRow => artifact' # Kl!NoRow)
    <3>1. CASE Kl!CutOff(x)
      BY <3>1 DEF Kl!CutOff
    <3>2. CASE Kl!CheckRecords(x)
      <4>1. artifact'.sha = artifact.sha
        BY <3>2 DEF Kl!CheckRecords, KlvRow
      <4>2. artifact # Kl!NoRow => artifact.sha.run # 0
        OBVIOUS
      <4>3. artifact # Kl!NoRow => artifact' # Kl!NoRow
        BY <4>1, <4>2 DEF Kl!NoRow, Kl!Missing, Kl!Klv
      <4> QED
        BY <3>2, <4>3 DEF Kl!CheckRecords
    <3> QED
      BY <1>8, <3>1, <3>2
  <2> QED
    BY <2>1, <2>2
<1>9. CASE UNCHANGED Kl!vars
  BY <1>1, <1>9 DEF Kl!vars
<1>10. CASE Kl!TransitionBuilds \/ Kl!TransitionPuts \/ Kl!Spoil \/ Kl!Upgrade
  BY <1>1, <1>10 DEF Kl!TransitionBuilds, Kl!TransitionPuts, Kl!Spoil, Kl!Upgrade
<1>11. CASE Kl!FetchReads \/ Kl!FetchAnswers
  BY <1>1, <1>11 DEF Kl!FetchReads, Kl!FetchAnswers
<1> HIDE DEF KlvIInv, KlvTypeInv, KlvRowInv, KlvCheckInv, KlvOfARun, Kl!rows
<1> QED
  BY <1>2, <1>3, <1>4, <1>5, <1>6, <1>7, <1>8, <1>9, <1>10, <1>11 DEF Kl!Next

(* Whatever else is done ends the solitude of a check.                     *)
LEMMA KlvAloneStep ==
  ASSUME KlvIInv, [Kl!Next]_Kl!vars, KlvTypeInv'
  PROVE  KlvAloneInv'
<1> USE DEF KlvIInv, KlvTypeInv, KlvAloneInv, Kl!rows, Kl!history
<1>1. CASE UNCHANGED <<current, artifact, check, object, alone>>
  BY <1>1 DEF KlvUndisturbed, Kl!Rewritten, Kl!Accounted
<1>2. CASE alone' = {}
  BY <1>2
<1>3. ASSUME NEW x \in KlvCheck, NEW force \in BOOLEAN, Kl!CheckReads(x, force)  PROVE KlvAloneInv'
  <2>1. /\ check'[x].row = artifact /\ check'[x].at = "build" /\ artifact # Kl!NoRow
        /\ UNCHANGED <<current, artifact, object>>
    BY <1>3 DEF Kl!CheckReads, Kl!NoCheck
  <2>2. \A y \in KlvCheck \ {x} : check'[y] = check[y]
    BY <1>3 DEF Kl!CheckReads
  <2>3. alone' # {} => alone' = {x} /\ \A y \in KlvCheck : check[y].at = "idle"
    BY <1>3 DEF Kl!CheckReads
  <2> QED
    BY <2>1, <2>2, <2>3 DEF KlvUndisturbed
<1>4. ASSUME NEW x \in KlvCheck, check[x].at # "idle"  PROVE alone \subseteq {x}
  BY <1>4 DEF KlvUndisturbed
<1>5. ASSUME NEW x \in KlvCheck, Kl!CheckBuilds(x)  PROVE KlvAloneInv'
  <2>1. /\ check[x].at = "build" /\ check'[x].at = "look" /\ check'[x].row = check[x].row
        /\ check'[x].klv = Kl!GenerationKlv
    BY <1>5 DEF Kl!CheckBuilds, KlvCheckState
  <2>2. \A y \in KlvCheck \ {x} : check'[y] = check[y]
    BY <1>5 DEF Kl!CheckBuilds
  <2>3. UNCHANGED <<current, artifact, object, alone>>
    BY <1>5 DEF Kl!CheckBuilds
  <2>4. artifact # Kl!NoRow => Kl!GenerationKlv.run = current /\ Kl!GenerationKlv.by # 0
    BY DEF Kl!GenerationKlv, Kl!Klv
  <2> QED
    BY <1>4, <2>1, <2>2, <2>3, <2>4 DEF KlvUndisturbed
<1>6. ASSUME NEW x \in KlvCheck, Kl!CheckLooks(x)  PROVE KlvAloneInv'
  <2>1. /\ check[x].at = "look" /\ check'[x].at = "put" /\ check'[x].row = check[x].row
        /\ check'[x].klv = check[x].klv /\ check'[x].found = object
    BY <1>6 DEF Kl!CheckLooks, KlvCheckState
  <2>2. \A y \in KlvCheck \ {x} : check'[y] = check[y]
    BY <1>6 DEF Kl!CheckLooks
  <2>3. UNCHANGED <<current, artifact, object, alone>>
    BY <1>6 DEF Kl!CheckLooks
  <2> QED
    BY <1>4, <2>1, <2>2, <2>3 DEF KlvUndisturbed
<1>7. ASSUME NEW x \in KlvCheck, Kl!CheckPuts(x)  PROVE KlvAloneInv'
  <2>1. /\ check[x].at = "put" /\ check'[x].at = "record" /\ check'[x].row = check[x].row
        /\ check'[x].klv = check[x].klv /\ check'[x].found = check[x].found
        /\ check'[x].force = check[x].force
    BY <1>7 DEF Kl!CheckPuts, KlvCheckState
  <2>2. \A y \in KlvCheck \ {x} : check'[y] = check[y]
    BY <1>7 DEF Kl!CheckPuts
  <2>3. /\ UNCHANGED <<current, artifact, alone>>
        /\ object' = IF Kl!Rewritten(check[x]) THEN check[x].klv ELSE object
    BY <1>7 DEF Kl!CheckPuts
  <2>4. Kl!Rewritten(check[x])' = Kl!Rewritten(check[x])
    BY <2>1 DEF Kl!Rewritten, Kl!Accounted
  <2> QED
    BY <1>4, <2>1, <2>2, <2>3, <2>4 DEF KlvUndisturbed
<1>8. ASSUME NEW x \in KlvCheck, Kl!CheckRecords(x)  PROVE KlvAloneInv'
  <2>1. check[x].at # "idle" /\ alone' = alone \ {x}
    BY <1>8 DEF Kl!CheckRecords
  <2> QED
    BY <1>2, <1>4, <2>1
<1> QED
  BY <1>1, <1>2, <1>3, <1>5, <1>6, <1>7, <1>8
  DEF Kl!Next, Kl!vars, Kl!TransitionBuilds, Kl!TransitionPuts, Kl!CloseGeneration, Kl!Purge,
     Kl!CopyBack, Kl!Spoil,
      Kl!Upgrade, Kl!CutOff, Kl!FetchReads, Kl!FetchAnswers, Kl!Disturbed

(* What a check that ran alone leaves: the row says what the object holds, *)
(* unless nothing accounts for the object.                                 *)
LEMMA KlvCheckedStep ==
  ASSUME KlvIInv, [Kl!Next]_Kl!vars, KlvTypeInv'
  PROVE  KlvCheckedInv'
<1> USE DEF KlvIInv, KlvTypeInv, KlvCheckedInv, Kl!rows, Kl!history
<1>1. CASE UNCHANGED <<current, artifact, object, checked>>
  BY <1>1
<1>2. CASE checked' = 0
  BY <1>2
<1>3. ASSUME NEW x \in KlvCheck, Kl!CheckRecords(x)  PROVE KlvCheckedInv'
  <2> DEFINE c == check[x]
  <2>1. CASE x \notin alone
    BY <1>2, <1>3, <2>1 DEF Kl!CheckRecords
  <2>2. CASE x \in alone
    <3>1. /\ c.at = "record" /\ artifact = c.row /\ c.klv.run = current
          /\ object = IF Kl!Rewritten(c) THEN c.klv ELSE c.found
      BY <1>3, <2>2 DEF Kl!CheckRecords, KlvAloneInv, KlvUndisturbed
    <3>2. /\ artifact'.sha = artifact.sha /\ artifact'.served = Kl!Served(c)
          /\ checked' = c.klv.by /\ UNCHANGED <<current, object>>
      BY <1>3, <2>2, <3>1 DEF Kl!CheckRecords, KlvRow
    <3>3. CASE Kl!Rewritten(c) \/ Kl!Accounted(c)
      BY <3>1, <3>2, <3>3 DEF Kl!Served
    <3>4. CASE ~Kl!Rewritten(c) /\ ~Kl!Accounted(c)
      <4>1. Kl!Served(c) = c.row.served /\ object = c.found
        BY <3>1, <3>4 DEF Kl!Served
      <4>2. object \notin {Kl!Missing, c.row.sha, c.klv, c.row.served} /\ c.klv # c.row.sha
        BY <3>4, <4>1 DEF Kl!Accounted, Kl!Rewritten
      <4>3. c.klv = Kl!Klv(current, checked')
        BY <3>1, <3>2 DEF Kl!Klv, KlvCheckState, KlvHash
      <4> QED
        BY <3>1, <3>2, <4>1, <4>2, <4>3 DEF Kl!Klv
    <3> QED
      BY <3>3, <3>4
  <2> QED
    BY <2>1, <2>2
<1> QED
  BY <1>1, <1>2, <1>3
  DEF Kl!Next, Kl!vars, Kl!TransitionBuilds, Kl!TransitionPuts, Kl!CloseGeneration, Kl!Purge,
     Kl!CopyBack, Kl!Spoil,
      Kl!Upgrade, Kl!CheckReads, Kl!CheckBuilds, Kl!CheckLooks, Kl!CheckPuts, Kl!CutOff,
         Kl!FetchReads, Kl!FetchAnswers,
      Kl!Disturbed

(* What is kept in memory is kept for its own hash.                        *)
LEMMA KlvKeptStep ==
  ASSUME KlvIInv, [Kl!Next]_Kl!vars
  PROVE  KlvKeptInv'
<1> USE DEF KlvIInv, KlvKeptInv
<1>1. CASE UNCHANGED kept
  BY <1>1
<1>2. CASE Kl!FetchAnswers
  BY <1>2 DEF Kl!FetchAnswers
<1> QED
  BY <1>1, <1>2
  DEF Kl!Next, Kl!vars, Kl!serving, Kl!TransitionBuilds, Kl!TransitionPuts, Kl!CloseGeneration,
     Kl!Purge, Kl!CopyBack,
      Kl!Spoil, Kl!Upgrade, Kl!CheckReads, Kl!CheckBuilds, Kl!CheckLooks, Kl!CheckPuts,
         Kl!CheckRecords, Kl!CutOff,
      Kl!FetchReads

(* generation_artifact serves a hash of the current run, rebuild_artifacts *)
(* left alone records what the object holds, whatever purges, restores,    *)
(* losses and upgrades come between.                                       *)
THEOREM KlvServingSound == Kl!Spec => []Kl!ServedIsSound
<1>1. Kl!Init => KlvIInv
  BY DEF Kl!Init, KlvIInv, KlvTypeInv, KlvRowInv, KlvOfARun, KlvCheckInv, KlvCheckState,
     KlvAloneInv, KlvCheckedInv, KlvKeptInv,
         KlvHash, KlvRow, Kl!Klv, Kl!Missing, Kl!NoRow, Kl!Resting, Kl!NoCheck
<1>2. KlvIInv /\ [Kl!Next]_Kl!vars => KlvIInv'
  BY KlvTypeStep, KlvRowStep, KlvCheckStep, KlvAloneStep, KlvCheckedStep, KlvKeptStep DEF KlvIInv
<1>3. KlvIInv => Kl!ServedIsSound
  BY DEF KlvIInv, KlvRowInv, KlvOfARun, KlvCheckedInv, KlvKeptInv, Kl!ServedIsSound
<1> QED
  BY <1>1, <1>2, <1>3, PTL DEF Kl!Spec

(***************************************************************************)
(* The sum: the part that was chosen takes the steps of its component, and *)
(* the others stand still, so what a component promises the sum promises.  *)
(***************************************************************************)
LEMMA PartStays ==
  ASSUME [Next]_vars
  PROVE  /\ part' = part
         /\ part = "exports"  => [Ex!Next]_Ex!vars
         /\ part = "ratings"  => [Ra!Next]_Ra!vars
         /\ part = "imports"  => [Im!Next]_Im!vars
         /\ part = "walk"     => [Wa!Next]_Wa!vars
         /\ part = "bodies"   => [Bo!Next]_Bo!vars
         /\ part = "klv"      => [Kl!Next]_Kl!vars
         /\ [Ac!Next]_Ac!vars
         /\ part # "imports" => UNCHANGED importVars
<1> USE DEF exportVars, ratingVars, accountVars, importVars, walkVars, bodyVars, klvVars
<1>1. part' = part
  BY DEF Next, vars
<1>2. part = "exports" => [Ex!Next]_Ex!vars
  BY DEF Next, vars, Ex!vars
<1>3. part = "ratings" => [Ra!Next]_Ra!vars
  BY DEF Next, vars, Ra!vars
<1>4. part = "imports" => [Im!Next]_Im!vars
  BY DEF Next, vars, Im!vars
<1>5. part = "walk" => [Wa!Next]_Wa!vars
  BY DEF Next, vars, Wa!vars
<1>6. part = "bodies" => [Bo!Next]_Bo!vars
  BY DEF Next, vars, Bo!vars
<1>7. part = "klv" => [Kl!Next]_Kl!vars
  <2>1. ASSUME Next, part = "klv"  PROVE Kl!Next
    BY <2>1 DEF Next
  <2>2. ASSUME UNCHANGED vars  PROVE UNCHANGED Kl!vars
    BY <2>2 DEF vars, Kl!vars, Kl!rows, Kl!serving, Kl!history
  <2> QED
    BY <2>1, <2>2
<1>8. [Ac!Next]_Ac!vars
  BY DEF Next, vars, Ac!vars
<1>9. part # "imports" => UNCHANGED importVars
  BY DEF Next, vars
<1> QED
  BY <1>1, <1>2, <1>3, <1>4, <1>5, <1>6, <1>7, <1>8, <1>9

LEMMA PartsBegin ==
  ASSUME Init
  PROVE  Ex!Init /\ Ra!Init /\ Ac!Init /\ Im!Init /\ Wa!Init /\ Bo!Init /\ Kl!Init
BY DEF Init

(* An export mark_ready calls the final corpus is all of a completed job,  *)
(* whatever was purged, edited or merged between its snapshot and its mark. *)
THEOREM FinalSound == Spec => []FinalIsCorpus
<1> DEFINE Chosen == part = "exports"
<1>1. Init => Ex!Init
  BY PartsBegin
<1>2. Chosen /\ [Next]_vars => Chosen' /\ [Ex!Next]_Ex!vars
  BY PartStays
<1>3. ~Chosen /\ [Next]_vars => ~Chosen'
  BY PartStays
<1>4. (Chosen => Ex!FinalIsCorpus) => FinalIsCorpus
  BY DEF FinalIsCorpus
<1> HIDE DEF Chosen
<1> QED
  BY <1>1, <1>2, <1>3, <1>4, ExportFinalHolds, PTL DEF Spec, Ex!Spec

(* What newest_ready sends a download to has every object it names, although *)
(* a build that was told it failed removes what it uploaded.               *)
THEOREM DownloadsWhole == Spec => []ReadyHasObjects
<1> DEFINE Chosen == part = "exports"
<1>1. Init => Ex!Init
  BY PartsBegin
<1>2. Chosen /\ [Next]_vars => Chosen' /\ [Ex!Next]_Ex!vars
  BY PartStays
<1>3. ~Chosen /\ [Next]_vars => ~Chosen'
  BY PartStays
<1>4. (Chosen => Ex!ReadyHasObjects) => ReadyHasObjects
  BY DEF ReadyHasObjects
<1> HIDE DEF Chosen
<1> QED
  BY <1>1, <1>2, <1>3, <1>4, ExportObjectsThere, PTL DEF Spec, Ex!Spec

(* A pool the sweep leaves alone shows ratings of as many pairs as its     *)
(* jobs have, for any jobs and pairs, and of those very pairs unless some  *)
(* that they were fitted to are gone: what landed during a fit, or was     *)
(* purged since, is noticed by the next, if it changes the amount.         *)
THEOREM QuietFits == Spec => []QuietIsCurrent
<1> DEFINE Chosen == part = "ratings"
<1>1. Init => Ra!Init
  BY PartsBegin
<1>2. Chosen /\ [Next]_vars => Chosen' /\ [Ra!Next]_Ra!vars
  BY PartStays
<1>3. ~Chosen /\ [Next]_vars => ~Chosen'
  BY PartStays
<1>4. (Chosen => Ra!QuietIsCurrent) => QuietIsCurrent
  BY DEF QuietIsCurrent
<1> HIDE DEF Chosen
<1> QED
  BY <1>1, <1>2, <1>3, <1>4, RatingQuietFits, PTL DEF Spec, Ra!Spec

(* remove_pool_member and update_pool never part a pool from its anchor, and *)
(* store_run leaves the newest run measured against it.                    *)
THEOREM AnchorKept == Spec => []AnchorHolds
<1> DEFINE Chosen == part = "ratings"
<1>1. Init => Ra!Init
  BY PartsBegin
<1>2. Chosen /\ [Next]_vars => Chosen' /\ [Ra!Next]_Ra!vars
  BY PartStays
<1>3. ~Chosen /\ [Next]_vars => ~Chosen'
  BY PartStays
<1>4. (Chosen => Ra!AnchorHolds) => AnchorHolds
  BY DEF AnchorHolds
<1> HIDE DEF Chosen
<1> QED
  BY <1>1, <1>2, <1>3, <1>4, RatingAnchorKept, PTL DEF Spec, Ra!Spec

(* A session CurrentUser accepts was issued to someone who knew the        *)
(* password the account has now, whatever resets ran beside the login.     *)
THEOREM SessionsSound == Spec => []SessionKnowsPassword
<1>1. Init => Ac!Init
  BY PartsBegin
<1>2. [Next]_vars => [Ac!Next]_Ac!vars
  BY PartStays
<1>3. Ac!SessionKnowsPassword => SessionKnowsPassword
  BY DEF SessionKnowsPassword
<1> QED
  BY <1>1, <1>2, <1>3, AccountSessionsSound, RecordsAssumption, PTL
  DEF Spec, Ac!Spec, RecordsAssumption

(* delete_user leaves an account nothing to act by, and create_key keeps   *)
(* to its limit, however many requests were under way.                     *)
THEOREM DeletedIsEmpty == Spec => []DeletedHasNothing
<1>1. Init => Ac!Init
  BY PartsBegin
<1>2. [Next]_vars => [Ac!Next]_Ac!vars
  BY PartStays
<1>3. Ac!DeletedHasNothing => DeletedHasNothing
  BY DEF DeletedHasNothing
<1> QED
  BY <1>1, <1>2, <1>3, AccountDeletedIsEmpty, RecordsAssumption, PTL
  DEF Spec, Ac!Spec, RecordsAssumption

(* register never releases the name of an account that has confirmed.      *)
THEOREM ConfirmedIsKept == Spec => ConfirmedStays
<1>1. Init => Ac!Init
  BY PartsBegin
<1>2. [Next]_vars => [Ac!Next]_Ac!vars
  BY PartStays
<1> QED
  BY <1>1, <1>2, AccountConfirmedIsKept, RecordsAssumption, PTL
  DEF Spec, Ac!Spec, ConfirmedStays, Ac!ConfirmedStays, RecordsAssumption

(* What stage_import, confirm_import and the deletes keep: every job and   *)
(* player is on files that are there, whose bytes are in the store.        *)
THEOREM PinnedIsThere == Spec => []PinnedHasBytes
<1> DEFINE Chosen == part = "imports"
<1>1. Init => Im!Init
  BY PartsBegin
<1>2. Chosen /\ [Next]_vars => Chosen' /\ [Im!Next]_Im!vars
  BY PartStays
<1>3. ~Chosen /\ [Next]_vars => ~Chosen'
  BY PartStays
<1>4. (Chosen => Im!PinnedHasBytes) => PinnedHasBytes
  BY DEF PinnedHasBytes
<1> HIDE DEF Chosen
<1> QED
  BY <1>1, <1>2, <1>3, <1>4, ImportPinnedIsThere, PTL DEF Spec, Im!Spec

(* finish_staging, record_failure, confirm_import and a start of the       *)
(* server leave an import that has ended as it ended.                      *)
THEOREM EndedIsKept == Spec => EndedStays
<1> DEFINE Chosen == part = "imports"
           Ended  == {"nothing_new", "confirmed", "cancelled", "failed"}
           Keeps  == \A i \in Import : state[i] \in Ended => state'[i] = state[i]
<1>1. Init => Im!Init
  BY PartsBegin
<1>2. Chosen /\ [Next]_vars => Chosen' /\ [Im!Next]_Im!vars
  BY PartStays
<1>3. ~Chosen /\ [Next]_vars => ~Chosen' /\ [Keeps]_Im!vars
  BY PartStays DEF importVars
<1> HIDE DEF Chosen, Keeps
<1>4. Im!EndedStays <=> [][Keeps]_Im!vars
  BY PTL DEF Im!EndedStays, Keeps
<1> QED
  BY <1>1, <1>2, <1>3, <1>4, ImportEndedIsKept, PTL DEF Spec, Im!Spec, EndedStays

(* What walk_archive pins to a path, as a file or as an alias, is what a   *)
(* worker has there after tar, for any names, headers and entries; or it   *)
(* has nothing, where tar has made a directory of what the path names or   *)
(* leads to.                                                               *)
THEOREM UnpackedIsPinned == Spec => []PinnedIsUnpacked
<1> DEFINE Chosen == part = "walk"
<1>1. Init => Wa!Init
  BY PartsBegin
<1>2. Chosen /\ [Next]_vars => Chosen' /\ [Wa!Next]_Wa!vars
  BY PartStays
<1>3. ~Chosen /\ [Next]_vars => ~Chosen'
  BY PartStays
<1>4. (Chosen => Wa!PinnedIsUnpacked) => PinnedIsUnpacked
  BY DEF PinnedIsUnpacked
<1> HIDE DEF Chosen
<1> QED
  BY <1>1, <1>2, <1>3, <1>4, WalkUnpackedIsPinned, PTL DEF Spec, Wa!Spec

(* reserve_large_body and the drops that end it lose nothing of the budget *)
(* and give nothing twice, for any requests, owners and sizes.             *)
THEOREM BudgetKept == Spec => []BudgetAddsUp
<1> DEFINE Chosen == part = "bodies"
<1>1. Init => Bo!Init
  BY PartsBegin
<1>2. Chosen /\ [Next]_vars => Chosen' /\ [Bo!Next]_Bo!vars
  BY PartStays
<1>3. ~Chosen /\ [Next]_vars => ~Chosen'
  BY PartStays
<1>4. (Chosen => Bo!BudgetAddsUp) => BudgetAddsUp
  BY DEF BudgetAddsUp
<1> HIDE DEF Chosen
<1> QED
  BY <1>1, <1>2, <1>3, <1>4, BodyAddsUp, PTL DEF Spec, Bo!Spec

(* Workers get the hash of their own run's KLV, with the bytes of that hash, *)
(* and a check of the objects left alone ends with the object it names.    *)
THEOREM ServingSound == Spec => []ServedIsSound
<1> DEFINE Chosen == part = "klv"
<1>1. Init => Kl!Init
  BY PartsBegin
<1>2. Chosen /\ [Next]_vars => Chosen' /\ [Kl!Next]_Kl!vars
  BY PartStays
<1>3. ~Chosen /\ [Next]_vars => ~Chosen'
  BY PartStays
<1>4. (Chosen => Kl!ServedIsSound) => ServedIsSound
  BY DEF ServedIsSound
<1> HIDE DEF Chosen
<1> QED
  BY <1>1, <1>2, <1>3, <1>4, KlvServingSound, PTL DEF Spec, Kl!Spec
=============================================================================
