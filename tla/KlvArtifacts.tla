---------------------------- MODULE KlvArtifacts ----------------------------
(***************************************************************************)
(* The KLV of one generation of a leave job: built from the generation's   *)
(* totals when it closes, kept in the object store under a key of the job  *)
(* and the generation, checked by workers against the hash its row has     *)
(* them sent, and checked and repaired by admins.  Purges delete the row   *)
(* and not the object; a restore brings the row and the totals back; the   *)
(* object is lost or overwritten; and MAGPIE's builder changes.            *)
(*                                                                         *)
(* A KLV is told by the run of the job whose totals it was built from, a   *)
(* run ending with a purge, and by its builder; a hash is what it hashes.  *)
(* Whether the job is active, which forcing asks first, is left out.       *)
(***************************************************************************)
EXTENDS Integers

CONSTANTS
  Check,      \* checks (rebuild_artifacts) at once
  MaxRuns,    \* bound: runs of the job
  MaxBuilder, \* bound: builders, each an upgrade of MAGPIE
  MaxMishaps  \* bound: objects lost or overwritten, restores, requests cut off

VARIABLES
  runs,     \* the runs there have been
  current,  \* the run whose totals are in leave_rack_progress
  builder,  \* the builder in use
  artifact, \* the generation's row in leave_generation_artifacts, or NoRow
  backup,   \* the last row a backup holds, or NoRow
  object,   \* what the store holds under the key, or Missing
  closing,  \* the transition: the KLV it has built, and how far it is
  check,    \* check[x]: what a check has read and built
  fetch,    \* a worker's request for the object: the hash its row served
  kept,     \* recent_artifacts: the bytes kept and the hash they are kept for
  alone,    \* history: the check that runs, nothing else having been done to
            \* row, totals or object since it began
  checked,  \* history: the builder of such a check that has ended since, or 0
  mishaps

rows    == <<runs, current, artifact, backup>>
serving == <<fetch, kept>>
history == <<alone, checked>>
vars == <<rows, builder, object, closing, check, serving, history, mishaps>>

Klv(run, by) == [run |-> run, by |-> by]
Missing == Klv(0, 0)
Other   == Klv(0, 1)    \* bytes that no run's whole totals build

NoRow   == [sha |-> Missing, served |-> Missing]
Resting == [at |-> "idle", klv |-> Missing]
NoCheck == [at |-> "idle", force |-> FALSE, row |-> NoRow, klv |-> Missing, found |-> Missing]

Init ==
  /\ runs = 1 /\ current = 1 /\ builder = 1
  /\ artifact = NoRow /\ backup = NoRow /\ object = Missing
  /\ closing = Resting /\ check = [x \in Check |-> NoCheck]
  /\ fetch = Missing /\ kept = [hash |-> Missing, bytes |-> Missing]
  /\ alone = {} /\ checked = 0 /\ mishaps = 0

Mishap    == mishaps < MaxMishaps /\ mishaps' = mishaps + 1
Disturbed == alone' = {} /\ checked' = 0

(***************************************************************************)
(* Closing the generation: the object first, then the row                  *)
(***************************************************************************)
TransitionBuilds ==
  /\ closing.at = "idle" /\ artifact = NoRow
  /\ closing' = [at |-> "put", klv |-> Klv(current, builder)]
  /\ UNCHANGED <<rows, builder, object, check, serving, history, mishaps>>

TransitionPuts ==
  /\ closing.at = "put"
  /\ object' = closing.klv /\ closing' = [closing EXCEPT !.at = "close"]
  /\ Disturbed
  /\ UNCHANGED <<rows, builder, check, serving, mishaps>>

(* Its row of leave_generation_transitions is there and open: a purge      *)
(* deletes it, and what closed the generation completed it.                *)
StillOurs == closing.klv.run = current /\ artifact = NoRow

CloseGeneration ==
  /\ closing.at = "close"
  /\ artifact' = IF StillOurs THEN [sha |-> closing.klv, served |-> closing.klv] ELSE artifact
  /\ closing' = Resting
  /\ Disturbed
  /\ UNCHANGED <<runs, current, backup, builder, object, check, serving, mishaps>>

(***************************************************************************)
(* Purges, restores, the store and the builder                             *)
(***************************************************************************)
(* The rows go, and the object stays; backups hold the row as it was.      *)
Purge ==
  /\ runs < MaxRuns
  /\ runs' = runs + 1 /\ current' = runs + 1
  /\ artifact' = NoRow
  /\ backup' = IF artifact = NoRow THEN backup ELSE artifact
  /\ Disturbed
  /\ UNCHANGED <<builder, object, closing, check, serving, mishaps>>

(* After a mistaken purge an operator puts the backup's rows in the place  *)
(* of those there now, nothing of the server running for the job.          *)
CopyBack ==
  /\ backup # NoRow /\ closing = Resting /\ \A x \in Check : check[x] = NoCheck
  /\ Mishap
  /\ artifact' = backup /\ current' = backup.sha.run
  /\ Disturbed
  /\ UNCHANGED <<runs, backup, builder, object, closing, check, serving>>

(* The object is lost, or replaced by other bytes.                         *)
Spoil ==
  /\ Mishap
  /\ object' \in {Missing, Other}
  /\ Disturbed
  /\ UNCHANGED <<rows, builder, closing, check, serving>>

Upgrade ==
  /\ builder < MaxBuilder
  /\ builder' = builder + 1
  /\ UNCHANGED <<rows, object, closing, check, serving, history, mishaps>>

(***************************************************************************)
(* Checking and repairing it                                               *)
(***************************************************************************)
CheckReads(x, force) ==
  /\ check[x].at = "idle" /\ artifact # NoRow
  /\ check' = [check EXCEPT ![x] = [NoCheck EXCEPT !.at = "build", !.force = force, !.row = artifact]]
  /\ alone' = IF \A y \in Check : check[y].at = "idle" THEN {x} ELSE {}
  /\ checked' = 0
  /\ UNCHANGED <<rows, builder, object, closing, serving, mishaps>>

(* From the totals as they are now: those of a run that has not closed     *)
(* the generation are not whole.                                           *)
GenerationKlv == IF artifact = NoRow THEN Other ELSE Klv(current, builder)

CheckBuilds(x) ==
  /\ check[x].at = "build"
  /\ check' = [check EXCEPT ![x].at = "look", ![x].klv = GenerationKlv]
  /\ UNCHANGED <<rows, builder, object, closing, serving, history, mishaps>>

CheckLooks(x) ==
  /\ check[x].at = "look"
  /\ check' = [check EXCEPT ![x].at = "put", ![x].found = object]
  /\ UNCHANGED <<rows, builder, object, closing, serving, history, mishaps>>

(* The first build, this one, or what is served; a missing one is no worry.*)
(* The slip kept for comparison approves whatever is there.                *)
Accounted_Any(c) == TRUE

Accounted(c) == c.found \in {Missing, c.row.sha, c.klv, c.row.served}

Rewritten(c) == c.found = Missing \/ c.force \/ (~Accounted(c) /\ c.klv = c.row.sha)

CheckPuts(x) ==
  /\ check[x].at = "put"
  /\ object' = IF Rewritten(check[x]) THEN check[x].klv ELSE object
  /\ check' = [check EXCEPT ![x].at = "record"]
  /\ checked' = 0
  /\ UNCHANGED <<rows, builder, closing, serving, alone, mishaps>>

Served(c) == IF Rewritten(c) THEN c.klv ELSE IF Accounted(c) THEN c.found ELSE c.row.served

(* What the object holds, recorded onto the row that was read and no other.*)
CheckRecords(x) ==
  /\ check[x].at = "record"
  /\ artifact' = IF artifact = check[x].row THEN [artifact EXCEPT !.served = Served(check[x])] ELSE artifact
  /\ check' = [check EXCEPT ![x] = NoCheck]
  /\ alone' = alone \ {x}
  /\ checked' = IF x \in alone THEN check[x].klv.by ELSE 0
  /\ UNCHANGED <<runs, current, backup, builder, object, closing, serving, mishaps>>

(* A failed build, the object store, the load balancer's timeout.          *)
CutOff(x) ==
  /\ check[x].at # "idle" /\ Mishap
  /\ check' = [check EXCEPT ![x] = NoCheck]
  /\ Disturbed
  /\ UNCHANGED <<rows, builder, object, closing, serving>>

(***************************************************************************)
(* Serving it                                                              *)
(***************************************************************************)
FetchReads ==
  /\ artifact # NoRow
  /\ fetch' = artifact.served
  /\ UNCHANGED <<rows, builder, object, closing, check, kept, history, mishaps>>

(* From memory if kept for that hash; else what the store has, kept if it  *)
(* hashes to it.                                                           *)
FetchAnswers ==
  /\ fetch # Missing
  /\ kept' = IF kept.hash # fetch /\ object = fetch THEN [hash |-> fetch, bytes |-> object] ELSE kept
  /\ fetch' = Missing
  /\ UNCHANGED <<rows, builder, object, closing, check, history, mishaps>>

Next ==
  \/ TransitionBuilds \/ TransitionPuts \/ CloseGeneration
  \/ Purge \/ CopyBack \/ Spoil \/ Upgrade
  \/ \E x \in Check : \/ \E force \in BOOLEAN : CheckReads(x, force)
                      \/ CheckBuilds(x) \/ CheckLooks(x) \/ CheckPuts(x) \/ CheckRecords(x) \/ CutOff(x)
  \/ FetchReads \/ FetchAnswers

Spec == Init /\ [][Next]_vars

(***************************************************************************)
(* Properties                                                              *)
(***************************************************************************)
(* Workers are never sent the hash of another run's KLV, whatever the key  *)
(* holds: not after a purge, a run again and a copy-back of the old rows,  *)
(* nor with checks running across a purge.  And a check left alone ends    *)
(* with the row serving what the object holds, unless nothing accounts for *)
(* it and the totals do not reproduce the first build, which is left to an *)
(* admin.  What is kept in memory is what it is kept for.                  *)
ServedIsSound ==
  /\ artifact # NoRow => artifact.sha.run = current /\ artifact.served.run = current
  /\ checked # 0 /\ artifact # NoRow =>
       \/ artifact.served = object
       \/ /\ object \notin {Missing, artifact.sha, artifact.served, Klv(current, checked)}
          /\ artifact.sha # Klv(current, checked)
  /\ kept.bytes = kept.hash
=============================================================================
