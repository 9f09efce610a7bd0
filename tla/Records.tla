------------------------------ MODULE Records -------------------------------
(***************************************************************************)
(* Seven components that share no state: the exports of a job, the ratings *)
(* of a pool, the accounts of a name, the imports of input data, the walk  *)
(* of an archive, the bodies of large results, and the KLVs of a leave     *)
(* generation.  Their sum: the first state chooses the one that runs, and  *)
(* the others stay as they began.                                          *)
(***************************************************************************)
EXTENDS Integers, FiniteSets

CONSTANTS
  Export, ExportTurns, MaxCorpus, ExportMishaps,
  Config, GameJob, Players, MaxPairs, RatingMishaps,
  Account, Link, MaxKeys, MaxChanges,
  Import, InputFile, Path, Kept, Player, ImportMishaps,
  Name, Kind, None, Hops, MaxEntries,
  Request, Owner, Budget, Share, BodyTurns,
  KlvCheck, MaxRuns, MaxBuilder, KlvMishaps

(* What the code takes for granted of its limits and of the sets it is     *)
(* given: there are never endless jobs, requests or names, a config is no  *)
(* job, and the limits are counts.                                         *)
ASSUME RecordsAssumption ==
  /\ MaxKeys \in Nat
  /\ IsFiniteSet(GameJob) /\ Config \cap GameJob = {}
  /\ IsFiniteSet(Request) /\ Budget \in Nat /\ Share \in Nat /\ BodyTurns \in Nat
  /\ IsFiniteSet(Name) /\ None \notin Name /\ Hops \in Nat \ {0}

VARIABLES
  part,
  job, writer, touched, asked, row, stored, build,
  played, era, pool, members, anchor, newest, lock, fit, target,
  user, links, sessions, login, signup, adding, asking, redeem,
  state, rows, task, data, objects, config, jobs, deleting,
  read, walk, given, disk, dirs,
  free, held, turns, req,
  runs, current, builder, artifact, backup, object, closing, check, fetch, kept, alone, checked,
  mishaps

Ex == INSTANCE Exports       WITH Turns <- ExportTurns, MaxMishaps <- ExportMishaps
Ra == INSTANCE RatingSweep   WITH Job <- GameJob, MaxMishaps <- RatingMishaps
Ac == INSTANCE Accounts
Im == INSTANCE Imports       WITH File <- InputFile, stored <- objects, MaxMishaps <- ImportMishaps
Wa == INSTANCE ArchiveWalk
Bo == INSTANCE BodyBudget    WITH Turns <- BodyTurns
Kl == INSTANCE KlvArtifacts  WITH Check <- KlvCheck, MaxMishaps <- KlvMishaps
exportVars  == <<job, writer, touched, asked, row, stored, build>>
ratingVars  == <<played, era, pool, members, anchor, newest, lock, fit, target>>
accountVars == <<user, links, sessions, login, signup, adding, asking, redeem>>
importVars  == <<state, rows, task, data, objects, config, jobs, deleting>>
walkVars    == <<read, walk, given, disk, dirs>>
bodyVars    == <<free, held, turns, req>>
klvVars     == <<runs, current, builder, artifact, backup, object, closing, check, fetch, kept, alone, checked>>
vars == <<part, exportVars, ratingVars, accountVars, importVars, walkVars, bodyVars, klvVars,
          mishaps>>

Init ==
  /\ part \in {"exports", "ratings", "accounts", "imports", "walk", "bodies", "klv"}
  /\ Ex!Init /\ (part # "exports" => job.kind = "games")
  /\ Ra!Init /\ (part # "ratings" => anchor = CHOOSE c \in Config : TRUE)
  /\ Ac!Init /\ Im!Init /\ Wa!Init /\ Bo!Init /\ Kl!Init

Next ==
  \/ /\ part = "exports" /\ Ex!Next
     /\ UNCHANGED <<part, ratingVars, accountVars, importVars, walkVars, bodyVars, klvVars>>
  \/ /\ part = "ratings" /\ Ra!Next
     /\ UNCHANGED <<part, exportVars, accountVars, importVars, walkVars, bodyVars, klvVars>>
  \/ /\ part = "accounts" /\ Ac!Next
     /\ UNCHANGED <<part, exportVars, ratingVars, importVars, walkVars, bodyVars, klvVars, mishaps>>
  \/ /\ part = "imports" /\ Im!Next
     /\ UNCHANGED <<part, exportVars, ratingVars, accountVars, walkVars, bodyVars, klvVars>>
  \/ /\ part = "walk" /\ Wa!Next
     /\ UNCHANGED <<part, exportVars, ratingVars, accountVars, importVars, bodyVars, klvVars, mishaps>>
  \/ /\ part = "bodies" /\ Bo!Next
     /\ UNCHANGED <<part, exportVars, ratingVars, accountVars, importVars, walkVars, klvVars, mishaps>>
  \/ /\ part = "klv" /\ Kl!Next
     /\ UNCHANGED <<part, exportVars, ratingVars, accountVars, importVars, walkVars, bodyVars>>

Spec == Init /\ [][Next]_vars

(* Exports: what says it is the final corpus is all of the job's results.  *)
FinalIsCorpus == part = "exports" => Ex!FinalIsCorpus

(* Exports: a download that is relied on has its objects.                  *)
ReadyHasObjects == part = "exports" => Ex!ReadyHasObjects

(* RatingSweep: a pool left alone was fitted to as much as there is, and   *)
(* to all of it unless some it was fitted to is gone.                      *)
QuietIsCurrent == part = "ratings" => Ra!QuietIsCurrent

(* RatingSweep: ratings are measured against the pool's own anchor.        *)
AnchorHolds == part = "ratings" => Ra!AnchorHolds

(* Accounts: an accepted session knew the password there is now.           *)
SessionKnowsPassword == part = "accounts" => Ac!SessionKnowsPassword

(* Accounts: a deleted account can do nothing, and none has too many keys. *)
DeletedHasNothing == part = "accounts" => Ac!DeletedHasNothing

(* Accounts: a confirmed account is not released to another registration.  *)
ConfirmedStays == Ac!ConfirmedStays

(* Imports: what is pinned is known, and what is built from is stored.     *)
PinnedHasBytes == part = "imports" => Im!PinnedHasBytes

(* Imports: one that ended is not offered again.                           *)
EndedStays == Im!EndedStays

(* ArchiveWalk: a worker unpacks what is pinned, or nothing in its place.  *)
PinnedIsUnpacked == part = "walk" => Wa!PinnedIsUnpacked

(* BodyBudget: the budget, the shares and the turns add up.                *)
BudgetAddsUp == part = "bodies" => Bo!BudgetAddsUp

(* KlvArtifacts: workers are sent the hash of their own run's KLV, and a   *)
(* check left alone ends with the object it names.                         *)
ServedIsSound == part = "klv" => Kl!ServedIsSound
=============================================================================
