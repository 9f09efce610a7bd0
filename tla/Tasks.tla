-------------------------------- MODULE Tasks --------------------------------
(***************************************************************************)
(* Two kinds of task that run beside the requests and share no state, the  *)
(* builds of derived data and the pushes of live statistics.  Their sum:   *)
(* the first state chooses the one that runs, and the other stays as it    *)
(* began.                                                                  *)
(***************************************************************************)
EXTENDS Integers, FiniteSets

CONSTANTS
  Need, Builder, NoBuilder, Versions, MaxAttempts, PerRun, BuildMishaps,
  Page, MaxRounds, MaxChanges, PushMishaps

(* There is a first version of the builders, a job needs so many files,    *)
(* and one is tried so many times.                                         *)
ASSUME TasksAssumption ==
  Versions \in Nat \ {0} /\ IsFiniteSet(Need) /\ MaxAttempts \in Nat

VARIABLES
  part,
  row, queue, task, damaged, live, version, asking, cache,
  data, gone, owed, cut, kept, push, loop, view, page, due, last,
  mishaps

De == INSTANCE DerivedBuilds WITH None <- NoBuilder, MaxMishaps <- BuildMishaps
Pu == INSTANCE StatsPush     WITH MaxMishaps <- PushMishaps

buildVars == <<row, queue, task, damaged, live, version, asking, cache>>
pushVars  == <<data, gone, owed, cut, kept, push, loop, view, page, due, last>>
vars == <<part, buildVars, pushVars, mishaps>>

Init == part \in {"builds", "pushes"} /\ De!Init /\ Pu!Init

Builds(A) == part = "builds" /\ A /\ UNCHANGED <<part, pushVars>>
Pushes(A) == part = "pushes" /\ A /\ UNCHANGED <<part, buildVars>>

Next == Builds(De!Next) \/ Pushes(Pu!Next)

(* De!Fairness and Pu!Fairness, each of the part that runs.                *)
Fairness ==
  /\ WF_vars(Builds(De!Request))
  /\ \A b \in Builder :
       /\ WF_vars(Builds(De!StartRun(b))) /\ WF_vars(Builds(De!Take(b)))
       /\ WF_vars(Builds(De!Succeed(b) \/ De!Fail(b)))
  /\ \A f \in De!File : WF_vars(Builds(De!Lapse(f)))
  /\ WF_vars(Pushes(Pu!Forgets \/ Pu!PushAfterChange))
  /\ WF_vars(Pushes(Pu!LoopBuilds \/ Pu!LoopKeeps \/ Pu!LoopPublishes \/ Pu!EndPush))
  /\ WF_vars(Pushes(Pu!ReaderBuilt))
  /\ \A p \in Page :
       /\ SF_vars(Pushes(Pu!ReadsKept(p) \/ Pu!ViewBuilds(p)))
       /\ WF_vars(Pushes(Pu!ViewBuilt(p)))

Spec == Init /\ [][Next]_vars /\ Fairness

(* DerivedBuilds: a job handed out has every file its workers build.       *)
HandedOutIsBuilt == part = "builds" => De!HandedOutIsBuilt

(* DerivedBuilds: every file waited for is built or given up.              *)
WaitsEnd == (part = "builds") => De!WaitsEnd

(* StatsPush: what is kept is never from before a change that forgot it.   *)
KeptIsCurrent == part = "pushes" => Pu!KeptIsCurrent

(* StatsPush: every change pushed for is shown by the pages open then.     *)
EveryAskShows == Pu!EveryAskShows
=============================================================================
