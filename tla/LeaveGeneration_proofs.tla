---------------------- MODULE LeaveGeneration_proofs -----------------------
(***************************************************************************)
(* A leave-generation job loses and repeats no result, and closes its      *)
(* generations in order, complete and quiet: proved for any racks, targets,*)
(* slices, tasks and transitions, and any number of lapses, failures,      *)
(* purges and restarts.                                                    *)
(*                                                                         *)
(* TransitionOfComplete does not hold, so a transition may be open for a   *)
(* generation whose racks were never written.  What saves the totals is    *)
(* that nobody writes them while it is (SeedInv): it is refused, and its   *)
(* row goes stale.  A transition that is open with the racks written was   *)
(* started with each of them at its target (OpenInv), by a claim that had  *)
(* found nothing in flight and has had the dispatch lock since (ClaimInv). *)
(* A transition that is running is alone with its generation (RunInv): the *)
(* guard ~Overtaken of the model is what makes this so across purges.      *)
(***************************************************************************)
EXTENDS LeaveGeneration, FiniteSetTheorems, TLAPS

Step == {"step", "boundary", "flightless", "tail", "tailflight", "tailstaged"}
Deciding == Step \ {"step"}

TaskState == [state : {"spare", "available", "claimed", "staged"},
              gen : 0..Generations, forced : SUBSET Rack, found : SUBSET Rack]
RunState  == [at : {"idle", "drain", "merging", "read", "close"},
              gen : 0..Generations, klv : [Rack -> Nat] \cup {NoKlv}]

TypeInv ==
  /\ art \in [Generation -> [Rack -> Nat] \cup {NoKlv}]
  /\ trans \in [Generation -> {"none", "open", "stale", "closed"}]
  /\ seeded \in [Generation -> BOOLEAN]
  /\ count \in [Generation -> [Rack -> Nat]]
  /\ task \in [Task -> TaskState]
  /\ claim \in [at : {"idle", "opened"} \cup Step, gen : 0..Generations]
  /\ merge \in [by : Runner \cup {Sweeper, NoOne}, gen : 0..Generations,
                ids : SUBSET Task, pass : Nat]
  /\ run \in [Runner -> RunState]
  /\ wanted \subseteq 0..Generations

(* Generations close in order, each by its transition.                     *)
ClosedInv ==
  /\ \E n \in 0..Generations : Closed = 1..n
  /\ \A g \in Generation : art[g] # NoKlv <=> trans[g] = "closed"
  /\ \A g \in Generation : trans[g] = "open" => g <= Current

(* A task is of a generation whose racks are written, the current one or   *)
(* one that has closed; a merge has what is still staged.                  *)
TaskInv ==
  /\ \A t \in Task :
       task[t].state # "spare" =>
         task[t].gen \in Generation /\ task[t].gen <= Current /\ seeded[task[t].gen]
  /\ merge.by # NoOne => merge.gen \in Generation /\ merge.ids \subseteq Of(merge.gen, "staged")

(* A claim decides for the generation that is current, and no transition   *)
(* of it is open; it got past its first reads with the racks written,      *)
(* unless a generation closed meanwhile, and then nobody writes them.      *)
ClaimInv ==
  /\ claim.at # "idle" =>
       /\ claim.gen \in Generation /\ claim.gen <= Current
       /\ \A g \in Generation : trans[g] = "open" => g <= claim.gen
       /\ \A g \in wanted : g <= claim.gen
       /\ \E t \in Task : task[t] = Spare
  /\ claim.at \in Step => trans[claim.gen] # "open"
  /\ claim.at = "step" => seeded[claim.gen]
  /\ claim.at \in Deciding => seeded[claim.gen] \/ claim.gen \notin wanted
  /\ claim.at \in {"flightless", "tailstaged"} => Of(claim.gen, "claimed") = {}

(* Racks are written only for a generation a claim has found without.      *)
SeedInv ==
  /\ status = "active" => \A g \in wanted : g <= Current
  /\ \A g \in Generation : trans[g] = "open" /\ ~seeded[g] => g \notin wanted

(* A transition runs alone for its generation.                             *)
RunInv ==
  /\ \A x \in Runner :
       run[x].at # "idle" =>
         /\ run[x].gen \in Generation /\ trans[run[x].gen] \in {"none", "open"}
         /\ \A y \in Runner \ {x} : run[y].at # "idle" => run[y].gen # run[x].gen
         /\ run[x].at = "close" =>
              /\ run[x].klv \in [Rack -> Nat]
              /\ trans[run[x].gen] = "open" => seeded[run[x].gen]
         /\ run[x].at = "merging" <=> merge.by = x
  /\ \A x \in Runner : merge.by = x => run[x].at = "merging"

OpenInv ==
  \A g \in Generation :
    trans[g] = "open" =>
      /\ Of(g, "claimed") = {} /\ Of(g, "staged") = {}
      /\ seeded[g] => \A r \in Rack : count[g][r] >= Target

IInv == TypeInv /\ ClosedInv /\ TaskInv /\ ClaimInv /\ SeedInv /\ RunInv /\ OpenInv

-----------------------------------------------------------------------------
(* The generations that have closed                                        *)

LEMMA CurrentIs ==
  ASSUME NEW n \in 0..Generations, Closed = 1..n
  PROVE  Cardinality(Closed) = n /\ Current = n + 1 /\ (Finished <=> n = Generations)
<1>1. n \in Nat /\ Generations \in Nat /\ n <= Generations
  BY SizesAssumption
<1>2. Cardinality(1..n) = IF 1 > n THEN 0 ELSE n - 1 + 1
  BY <1>1, FS_Interval
<1>3. Cardinality(Closed) = n
  BY <1>1, <1>2
<1> QED
  BY <1>1, <1>3 DEF Current, Finished

LEMMA GenerationOrder ==
  ASSUME TypeInv, ClosedInv
  PROVE  /\ Current \in 1..Generations + 1 /\ Cardinality(Closed) = Current - 1
         /\ Closed = 1..Current - 1
         /\ ~Finished => Current \in Generation
         /\ \A g \in Generation : art[g] = NoKlv <=> g >= Current
<1>1. PICK n \in 0..Generations : Closed = 1..n
  BY DEF ClosedInv
<1>2. Cardinality(Closed) = n /\ Current = n + 1 /\ (Finished <=> n = Generations)
  BY <1>1, CurrentIs
<1>3. n \in Nat /\ n <= Generations
  BY SizesAssumption
<1> QED
  BY <1>1, <1>2, <1>3, SizesAssumption DEF Closed, Generation

LEMMA CurrentStays ==
  ASSUME UNCHANGED art
  PROVE  UNCHANGED <<Current, Closed, Finished>>
BY DEF Current, Closed, Finished

-----------------------------------------------------------------------------
(* What a claim's step does                                                *)

ClaimEnds ==
  /\ claim' = Idle /\ (status' = "active" => status = "active")
  /\ UNCHANGED <<art, trans, seeded, count, task, merge, run, wanted>>

(* It asks for racks, or for the zero KLV, to be written.                  *)
ClaimAsks(g) ==
  /\ claim.at = "opened" /\ trans[claim.gen] # "open" /\ g \in {0, claim.gen}
  /\ claim' = Idle /\ wanted' = wanted \cup {g}
  /\ UNCHANGED <<status, art, trans, seeded, count, task, merge, run>>

ClaimGoes(step, g) ==
  /\ \/ claim.at = "idle" /\ step = "opened" /\ g = Current /\ status = "active" /\ ~Finished
        /\ \E t \in Task : task[t] = Spare
     \/ claim.at = "opened" /\ step = "step" /\ g = claim.gen /\ trans[g] # "open" /\ seeded[g]
     \/ claim.at = "step" /\ step \in {"boundary", "tail"} /\ g = Current /\ ~Finished
     \/ /\ claim.at \in Deciding /\ step \in Deciding /\ g = claim.gen
        /\ step \in {"flightless", "tailstaged"} => Of(g, "claimed") = {}
  /\ claim' = [at |-> step, gen |-> g]
  /\ UNCHANGED <<status, art, trans, seeded, count, task, merge, run, wanted>>

(* It hands out task t, a new one or one that was given back.              *)
ClaimTakes(t, new) ==
  /\ task[t].state \in {"spare", "available"}
  /\ new \in TaskState /\ new.state = "claimed"
  /\ new.gen \in Generation /\ new.gen <= Current /\ seeded[new.gen] /\ trans[new.gen] # "open"
  /\ task' = [task EXCEPT ![t] = new] /\ claim' = Idle
  /\ UNCHANGED <<status, art, trans, seeded, count, merge, run, wanted>>

ClaimOpens(x) ==
  LET g == claim.gen
  IN /\ claim.at \in {"flightless", "tailstaged"}
     /\ Of(g, "staged") = {} /\ BelowTarget(g) = {} /\ Takeable(g) /\ ~Overtaken(g)
     /\ run[x] = Resting
     /\ run' = [run EXCEPT ![x] = [at |-> "drain", gen |-> g, klv |-> NoKlv]]
     /\ trans' = [trans EXCEPT ![g] = "open"] /\ claim' = Idle
     /\ UNCHANGED <<status, art, seeded, count, task, merge, wanted>>

ClaimDoes ==
  \/ ClaimEnds \/ (\E g \in 0..Generations : ClaimAsks(g))
  \/ (\E step \in {"opened"} \cup Step, g \in Generation : ClaimGoes(step, g))
  \/ (\E t \in Task, new \in TaskState : ClaimTakes(t, new))
  \/ \E x \in Runner : ClaimOpens(x)

LEMMA DispatchTakes ==
  ASSUME TypeInv, ClosedInv, NEW g \in Generation, NEW racks \in SUBSET Rack, NEW place,
         \E t \in Task : task[t] = Spare, g <= Current, seeded[g], trans[g] # "open",
         Dispatch(g, racks, place)
  PROVE  ClaimDoes
<1> DEFINE t == CHOOSE t \in Task : task[t] = Spare
           new == [state |-> "claimed", gen |-> g, forced |-> racks, found |-> {}]
<1>1. t \in Task /\ task[t] = Spare
  OBVIOUS
<1>2. new \in TaskState
  BY DEF TaskState, Generation
<1>3. ClaimTakes(t, new)
  BY <1>1, <1>2 DEF Dispatch, ClaimTakes, Spare, EndClaim, jobRest
<1> QED
  BY <1>1, <1>2, <1>3 DEF ClaimDoes

LEMMA BelowIsWritten ==
  ASSUME NEW g \in Generation, BelowTarget(g) # {}
  PROVE  seeded[g]
BY DEF BelowTarget, Rows

LEMMA OpensOrEnds ==
  ASSUME TypeInv, NEW place, claim.at \in {"flightless", "tailstaged"},
         Of(claim.gen, "staged") = {}, BelowTarget(claim.gen) = {},
         ClaimTransition(claim.gen, place)
  PROVE  ClaimDoes
<1> USE DEF ClaimTransition, EndClaim, jobRest
<1>1. CASE Takeable(claim.gen)
  <2>1. PICK x \in Runner : ClaimOpens(x)
    BY <1>1 DEF ClaimOpens
  <2> QED
    BY <2>1 DEF ClaimDoes
<1>2. CASE ~Takeable(claim.gen)
  BY <1>2 DEF ClaimDoes, ClaimEnds
<1> QED
  BY <1>1, <1>2

LEMMA ClaimKinds ==
  ASSUME IInv, ClaimStart \/ Claim
  PROVE  ClaimDoes
<1> USE DEF IInv, TypeInv, jobRest, NoWork, FinishJob, EndClaim, GoTo, Proceed
<1>0. /\ Current \in Nat /\ (~Finished => Current \in Generation)
      /\ claim.gen \in 0..Generations /\ claim.gen \in Nat
  BY GenerationOrder, SizesAssumption
<1>1. CASE ClaimStart
  <2>1. CASE Finished
    BY <1>1, <2>1 DEF ClaimStart, ClaimDoes, ClaimEnds
  <2>2. CASE ~Finished
    <3>1. ClaimGoes("opened", Current)
      BY <1>1, <2>2 DEF ClaimStart, ClaimGoes
    <3> QED
      BY <1>0, <2>2, <3>1 DEF ClaimDoes
  <2> QED
    BY <2>1, <2>2
<1>2. CASE ClaimTransitionRuns \/ ClaimStaged
  BY <1>2 DEF ClaimTransitionRuns, ClaimStaged, ClaimDoes, ClaimEnds
<1>3. ASSUME NEW g \in 0..Generations, ClaimNeeds(g)  PROVE ClaimDoes
  BY <1>3 DEF ClaimNeeds, ClaimAsks, ClaimDoes
<1>4. ASSUME NEW t \in Task, ClaimReissue(t)  PROVE ClaimDoes
  <2> DEFINE new == [task[t] EXCEPT !.state = "claimed"]
  <2>1. new \in TaskState /\ new.state = "claimed" /\ new.gen = task[t].gen
    BY DEF TaskState
  <2>2. task[t].state = "available" /\ task[t].gen = claim.gen /\ Ready
    BY <1>4 DEF ClaimReissue, Of
  <2>3. ClaimTakes(t, new)
    BY <1>4, <2>1, <2>2 DEF ClaimReissue, ClaimTakes, TaskInv, Ready, ClaimInv
  <2> QED
    BY <2>1, <2>3 DEF ClaimDoes
<1>5. CASE ClaimNext
  <2>1. ClaimGoes("step", claim.gen)
    BY <1>5 DEF ClaimNext, ClaimGoes, Ready
  <2> QED
    BY <1>5, <2>1 DEF ClaimNext, Ready, ClaimInv, ClaimDoes, Step
<1>6. CASE ClaimStep
  <2>1. CASE Finished
    BY <1>6, <2>1 DEF ClaimStep, ClaimDoes, ClaimEnds
  <2>2. CASE ~Finished /\ \E place : \E step \in {"boundary", "tail"} : Proceed(step, Current, place)
    <3>1. PICK step \in {"boundary", "tail"} : ClaimGoes(step, Current)
      BY <1>6, <2>2 DEF ClaimStep, ClaimGoes
    <3> QED
      BY <1>0, <2>2, <3>1 DEF ClaimDoes, Step
  <2>3. CASE ~Finished /\ ContinueLap(Current)
    <3> DEFINE S == After(Current, cursor[Current])
    <3>1. CASE S = {}
      <4>1. ~More(S)
        BY <3>1, FS_EmptySet, SizesAssumption DEF More
      <4> QED
        BY <2>2, <2>3, <3>1, <4>1 DEF ContinueLap
    <3>2. CASE S # {}
      <4>1. S \subseteq BelowTarget(Current) /\ BelowTarget(Current) \subseteq Rack
        BY DEF After, BelowTarget, Rows
      <4>2. seeded[Current]
        BY <1>0, <2>3, <3>2, <4>1, BelowIsWritten
      <4>3. trans[Current] # "open"
        <5>1. claim.at = "step"
          BY <1>6 DEF ClaimStep
        <5>2. claim.gen <= Current /\ trans[claim.gen] # "open"
          BY <5>1 DEF ClaimInv, Step
        <5>3. trans[Current] = "open" => Current <= claim.gen
          BY <1>0, <2>3, <5>1 DEF ClaimInv
        <5>4. trans[Current] = "open" => Current = claim.gen
          <6> HIDE DEF IInv, TypeInv
          <6> QED
            BY <1>0, <5>2, <5>3
        <5> QED
          BY <5>2, <5>4
      <4>4. \E place : \E racks \in SUBSET Rack : Dispatch(Current, racks, place)
        <5>1. NextRacks(S) \in SUBSET Rack /\ S \in SUBSET Rack
          BY <4>1 DEF NextRacks
        <5> QED
          BY <2>3, <3>2, <5>1 DEF ContinueLap
      <4>5. \E t \in Task : task[t] = Spare
        BY <1>6 DEF ClaimStep, ClaimInv
      <4> QED
        BY <1>0, <2>3, <4>2, <4>3, <4>4, <4>5, DispatchTakes
    <3> QED
      BY <3>1, <3>2
  <2> QED
    BY <1>6, <2>1, <2>2, <2>3 DEF ClaimStep
<1>7. CASE ClaimInFlight
  <2>1. CASE InFlight(claim.gen) # {}
    BY <1>7, <2>1 DEF ClaimInFlight, ClaimDoes, ClaimEnds
  <2>2. CASE InFlight(claim.gen) = {}
    <3>1. PICK step \in {"flightless", "tailstaged"} : ClaimGoes(step, claim.gen)
      BY <1>7, <2>2 DEF ClaimInFlight, ClaimGoes, InFlight, Deciding, Step
    <3>2. claim.gen \in Generation
      BY <1>7 DEF ClaimInFlight, ClaimInv
    <3> QED
      BY <3>1, <3>2 DEF ClaimDoes, Step
  <2> QED
    BY <2>1, <2>2
<1>8. ASSUME claim.at \in Deciding, NEW racks \in SUBSET Rack, NEW place,
             BelowTarget(claim.gen) # {}, Dispatch(claim.gen, racks, place)
      PROVE  ClaimDoes
  <2>1. /\ claim.gen \in Generation /\ claim.gen <= Current /\ trans[claim.gen] # "open"
        /\ \E t \in Task : task[t] = Spare
    BY <1>8 DEF ClaimInv, Deciding, Step
  <2>2. seeded[claim.gen]
    BY <1>8, <2>1, BelowIsWritten
  <2> QED
    BY <1>8, <2>1, <2>2, DispatchTakes
<1>9. \A g \in Generation : BelowTarget(g) \subseteq Rack
  BY DEF BelowTarget, Rows
<1>10. CASE ClaimBoundary
  <2> DEFINE g == claim.gen
  <2>1. claim.at = "flightless" /\ Of(g, "staged") = {} /\ g \in Generation
    BY <1>10 DEF ClaimBoundary, ClaimInv
  <2>2. CASE Proceed("tail", g, Tail)
    <3>1. ClaimGoes("tail", g)
      BY <2>1, <2>2 DEF ClaimGoes, Deciding, Step
    <3> QED
      BY <2>1, <3>1 DEF ClaimDoes, Step
  <2>3. CASE BelowTarget(g) = {} /\ ClaimTransition(g, NoLap)
    BY <2>1, <2>3, OpensOrEnds
  <2>4. CASE BelowTarget(g) # {} /\ \E place : Dispatch(g, NextRacks(BelowTarget(g)), place)
    BY <1>8, <1>9, <2>1, <2>4 DEF NextRacks, Deciding, Step
  <2> QED
    BY <1>10, <2>2, <2>3, <2>4 DEF ClaimBoundary, Sweep
<1>11. CASE ClaimTail
  <2>1. claim.at = "tail" /\ claim.gen \in Generation
    BY <1>11 DEF ClaimTail, ClaimInv
  <2>2. ASSUME NEW F \in Furthest(claim.gen) \ {{}}, Dispatch(claim.gen, F, Tail)
        PROVE  ClaimDoes
    BY <1>8, <1>9, <2>1, <2>2 DEF Furthest, Deciding, Step
  <2>3. CASE Proceed("tailflight", claim.gen, Tail)
    <3>1. ClaimGoes("tailflight", claim.gen)
      BY <2>1, <2>3 DEF ClaimGoes, Deciding, Step
    <3> QED
      BY <2>1, <3>1 DEF ClaimDoes, Step
  <2> QED
    BY <1>11, <2>2, <2>3 DEF ClaimTail
<1>12. CASE ClaimTailDone
  <2>1. CASE NoWork
    BY <2>1 DEF ClaimDoes, ClaimEnds
  <2>2. CASE BelowTarget(claim.gen) = {} /\ ClaimTransition(claim.gen, Tail)
    BY <1>12, <2>2, OpensOrEnds DEF ClaimTailDone
  <2> QED
    BY <1>12, <2>1, <2>2 DEF ClaimTailDone
<1> QED
  BY <1>1, <1>2, <1>3, <1>4, <1>5, <1>6, <1>7, <1>10, <1>11, <1>12 DEF Claim

-----------------------------------------------------------------------------
(* Each part of the invariant, over the kinds of step                      *)

LEMMA Fields ==
  /\ \A c \in TaskState, f \in SUBSET Rack :
       /\ [c EXCEPT !.state = "staged"] \in TaskState /\ [c EXCEPT !.found = f] \in TaskState
  /\ \A c \in RunState, at \in {"idle", "drain", "merging", "read", "close"}, k \in [Rack -> Nat] :
       /\ [c EXCEPT !.at = at] \in RunState /\ [c EXCEPT !.klv = k] \in RunState
<1>1. \A c \in TaskState, f \in SUBSET Rack :
        [c EXCEPT !.state = "staged"] \in TaskState /\ [c EXCEPT !.found = f] \in TaskState
  BY DEF TaskState
<1>2. \A c \in RunState, at \in {"idle", "drain", "merging", "read", "close"}, k \in [Rack -> Nat] :
        [c EXCEPT !.at = at] \in RunState /\ [c EXCEPT !.klv = k] \in RunState
  BY DEF RunState
<1> QED
  BY <1>1, <1>2

LEMMA RunMoves ==
  ASSUME NEW c \in RunState, NEW at \in {"idle", "drain", "merging", "read", "close"}
  PROVE  [c EXCEPT !.at = at] \in RunState
BY DEF RunState

LEMMA TaskMoves ==
  ASSUME NEW c \in TaskState,
         NEW state \in {"spare", "available", "claimed", "staged"}
  PROVE  [c EXCEPT !.state = state] \in TaskState
BY DEF TaskState

LEMMA Records ==
  /\ Spare \in TaskState /\ Resting \in RunState
  /\ \A g \in Generation : [at |-> "drain", gen |-> g, klv |-> NoKlv] \in RunState
BY SizesAssumption DEF Spare, TaskState, Resting, RunState, Generation

(* The racks' occurrences in the results a merge has read.                 *)
LEMMA OccurrencesType ==
  ASSUME NEW ids \in SUBSET Task, NEW r
  PROVE  Occurrences(r, ids) \in Nat
<1>1. IsFiniteSet({t \in ids : r \in task[t].found})
  BY NamesAssumption, FS_Subset
<1> QED
  BY <1>1, FS_CardinalityType DEF Occurrences

LEMMA TypeStep ==
  ASSUME IInv, [Next]_vars
  PROVE  TypeInv'
<1> USE SizesAssumption
    DEF IInv, TypeInv, Idle, Free, Resting, Spare, rest, taskRest, runRest, Step
<1>1. CASE UNCHANGED vars
  BY <1>1 DEF vars
<1>2. CASE ClaimDoes
  <2>1. CASE ClaimEnds
    BY <2>1 DEF ClaimEnds
  <2>2. ASSUME NEW g \in 0..Generations, ClaimAsks(g)  PROVE TypeInv'
    BY <2>2 DEF ClaimAsks
  <2>3. ASSUME NEW step \in {"opened"} \cup Step, NEW g \in Generation, ClaimGoes(step, g)
        PROVE  TypeInv'
    BY <2>3 DEF ClaimGoes, Generation
  <2>4. ASSUME NEW t \in Task, NEW new \in TaskState, ClaimTakes(t, new)  PROVE TypeInv'
    BY <2>4 DEF ClaimTakes
  <2>5. ASSUME NEW x \in Runner, ClaimOpens(x)  PROVE TypeInv'
    BY <2>5, Records DEF ClaimOpens, ClaimInv
  <2> QED
    BY <1>2, <2>1, <2>2, <2>3, <2>4, <2>5 DEF ClaimDoes
<1>3. ASSUME NEW g \in Generation, Seed(g)  PROVE TypeInv'
  BY <1>3 DEF Seed
<1>4. CASE SeedZero
  BY <1>4 DEF SeedZero
<1>5. ASSUME NEW t \in Task, NEW found \in SUBSET Rack, Submit(t, found)  PROVE TypeInv'
  <2>1. [task[t] EXCEPT !.state = "staged", !.found = found] \in TaskState
    BY Fields
  <2>2. Spare \in TaskState
    BY Records
  <2>3. task' = [task EXCEPT ![t] = IF art[task[t].gen] # NoKlv THEN Spare
                   ELSE [task[t] EXCEPT !.state = "staged", !.found = found]]
    BY <1>5 DEF Submit
  <2> QED
    BY <1>5, <2>1, <2>2, <2>3 DEF Submit
<1>6. ASSUME NEW t \in Task, Lose(t)  PROVE TypeInv'
  <2>1. task' = [task EXCEPT ![t] = [task[t] EXCEPT !.state = "available"]]
        /\ UNCHANGED <<art, trans, seeded, count, claim, merge, run, wanted>>
    BY <1>6 DEF Lose
  <2>2. [task[t] EXCEPT !.state = "available"] \in TaskState
    BY TaskMoves
  <2>3. task' \in [Task -> TaskState]
    BY <2>1, <2>2
  <2> QED
    BY <2>1, <2>3
<1>7. ASSUME NEW g \in Generation, MergeStart(g)  PROVE TypeInv'
  BY <1>7 DEF MergeStart, MergeTake, Of, Generation
<1>8. CASE MergePass
  <2>1. merge' = [merge EXCEPT !.pass = merge.pass + 1]
    BY <1>8 DEF MergePass
  <2>2. merge.pass + 1 \in Nat
    OBVIOUS
  <2>3. merge' \in [by : Runner \cup {Sweeper, NoOne}, gen : 0..Generations,
                   ids : SUBSET Task, pass : Nat]
    BY <2>1, <2>2
  <2> QED
    BY <1>8, <2>3 DEF MergePass
<1>9. CASE MergeCommit
  <2> DEFINE g == merge.gen
             added == [r \in Rack |-> IF seeded[g] /\ Folded(r) THEN Occurrences(r, merge.ids) ELSE 0]
             counts == [r \in Rack |-> count[g][r] + added[r]]
  <2>1. \A r \in Rack : Occurrences(r, merge.ids) \in Nat
    BY OccurrencesType
  <2>2. g \in Generation
    BY <1>9 DEF MergeCommit, MergeLockFree, TaskInv
  <2>7. \A r \in Rack : count[g][r] \in Nat /\ added[r] \in Nat
    BY <2>1, <2>2
  <2>8. counts \in [Rack -> Nat]
    BY <2>7
  <2>3. count' = [count EXCEPT ![g] = counts]
    BY <1>9 DEF MergeCommit
  <2>4. count' \in [Generation -> [Rack -> Nat]]
    BY <2>2, <2>3, <2>8
  <2>5. task' \in [Task -> TaskState]
    BY <1>9, Records DEF MergeCommit
  <2>6. run' \in [Runner -> RunState]
    <3>1. ASSUME NEW x \in Runner  PROVE [run[x] EXCEPT !.at = "read"] \in RunState
      BY RunMoves
    <3>2. run' = [x \in Runner |->
                    IF x = merge.by THEN [run[x] EXCEPT !.at = "read"] ELSE run[x]]
      BY <1>9 DEF MergeCommit
    <3> QED
      BY <3>1, <3>2
  <2> QED
    BY <1>9, <2>4, <2>5, <2>6 DEF MergeCommit
<1>10. ASSUME NEW x \in Runner, RunDrain(x)  PROVE TypeInv'
  <2>1. run' \in [Runner -> RunState]
    <3>1. [run[x] EXCEPT !.at = "merging"] \in RunState
      BY RunMoves
    <3>2. run' = [run EXCEPT ![x] = [run[x] EXCEPT !.at = "merging"]]
      BY <1>10 DEF RunDrain
    <3> QED
      BY <3>1, <3>2
  <2>2. run[x].gen \in 0..Generations
    BY DEF RunState
  <2> QED
    BY <1>10, <2>1, <2>2 DEF RunDrain, MergeTake, Of
<1>11. ASSUME NEW x \in Runner, RunRead(x)  PROVE TypeInv'
  <2>1. count[run[x].gen] \in [Rack -> Nat]
    BY <1>11 DEF RunRead, RunInv
  <2>2. [[run[x] EXCEPT !.at = "close"] EXCEPT !.klv = count[run[x].gen]] \in RunState
    BY <2>1, Fields
  <2>3. run' = [run EXCEPT ![x] = [[run[x] EXCEPT !.at = "close"] EXCEPT !.klv = count[run[x].gen]]]
    BY <1>11 DEF RunRead
  <2>4. run' \in [Runner -> RunState]
    BY <2>2, <2>3
  <2> QED
    BY <1>11, <2>4 DEF RunRead
<1>12. ASSUME NEW x \in Runner, RunClose(x)  PROVE TypeInv'
  <2>1. run' \in [Runner -> RunState]
    BY <1>12, Records DEF RunClose
  <2>2. run[x].klv \in [Rack -> Nat] \cup {NoKlv}
    BY DEF RunState
  <2>3. UNCHANGED <<seeded, count, task, claim, merge, wanted>>
    BY <1>12 DEF RunClose
  <2>4. art' \in [Generation -> [Rack -> Nat] \cup {NoKlv}]
    <3>1. \/ UNCHANGED art
          \/ art' = [art EXCEPT ![run[x].gen] =
                       IF art[run[x].gen] = NoKlv THEN run[x].klv ELSE art[run[x].gen]]
      BY <1>12 DEF RunClose
    <3> QED
      BY <2>2, <3>1
  <2>5. trans' \in [Generation -> {"none", "open", "stale", "closed"}]
    <3>1. trans' = trans \/ trans' = [trans EXCEPT ![run[x].gen] = "closed"]
      BY <1>12 DEF RunClose
    <3> QED
      BY <3>1
  <2> QED
    BY <2>1, <2>3, <2>4, <2>5
<1>13. ASSUME NEW x \in Runner, RunFailed(x)  PROVE TypeInv'
  <2>1. run' \in [Runner -> RunState]
    BY <1>13, Records DEF RunFailed
  <2>2. trans' \in [Generation -> {"none", "open", "stale", "closed"}]
    BY <1>13 DEF RunFailed, Backdated
  <2> QED
    BY <1>13, <2>1, <2>2 DEF RunFailed
<1>14. CASE Activate
  BY <1>14 DEF Activate
<1>17. CASE Deactivate
  BY <1>17 DEF Deactivate
<1>15. CASE Purge
  BY <1>15 DEF Purge, NoCounts, TaskState
<1>16. CASE Restart
  BY <1>16 DEF Restart, RunState
<1> QED
  BY <1>1, <1>2, <1>3, <1>4, <1>5, <1>6, <1>7, <1>8, <1>9, <1>10, <1>11, <1>12, <1>13,
     <1>14, <1>15, <1>16, <1>17, ClaimKinds
  DEF Next, Answer, Transition, RunRefused, RunFail

(* A transition that closes its generation closes the current one, which   *)
(* is complete and has nothing out.                                        *)
LEMMA CloseIs ==
  ASSUME IInv, NEW x \in Runner, RunClose(x), trans[run[x].gen] \in {"open", "stale"}
  PROVE  LET g == run[x].gen
         IN /\ g \in Generation /\ g = Current /\ trans[g] = "open" /\ art[g] = NoKlv
            /\ Of(g, "claimed") = {} /\ Of(g, "staged") = {}
            /\ \A r \in Rack : count[g][r] >= Target
            /\ trans' = [trans EXCEPT ![g] = "closed"]
            /\ art' = [art EXCEPT ![g] = run[x].klv] /\ run[x].klv # NoKlv
            /\ Closed' = 1..Current /\ Current' = Current + 1
<1> DEFINE g == run[x].gen
<1>1. run[x].at = "close"
  BY DEF RunClose
<1>2. /\ g \in Generation /\ trans[g] = "open" /\ run[x].klv \in [Rack -> Nat]
      /\ seeded[g]
  BY <1>1 DEF IInv, RunInv
<1>3. g <= Current /\ art[g] = NoKlv
  BY <1>2 DEF IInv, ClosedInv
<1>4. g = Current
  <2>1. Current \in Int /\ g \in Int
    BY <1>2, GenerationOrder, SizesAssumption DEF IInv, Generation
  <2>2. g >= Current
    BY <1>2, <1>3, GenerationOrder DEF IInv
  <2> QED
    BY <1>3, <2>1, <2>2
<1>5. run[x].klv # NoKlv
  BY <1>2, NamesAssumption
<1>6. art' = [art EXCEPT ![g] = run[x].klv] /\ trans' = [trans EXCEPT ![g] = "closed"]
  BY <1>2, <1>3 DEF RunClose
<1>7. Closed' = Closed \cup {g}
  BY <1>2, <1>5, <1>6 DEF Closed, IInv, TypeInv
<1>8. Current \in 1..Generations + 1 /\ Closed = 1..Current - 1
  BY GenerationOrder DEF IInv
<1>9. Closed' = 1..Current
  BY <1>2, <1>4, <1>7, <1>8, SizesAssumption DEF Generation
<1>10. Cardinality(Closed') = Current
  <2>1. Current \in Nat /\ Current >= 1
    BY <1>8, SizesAssumption
  <2>2. Cardinality(1..Current) = IF 1 > Current THEN 0 ELSE Current - 1 + 1
    BY <2>1, FS_Interval
  <2> QED
    BY <1>9, <2>1, <2>2
<1>11. Current' = Current + 1
  BY <1>10 DEF Current
<1> QED
  BY <1>2, <1>3, <1>4, <1>5, <1>6, <1>9, <1>11 DEF IInv, OpenInv

(* The other steps leave the artifacts alone, or are purges.               *)
LEMMA ArtMoves ==
  ASSUME IInv, [Next]_vars
  PROVE  \/ UNCHANGED art
         \/ Purge
         \/ \E x \in Runner : RunClose(x) /\ trans[run[x].gen] \in {"open", "stale"}
<1>1. ASSUME NEW x \in Runner, RunClose(x), trans[run[x].gen] \notin {"open", "stale"}
      PROVE  UNCHANGED art
  BY <1>1 DEF RunClose
<1>2. ClaimDoes => UNCHANGED art
  BY DEF ClaimDoes, ClaimEnds, ClaimAsks, ClaimGoes, ClaimTakes, ClaimOpens
<1>3. ASSUME ~(\E x \in Runner : RunClose(x)), ~Purge  PROVE UNCHANGED art
  BY <1>2, <1>3, ClaimKinds
  DEF Next, vars, Seed, SeedZero, Answer, Submit, Lose, MergeStart, MergePass, MergeCommit,
      Transition, RunDrain, RunRead, RunRefused, RunFail, RunFailed, Activate, Deactivate, Restart,
      rest, taskRest, runRest
<1> QED
  BY <1>1, <1>3

LEMMA ClosedStep ==
  ASSUME IInv, [Next]_vars, TypeInv'
  PROVE  ClosedInv'
<1> USE DEF IInv
<1>1. Current \in 1..Generations + 1 /\ Closed = 1..Current - 1
  BY GenerationOrder
<1>2. ASSUME UNCHANGED art,
             \A g \in Generation : trans'[g] = "closed" <=> trans[g] = "closed",
             \A g \in Generation : trans'[g] = "open" => trans[g] = "open" \/ g <= Current
      PROVE  ClosedInv'
  <2>1. UNCHANGED <<Closed, Current>>
    BY <1>2, CurrentStays
  <2> QED
    BY <1>2, <2>1 DEF ClosedInv
<1>3. CASE UNCHANGED <<art, trans>>
  BY <1>2, <1>3
<1>4. CASE ClaimDoes
  <2>1. ASSUME NEW x \in Runner, ClaimOpens(x)  PROVE ClosedInv'
    <3>1. claim.gen \in Generation /\ claim.gen <= Current
      BY <2>1 DEF ClaimOpens, ClaimInv
    <3>2. trans' = [trans EXCEPT ![claim.gen] = "open"] /\ UNCHANGED art
          /\ trans[claim.gen] # "closed"
      BY <2>1 DEF ClaimOpens, Takeable
    <3> QED
      BY <1>2, <3>1, <3>2 DEF TypeInv
  <2> QED
    BY <1>3, <1>4, <2>1 DEF ClaimDoes, ClaimEnds, ClaimAsks, ClaimGoes, ClaimTakes
<1>5. ASSUME NEW x \in Runner, RunClose(x)  PROVE ClosedInv'
  <2>1. CASE trans[run[x].gen] \notin {"open", "stale"}
    BY <1>3, <1>5, <2>1 DEF RunClose
  <2>2. CASE trans[run[x].gen] \in {"open", "stale"}
    <3> DEFINE g == run[x].gen
    <3>1. /\ g \in Generation /\ g = Current
          /\ trans' = [trans EXCEPT ![g] = "closed"]
          /\ art' = [art EXCEPT ![g] = run[x].klv] /\ run[x].klv # NoKlv
          /\ Closed' = 1..Current /\ Current' = Current + 1
      BY <1>5, <2>2, CloseIs
    <3>2. Current \in 0..Generations /\ \E n \in 0..Generations : Closed' = 1..n
      BY <1>1, <3>1, SizesAssumption DEF Generation
    <3>3. \A h \in Generation : art'[h] # NoKlv <=> trans'[h] = "closed"
      BY <3>1 DEF ClosedInv, TypeInv
    <3>4. \A h \in Generation : trans'[h] = "open" => h <= Current'
      BY <1>1, <3>1, SizesAssumption DEF ClosedInv, TypeInv, Generation
    <3> QED
      BY <3>2, <3>3, <3>4 DEF ClosedInv
  <2> QED
    BY <2>1, <2>2
<1>6. ASSUME NEW x \in Runner, RunFailed(x)  PROVE ClosedInv'
  <2>1. UNCHANGED art /\ trans' = Backdated(run[x].gen)
    BY <1>6 DEF RunFailed
  <2> QED
    BY <1>2, <2>1 DEF Backdated, TypeInv
<1>7. CASE Purge
  <2>1. Closed' = {}
    BY <1>7 DEF Purge, Closed
  <2>2. 1..0 = {} /\ 0 \in 0..Generations
    BY SizesAssumption
  <2> QED
    BY <1>7, <2>1, <2>2 DEF Purge, ClosedInv
<1>8. CASE Restart
  BY <1>2, <1>8 DEF Restart
<1> QED
  BY <1>3, <1>4, <1>5, <1>6, <1>7, <1>8, ClaimKinds
  DEF Next, vars, Seed, SeedZero, Answer, Submit, Lose, MergeStart, MergePass, MergeCommit,
      Transition, RunDrain, RunRead, RunRefused, RunFail, Activate, Deactivate,
      rest, taskRest, runRest

LEMMA CurrentGrows ==
  ASSUME IInv, [Next]_vars, ~Purge
  PROVE  Current \in Nat /\ Current' \in Nat /\ Current <= Current'
<1>1. Current \in Nat
  BY GenerationOrder, SizesAssumption DEF IInv
<1>2. CASE UNCHANGED art
  BY <1>1, <1>2, CurrentStays
<1>3. ASSUME NEW x \in Runner, RunClose(x), trans[run[x].gen] \in {"open", "stale"}
      PROVE  Current' = Current + 1
  BY <1>3, CloseIs
<1> QED
  BY <1>1, <1>2, <1>3, ArtMoves

(* The tasks of a generation, and what of it a merge has read.             *)
LEMMA TaskStep ==
  ASSUME IInv, [Next]_vars, TypeInv'
  PROVE  TaskInv'
<1> USE DEF IInv
<1>1. CASE Purge
  BY <1>1 DEF Purge, TaskInv, MergeLockFree, Spare
<1>2. ASSUME ~Purge, NEW t \in Task, task[t].state # "spare",
             task'[t].gen = task[t].gen, \A g \in Generation : seeded[g] => seeded'[g]
      PROVE  task'[t].gen \in Generation /\ task'[t].gen <= Current' /\ seeded'[task'[t].gen]
  <2>1. task[t].gen \in Generation /\ task[t].gen <= Current /\ seeded[task[t].gen]
    BY <1>2 DEF TaskInv
  <2>2. task[t].gen \in Nat
    BY <2>1, SizesAssumption DEF Generation
  <2> QED
    BY <1>2, <2>1, <2>2, CurrentGrows
<1>3. ASSUME ~Purge, UNCHANGED <<task, merge>>, \A g \in Generation : seeded[g] => seeded'[g]
      PROVE  TaskInv'
  BY <1>2, <1>3 DEF TaskInv, Of
<1>4. CASE ClaimDoes /\ ~Purge
  <2>1. ASSUME NEW t \in Task, NEW new \in TaskState, ClaimTakes(t, new)  PROVE TaskInv'
    <3>1. /\ task[t].state # "staged" /\ UNCHANGED <<art, merge, seeded>>
          /\ task' = [task EXCEPT ![t] = new]
          /\ new.gen \in Generation /\ new.gen <= Current /\ seeded[new.gen]
      BY <2>1 DEF ClaimTakes
    <3>2. Current' = Current
      BY <3>1, CurrentStays
    <3>3. \A u \in Task \ {t} : task'[u] = task[u]
      BY <3>1
    <3>4. task'[t] = new
      BY <3>1 DEF TypeInv
    <3> QED
      BY <3>1, <3>2, <3>3, <3>4 DEF TaskInv, Of
  <2> QED
    BY <1>3, <1>4, <2>1 DEF ClaimDoes, ClaimEnds, ClaimAsks, ClaimGoes, ClaimOpens
<1>5. ASSUME ~Purge, NEW g \in Generation, Seed(g)  PROVE TaskInv'
  BY <1>3, <1>5 DEF Seed, rest, TypeInv
<1>6. ASSUME ~Purge, NEW t \in Task, task[t].state = "claimed",
             task' = [task EXCEPT ![t] = Spare] \/ task'[t].gen = task[t].gen,
             \A u \in Task \ {t} : task'[u] = task[u], UNCHANGED <<merge, seeded>>
      PROVE  TaskInv'
  <2>1. \A u \in Task : task'[u].state # "spare" =>
          task[u].state # "spare" /\ task'[u].gen = task[u].gen
    <3>1. task'[t].state # "spare" => task'[t].gen = task[t].gen
      <4>1. CASE task' = [task EXCEPT ![t] = Spare]
        <5>1. task'[t] = Spare
          BY <4>1 DEF TypeInv
        <5> QED
          BY <5>1 DEF Spare
      <4>2. CASE task'[t].gen = task[t].gen
        BY <4>2
      <4> QED
        BY <1>6, <4>1, <4>2
    <3>2. task[t].state # "spare"
      BY <1>6
    <3> QED
      BY <1>6, <3>1, <3>2
  <2>2. \A u \in Task : task'[u].state # "spare" =>
          task'[u].gen \in Generation /\ task'[u].gen <= Current' /\ seeded'[task'[u].gen]
    BY <1>2, <1>6, <2>1
  <2>3. \A g \in Generation : \A u \in Of(g, "staged") : u \in Of(g, "staged")'
    BY <1>6 DEF Of
  <2> QED
    BY <1>6, <2>2, <2>3 DEF TaskInv
<1>7. ASSUME ~Purge, NEW t \in Task, NEW found \in SUBSET Rack, Submit(t, found)  PROVE TaskInv'
  <2>1. /\ task[t].state = "claimed" /\ UNCHANGED <<merge, seeded>>
        /\ task' = [task EXCEPT ![t] = IF art[task[t].gen] # NoKlv THEN Spare
                      ELSE [task[t] EXCEPT !.state = "staged", !.found = found]]
    BY <1>7 DEF Submit, taskRest
  <2>2. [task[t] EXCEPT !.state = "staged", !.found = found].gen = task[t].gen
    BY DEF TypeInv, TaskState
  <2> QED
    BY <1>6, <1>7, <2>1, <2>2 DEF TypeInv
<1>8. ASSUME ~Purge, NEW t \in Task, Lose(t)  PROVE TaskInv'
  <2>1. task'[t].gen = task[t].gen
    BY <1>8 DEF Lose, TypeInv, TaskState
  <2> QED
    BY <1>6, <1>8, <2>1 DEF Lose, taskRest, TypeInv
<1>9. ASSUME ~Purge, NEW who, NEW g \in Generation, MergeTake(who, g), UNCHANGED <<task, seeded>>
      PROVE  TaskInv'
  BY <1>2, <1>9 DEF MergeTake, TaskInv, Of
<1>10. CASE MergePass /\ ~Purge
  <2>1. merge' = [merge EXCEPT !.pass = @ + 1] /\ UNCHANGED <<task, seeded>>
    BY <1>10 DEF MergePass
  <2>2. merge'.by = merge.by /\ merge'.gen = merge.gen /\ merge'.ids = merge.ids
    BY <2>1 DEF TypeInv
  <2> QED
    BY <1>2, <1>10, <2>1, <2>2 DEF TaskInv, Of
<1>11. CASE MergeCommit /\ ~Purge
  <2>1. /\ merge' = Free /\ UNCHANGED seeded
        /\ task' = [t \in Task |-> IF t \in Deleted THEN Spare ELSE task[t]]
    BY <1>11 DEF MergeCommit
  <2>2. \A t \in Task : task'[t].state # "spare" => task'[t] = task[t]
    BY <2>1 DEF Spare
  <2> QED
    BY <1>2, <1>11, <2>1, <2>2 DEF TaskInv, Free
<1>12. ASSUME ~Purge, NEW x \in Runner, RunDrain(x)  PROVE TaskInv'
  BY <1>9, <1>12 DEF RunDrain, runRest, RunInv
<1>13. ASSUME ~Purge, UNCHANGED <<task, seeded>>, merge' = Free  PROVE TaskInv'
  BY <1>2, <1>13 DEF TaskInv, Free
<1>14. ASSUME ~Purge, NEW x \in Runner, RunFailed(x)  PROVE TaskInv'
  BY <1>3, <1>13, <1>14 DEF RunFailed, runRest
<1>15. ASSUME ~Purge, NEW x \in Runner, RunRead(x) \/ RunClose(x)  PROVE TaskInv'
  BY <1>3, <1>15 DEF RunRead, RunClose, runRest
<1>16. CASE Restart /\ ~Purge
  BY <1>13, <1>16 DEF Restart
<1> QED
  BY <1>1, <1>3, <1>4, <1>5, <1>7, <1>8, <1>9, <1>10, <1>11, <1>12, <1>14, <1>15, <1>16, ClaimKinds
  DEF Next, vars, SeedZero, Answer, MergeStart, Transition, RunRefused, RunFail, Activate,
      Deactivate, rest

(* What a claim that is under way relies on moves only its way.            *)
LEMMA ClaimStays ==
  ASSUME IInv, [Next]_vars, ~Purge, claim' = claim, claim.at # "idle",
         \A g \in Generation : trans'[g] = "open" => trans[g] = "open",
         \A g \in wanted' : g \in wanted \/ g = 0,
         \A g \in Generation : seeded[g] => seeded'[g],
         \A t \in Task : task[t] = Spare => task'[t] = Spare,
         \A t \in Task : task'[t].state = "claimed" => task'[t] = task[t]
  PROVE  ClaimInv'
<1> USE DEF IInv
<1>1. claim.gen \in Generation /\ claim.gen <= Current /\ claim.gen \in Nat
  BY SizesAssumption DEF ClaimInv, Generation
<1>2. claim'.gen \in Generation /\ claim'.gen <= Current'
  BY <1>1, CurrentGrows
<1>3. (\A g \in Generation : trans'[g] = "open" => g <= claim'.gen) /\ \A g \in wanted' : g <= claim'.gen
  BY <1>1 DEF ClaimInv
<1>4. \E t \in Task : task'[t] = Spare
  BY DEF ClaimInv
<1>5. /\ claim.at \in Step => trans'[claim.gen] # "open"
      /\ claim.at = "step" => seeded'[claim.gen]
  BY <1>1 DEF ClaimInv
<1>6. claim.at \in Deciding => seeded'[claim.gen] \/ claim.gen \notin wanted'
  BY <1>1, SizesAssumption DEF ClaimInv, Generation
<1>7. claim.at \in {"flightless", "tailstaged"} => Of(claim.gen, "claimed")' = {}
  BY DEF ClaimInv, Of
<1> QED
  BY <1>2, <1>3, <1>4, <1>5, <1>6, <1>7 DEF ClaimInv

LEMMA ClaimStepInv ==
  ASSUME IInv, [Next]_vars, TypeInv'
  PROVE  ClaimInv'
<1> USE DEF IInv
<1>1. ASSUME claim'.at = "idle"  PROVE ClaimInv'
  BY <1>1 DEF ClaimInv, Step, Deciding
<1>2. CASE Purge
  BY <1>1, <1>2 DEF Purge
<1>3. CASE Restart
  BY <1>1, <1>3 DEF Restart, Idle
<1>4. CASE claim.at = "idle" /\ claim' = claim
  BY <1>1, <1>4
<1>5. ASSUME NEW step \in {"opened"} \cup Step, NEW g \in Generation, ClaimGoes(step, g)
      PROVE  ClaimInv'
  <2>1. /\ claim'.at = step /\ claim'.gen = g /\ Current' = Current
        /\ UNCHANGED <<status, art, trans, seeded, count, task, merge, run, wanted>>
    BY <1>5, CurrentStays DEF ClaimGoes
  <2>2. Current \in Nat /\ claim.gen \in 0..Generations /\ g \in Nat /\ claim.gen \in Nat
    BY GenerationOrder, SizesAssumption DEF Generation, TypeInv
  <2>3. CASE claim.at = "idle"
    <3>1. /\ step = "opened" /\ g = Current /\ status = "active"
          /\ \E t \in Task : task[t] = Spare
      BY <1>5, <2>3 DEF ClaimGoes, Deciding, Step
    <3> QED
      BY <2>1, <2>2, <3>1 DEF ClaimInv, SeedInv, ClosedInv, Step, Deciding
  <2>4. CASE claim.at = "opened"
    <3>1. step = "step" /\ g = claim.gen /\ trans[g] # "open" /\ seeded[g]
      BY <1>5, <2>4 DEF ClaimGoes, Deciding, Step
    <3> QED
      BY <2>1, <2>4, <3>1 DEF ClaimInv, Step, Deciding
  <2>5. CASE claim.at = "step"
    <3>1. step \in {"boundary", "tail"} /\ g = Current
      BY <1>5, <2>5 DEF ClaimGoes, Deciding, Step
    <3>2. /\ claim.gen \in Generation /\ claim.gen <= Current /\ \E t \in Task : task[t] = Spare
          /\ \A h \in Generation : trans[h] = "open" => h <= claim.gen
          /\ \A h \in wanted : h <= claim.gen
          /\ trans[claim.gen] # "open" /\ seeded[claim.gen]
      BY <2>5 DEF ClaimInv, Step
    <3>3. trans[g] # "open"
      BY <2>2, <3>1, <3>2
    <3>4. seeded[g] \/ g \notin wanted
      BY <2>2, <3>1, <3>2
    <3>5. \A h \in Generation : trans[h] = "open" => h <= g
      BY <2>2, <3>1, <3>2, SizesAssumption DEF Generation
    <3>6. \A h \in wanted : h <= g
      BY <2>2, <3>1, <3>2, SizesAssumption DEF TypeInv
    <3> QED
      BY <2>1, <2>2, <3>1, <3>2, <3>3, <3>4, <3>5, <3>6 DEF ClaimInv, Step, Deciding
  <2>6. CASE claim.at \in Deciding
    <3>1. /\ step \in Deciding /\ g = claim.gen
          /\ step \in {"flightless", "tailstaged"} => Of(g, "claimed") = {}
      BY <1>5, <2>6 DEF ClaimGoes, Deciding, Step
    <3>2. Of(g, "claimed")' = Of(g, "claimed")
      BY <2>1 DEF Of
    <3> QED
      BY <2>1, <2>6, <3>1, <3>2 DEF ClaimInv, Step, Deciding
  <2> QED
    BY <2>3, <2>4, <2>5, <2>6 DEF TypeInv, Deciding
<1>6. CASE ClaimDoes
  BY <1>1, <1>5, <1>6 DEF ClaimDoes, ClaimEnds, ClaimAsks, ClaimTakes, ClaimOpens, Idle
<1>7. ASSUME ~Purge, claim.at # "idle", claim' = claim, UNCHANGED <<seeded, task>>,
             \A g \in Generation : trans'[g] = "open" => trans[g] = "open",
             \A g \in wanted' : g \in wanted \/ g = 0
      PROVE  ClaimInv'
  BY <1>7, ClaimStays
<1>8. ASSUME ~Purge, claim.at # "idle", claim' = claim, UNCHANGED <<trans, seeded, wanted>>,
             \A t \in Task : task[t] = Spare => task'[t] = Spare,
             \A t \in Task : task'[t].state = "claimed" => task'[t] = task[t]
      PROVE  ClaimInv'
  BY <1>8, ClaimStays
<1>9. ASSUME ~Purge, claim.at # "idle", NEW t \in Task, NEW found \in SUBSET Rack, Submit(t, found)
      PROVE  ClaimInv'
  <2>1. /\ task[t].state = "claimed" /\ UNCHANGED <<trans, seeded, wanted, claim>>
        /\ task' = [task EXCEPT ![t] = IF art[task[t].gen] # NoKlv THEN Spare
                      ELSE [task[t] EXCEPT !.state = "staged", !.found = found]]
    BY <1>9 DEF Submit, taskRest
  <2>2. [task[t] EXCEPT !.state = "staged", !.found = found].state = "staged"
    BY DEF TypeInv, TaskState
  <2>3. task'[t].state # "claimed" /\ \A u \in Task \ {t} : task'[u] = task[u]
    BY <2>1, <2>2 DEF TypeInv, Spare
  <2> QED
    BY <1>8, <1>9, <2>1, <2>3 DEF Spare
<1>10. ASSUME ~Purge, claim.at # "idle", NEW t \in Task, Lose(t)
       PROVE  ClaimInv'
  <2>1. /\ task[t].state = "claimed" /\ UNCHANGED <<trans, seeded, wanted, claim>>
        /\ task' = [task EXCEPT ![t].state = "available"]
    BY <1>10 DEF Lose, taskRest
  <2>2. task'[t].state = "available" /\ \A u \in Task \ {t} : task'[u] = task[u]
    BY <2>1 DEF TypeInv, TaskState
  <2> QED
    BY <1>8, <1>10, <2>1, <2>2 DEF Spare
<1>11. CASE ~Purge /\ claim.at # "idle" /\ MergeCommit
  <2>1. /\ UNCHANGED <<trans, seeded, wanted, claim>>
        /\ task' = [t \in Task |-> IF t \in Deleted THEN Spare ELSE task[t]]
    BY <1>11 DEF MergeCommit
  <2> QED
    BY <1>8, <1>11, <2>1 DEF Spare
<1>12. ASSUME ~Purge, claim.at # "idle", NEW x \in Runner, RunClose(x)  PROVE ClaimInv'
  <2>1. UNCHANGED <<seeded, task, claim, wanted>>
        /\ (UNCHANGED trans \/ trans' = [trans EXCEPT ![run[x].gen] = "closed"])
    BY <1>12 DEF RunClose
  <2> QED
    BY <1>7, <1>12, <2>1 DEF TypeInv
<1>13. ASSUME ~Purge, claim.at # "idle", NEW x \in Runner, RunFailed(x)  PROVE ClaimInv'
  <2>1. UNCHANGED <<seeded, task, claim, wanted>> /\ trans' = Backdated(run[x].gen)
    BY <1>13 DEF RunFailed, runRest
  <2> QED
    BY <1>7, <1>13, <2>1 DEF Backdated, TypeInv
<1>14. CASE ~Purge /\ claim.at # "idle" /\ (Activate \/ Deactivate \/ SeedZero)
  BY <1>7, <1>14 DEF Activate, Deactivate, SeedZero, rest
<1>15. ASSUME ~Purge, claim.at # "idle", UNCHANGED <<claim, trans, seeded, task, wanted>>
       PROVE  ClaimInv'
  BY <1>7, <1>15
<1>16. ASSUME NEW g \in Generation, MergeStart(g)  PROVE ClaimInv'
  BY <1>2, <1>4, <1>15, <1>16 DEF MergeStart, rest
<1>17. ASSUME NEW x \in Runner, RunDrain(x) \/ RunRead(x)  PROVE ClaimInv'
  BY <1>2, <1>4, <1>15, <1>17 DEF RunDrain, RunRead, runRest
<1>18. CASE MergePass \/ UNCHANGED vars
  BY <1>2, <1>4, <1>15, <1>18 DEF MergePass, vars, rest
<1>19. ASSUME NEW g \in Generation, Seed(g)  PROVE ClaimInv'
  BY <1>1, <1>19 DEF Seed, rest
<1>20. CASE claim.at = "idle"
  <2>1. ASSUME ~(ClaimStart \/ Claim), ~Restart  PROVE claim' = claim
    BY <2>1
    DEF Next, vars, Seed, SeedZero, Answer, Submit, Lose, MergeStart, MergePass, MergeCommit,
        Transition, RunDrain, RunRead, RunClose, RunRefused, RunFail, RunFailed, Activate,
        Deactivate, Purge, rest, taskRest, runRest
  <2> QED
    BY <1>3, <1>4, <1>6, <1>20, <2>1, ClaimKinds
<1> QED
  BY <1>2, <1>3, <1>6, <1>9, <1>10, <1>11, <1>12, <1>13, <1>14, <1>16, <1>17, <1>18, <1>19, <1>20,
     ClaimKinds
  DEF Next, Answer, Transition, RunRefused, RunFail

LEMMA SeedStep ==
  ASSUME IInv, [Next]_vars, TypeInv'
  PROVE  SeedInv'
<1> USE DEF IInv
<1>0. Current \in Nat /\ Generation \subseteq Nat /\ 0 \notin Generation /\ wanted \subseteq Nat
  BY GenerationOrder, SizesAssumption DEF Generation, TypeInv
<1>1. ASSUME ~Purge, status' = "active" => status = "active",
             \A g \in wanted' : g \in wanted \/ g = 0,
             \A g \in Generation : trans'[g] = "open" => trans[g] = "open",
             \A g \in Generation : seeded[g] => seeded'[g]
      PROVE  SeedInv'
  <2>1. Current' \in Nat /\ Current <= Current'
    BY <1>1, CurrentGrows
  <2>3. ASSUME NEW g \in wanted', status' = "active"  PROVE g <= Current'
    <3>1. (g \in wanted \/ g = 0) /\ status = "active"
      BY <1>1, <2>3
    <3>2. g \in wanted => g <= Current
      BY <3>1 DEF SeedInv
    <3> HIDE DEF IInv
    <3>3. g \in Nat
      <4>1. 0 \in Nat /\ wanted \subseteq Nat
        BY <1>0
      <4> QED
        BY <3>1, <4>1
    <3>5. 0 <= Current
      BY <1>0
    <3>4. g <= Current
      BY <3>1, <3>2, <3>5
    <3> QED
      BY <1>0, <2>1, <3>3, <3>4
  <2>4. \A g \in Generation : trans'[g] = "open" /\ ~seeded'[g] => g \notin wanted'
    BY <1>0, <1>1 DEF SeedInv
  <2> QED
    BY <2>3, <2>4 DEF SeedInv
<1>2. CASE Purge
  BY <1>2 DEF Purge, SeedInv
<1>3. CASE Restart
  BY <1>3 DEF Restart, SeedInv
<1>4. CASE Activate
  <2>1. UNCHANGED <<art, trans, seeded>> /\ wanted' \subseteq wanted \cup {0}
        /\ (\A g \in wanted' : g = 0)
    BY <1>4 DEF Activate
  <2>2. Current' = Current
    BY <2>1, CurrentStays
  <2> QED
    BY <1>0, <2>1, <2>2 DEF SeedInv
<1>5. ASSUME NEW g \in 0..Generations, ClaimAsks(g)  PROVE SeedInv'
  <2>1. /\ g \in {0, claim.gen} /\ trans[claim.gen] # "open" /\ wanted' = wanted \cup {g}
        /\ UNCHANGED <<status, art, trans, seeded>>
        /\ claim.gen \in Generation /\ claim.gen <= Current
    BY <1>5 DEF ClaimAsks, ClaimInv
  <2>2. Current' = Current
    BY <2>1, CurrentStays
  <2> QED
    BY <1>0, <2>1, <2>2 DEF SeedInv
<1>6. ASSUME NEW x \in Runner, ClaimOpens(x)  PROVE SeedInv'
  <2>1. /\ claim.gen \in Generation /\ (seeded[claim.gen] \/ claim.gen \notin wanted)
        /\ trans' = [trans EXCEPT ![claim.gen] = "open"]
        /\ UNCHANGED <<status, art, seeded, wanted>>
    BY <1>6 DEF ClaimOpens, ClaimInv, Deciding, Step
  <2>2. Current' = Current
    BY <2>1, CurrentStays
  <2> QED
    BY <2>1, <2>2 DEF SeedInv, TypeInv
<1>7. CASE ClaimDoes /\ ~Purge
  BY <1>1, <1>5, <1>6, <1>7 DEF ClaimDoes, ClaimEnds, ClaimGoes, ClaimTakes
<1>8. ASSUME ~Purge, NEW g \in Generation, Seed(g)  PROVE SeedInv'
  BY <1>1, <1>8 DEF Seed, rest, TypeInv
<1>9. ASSUME ~Purge, NEW x \in Runner, RunClose(x)  PROVE SeedInv'
  <2>1. /\ UNCHANGED <<seeded, wanted>> /\ (status' = "active" => status = "active")
        /\ (UNCHANGED trans \/ trans' = [trans EXCEPT ![run[x].gen] = "closed"])
    BY <1>9 DEF RunClose
  <2> QED
    BY <1>1, <1>9, <2>1 DEF TypeInv
<1>10. ASSUME ~Purge, NEW x \in Runner, RunFailed(x)  PROVE SeedInv'
  <2>1. UNCHANGED <<seeded, status, wanted>> /\ trans' = Backdated(run[x].gen)
    BY <1>10 DEF RunFailed, runRest
  <2> QED
    BY <1>1, <1>10, <2>1 DEF Backdated, TypeInv
<1>11. ASSUME ~Purge, Deactivate \/ SeedZero \/ UNCHANGED <<status, trans, seeded, wanted>>
       PROVE  SeedInv'
  BY <1>1, <1>11 DEF Deactivate, SeedZero, rest
<1>12. ASSUME ~Purge, MergePass \/ MergeCommit \/ UNCHANGED vars  PROVE SeedInv'
  BY <1>11, <1>12 DEF MergePass, MergeCommit, rest, vars
<1>13. ASSUME ~Purge, NEW t \in Task,
              Answer(t) \/ Lose(t)
       PROVE  SeedInv'
  BY <1>11, <1>13 DEF Answer, Submit, Lose, taskRest
<1>14. ASSUME ~Purge, NEW g \in Generation, MergeStart(g)  PROVE SeedInv'
  BY <1>11, <1>14 DEF MergeStart, rest
<1>15. ASSUME ~Purge, NEW x \in Runner, RunDrain(x) \/ RunRead(x)  PROVE SeedInv'
  BY <1>11, <1>15 DEF RunDrain, RunRead, runRest
<1> QED
  BY <1>2, <1>3, <1>4, <1>7, <1>8, <1>9, <1>10, <1>11, <1>12, <1>13, <1>14, <1>15, ClaimKinds
  DEF Next, Transition, RunRefused, RunFail

(* What a transition that is running relies on.                            *)
LEMMA RunStays ==
  ASSUME RunInv,
         \A x \in Runner : run'[x].at # "idle" =>
           /\ run[x].at # "idle" /\ run'[x].gen = run[x].gen
           /\ trans'[run[x].gen] \in {"none", "open"}
           /\ run'[x].at = "close" =>
                /\ run'[x].klv \in [Rack -> Nat]
                /\ trans'[run[x].gen] = "open" => seeded'[run[x].gen],
         \A x \in Runner : run'[x].at = "merging" <=> merge'.by = x
  PROVE  RunInv'
BY DEF RunInv

LEMMA RunStep ==
  ASSUME IInv, [Next]_vars, TypeInv'
  PROVE  RunInv'
<1> USE DEF IInv
<1>1. ASSUME UNCHANGED run, merge'.by = merge.by,
             \A g \in Generation : trans[g] \in {"none", "open"} => trans'[g] \in {"none", "open"},
             \A g \in Generation : trans'[g] = "open" => trans[g] = "open",
             \A g \in Generation : seeded[g] => seeded'[g] \/ trans'[g] = "none"
      PROVE  RunInv'
  <2>1. \A x \in Runner : run'[x].at # "idle" =>
          /\ run[x].at # "idle" /\ run'[x].gen = run[x].gen
          /\ trans'[run[x].gen] \in {"none", "open"}
          /\ run'[x].at = "close" =>
               /\ run'[x].klv \in [Rack -> Nat]
               /\ trans'[run[x].gen] = "open" => seeded'[run[x].gen]
    BY <1>1 DEF RunInv
  <2>2. \A x \in Runner : run'[x].at = "merging" <=> merge'.by = x
    BY <1>1 DEF RunInv
  <2> QED
    BY <2>1, <2>2, RunStays
<1>2. ASSUME UNCHANGED <<run, trans, seeded>>, merge'.by = merge.by  PROVE RunInv'
  BY <1>1, <1>2
<1>3. CASE Purge
  <2>1. /\ UNCHANGED <<run, merge>> /\ \A g \in Generation : trans'[g] = "none"
    BY <1>3 DEF Purge
  <2> QED
    BY <1>1, <2>1
<1>4. CASE Restart
  <2>1. merge' = Free /\ \A x \in Runner : run'[x] = Resting
    BY <1>4 DEF Restart
  <2> QED
    BY <2>1, NamesAssumption DEF RunInv, Resting, Free
<1>5. ASSUME NEW x \in Runner, ClaimOpens(x)  PROVE RunInv'
  <2> DEFINE g == claim.gen
  <2>1. /\ g \in Generation /\ Takeable(g) /\ ~Overtaken(g) /\ run[x] = Resting
        /\ run' = [run EXCEPT ![x] = [at |-> "drain", gen |-> g, klv |-> NoKlv]]
        /\ trans' = [trans EXCEPT ![g] = "open"] /\ UNCHANGED <<merge, seeded>>
    BY <1>5 DEF ClaimOpens, ClaimInv
  <2>2. \A y \in Runner : run[y].at # "idle" => run[y].gen # g
    BY <2>1 DEF Takeable, Overtaken, RunInv
  <2>3. /\ run'[x].at = "drain" /\ run'[x].gen = g
        /\ \A y \in Runner \ {x} : run'[y] = run[y]
    BY <2>1 DEF TypeInv
  <2>4. run[x].at = "idle" /\ merge.by # x
    BY <2>1 DEF Resting, RunInv
  <2>5. trans'[g] = "open" /\ \A h \in Generation \ {g} : trans'[h] = trans[h]
    BY <2>1 DEF TypeInv
  <2> QED
    BY <2>1, <2>2, <2>3, <2>4, <2>5 DEF RunInv
<1>6. CASE ClaimDoes
  BY <1>2, <1>5, <1>6 DEF ClaimDoes, ClaimEnds, ClaimAsks, ClaimGoes, ClaimTakes
<1>7. ASSUME NEW g \in Generation, Seed(g)  PROVE RunInv'
  <2>1. UNCHANGED <<run, trans, merge>> /\ seeded' = [seeded EXCEPT ![g] = TRUE]
    BY <1>7 DEF Seed, rest
  <2> QED
    BY <1>1, <2>1 DEF TypeInv
<1>8. CASE MergePass
  <2>1. merge'.by = merge.by
    BY <1>8 DEF MergePass, TypeInv
  <2> QED
    BY <1>2, <1>8, <2>1 DEF MergePass, rest
<1>9. ASSUME NEW g \in Generation, MergeStart(g)  PROVE RunInv'
  <2>1. merge.by = NoOne /\ merge'.by = Sweeper /\ UNCHANGED <<run, trans, seeded>>
    BY <1>9 DEF MergeStart, MergeTake, MergeLockFree, rest
  <2> QED
    BY <2>1, NamesAssumption DEF RunInv
<1>10. CASE MergeCommit
  <2>1. /\ UNCHANGED <<trans, seeded>> /\ merge'.by = NoOne
        /\ run' = [x \in Runner |->
                     IF x = merge.by THEN [run[x] EXCEPT !.at = "read"] ELSE run[x]]
    BY <1>10 DEF MergeCommit, Free
  <2>2. \A x \in Runner : [run[x] EXCEPT !.at = "read"].at = "read"
                          /\ [run[x] EXCEPT !.at = "read"].gen = run[x].gen
    BY DEF TypeInv, RunState
  <2>3. \A x \in Runner : \/ x # merge.by /\ run'[x] = run[x]
                          \/ x = merge.by /\ run'[x].at = "read" /\ run'[x].gen = run[x].gen
    BY <2>1, <2>2
  <2>4. \A x \in Runner : run'[x].at # "idle" =>
          run[x].at # "idle" /\ run'[x].gen = run[x].gen /\ (run'[x].at = "close" => run'[x] = run[x])
    BY <2>3 DEF RunInv
  <2>5. \A x \in Runner : run'[x].at = "merging" <=> merge'.by = x
    BY <2>1, <2>3, NamesAssumption DEF RunInv
  <2>6. \A x \in Runner : run'[x].at # "idle" =>
           /\ run[x].at # "idle" /\ run'[x].gen = run[x].gen
           /\ trans'[run[x].gen] \in {"none", "open"}
           /\ run'[x].at = "close" =>
                /\ run'[x].klv \in [Rack -> Nat]
                /\ trans'[run[x].gen] = "open" => seeded'[run[x].gen]
    BY <2>1, <2>4 DEF RunInv
  <2> QED
    BY <2>5, <2>6, RunStays
<1>11. ASSUME NEW x \in Runner, RunDrain(x)  PROVE RunInv'
  <2>1. /\ run[x].at = "drain" /\ merge.by = NoOne /\ merge'.by = x
        /\ run' = [run EXCEPT ![x] = [run[x] EXCEPT !.at = "merging"]]
        /\ UNCHANGED <<trans, seeded>>
    BY <1>11 DEF RunDrain, MergeTake, MergeLockFree, runRest
  <2>2. [run[x] EXCEPT !.at = "merging"].at = "merging"
        /\ [run[x] EXCEPT !.at = "merging"].gen = run[x].gen
    BY DEF TypeInv, RunState
  <2>3. /\ run'[x].at = "merging" /\ run'[x].gen = run[x].gen
        /\ \A y \in Runner \ {x} : run'[y] = run[y]
    BY <2>1, <2>2 DEF TypeInv
  <2>4. \A y \in Runner : run'[y].at = "merging" <=> merge'.by = y
    BY <2>1, <2>3, NamesAssumption DEF RunInv
  <2> QED
    BY <2>1, <2>3, <2>4 DEF RunInv
<1>12. ASSUME NEW x \in Runner, RunRead(x)  PROVE RunInv'
  <2> DEFINE g == run[x].gen
  <2>1. /\ run[x].at = "read" /\ Rows(g) = Rack
        /\ run' = [run EXCEPT ![x] = [[run[x] EXCEPT !.at = "close"] EXCEPT !.klv = count[g]]]
        /\ UNCHANGED <<trans, seeded, merge>>
    BY <1>12 DEF RunRead, runRest
  <2>2. /\ [[run[x] EXCEPT !.at = "close"] EXCEPT !.klv = count[g]].at = "close"
        /\ [[run[x] EXCEPT !.at = "close"] EXCEPT !.klv = count[g]].klv = count[g]
        /\ [[run[x] EXCEPT !.at = "close"] EXCEPT !.klv = count[g]].gen = g
    BY DEF TypeInv, RunState
  <2>3. /\ run'[x].at = "close" /\ run'[x].gen = g /\ run'[x].klv = count[g]
        /\ \A y \in Runner \ {x} : run'[y] = run[y]
    BY <2>1, <2>2 DEF TypeInv
  <2>4. g \in Generation
    BY <2>1 DEF RunInv
  <2>5. seeded[g] /\ count[g] \in [Rack -> Nat]
    <3>1. 1 \in Rack
      BY SizesAssumption DEF Rack
    <3> QED
      BY <2>1, <2>4, <3>1 DEF Rows, TypeInv
  <2> QED
    BY <2>1, <2>3, <2>4, <2>5 DEF RunInv
<1>13. ASSUME NEW x \in Runner, run[x].at # "idle", run' = [run EXCEPT ![x] = Resting],
              \A g \in Generation \ {run[x].gen} : trans'[g] = trans[g],
              UNCHANGED seeded,
              merge'.by # x /\ \A y \in Runner \ {x} : merge'.by = y <=> merge.by = y
       PROVE  RunInv'
  <2>1. run'[x].at = "idle" /\ \A y \in Runner \ {x} : run'[y] = run[y]
    BY <1>13 DEF TypeInv, Resting
  <2>2. \A y \in Runner \ {x} : run[y].at # "idle" =>
          run[y].gen \in Generation /\ run[y].gen # run[x].gen
    BY <1>13 DEF RunInv
  <2>3. \A y \in Runner \ {x} : run[y].at # "idle" => trans'[run[y].gen] = trans[run[y].gen]
    BY <1>13, <2>2
  <2> QED
    BY <1>13, <2>1, <2>2, <2>3 DEF RunInv
<1>14. ASSUME NEW x \in Runner, RunClose(x)  PROVE RunInv'
  <2>1. /\ run[x].at = "close" /\ run' = [run EXCEPT ![x] = Resting] /\ merge.by = NoOne
        /\ UNCHANGED <<merge, seeded>>
        /\ (UNCHANGED trans \/ trans' = [trans EXCEPT ![run[x].gen] = "closed"])
    BY <1>14 DEF RunClose, MergeLockFree
  <2>2. \A g \in Generation \ {run[x].gen} : trans'[g] = trans[g]
    BY <2>1 DEF TypeInv
  <2> QED
    BY <1>13, <2>1, <2>2, NamesAssumption
<1>15. ASSUME NEW x \in Runner, run[x].at # "idle", RunFailed(x)  PROVE RunInv'
  <2>1. /\ run' = [run EXCEPT ![x] = Resting] /\ UNCHANGED seeded
        /\ merge' = (IF merge.by = x THEN Free ELSE merge)
        /\ trans' = Backdated(run[x].gen)
    BY <1>15 DEF RunFailed, runRest
  <2>2. \A g \in Generation \ {run[x].gen} : trans'[g] = trans[g]
    BY <2>1 DEF Backdated, TypeInv
  <2>3. merge'.by # x /\ \A y \in Runner \ {x} : merge'.by = y <=> merge.by = y
    BY <2>1, NamesAssumption DEF Free
  <2> QED
    BY <1>13, <1>15, <2>1, <2>2, <2>3
<1>16. CASE SeedZero \/ Activate \/ Deactivate \/ UNCHANGED vars
  BY <1>2, <1>16 DEF SeedZero, Activate, Deactivate, rest, vars
<1>17. ASSUME NEW t \in Task, Answer(t) \/ Lose(t)  PROVE RunInv'
  BY <1>2, <1>17 DEF Answer, Submit, Lose, taskRest
<1> QED
  BY <1>3, <1>4, <1>6, <1>7, <1>8, <1>9, <1>10, <1>11, <1>12, <1>14, <1>15, <1>16, <1>17, ClaimKinds
  DEF Next, Transition, RunRefused, RunFail

(* What a transition closes stays as the claim that started it found it.   *)
LEMMA OpenStays ==
  ASSUME IInv, TypeInv',
         \A g \in Generation : trans'[g] = "open" => trans[g] = "open" /\ (seeded'[g] => seeded[g]),
         \A t \in Task : task'[t].state \in {"claimed", "staged"} /\ trans[task'[t].gen] = "open" =>
            task[t].state \in {"claimed", "staged"} /\ task'[t].gen = task[t].gen,
         \A g \in Generation, r \in Rack : count'[g][r] >= count[g][r]
  PROVE  OpenInv'
<1> SUFFICES ASSUME NEW g \in Generation, trans'[g] = "open"
             PROVE  /\ Of(g, "claimed")' = {} /\ Of(g, "staged")' = {}
                    /\ seeded'[g] => \A r \in Rack : count'[g][r] >= Target
  BY DEF OpenInv
<1>1. /\ trans[g] = "open" /\ Of(g, "claimed") = {} /\ Of(g, "staged") = {}
      /\ seeded[g] => \A r \in Rack : count[g][r] >= Target
  BY DEF IInv, OpenInv
<1>2. Of(g, "claimed")' = {} /\ Of(g, "staged")' = {}
  BY <1>1 DEF Of
<1>3. ASSUME NEW r \in Rack, seeded'[g]  PROVE count'[g][r] >= Target
  <2>1. count[g][r] >= Target /\ count'[g][r] >= count[g][r]
    BY <1>1, <1>3
  <2>2. count[g][r] \in Nat /\ count'[g][r] \in Nat /\ Target \in Nat
    BY SizesAssumption DEF IInv, TypeInv
  <2> QED
    BY <2>1, <2>2
<1> QED
  BY <1>2, <1>3

(* A merge only adds.                                                      *)
LEMMA MergeAdds ==
  ASSUME IInv, MergeCommit
  PROVE  /\ merge.gen \in Generation /\ merge.ids \subseteq Of(merge.gen, "staged")
         /\ \A g \in Generation \ {merge.gen} : count'[g] = count[g]
         /\ \A r \in Rack : count'[merge.gen][r] =
              count[merge.gen][r]
                + IF seeded[merge.gen] /\ Folded(r) THEN Occurrences(r, merge.ids) ELSE 0
<1> DEFINE g == merge.gen
           added == [r \in Rack |->
                       IF seeded[g] /\ Folded(r) THEN Occurrences(r, merge.ids) ELSE 0]
           counts == [r \in Rack |-> count[g][r] + added[r]]
<1>1. g \in Generation /\ merge.ids \subseteq Of(g, "staged")
  BY DEF IInv, TaskInv, MergeCommit, MergeLockFree
<1>2. count' = [count EXCEPT ![g] = counts]
  BY DEF MergeCommit
<1>3. count'[g] = counts /\ \A h \in Generation \ {g} : count'[h] = count[h]
  BY <1>1, <1>2 DEF IInv, TypeInv
<1> QED
  BY <1>1, <1>3

LEMMA OpenStep ==
  ASSUME IInv, [Next]_vars, TypeInv'
  PROVE  OpenInv'
<1> USE DEF IInv
<1>0. \A g \in Generation, r \in Rack : count[g][r] \in Nat /\ count[g][r] >= count[g][r]
  BY DEF TypeInv
<1>1. ASSUME UNCHANGED <<task, count>>,
             \A g \in Generation : trans'[g] = "open" => trans[g] = "open" /\ (seeded'[g] => seeded[g])
      PROVE  OpenInv'
  BY <1>0, <1>1, OpenStays
<1>2. CASE Purge \/ Restart
  <2>1. \A g \in Generation : trans'[g] # "open"
    BY <1>2 DEF Purge, Restart
  <2> QED
    BY <2>1 DEF OpenInv
<1>3. ASSUME UNCHANGED <<trans, seeded>>, NEW t \in Task,
             \A u \in Task \ {t} : task'[u] = task[u],
             task'[t].state \in {"claimed", "staged"} => trans[task'[t].gen] # "open",
             \A g \in Generation, r \in Rack : count'[g][r] = count[g][r]
      PROVE  OpenInv'
  BY <1>0, <1>3, OpenStays
<1>4. ASSUME NEW t \in Task, NEW new \in TaskState, ClaimTakes(t, new)  PROVE OpenInv'
  <2>1. task' = [task EXCEPT ![t] = new] /\ trans[new.gen] # "open" /\ UNCHANGED <<trans, seeded, count>>
    BY <1>4 DEF ClaimTakes
  <2>2. task'[t] = new /\ \A u \in Task \ {t} : task'[u] = task[u]
    BY <2>1 DEF TypeInv
  <2> QED
    BY <1>3, <2>1, <2>2
<1>5. ASSUME NEW x \in Runner, ClaimOpens(x)  PROVE OpenInv'
  <2> DEFINE g == claim.gen
  <2>1. /\ g \in Generation /\ Of(g, "staged") = {} /\ BelowTarget(g) = {}
        /\ Of(g, "claimed") = {} /\ trans' = [trans EXCEPT ![g] = "open"]
        /\ UNCHANGED <<seeded, count, task>>
    BY <1>5 DEF ClaimOpens, ClaimInv
  <2>2. seeded[g] => \A r \in Rack : count[g][r] >= Target
    <3>1. \A r \in Rack : count[g][r] \in Nat /\ Target \in Nat
      BY <2>1, SizesAssumption DEF TypeInv
    <3> QED
      BY <2>1, <3>1 DEF BelowTarget, Rows
  <2>3. \A h \in Generation \ {g} : trans'[h] = trans[h]
    BY <2>1 DEF TypeInv
  <2>4. \A h \in Generation, state \in {"claimed", "staged"} : Of(h, state)' = Of(h, state)
    BY <2>1 DEF Of
  <2> QED
    BY <2>1, <2>2, <2>3, <2>4 DEF OpenInv
<1>6. CASE ClaimDoes
  BY <1>1, <1>4, <1>5, <1>6 DEF ClaimDoes, ClaimEnds, ClaimAsks, ClaimGoes
<1>7. ASSUME NEW g \in Generation, Seed(g)  PROVE OpenInv'
  <2>1. g \in wanted /\ seeded' = [seeded EXCEPT ![g] = TRUE] /\ UNCHANGED <<trans, task, count>>
    BY <1>7 DEF Seed, rest
  <2>2. \A h \in Generation : trans[h] = "open" => (seeded'[h] => seeded[h])
    BY <2>1 DEF SeedInv, TypeInv
  <2> QED
    BY <1>1, <2>1, <2>2
<1>8. ASSUME NEW t \in Task, NEW found \in SUBSET Rack, Submit(t, found)  PROVE OpenInv'
  <2>1. /\ task[t].state = "claimed" /\ UNCHANGED <<trans, seeded, count>>
        /\ task' = [task EXCEPT ![t] = IF art[task[t].gen] # NoKlv THEN Spare
                      ELSE [task[t] EXCEPT !.state = "staged", !.found = found]]
    BY <1>8 DEF Submit, taskRest
  <2>2. [task[t] EXCEPT !.state = "staged", !.found = found].gen = task[t].gen
    BY DEF TypeInv, TaskState
  <2>3. \A u \in Task \ {t} : task'[u] = task[u]
    BY <2>1
  <2>4. task[t].gen \in Generation /\ t \in Of(task[t].gen, "claimed")
    BY <2>1 DEF TaskInv, Of
  <2>5. trans[task[t].gen] # "open"
    BY <2>4 DEF OpenInv
  <2>6. task'[t] = Spare \/ task'[t].gen = task[t].gen
    BY <2>1, <2>2 DEF TypeInv
  <2> QED
    BY <1>3, <2>1, <2>3, <2>5, <2>6 DEF Spare
<1>9. ASSUME NEW t \in Task, Lose(t)  PROVE OpenInv'
  <2>1. /\ UNCHANGED <<trans, seeded, count>> /\ task' = [task EXCEPT ![t].state = "available"]
    BY <1>9 DEF Lose, taskRest
  <2>2. task'[t].state = "available" /\ \A u \in Task \ {t} : task'[u] = task[u]
    BY <2>1 DEF TypeInv, TaskState
  <2> QED
    BY <1>3, <2>1, <2>2
<1>10. CASE MergeCommit
  <2>1. /\ UNCHANGED <<trans, seeded>>
        /\ task' = [t \in Task |-> IF t \in Deleted THEN Spare ELSE task[t]]
    BY <1>10 DEF MergeCommit
  <2>2. \A t \in Task : task'[t].state \in {"claimed", "staged"} => task'[t] = task[t]
    BY <2>1 DEF Spare
  <2>3. \A r \in Rack : Occurrences(r, merge.ids) \in Nat
    BY OccurrencesType DEF TypeInv
  <2>4. \A g \in Generation, r \in Rack : count'[g][r] >= count[g][r]
    BY <1>0, <1>10, <2>3, MergeAdds
  <2> QED
    BY <2>1, <2>2, <2>4, OpenStays
<1>11. ASSUME NEW x \in Runner, RunClose(x)  PROVE OpenInv'
  <2>1. UNCHANGED <<seeded, task, count>>
        /\ (UNCHANGED trans \/ trans' = [trans EXCEPT ![run[x].gen] = "closed"])
    BY <1>11 DEF RunClose
  <2> QED
    BY <1>1, <2>1 DEF TypeInv
<1>12. ASSUME NEW x \in Runner, RunFailed(x)  PROVE OpenInv'
  <2>1. UNCHANGED <<seeded, task, count>> /\ trans' = Backdated(run[x].gen)
    BY <1>12 DEF RunFailed, runRest
  <2> QED
    BY <1>1, <2>1 DEF Backdated, TypeInv
<1>13. ASSUME SeedZero \/ Activate \/ Deactivate \/ MergePass \/ UNCHANGED vars  PROVE OpenInv'
  BY <1>1, <1>13 DEF SeedZero, Activate, Deactivate, MergePass, rest, vars
<1>14. ASSUME NEW g \in Generation, MergeStart(g)  PROVE OpenInv'
  BY <1>1, <1>14 DEF MergeStart, rest
<1>15. ASSUME NEW x \in Runner, RunDrain(x) \/ RunRead(x)  PROVE OpenInv'
  BY <1>1, <1>15 DEF RunDrain, RunRead, runRest
<1> QED
  BY <1>2, <1>6, <1>7, <1>8, <1>9, <1>10, <1>11, <1>12, <1>13, <1>14, <1>15, ClaimKinds
  DEF Next, Answer, Transition, RunRefused, RunFail

-----------------------------------------------------------------------------
LEMMA InitHolds ==
  ASSUME Init
  PROVE  IInv
<1> USE DEF Init
<1>1. \A t \in Task : task[t] = Spare
  OBVIOUS
<1>2. TypeInv
  BY <1>1, SizesAssumption, Records
  DEF TypeInv, NoCounts, Idle, Free, Resting, RunState, TaskState, Spare, Step
<1>3. ClosedInv
  <2>1. Closed = {} /\ 1..0 = {} /\ 0 \in 0..Generations
    BY SizesAssumption DEF Closed
  <2> QED
    BY <2>1 DEF ClosedInv
<1>4. TaskInv /\ ClaimInv /\ RunInv /\ OpenInv /\ SeedInv
  BY <1>1, NamesAssumption
  DEF TaskInv, ClaimInv, RunInv, OpenInv, SeedInv, Spare, Idle, Free, Resting, Step, Deciding
<1> QED
  BY <1>2, <1>3, <1>4 DEF IInv

LEMMA Inductive ==
  ASSUME IInv, [Next]_vars
  PROVE  IInv'
BY TypeStep, ClosedStep, TaskStep, ClaimStepInv, SeedStep, RunStep, OpenStep DEF IInv

LEMMA Invariance == Spec => []IInv
<1>1. Init => IInv
  BY InitHolds
<1>2. IInv /\ [Next]_vars => IInv'
  BY Inductive
<1> QED
  BY <1>1, <1>2, PTL DEF Spec

-----------------------------------------------------------------------------
Quietly ==
  \A g \in Generation : art[g] = NoKlv /\ art'[g] # NoKlv =>
    Of(g, "claimed") \cup Of(g, "staged") = {}

(* A generation closes with none of its tasks out and none of its results  *)
(* staged, whatever was declined, lapsed, merged, failed or taken over on  *)
(* the way: the claim that wrote its row had seen none, and nothing was    *)
(* handed out while the row was open.                                      *)
THEOREM Quiet == Spec => ClosesQuietly
<1>1. IInv /\ [Next]_vars => [Quietly]_vars
  <2> SUFFICES ASSUME IInv, [Next]_vars  PROVE Quietly
    OBVIOUS
  <2>1. CASE UNCHANGED art
    BY <2>1 DEF Quietly
  <2>2. CASE Purge
    BY <2>2 DEF Quietly, Purge
  <2>3. ASSUME NEW x \in Runner, RunClose(x), trans[run[x].gen] \in {"open", "stale"}
        PROVE  Quietly
    <3>1. /\ art' = [art EXCEPT ![run[x].gen] = run[x].klv]
          /\ Of(run[x].gen, "claimed") = {} /\ Of(run[x].gen, "staged") = {}
      BY <2>3, CloseIs
    <3> QED
      BY <3>1 DEF Quietly
  <2> QED
    BY <2>1, <2>2, <2>3, ArtMoves
<1> QED
  BY <1>1, Invariance, PTL DEF Spec, ClosesQuietly, Quietly

-----------------------------------------------------------------------------
(* The totals, merged and staged, through every kind of step               *)

Holding(g, r) == {t \in Task : task[t].state = "staged" /\ task[t].gen = g /\ r \in task[t].found}

LEMMA HoldingIs ==
  ASSUME NEW g \in Generation, NEW r \in Rack
  PROVE  /\ IsFiniteSet(Holding(g, r)) /\ Cardinality(Holding(g, r)) \in Nat
         /\ Totals[g][r] = count[g][r] + Cardinality(Holding(g, r))
<1>1. IsFiniteSet(Holding(g, r))
  BY NamesAssumption, FS_Subset DEF Holding
<1>2. Holding(g, r) = {t \in Of(g, "staged") : r \in task[t].found}
  BY DEF Holding, Of
<1> QED
  BY <1>1, <1>2, FS_CardinalityType DEF Totals, Occurrences

LEMMA TotalsStay ==
  ASSUME \A g \in Generation, r \in Rack :
           count'[g][r] + Cardinality(Holding(g, r)') = count[g][r] + Cardinality(Holding(g, r))
  PROVE  Totals' = Totals
<1>1. \A g \in Generation, r \in Rack :
        /\ Occurrences(r, Of(g, "staged")) = Cardinality(Holding(g, r))
        /\ Occurrences(r, Of(g, "staged"))' = Cardinality(Holding(g, r)')
  <2> SUFFICES ASSUME NEW g \in Generation, NEW r \in Rack
               PROVE  /\ Occurrences(r, Of(g, "staged")) = Cardinality(Holding(g, r))
                      /\ Occurrences(r, Of(g, "staged"))' = Cardinality(Holding(g, r)')
    OBVIOUS
  <2>1. /\ {t \in Of(g, "staged") : r \in task[t].found} = Holding(g, r)
        /\ {t \in Of(g, "staged")' : r \in task'[t].found} = Holding(g, r)'
    BY DEF Of, Holding
  <2> QED
    BY <2>1 DEF Occurrences
<1> QED
  BY <1>1 DEF Totals

LEMMA StagedStay ==
  ASSUME UNCHANGED count,
         \A t \in Task : (task'[t].state = "staged" \/ task[t].state = "staged") => task'[t] = task[t]
  PROVE  Totals' = Totals
<1>1. \A g \in Generation, r \in Rack : Holding(g, r)' = Holding(g, r)
  BY DEF Holding
<1> QED
  BY <1>1, TotalsStay

(* A merge moves what it has read from the staged results to the counts.   *)
LEMMA MergeKeeps ==
  ASSUME IInv, MergeCommit
  PROVE  Totals' = Totals
<1>1. PICK g \in Generation :
        /\ merge.ids \subseteq Of(g, "staged")
        /\ \A h \in Generation \ {g} : count'[h] = count[h]
        /\ \A r \in Rack : count'[g][r] = count[g][r]
             + IF seeded[g] /\ Folded(r) THEN Occurrences(r, merge.ids) ELSE 0
  BY MergeAdds
<1>2. task' = [t \in Task |-> IF t \in merge.ids THEN Spare ELSE task[t]] /\ merge.pass = Passes
  BY DEF MergeCommit, Deleted
<1>3. ASSUME NEW h \in Generation \ {g}, NEW r \in Rack
      PROVE  count'[h][r] + Cardinality(Holding(h, r)') = count[h][r] + Cardinality(Holding(h, r))
  <2>1. Holding(h, r)' = Holding(h, r)
    BY <1>1, <1>2 DEF Holding, Of, Spare
  <2> QED
    BY <1>1, <2>1
<1>4. ASSUME NEW r \in Rack
      PROVE  count'[g][r] + Cardinality(Holding(g, r)') = count[g][r] + Cardinality(Holding(g, r))
  <2> DEFINE A == {t \in merge.ids : r \in task[t].found}
             B == Holding(g, r)'
  <2>1. /\ Holding(g, r) = A \cup B /\ A \cap B = {}
    <3>1. \A t \in Task : task'[t] = IF t \in merge.ids THEN Spare ELSE task[t]
      BY <1>2
    <3>2. B = {t \in Holding(g, r) : t \notin merge.ids}
      BY <3>1 DEF Holding, Spare
    <3>3. A = {t \in Holding(g, r) : t \in merge.ids}
      BY <1>1 DEF Holding, Of
    <3> QED
      BY <3>2, <3>3
  <2>2. IsFiniteSet(A) /\ IsFiniteSet(B)
    BY <1>1, <2>1, HoldingIs, FS_Subset
  <2>3. Cardinality(A \cup B) = Cardinality(A) + Cardinality(B) - Cardinality(A \cap B)
    BY <2>2, FS_Union
  <2>4. Cardinality(A \cap B) = 0
    BY <2>1, FS_EmptySet
  <2>5. Cardinality(A) \in Nat /\ Cardinality(B) \in Nat /\ count[g][r] \in Nat
    BY <1>1, <2>2, FS_CardinalityType DEF IInv, TypeInv
  <2>6. count'[g][r] = count[g][r] + Cardinality(A)
    <3>1. Occurrences(r, merge.ids) = Cardinality(A)
      BY DEF Occurrences
    <3>2. CASE A = {}
      <4>1. Cardinality(A) = 0
        BY <3>2, FS_EmptySet
      <4> HIDE DEF A
      <4> QED
        BY <1>1, <2>5, <3>1, <4>1
    <3>3. CASE A # {}
      <4>1. seeded[g]
        BY <1>1, <3>3 DEF IInv, TaskInv, Of
      <4>2. r \in Nat /\ Passes \in Nat \ {0}
        BY SizesAssumption DEF Rack
      <4>3. r % Passes < Passes
        BY <4>2
      <4>4. Folded(r)
        BY <1>2, <4>3 DEF Folded
      <4> QED
        BY <1>1, <3>1, <4>1, <4>4
    <3> QED
      BY <3>2, <3>3
  <2> HIDE DEF A, B
  <2>7. Cardinality(Holding(g, r)) = Cardinality(A) + Cardinality(B)
    BY <2>1, <2>3, <2>4, <2>5
  <2> QED
    BY <2>5, <2>6, <2>7 DEF B
<1>5. \A h \in Generation, r \in Rack :
        count'[h][r] + Cardinality(Holding(h, r)') = count[h][r] + Cardinality(Holding(h, r))
  BY <1>3, <1>4
<1> QED
  BY <1>5, TotalsStay

(* A result of a generation that has not closed is the current one's.      *)
LEMMA SubmitAccepts ==
  ASSUME IInv, NEW t \in Task, NEW found \in SUBSET Rack, Submit(t, found), art[task[t].gen] = NoKlv
  PROVE  Ledger!Accept(found)
<1> DEFINE g == task[t].gen
           c == Cardinality(Closed)
<1>1. task[t].state = "claimed" /\ UNCHANGED <<art, count>>
      /\ task' = [task EXCEPT ![t] = [task[t] EXCEPT !.state = "staged", !.found = found]]
  BY DEF Submit, taskRest
<1>2. g \in Generation /\ g <= Current /\ g \in Nat
  BY <1>1, SizesAssumption DEF IInv, TaskInv, Generation
<1>3. g = Current /\ c + 1 = g
  <2>1. g >= Current /\ Current \in Nat /\ c = Current - 1
    BY <1>2, GenerationOrder, SizesAssumption DEF IInv
  <2> HIDE DEF g, c
  <2> QED
    BY <1>2, <2>1
<1>4. [task[t] EXCEPT !.state = "staged", !.found = found].state = "staged"
      /\ [task[t] EXCEPT !.state = "staged", !.found = found].found = found
      /\ [task[t] EXCEPT !.state = "staged", !.found = found].gen = g
  BY DEF IInv, TypeInv, TaskState
<1>5. /\ task'[t].state = "staged" /\ task'[t].found = found /\ task'[t].gen = g
      /\ \A u \in Task \ {t} : task'[u] = task[u]
  BY <1>1, <1>4 DEF IInv, TypeInv
<1>6. ASSUME NEW h \in Generation, NEW r \in Rack
      PROVE  Cardinality(Holding(h, r)') = Cardinality(Holding(h, r))
                                             + IF h = g /\ r \in found THEN 1 ELSE 0
  <2>1. IsFiniteSet(Holding(h, r)) /\ Cardinality(Holding(h, r)) \in Nat
    BY HoldingIs
  <2>2. t \notin Holding(h, r)
    BY <1>1 DEF Holding
  <2>3. CASE h = g /\ r \in found
    <3>1. Holding(h, r)' = Holding(h, r) \cup {t}
      BY <1>5, <2>3 DEF Holding
    <3> QED
      BY <2>1, <2>2, <2>3, <3>1, FS_AddElement
  <2>4. CASE ~(h = g /\ r \in found)
    <3>1. Holding(h, r)' = Holding(h, r)
      BY <1>1, <1>5, <2>4 DEF Holding
    <3> QED
      BY <2>1, <2>4, <3>1
  <2> QED
    BY <2>3, <2>4
<1>7. \A h \in Generation, r \in Rack :
        Totals'[h][r] = Totals[h][r] + IF h = g /\ r \in found THEN 1 ELSE 0
  <2> SUFFICES ASSUME NEW h \in Generation, NEW r \in Rack
               PROVE  Totals'[h][r] = Totals[h][r] + IF h = g /\ r \in found THEN 1 ELSE 0
    OBVIOUS
  <2>1. Totals[h][r] = count[h][r] + Cardinality(Holding(h, r)) /\ Cardinality(Holding(h, r)) \in Nat
    BY HoldingIs
  <2>2. Totals'[h][r] = count'[h][r] + Cardinality(Holding(h, r)')
    <3>1. Holding(h, r)' = {u \in Of(h, "staged")' : r \in task'[u].found}
      BY DEF Holding, Of
    <3> QED
      BY <3>1 DEF Totals, Occurrences
  <2>3. count[h][r] \in Nat /\ count'[h][r] = count[h][r]
    BY <1>1 DEF IInv, TypeInv
  <2> QED
    BY <1>6, <2>1, <2>2, <2>3
<1>8. Totals' = [Totals EXCEPT ![c + 1] =
                   [r \in Rack |-> Totals[c + 1][r] + IF r \in found THEN 1 ELSE 0]]
  <2>1. \A h \in Generation : Totals[h] = [r \in Rack |-> Totals[h][r]]
                              /\ Totals'[h] = [r \in Rack |-> Totals'[h][r]]
    BY DEF Totals
  <2>2. \A h \in Generation \ {g} : Totals'[h] = Totals[h]
    <3>1. ASSUME NEW h \in Generation \ {g}, NEW r \in Rack  PROVE Totals'[h][r] = Totals[h][r]
      <4>1. Totals[h][r] \in Nat
        <5>1. count[h][r] \in Nat
          BY DEF IInv, TypeInv
        <5> QED
          BY <5>1, HoldingIs
      <4>2. Totals'[h][r] = Totals[h][r] + 0
        BY <1>7, <3>1
      <4> QED
        BY <4>1, <4>2
    <3> QED
      BY <2>1, <3>1
  <2>3. Totals'[g] = [r \in Rack |-> Totals[g][r] + IF r \in found THEN 1 ELSE 0]
    BY <1>2, <1>7, <2>1
  <2>4. Totals = [h \in Generation |-> Totals[h]] /\ Totals' = [h \in Generation |-> Totals'[h]]
    BY DEF Totals
  <2> HIDE DEF g, c
  <2> QED
    BY <1>2, <1>3, <2>2, <2>3, <2>4
<1>9. c + 1 \in 1..Generations /\ c' = c
  BY <1>1, <1>2, <1>3, CurrentStays DEF Generation
<1> QED
  BY <1>8, <1>9 DEF Ledger!Accept, Ledger!Generation, Generation

(* Every other step leaves what is staged, and what is counted, alone.     *)
LEMMA OtherKeeps ==
  ASSUME IInv, [Next]_vars, UNCHANGED art, ~Purge, ~MergeCommit,
         ~\E t \in Task, found \in SUBSET Rack : Submit(t, found) /\ art[task[t].gen] = NoKlv
  PROVE  Totals' = Totals
<1> USE DEF IInv
<1>1. ASSUME UNCHANGED <<task, count>>  PROVE Totals' = Totals
  BY <1>1, StagedStay
<1>2. ASSUME NEW t \in Task, task[t].state # "staged", NEW new, new.state # "staged",
             task' = [task EXCEPT ![t] = new], UNCHANGED count
      PROVE  Totals' = Totals
  <2>1. task'[t] = new /\ \A u \in Task \ {t} : task'[u] = task[u]
    BY <1>2 DEF TypeInv
  <2> QED
    BY <1>2, <2>1, StagedStay
<1>3. ASSUME NEW t \in Task, NEW new \in TaskState, ClaimTakes(t, new)  PROVE Totals' = Totals
  <2>1. /\ task[t].state # "staged" /\ new.state # "staged"
        /\ task' = [task EXCEPT ![t] = new] /\ UNCHANGED count
    BY <1>3 DEF ClaimTakes
  <2> QED
    BY <1>2, <2>1
<1>4. CASE ClaimDoes
  BY <1>1, <1>3, <1>4 DEF ClaimDoes, ClaimEnds, ClaimAsks, ClaimGoes, ClaimOpens
<1>5. ASSUME NEW t \in Task, NEW found \in SUBSET Rack, Submit(t, found)  PROVE Totals' = Totals
  <2>1. /\ task[t].state = "claimed" /\ UNCHANGED count
        /\ task' = [task EXCEPT ![t] = Spare]
    BY <1>5 DEF Submit, taskRest
  <2> QED
    BY <1>2, <2>1 DEF Spare
<1>6. ASSUME NEW t \in Task, Lose(t)
      PROVE  Totals' = Totals
  <2>1. /\ task[t].state = "claimed" /\ UNCHANGED count
        /\ task' = [task EXCEPT ![t] = [task[t] EXCEPT !.state = "available"]]
    BY <1>6 DEF Lose, taskRest
  <2>2. [task[t] EXCEPT !.state = "available"].state # "staged"
    BY DEF TypeInv, TaskState
  <2> QED
    BY <1>2, <2>1, <2>2
<1>7. ASSUME NEW x \in Runner, RunDrain(x) \/ RunRead(x) \/ RunClose(x) \/ RunFailed(x)
      PROVE  Totals' = Totals
  BY <1>1, <1>7 DEF RunDrain, RunRead, RunClose, RunFailed, runRest
<1>8. ASSUME SeedZero \/ MergePass \/ Activate \/ Deactivate \/ Restart \/ UNCHANGED vars
      PROVE  Totals' = Totals
  BY <1>1, <1>8 DEF SeedZero, MergePass, Activate, Deactivate, Restart, rest, vars
<1>9. ASSUME NEW g \in Generation, Seed(g) \/ MergeStart(g)  PROVE Totals' = Totals
  BY <1>1, <1>9 DEF Seed, MergeStart, rest
<1> QED
  BY <1>4, <1>5, <1>6, <1>7, <1>8, <1>9, ClaimKinds
  DEF Next, Answer, Transition, RunRefused, RunFail

LEMMA CloseCloses ==
  ASSUME IInv, NEW x \in Runner, RunClose(x), trans[run[x].gen] \in {"open", "stale"}
  PROVE  Ledger!Close
<1> DEFINE c == Cardinality(Closed)
<1>1. /\ Current \in Generation /\ Of(Current, "staged") = {}
      /\ \A r \in Rack : count[Current][r] >= Target
      /\ Current' = Current + 1
  BY CloseIs
<1>2. c = Current - 1 /\ Current \in Nat
  BY GenerationOrder, SizesAssumption DEF IInv
<1>3. c + 1 = Current
  BY <1>2
<1>4. Cardinality(Closed') = c + 1
  <2>1. Closed' = 1..Current
    BY CloseIs
  <2>2. Cardinality(1..Current) = IF 1 > Current THEN 0 ELSE Current - 1 + 1
    BY <1>2, FS_Interval
  <2>3. Current >= 1
    BY <1>1 DEF Generation
  <2> QED
    BY <1>2, <1>3, <2>1, <2>2, <2>3
<1>5. \A r \in Rack : Totals[Current][r] >= Target
  <2> SUFFICES ASSUME NEW r \in Rack  PROVE Totals[Current][r] >= Target
    OBVIOUS
  <2>1. /\ Totals[Current][r] = count[Current][r] + Cardinality(Holding(Current, r))
        /\ Cardinality(Holding(Current, r)) \in Nat
    BY <1>1, HoldingIs
  <2>2. count[Current][r] \in Nat /\ Target \in Nat
    BY <1>1, SizesAssumption DEF IInv, TypeInv
  <2> QED
    BY <1>1, <2>1, <2>2
<1>6. Totals' = Totals
  BY StagedStay DEF RunClose
<1> QED
  BY <1>1, <1>3, <1>4, <1>5, <1>6 DEF Ledger!Close, Ledger!Generation, Generation

NothingHeld == [g \in Generation |-> [r \in Rack |-> 0]]

(* A job with no rows has nothing in its totals and no generation closed.  *)
LEMMA EmptyTotals ==
  ASSUME count = NoCounts, \A t \in Task : task[t].state # "staged",
         art = [g \in Generation |-> NoKlv]
  PROVE  Totals = NothingHeld /\ Cardinality(Closed) = 0
<1>1. \A g \in Generation, r \in Rack : Occurrences(r, Of(g, "staged")) = 0
  <2>1. \A g \in Generation : Of(g, "staged") = {}
    BY DEF Of
  <2>2. \A r \in Rack : Occurrences(r, {}) = 0
    BY FS_EmptySet DEF Occurrences
  <2> QED
    BY <2>1, <2>2
<1>2. Totals = NothingHeld
  BY <1>1 DEF Totals, NothingHeld, NoCounts
<1>3. Closed = {}
  BY DEF Closed
<1> QED
  BY <1>2, <1>3, FS_EmptySet

(* No result is lost or counted twice, a generation closes once its totals *)
(* are complete, and nothing is added to one that has: whatever staging,   *)
(* merging in slices, failing, taking over and restarting does on the way. *)
THEOREM Implements == Spec => ImplementsLeaveTotals
<1>1. Init => Ledger!Init
  <2> SUFFICES ASSUME Init  PROVE Ledger!Init
    OBVIOUS
  <2>1. Totals = NothingHeld /\ Cardinality(Closed) = 0
    BY EmptyTotals DEF Init, Spare
  <2> QED
    BY <2>1 DEF Ledger!Init, Ledger!Generation, Generation, NothingHeld
<1>2. IInv /\ [Next]_vars => [Ledger!Next]_(Ledger!vars)
  <2> SUFFICES ASSUME IInv, [Next]_vars  PROVE Ledger!Next \/ UNCHANGED Ledger!vars
    OBVIOUS
  <2> USE DEF Ledger!Next, Ledger!vars
  <2>1. CASE Purge
    <3>1. /\ count' = NoCounts /\ art' = [g \in Generation |-> NoKlv]
          /\ \A t \in Task : task'[t].state # "staged"
      BY <2>1 DEF Purge, Spare
    <3>2. (Totals = NothingHeld /\ Cardinality(Closed) = 0)'
      <4>1. \A g \in Generation : Of(g, "staged")' = {} /\ Closed' = {}
        BY <3>1 DEF Of, Closed
      <4>2. \A r \in Rack : Occurrences(r, {})' = 0
        BY FS_EmptySet DEF Occurrences
      <4>3. \A g \in Generation, r \in Rack : Occurrences(r, Of(g, "staged"))' = 0
        BY <4>1, <4>2 DEF Occurrences
      <4>4. Totals' = NothingHeld
        BY <3>1, <4>3 DEF Totals, NothingHeld, NoCounts
      <4>5. Closed' = {}
        BY <3>1 DEF Closed
      <4> QED
        BY <4>4, <4>5, FS_EmptySet DEF NothingHeld
    <3> QED
      BY <3>2 DEF Ledger!Empty, Ledger!Generation, Generation, NothingHeld
  <2>2. ASSUME NEW x \in Runner, RunClose(x), trans[run[x].gen] \in {"open", "stale"}
        PROVE  Ledger!Next
    BY <2>2, CloseCloses
  <2>3. CASE UNCHANGED art /\ ~Purge
    <3>1. Cardinality(Closed)' = Cardinality(Closed)
      BY <2>3, CurrentStays
    <3>2. ASSUME NEW t \in Task, NEW found \in SUBSET Rack, Submit(t, found), art[task[t].gen] = NoKlv
          PROVE  Ledger!Next
      BY <3>2, SubmitAccepts
    <3>3. CASE MergeCommit
      BY <3>1, <3>3, MergeKeeps
    <3> QED
      BY <2>3, <3>1, <3>2, <3>3, OtherKeeps
  <2> QED
    BY <2>1, <2>2, <2>3, ArtMoves
<1> QED
  BY <1>1, <1>2, Invariance, PTL DEF Spec, ImplementsLeaveTotals, Ledger!Spec
=============================================================================
