------------------------ MODULE OpeningRacks_proofs -------------------------
(***************************************************************************)
(* A rack's row is its standing under the settings as they are, the job's  *)
(* totals count the rows, no two tasks have a rack in common, and the job  *)
(* is completed by the server with every rack settled only: proved for any *)
(* racks, slices, settings, identities, tasks and analyses, and any number *)
(* of edits, lapses, stops and restarts.                                   *)
(*                                                                         *)
(* What the invariants rest on: a submission that holds its claim's lock   *)
(* read the settings that are there when it commits, because an edit waits *)
(* for it and it does not start while one is on (SubInv); and a claim that *)
(* took the racks in flight still has every task's among them when it      *)
(* picks, because only claims make tasks and it has the dispatch lock      *)
(* (TaskInv).                                                              *)
(***************************************************************************)
EXTENDS OpeningRacks, SumFacts, TLAPS

RowState  == [results : Int, top : Int, settled : BOOLEAN, without : BOOLEAN]
TaskState == [state : {"spare", "available", "claimed"}, racks : SUBSET Rack,
              by : Identity \cup {None}, declined : SUBSET (Identity \cup {None})]

TypeInv ==
  /\ status \in {"active", "inactive", "completed"}
  /\ settings \in Setting
  /\ covered \in 0..NumRacks
  /\ task \in [Task -> TaskState]
  /\ sub \in [Task -> Setting \cup {None}]
  /\ firsts \in [Rack -> Seq(Nat)]
  /\ seen \in [Rack -> SUBSET (Identity \cup {None})]
  /\ row \in [Rack -> RowState \cup {NoRow}]
  /\ claim \in [at : {"idle", "next", "pick"}, by : Identity \cup {None}, out : SUBSET Rack]
  /\ edit \in [at : {"idle", "held", "locked"}, new : Setting \cup {None}]
  /\ asked \in BOOLEAN /\ check \in BOOLEAN
  /\ edits \in 0..MaxEdits /\ mishaps \in 0..MaxMishaps

(* The settings a submission read are the job's until it commits; an edit  *)
(* that has the locks has nobody else in them.                             *)
SubInv ==
  /\ \A t \in Task : sub[t] # None => sub[t] = settings /\ task[t].state = "claimed"
  /\ edit.at # "idle" => edit.new \in Setting
  /\ edit.at = "locked" => claim.at = "idle" /\ \A t \in Task : sub[t] = None

(* A task is of racks the first pass has been over; those a claim that     *)
(* picks will not take are at least those of the tasks there are, but for  *)
(* those with no row, of first-pass tasks still out, which it cannot take. *)
TaskInv ==
  /\ \A t \in Task : task[t].state = "spare" => task[t] = Spare
  /\ \A t \in Task : task[t].racks \subseteq 1..covered
  /\ claim.at # "idle" => \E t \in Task : task[t] = Spare
  /\ claim.at = "pick" =>
       /\ covered = NumRacks
       /\ \A t \in Task : \A r \in task[t].racks : row[r] = NoRow \/ r \in claim.out

IInv == TypeInv /\ SubInv /\ TaskInv /\ OneTaskPerRack /\ StandingInv

-----------------------------------------------------------------------------
(* Rows                                                                    *)

LEMMA RackFacts == IsFiniteSet(Rack) /\ Cardinality(Rack) = NumRacks /\ NumRacks \in Nat
<1>1. NumRacks \in Nat \ {0}
  BY SizesAssumption
<1> QED
  BY <1>1, FS_Interval DEF Rack

LEMMA RowOfType ==
  ASSUME NEW s \in Setting, NEW results \in Int, NEW top \in Int
  PROVE  RowOf(s, results, top) \in RowState /\ RowOf(s, results, top) # NoRow
<1>1. s.min \in Nat /\ s.max \in Nat /\ s.pct \in Nat
  BY SettingsAssumption
<1>2. Agreed(s, results, top) \in BOOLEAN
  BY DEF Agreed
<1>3. RowOf(s, results, top) \in RowState
  BY <1>1, <1>2 DEF RowOf, RowState
<1> QED
  BY <1>3, RowAssumption DEF RowState

(* The standing of a rack with an analysis is a row, and another edit's    *)
(* settings make of it what they make of the analyses.                     *)
LEMMA StandingType ==
  ASSUME NEW s \in Setting, NEW f \in Seq(Nat), f # << >>
  PROVE  /\ Standing(s, f) \in RowState /\ Standing(s, f) # NoRow
         /\ \A new \in Setting :
              RowOf(new, Standing(s, f).results, Standing(s, f).top) = Standing(new, f)
<1>1. DOMAIN f = 1..Len(f) /\ Len(f) \in Nat \ {0} /\ \A m \in DOMAIN f : f[m] \in Int
  BY SMT
<1>2. IsFiniteSet(DOMAIN f) /\ DOMAIN f # {}
  <2>1. IsFiniteSet(1..Len(f))
    BY <1>1, FS_Interval
  <2>2. 1 \in 1..Len(f)
    BY <1>1
  <2> QED
    BY <1>1, <2>1, <2>2
<1>3. Results(f) \in Int
  <2>1. SumFunctionOnSet(f, DOMAIN f) \in Int
    BY <1>1, <1>2, SumTakeOut
  <2> QED
    BY <2>1 DEF Results, FoldFunction, SumFunctionOnSet
<1>4. TopCount(f) \in Int
  <2>1. PICK d \in DOMAIN f : \A m \in DOMAIN f : f[m] <= f[d]
    BY <1>1, <1>2, LargestAt
  <2>2. f[d] \in Range(f)
    BY DEF Range
  <2>3. TopCount(f) \in Range(f)
    BY <2>1, <2>2 DEF TopCount
  <2> QED
    BY <1>1, <2>3 DEF Range
<1>5. Standing(s, f).results = Results(f) /\ Standing(s, f).top = TopCount(f)
  BY DEF Standing, RowOf
<1> QED
  BY <1>3, <1>4, <1>5, RowOfType DEF Standing

LEMMA OneMoreType ==
  ASSUME NEW f \in Seq(Nat), NEW m \in Nat \ {0}
  PROVE  OneMore(f, m) \in Seq(Nat) /\ OneMore(f, m) # << >>
<1>1. CASE m > Len(f)
  BY <1>1 DEF OneMore
<1>2. CASE ~(m > Len(f))
  <2>1. m \in 1..Len(f) /\ OneMore(f, m) = [f EXCEPT ![m] = f[m] + 1] /\ f[m] \in Nat
    BY <1>2 DEF OneMore
  <2>2. OneMore(f, m) \in Seq(Nat) /\ Len(OneMore(f, m)) = Len(f)
    BY <2>1
  <2> QED
    BY <2>1, <2>2
<1> QED
  BY <1>1, <1>2

(* What a set of rows counts when those of some racks are counted anew.    *)
LEMMA Recounted ==
  ASSUME NEW S, IsFiniteSet(S), NEW R, IsFiniteSet(R), NEW N \in SUBSET R
  PROVE  Cardinality((S \ R) \cup N) = Cardinality(S) + Cardinality(N) - Cardinality(R \cap S)
<1>1. IsFiniteSet(N) /\ Cardinality(N) \in Nat /\ Cardinality(S) \in Nat
  BY FS_Subset, FS_CardinalityType
<1>2. IsFiniteSet(S \ R) /\ Cardinality(S \ R) = Cardinality(S) - Cardinality(S \cap R)
  BY FS_Difference
<1>3. Cardinality((S \ R) \cup N) =
        Cardinality(S \ R) + Cardinality(N) - Cardinality((S \ R) \cap N)
  BY <1>1, <1>2, FS_Union
<1>4. Cardinality((S \ R) \cap N) = 0
  <2>1. (S \ R) \cap N = {}
    OBVIOUS
  <2> QED
    BY <2>1, FS_EmptySet
<1>5. Cardinality(S \cap R) = Cardinality(R \cap S) /\ Cardinality(R \cap S) \in Nat
  <2>1. S \cap R = R \cap S /\ IsFiniteSet(R \cap S)
    BY FS_Intersection
  <2> QED
    BY <2>1, FS_CardinalityType
<1>6. Cardinality((S \ R) \cup N) = Cardinality(S \ R) + Cardinality(N) - 0
  BY <1>3, <1>4
<1> QED
  BY <1>1, <1>2, <1>5, <1>6

-----------------------------------------------------------------------------
(* Steps that change tasks                                                 *)

LEMMA SpareType == Spare \in TaskState
BY DEF Spare, TaskState

(* A claim in progress makes a task of one that was spare.                 *)
LEMMA DispatchTasks ==
  ASSUME IInv, claim.at # "idle", NEW racks \in SUBSET Rack, Dispatch(racks)
  PROVE  /\ claim' = Idle
         /\ \E t \in Task : \E k \in TaskState :
              /\ task[t] = Spare /\ task' = [task EXCEPT ![t] = k]
              /\ k.state = "claimed" /\ k.racks = racks
<1> DEFINE t == CHOOSE u \in Task : task[u] = Spare
           k == [state |-> "claimed", racks |-> racks, by |-> claim.by, declined |-> {}]
<1>1. t \in Task /\ task[t] = Spare
  BY DEF IInv, TaskInv
<1>2. k.state = "claimed" /\ k.racks = racks
  OBVIOUS
<1>3. k \in TaskState
  BY DEF IInv, TypeInv, TaskState
<1>4. claim' = Idle /\ task' = [task EXCEPT ![t] = k]
  BY DEF Dispatch
<1> HIDE DEF t, k
<1> QED
  BY <1>1, <1>2, <1>3, <1>4

(* The racks of it are none of an earlier task's.                          *)
LEMMA PickedFacts == Picked \subseteq Rack \ claim.out /\ Picked \subseteq Analysed
BY DEF Picked, FirstOf, Unsettled, Analysed

LEMMA SliceFacts ==
  ASSUME TypeInv, covered < NumRacks
  PROVE  /\ NextSlice \in SUBSET Rack
         /\ covered + Size(NextSlice) \in 0..NumRacks
         /\ NextSlice \subseteq (covered + 1)..(covered + Size(NextSlice))
<1>1. covered \in Nat /\ NumRacks \in Nat /\ RacksPerTask \in Nat \ {0}
  BY SizesAssumption DEF TypeInv
<1> DEFINE end == IF covered + RacksPerTask <= NumRacks THEN covered + RacksPerTask ELSE NumRacks
<1>2. end \in Nat /\ covered < end /\ end <= NumRacks
  BY <1>1
<1>3. NextSlice = (covered + 1)..end
  BY <1>1 DEF NextSlice, Rack
<1> HIDE DEF end
<1>4. Cardinality((covered + 1)..end) = end - covered
  BY <1>1, <1>2, FS_Interval
<1>5. covered + Size(NextSlice) = end
  BY <1>1, <1>2, <1>3, <1>4 DEF Size
<1> QED
  BY <1>1, <1>2, <1>3, <1>5 DEF Rack

-----------------------------------------------------------------------------
(* Every action keeps the types                                            *)

LEMMA MishapType == ASSUME TypeInv, Mishap PROVE mishaps' \in 0..MaxMishaps
BY SizesAssumption DEF TypeInv, Mishap

LEMMA DispatchTypes ==
  ASSUME IInv, claim.at # "idle", NEW racks \in SUBSET Rack, Dispatch(racks)
  PROVE  task' \in [Task -> TaskState] /\ claim' = Idle
<1>1. PICK t \in Task, k \in TaskState : task' = [task EXCEPT ![t] = k]
  BY DispatchTasks
<1> QED
  BY <1>1, DispatchTasks DEF IInv, TypeInv

LEMMA ClaimTypes ==
  ASSUME IInv, ClaimOpens \/ ClaimGoesOn
  PROVE  TypeInv'
<1>3. ASSUME NEW racks \in SUBSET Rack, claim.at # "idle", Dispatch(racks)
      PROVE  task' \in [Task -> TaskState] /\ claim' = Idle
  BY <1>3, DispatchTypes
<1> USE DEF IInv, TypeInv
<1>1. ASSUME NEW w \in Identity, NEW t \in Task, ClaimAvailable(w, t)
      PROVE  TypeInv'
  <2> DEFINE k == [[task[t] EXCEPT !.state = "claimed"] EXCEPT !.by = w]
  <2>1. k \in TaskState
    <3>1. task[t] \in TaskState
      OBVIOUS
    <3>2. [task[t] EXCEPT !.state = "claimed"] \in TaskState
      BY <3>1 DEF TaskState
    <3> QED
      BY <3>2 DEF TaskState
  <2>2. task' = [task EXCEPT ![t] = k]
    BY <1>1 DEF ClaimAvailable
  <2> HIDE DEF k
  <2>3. task' \in [Task -> TaskState]
    BY <2>1, <2>2
  <2> QED
    BY <1>1, <2>3 DEF ClaimAvailable, Rest
<1>2. ASSUME NEW w \in Identity, ClaimStart(w)
      PROVE  TypeInv'
  BY <1>2 DEF ClaimStart, Rest
<1>4. Idle \in [at : {"idle", "next", "pick"}, by : Identity \cup {None}, out : SUBSET Rack]
  BY DEF Idle
<1>5. CASE NoWork
  BY <1>4, <1>5 DEF NoWork, Rest
<1>6. CASE ClaimSlice
  <2>1. NextSlice \in SUBSET Rack /\ covered' \in 0..NumRacks
    BY <1>6, SliceFacts DEF ClaimSlice
  <2>2. task' \in [Task -> TaskState] /\ claim' = Idle
    BY <1>3, <1>6, <2>1 DEF ClaimSlice
  <2> QED
    BY <1>4, <1>6, <2>1, <2>2 DEF ClaimSlice, Rest
<1>7. CASE ClaimInFlight /\ ~NoWork
  <2>1. claim' = [claim EXCEPT !.at = "pick", !.out = InFlight]
        /\ UNCHANGED <<status, covered, task, asked, mishaps, Rest>>
    BY <1>7 DEF ClaimInFlight
  <2>2. InFlight \in SUBSET Rack
    BY DEF InFlight, In, TaskState
  <2>3. claim' \in [at : {"idle", "next", "pick"}, by : Identity \cup {None}, out : SUBSET Rack]
    <3> DEFINE c == [claim EXCEPT !.at = "pick"]
    <3>1. c \in [at : {"idle", "next", "pick"}, by : Identity \cup {None}, out : SUBSET Rack]
      OBVIOUS
    <3>2. claim' = [c EXCEPT !.out = InFlight]
      BY <2>1
    <3> HIDE DEF c
    <3> QED
      BY <2>2, <3>1, <3>2
  <2> QED
    BY <2>1, <2>3 DEF Rest
<1>8. CASE ClaimReissue /\ ~NoWork
  <2>1. Picked \in SUBSET Rack /\ claim.at # "idle" /\ Dispatch(Picked)
        /\ UNCHANGED <<status, covered, asked, mishaps, Rest>>
    BY <1>8, PickedFacts DEF ClaimReissue
  <2>2. task' \in [Task -> TaskState] /\ claim' = Idle
    BY <1>3, <2>1
  <2> QED
    BY <1>4, <2>1, <2>2 DEF Rest
<1> QED
  BY <1>1, <1>2, <1>5, <1>6, <1>7, <1>8 DEF ClaimOpens, ClaimGoesOn, ClaimInFlight, ClaimReissue

(* A submission's racks have one more analysis, and the standing that      *)
(* comes of it under the settings it read.                                 *)
RacksOf(t) == task[t].racks

LEMMA SubmitFacts ==
  ASSUME IInv, NEW t \in Task, SubmitCommit(t)
  PROVE  /\ sub[t] # None /\ sub[t] \in Setting /\ RacksOf(t) \in SUBSET Rack
         /\ task' = [task EXCEPT ![t] = Spare] /\ sub' = [sub EXCEPT ![t] = None]
         /\ seen' = [r \in Rack |-> IF r \in RacksOf(t) THEN seen[r] \cup {task[t].by} ELSE seen[r]]
         /\ firsts' \in [Rack -> Seq(Nat)]
         /\ row' \in [Rack -> RowState \cup {NoRow}]
         /\ \A r \in RacksOf(t) : /\ firsts'[r] # << >> /\ row'[r] = Standing(sub[t], firsts'[r])
                             /\ row'[r] \in RowState /\ row'[r] # NoRow
         /\ \A r \in Rack \ RacksOf(t) : firsts'[r] = firsts[r] /\ row'[r] = row[r]
         /\ totals' =
              [analysed |-> totals.analysed + Size(RacksOf(t) \ Analysed),
               settled  |-> totals.settled + Size({r \in RacksOf(t) : row'[r].settled})
                                           - Size(RacksOf(t) \cap Settled),
               without  |-> totals.without + Size({r \in RacksOf(t) : row'[r].without})
                                           - Size(RacksOf(t) \cap Without)]
         /\ asked' \in BOOLEAN
         /\ UNCHANGED <<status, settings, covered, claim, edit, check, edits, mishaps>>
<1> DEFINE found(best) == [r \in Rack |-> IF r \in RacksOf(t) THEN OneMore(firsts[r], best[r])
                                                         ELSE firsts[r]]
           now(best)   == [r \in RacksOf(t) |-> Standing(sub[t], found(best)[r])]
<1>1. PICK best \in [RacksOf(t) -> 1..Analyses] :
        /\ sub[t] # None
        /\ firsts' = found(best)
        /\ seen' = [r \in Rack |-> IF r \in RacksOf(t) THEN seen[r] \cup {task[t].by} ELSE seen[r]]
        /\ row' = [r \in Rack |-> IF r \in RacksOf(t) THEN now(best)[r] ELSE row[r]]
        /\ totals' =
             [analysed |-> totals.analysed + Size(RacksOf(t) \ Analysed),
              settled  |-> totals.settled + Size({r \in RacksOf(t) : now(best)[r].settled})
                                          - Size(WasSettled(RacksOf(t))),
              without  |-> totals.without + Size({r \in RacksOf(t) : now(best)[r].without})
                                          - Size(RacksOf(t) \cap Without)]
        /\ task' = [task EXCEPT ![t] = Spare] /\ sub' = [sub EXCEPT ![t] = None]
        /\ asked' = (asked \/ (status = "active" /\ In("claimed") = {t}))
        /\ UNCHANGED <<status, settings, covered, claim, edit, check, edits, mishaps>>
  BY DEF SubmitCommit, RacksOf
<1>2. sub[t] \in Setting /\ RacksOf(t) \in SUBSET Rack
  BY <1>1 DEF IInv, TypeInv, TaskState, RacksOf
<1>3. ASSUME NEW r \in RacksOf(t)
      PROVE  OneMore(firsts[r], best[r]) \in Seq(Nat) /\ OneMore(firsts[r], best[r]) # << >>
  <2>1. firsts[r] \in Seq(Nat) /\ best[r] \in Nat \ {0}
    BY <1>2, SizesAssumption DEF IInv, TypeInv
  <2> QED
    BY <2>1, OneMoreType
<1>4. firsts' \in [Rack -> Seq(Nat)]
  BY <1>1, <1>3 DEF IInv, TypeInv
<1>5. ASSUME NEW r \in RacksOf(t)
      PROVE  /\ firsts'[r] = OneMore(firsts[r], best[r])
             /\ now(best)[r] = Standing(sub[t], firsts'[r])
             /\ now(best)[r] \in RowState /\ now(best)[r] # NoRow /\ row'[r] = now(best)[r]
  <2>1. firsts'[r] = OneMore(firsts[r], best[r]) /\ firsts'[r] = found(best)[r]
    BY <1>1, <1>2
  <2>2. now(best)[r] = Standing(sub[t], firsts'[r]) /\ row'[r] = now(best)[r]
    BY <1>1, <1>2, <2>1
  <2> HIDE DEF now
  <2> QED
    BY <1>2, <1>3, <2>1, <2>2, StandingType
<1> HIDE DEF found, now
<1>6. row' \in [Rack -> RowState \cup {NoRow}]
  BY <1>1, <1>5 DEF IInv, TypeInv
<1>7. {r \in RacksOf(t) : now(best)[r].settled} = {r \in RacksOf(t) : row'[r].settled}
      /\ {r \in RacksOf(t) : now(best)[r].without} = {r \in RacksOf(t) : row'[r].without}
  BY <1>5
<1>8. asked' \in BOOLEAN
  BY <1>1 DEF IInv, TypeInv
<1>9. \A r \in Rack \ RacksOf(t) : firsts'[r] = firsts[r] /\ row'[r] = row[r]
  BY <1>1 DEF found
<1>10. totals' =
         [analysed |-> totals.analysed + Size(RacksOf(t) \ Analysed),
          settled  |-> totals.settled + Size({r \in RacksOf(t) : row'[r].settled})
                                      - Size(RacksOf(t) \cap Settled),
          without  |-> totals.without + Size({r \in RacksOf(t) : row'[r].without})
                                      - Size(RacksOf(t) \cap Without)]
  BY <1>1, <1>7 DEF WasSettled
<1>11. \A r \in RacksOf(t) : /\ firsts'[r] # << >> /\ row'[r] = Standing(sub[t], firsts'[r])
                            /\ row'[r] \in RowState /\ row'[r] # NoRow
  BY <1>3, <1>5
<1> QED
  BY <1>1, <1>2, <1>4, <1>6, <1>8, <1>9, <1>10, <1>11

LEMMA SubmitTypes ==
  ASSUME IInv, NEW t \in Task, SubmitStart(t) \/ SubmitCommit(t)
  PROVE  TypeInv'
<1>1. CASE SubmitStart(t)
  BY <1>1 DEF SubmitStart, IInv, TypeInv
<1>2. CASE SubmitCommit(t)
  <2>1. seen' \in [Rack -> SUBSET (Identity \cup {None})]
    <3>1. task[t].by \in Identity \cup {None}
      BY DEF TaskState, IInv, TypeInv
    <3>2. seen' = [r \in Rack |-> IF r \in RacksOf(t) THEN seen[r] \cup {task[t].by} ELSE seen[r]]
      BY <1>2, SubmitFacts
    <3> QED
      BY <3>1, <3>2 DEF IInv, TypeInv
  <2>2. task' = [task EXCEPT ![t] = Spare] /\ sub' = [sub EXCEPT ![t] = None]
    BY <1>2, SubmitFacts
  <2>3. task' \in [Task -> TaskState] /\ sub' \in [Task -> Setting \cup {None}]
    BY <2>2, SpareType DEF IInv, TypeInv
  <2>4. /\ firsts' \in [Rack -> Seq(Nat)] /\ row' \in [Rack -> RowState \cup {NoRow}]
        /\ asked' \in BOOLEAN
        /\ UNCHANGED <<status, settings, covered, claim, edit, check, edits, mishaps>>
    BY <1>2, SubmitFacts
  <2> QED
    BY <2>1, <2>3, <2>4 DEF IInv, TypeInv
<1> QED
  BY <1>1, <1>2

LEMMA OtherTypes ==
  ASSUME IInv, [Next]_vars, ~ClaimOpens, ~ClaimGoesOn, ~Submission
  PROVE  TypeInv'
<1> USE DEF IInv, TypeInv
<1>1. CASE UNCHANGED vars
  BY <1>1 DEF vars
<1>2. ASSUME NEW t \in Task, NEW d \in {{}, {task[t].by}}, GiveBack(t, d)
      PROVE  TypeInv'
  <2> DEFINE k == [[[task[t] EXCEPT !.state = "available"] EXCEPT !.by = None]
                     EXCEPT !.declined = task[t].declined \cup d]
  <2>1. k \in TaskState
    <3>1. task[t] \in TaskState /\ task[t].declined \cup d \in SUBSET (Identity \cup {None})
      BY DEF TaskState
    <3>2. [task[t] EXCEPT !.state = "available"] \in TaskState
      BY <3>1 DEF TaskState
    <3>3. [[task[t] EXCEPT !.state = "available"] EXCEPT !.by = None] \in TaskState
      BY <3>2 DEF TaskState
    <3> QED
      BY <3>1, <3>3 DEF TaskState
  <2>2. task' = [task EXCEPT ![t] = k]
    BY <1>2 DEF GiveBack, TaskState
  <2> HIDE DEF k
  <2>3. task' \in [Task -> TaskState]
    BY <2>1, <2>2
  <2> QED
    BY <1>2, <2>3, MishapType DEF GiveBack, Rest
<1>3. ASSUME NEW t \in Task, HourPasses(t)
      PROVE  TypeInv'
  <2>1. task[t] \in TaskState
    OBVIOUS
  <2>2. [task[t] EXCEPT !.declined = {}] \in TaskState
    BY <2>1 DEF TaskState
  <2>3. task' = [task EXCEPT ![t] = [task[t] EXCEPT !.declined = {}]]
    BY <1>3 DEF HourPasses
  <2>4. task' \in [Task -> TaskState]
    BY <2>2, <2>3
  <2> QED
    BY <1>3, <2>4 DEF HourPasses, Rest
<1>4. ASSUME NEW new \in Setting, EditHold(new)
      PROVE  TypeInv'
  BY <1>4, SizesAssumption DEF EditHold
<1>5. CASE EditLock
  BY <1>5 DEF EditLock
<1>6. NoEdit \in [at : {"idle", "held", "locked"}, new : Setting \cup {None}]
  BY DEF NoEdit
<1>7. CASE EditCommit
  <2>1. edit.new \in Setting
    BY <1>7 DEF EditCommit, SubInv
  <2>2. row' \in [Rack -> RowState \cup {NoRow}]
    <3>1. \A r \in Rack : row[r] # NoRow => RowOf(edit.new, row[r].results, row[r].top) \in RowState
      BY <2>1, RowOfType DEF RowState
    <3>2. row' = [r \in Rack |-> IF row[r] = NoRow THEN NoRow
                                 ELSE RowOf(edit.new, row[r].results, row[r].top)]
      BY <1>7 DEF EditCommit, Restated
    <3> QED
      BY <3>1, <3>2
  <2>3. status' \in {"active", "inactive", "completed"} /\ asked' \in BOOLEAN
    BY <1>7 DEF EditCommit
  <2> QED
    BY <1>6, <1>7, <2>1, <2>2, <2>3 DEF EditCommit
<1>8. CASE CheckRead \/ CheckComplete \/ Activate
  BY <1>8 DEF CheckRead, CheckComplete, Activate, CheckRest
<1>9. ASSUME NEW to \in {"inactive", "completed"}, Stop(to)
      PROVE  TypeInv'
  BY <1>9, MishapType DEF Stop
<1>10. CASE Restart
  <2>1. Idle \in [at : {"idle", "next", "pick"}, by : Identity \cup {None}, out : SUBSET Rack]
    BY DEF Idle
  <2> QED
    BY <1>6, <1>10, <2>1, MishapType DEF Restart
<1> QED
  BY <1>1, <1>2, <1>3, <1>4, <1>5, <1>7, <1>8, <1>9, <1>10 DEF Next, Lapse, EditGoesOn

LEMMA TypeStep == ASSUME IInv, [Next]_vars PROVE TypeInv'
BY ClaimTypes, SubmitTypes, OtherTypes DEF Submission

-----------------------------------------------------------------------------
(* Submissions and edits                                                   *)

LEMMA SubStep ==
  ASSUME IInv, [Next]_vars
  PROVE  SubInv'
<1> USE DEF IInv, SubInv
<1>1. CASE UNCHANGED vars
  BY <1>1 DEF vars
<1>2. ASSUME NEW w \in Identity, NEW t \in Task, ClaimAvailable(w, t)
      PROVE  SubInv'
  <2>1. t \in Task /\ task[t].state = "available"
    BY <1>2 DEF ClaimAvailable, In
  <2>2. \A u \in Task : u # t => task'[u] = task[u]
    BY <1>2 DEF ClaimAvailable, TypeInv
  <2> QED
    BY <1>2, <2>1, <2>2 DEF ClaimAvailable, Rest, NoHold
<1>3. ASSUME NEW w \in Identity, ClaimStart(w)
      PROVE  SubInv'
  BY <1>3 DEF ClaimStart, Rest, NoHold
<1>4. ASSUME claim.at # "idle", NEW racks \in SUBSET Rack, Dispatch(racks),
             UNCHANGED <<sub, settings, edit>>
      PROVE  SubInv'
  <2>1. PICK t \in Task, k \in TaskState :
          task[t] = Spare /\ task' = [task EXCEPT ![t] = k] /\ k.state = "claimed"
    BY <1>4, DispatchTasks DEF IInv
  <2>2. \A u \in Task : task[u].state = "claimed" => task'[u].state = "claimed"
    BY <2>1 DEF TypeInv
  <2> QED
    BY <1>4, <2>2
<1>5. CASE ClaimGoesOn /\ UNCHANGED task
  BY <1>5, DispatchTasks
  DEF ClaimGoesOn, ClaimSlice, ClaimInFlight, ClaimReissue, NoWork, Rest, Idle
<1>6. CASE ClaimSlice
  <2>1. claim.at # "idle" /\ NextSlice \in SUBSET Rack /\ Dispatch(NextSlice)
    BY <1>6, SliceFacts DEF ClaimSlice
  <2> QED
    BY <1>4, <1>6, <2>1 DEF ClaimSlice, Rest
<1>7. CASE ClaimReissue /\ ~NoWork
  <2>1. Picked \in SUBSET Rack /\ claim.at # "idle" /\ Dispatch(Picked)
    BY <1>7, PickedFacts DEF ClaimReissue
  <2> QED
    BY <1>4, <1>7, <2>1 DEF ClaimReissue, Rest
<1>8. ASSUME NEW t \in Task, SubmitStart(t)
      PROVE  SubInv'
  BY <1>8 DEF SubmitStart, TypeInv, NoHold
<1>9. ASSUME NEW t \in Task, SubmitCommit(t)
      PROVE  SubInv'
  <2>1. /\ sub[t] # None
        /\ task' = [task EXCEPT ![t] = Spare] /\ sub' = [sub EXCEPT ![t] = None]
        /\ UNCHANGED <<settings, claim, edit>>
    BY <1>9, SubmitFacts DEF IInv
  <2>2. \A u \in Task : sub'[u] # None => u # t /\ sub'[u] = sub[u] /\ task'[u] = task[u]
    BY <2>1 DEF TypeInv
  <2> QED
    BY <2>1, <2>2
<1>10. ASSUME NEW t \in Task, NEW d, GiveBack(t, d)
       PROVE  SubInv'
  <2>1. \A u \in Task : u # t => task'[u] = task[u]
    BY <1>10 DEF GiveBack, TypeInv
  <2> QED
    BY <1>10, <2>1 DEF GiveBack, Rest
<1>11. ASSUME NEW t \in Task, HourPasses(t)
       PROVE  SubInv'
  <2>1. \A u \in Task : task'[u].state = task[u].state
    BY <1>11 DEF HourPasses, TypeInv, TaskState
  <2> QED
    BY <1>11, <2>1 DEF HourPasses, Rest
<1>12. ASSUME NEW new \in Setting, EditHold(new)
       PROVE  SubInv'
  BY <1>12 DEF EditHold
<1>13. CASE EditLock
  BY <1>13 DEF EditLock, ClaimsLocked, TypeInv
<1>14. CASE EditCommit
  BY <1>14 DEF EditCommit, NoEdit
<1>15. CASE CheckRead \/ CheckComplete \/ Activate
  BY <1>15 DEF CheckRead, CheckComplete, Activate, CheckRest
<1>16. ASSUME NEW to, Stop(to)
       PROVE  SubInv'
  BY <1>16 DEF Stop
<1>17. CASE Restart
  BY <1>17 DEF Restart, NoEdit
<1> QED
  BY <1>1, <1>2, <1>3, <1>5, <1>6, <1>7, <1>8, <1>9, <1>10, <1>11, <1>12, <1>13, <1>14, <1>15,
     <1>16, <1>17
  DEF Next, ClaimOpens, ClaimGoesOn, ClaimInFlight, ClaimReissue, NoWork, Submission, Lapse,
      EditGoesOn

-----------------------------------------------------------------------------
(* The racks of tasks                                                      *)

(* No rack comes into a task but by a claim that makes it.                 *)
LEMMA NoTaskMade ==
  ASSUME IInv, covered' = covered, claim' = claim \/ claim' = Idle,
         \A u \in Task : \/ task'[u] = Spare \/ task'[u] = task[u]
                        \/ /\ task'[u].racks = task[u].racks
                           /\ task'[u].state # "spare" /\ task[u].state # "spare",
         \A u \in Task : \A r \in task'[u].racks : row[r] = NoRow => row'[r] = NoRow
  PROVE  TaskInv' /\ OneTaskPerRack'
<1>1. Spare.state = "spare" /\ Spare.racks = {} /\ Idle.at = "idle"
  BY DEF Spare, Idle
<1>2. \A u \in Task : /\ task'[u].racks \subseteq task[u].racks
                      /\ task'[u].state = "spare" => task'[u] = Spare
                      /\ task[u] = Spare => task'[u] = Spare
  BY <1>1 DEF IInv, TaskInv
<1> QED
  BY <1>1, <1>2 DEF IInv, TaskInv, OneTaskPerRack

(* A claim makes one of racks that no task has.                            *)
LEMMA TaskMade ==
  ASSUME IInv, claim.at # "idle", NEW racks \in SUBSET Rack, Dispatch(racks),
         covered \in Nat, covered' \in Nat, covered <= covered', racks \subseteq 1..covered',
         \A u \in Task : task[u].racks \cap racks = {}
  PROVE  TaskInv' /\ OneTaskPerRack'
<1>1. PICK t \in Task, k \in TaskState :
        /\ task[t] = Spare /\ task' = [task EXCEPT ![t] = k]
        /\ k.state = "claimed" /\ k.racks = racks
  BY DispatchTasks
<1>2. claim'.at = "idle"
  BY DispatchTasks DEF Idle
<1>3. task'[t] = k /\ \A u \in Task \ {t} : task'[u] = task[u]
  BY <1>1 DEF IInv, TypeInv
<1>4. \A u \in Task : task'[u].racks \subseteq 1..covered'
  <2>1. 1..covered \subseteq 1..covered'
    OBVIOUS
  <2> QED
    BY <1>1, <1>3, <2>1 DEF IInv, TaskInv
<1>5. \A u \in Task : task'[u].state = "spare" => task'[u] = Spare
  BY <1>1, <1>3 DEF IInv, TaskInv
<1>6. OneTaskPerRack'
  BY <1>1, <1>3 DEF IInv, OneTaskPerRack
<1> QED
  BY <1>2, <1>4, <1>5, <1>6 DEF TaskInv

LEMMA ClaimTasks ==
  ASSUME IInv, ClaimGoesOn \/ \E w \in Identity : ClaimStart(w)
  PROVE  TaskInv' /\ OneTaskPerRack'
<1>1. covered \in Nat /\ NumRacks \in Nat /\ covered <= NumRacks
  BY SizesAssumption DEF IInv, TypeInv
<1>2. CASE \E w \in Identity : ClaimStart(w)
  <2>1. covered' = covered /\ task' = task /\ claim'.at = "next" /\ In("spare") # {}
    BY <1>2 DEF ClaimStart
  <2>2. \E t \in Task : task[t] = Spare
    BY <2>1 DEF In, IInv, TaskInv
  <2> QED
    BY <2>1, <2>2 DEF IInv, TaskInv, OneTaskPerRack
<1>3. CASE NoWork
  BY <1>3, NoTaskMade DEF NoWork, Rest
<1>4. CASE ClaimSlice
  <2> DEFINE next == NextSlice
  <2>1. claim.at # "idle" /\ Dispatch(next) /\ covered' = covered + Size(next)
    BY <1>4 DEF ClaimSlice
  <2>2. /\ next \in SUBSET Rack /\ covered' \in 0..NumRacks
        /\ next \subseteq (covered + 1)..covered'
    BY <1>4, <2>1, SliceFacts DEF ClaimSlice, IInv
  <2> HIDE DEF next
  <2>3. next \subseteq 1..covered' /\ next \cap (1..covered) = {}
    BY <1>1, <2>2
  <2>4. covered <= covered' /\ covered' \in Nat
    <3>1. Size(NextSlice) \in Nat
      BY <2>2, RackFacts, FS_Subset, FS_CardinalityType DEF Size, next
    <3> QED
      BY <1>1, <2>1, <3>1 DEF next
  <2>5. \A u \in Task : task[u].racks \cap next = {}
    BY <2>3 DEF IInv, TaskInv
  <2> QED
    BY <1>1, <2>1, <2>2, <2>3, <2>4, <2>5, TaskMade
<1>5. CASE ClaimInFlight /\ ~NoWork
  <2>1. /\ claim' = [claim EXCEPT !.at = "pick", !.out = InFlight]
        /\ covered' = covered /\ task' = task /\ claim.at = "next" /\ covered >= NumRacks
    BY <1>5 DEF ClaimInFlight
  <2>2. claim'.at = "pick" /\ claim'.out = InFlight
    BY <2>1 DEF IInv, TypeInv
  <2>3. \A t \in Task : \A r \in task[t].racks : row'[r] = NoRow \/ r \in InFlight
    <3>1. ASSUME NEW t \in Task, task[t].state = "spare"
          PROVE  task[t].racks = {}
      BY <3>1 DEF IInv, TaskInv, Spare
    <3>2. ASSUME NEW t \in Task, task[t].state # "spare"
          PROVE  task[t].racks \cap Analysed \subseteq InFlight
      <4>1. t \in In("available") \cup In("claimed")
        BY <3>2 DEF In, IInv, TypeInv, TaskState
      <4> QED
        BY <4>1 DEF InFlight
    <3>3. \A t \in Task : task[t].racks \subseteq Rack
      BY DEF IInv, TypeInv, TaskState
    <3>4. row' = row
      BY <1>5 DEF ClaimInFlight, Rest
    <3> QED
      BY <3>1, <3>2, <3>3, <3>4 DEF Analysed
  <2> QED
    BY <1>1, <2>1, <2>2, <2>3 DEF IInv, TaskInv, OneTaskPerRack
<1>6. CASE ClaimReissue /\ ~NoWork
  <2> DEFINE racks == Picked
  <2>1. claim.at = "pick" /\ Dispatch(racks) /\ covered' = covered
    BY <1>6 DEF ClaimReissue
  <2>2. racks \in SUBSET Rack /\ racks \cap claim.out = {} /\ \A r \in racks : row[r] # NoRow
    BY PickedFacts DEF Analysed
  <2> HIDE DEF racks
  <2>3. racks \subseteq 1..covered /\ \A u \in Task : task[u].racks \cap racks = {}
    BY <2>1, <2>2 DEF IInv, TaskInv, Rack
  <2> QED
    BY <1>1, <2>1, <2>2, <2>3, TaskMade
<1> QED
  BY <1>2, <1>3, <1>4, <1>5, <1>6 DEF ClaimGoesOn, ClaimInFlight, ClaimReissue

LEMMA TaskStep ==
  ASSUME IInv, [Next]_vars
  PROVE  TaskInv' /\ OneTaskPerRack'
<1>1. CASE UNCHANGED <<task, covered>> /\ (claim' = claim \/ claim' = Idle)
            /\ \A r \in Rack : row[r] = NoRow => row'[r] = NoRow
  <2>1. \A u \in Task : task[u].racks \subseteq Rack
    BY DEF IInv, TypeInv, TaskState
  <2> QED
    BY <1>1, <2>1, NoTaskMade
<1>2. CASE UNCHANGED vars \/ CheckRead \/ CheckComplete \/ Activate \/ Restart \/ EditGoesOn
           \/ (\E new \in Setting : EditHold(new))
           \/ (\E to \in {"inactive", "completed"} : Stop(to))
           \/ (\E t \in Task : SubmitStart(t))
  BY <1>1, <1>2 DEF vars, CheckRead, CheckComplete, Activate, Restart, EditGoesOn, EditLock,
                    EditCommit, Restated, EditHold, Stop, SubmitStart, CheckRest
<1>3. ASSUME NEW w \in Identity, NEW t \in Task, ClaimAvailable(w, t)
      PROVE  TaskInv' /\ OneTaskPerRack'
  <2>1. task[t].state = "available" /\ task[t] \in TaskState
    BY <1>3 DEF ClaimAvailable, In, IInv, TypeInv
  <2>2. task'[t].racks = task[t].racks /\ task'[t].state = "claimed"
        /\ \A u \in Task \ {t} : task'[u] = task[u]
    BY <1>3, <2>1 DEF ClaimAvailable, IInv, TypeInv, TaskState
  <2>3. UNCHANGED <<covered, claim, row>>
    BY <1>3 DEF ClaimAvailable, Rest
  <2> QED
    BY <2>1, <2>2, <2>3, NoTaskMade
<1>4. ASSUME NEW t \in Task, SubmitCommit(t)
      PROVE  TaskInv' /\ OneTaskPerRack'
  <2>1. task' = [task EXCEPT ![t] = Spare] /\ UNCHANGED <<covered, claim>>
    BY <1>4, SubmitFacts
  <2>2. task'[t] = Spare /\ \A u \in Task \ {t} : task'[u] = task[u]
    BY <2>1 DEF IInv, TypeInv
  (* The racks whose rows it writes are of no other task.                  *)
  <2>3. ASSUME NEW u \in Task, NEW r \in task'[u].racks  PROVE row'[r] = row[r]
    <3>1. u # t /\ r \in task[u].racks
      BY <2>2, <2>3 DEF Spare
    <3>2. r \in Rack \ RacksOf(t)
      BY <3>1 DEF IInv, OneTaskPerRack, TypeInv, TaskState, RacksOf
    <3> QED
      BY <1>4, <3>2, SubmitFacts
  <2> QED
    BY <2>1, <2>2, <2>3, NoTaskMade
<1>5. ASSUME NEW t \in Task, NEW d, GiveBack(t, d)
      PROVE  TaskInv' /\ OneTaskPerRack'
  <2>1. task[t].state = "claimed" /\ task[t] \in TaskState
    BY <1>5 DEF GiveBack, IInv, TypeInv
  <2>2. task'[t].racks = task[t].racks /\ task'[t].state = "available"
        /\ \A u \in Task \ {t} : task'[u] = task[u]
    BY <1>5, <2>1 DEF GiveBack, IInv, TypeInv, TaskState
  <2>3. UNCHANGED <<covered, claim, row>>
    BY <1>5 DEF GiveBack, Rest
  <2> QED
    BY <2>1, <2>2, <2>3, NoTaskMade
<1>6. ASSUME NEW t \in Task, HourPasses(t)
      PROVE  TaskInv' /\ OneTaskPerRack'
  <2>1. task[t].state # "spare" /\ task[t] \in TaskState
    BY <1>6 DEF HourPasses, IInv, TypeInv, TaskInv, Spare
  <2>2. task'[t].racks = task[t].racks /\ task'[t].state = task[t].state
        /\ \A u \in Task \ {t} : task'[u] = task[u]
    BY <1>6, <2>1 DEF HourPasses, IInv, TypeInv, TaskState
  <2>3. UNCHANGED <<covered, claim, row>>
    BY <1>6 DEF HourPasses, Rest
  <2> QED
    BY <2>1, <2>2, <2>3, NoTaskMade
<1> QED
  BY <1>2, <1>3, <1>4, <1>5, <1>6, ClaimTasks DEF Next, ClaimOpens, Submission, Lapse

-----------------------------------------------------------------------------
(* Rows and totals                                                         *)

RowsInv == \A r \in Rack :
             row[r] = IF firsts[r] = << >> THEN NoRow ELSE Standing(settings, firsts[r])

LEMMA SetFacts ==
  /\ IsFiniteSet(Analysed) /\ IsFiniteSet(Settled) /\ IsFiniteSet(Without)
  /\ Analysed \subseteq Rack /\ Settled \subseteq Rack /\ Without \subseteq Rack
<1>1. Analysed \subseteq Rack /\ Settled \subseteq Rack /\ Without \subseteq Rack
  BY DEF Analysed, Settled, Without
<1> QED
  BY <1>1, RackFacts, FS_Subset

LEMMA SubmitStanding ==
  ASSUME IInv, NEW t \in Task, SubmitCommit(t)
  PROVE  StandingInv'
<1> DEFINE racks   == RacksOf(t)
           settled == {r \in racks : row'[r].settled}
           without == {r \in racks : row'[r].without}
<1>1. /\ sub[t] = settings /\ settings' = settings /\ racks \subseteq Rack
      /\ \A r \in racks : /\ firsts'[r] # << >> /\ row'[r] = Standing(settings, firsts'[r])
                          /\ row'[r] # NoRow
      /\ \A r \in Rack \ racks : firsts'[r] = firsts[r] /\ row'[r] = row[r]
  <2>1. sub[t] # None
    BY SubmitFacts
  <2>2. sub[t] = settings
    BY <2>1 DEF IInv, SubInv
  <2> QED
    BY <2>2, SubmitFacts
<1>2. RowsInv'
  BY <1>1 DEF RowsInv, IInv, StandingInv
<1>3. totals' = [analysed |-> totals.analysed + Size(racks \ Analysed),
                 settled  |-> totals.settled + Size(settled) - Size(racks \cap Settled),
                 without  |-> totals.without + Size(without) - Size(racks \cap Without)]
  BY SubmitFacts
<1>4. IsFiniteSet(racks) /\ settled \in SUBSET racks /\ without \in SUBSET racks
  BY <1>1, RackFacts, FS_Subset
<1>5. Analysed' = (Analysed \ racks) \cup racks
  BY <1>1 DEF Analysed
<1>6. Settled' = (Settled \ racks) \cup settled
  BY <1>1 DEF Analysed, Settled
<1>7. Without' = (Without \ racks) \cup without
  BY <1>1 DEF Analysed, Without
<1> HIDE DEF racks, settled, without
<1>8. Cardinality(Analysed') = Cardinality(Analysed) + Cardinality(racks \ Analysed)
  <2>1. Cardinality(Analysed') = Cardinality(Analysed) + Cardinality(racks)
                                 - Cardinality(racks \cap Analysed)
    BY <1>4, <1>5, SetFacts, Recounted
  <2>2. Cardinality(racks \ Analysed) = Cardinality(racks) - Cardinality(racks \cap Analysed)
    BY <1>4, FS_Difference
  <2>3. /\ Cardinality(Analysed) \in Nat /\ Cardinality(racks) \in Nat
        /\ Cardinality(racks \cap Analysed) \in Nat
    BY <1>4, SetFacts, FS_CardinalityType, FS_Intersection
  <2> QED
    BY <2>1, <2>2, <2>3
<1>9. Cardinality(Settled') = Cardinality(Settled) + Cardinality(settled)
                              - Cardinality(racks \cap Settled)
  BY <1>4, <1>6, SetFacts, Recounted
<1>10. Cardinality(Without') = Cardinality(Without) + Cardinality(without)
                               - Cardinality(racks \cap Without)
  BY <1>4, <1>7, SetFacts, Recounted
<1>11. totals = [analysed |-> Cardinality(Analysed), settled |-> Cardinality(Settled),
                 without |-> Cardinality(Without)]
  BY DEF IInv, StandingInv, Size
<1>12. totals' = [analysed |-> Cardinality(Analysed'), settled |-> Cardinality(Settled'),
                  without |-> Cardinality(Without')]
  BY <1>3, <1>8, <1>9, <1>10, <1>11 DEF Size
<1> QED
  BY <1>2, <1>12 DEF StandingInv, RowsInv, Size

LEMMA EditStanding ==
  ASSUME IInv, EditCommit
  PROVE  StandingInv'
<1> DEFINE new == Restated(edit.new)
<1>1. edit.new \in Setting /\ settings' = edit.new /\ row' = new /\ firsts' = firsts
  BY DEF EditCommit, IInv, SubInv
<1>2. ASSUME NEW r \in Rack, firsts[r] = << >>
      PROVE  row[r] = NoRow /\ new[r] = NoRow
  BY <1>2 DEF IInv, StandingInv, Restated
<1>3. ASSUME NEW r \in Rack, firsts[r] # << >>
      PROVE  row[r] # NoRow /\ new[r] # NoRow /\ new[r] = Standing(edit.new, firsts[r])
  <2>1. firsts[r] \in Seq(Nat) /\ settings \in Setting
    BY DEF IInv, TypeInv
  <2>2. row[r] = Standing(settings, firsts[r])
    BY <1>3 DEF IInv, StandingInv
  <2>3. /\ row[r] # NoRow
        /\ RowOf(edit.new, row[r].results, row[r].top) = Standing(edit.new, firsts[r])
    BY <1>1, <1>3, <2>1, <2>2, StandingType
  <2>4. new[r] = RowOf(edit.new, row[r].results, row[r].top)
    BY <2>3 DEF Restated
  <2>5. Standing(edit.new, firsts[r]) # NoRow
    BY <1>1, <1>3, <2>1, StandingType
  <2> QED
    BY <2>3, <2>4, <2>5
<1> HIDE DEF new
<1>4. RowsInv'
  BY <1>1, <1>2, <1>3 DEF RowsInv
<1>5. Analysed' = Analysed
  BY <1>1, <1>2, <1>3 DEF Analysed
<1>6. totals' = [totals EXCEPT !.settled = Size({r \in Analysed : new[r].settled}),
                               !.without = Size({r \in Analysed : new[r].without})]
  BY DEF EditCommit, new
<1>7. /\ {r \in Analysed : new[r].settled} = Settled'
      /\ {r \in Analysed : new[r].without} = Without'
  BY <1>1, <1>5 DEF Settled, Without
<1>8. totals = [analysed |-> Size(Analysed), settled |-> Size(Settled), without |-> Size(Without)]
  BY DEF IInv, StandingInv
<1>9. totals' = [analysed |-> Size(Analysed), settled |-> Size(Settled)',
                 without |-> Size(Without)']
  BY <1>6, <1>7, <1>8 DEF Size
<1> QED
  BY <1>4, <1>5, <1>9 DEF StandingInv, RowsInv

LEMMA StandingStep ==
  ASSUME IInv, [Next]_vars
  PROVE  StandingInv'
<1>1. CASE UNCHANGED <<settings, firsts, row, totals>>
  BY <1>1 DEF IInv, StandingInv, Analysed, Settled, Without
<1>2. CASE ~(\E t \in Task : SubmitCommit(t)) /\ ~EditCommit
  <2>1. UNCHANGED <<settings, firsts, row, totals>>
    BY <1>2 DEF Next, vars, ClaimOpens, ClaimAvailable, ClaimStart, ClaimGoesOn, ClaimSlice,
      ClaimInFlight, ClaimReissue, NoWork, Rest, Submission, SubmitStart, Lapse, GiveBack,
      HourPasses, EditHold, EditGoesOn, EditLock, CheckRead, CheckComplete, Activate, Stop, Restart,
      CheckRest
  <2> QED
    BY <1>1, <2>1
<1> QED
  BY <1>2, SubmitStanding, EditStanding

-----------------------------------------------------------------------------
LEMMA InitIInv == Init => IInv
<1> SUFFICES ASSUME Init PROVE IInv
  OBVIOUS
<1>1. TypeInv
  <2>1. 0 \in 0..NumRacks /\ 0 \in 0..MaxEdits /\ 0 \in 0..MaxMishaps
    BY SizesAssumption
  <2>2. << >> \in Seq(Nat)
    OBVIOUS
  <2> QED
    BY <2>1, <2>2, SpareType DEF Init, TypeInv, Idle, NoEdit
<1>2. SubInv /\ TaskInv /\ OneTaskPerRack
  BY DEF Init, SubInv, TaskInv, OneTaskPerRack, Idle, NoEdit, Spare
<1>3. StandingInv
  <2>1. Analysed = {} /\ Settled = {} /\ Without = {}
    BY DEF Init, Analysed, Settled, Without
  <2>2. totals = [analysed |-> Size(Analysed), settled |-> Size(Settled), without |-> Size(Without)]
    BY <2>1, FS_EmptySet DEF Init, Size
  <2> QED
    BY <2>2 DEF Init, StandingInv
<1> QED
  BY <1>1, <1>2, <1>3 DEF IInv

LEMMA IInvStep == ASSUME IInv, [Next]_vars PROVE IInv'
BY TypeStep, SubStep, TaskStep, StandingStep DEF IInv

(* Every variable stays in its type.                                       *)
THEOREM TypeCorrect == Spec => []TypeInv
<1>1. IInv => TypeInv
  BY DEF IInv
<1> QED
  BY <1>1, InitIInv, IInvStep, PTL DEF Spec

(* No order of submissions and edits leaves a rack judged by settings that *)
(* are gone, or the job's totals other than a count of its rows            *)
(* (record_consensus, restate_racks).                                      *)
THEOREM StandingSound == Spec => []StandingInv
<1>1. IInv => StandingInv
  BY DEF IInv
<1> QED
  BY <1>1, InitIInv, IInvStep, PTL DEF Spec

(* "A rack is analysed by one task at a time": a claim picks racks for     *)
(* reissue after others have committed between its statements, and they    *)
(* are no task's all the same (record_consensus, next_reissue).            *)
THEOREM OneTask == Spec => []OneTaskPerRack
<1>1. IInv => OneTaskPerRack
  BY DEF IInv
<1> QED
  BY <1>1, InitIInv, IInvStep, PTL DEF Spec

(* The server completes a job only with every rack settled under the       *)
(* settings of that moment, though it reads no row of a rack as it does:   *)
(* the total it compares is their count (complete_unless_purged).          *)
THEOREM CompletedIsSettled == Spec => CompletesSettled
<1>1. ASSUME IInv, [Next]_vars, check, status = "active", status' = "completed", ~check'
      PROVE  Settled = Rack
  <2>1. totals.settled >= NumRacks
    BY <1>1 DEF Next, vars, ClaimOpens, ClaimAvailable, ClaimStart, ClaimGoesOn, ClaimSlice,
      ClaimInFlight, ClaimReissue, NoWork, Submission, SubmitStart, SubmitCommit, Lapse, GiveBack,
      HourPasses, EditHold, EditGoesOn, EditLock, EditCommit, CheckRead, CheckComplete,
      StillSettled, Activate, Stop, Restart, CheckRest
  <2>2. totals.settled = Cardinality(Settled)
    BY <1>1 DEF IInv, StandingInv, Size
  <2>3. Settled \in SUBSET Rack /\ Cardinality(Settled) \in Nat
    BY SetFacts, FS_CardinalityType
  <2>4. Cardinality(Settled) = Cardinality(Rack)
    <3>1. Cardinality(Settled) <= Cardinality(Rack)
      BY <2>3, RackFacts, FS_Subset
    <3> QED
      BY <2>1, <2>2, <2>3, <3>1, RackFacts
  <2> QED
    BY <2>3, <2>4, RackFacts, FS_Subset
<1>2. IInv /\ [Next]_vars =>
        [check /\ status = "active" /\ status' = "completed" /\ ~check' => Settled = Rack]_vars
  BY <1>1
<1> QED
  BY <1>2, InitIInv, IInvStep, PTL DEF Spec, CompletesSettled
=============================================================================
