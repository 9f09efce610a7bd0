---------------------------- MODULE Tasks_proofs -----------------------------
(***************************************************************************)
(* Proofs about Tasks, for any needs, builder tasks and versions of the    *)
(* builders, any pages, and any number of mishaps: a job that is handed    *)
(* out has its files, and a build of the statistics from before an admin's *)
(* change is not published after it.                                       *)
(***************************************************************************)
EXTENDS Tasks, Sequences, SumFacts, TLAPS

-----------------------------------------------------------------------------
(* Derived builds                                                          *)

Rows == [state : {"none", "pending", "building", "built", "failed"}, attempts : Nat,
         lease : Builder \cup {NoBuilder}, lapsed : BOOLEAN]

BuildTypeInv ==
  /\ row \in [De!File -> Rows]
  /\ queue \in Seq(De!File)
  /\ version \in 1..Versions /\ live \in BOOLEAN

AllBuilt == \A f \in De!Needed : row[f].state = "built"

(* What a claim was answered, and what the web process remembers, are of   *)
(* its own builders, and every row they speak of is still built.           *)
BuildWebInv ==
  live => /\ asking # {} => asking = De!Needed /\ AllBuilt
          /\ cache # {} => cache = De!Needed /\ AllBuilt

BuildIInv == BuildTypeInv /\ BuildWebInv

LEMMA NeededIsFile == BuildTypeInv => De!Needed \subseteq De!File
BY DEF BuildTypeInv, De!Needed, De!File

LEMMA SizesAre == \A S : De!Cardinality(S) = Cardinality(S)
BY DEF De!Cardinality, Cardinality

(* The files of a job are queued one after the other.                      *)
LEMMA QueueStays ==
  ASSUME BuildTypeInv, De!Next  PROVE queue' \in Seq(De!File)
<1>1. queue \in Seq(De!File)
  BY DEF BuildTypeInv
<1>2. CASE De!Request
  <2> DEFINE S == De!Unrequested
             f == [n \in Need |-> <<n, version>>]
  <2>1. S \subseteq De!Needed /\ S \subseteq De!File
    BY NeededIsFile DEF De!Unrequested
  <2>2. f \in Surjection(Need, De!Needed)
    BY DEF De!Needed, Surjection
  <2> HIDE DEF f
  <2>3. IsFiniteSet(De!Needed)
    BY <2>2, FS_Surjection, TasksAssumption
  <2>4. Cardinality(S) \in Nat
    BY <2>1, <2>3, FS_Subset, FS_CardinalityType
  <2>5. PICK order \in [1..Cardinality(S) -> S] : queue' = queue \o order
    BY <1>2, SizesAre DEF De!Request
  <2> DEFINE n == Cardinality(S)
  <2>6. n \in Nat /\ order \in [1..n -> S]
    BY <2>4, <2>5
  <2> HIDE DEF n, S
  <2>7. order \in Seq(De!File)
    BY <2>1, <2>6
  <2> QED
    BY <1>1, <2>5, <2>7
<1>3. CASE De!DeleteInput
  BY <1>3 DEF De!DeleteInput
<1>4. CASE ~De!Request /\ ~De!DeleteInput
  <2>1. queue' = queue
    BY <1>4 DEF De!Next, De!ClaimAsks, De!ClaimRemembers, De!Deploy, De!DeleteJob, De!Retry,
                De!Lapse, De!StartRun, De!Take, De!Succeed, De!Fail, De!Die, De!Damage, De!Reimport
  <2> QED
    BY <1>1, <2>1
<1> QED
  BY <1>2, <1>3, <1>4

(* The oldest row that is due is one that is due.                          *)
LEMMA OldestIsDue ==
  ASSUME BuildTypeInv, NEW D \in SUBSET DOMAIN queue, D # {}
  PROVE  LET i == CHOOSE i \in D : \A j \in D : i <= j  IN i \in D /\ queue[i] \in De!File
<1> DEFINE f == [i \in D |-> -i]
<1>1. DOMAIN queue = 1..Len(queue) /\ Len(queue) \in Nat
  BY DEF BuildTypeInv
<1>2. IsFiniteSet(D) /\ \A i \in D : f[i] \in Int /\ i \in Int
  <2>1. IsFiniteSet(DOMAIN queue)
    BY <1>1, FS_Interval
  <2> QED
    BY <1>1, <2>1, FS_Subset
<1>3. PICK d \in D : \A i \in D : f[i] <= f[d]
  <2> HIDE DEF f
  <2> QED
    BY <1>2, LargestAt
<1>4. \A i \in D : d <= i
  BY <1>2, <1>3
<1>5. \A i \in D : queue[i] \in De!File
  BY <1>1 DEF BuildTypeInv
<1> QED
  BY <1>4, <1>5

(* No step but the deletion of a deleted job's inputs undoes a build: an   *)
(* outcome is recorded under a lease only, and only what is failed is      *)
(* retried, or given up when it was building.                              *)
LEMMA BuiltStays ==
  ASSUME BuildTypeInv, De!Next
  PROVE  /\ row' \in [De!File -> Rows]
         /\ live => \A f \in De!File : row[f].state = "built" => row'[f].state = "built"
<1> DEFINE Kept == /\ row' \in [De!File -> Rows]
                   /\ live => \A f \in De!File : row[f].state = "built" => row'[f].state = "built"
<1>1. row \in [De!File -> Rows] /\ \A f \in De!File : row[f] \in Rows
  BY DEF BuildTypeInv
<1>2. De!NoRow \in Rows /\ De!Pending \in Rows
  BY DEF De!NoRow, De!Pending, Rows
(* Those that set one row, or none.                                        *)
<1>3. ASSUME NEW f, NEW r \in Rows, row' = [row EXCEPT ![f] = r],
             f \in De!File => row[f].state # "built" \/ r.state = "built"
      PROVE  Kept
  BY <1>1, <1>3
<1>4. ASSUME row' = row  PROVE Kept
  BY <1>1, <1>4
<1> SUFFICES Kept
  BY DEF Kept
<1> HIDE DEF Kept
<1>5. CASE De!ClaimAsks \/ De!ClaimRemembers \/ De!Deploy \/ De!DeleteJob
  BY <1>4, <1>5 DEF De!ClaimAsks, De!ClaimRemembers, De!Deploy, De!DeleteJob
<1>12. ASSUME NEW b \in Builder, De!StartRun(b) \/ De!Die(b)  PROVE Kept
  BY <1>4, <1>12 DEF De!StartRun, De!Die
<1>13. ASSUME NEW n \in Need, De!Damage(n) \/ De!Reimport(n)  PROVE Kept
  BY <1>4, <1>13 DEF De!Damage, De!Reimport
<1>6. CASE De!Request
  BY <1>1, <1>2, <1>6 DEF De!Request, De!Unrequested, Kept
<1>7. CASE De!DeleteInput
  BY <1>2, <1>7 DEF De!DeleteInput, Kept
<1>8. ASSUME NEW f \in De!File, De!Retry(f)  PROVE Kept
  <2>1. row' = [row EXCEPT ![f] = De!Pending] /\ row[f].state = "failed"
    BY <1>8 DEF De!Retry
  <2> QED
    BY <1>2, <1>3, <2>1
<1>9. ASSUME NEW f \in De!File, De!Lapse(f)  PROVE Kept
  <2> DEFINE r == [row[f] EXCEPT !.lapsed = TRUE]
  <2>1. row' = [row EXCEPT ![f] = r]
    BY <1>9 DEF De!Lapse
  <2>2. r \in Rows /\ r.state = row[f].state
    BY <1>1 DEF Rows
  <2> HIDE DEF r
  <2> QED
    BY <1>3, <2>1, <2>2
<1>10. ASSUME NEW b \in Builder, De!Take(b)  PROVE Kept
  <2>1. \A f \in De!File : /\ De!Outstanding(f) \in Rows
                           /\ row[f].state = "built" => De!Outstanding(f).state = "built"
    BY <1>1 DEF De!Outstanding, De!Dead, Rows
  <2> DEFINE open == {i \in DOMAIN queue : De!Due(queue[i], task[b].version)}
             f   == queue[CHOOSE i \in open : \A j \in open : i <= j]
             n   == row[f].attempts + 1
             r   == [state |-> "building", attempts |-> n, lease |-> b, lapsed |-> FALSE]
  <2>2. CASE open = {}
    BY <1>10, <2>1, <2>2 DEF De!Take, Kept
  <2>3. CASE open # {}
    <3>1. row' = [g \in De!File |-> IF g = f THEN r ELSE De!Outstanding(g)]
      BY <1>10, <2>3 DEF De!Take
    <3>2. \E i \in open : f = queue[i] /\ queue[i] \in De!File
      <4>1. open \in SUBSET DOMAIN queue
        OBVIOUS
      <4> HIDE DEF open
      <4> QED
        BY <2>3, <4>1, OldestIsDue
    <3>3. f \in De!File /\ row[f].state # "built"
      BY <3>2 DEF De!Due
    <3> HIDE DEF f, open
    <3>4. n \in Nat
      BY <1>1, <3>3 DEF Rows
    <3> HIDE DEF n
    <3>5. r \in Rows
      BY <3>4 DEF Rows
    <3> HIDE DEF r
    <3> QED
      BY <2>1, <3>1, <3>3, <3>5 DEF Kept
  <2> QED
    BY <2>2, <2>3
<1>11. ASSUME NEW b \in Builder, De!Succeed(b) \/ De!Fail(b)  PROVE Kept
  <2> DEFINE f == task[b].file
  <2>1. CASE ~De!Holds(b)
    BY <1>4, <1>11, <2>1 DEF De!Succeed, De!Fail
  <2>2. CASE De!Holds(b) /\ f \notin De!File
    <3>1. \E x, y, z : row' = [row EXCEPT ![f].state = x, ![f].lease = y, ![f].lapsed = z]
      <4>1. CASE De!Succeed(b)
        BY <2>2, <4>1 DEF De!Succeed
      <4>2. CASE De!Fail(b)
        BY <2>2, <4>2 DEF De!Fail
      <4> QED
        BY <1>11, <4>1, <4>2
    <3> HIDE DEF f
    <3>2. row' = row
      BY <1>1, <2>2, <3>1
    <3> QED
      BY <1>4, <3>2
  <2>3. CASE De!Holds(b) /\ f \in De!File
    <3> DEFINE R(x, y) == [row EXCEPT ![f].state = x, ![f].lease = NoBuilder, ![f].lapsed = y]
               over    == row[f].attempts >= MaxAttempts
    <3>1. \/ row' = R("built", TRUE) \/ row' = R("failed", TRUE) \/ row' = R("pending", FALSE)
      <4>1. CASE De!Succeed(b)
        BY <2>3, <4>1 DEF De!Succeed
      <4>2. CASE De!Fail(b) /\ over
        BY <2>3, <4>2 DEF De!Fail
      <4>3. CASE De!Fail(b) /\ ~over
        <5>1. row[f].attempts \in Nat
          BY <1>1, <2>3 DEF Rows
        <5>2. over = FALSE
          BY <4>3, <5>1, TasksAssumption
        <5> QED
          BY <2>3, <4>3, <5>2 DEF De!Fail
      <4> QED
        BY <1>11, <4>1, <4>2, <4>3
    <3> HIDE DEF f
    <3>2. ASSUME NEW x \in {"built", "failed", "pending"}, NEW y \in BOOLEAN, row' = R(x, y)
          PROVE  Kept
      <4> DEFINE p == row[f]
                 p1 == [p EXCEPT !.state = x]
                 p2 == [p1 EXCEPT !.lease = NoBuilder]
                 p3 == [p2 EXCEPT !.lapsed = y]
      <4>1. row' = [row EXCEPT ![f] = p3]
        BY <1>1, <2>3, <3>2
      <4>2. p \in Rows /\ p.state = "building"
        BY <1>1, <2>3 DEF De!Holds, f
      <4> HIDE DEF p
      <4>3. p1 \in Rows
        BY <4>2 DEF Rows
      <4> HIDE DEF p1
      <4>4. p2 \in Rows
        BY <4>3 DEF Rows
      <4> HIDE DEF p2
      <4>5. p3 \in Rows
        BY <4>4 DEF Rows
      <4> HIDE DEF p3
      <4> QED
        BY <1>3, <4>1, <4>2, <4>5 DEF p
    <3> QED
      BY <3>1, <3>2
  <2> QED
    BY <2>1, <2>2, <2>3
<1> QED
  BY <1>5, <1>6, <1>7, <1>8, <1>9, <1>10, <1>11, <1>12, <1>13 DEF De!Next

LEMMA BuildStep == ASSUME BuildIInv, De!Next  PROVE BuildIInv'
<1>1. BuildTypeInv'
  <2>1. version \in 1..Versions /\ live \in BOOLEAN /\ Versions \in Nat
    BY TasksAssumption DEF BuildIInv, BuildTypeInv
  <2>2. CASE De!Deploy
    BY <2>1, <2>2, BuiltStays, QueueStays DEF De!Deploy, BuildIInv, BuildTypeInv, De!File
  <2>3. CASE ~De!Deploy
    <3>1. version' = version /\ live' \in BOOLEAN
      BY <2>1, <2>3
         DEF De!Next, De!Request, De!DeleteInput, De!ClaimAsks, De!ClaimRemembers, De!DeleteJob,
             De!Retry, De!Lapse, De!StartRun, De!Take, De!Succeed, De!Fail, De!Die, De!Damage,
             De!Reimport, De!web
    <3> QED
      BY <2>1, <3>1, BuiltStays, QueueStays DEF BuildIInv, BuildTypeInv
  <2> QED
    BY <2>2, <2>3
<1>2. live' => live
  BY DEF BuildIInv, BuildTypeInv, De!Next, De!Request, De!DeleteInput, De!ClaimAsks,
         De!ClaimRemembers, De!Deploy, De!DeleteJob, De!Retry, De!Lapse, De!StartRun, De!Take, De!Succeed, De!Fail,
         De!Die, De!Damage, De!Reimport, De!web
<1>3. ASSUME live', version' = version, AllBuilt  PROVE AllBuilt' /\ De!Needed' = De!Needed
  BY <1>2, <1>3, BuiltStays, NeededIsFile DEF BuildIInv, AllBuilt, De!Needed
<1>4. CASE De!ClaimAsks
  <2>1. asking' = De!Needed /\ AllBuilt /\ UNCHANGED <<live, version, cache>> /\ cache = {}
    BY <1>4 DEF De!ClaimAsks, De!Built, AllBuilt
  <2> QED
    BY <1>1, <1>3, <2>1 DEF BuildIInv, BuildWebInv
<1>5. CASE De!ClaimRemembers
  BY <1>1, <1>3, <1>5 DEF De!ClaimRemembers, BuildIInv, BuildWebInv
<1>6. CASE De!Deploy \/ De!DeleteJob
  BY <1>1, <1>6 DEF De!Deploy, De!DeleteJob, BuildIInv, BuildWebInv
<1>7. CASE ~De!ClaimAsks /\ ~De!ClaimRemembers /\ ~De!Deploy /\ ~De!DeleteJob
  <2>1. UNCHANGED <<live, version, asking, cache>>
    BY <1>7 DEF De!Next, De!Request, De!DeleteInput, De!Retry, De!Lapse, De!StartRun, De!Take,
                De!Succeed, De!Fail, De!Die, De!Damage, De!Reimport, De!web
  <2> QED
    BY <1>1, <1>3, <2>1 DEF BuildIInv, BuildWebInv
<1> QED
  BY <1>4, <1>5, <1>6, <1>7

-----------------------------------------------------------------------------
(* Pushes of statistics                                                    *)

BuildRecs == [at : {"idle", "building", "built"}, read : Nat, forgotten : BOOLEAN]
LoopRecs  == [build : BuildRecs, round : Nat,
              at : {"none", "round", "building", "publishing", "cooling"}]
KeptRecs  == [payload : Nat, young : BOOLEAN]
OwedRecs  == [change : Nat, forgot : BOOLEAN]

PushTypeInv ==
  /\ data \in Nat /\ owed \in OwedRecs /\ cut \in Nat
  /\ loop \in LoopRecs /\ view \in BuildRecs /\ kept \in KeptRecs

(* A build is of what there was at the cut, or was told of it.             *)
Current(b) == b.forgotten \/ cut <= b.read

(* What is forgotten was there; and no build under way is from before what *)
(* was forgotten last, unless it was forgotten itself.                     *)
PushBuildInv ==
  /\ cut <= data /\ owed.change <= data
  /\ loop.at = "building" => loop.build.at = "building" /\ Current(loop.build)
  /\ \/ view.at = "building" /\ Current(view)
     \/ view = Pu!NoBuild

PushKeptInv == kept.payload # 0 => cut <= kept.payload

PushIInv == PushTypeInv /\ PushBuildInv /\ PushKeptInv

LEMMA ForgottenIs ==
  ASSUME NEW b \in BuildRecs
  PROVE  /\ Pu!Forgotten(b) \in BuildRecs /\ Pu!Forgotten(b).at = b.at
         /\ b.at = "building" => Pu!Forgotten(b).forgotten
         /\ b = Pu!NoBuild => Pu!Forgotten(b) = Pu!NoBuild
<1>1. CASE b.at = "building"
  <2>1. Pu!Forgotten(b) = [b EXCEPT !.forgotten = TRUE]
    BY <1>1 DEF Pu!Forgotten
  <2>2. b # Pu!NoBuild
    BY <1>1 DEF Pu!NoBuild
  <2> QED
    BY <2>1, <2>2 DEF BuildRecs
<1>2. CASE b.at # "building"
  <2>1. (b.at = "building") = FALSE
    BY <1>2
  <2>2. Pu!Forgotten(b) = [b EXCEPT !.forgotten = FALSE]
    BY <2>1 DEF Pu!Forgotten
  <2>3. b = Pu!NoBuild => b.forgotten = FALSE
    BY DEF Pu!NoBuild
  <2> QED
    BY <1>2, <2>2, <2>3 DEF BuildRecs
<1> QED
  BY <1>1, <1>2

(* An ask leaves the loop be, or begins a round.                           *)
LEMMA AskIs ==
  ASSUME NEW l \in LoopRecs, NEW urgent, NEW change, Pu!Ask(l, urgent, change)
  PROVE  loop' \in LoopRecs /\ (loop' = l \/ loop'.at = "round")
<1>1. CASE loop' = l
  BY <1>1
<1>2. CASE loop' # l
  <2> DEFINE l1 == [l EXCEPT !.at = "round"]
  <2>1. loop' = [l EXCEPT !.at = "round", !.round = 1]
    BY <1>2 DEF Pu!Ask
  <2>2. loop' = [l1 EXCEPT !.round = 1]
    BY <2>1 DEF LoopRecs
  <2>3. l1 \in LoopRecs /\ l1.at = "round"
    BY DEF LoopRecs
  <2> HIDE DEF l1
  <2> QED
    BY <2>2, <2>3 DEF LoopRecs
<1> QED
  BY <1>1, <1>2

LEMMA IdleBuild == /\ Pu!NoBuild \in BuildRecs /\ Pu!None = 0 /\ Pu!NoBuild.read = 0
                   /\ Pu!NoBuild.at = "idle"
                   /\ Pu!NotKept \in KeptRecs /\ Pu!NotKept.payload = 0
                   /\ Pu!NotOwed \in OwedRecs /\ Pu!NotOwed.change = 0
BY DEF Pu!NoBuild, Pu!None, BuildRecs, Pu!NotKept, KeptRecs, Pu!NotOwed, OwedRecs

(* A build that is kept is not from before the cut.                        *)
LEMMA KeptIs ==
  ASSUME PushTypeInv, PushKeptInv, NEW b \in BuildRecs, Current(b) \/ b = Pu!NoBuild
  PROVE  Pu!Kept(b) \in KeptRecs /\ (Pu!Kept(b).payload # 0 => cut <= Pu!Kept(b).payload)
<1>1. CASE Pu!Superseded(b)
  BY <1>1, IdleBuild DEF Pu!Kept, PushTypeInv, PushKeptInv
<1>2. CASE ~Pu!Superseded(b)
  <2>1. Pu!Kept(b) = [payload |-> b.read, young |-> TRUE]
    BY <1>2 DEF Pu!Kept
  <2>2. b.read = 0 \/ cut <= b.read
    BY <1>2, IdleBuild DEF Pu!Superseded, Current
  <2> QED
    BY <2>1, <2>2 DEF KeptRecs, BuildRecs
<1> QED
  BY <1>1, <1>2

(* A build told to forget is current whatever the cut.                     *)
LEMMA ForgottenLoop ==
  ASSUME PushTypeInv, PushBuildInv
  PROVE  LET l == [loop EXCEPT !.build = Pu!Forgotten(loop.build)]
         IN  /\ l \in LoopRecs
             /\ l.at = "building" => l.build.at = "building" /\ l.build.forgotten
<1> DEFINE b == Pu!Forgotten(loop.build)
           l == [loop EXCEPT !.build = b]
<1>1. loop \in LoopRecs /\ loop.build \in BuildRecs
      /\ (loop.at = "building" => loop.build.at = "building")
  BY DEF PushTypeInv, PushBuildInv, LoopRecs
<1>2. b \in BuildRecs /\ b.at = loop.build.at /\ (loop.build.at = "building" => b.forgotten)
  BY <1>1, ForgottenIs
<1> HIDE DEF b
<1>3. l \in LoopRecs /\ l.at = loop.at /\ l.build = b
  BY <1>1, <1>2 DEF LoopRecs
<1> QED
  BY <1>1, <1>2, <1>3 DEF b

LEMMA PushStep == ASSUME PushIInv, Pu!Next  PROVE PushIInv'
<1>1. /\ data \in Nat /\ owed \in OwedRecs /\ cut \in Nat /\ loop \in LoopRecs
      /\ view \in BuildRecs /\ kept \in KeptRecs
      /\ owed.change \in Nat /\ cut <= data /\ owed.change <= data
      /\ loop.at = "building" => loop.build.at = "building" /\ Current(loop.build)
      /\ (view.at = "building" /\ Current(view)) \/ view = Pu!NoBuild
      /\ loop.build \in BuildRecs /\ PushTypeInv /\ PushBuildInv /\ PushKeptInv
  BY DEF PushIInv, PushTypeInv, PushBuildInv, LoopRecs, OwedRecs
(* The builds under way and what is kept are left alone.                   *)
<1>2. ASSUME UNCHANGED <<cut, view, kept>>, loop' \in LoopRecs,
             loop' = loop \/ loop'.at # "building",
             data' \in Nat, data <= data', owed' \in OwedRecs, owed'.change <= data'
      PROVE  PushIInv'
  <2>2. PushTypeInv'
    BY <1>1, <1>2 DEF PushTypeInv
  <2>3. PushKeptInv'
    BY <1>1, <1>2 DEF PushKeptInv
  <2>4. PushBuildInv'
    BY <1>1, <1>2 DEF PushBuildInv, Current
  <2> QED
    BY <2>2, <2>3, <2>4 DEF PushIInv
<1>3. CASE Pu!Submission
  <2>1. data' = data + 1 /\ UNCHANGED <<owed, cut, view, kept>> /\ Pu!Ask(loop, FALSE, data')
    BY <1>3 DEF Pu!Submission
  <2>2. loop' \in LoopRecs /\ (loop' = loop \/ loop'.at = "round")
    BY <1>1, <2>1, AskIs
  <2> QED
    BY <1>1, <1>2, <2>1, <2>2
<1>4. CASE Pu!ChangeCommits
  <2>1. owed' = [change |-> data + 1, forgot |-> FALSE]
        /\ data' = data + 1 /\ UNCHANGED <<cut, view, kept, loop>>
    BY <1>4 DEF Pu!ChangeCommits
  <2>2. owed' \in OwedRecs /\ owed'.change = data + 1
    BY <1>1, <2>1 DEF OwedRecs
  <2> QED
    BY <1>1, <1>2, <2>1, <2>2
(* What is kept is forgotten, and so are the builds under way.             *)
<1>5. CASE Pu!Forgets
  <2> DEFINE l == [loop EXCEPT !.build = Pu!Forgotten(loop.build)]
  <2>1. /\ data' = data /\ owed' = [owed EXCEPT !.forgot = TRUE] /\ cut' = owed.change
        /\ kept' = Pu!NotKept /\ view' = Pu!Forgotten(view) /\ loop' = l
    BY <1>5 DEF Pu!Forgets
  <2>2. owed' \in OwedRecs /\ owed'.change = owed.change
    BY <1>1, <2>1 DEF OwedRecs
  <2>3. l \in LoopRecs /\ (l.at = "building" => l.build.at = "building" /\ l.build.forgotten)
    BY <1>1, ForgottenLoop
  <2> HIDE DEF l
  <2>4. view' \in BuildRecs /\ ((view'.at = "building" /\ view'.forgotten) \/ view' = Pu!NoBuild)
    BY <1>1, <2>1, ForgottenIs
  <2>5. PushTypeInv' /\ PushKeptInv'
    BY <1>1, <2>1, <2>2, <2>3, <2>4, IdleBuild DEF PushTypeInv, PushKeptInv
  <2>6. PushBuildInv'
    BY <1>1, <2>1, <2>2, <2>3, <2>4 DEF PushBuildInv, Current
  <2> QED
    BY <2>5, <2>6 DEF PushIInv
<1>15. CASE Pu!PushAfterChange
  <2>1. owed' = Pu!NotOwed /\ Pu!Ask(loop, TRUE, owed.change) /\ UNCHANGED <<data, cut, view, kept>>
    BY <1>15 DEF Pu!PushAfterChange
  <2>2. loop' \in LoopRecs /\ (loop' = loop \/ loop'.at = "round")
    BY <1>1, <2>1, AskIs
  <2> QED
    BY <1>1, <1>2, <2>1, <2>2, IdleBuild
(* A build that starts reads everything that was forgotten so far.         *)
<1>16. /\ Pu!Started \in BuildRecs /\ Pu!Started.at = "building" /\ Pu!Started.read = data
       /\ Current(Pu!Started)
  <2>1. /\ Pu!Started \in BuildRecs /\ Pu!Started.at = "building" /\ Pu!Started.read = data
    BY <1>1 DEF Pu!Started, Pu!NoBuild, BuildRecs
  <2> QED
    BY <1>1, <2>1 DEF Current
<1>6. CASE Pu!LoopBuilds
  <2>1. CASE gone
    <3>1. /\ loop' = [build |-> Pu!NoBuild, at |-> "none", round |-> 0]
          /\ UNCHANGED <<data, owed, cut, view, kept>>
      BY <1>6, <2>1 DEF Pu!LoopBuilds
    <3>2. loop' \in LoopRecs /\ loop'.at = "none"
      BY <3>1, IdleBuild DEF LoopRecs
    <3> QED
      BY <1>1, <1>2, <3>1, <3>2
  <2>2. CASE ~gone
    <3> DEFINE l1 == [loop EXCEPT !.at = "building"]
    <3>1. loop' = [l1 EXCEPT !.build = Pu!Started] /\ UNCHANGED <<data, owed, cut, view, kept>>
      BY <1>1, <1>6, <2>2 DEF Pu!LoopBuilds, LoopRecs
    <3>3. l1 \in LoopRecs /\ l1.at = "building"
      BY <1>1 DEF LoopRecs
    <3> HIDE DEF l1
    <3>4. loop' \in LoopRecs /\ loop'.build = Pu!Started
      BY <1>16, <3>1, <3>3 DEF LoopRecs
    <3>5. loop'.build.at = "building" /\ (loop'.build.forgotten \/ cut <= loop'.build.read)
      BY <1>16, <3>4 DEF Current
    <3>6. PushTypeInv' /\ PushKeptInv'
      BY <1>1, <3>1, <3>4 DEF PushTypeInv, PushKeptInv
    <3>7. PushBuildInv'
      BY <1>1, <3>1, <3>5 DEF PushBuildInv, Current
    <3> QED
      BY <3>6, <3>7 DEF PushIInv
  <2> QED
    BY <2>1, <2>2
<1>7. Pu!ToCool(loop) \in LoopRecs /\ Pu!ToCool(loop).at = "cooling"
  <2> DEFINE l1 == [loop EXCEPT !.at = "cooling"]
  <2>1. Pu!ToCool(loop) = [l1 EXCEPT !.build = Pu!NoBuild]
    BY <1>1 DEF Pu!ToCool, LoopRecs
  <2>2. l1 \in LoopRecs /\ l1.at = "cooling"
    BY <1>1 DEF LoopRecs
  <2> HIDE DEF l1
  <2> QED
    BY <2>1, <2>2, IdleBuild DEF LoopRecs
(* A build that ends may be kept.                                          *)
<1>17. ASSUME UNCHANGED <<data, owed, cut>>, NEW b \in BuildRecs, kept' = Pu!Kept(b),
              Current(b) \/ b = Pu!NoBuild,
              view' = view \/ view' = Pu!NoBuild, loop' \in LoopRecs,
              loop' = loop \/ loop'.at # "building"
       PROVE  PushIInv'
  <2>1. kept' \in KeptRecs /\ (kept'.payload # 0 => cut <= kept'.payload)
    BY <1>1, <1>17, KeptIs
  <2>2. PushTypeInv' /\ PushKeptInv'
    BY <1>1, <1>17, <2>1, IdleBuild DEF PushTypeInv, PushKeptInv
  <2>3. PushBuildInv'
    BY <1>1, <1>17 DEF PushBuildInv, Current
  <2> QED
    BY <2>2, <2>3 DEF PushIInv
<1>8. CASE Pu!LoopKeeps
  <2> DEFINE n  == loop.round + 1
             l1 == [loop EXCEPT !.at = "publishing"]
             b1 == [loop.build EXCEPT !.at = "built"]
  <2>1. /\ UNCHANGED <<data, owed, cut, view>> /\ loop.at = "building" /\ kept' = Pu!Kept(loop.build)
        /\ \/ loop' = [loop EXCEPT !.at = "publishing", !.build.at = "built"]
           \/ loop' = Pu!ToCool(loop)
           \/ loop' = [build |-> Pu!NoBuild, at |-> "round", round |-> n]
    BY <1>8 DEF Pu!LoopKeeps
  <2>2. n \in Nat /\ b1 \in BuildRecs /\ l1 \in LoopRecs /\ l1.at = "publishing"
    BY <1>1 DEF LoopRecs, BuildRecs
  <2>3. loop' = [loop EXCEPT !.at = "publishing", !.build.at = "built"]
          => loop' = [l1 EXCEPT !.build = b1]
    BY <1>1 DEF LoopRecs
  <2> HIDE DEF n, l1, b1
  <2>4. loop' \in LoopRecs /\ loop'.at # "building"
    BY <1>7, <2>1, <2>2, <2>3, IdleBuild DEF LoopRecs
  <2> QED
    BY <1>1, <1>17, <2>1, <2>4
<1>18. CASE Pu!LoopPublishes
  <2>1. UNCHANGED <<data, owed, cut, view, kept>> /\ loop' = Pu!ToCool(loop)
    BY <1>18 DEF Pu!LoopPublishes
  <2> QED
    BY <1>1, <1>2, <1>7, <2>1
<1>9. CASE Pu!LoopFails
  <2>1. UNCHANGED <<data, owed, cut, view, kept>> /\ loop' = Pu!ToCool(loop)
    BY <1>9 DEF Pu!LoopFails
  <2> QED
    BY <1>1, <1>2, <1>7, <2>1
<1>10. CASE Pu!EndPush
  <2>1. PICK at \in {"round", "none"}, n \in {0, 1} :
          /\ loop' = [[loop EXCEPT !.at = at] EXCEPT !.round = n]
          /\ UNCHANGED <<data, owed, cut, view, kept>>
    <3>1. \/ loop' = [loop EXCEPT !.at = "round", !.round = 1]
          \/ loop' = [loop EXCEPT !.at = "none", !.round = 0]
      BY <1>10 DEF Pu!EndPush
    <3>2. \/ loop' = [[loop EXCEPT !.at = "round"] EXCEPT !.round = 1]
          \/ loop' = [[loop EXCEPT !.at = "none"] EXCEPT !.round = 0]
      BY <1>1, <3>1 DEF LoopRecs
    <3> QED
      BY <1>10, <3>2 DEF Pu!EndPush
  <2> DEFINE l1 == [loop EXCEPT !.at = at]
  <2>2. l1 \in LoopRecs /\ l1.at = at /\ loop' = [l1 EXCEPT !.round = n] /\ n \in Nat
    BY <1>1, <2>1 DEF LoopRecs
  <2> HIDE DEF l1
  <2>3. loop' \in LoopRecs /\ loop'.at = at
    BY <2>2 DEF LoopRecs
  <2> QED
    BY <1>1, <1>2, <2>1, <2>3
<1>12. CASE Pu!ReaderBuilt \/ \E p \in Page : Pu!ViewBuilt(p)
  <2>1. UNCHANGED <<data, owed, cut, loop>> /\ kept' = Pu!Kept(view) /\ view' = Pu!NoBuild
    BY <1>12 DEF Pu!ReaderBuilt, Pu!ViewBuilt, Pu!Keeps
  <2> QED
    BY <1>1, <1>17, <2>1
<1>13. CASE Pu!Delete
  <2> DEFINE l == [loop EXCEPT !.build = Pu!Forgotten(loop.build)]
  <2>1. /\ UNCHANGED <<data, owed, cut>> /\ loop' = l
        /\ view' = Pu!NoBuild /\ kept' = Pu!NotKept
    BY <1>13 DEF Pu!Delete
  <2>2. l \in LoopRecs /\ (l.at = "building" => l.build.at = "building" /\ l.build.forgotten)
    BY <1>1, ForgottenLoop
  <2> HIDE DEF l
  <2>3. PushTypeInv' /\ PushKeptInv'
    BY <1>1, <2>1, <2>2, IdleBuild DEF PushTypeInv, PushKeptInv
  <2>4. PushBuildInv'
    BY <1>1, <2>1, <2>2 DEF PushBuildInv, Current
  <2> QED
    BY <2>3, <2>4 DEF PushIInv
<1>19. CASE Pu!ReaderBuilds \/ \E p \in Page : Pu!ViewBuilds(p)
  <2>1. UNCHANGED <<data, owed, cut, loop, kept>> /\ view' = Pu!Started
    BY <1>19 DEF Pu!ReaderBuilds, Pu!ViewBuilds
  <2>2. view'.at = "building" /\ (view'.forgotten \/ cut <= view'.read)
    BY <1>16, <2>1 DEF Current
  <2>3. PushTypeInv' /\ PushKeptInv'
    BY <1>1, <1>16, <2>1 DEF PushTypeInv, PushKeptInv
  <2>4. PushBuildInv'
    BY <1>1, <2>1, <2>2 DEF PushBuildInv, Current
  <2> QED
    BY <2>3, <2>4 DEF PushIInv
<1>20. CASE Pu!Grows
  <2>1. /\ UNCHANGED <<data, owed, cut, loop, view>>
        /\ kept' = [kept EXCEPT !.young = FALSE] \/ kept' = Pu!NotKept
    BY <1>20 DEF Pu!Grows
  <2>2. kept' \in KeptRecs /\ (kept'.payload = kept.payload \/ kept'.payload = 0)
    BY <1>1, <2>1, IdleBuild DEF KeptRecs
  <2>3. PushTypeInv' /\ PushKeptInv'
    BY <1>1, <2>1, <2>2 DEF PushTypeInv, PushKeptInv
  <2>4. PushBuildInv'
    BY <1>1, <2>1 DEF PushBuildInv, Current
  <2> QED
    BY <2>3, <2>4 DEF PushIInv
<1>14. CASE \E p \in Page : Pu!Subscribe(p) \/ Pu!ReadsKept(p) \/ Pu!Close(p)
  <2>1. UNCHANGED <<data, owed, cut, loop, view, kept>>
    BY <1>14 DEF Pu!Subscribe, Pu!ReadsKept, Pu!Close
  <2> QED
    BY <1>1, <1>2, <2>1
<1> QED
  BY <1>3, <1>4, <1>5, <1>6, <1>8, <1>9, <1>10, <1>12, <1>13, <1>14, <1>15, <1>18, <1>19, <1>20
  DEF Pu!Next

-----------------------------------------------------------------------------
(* The sum                                                                 *)

IInv == BuildIInv /\ PushIInv

LEMMA InitIInv == Init => IInv
<1> SUFFICES ASSUME Init PROVE IInv
  OBVIOUS
<1>1. BuildIInv
  <2>1. De!NoRow \in Rows
    BY DEF De!NoRow, Rows
  <2>2. row = [f \in De!File |-> De!NoRow] /\ queue = << >> /\ live = TRUE /\ version = 1
        /\ asking = {} /\ cache = {}
    BY DEF Init, De!Init
  <2>3. 1 \in 1..Versions
    BY TasksAssumption
  <2> QED
    BY <2>1, <2>2, <2>3 DEF BuildIInv, BuildTypeInv, BuildWebInv
<1>2. PushIInv
  <2>1. /\ data = 1 /\ owed = Pu!NotOwed /\ cut = 0 /\ view = Pu!NoBuild /\ kept = Pu!NotKept
        /\ loop = [build |-> Pu!NoBuild, round |-> 0, at |-> "none"]
    BY IdleBuild DEF Init, Pu!Init
  <2>2. loop \in LoopRecs /\ loop.at = "none"
    BY <2>1, IdleBuild DEF LoopRecs
  <2> QED
    BY <2>1, <2>2, IdleBuild DEF PushIInv, PushTypeInv, PushBuildInv, PushKeptInv
<1> QED
  BY <1>1, <1>2 DEF IInv

LEMMA SumStep == ASSUME IInv, [Next]_vars  PROVE IInv'
<1>1. ASSUME UNCHANGED buildVars  PROVE BuildIInv'
  BY <1>1 DEF IInv, buildVars, BuildIInv, BuildTypeInv, BuildWebInv, AllBuilt, De!Needed
<1>2. ASSUME UNCHANGED pushVars  PROVE PushIInv'
  BY <1>2 DEF IInv, pushVars, PushIInv, PushTypeInv, PushBuildInv, PushKeptInv, Current
<1>3. CASE Builds(De!Next)
  BY <1>2, <1>3, BuildStep DEF Builds, IInv
<1>4. CASE Pushes(Pu!Next)
  BY <1>1, <1>4, PushStep DEF Pushes, IInv
<1>5. CASE UNCHANGED vars
  BY <1>1, <1>2, <1>5 DEF vars, IInv
<1> QED
  BY <1>3, <1>4, <1>5 DEF Next

LEMMA Inductive == Spec => []IInv
BY InitIInv, SumStep, PTL DEF Spec

(* A job that is handed out has every file its workers need to build built *)
(* by the builders there are now, whatever a builder that lost its lease,  *)
(* a retry or a deletion has done since the web process remembered it      *)
(* (lease_outcome, DerivedCache).                                          *)
THEOREM HandedOut == Spec => []HandedOutIsBuilt
<1>1. IInv => HandedOutIsBuilt
  BY DEF IInv, BuildIInv, BuildWebInv, AllBuilt, HandedOutIsBuilt, De!HandedOutIsBuilt
<1> QED
  BY <1>1, Inductive, PTL

(* What is kept of a job's statistics for its pages is never from before   *)
(* an admin's change that forgot it, however slow the build was: the       *)
(* change marks every build under way (jobstats::forget, build_payload).   *)
THEOREM KeptIsFresh == Spec => []KeptIsCurrent
<1>1. IInv => KeptIsCurrent
  BY IdleBuild DEF IInv, PushIInv, PushTypeInv, PushKeptInv, KeptRecs, KeptIsCurrent, Pu!KeptIsCurrent
<1> QED
  BY <1>1, Inductive, PTL
=============================================================================
