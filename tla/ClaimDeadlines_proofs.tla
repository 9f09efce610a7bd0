----------------------- MODULE ClaimDeadlines_proofs ------------------------
(***************************************************************************)
(* No server's fault costs a worker its work, and a job is set aside when, *)
(* and only when, its tasks hit the limit in a row: proved for any claims, *)
(* timeout, grace, limits and streak, and any number of outages, purges    *)
(* and changes by admins.                                                  *)
(*                                                                         *)
(* The first rests on the graces: a live worker that can be heard has been *)
(* heard within a tick, unless the server has only just come back, or a    *)
(* purge has only just let go, and then lapses are not looked for          *)
(* (FreshInv).  The second on what the run counts: every overrun that was  *)
(* counted and whose deadline came since it began, and the declines since; *)
(* of those in the very tick it began it may have some (RunInv).           *)
(***************************************************************************)
EXTENDS ClaimDeadlines, FiniteSetTheorems, TLAPS

ClaimState ==
  [state : {"none", "claimed", "completed", "abandoned", "declined"},
   claimed : Int, deadline : Int, beat : Int, overrun : {"no", "pending", "counted"},
   alive : BOOLEAN, done : {"no", "in time", "late"}, ended : Int, hit : BOOLEAN]

TypeInv ==
  /\ clock \in Nat /\ mishaps \in 0..MaxMishaps
  /\ up \in BOOLEAN /\ held \in BOOLEAN /\ active \in BOOLEAN
  /\ reclaimFrom \in Nat /\ notBefore \in Nat
  /\ limit \in Limits /\ run \in Nat /\ since \in Int /\ restarted \in Int
  /\ claim \in [Claim -> ClaimState]

(* What a claim's record says of what happened to it, and when.            *)
Sound(k, now) ==
  /\ k.state = "none" => k = Unclaimed
  /\ k.state = "claimed" => k.deadline >= 0 /\ ~k.hit /\ k.overrun = "no"
  /\ k.overrun # "no" <=> k.hit /\ k.state = "abandoned"
  /\ k.overrun # "no" => 0 <= k.deadline /\ k.deadline <= now
  /\ k.hit => k.state \in {"abandoned", "declined"}
  /\ k.ended <= now

ClaimInv ==
  /\ since <= clock /\ restarted <= clock
  /\ \A c \in Claim : Sound(claim[c], clock)

(* The graces that follow a restart and a hold have yet to run.            *)
JustBack == clock + Timeout <= reclaimFrom \/ clock + Timeout <= notBefore

FreshInv ==
  Reachable =>
    \A c \in Claim :
      claim[c].state = "claimed" /\ claim[c].alive =>
        /\ JustBack \/ claim[c].beat >= clock - 1 \/ claim[c].claimed >= clock - 1
        /\ JustBack \/ claim[c].done # "in time" \/ clock <= claim[c].deadline

(* The run began at the last good moment; or the job was purged, and has   *)
(* no claim since.                                                         *)
Purged ==
  /\ ~active /\ run = 0 /\ since = Never
  /\ \A c \in Claim : claim[c].state \in {"none", "completed"}

GoodAt(s) ==
  /\ s = restarted \/ \E c \in Claim : claim[c].state = "completed" /\ claim[c].ended = s
  /\ restarted <= s
  /\ \A c \in Claim : claim[c].state = "completed" => claim[c].ended <= s

SinceInv == Purged \/ GoodAt(since)

(* The hits the run counts at least, and those it counts at most.          *)
Counted(cl, s)       == {c \in Claim : cl[c].overrun = "counted" /\ cl[c].deadline > s}
DeclinedAfter(cl, s) == {c \in Claim : cl[c].state = "declined" /\ cl[c].hit /\ cl[c].ended > s}
DeclinedSince(cl, s) == {c \in Claim : cl[c].state = "declined" /\ cl[c].hit /\ cl[c].ended >= s}

AtLeast(cl, s) == Counted(cl, s) \cup DeclinedAfter(cl, s)
AtMost(cl, s)  == Counted(cl, s) \cup DeclinedSince(cl, s)

RunInv ==
  /\ Cardinality(AtLeast(claim, since)) <= run
  /\ run <= Cardinality(AtMost(claim, since))
  /\ active => run < Streak

IInv == TypeInv /\ ClaimInv /\ FreshInv /\ SinceInv /\ RunInv /\ NoLostWork

-----------------------------------------------------------------------------
(* The operators                                                           *)

LEMMA Clocks ==
  /\ Timeout \in Nat \ {0} /\ Grace \in Nat \ {0} /\ Streak \in Nat \ {0}
  /\ \A l \in Limits : l \in Nat \ {0}
  /\ MaxTime \in Nat /\ MaxMishaps \in Nat
  /\ IsFiniteSet(Claim)
BY ClocksAssumption

LEMMA SoundLater ==
  ASSUME NEW k \in ClaimState, NEW m \in Nat, NEW n \in Nat, m <= n, Sound(k, m)
  PROVE  Sound(k, n)
<1>1. k.ended \in Int /\ k.deadline \in Int
  BY DEF ClaimState
<1> QED
  BY <1>1 DEF Sound

LEMMA LargestIs ==
  ASSUME NEW S, NEW x \in S, \A y \in S : y \in Int /\ y <= x
  PROVE  Max(S) = x
BY DEF Max

LEMMA LargerOfTwo ==
  ASSUME NEW a \in Int, NEW b \in Int
  PROVE  Max({a, b}) \in Int /\ Max({a, b}) >= a /\ Max({a, b}) >= b
<1>1. CASE a >= b
  BY <1>1, LargestIs
<1>2. CASE b >= a
  BY <1>2, LargestIs
<1> QED
  BY <1>1, <1>2

LEMMA LastGoodIs ==
  ASSUME TypeInv, GoodAt(since)
  PROVE  LastGood = since
<1> DEFINE S == {restarted} \cup
                {claim[c].ended : c \in {b \in Claim : claim[b].state = "completed"}}
<1>1. since \in S /\ \A y \in S : y \in Int /\ y <= since
  BY DEF TypeInv, ClaimState, GoodAt
<1> HIDE DEF S
<1>2. Max(S) = since
  BY <1>1, LargestIs
<1> QED
  BY <1>2 DEF LastGood, S

(* A claim that ends has its state, its time and no heartbeat; the rest of *)
(* it stays.                                                               *)
Others(c, cl) == \A b \in Claim \ {c} : cl[b] = claim[b]

LEMMA EndedFacts ==
  ASSUME TypeInv, NEW c \in Claim, NEW how \in {"completed", "abandoned", "declined"}
  PROVE  /\ Ended(c, how) \in [Claim -> ClaimState] /\ Others(c, Ended(c, how))
         /\ Ended(c, how)[c].state = how /\ Ended(c, how)[c].ended = clock
         /\ Ended(c, how)[c].deadline = claim[c].deadline
         /\ Ended(c, how)[c].overrun = claim[c].overrun /\ Ended(c, how)[c].hit = claim[c].hit
         /\ Ended(c, how)[c].alive = claim[c].alive /\ Ended(c, how)[c].done = claim[c].done
<1> DEFINE k1 == [claim[c] EXCEPT !.state = how]
           k2 == [k1 EXCEPT !.ended = clock]
           k3 == [k2 EXCEPT !.beat = Never]
<1>0. clock \in Int /\ Never \in Int
  BY DEF TypeInv, Never
<1>1. k1 \in ClaimState /\ k1.state = how
      /\ k1.deadline = claim[c].deadline /\ k1.overrun = claim[c].overrun
      /\ k1.hit = claim[c].hit /\ k1.alive = claim[c].alive /\ k1.done = claim[c].done
  BY DEF TypeInv, ClaimState
<1> HIDE DEF k1
<1>2. k2 \in ClaimState /\ k2.state = how /\ k2.ended = clock
      /\ k2.deadline = claim[c].deadline /\ k2.overrun = claim[c].overrun
      /\ k2.hit = claim[c].hit /\ k2.alive = claim[c].alive /\ k2.done = claim[c].done
  BY <1>0, <1>1 DEF ClaimState
<1> HIDE DEF k2
<1>3. k3 \in ClaimState /\ k3.state = how /\ k3.ended = clock
      /\ k3.deadline = claim[c].deadline /\ k3.overrun = claim[c].overrun
      /\ k3.hit = claim[c].hit /\ k3.alive = claim[c].alive /\ k3.done = claim[c].done
  BY <1>0, <1>2 DEF ClaimState
<1>4. Ended(c, how) = [claim EXCEPT ![c] = k3]
  BY DEF Ended, TypeInv, k1, k2
<1> HIDE DEF k3
<1> QED
  BY <1>3, <1>4 DEF TypeInv, Others

LEMMA FieldsSet ==
  ASSUME NEW k \in ClaimState, NEW o \in {"no", "pending", "counted"}
  PROVE  /\ [k EXCEPT !.overrun = o] \in ClaimState
         /\ [k EXCEPT !.overrun = o].overrun = o
         /\ [k EXCEPT !.overrun = o].state = k.state
         /\ [k EXCEPT !.overrun = o].deadline = k.deadline
         /\ [k EXCEPT !.overrun = o].ended = k.ended /\ [k EXCEPT !.overrun = o].hit = k.hit
         /\ [k EXCEPT !.overrun = o].alive = k.alive /\ [k EXCEPT !.overrun = o].done = k.done
         /\ \A h \in BOOLEAN :
              /\ [k EXCEPT !.hit = h] \in ClaimState
              /\ [k EXCEPT !.hit = h].hit = h /\ [k EXCEPT !.hit = h].overrun = k.overrun
              /\ [k EXCEPT !.hit = h].state = k.state /\ [k EXCEPT !.hit = h].deadline = k.deadline
              /\ [k EXCEPT !.hit = h].ended = k.ended /\ [k EXCEPT !.hit = h].alive = k.alive
              /\ [k EXCEPT !.hit = h].done = k.done
BY DEF ClaimState

(* The claims as RecordTimeLimit is told of them.                          *)
Late(c)       == [Ended(c, "abandoned") EXCEPT ![c].overrun = "pending", ![c].hit = TRUE]
HandedBack(c) == [Ended(c, "declined") EXCEPT ![c].hit = TRUE]

LEMMA LateFacts ==
  ASSUME TypeInv, NEW c \in Claim
  PROVE  /\ Late(c) \in [Claim -> ClaimState] /\ Others(c, Late(c))
         /\ Late(c)[c].state = "abandoned" /\ Late(c)[c].ended = clock
         /\ Late(c)[c].deadline = claim[c].deadline
         /\ Late(c)[c].overrun = "pending" /\ Late(c)[c].hit = TRUE
         /\ Late(c)[c].alive = claim[c].alive /\ Late(c)[c].done = claim[c].done
<1> DEFINE e  == Ended(c, "abandoned")
           k1 == [e[c] EXCEPT !.overrun = "pending"]
           k2 == [k1 EXCEPT !.hit = TRUE]
<1>1. /\ e \in [Claim -> ClaimState] /\ Others(c, e) /\ e[c] \in ClaimState
      /\ e[c].state = "abandoned" /\ e[c].ended = clock /\ e[c].deadline = claim[c].deadline
      /\ e[c].alive = claim[c].alive /\ e[c].done = claim[c].done
  BY EndedFacts
<1> HIDE DEF e
<1>2. /\ k1 \in ClaimState /\ k1.overrun = "pending"
      /\ k1.state = "abandoned" /\ k1.ended = clock /\ k1.deadline = claim[c].deadline
      /\ k1.alive = claim[c].alive /\ k1.done = claim[c].done
  BY <1>1, FieldsSet
<1> HIDE DEF k1
<1>3. /\ k2 \in ClaimState /\ k2.overrun = "pending" /\ k2.hit = TRUE
      /\ k2.state = "abandoned" /\ k2.ended = clock /\ k2.deadline = claim[c].deadline
      /\ k2.alive = claim[c].alive /\ k2.done = claim[c].done
  BY <1>2, FieldsSet
<1>4. Late(c) = [e EXCEPT ![c] = k2]
  BY <1>1 DEF Late, e, k1
<1> HIDE DEF k2
<1> QED
  BY <1>1, <1>3, <1>4 DEF Others

LEMMA HandedBackFacts ==
  ASSUME TypeInv, NEW c \in Claim
  PROVE  /\ HandedBack(c) \in [Claim -> ClaimState] /\ Others(c, HandedBack(c))
         /\ HandedBack(c)[c].state = "declined" /\ HandedBack(c)[c].ended = clock
         /\ HandedBack(c)[c].overrun = claim[c].overrun /\ HandedBack(c)[c].hit = TRUE
         /\ HandedBack(c)[c].deadline = claim[c].deadline
<1> DEFINE e == Ended(c, "declined")
           k == [e[c] EXCEPT !.hit = TRUE]
<1>1. /\ e \in [Claim -> ClaimState] /\ Others(c, e) /\ e[c] \in ClaimState
      /\ e[c].state = "declined" /\ e[c].ended = clock /\ e[c].overrun = claim[c].overrun
      /\ e[c].deadline = claim[c].deadline
  BY EndedFacts
<1> HIDE DEF e
<1>2. /\ k \in ClaimState /\ k.hit = TRUE /\ k.overrun = claim[c].overrun
      /\ k.state = "declined" /\ k.ended = clock /\ k.deadline = claim[c].deadline
  BY <1>1, FieldsSet
<1>3. HandedBack(c) = [e EXCEPT ![c] = k]
  BY <1>1 DEF HandedBack, e
<1> HIDE DEF k
<1> QED
  BY <1>1, <1>2, <1>3 DEF Others

(* A sweep's claims.                                                       *)
LEMMA SweepFacts ==
  ASSUME TypeInv, Sweep
  PROVE  /\ claim' \in [Claim -> ClaimState]
         /\ \A c \in Claim :
              \/ claim'[c] = claim[c]
              \/ /\ claim[c].state = "claimed" /\ (Silent(c) \/ PastDeadline(c))
                 /\ claim'[c].state = "abandoned" /\ claim'[c].ended = clock
                 /\ claim'[c].deadline = claim[c].deadline
                 /\ claim'[c].hit = Overran(c)
                 /\ claim'[c].overrun = IF Overran(c) THEN "pending" ELSE "no"
                 /\ claim'[c].alive = claim[c].alive /\ claim'[c].done = claim[c].done
<1> DEFINE lapsed == {c \in Claim : Open(c) /\ (Silent(c) \/ PastDeadline(c))}
           k1(c) == [claim[c] EXCEPT !.state = "abandoned"]
           k2(c) == [k1(c) EXCEPT !.ended = clock]
           k3(c) == [k2(c) EXCEPT !.beat = Never]
           k4(c) == [k3(c) EXCEPT !.hit = Overran(c)]
           k5(c) == [k4(c) EXCEPT !.overrun = IF Overran(c) THEN "pending" ELSE "no"]
<1>0. ASSUME NEW k \in ClaimState, NEW h \in BOOLEAN
      PROVE  LET m == [[k EXCEPT !.hit = h] EXCEPT !.overrun = IF h THEN "pending" ELSE "no"]
             IN /\ m \in ClaimState /\ m.state = k.state /\ m.ended = k.ended
                /\ m.deadline = k.deadline /\ m.hit = h
                /\ m.overrun = IF h THEN "pending" ELSE "no"
                /\ m.alive = k.alive /\ m.done = k.done
  <2> DEFINE m1 == [k EXCEPT !.hit = h]
             o  == IF h THEN "pending" ELSE "no"
  <2>1. /\ m1 \in ClaimState /\ m1.state = k.state /\ m1.ended = k.ended
        /\ m1.deadline = k.deadline /\ m1.hit = h /\ m1.alive = k.alive /\ m1.done = k.done
    BY DEF ClaimState
  <2>2. o \in {"no", "pending", "counted"}
    OBVIOUS
  <2> HIDE DEF m1, o
  <2>3. LET m == [m1 EXCEPT !.overrun = o]
        IN /\ m \in ClaimState /\ m.state = m1.state /\ m.ended = m1.ended
           /\ m.deadline = m1.deadline /\ m.hit = m1.hit
           /\ m.overrun = o /\ m.alive = m1.alive /\ m.done = m1.done
    BY <2>1, <2>2 DEF ClaimState
  <2> QED
    BY <2>1, <2>3 DEF m1, o
<1>1. ASSUME NEW c \in Claim
      PROVE  /\ k5(c) \in ClaimState /\ k5(c).state = "abandoned" /\ k5(c).ended = clock
             /\ k5(c).deadline = claim[c].deadline /\ k5(c).hit = Overran(c)
             /\ k5(c).overrun = IF Overran(c) THEN "pending" ELSE "no"
             /\ k5(c).alive = claim[c].alive /\ k5(c).done = claim[c].done
  <2>0. clock \in Int /\ Never \in Int /\ Overran(c) \in BOOLEAN
    BY DEF TypeInv, Never, Overran
  <2>1. k1(c) \in ClaimState /\ k1(c).state = "abandoned" /\ k1(c).deadline = claim[c].deadline
        /\ k1(c).alive = claim[c].alive /\ k1(c).done = claim[c].done
    BY DEF TypeInv, ClaimState
  <2> HIDE DEF k1
  <2>2. k2(c) \in ClaimState /\ k2(c).state = "abandoned" /\ k2(c).deadline = claim[c].deadline
        /\ k2(c).ended = clock /\ k2(c).alive = claim[c].alive /\ k2(c).done = claim[c].done
    BY <2>0, <2>1 DEF ClaimState
  <2> HIDE DEF k2
  <2>3. k3(c) \in ClaimState /\ k3(c).state = "abandoned" /\ k3(c).deadline = claim[c].deadline
        /\ k3(c).ended = clock /\ k3(c).alive = claim[c].alive /\ k3(c).done = claim[c].done
    BY <2>0, <2>2 DEF ClaimState
  <2> HIDE DEF k3
  <2> QED
    BY <1>0, <2>0, <2>3
<1>2. claim' = [c \in Claim |-> IF c \notin lapsed THEN claim[c] ELSE k5(c)]
  BY DEF Sweep
<1> HIDE DEF k5
<1> QED
  BY <1>1, <1>2 DEF TypeInv, Open

(* What the counting of pending overruns makes of the claims.              *)
LEMMA CountFacts ==
  ASSUME NEW cl \in [Claim -> ClaimState], NEW declines \in Nat, RecordTimeLimit(cl, declines)
  PROVE  /\ claim' \in [Claim -> ClaimState] /\ IsFiniteSet(Pending(cl))
         /\ \A c \in Claim :
              /\ claim'[c].overrun = IF cl[c].overrun = "pending" THEN "counted" ELSE cl[c].overrun
              /\ claim'[c].state = cl[c].state /\ claim'[c].deadline = cl[c].deadline
              /\ claim'[c].ended = cl[c].ended /\ claim'[c].hit = cl[c].hit
              /\ claim'[c].alive = cl[c].alive /\ claim'[c].done = cl[c].done
              /\ cl[c].overrun # "pending" => claim'[c] = cl[c]
<1> DEFINE k(c) == [cl[c] EXCEPT !.overrun = "counted"]
<1>1. \A c \in Claim : /\ k(c) \in ClaimState
                      /\ k(c).overrun = "counted" /\ k(c).state = cl[c].state
                      /\ k(c).deadline = cl[c].deadline /\ k(c).ended = cl[c].ended
                      /\ k(c).hit = cl[c].hit /\ k(c).alive = cl[c].alive
                      /\ k(c).done = cl[c].done
  BY FieldsSet
<1>2. claim' = [c \in Claim |-> IF c \in Pending(cl) THEN k(c) ELSE cl[c]]
  BY DEF RecordTimeLimit
<1> HIDE DEF k
<1>3. IsFiniteSet(Pending(cl))
  BY Clocks, FS_Subset DEF Pending
<1> QED
  BY <1>1, <1>2, <1>3 DEF Pending

-----------------------------------------------------------------------------
(* What keeps the run                                                      *)

LEMMA HitsFinite ==
  \A cl, s : /\ IsFiniteSet(AtLeast(cl, s)) /\ Cardinality(AtLeast(cl, s)) \in Nat
            /\ IsFiniteSet(AtMost(cl, s)) /\ Cardinality(AtMost(cl, s)) \in Nat
<1>1. \A cl, s : AtLeast(cl, s) \in SUBSET Claim /\ AtMost(cl, s) \in SUBSET Claim
  BY DEF AtLeast, AtMost, Counted, DeclinedAfter, DeclinedSince
<1>2. \A S \in SUBSET Claim : IsFiniteSet(S) /\ Cardinality(S) \in Nat
  BY Clocks, FS_Subset, FS_CardinalityType
<1> QED
  BY <1>1, <1>2

LEMMA RunKept ==
  ASSUME IInv, UNCHANGED <<since, run>>, active' => active,
         \A c \in Claim :
           /\ claim'[c].overrun = "counted" <=> claim[c].overrun = "counted"
           /\ claim[c].overrun = "counted" => claim'[c].deadline = claim[c].deadline
           /\ (claim'[c].state = "declined" /\ claim'[c].hit)
                <=> (claim[c].state = "declined" /\ claim[c].hit)
           /\ claim[c].state = "declined" => claim'[c].ended = claim[c].ended
  PROVE  RunInv'
<1>1. Counted(claim, since)' = Counted(claim, since)
  BY DEF Counted
<1>2. DeclinedAfter(claim, since)' = DeclinedAfter(claim, since)
      /\ DeclinedSince(claim, since)' = DeclinedSince(claim, since)
  BY DEF DeclinedAfter, DeclinedSince
<1>3. AtLeast(claim, since)' = AtLeast(claim, since) /\ AtMost(claim, since)' = AtMost(claim, since)
  BY <1>1, <1>2 DEF AtLeast, AtMost
<1> QED
  BY <1>3 DEF IInv, RunInv

(* A run that begins has nothing in it.                                    *)
LEMMA RunBegins ==
  ASSUME run' = 0, \A c \in Claim :
           /\ claim'[c].overrun = "counted" => ~(claim'[c].deadline > since')
           /\ claim'[c].state = "declined" /\ claim'[c].hit => ~(claim'[c].ended > since')
  PROVE  RunInv'
<1>1. AtLeast(claim, since)' = {}
  BY DEF AtLeast, Counted, DeclinedAfter
<1>2. Cardinality(AtLeast(claim, since)') = 0
  BY <1>1, FS_EmptySet
<1>3. Cardinality(AtMost(claim', since')) \in Nat
  BY HitsFinite
<1>4. AtMost(claim, since)' = AtMost(claim', since')
  BY DEF AtMost, Counted, DeclinedSince
<1> QED
  BY <1>2, <1>3, <1>4, Clocks DEF RunInv

LEMMA SinceKept ==
  ASSUME IInv, UNCHANGED <<since, restarted>>,
         \A c \in Claim :
           /\ claim'[c].state = "completed" <=> claim[c].state = "completed"
           /\ claim[c].state = "completed" => claim'[c].ended = claim[c].ended,
         Purged => /\ UNCHANGED <<active, run>>
                   /\ \A c \in Claim : claim'[c].state = claim[c].state
  PROVE  SinceInv'
BY DEF IInv, SinceInv, Purged, GoodAt

-----------------------------------------------------------------------------
(* Steps that end no claim                                                 *)

(* The server, the clock and the admins.                                   *)
LEMMA ClaimsStay ==
  ASSUME IInv, claim' = claim,
         \/ Down \/ Restart \/ PurgeHolds \/ PurgeGivesUp \/ Activate \/ Deactivate
         \/ (\E l \in Limits : UpdateTimeLimit(l)) \/ Tick
  PROVE  IInv'
<1>1. clock' \in Nat /\ clock <= clock'
  BY DEF IInv, TypeInv, Down, Restart, PurgeHolds, PurgeGivesUp, Activate, Deactivate,
         UpdateTimeLimit, Tick, server, job
<1>2. TypeInv'
  <2>0. /\ mishaps' \in 0..MaxMishaps /\ reclaimFrom' \in Nat /\ notBefore' \in Nat
        /\ run' \in Nat /\ since' \in Int /\ restarted' \in Int /\ limit' \in Limits
    <3> USE Clocks DEF IInv, TypeInv, Mishap, server, job
    <3>1. CASE Down \/ PurgeHolds \/ Tick
      BY <3>1 DEF Down, PurgeHolds, Tick
    <3>2. CASE Restart \/ PurgeGivesUp
      BY <3>2 DEF Restart, PurgeGivesUp, Started
    <3>3. CASE Activate
      BY <3>3 DEF Activate
    <3>4. CASE Deactivate
      BY <3>4 DEF Deactivate
    <3>5. CASE \E l \in Limits : UpdateTimeLimit(l)
      BY <3>5 DEF UpdateTimeLimit
    <3> QED
      BY <3>1, <3>2, <3>3, <3>4, <3>5
  <2>1. up' \in BOOLEAN /\ held' \in BOOLEAN /\ active' \in BOOLEAN
    BY DEF IInv, TypeInv, Down, Restart, PurgeHolds, PurgeGivesUp, Activate, Deactivate,
           UpdateTimeLimit, Tick, server, job
  <2> QED
    BY <1>1, <2>0, <2>1 DEF IInv, TypeInv
<1>3. since' \in {since, clock} /\ restarted' \in {restarted, clock}
  BY DEF Down, Restart, PurgeHolds, PurgeGivesUp, Activate, Deactivate, UpdateTimeLimit, Tick, job
<1>4. ClaimInv'
  <2>1. since' <= clock' /\ restarted' <= clock'
    BY <1>1, <1>3 DEF IInv, ClaimInv, TypeInv
  <2>2. \A c \in Claim : Sound(claim[c], clock')
    BY <1>1, SoundLater DEF IInv, ClaimInv, TypeInv
  <2> QED
    BY <2>1, <2>2 DEF ClaimInv
<1>5. FreshInv'
  <2>1. CASE Tick
    <3>1. ASSUME NEW c \in Claim, Reachable, claim[c].state = "claimed", claim[c].alive
          PROVE  claim[c].beat >= clock' - 1 /\ claim[c].done = "no"
      <4>1. claim[c].beat = clock /\ claim[c].done = "no" /\ clock' = clock + 1
        BY <2>1, <3>1 DEF Tick, Open
      <4> QED
        BY <4>1 DEF IInv, TypeInv
    <3>2. Reachable' = Reachable
      BY <2>1 DEF Tick, Reachable, server
    <3> QED
      BY <3>1, <3>2 DEF FreshInv
  <2>2. CASE Restart \/ PurgeGivesUp
    <3>1. clock' = clock /\ clock + Timeout \in Nat
      BY <2>2, Clocks DEF Restart, PurgeGivesUp, IInv, TypeInv
    <3>2. reclaimFrom' = clock + Timeout \/ notBefore' = clock + Timeout
      BY <2>2 DEF Restart, PurgeGivesUp, Started
    <3>3. JustBack'
      BY <3>1, <3>2 DEF JustBack
    <3> QED
      BY <3>3 DEF FreshInv
  <2>3. CASE Down \/ PurgeHolds
    BY <2>3 DEF FreshInv, Down, PurgeHolds, Reachable
  <2>4. CASE Activate \/ Deactivate \/ (\E l \in Limits : UpdateTimeLimit(l))
    BY <2>4 DEF IInv, FreshInv, JustBack, Activate, Deactivate, UpdateTimeLimit, Reachable, server
  <2> QED
    BY <2>1, <2>2, <2>3, <2>4
<1>6. NoLostWork'
  BY DEF IInv, NoLostWork
<1>7. CASE Activate
  <2>1. RunInv'
    <3>1. \A c \in Claim : /\ claim[c].overrun = "counted" => ~(claim[c].deadline > clock)
                          /\ ~(claim[c].ended > clock)
      <4>1. clock \in Nat /\ claim \in [Claim -> ClaimState]
        BY DEF IInv, TypeInv
      <4>2. \A c \in Claim : claim[c].ended \in Int /\ claim[c].deadline \in Int
        BY <4>1 DEF ClaimState
      <4> QED
        BY <4>1, <4>2 DEF IInv, ClaimInv, Sound
    <3> QED
      BY <1>7, <3>1, RunBegins DEF Activate
  <2>2. SinceInv'
    <3>1. clock <= clock /\ \A c \in Claim : claim[c].ended <= clock
      BY DEF IInv, TypeInv, ClaimInv, Sound
    <3>2. GoodAt(since)'
      BY <1>7, <3>1 DEF GoodAt, Activate
    <3> QED
      BY <3>2 DEF SinceInv
  <2> QED
    BY <1>2, <1>4, <1>5, <1>6, <2>1, <2>2 DEF IInv
<1>8. CASE ~Activate
  <2>1. UNCHANGED <<since, run, restarted>> /\ (active' => active) /\ (~active => active' = active)
    BY <1>8 DEF Down, Restart, PurgeHolds, PurgeGivesUp, Deactivate, UpdateTimeLimit, Tick, job
  <2>2. RunInv'
    BY <2>1, RunKept
  <2>3. SinceInv'
    BY <2>1, SinceKept DEF Purged
  <2> QED
    BY <1>2, <1>4, <1>5, <1>6, <2>2, <2>3 DEF IInv
<1> QED
  BY <1>7, <1>8

(* Work on a claim, and its start.                                         *)
Works(b) ==
  /\ claim[b].state = "claimed" /\ claim'[b].state = "claimed"
  /\ claim'[b].deadline = claim[b].deadline /\ claim'[b].overrun = claim[b].overrun
  /\ claim'[b].hit = claim[b].hit /\ claim'[b].ended = claim[b].ended
  /\ claim'[b].alive => claim[b].alive
  /\ claim'[b].beat = claim[b].beat \/ claim'[b].beat = clock
  /\ claim'[b].claimed = claim[b].claimed
  /\ claim'[b].done = "in time" => claim[b].done = "in time" \/ clock <= claim[b].deadline

Starts(b) ==
  /\ claim[b] = Unclaimed /\ active
  /\ claim'[b].state = "claimed" /\ claim'[b].claimed = clock
  /\ claim'[b].deadline = clock + limit /\ claim'[b].overrun = "no"
  /\ claim'[b].hit = FALSE /\ claim'[b].ended = Never /\ claim'[b].done = "no"

LEMMA WorkGoesOn ==
  ASSUME IInv, NEW c \in Claim, Issue(c) \/ Finish(c) \/ Die(c) \/ Heartbeat
  PROVE  IInv'
<1>1. /\ UNCHANGED <<clock, server, job>>
      /\ mishaps' \in 0..MaxMishaps
  <2>1. mishaps \in Nat /\ mishaps <= MaxMishaps /\ MaxMishaps \in Nat
    BY Clocks DEF IInv, TypeInv
  <2>2. CASE Die(c)
    BY <2>1, <2>2 DEF Die
  <2>3. CASE Issue(c) \/ Finish(c) \/ Heartbeat
    <3>1. mishaps' = mishaps
      BY <2>3 DEF Issue, Finish, Heartbeat
    <3>2. UNCHANGED <<clock, server, job>>
      BY <2>3 DEF Issue, Finish, Heartbeat
    <3> QED
      BY <2>1, <3>1, <3>2
  <2> QED
    BY <2>2, <2>3
<1>2. /\ claim' \in [Claim -> ClaimState]
      /\ \A b \in Claim : claim'[b] = claim[b] \/ Works(b) \/ Starts(b)
  <2>1. clock \in Nat /\ claim \in [Claim -> ClaimState] /\ limit \in Nat
    BY Clocks DEF IInv, TypeInv
  <2>2. CASE Finish(c)
    <3> DEFINE d == IF clock <= claim[c].deadline THEN "in time" ELSE "late"
               k == [claim[c] EXCEPT !.done = d]
    <3>1. d \in {"in time", "late"} /\ (d = "in time" => clock <= claim[c].deadline)
      OBVIOUS
    <3>2. claim' = [claim EXCEPT ![c] = k]
      BY <2>1, <2>2 DEF Finish
    <3> HIDE DEF d
    <3>3. /\ k \in ClaimState /\ k.state = claim[c].state /\ k.deadline = claim[c].deadline
          /\ k.overrun = claim[c].overrun /\ k.hit = claim[c].hit /\ k.ended = claim[c].ended
          /\ k.alive = claim[c].alive /\ k.beat = claim[c].beat
          /\ k.claimed = claim[c].claimed /\ k.done = d
      BY <2>1, <3>1 DEF ClaimState
    <3> HIDE DEF k
    <3> QED
      BY <2>1, <2>2, <3>1, <3>2, <3>3 DEF Finish, Open, Works
  <2>3. CASE Die(c)
    <3> DEFINE k == [claim[c] EXCEPT !.alive = FALSE]
    <3>1. claim' = [claim EXCEPT ![c] = k]
      BY <2>1, <2>3 DEF Die
    <3>2. /\ k \in ClaimState /\ k.state = claim[c].state /\ k.deadline = claim[c].deadline
          /\ k.overrun = claim[c].overrun /\ k.hit = claim[c].hit /\ k.ended = claim[c].ended
          /\ k.alive = FALSE /\ k.beat = claim[c].beat
          /\ k.claimed = claim[c].claimed /\ k.done = claim[c].done
      BY <2>1 DEF ClaimState
    <3> HIDE DEF k
    <3> QED
      BY <2>1, <2>3, <3>1, <3>2 DEF Die, Open, Works
  <2>4. CASE Heartbeat
    <3> DEFINE k(b) == [claim[b] EXCEPT !.beat = clock]
               due  == {b \in Claim : Open(b) /\ claim[b].alive /\ claim[b].beat # clock}
    <3>1. claim' = [b \in Claim |-> IF b \in due THEN k(b) ELSE claim[b]]
      BY <2>4 DEF Heartbeat
    <3>2. ASSUME NEW b \in Claim
          PROVE  /\ k(b) \in ClaimState /\ k(b).state = claim[b].state
                 /\ k(b).deadline = claim[b].deadline
                 /\ k(b).overrun = claim[b].overrun /\ k(b).hit = claim[b].hit
                 /\ k(b).ended = claim[b].ended /\ k(b).alive = claim[b].alive
                 /\ k(b).beat = clock /\ k(b).claimed = claim[b].claimed
                 /\ k(b).done = claim[b].done
      <4>1. claim[b] \in ClaimState /\ clock \in Int
        BY <2>1
      <4> QED
        BY <4>1 DEF ClaimState
    <3>3. \A b \in due : claim[b].state = "claimed"
      BY DEF Open
    <3> HIDE DEF k, due
    <3>4. \A b \in Claim : claim'[b] = claim[b] \/ (b \in due /\ claim'[b] = k(b))
      BY <3>1
    <3>5. claim' \in [Claim -> ClaimState]
      BY <2>1, <3>1, <3>2
    <3>6. ASSUME NEW b \in Claim, b \in due, claim'[b] = k(b)  PROVE Works(b)
      BY <3>2, <3>3, <3>6 DEF Works
    <3> QED
      BY <3>4, <3>5, <3>6
  <2>5. CASE Issue(c)
    <3> DEFINE k1 == [claim[c] EXCEPT !.state = "claimed"]
               k2 == [k1 EXCEPT !.claimed = clock]
               k3 == [k2 EXCEPT !.deadline = clock + limit]
    <3>1. claim[c] = Unclaimed /\ active
      BY <2>5 DEF Issue, Oldest, IInv, ClaimInv, Sound
    <3>2. /\ claim[c].overrun = "no" /\ claim[c].hit = FALSE /\ claim[c].ended = Never
          /\ claim[c].done = "no"
      BY <3>1 DEF Unclaimed
    <3>3. claim' = [claim EXCEPT ![c] = k3]
      BY <2>1, <2>5 DEF Issue
    <3>4. clock \in Int /\ clock + limit \in Int
      BY <2>1
    <3>5. /\ k1 \in ClaimState /\ k1.state = "claimed" /\ k1.overrun = "no" /\ k1.hit = FALSE
          /\ k1.ended = Never /\ k1.done = "no"
      BY <2>1, <3>2 DEF ClaimState
    <3> HIDE DEF k1
    <3>6. /\ k2 \in ClaimState /\ k2.state = "claimed" /\ k2.overrun = "no" /\ k2.hit = FALSE
          /\ k2.ended = Never /\ k2.done = "no" /\ k2.claimed = clock
      BY <3>4, <3>5 DEF ClaimState
    <3> HIDE DEF k2
    <3>7. /\ k3 \in ClaimState /\ k3.state = "claimed" /\ k3.overrun = "no" /\ k3.hit = FALSE
          /\ k3.ended = Never /\ k3.done = "no" /\ k3.claimed = clock
          /\ k3.deadline = clock + limit
      BY <3>4, <3>6 DEF ClaimState
    <3> HIDE DEF k3
    <3> QED
      BY <2>1, <3>1, <3>3, <3>7 DEF Starts
  <2> QED
    BY <2>2, <2>3, <2>4, <2>5
<1>3. TypeInv'
  BY <1>1, <1>2 DEF IInv, TypeInv, server, job
<1>4. /\ clock \in Nat /\ limit \in Nat /\ clock + limit >= 0 /\ Never <= clock
      /\ \A b \in Claim : claim[b].deadline \in Int
  <2>1. clock \in Nat /\ limit \in Nat /\ claim \in [Claim -> ClaimState]
    BY Clocks DEF IInv, TypeInv
  <2>2. \A b \in Claim : claim[b].deadline \in Int
    BY <2>1 DEF ClaimState
  <2>3. clock + limit >= 0 /\ Never <= clock
    BY <2>1 DEF Never
  <2> QED
    BY <2>1, <2>2, <2>3
<1>5. ClaimInv'
  <2>1. ASSUME NEW b \in Claim
        PROVE  Sound(claim'[b], clock)
    <3>1. Sound(claim[b], clock)
      BY DEF IInv, ClaimInv
    <3>2. Works(b) => Sound(claim'[b], clock)
      BY <1>4, <3>1 DEF Works, Sound
    <3>3. Starts(b) => Sound(claim'[b], clock)
      BY <1>4 DEF Starts, Sound
    <3> QED
      BY <1>2, <3>1, <3>2, <3>3
  <2> QED
    BY <1>1, <2>1 DEF IInv, ClaimInv, job
<1>6. FreshInv'
  <2>1. ASSUME NEW b \in Claim, Reachable, claim'[b].state = "claimed", claim'[b].alive
        PROVE  /\ JustBack \/ claim'[b].beat >= clock - 1 \/ claim'[b].claimed >= clock - 1
               /\ JustBack \/ claim'[b].done # "in time" \/ clock <= claim'[b].deadline
    <3>1. clock >= clock - 1
      BY <1>4
    <3> QED
      BY <1>2, <2>1, <3>1 DEF IInv, FreshInv, Works, Starts
  <2>2. Reachable' = Reachable /\ JustBack' = JustBack
    BY <1>1 DEF server, Reachable, JustBack
  <2> QED
    BY <1>1, <2>1, <2>2 DEF FreshInv
<1>7. NoLostWork'
  BY <1>2 DEF IInv, NoLostWork, Works, Starts
<1>8. RunInv'
  <2>1. UNCHANGED <<since, run, active>>
    BY <1>1 DEF job
  <2>2. ASSUME NEW b \in Claim
        PROVE  /\ claim'[b].overrun = "counted" <=> claim[b].overrun = "counted"
               /\ claim[b].overrun = "counted" => claim'[b].deadline = claim[b].deadline
               /\ (claim'[b].state = "declined" /\ claim'[b].hit)
                    <=> (claim[b].state = "declined" /\ claim[b].hit)
               /\ claim[b].state = "declined" => claim'[b].ended = claim[b].ended
    <3>1. CASE Works(b)
      BY <3>1 DEF Works
    <3>2. CASE Starts(b)
      BY <3>2 DEF Starts, Unclaimed
    <3> QED
      BY <1>2, <3>1, <3>2
  <2> QED
    BY <2>1, <2>2, RunKept
<1>9. SinceInv'
  <2>1. UNCHANGED <<since, restarted, active, run>>
    BY <1>1 DEF job
  <2>2. ASSUME NEW b \in Claim
        PROVE  /\ claim'[b].state = "completed" <=> claim[b].state = "completed"
               /\ claim[b].state = "completed" => claim'[b].ended = claim[b].ended
               /\ Purged => claim'[b].state = claim[b].state
    <3>1. CASE Works(b)
      BY <3>1 DEF Works, Purged
    <3>2. CASE Starts(b)
      BY <3>2 DEF Starts, Unclaimed, Purged
    <3> QED
      BY <1>2, <3>1, <3>2
  <2> QED
    BY <2>1, <2>2, SinceKept
<1> QED
  BY <1>3, <1>5, <1>6, <1>7, <1>8, <1>9 DEF IInv

-----------------------------------------------------------------------------
(* Steps that end claims                                                   *)

(* A live claim that lapses, or is refused as late, is past its deadline   *)
(* and the grace, and its task was not finished in time.                   *)
LEMMA NoneLost ==
  ASSUME IInv, Reachable, DeadlinesEnforced, NEW c \in Claim,
         claim[c].state = "claimed", claim[c].alive, Silent(c) \/ PastDeadline(c)
  PROVE  clock > claim[c].deadline + Grace /\ claim[c].done # "in time"
<1>1. /\ clock \in Nat /\ reclaimFrom \in Nat /\ notBefore \in Nat
      /\ Timeout \in Nat \ {0} /\ Grace \in Nat \ {0}
  BY Clocks DEF IInv, TypeInv
<1>2. claim[c].beat \in Int /\ claim[c].claimed \in Int /\ claim[c].deadline \in Int
  BY DEF IInv, TypeInv, ClaimState
<1>3. ~JustBack
  BY <1>1 DEF JustBack, DeadlinesEnforced
<1>4. claim[c].beat >= clock - 1 \/ claim[c].claimed >= clock - 1
  BY <1>3 DEF IInv, FreshInv
<1>5. ~Silent(c)
  <2>1. LET m == Max({claim[c].beat, claim[c].claimed})
        IN m \in Int /\ m >= claim[c].beat /\ m >= claim[c].claimed
    BY <1>2, LargerOfTwo
  <2> DEFINE m == Max({claim[c].beat, claim[c].claimed})
  <2>2. m \in Int /\ m >= claim[c].beat /\ m >= claim[c].claimed
    BY <2>1
  <2> HIDE DEF m
  <2>3. ~(m < clock - Timeout)
    BY <1>1, <1>2, <1>4, <2>2
  <2> QED
    BY <2>3 DEF Silent, m
<1>6. claim[c].deadline < clock - Grace
  BY <1>5 DEF PastDeadline
<1>7. claim[c].done # "in time" \/ clock <= claim[c].deadline
  BY <1>3 DEF IInv, FreshInv
<1>8. clock > claim[c].deadline + Grace /\ ~(clock <= claim[c].deadline)
  BY <1>1, <1>2, <1>6
<1> QED
  BY <1>7, <1>8

LEMMA SweepStep ==
  ASSUME IInv, Sweep
  PROVE  IInv'
<1>1. UNCHANGED <<clock, mishaps, server, job>> /\ Reachable /\ active /\ DeadlinesEnforced
  BY DEF Sweep
<1> DEFINE Lapses(c) ==
             /\ claim[c].state = "claimed" /\ (Silent(c) \/ PastDeadline(c))
             /\ claim'[c].state = "abandoned" /\ claim'[c].ended = clock
             /\ claim'[c].deadline = claim[c].deadline
             /\ claim'[c].hit = Overran(c)
             /\ claim'[c].overrun = IF Overran(c) THEN "pending" ELSE "no"
             /\ claim'[c].alive = claim[c].alive /\ claim'[c].done = claim[c].done
<1>2. claim' \in [Claim -> ClaimState] /\ \A c \in Claim : claim'[c] = claim[c] \/ Lapses(c)
  BY SweepFacts DEF IInv
<1>3. TypeInv'
  BY <1>1, <1>2 DEF IInv, TypeInv, server, job
<1>4. ASSUME NEW c \in Claim
      PROVE  Sound(claim'[c], clock)
  <2>1. Sound(claim[c], clock)
    BY DEF IInv, ClaimInv
  <2>2. CASE Lapses(c)
    <3>1. Overran(c) => claim[c].deadline <= clock
      <4>1. clock \in Nat /\ Grace \in Nat /\ claim[c].deadline \in Int
        BY Clocks DEF IInv, TypeInv, ClaimState
      <4> QED
        BY <4>1 DEF Overran, PastDeadline
    <3>2. clock <= clock
      BY DEF IInv, TypeInv
    <3> QED
      BY <2>1, <2>2, <3>1, <3>2 DEF Sound
  <2> QED
    BY <1>2, <2>1, <2>2
<1>5. ClaimInv'
  BY <1>1, <1>4 DEF IInv, ClaimInv, job
<1>6. FreshInv'
  <2>1. \A c \in Claim : claim'[c].state = "claimed" => claim'[c] = claim[c]
    BY <1>2
  <2>2. Reachable' = Reachable /\ JustBack' = JustBack
    BY <1>1 DEF server, Reachable, JustBack
  <2> QED
    BY <1>1, <2>1, <2>2 DEF IInv, FreshInv
<1>7. NoLostWork'
  <2>1. ASSUME NEW c \in Claim, Lapses(c), claim[c].alive
        PROVE  clock > claim[c].deadline + Grace /\ claim[c].done # "in time"
    BY <1>1, <2>1, NoneLost
  <2>2. ASSUME NEW c \in Claim, claim'[c].state = "abandoned", claim'[c].alive
        PROVE  claim'[c].ended > claim'[c].deadline + Grace /\ claim'[c].done # "in time"
    <3>1. CASE claim'[c] = claim[c]
      BY <2>2, <3>1 DEF IInv, NoLostWork
    <3>2. CASE Lapses(c)
      BY <2>1, <2>2, <3>2
    <3> QED
      BY <1>2, <3>1, <3>2
  <2> QED
    BY <2>2 DEF NoLostWork
<1>8. RunInv'
  <2>1. ASSUME NEW c \in Claim, Lapses(c)
        PROVE  /\ claim'[c].overrun # "counted" /\ claim[c].overrun # "counted"
               /\ claim'[c].state # "declined" /\ claim[c].state # "declined"
    BY <2>1 DEF IInv, ClaimInv, Sound
  <2> QED
    BY <1>1, <1>2, <2>1, RunKept DEF job
<1>9. SinceInv'
  <2>1. ~Purged
    BY <1>1 DEF Purged
  <2> QED
    BY <1>1, <1>2, <2>1, SinceKept DEF job
<1> QED
  BY <1>3, <1>5, <1>6, <1>7, <1>8, <1>9 DEF IInv

LEMMA PurgeStep ==
  ASSUME IInv, PurgeCommits
  PROVE  IInv'
<1>1. /\ held' = FALSE /\ active' = FALSE /\ run' = 0 /\ since' = Never /\ restarted' = clock
      /\ UNCHANGED <<clock, mishaps, up, reclaimFrom, notBefore, limit>>
  BY DEF PurgeCommits
<1> DEFINE k == [Unclaimed EXCEPT !.state = "completed"]
<1>2. /\ k \in ClaimState /\ k.state = "completed" /\ k.overrun = "no" /\ k.hit = FALSE
      /\ k.ended = Never
  <2>1. Unclaimed \in ClaimState /\ Unclaimed.overrun = "no" /\ Unclaimed.hit = FALSE
        /\ Unclaimed.ended = Never
    BY DEF Unclaimed, ClaimState, Never
  <2> QED
    BY <2>1 DEF ClaimState
<1>3. claim' = [c \in Claim |-> IF claim[c].state = "none" THEN claim[c] ELSE k]
  BY DEF PurgeCommits
<1> HIDE DEF k
<1>4. \A c \in Claim : (claim'[c] = claim[c] /\ claim[c] = Unclaimed /\ claim[c].state = "none")
                      \/ claim'[c] = k
  BY <1>3 DEF IInv, ClaimInv, Sound
<1>5. clock \in Nat /\ Never <= clock /\ clock <= clock /\ Never \in Int
  BY DEF IInv, TypeInv, Never
<1>6. TypeInv'
  <2>1. claim' \in [Claim -> ClaimState]
    BY <1>2, <1>3 DEF IInv, TypeInv
  <2>2. /\ mishaps \in 0..MaxMishaps /\ up \in BOOLEAN /\ reclaimFrom \in Nat
        /\ notBefore \in Nat /\ limit \in Limits
    BY DEF IInv, TypeInv
  <2>3. clock \in Int
    BY <1>5
  <2> QED
    BY <1>1, <1>5, <2>1, <2>2, <2>3 DEF TypeInv
<1>7. ClaimInv'
  <2>1. Sound(k, clock)
    BY <1>2, <1>5 DEF Sound
  <2> QED
    BY <1>1, <1>4, <1>5, <2>1 DEF IInv, ClaimInv
<1>8. \A c \in Claim : /\ claim'[c].state \in {"none", "completed"}
                      /\ claim'[c].overrun = "no"
  BY <1>2, <1>4 DEF Unclaimed
<1>9. FreshInv' /\ NoLostWork'
  BY <1>8 DEF FreshInv, NoLostWork
<1>10. RunInv'
  BY <1>1, <1>8, RunBegins
<1>11. SinceInv'
  BY <1>1, <1>8 DEF SinceInv, Purged
<1> QED
  BY <1>6, <1>7, <1>9, <1>10, <1>11 DEF IInv

LEMMA SubmitStep ==
  ASSUME IInv, NEW c \in Claim, Submit(c)
  PROVE  IInv'
<1>1. /\ claim' = Ended(c, "completed") /\ run' = 0 /\ since' = clock /\ claim[c].state = "claimed"
      /\ UNCHANGED <<clock, mishaps, server, active, limit, restarted>>
  BY DEF Submit, Open
<1>2. /\ claim' \in [Claim -> ClaimState] /\ \A b \in Claim \ {c} : claim'[b] = claim[b]
      /\ claim'[c].state = "completed" /\ claim'[c].ended = clock
      /\ claim'[c].overrun = claim[c].overrun /\ claim'[c].hit = claim[c].hit
  <2>1. TypeInv
    BY DEF IInv
  <2> QED
    BY <1>1, <2>1, EndedFacts DEF Others
<1>3. clock \in Nat /\ clock <= clock
  BY DEF IInv, TypeInv
<1>4. TypeInv'
  BY <1>1, <1>2, <1>3 DEF IInv, TypeInv, server
<1>5. \A b \in Claim : Sound(claim[b], clock)
  BY DEF IInv, ClaimInv
<1>6. Sound(claim'[c], clock)
  BY <1>1, <1>2, <1>3, <1>5 DEF Sound
<1>7. ClaimInv'
  BY <1>1, <1>2, <1>3, <1>5, <1>6 DEF IInv, ClaimInv
<1>8. FreshInv'
  <2>1. Reachable' = Reachable /\ JustBack' = JustBack
    BY <1>1 DEF server, Reachable, JustBack
  <2> QED
    BY <1>1, <1>2, <2>1 DEF IInv, FreshInv
<1>9. NoLostWork'
  BY <1>2 DEF IInv, NoLostWork
<1>10. RunInv'
  <2>1. \A b \in Claim : claim'[b].ended \in Int /\ claim'[b].deadline \in Int
    BY <1>2 DEF ClaimState
  <2>2. \A b \in Claim : Sound(claim'[b], clock)
    BY <1>2, <1>5, <1>6
  <2> QED
    BY <1>1, <1>3, <2>1, <2>2, RunBegins DEF Sound
<1>11. SinceInv'
  <2>1. restarted <= clock /\ \A b \in Claim : claim[b].ended <= clock
    BY <1>5 DEF IInv, ClaimInv, Sound
  <2>2. GoodAt(since)'
    BY <1>1, <1>2, <1>3, <2>1 DEF GoodAt
  <2> QED
    BY <2>2 DEF SinceInv
<1> QED
  BY <1>4, <1>7, <1>8, <1>9, <1>10, <1>11 DEF IInv

LEMMA DeclineStep ==
  ASSUME IInv, NEW c \in Claim, DeclineOther(c)
  PROVE  IInv'
<1>1. /\ claim' = Ended(c, "declined") /\ claim[c].state = "claimed"
      /\ mishaps < MaxMishaps /\ mishaps' = mishaps + 1
      /\ UNCHANGED <<clock, server, job>>
  BY DEF DeclineOther, Open
<1>2. /\ claim' \in [Claim -> ClaimState] /\ \A b \in Claim \ {c} : claim'[b] = claim[b]
      /\ claim'[c].state = "declined" /\ claim'[c].ended = clock
      /\ claim'[c].overrun = claim[c].overrun /\ claim'[c].hit = claim[c].hit
  <2>1. TypeInv
    BY DEF IInv
  <2> QED
    BY <1>1, <2>1, EndedFacts DEF Others
<1>3. clock \in Nat /\ clock <= clock
  BY DEF IInv, TypeInv
<1>4. TypeInv'
  <2>1. mishaps' \in 0..MaxMishaps
    BY <1>1, Clocks DEF IInv, TypeInv
  <2> QED
    BY <1>1, <1>2, <1>3, <2>1 DEF IInv, TypeInv, server, job
<1>5. Sound(claim[c], clock)
  BY DEF IInv, ClaimInv
<1>6. Sound(claim'[c], clock)
  BY <1>1, <1>2, <1>3, <1>5 DEF Sound
<1>7. ClaimInv'
  BY <1>1, <1>2, <1>6 DEF IInv, ClaimInv, job
<1>8. FreshInv'
  <2>1. Reachable' = Reachable /\ JustBack' = JustBack
    BY <1>1 DEF server, Reachable, JustBack
  <2> QED
    BY <1>1, <1>2, <2>1 DEF IInv, FreshInv
<1>9. NoLostWork'
  BY <1>2 DEF IInv, NoLostWork
<1>10. /\ claim'[c].overrun = "no" /\ claim[c].overrun = "no" /\ ~claim'[c].hit
       /\ UNCHANGED <<since, run, active, restarted>>
  BY <1>1, <1>2, <1>5 DEF Sound, job
<1>11. RunInv'
  <2>1. ASSUME NEW b \in Claim
        PROVE  /\ claim'[b].overrun = "counted" <=> claim[b].overrun = "counted"
               /\ claim[b].overrun = "counted" => claim'[b].deadline = claim[b].deadline
               /\ (claim'[b].state = "declined" /\ claim'[b].hit)
                    <=> (claim[b].state = "declined" /\ claim[b].hit)
               /\ claim[b].state = "declined" => claim'[b].ended = claim[b].ended
    BY <1>1, <1>2, <1>10
  <2> QED
    BY <1>10, <2>1, RunKept
<1>12. SinceInv'
  <2>1. ~Purged
    BY <1>1 DEF Purged
  <2> QED
    BY <1>1, <1>2, <1>10, <2>1, SinceKept
<1> QED
  BY <1>4, <1>7, <1>8, <1>9, <1>11, <1>12 DEF IInv

LEMMA CardUp ==
  ASSUME NEW A, IsFiniteSet(A), NEW B, IsFiniteSet(B)
  PROVE  /\ IsFiniteSet(A \cup B) /\ Cardinality(A) \in Nat /\ Cardinality(B) \in Nat
         /\ Cardinality(A \cup B) \in Nat
         /\ Cardinality(A \cup B) <= Cardinality(A) + Cardinality(B)
         /\ A \cap B = {} => Cardinality(A \cup B) = Cardinality(A) + Cardinality(B)
<1>1. /\ IsFiniteSet(A \cup B)
      /\ Cardinality(A \cup B) = Cardinality(A) + Cardinality(B) - Cardinality(A \cap B)
  BY FS_Union
<1>2. IsFiniteSet(A \cap B)
  BY FS_Intersection
<1>3. /\ Cardinality(A) \in Nat /\ Cardinality(B) \in Nat /\ Cardinality(A \cup B) \in Nat
      /\ Cardinality(A \cap B) \in Nat /\ (A \cap B = {} => Cardinality(A \cap B) = 0)
  BY <1>1, <1>2, FS_CardinalityType, FS_EmptySet
<1> QED
  BY <1>1, <1>3

(* What a run counts when overruns are counted and D, a claim that is      *)
(* handed back or none, declines for the limit.                            *)
LEMMA RunCounts ==
  ASSUME IInv, NEW cl \in [Claim -> ClaimState], NEW D \in SUBSET Claim,
         RecordTimeLimit(cl, Cardinality(D)),
         \A b \in Claim : Sound(cl[b], clock),
         Counted(cl, since) = Counted(claim, since),
         DeclinedAfter(cl, since) \subseteq DeclinedAfter(claim, since) \cup D,
         DeclinedSince(claim, since) \cup D \subseteq DeclinedSince(cl, since),
         D \cap AtMost(claim, since) = {}
  PROVE  RunInv' /\ run' \in Nat
<1> DEFINE P    == {c \in Pending(cl) : InRun(c, cl)}
           hits == Cardinality(D) + Cardinality(P)
           some == Cardinality(D) > 0 \/ Pending(cl) # {}
<1>1. /\ run' = run + hits /\ since' = since
      /\ active' = (active /\ ~(some /\ run + hits >= Streak))
  BY DEF RecordTimeLimit
<1>2. IsFiniteSet(D) /\ IsFiniteSet(P) /\ P \subseteq Claim
  <2>1. P \in SUBSET Claim
    BY DEF Pending
  <2> QED
    BY <2>1, Clocks, FS_Subset
<1>3. P = {c \in Claim : cl[c].overrun = "pending" /\ cl[c].deadline > since}
  <2>1. ASSUME NEW c \in Claim, cl[c].overrun = "pending"
        PROVE  cl[c].deadline > Never
    <3>1. cl[c].deadline \in Int /\ 0 <= cl[c].deadline
      BY <2>1 DEF Sound, ClaimState
    <3> QED
      BY <3>1 DEF Never
  <2> QED
    BY <2>1 DEF Pending, InRun
<1>4. Cardinality(D) \in Nat /\ RecordTimeLimit(cl, Cardinality(D))
  BY <1>2, FS_CardinalityType
<1>5. \A c \in Claim :
         /\ claim'[c].overrun = IF cl[c].overrun = "pending" THEN "counted" ELSE cl[c].overrun
         /\ claim'[c].state = cl[c].state /\ claim'[c].deadline = cl[c].deadline
         /\ claim'[c].ended = cl[c].ended /\ claim'[c].hit = cl[c].hit
  BY <1>4, CountFacts
<1> HIDE DEF P
<1>6. /\ Counted(claim', since) = Counted(claim, since) \cup P
      /\ DeclinedAfter(claim', since) = DeclinedAfter(cl, since)
      /\ DeclinedSince(claim', since) = DeclinedSince(cl, since)
  <2>1. Counted(claim', since) = Counted(cl, since) \cup P
    BY <1>3, <1>5 DEF Counted
  <2> QED
    BY <1>5, <2>1 DEF DeclinedAfter, DeclinedSince
<1> DEFINE L == AtLeast(claim, since)
           M == AtMost(claim, since)
<1>7. AtLeast(claim', since) \subseteq (L \cup P) \cup D
  BY <1>6 DEF AtLeast
<1>8. (M \cup P) \cup D \subseteq AtMost(claim', since)
  BY <1>6 DEF AtMost
<1>9. M \cap P = {} /\ (M \cup P) \cap D = {}
  <2>1. P \cap DeclinedSince(cl, since) = {}
    BY <1>3 DEF DeclinedSince, Sound
  <2>2. P \cap Counted(cl, since) = {}
    BY <1>3 DEF Counted
  <2> QED
    BY <2>1, <2>2 DEF AtMost
<1>10. IsFiniteSet(L) /\ IsFiniteSet(M)
  BY HitsFinite
<1>11. /\ Cardinality(L) <= run /\ run <= Cardinality(M) /\ run \in Nat
       /\ active => run < Streak
  BY DEF IInv, RunInv, TypeInv
<1> HIDE DEF L, M
<1>12. /\ Cardinality(P) \in Nat /\ Cardinality(D) \in Nat
       /\ IsFiniteSet((L \cup P) \cup D) /\ Cardinality((L \cup P) \cup D) \in Nat
       /\ Cardinality((L \cup P) \cup D) <= Cardinality(L) + Cardinality(P) + Cardinality(D)
       /\ Cardinality((M \cup P) \cup D) = Cardinality(M) + Cardinality(P) + Cardinality(D)
       /\ Cardinality(L) \in Nat /\ Cardinality(M) \in Nat
  <2>1. /\ IsFiniteSet(L \cup P) /\ Cardinality(L) \in Nat /\ Cardinality(P) \in Nat
        /\ Cardinality(L \cup P) \in Nat /\ Cardinality(L \cup P) <= Cardinality(L) + Cardinality(P)
    BY <1>2, <1>10, CardUp
  <2>2. /\ IsFiniteSet(M \cup P) /\ Cardinality(M) \in Nat
        /\ Cardinality(M \cup P) = Cardinality(M) + Cardinality(P)
    BY <1>2, <1>9, <1>10, CardUp
  <2>3. /\ IsFiniteSet((L \cup P) \cup D) /\ Cardinality((L \cup P) \cup D) \in Nat
        /\ Cardinality((L \cup P) \cup D) <= Cardinality(L \cup P) + Cardinality(D)
    BY <1>2, <2>1, CardUp
  <2>4. Cardinality((M \cup P) \cup D) = Cardinality(M \cup P) + Cardinality(D)
    BY <1>2, <1>9, <2>2, CardUp
  <2> QED
    BY <1>4, <2>1, <2>2, <2>3, <2>4
<1>13. Cardinality(AtLeast(claim', since)) <= Cardinality((L \cup P) \cup D)
  BY <1>7, <1>12, FS_Subset
<1>14. Cardinality((M \cup P) \cup D) <= Cardinality(AtMost(claim', since))
  BY <1>8, HitsFinite, FS_Subset
<1>15. Cardinality(AtLeast(claim', since)) \in Nat /\ Cardinality(AtMost(claim', since)) \in Nat
  BY HitsFinite
<1>16. /\ Cardinality(AtLeast(claim', since)) <= run' /\ run' <= Cardinality(AtMost(claim', since))
       /\ run' \in Nat
  BY <1>1, <1>11, <1>12, <1>13, <1>14, <1>15
<1>17. active' => run' < Streak
  <2>0. ASSUME active'
        PROVE  active /\ ~(some /\ run + hits >= Streak)
    BY <1>1, <2>0
  <2>1. CASE some
    <3>1. run + hits \in Int /\ Streak \in Int
      BY <1>11, <1>12, Clocks
    <3> QED
      BY <1>1, <2>0, <2>1, <3>1
  <2>2. CASE ~some
    <3>1. P = {}
      BY <2>2 DEF P
    <3>2. Cardinality(P) = 0
      BY <3>1, FS_EmptySet
    <3>3. Cardinality(D) = 0
      BY <1>12, <2>2
    <3>4. run' = run
      BY <1>1, <1>11, <3>2, <3>3
    <3> QED
      BY <1>11, <2>0, <3>4
  <2> QED
    BY <2>1, <2>2
<1>18. /\ AtLeast(claim, since)' = AtLeast(claim', since)
       /\ AtMost(claim, since)' = AtMost(claim', since)
  BY <1>1 DEF AtLeast, AtMost, Counted, DeclinedAfter, DeclinedSince
<1> QED
  BY <1>16, <1>17, <1>18 DEF RunInv

(* The rest of what a step that counts overruns must keep.                 *)
Gone(b, k) ==
  /\ claim[b].state = "claimed" /\ k.state \in {"abandoned", "declined"}
  /\ k.state = "abandoned" /\ k.alive =>
       k.ended > k.deadline + Grace /\ k.done # "in time"

LEMMA RecordKeeps ==
  ASSUME IInv, NEW cl \in [Claim -> ClaimState], NEW declines \in Nat,
         RecordTimeLimit(cl, declines), RunInv' /\ run' \in Nat, ~Purged,
         UNCHANGED <<clock, mishaps, server>>,
         \A b \in Claim : Sound(cl[b], clock) /\ (cl[b] = claim[b] \/ Gone(b, cl[b]))
  PROVE  IInv'
<1>1. UNCHANGED <<limit, since, restarted>> /\ active' \in BOOLEAN
  BY DEF RecordTimeLimit, IInv, TypeInv
<1>2. claim' \in [Claim -> ClaimState]
  BY CountFacts
<1>3. ASSUME NEW c \in Claim
      PROVE  /\ claim'[c].overrun = IF cl[c].overrun = "pending" THEN "counted" ELSE cl[c].overrun
             /\ claim'[c].state = cl[c].state /\ claim'[c].deadline = cl[c].deadline
             /\ claim'[c].ended = cl[c].ended /\ claim'[c].hit = cl[c].hit
             /\ claim'[c].alive = cl[c].alive /\ claim'[c].done = cl[c].done
             /\ cl[c].overrun # "pending" => claim'[c] = cl[c]
  BY CountFacts
<1>4. TypeInv'
  BY <1>1, <1>2 DEF IInv, TypeInv, server
<1>5. ClaimInv'
  <2>1. ASSUME NEW c \in Claim
        PROVE  Sound(claim'[c], clock)
    <3>1. CASE cl[c].overrun = "pending"
      BY <1>3, <3>1 DEF Sound
    <3>2. CASE cl[c].overrun # "pending"
      BY <1>3, <3>2
    <3> QED
      BY <3>1, <3>2
  <2> QED
    BY <1>1, <2>1 DEF IInv, ClaimInv
<1>6. FreshInv'
  <2>1. ASSUME NEW c \in Claim, claim'[c].state = "claimed"
        PROVE  claim'[c] = claim[c]
    <3>1. cl[c].state = "claimed"
      BY <1>3, <2>1
    <3>2. cl[c].overrun # "pending" /\ cl[c] = claim[c]
      BY <3>1 DEF Sound, Gone
    <3> QED
      BY <1>3, <3>2
  <2>2. Reachable' = Reachable /\ JustBack' = JustBack
    BY DEF server, Reachable, JustBack
  <2> QED
    BY <2>1, <2>2 DEF IInv, FreshInv
<1>7. NoLostWork'
  <2>1. ASSUME NEW c \in Claim, claim'[c].state = "abandoned", claim'[c].alive
        PROVE  claim'[c].ended > claim'[c].deadline + Grace /\ claim'[c].done # "in time"
    <3>1. cl[c].state = "abandoned" /\ cl[c].alive
      BY <1>3, <2>1
    <3>2. cl[c].ended > cl[c].deadline + Grace /\ cl[c].done # "in time"
      BY <3>1 DEF Gone, IInv, NoLostWork
    <3> QED
      BY <1>3, <3>2
  <2> QED
    BY <2>1 DEF NoLostWork
<1>8. SinceInv'
  <2>1. ASSUME NEW c \in Claim
        PROVE  /\ claim'[c].state = "completed" <=> claim[c].state = "completed"
               /\ claim[c].state = "completed" => claim'[c].ended = claim[c].ended
    <3>1. claim'[c].state = cl[c].state /\ claim'[c].ended = cl[c].ended
      BY <1>3
    <3>2. CASE cl[c] = claim[c]
      BY <3>1, <3>2
    <3>3. CASE Gone(c, cl[c])
      <4>1. claim[c].state = "claimed" /\ cl[c].state \in {"abandoned", "declined"}
        BY <3>3 DEF Gone
      <4> QED
        BY <3>1, <4>1
    <3> QED
      BY <3>2, <3>3
  <2> QED
    BY <1>1, <2>1, SinceKept
<1> QED
  BY <1>4, <1>5, <1>6, <1>7, <1>8 DEF IInv

LEMMA LateStep ==
  ASSUME IInv, NEW c \in Claim, SubmitLate(c)
  PROVE  IInv'
<1>1. /\ Reachable /\ claim[c].state = "claimed" /\ claim[c].alive
      /\ PastDeadline(c) /\ DeadlinesEnforced
      /\ RecordTimeLimit(Late(c), 0) /\ UNCHANGED <<clock, mishaps, server>>
  BY DEF SubmitLate, Open, Late
<1>2. TypeInv /\ \A b \in Claim : Sound(claim[b], clock)
  BY DEF IInv, ClaimInv
<1>3. /\ Late(c) \in [Claim -> ClaimState] /\ \A b \in Claim \ {c} : Late(c)[b] = claim[b]
      /\ Late(c)[c].state = "abandoned" /\ Late(c)[c].ended = clock
      /\ Late(c)[c].deadline = claim[c].deadline
      /\ Late(c)[c].overrun = "pending" /\ Late(c)[c].hit = TRUE
      /\ Late(c)[c].alive = claim[c].alive /\ Late(c)[c].done = claim[c].done
  BY <1>2, LateFacts DEF Others
<1>4. clock > claim[c].deadline + Grace /\ claim[c].done # "in time"
  BY <1>1, NoneLost
<1>5. /\ clock \in Nat /\ clock <= clock /\ claim[c].deadline \in Int
      /\ claim[c].deadline <= clock
  <2>1. clock \in Nat /\ claim[c].deadline \in Int /\ Grace \in Nat
    BY Clocks DEF IInv, TypeInv, ClaimState
  <2>2. clock > claim[c].deadline + Grace
    BY <1>4
  <2>3. claim[c].deadline <= clock /\ clock <= clock
    BY <2>1, <2>2
  <2> QED
    BY <2>1, <2>3
<1>6. claim[c].overrun = "no" /\ 0 <= claim[c].deadline /\ ~claim[c].hit
  BY <1>1, <1>2, <1>5 DEF Sound
<1>7. ASSUME NEW b \in Claim
      PROVE  Sound(Late(c)[b], clock) /\ (Late(c)[b] = claim[b] \/ Gone(b, Late(c)[b]))
  <2>1. CASE b = c
    BY <1>1, <1>3, <1>4, <1>5, <1>6, <2>1 DEF Sound, Gone
  <2>2. CASE b # c
    BY <1>2, <1>3, <2>2
  <2> QED
    BY <2>1, <2>2
<1>8. /\ Counted(Late(c), since) = Counted(claim, since)
      /\ DeclinedAfter(Late(c), since) = DeclinedAfter(claim, since)
      /\ DeclinedSince(Late(c), since) = DeclinedSince(claim, since)
  BY <1>1, <1>3, <1>6 DEF Counted, DeclinedAfter, DeclinedSince
<1>9. RunInv' /\ run' \in Nat
  <2>1. RecordTimeLimit(Late(c), Cardinality({}))
    BY <1>1, FS_EmptySet
  <2> QED
    BY <1>3, <1>7, <1>8, <2>1, RunCounts
<1>10. ~Purged
  BY <1>1 DEF Purged
<1> QED
  BY <1>1, <1>3, <1>7, <1>9, <1>10, RecordKeeps

LEMMA HandBackStep ==
  ASSUME IInv, NEW c \in Claim, DeclineTimeLimit(c)
  PROVE  IInv'
<1>1. /\ claim[c].state = "claimed"
      /\ RecordTimeLimit(HandedBack(c), 1) /\ UNCHANGED <<clock, mishaps, server>>
  BY DEF DeclineTimeLimit, Open, HandedBack
<1>2. TypeInv /\ \A b \in Claim : Sound(claim[b], clock)
  BY DEF IInv, ClaimInv
<1>3. /\ HandedBack(c) \in [Claim -> ClaimState]
      /\ \A b \in Claim \ {c} : HandedBack(c)[b] = claim[b]
      /\ HandedBack(c)[c].state = "declined" /\ HandedBack(c)[c].ended = clock
      /\ HandedBack(c)[c].overrun = claim[c].overrun /\ HandedBack(c)[c].hit = TRUE
      /\ HandedBack(c)[c].deadline = claim[c].deadline
  BY <1>2, HandedBackFacts DEF Others
<1>4. clock \in Nat /\ clock <= clock /\ clock >= since
  BY DEF IInv, TypeInv, ClaimInv
<1>5. claim[c].overrun = "no" /\ ~claim[c].hit
  BY <1>1, <1>2 DEF Sound
<1>6. ASSUME NEW b \in Claim
      PROVE  /\ Sound(HandedBack(c)[b], clock)
             /\ HandedBack(c)[b] = claim[b] \/ Gone(b, HandedBack(c)[b])
  <2>1. CASE b = c
    BY <1>1, <1>3, <1>4, <1>5, <2>1 DEF Sound, Gone
  <2>2. CASE b # c
    BY <1>2, <1>3, <2>2
  <2> QED
    BY <2>1, <2>2
<1>7. /\ Counted(HandedBack(c), since) = Counted(claim, since)
      /\ DeclinedAfter(HandedBack(c), since) \subseteq DeclinedAfter(claim, since) \cup {c}
      /\ DeclinedSince(claim, since) \cup {c} \subseteq DeclinedSince(HandedBack(c), since)
      /\ {c} \cap AtMost(claim, since) = {}
  <2>1. Counted(HandedBack(c), since) = Counted(claim, since)
    BY <1>3, <1>5 DEF Counted
  <2>2. DeclinedAfter(HandedBack(c), since) \subseteq DeclinedAfter(claim, since) \cup {c}
    BY <1>3 DEF DeclinedAfter
  <2>3. DeclinedSince(claim, since) \cup {c} \subseteq DeclinedSince(HandedBack(c), since)
    BY <1>1, <1>3, <1>4 DEF DeclinedSince
  <2>4. {c} \cap AtMost(claim, since) = {}
    BY <1>5 DEF AtMost, Counted, DeclinedSince
  <2> QED
    BY <2>1, <2>2, <2>3, <2>4
<1>8. RunInv' /\ run' \in Nat
  <2>1. RecordTimeLimit(HandedBack(c), Cardinality({c}))
    BY <1>1, FS_Singleton
  <2> QED
    BY <1>3, <1>6, <1>7, <2>1, RunCounts
<1>9. ~Purged
  BY <1>1 DEF Purged
<1> QED
  BY <1>1, <1>3, <1>6, <1>8, <1>9, RecordKeeps

LEMMA CountStep ==
  ASSUME IInv, CountOverruns
  PROVE  IInv'
<1>1. active /\ RecordTimeLimit(claim, 0) /\ UNCHANGED <<clock, mishaps, server>>
  BY DEF CountOverruns
<1>2. claim \in [Claim -> ClaimState] /\ \A b \in Claim : Sound(claim[b], clock)
  BY DEF IInv, TypeInv, ClaimInv
<1>3. RunInv' /\ run' \in Nat
  <2>1. RecordTimeLimit(claim, Cardinality({}))
    BY <1>1, FS_EmptySet
  <2> QED
    BY <1>2, <2>1, RunCounts
<1>4. ~Purged
  BY <1>1 DEF Purged
<1> QED
  BY <1>1, <1>2, <1>3, <1>4, RecordKeeps

-----------------------------------------------------------------------------
LEMMA InitIInv == Init => IInv
<1> SUFFICES ASSUME Init PROVE IInv
  OBVIOUS
<1>1. Unclaimed \in ClaimState /\ Sound(Unclaimed, 0)
  BY DEF Unclaimed, ClaimState, Sound, Never
<1>2. TypeInv
  <2>1. claim \in [Claim -> ClaimState]
    BY <1>1 DEF Init
  <2>2. mishaps \in 0..MaxMishaps /\ since \in Int /\ restarted \in Int
    BY Clocks DEF Init, Never
  <2> QED
    BY <2>1, <2>2 DEF Init, TypeInv
<1>3. ClaimInv
  BY <1>1 DEF Init, ClaimInv, Never
<1>4. FreshInv /\ NoLostWork
  BY DEF Init, FreshInv, NoLostWork, Unclaimed
<1>5. SinceInv
  BY DEF Init, SinceInv, GoodAt, Unclaimed, Never
<1>6. RunInv
  <2>1. AtLeast(claim, since) = {}
    BY DEF Init, AtLeast, Counted, DeclinedAfter, Unclaimed
  <2>2. Cardinality(AtLeast(claim, since)) = 0
    BY <2>1, FS_EmptySet
  <2> QED
    BY <2>2, HitsFinite, Clocks DEF Init, RunInv
<1> QED
  BY <1>2, <1>3, <1>4, <1>5, <1>6 DEF IInv

LEMMA IInvStep == ASSUME IInv, [Next]_vars PROVE IInv'
<1>1. CASE UNCHANGED vars
  BY <1>1
  DEF vars, IInv, TypeInv, ClaimInv, FreshInv, Reachable, JustBack, SinceInv, Purged, GoodAt,
      RunInv, AtLeast, AtMost, Counted, DeclinedAfter, DeclinedSince, NoLostWork
<1>2. CASE \E c \in Claim : Issue(c) \/ Finish(c) \/ Die(c)
  BY <1>2, WorkGoesOn
<1>3. CASE Heartbeat
  <2>1. \E c \in Claim : TRUE
    BY <1>3 DEF Heartbeat
  <2> QED
    BY <1>3, <2>1, WorkGoesOn
<1>4. CASE \/ Down \/ Restart \/ PurgeHolds \/ PurgeGivesUp \/ Activate \/ Deactivate
           \/ (\E l \in Limits : UpdateTimeLimit(l)) \/ Tick
  <2>1. claim' = claim
    BY <1>4 DEF Down, Restart, PurgeHolds, PurgeGivesUp, Activate, Deactivate, UpdateTimeLimit, Tick
  <2> QED
    BY <1>4, <2>1, ClaimsStay
<1> QED
  BY <1>1, <1>2, <1>3, <1>4, SubmitStep, LateStep, HandBackStep, DeclineStep, SweepStep, CountStep,
     PurgeStep DEF Next

(* Every variable stays in its type.                                       *)
THEOREM TypeCorrect == Spec => []TypeInv
<1>1. IInv => TypeInv
  BY DEF IInv
<1> QED
  BY <1>1, InitIInv, IInvStep, PTL DEF Spec

(* However long an outage or a purge that gave up kept a worker's messages *)
(* from the server, its claim is taken back only past its deadline and the *)
(* grace, and never with a result that was ready in time (reclaim_lapsed,  *)
(* reclaim_from, reclaim_not_before).                                      *)
THEOREM WorkKept == Spec => []NoLostWork
<1>1. IInv => NoLostWork
  BY DEF IInv
<1> QED
  BY <1>1, InitIInv, IInvStep, PTL DEF Spec

(* An active job with its overruns counted has had fewer hits in a row     *)
(* than set one aside, of those after the last good moment: the run counts *)
(* every one of them (record_time_limit, count_overruns).                  *)
THEOREM SetAsideEnough == Spec => []SetAsideInTime
<1>1. IInv => SetAsideInTime
  <2> SUFFICES ASSUME IInv, active, Pending(claim) = {}
               PROVE  LET hits == {c \in HitsInARow(claim) :
                                     claim[c].state = "declined" => claim[c].ended > LastGood}
                      IN Cardinality(hits) < Streak
    BY DEF SetAsideInTime
  <2> DEFINE hits == {c \in HitsInARow(claim) :
                        claim[c].state = "declined" => claim[c].ended > LastGood}
  <2>1. GoodAt(since)
    BY DEF IInv, SinceInv, Purged
  <2>2. LastGood = since
    BY <2>1, LastGoodIs DEF IInv
  <2>3. ASSUME NEW c \in hits
        PROVE  c \in AtLeast(claim, since)
    <3>1. c \in Claim /\ claim[c].hit /\ Sound(claim[c], clock) /\ claim[c] \in ClaimState
      BY DEF HitsInARow, IInv, ClaimInv, TypeInv
    <3>2. CASE claim[c].state = "declined"
      BY <2>2, <3>1, <3>2 DEF AtLeast, DeclinedAfter
    <3>3. CASE claim[c].state # "declined"
      <4>1. claim[c].overrun # "no" /\ claim[c].deadline > since
        BY <2>2, <3>1, <3>3 DEF Sound, HitsInARow
      <4>2. claim[c].overrun = "counted"
        BY <3>1, <4>1 DEF Pending, ClaimState
      <4> QED
        BY <3>1, <4>1, <4>2 DEF AtLeast, Counted
    <3> QED
      BY <3>2, <3>3
  <2> HIDE DEF hits
  <2>4. Cardinality(hits) <= Cardinality(AtLeast(claim, since)) /\ Cardinality(hits) \in Nat
    <3>1. hits \in SUBSET AtLeast(claim, since)
      BY <2>3
    <3> QED
      BY <3>1, HitsFinite, FS_Subset, FS_CardinalityType
  <2>5. /\ Cardinality(AtLeast(claim, since)) <= run /\ run < Streak
        /\ run \in Nat /\ Streak \in Nat /\ Cardinality(AtLeast(claim, since)) \in Nat
    BY HitsFinite, Clocks DEF IInv, RunInv, TypeInv
  <2>6. Cardinality(hits) < Streak
    BY <2>4, <2>5
  <2> QED
    BY <2>6 DEF hits
<1> QED
  BY <1>1, InitIInv, IInvStep, PTL DEF Spec

(* A step that sets a job aside has that many hits in a row behind it: no  *)
(* overrun counted late, after a task was completed, is among those the    *)
(* run counts (record_time_limit: since).                                  *)
THEOREM SetAsideEarned == Spec => SetAsideDeserved
<1>1. ASSUME IInv, IInv', [Next]_vars, run' > run, active, ~active'
      PROVE  Cardinality(HitsInARow(claim')) >= Streak
  <2>1. PICK cl, declines : RecordTimeLimit(cl, declines)
    <3>1. run \in Nat /\ run' \in Nat
      BY <1>1 DEF IInv, TypeInv
    <3>2. run' # run /\ run' # 0
      BY <1>1, <3>1
    <3>3. \A c \in Claim : ~(Issue(c) \/ Finish(c) \/ Die(c) \/ Submit(c) \/ DeclineOther(c))
      BY <3>2 DEF Issue, Finish, Die, Submit, DeclineOther, job
    <3>4. ~(Heartbeat \/ Sweep \/ Down \/ Restart \/ PurgeHolds \/ PurgeGivesUp \/ PurgeCommits)
      BY <3>2 DEF Heartbeat, Sweep, Down, Restart, PurgeHolds, PurgeGivesUp, PurgeCommits, job
    <3>5. ~(Activate \/ Deactivate \/ (\E l \in Limits : UpdateTimeLimit(l)) \/ Tick
            \/ UNCHANGED vars)
      BY <3>2 DEF Activate, Deactivate, UpdateTimeLimit, Tick, job, vars
    <3>6. \/ \E c \in Claim : SubmitLate(c) \/ DeclineTimeLimit(c)
          \/ CountOverruns
      BY <1>1, <3>3, <3>4, <3>5 DEF Next
    <3> QED
      BY <3>6 DEF SubmitLate, DeclineTimeLimit, CountOverruns
  <2>2. run' >= Streak /\ since' = since
    BY <1>1, <2>1 DEF RecordTimeLimit
  <2>3. LastGood = since
    <3>1. GoodAt(since)
      BY <1>1 DEF IInv, SinceInv, Purged
    <3> QED
      BY <1>1, <3>1, LastGoodIs DEF IInv
  <2>4. AtMost(claim', since) \subseteq HitsInARow(claim')
    <3>1. \A c \in Claim : Sound(claim'[c], clock')
      BY <1>1 DEF IInv, ClaimInv
    <3> QED
      BY <2>3, <3>1 DEF AtMost, Counted, DeclinedSince, HitsInARow, Sound
  <2>5. run' <= Cardinality(AtMost(claim', since))
    <3>1. AtMost(claim, since)' = AtMost(claim', since)
      BY <2>2 DEF AtMost, Counted, DeclinedSince
    <3> QED
      BY <1>1, <3>1 DEF IInv, RunInv
  <2>6. /\ Cardinality(AtMost(claim', since)) <= Cardinality(HitsInARow(claim'))
        /\ Cardinality(HitsInARow(claim')) \in Nat /\ Cardinality(AtMost(claim', since)) \in Nat
    <3>1. IsFiniteSet(HitsInARow(claim'))
      <4>1. HitsInARow(claim') \in SUBSET Claim
        BY DEF HitsInARow
      <4> QED
        BY <4>1, Clocks, FS_Subset
    <3> QED
      BY <2>4, <3>1, HitsFinite, FS_Subset, FS_CardinalityType
  <2>7. run' \in Nat /\ Streak \in Nat
    BY <1>1, Clocks DEF IInv, TypeInv
  <2> QED
    BY <2>2, <2>5, <2>6, <2>7
<1>2. IInv /\ IInv' /\ [Next]_vars =>
        [run' > run /\ active /\ ~active' => Cardinality(HitsInARow(claim')) >= Streak]_vars
  BY <1>1
<1> QED
  BY <1>2, InitIInv, IInvStep, PTL DEF Spec, SetAsideDeserved
=============================================================================
