-------------------------- MODULE FairShare_proofs --------------------------
(***************************************************************************)
(* Proofs about FairShare, for any jobs, workers, requests, admins and     *)
(* changes they ask for: the fleet is never given out twice, claims that   *)
(* arrive together do not burst, a job that joins is served in its turn,   *)
(* and its join is no takeover.                                            *)
(***************************************************************************)
EXTENDS FairShare, SumFacts, TLAPS

-----------------------------------------------------------------------------
(* Ratios                                                                  *)

LEMMA LeastIn ==
  ASSUME NEW S \in SUBSET Int, IsFiniteSet(S), S # {}
  PROVE  Least(S) \in S /\ \A n \in S : Least(S) <= n
<1> DEFINE f == [n \in S |-> -n]
<1>1. \A n \in S : f[n] \in Int
  OBVIOUS
<1>2. PICK d \in S : \A n \in S : f[n] <= f[d]
  <2> HIDE DEF f
  <2> QED
    BY <1>1, LargestAt
<1>3. \A n \in S : d <= n
  BY <1>2
<1> QED
  BY <1>3 DEF Least

LEMMA GreatestIn ==
  ASSUME NEW S \in SUBSET Int, IsFiniteSet(S), S # {}
  PROVE  Greatest(S) \in S /\ \A n \in S : n <= Greatest(S)
<1> DEFINE f == [n \in S |-> n]
<1>1. \A n \in S : f[n] \in Int
  OBVIOUS
<1>2. PICK d \in S : \A n \in S : f[n] <= f[d]
  <2> HIDE DEF f
  <2> QED
    BY <1>1, LargestAt
<1>3. \A n \in S : n <= d
  BY <1>2
<1> QED
  BY <1>3 DEF Greatest

LEMMA Quotient ==
  \A a \in Int, b \in Nat \ {0} : a \div b \in Int /\ (a \in Nat => a \div b \in Nat)
OBVIOUS

(* Ratios are integers, and grow with the claims. *)
LEMMA RatioType ==
  ASSUME NEW n \in Int, NEW alloc \in Nat \ {0}
  PROVE  Ratio(n, alloc) \in Int /\ \A m \in Int : m <= n => Ratio(m, alloc) <= Ratio(n, alloc)
<1> DEFINE u == Scale \div alloc
<1>1. u \in Nat
  BY Quotient, SizesAssumption
<1> HIDE DEF u
<1>2. n * u \in Int /\ \A m \in Int : m <= n => m * u <= n * u
  BY <1>1
<1> QED
  BY <1>2 DEF Ratio, u

(* A claim of a share that divides Scale counts as much more as the share  *)
(* is smaller.                                                             *)
Fits(alloc) == alloc \in Nat \ {0} /\ Scale % alloc = 0

LEMMA UnitIs ==
  ASSUME NEW alloc, Fits(alloc)
  PROVE  /\ Ratio(1, alloc) \in Nat \ {0} /\ Scale = alloc * Ratio(1, alloc)
         /\ \A n \in Int : Ratio(n, alloc) = n * Ratio(1, alloc)
<1> DEFINE u == Scale \div alloc
<1>1. Scale \in Nat \ {0} /\ alloc \in Nat \ {0} /\ Scale % alloc = 0
  BY SizesAssumption DEF Fits
<1>2. u \in Nat /\ Scale = alloc * u
  <2>1. \A a \in Nat, b \in Nat \ {0} : a % b = 0 => a = b * (a \div b)
    OBVIOUS
  <2>2. u \in Nat
    BY <1>1, Quotient
  <2> QED
    BY <1>1, <2>1, <2>2
<1> HIDE DEF u
<1>3. u # 0
  BY <1>1, <1>2
<1>4. 1 * u = u
  BY <1>2
<1>5. Ratio(1, alloc) = u /\ \A n \in Int : Ratio(n, alloc) = n * u
  BY <1>4 DEF Ratio, u
<1> QED
  BY <1>2, <1>3, <1>5

LEMMA UnitsFall ==
  ASSUME NEW a, NEW b, Fits(a), Fits(b), a <= b
  PROVE  Ratio(1, b) <= Ratio(1, a)
<1>1. \A u, v \in Nat \ {0} : a * u = b * v => v <= u
  BY DEF Fits
<1> QED
  BY <1>1, UnitIs

(* The claims a share has at a ratio are the most that do not exceed it.   *)
LEMMA AtIs ==
  ASSUME NEW r \in Int, NEW alloc, Fits(alloc)
  PROVE  /\ At(r, alloc) \in Int /\ Ratio(At(r, alloc), alloc) <= r
         /\ r < Ratio(At(r, alloc) + 1, alloc)
<1> DEFINE u == Ratio(1, alloc)
           d == At(r, alloc)
<1>1. /\ u \in Nat \ {0} /\ Scale = alloc * u /\ alloc \in Nat \ {0} /\ Scale \in Nat \ {0}
      /\ \A n \in Int : Ratio(n, alloc) = n * u
  BY UnitIs, SizesAssumption DEF Fits
<1>2. d \in Int /\ d * Scale <= r * alloc /\ r * alloc < (d + 1) * Scale
  <2>1. \A a \in Int, b \in Nat \ {0} :
          a \div b \in Int /\ (a \div b) * b <= a /\ a < ((a \div b) + 1) * b
    OBVIOUS
  <2>2. r * alloc \in Int
    BY <1>1
  <2> QED
    BY <1>1, <2>1, <2>2 DEF At
<1> HIDE DEF d, u
<1>3. \A n \in Int : n * Scale = (n * u) * alloc /\ n * u \in Int
  BY <1>1
<1>4. \A x, y \in Int : x * alloc <= y * alloc => x <= y
  BY <1>1
<1>5. \A x, y \in Int : x * alloc < y * alloc => x < y
  BY <1>1
<1>6. d * u <= r
  BY <1>2, <1>3, <1>4
<1>7. r < (d + 1) * u
  <2>1. d + 1 \in Int
    BY <1>2
  <2> QED
    BY <1>2, <1>3, <1>5, <2>1
<1> QED
  BY <1>1, <1>2, <1>6, <1>7 DEF d

LEMMA AtType ==
  ASSUME NEW r \in Int, NEW alloc \in Nat  PROVE At(r, alloc) \in Int
<1>1. r * alloc \in Int
  OBVIOUS
<1> QED
  BY <1>1, Quotient, SizesAssumption DEF At

Shares == [Job -> 0..Whole]
Counts == [Job -> Int]

(* The ratios of any jobs that are active have a least and a greatest.     *)
LEMMA RatiosOf ==
  ASSUME NEW s \in Shares, NEW n \in Counts, NEW S \in SUBSET Active(s), S # {}
  PROVE  /\ Least({Ratio(n[o], s[o]) : o \in S}) \in Int
         /\ Greatest({Ratio(n[o], s[o]) : o \in S}) \in Int
<1> DEFINE R == {Ratio(n[o], s[o]) : o \in S}
<1>1. R \in SUBSET Int
  <2> SUFFICES ASSUME NEW o \in S  PROVE Ratio(n[o], s[o]) \in Int
    OBVIOUS
  <2>1. n[o] \in Int /\ s[o] \in Nat \ {0}
    BY SizesAssumption DEF Active, Shares, Counts
  <2> QED
    BY <2>1, RatioType
<1>2. IsFiniteSet(R)
  <2>1. IsFiniteSet(S)
    BY FS_Subset, SizesAssumption DEF Active
  <2> DEFINE f == [o \in S |-> Ratio(n[o], s[o])]
  <2>2. f \in Surjection(S, R)
    BY DEF Surjection
  <2> QED
    BY <2>1, <2>2, FS_Surjection
<1>3. R # {}
  OBVIOUS
<1> HIDE DEF R
<1>4. Least(R) \in Int /\ Greatest(R) \in Int
  BY <1>1, <1>2, <1>3, LeastIn, GreatestIn
<1> QED
  BY <1>4 DEF R

LEMMA ParityType ==
  ASSUME NEW j, NEW s \in Shares, NEW n \in Counts
  PROVE  /\ ParityTarget(j, s, n) \subseteq Int /\ IsFiniteSet(ParityTarget(j, s, n))
         /\ ParityTarget(j, s, n) # {} => Least(ParityTarget(j, s, n)) \in Int
<1> DEFINE S == Served(j, s)
<1>1. ParityTarget(j, s, n) = IF S = {} THEN {} ELSE {Least({Ratio(n[o], s[o]) : o \in S})}
  BY DEF ParityTarget
<1>2. S \in SUBSET Active(s)
  BY DEF Served
<1> HIDE DEF S
<1>3. S # {} => Least({Ratio(n[o], s[o]) : o \in S}) \in Int
  BY <1>2, RatiosOf
<1> DEFINE P == ParityTarget(j, s, n)
<1>4. P \in SUBSET Int /\ IsFiniteSet(P)
  BY <1>1, <1>3, FS_EmptySet, FS_Singleton
<1> HIDE DEF P
<1>5. P # {} => Least(P) \in Int
  BY <1>4, LeastIn
<1> QED
  BY <1>4, <1>5 DEF P

LEMMA JoinType ==
  ASSUME NEW j, NEW s \in Shares, NEW n \in Counts  PROVE JoinRatio(j, s, n) \in Int
<1> DEFINE S == Active(s) \ {j}
<1>1. S # {} => Greatest({Ratio(n[o], s[o]) : o \in S}) \in Int
  BY RatiosOf
<1>2. ParityTarget(j, s, n) # {} => Least(ParityTarget(j, s, n)) \in Int
  BY ParityType
<1> QED
  BY <1>1, <1>2 DEF JoinRatio

-----------------------------------------------------------------------------
(* The order of the candidates                                             *)

Sorted(s) == \A i, k \in DOMAIN s : i < k => Ahead(s[i], s[k])

(* Any jobs that are active have one that comes last, *)
LEMMA LastOfAll ==
  ASSUME share \in Shares, standing \in Counts, NEW T \in SUBSET Active(share), T # {}
  PROVE  \E m \in T : \A k \in T \ {m} : Ahead(k, m)
<1> DEFINE f == [x \in T |-> Ratio(standing[x], share[x])]
           g == [x \in T |-> x]
<1>1. \A x \in T : f[x] \in Int /\ g[x] \in Int
  <2> SUFFICES ASSUME NEW x \in T  PROVE f[x] \in Int /\ g[x] \in Int
    OBVIOUS
  <2>1. standing[x] \in Int /\ share[x] \in Nat \ {0} /\ x \in Int
    BY SizesAssumption DEF Active, Shares, Counts
  <2> QED
    BY <2>1, RatioType
<1>2. IsFiniteSet(T)
  BY FS_Subset, SizesAssumption DEF Active
<1>3. PICK d \in T : \A x \in T : f[x] <= f[d]
  <2> HIDE DEF f
  <2> QED
    BY <1>1, <1>2, LargestAt
<1> DEFINE U == {x \in T : f[x] = f[d]}
<1>4. PICK m \in U : \A x \in U : g[x] <= g[m]
  <2>1. IsFiniteSet(U) /\ U # {} /\ \A x \in U : g[x] \in Int
    BY <1>1, <1>2, <1>3, FS_Subset
  <2> HIDE DEF U, g
  <2> QED
    BY <2>1, LargestAt
<1>5. ASSUME NEW k \in T \ {m}
      PROVE  Ahead(k, m)
  <2>1. f[k] < f[m] \/ (f[k] = f[m] /\ g[k] < g[m])
    <3>1. f[k] \in Int /\ f[m] \in Int /\ g[k] \in Int /\ g[m] \in Int /\ g[k] # g[m]
      BY <1>1, <1>4, <1>5
    <3>2. f[k] <= f[m] /\ (f[k] = f[m] => g[k] <= g[m])
      BY <1>3, <1>4, <1>5
    <3> HIDE DEF f, g
    <3> QED
      BY <3>1, <3>2
  <2> QED
    BY <1>4, <1>5, <2>1 DEF Ahead
<1> QED
  BY <1>4, <1>5

(* so that they can be put in order. *)
LEMMA OrderExists ==
  ASSUME share \in Shares, standing \in Counts, NEW S \in SUBSET Active(share)
  PROVE  \E s \in [1..Cardinality(S) -> S] : Sorted(s)
<1> DEFINE Has(T) == \E s \in [1..Cardinality(T) -> T] : Sorted(s)
           C      == {T \in SUBSET S : ~Has(T)}
<1>1. SUFFICES ASSUME C # {} PROVE FALSE
  OBVIOUS
<1>2. IsFiniteSet(S)
  BY FS_Subset, SizesAssumption DEF Active
<1>3. PICK T \in C : \A U \in SUBSET T : U # T => U \notin C
  <2>1. C \in SUBSET (SUBSET S)
    OBVIOUS
  <2> HIDE DEF C
  <2> QED
    BY <1>1, <1>2, <2>1, SmallestSet
<1>4. IsFiniteSet(T)
  BY <1>2, FS_Subset
<1>5. T # {}
  <2>1. Cardinality({}) = 0
    BY FS_EmptySet
  <2>2. << >> \in [1..0 -> {}] /\ Sorted(<< >>)
    BY DEF Sorted
  <2>3. Has({})
    BY <2>1, <2>2
  <2> QED
    BY <1>3, <2>3
<1>6. PICK m \in T : \A k \in T \ {m} : Ahead(k, m)
  BY <1>3, <1>5, LastOfAll
<1> DEFINE n == Cardinality(T)
<1>7. n \in Nat \ {0} /\ Cardinality(T \ {m}) = n - 1
  BY <1>4, <1>5, <1>6, FS_RemoveElement, FS_CardinalityType, FS_EmptySet
<1>8. PICK s \in [1..(n - 1) -> T \ {m}] : Sorted(s)
  <2>1. Has(T \ {m})
    BY <1>3, <1>6
  <2> QED
    BY <1>7, <2>1
<1> DEFINE z == [i \in 1..n |-> IF i = n THEN m ELSE s[i]]
<1> HIDE DEF n
<1>9. z \in [1..n -> T]
  BY <1>6, <1>7, <1>8
<1>10. Sorted(z)
  <2> SUFFICES ASSUME NEW i \in 1..n, NEW k \in 1..n, i < k  PROVE Ahead(z[i], z[k])
    BY DEF Sorted
  <2>1. i \in 1..(n - 1) /\ z[i] = s[i] /\ s[i] \in T \ {m}
    BY <1>7, <1>8
  <2>2. CASE k = n
    BY <1>6, <2>1, <2>2
  <2>3. CASE k # n
    BY <1>7, <1>8, <2>1, <2>3 DEF Sorted
  <2> QED
    BY <2>2, <2>3
<1> QED
  BY <1>3, <1>9, <1>10 DEF n

LEMMA CandidatesAre ==
  ASSUME share \in Shares, standing \in Counts, NEW h
  PROVE  /\ Candidates(h) \in Seq(Job)
         /\ ToSet(Candidates(h)) = Active(share) \cap CanRun[h]
         /\ \A i, k \in DOMAIN Candidates(h) : i # k => Candidates(h)[i] # Candidates(h)[k]
<1> DEFINE S == Active(share) \cap CanRun[h]
           s == CHOOSE s \in [1..Cardinality(S) -> S] : Sorted(s)
<1>1. S \in SUBSET Active(share) /\ S \subseteq Job /\ IsFiniteSet(S)
  BY FS_Subset, SizesAssumption DEF Active
<1>2. Candidates(h) = s
  BY DEF Candidates, Sorted
<1> HIDE DEF S
<1>3. s \in [1..Cardinality(S) -> S] /\ Cardinality(S) \in Nat /\ Sorted(s)
  BY <1>1, OrderExists, FS_CardinalityType
<1>4. s \in Seq(Job)
  <2>1. s \in [1..Cardinality(S) -> Job]
    BY <1>1, <1>3
  <2> HIDE DEF s
  <2> QED
    BY <1>3, <2>1
<1> HIDE DEF s
<1>5. \A x \in S : ~Ahead(x, x)
  <2> SUFFICES ASSUME NEW x \in S, Ahead(x, x)  PROVE FALSE
    OBVIOUS
  <2>1. standing[x] \in Int /\ share[x] \in Nat \ {0} /\ x \in Int
    BY <1>1, SizesAssumption DEF Active, Shares, Counts
  <2>2. Ratio(standing[x], share[x]) \in Int
    BY <2>1, RatioType
  <2> QED
    BY <2>1, <2>2 DEF Ahead
<1>6. \A i, k \in DOMAIN s : i # k => s[i] # s[k]
  <2> SUFFICES ASSUME NEW i \in DOMAIN s, NEW k \in DOMAIN s, i < k, s[i] = s[k]  PROVE FALSE
    BY <1>3
  <2> QED
    BY <1>3, <1>5 DEF Sorted
(* As many different jobs as there are: all of them.                       *)
<1>7. ToSet(s) = S
  <2>1. s \in Injection(1..Cardinality(S), S)
    BY <1>3, <1>6 DEF Injection, IsInjective
  <2>2. Cardinality(1..Cardinality(S)) = Cardinality(S)
    BY <1>3, FS_Interval
  <2>3. s \in Surjection(1..Cardinality(S), S)
    BY <1>1, <2>1, <2>2, FS_Injection
  <2> QED
    BY <1>3, <2>3 DEF Surjection, ToSet
<1> QED
  BY <1>2, <1>4, <1>6, <1>7 DEF S
-----------------------------------------------------------------------------
(* The inductive invariant                                                 *)

OnItsWay == {"walk", "locked", "lift"}

Requests ==
  [at : {"idle", "none", "gone"} \cup OnItsWay, list : Seq(Job),
   ratio : UNION {[S -> Int] : S \in SUBSET Job},
   alloc : UNION {[S -> 1..Whole] : S \in SUBSET Job},
   i : Nat, passed : SUBSET Job, busy : SUBSET Job, round : Nat, outrun : BOOLEAN,
   shifted : SUBSET Job]

(* A request on its way is at one of the jobs of its list, and has read    *)
(* the ratios and shares of all of them.                                   *)
Listed(q) ==
  /\ q \in Requests
  /\ q.at \in OnItsWay => /\ q.i \in 1..Len(q.list)
                          /\ DOMAIN q.ratio = ToSet(q.list) /\ DOMAIN q.alloc = ToSet(q.list)

TypeInv ==
  /\ share \in Shares /\ standing \in Counts /\ work \subseteq Job
  /\ req \in [Request -> Requests] /\ \A h \in Request : Listed(req[h])
  /\ adm \in [Admin -> [at : {"idle", "rows", "write"}, rows : Change \cup {<< >>}]]

(* The jobs' rows are one change's, and the sum of the shares that one     *)
(* has checked stays what it was until it writes.                          *)
CapOf(rows) ==
  SumOf(Job \ Named(rows)) + SumFunctionOnSet([i \in DOMAIN rows |-> rows[i][2]], DOMAIN rows)

AdmInv ==
  /\ \A a \in Admin : /\ adm[a].rows = << >> <=> adm[a].at = "idle"
                      /\ adm[a].at = "write" => CapOf(adm[a].rows) <= Whole
  /\ \A a, b \in Admin : a # b =>
       /\ Named(adm[a].rows) \cap Named(adm[b].rows) = {}
       /\ ~(adm[a].at = "write" /\ adm[b].at = "write")

(* A job has one request at its lock, whose turn it was when it took it,   *)
(* and is: only the request itself moves the job it has locked, and claims *)
(* of its rivals only put them further on.                                 *)
TurnOf(h) ==
  LET q == req[h]  j == Chosen(q)
  IN q.at = "locked" /\ j \notin q.shifted =>
       /\ share[j] > 0
       /\ \A o \in Rivals(q) \ q.shifted : share[o] > 0 =>
            Ratio(standing[j], share[j]) <= Ratio(standing[o] + 1, share[o])

OneAtTheLock ==
  \A g, h \in Request :
    g # h /\ req[g].at = "locked" /\ req[h].at = "locked" => Chosen(req[g]) # Chosen(req[h])

TurnInv == OneAtTheLock /\ \A h \in Request : TurnOf(h)

IInv == TypeInv /\ AdmInv /\ WholeFleet /\ TurnInv

-----------------------------------------------------------------------------
(* Requests                                                                *)

LEMMA IdleListed == Listed(IdleReq) /\ IdleReq.at = "idle"
<1>1. << >> \in Seq(Job)
  OBVIOUS
<1>2. << >> \in [{} -> Int] /\ << >> \in [{} -> 1..Whole]
  OBVIOUS
<1>3. /\ << >> \in UNION {[S -> Int] : S \in SUBSET Job}
      /\ << >> \in UNION {[S -> 1..Whole] : S \in SUBSET Job}
  BY <1>2
<1> QED
  BY <1>1, <1>3 DEF Listed, Requests, IdleReq, OnItsWay

(* The request at a job is at a job. *)
LEMMA ChosenType ==
  ASSUME NEW q, Listed(q), q.at \in OnItsWay
  PROVE  /\ Chosen(q) \in Job /\ ToSet(q.list) \subseteq Job /\ Chosen(q) \in ToSet(q.list)
         /\ q.ratio \in [ToSet(q.list) -> Int] /\ q.alloc \in [ToSet(q.list) -> 1..Whole]
<1>1. q.list \in Seq(Job) /\ q.i \in DOMAIN q.list
  BY DEF Listed, Requests
<1>2. q.ratio \in [ToSet(q.list) -> Int] /\ q.alloc \in [ToSet(q.list) -> 1..Whole]
  BY DEF Listed, Requests
<1> QED
  BY <1>1, <1>2 DEF Chosen, ToSet

LEMMA ReadListed ==
  ASSUME TypeInv, NEW h \in Request, NEW n \in Nat
  PROVE  Listed(Read(h, n)) /\ Read(h, n).at \in {"none", "walk"}
<1> DEFINE list == Candidates(h)
<1>1. list \in Seq(Job) /\ ToSet(list) \subseteq Active(share)
  BY CandidatesAre DEF TypeInv
<1>2. CASE list = << >>
  <2>1. Read(h, n) = [IdleReq EXCEPT !.at = "none"]
    BY <1>2 DEF Read
  <2>2. IdleReq \in Requests
    BY IdleListed DEF Listed
  <2> QED
    BY <2>1, <2>2 DEF Listed, Requests, OnItsWay
<1>3. CASE list # << >>
  <2> DEFINE ratio == [j \in ToSet(list) |-> Ratio(standing[j], share[j])]
             alloc == [j \in ToSet(list) |-> share[j]]
             busy  == IF n = 1 THEN {} ELSE req[h].busy
  <2>1. Read(h, n) = [at |-> "walk", list |-> list, i |-> 1, round |-> n, ratio |-> ratio,
                      alloc |-> alloc, passed |-> {}, busy |-> busy, outrun |-> FALSE,
                      shifted |-> {}]
    BY <1>3 DEF Read
  <2>2. ratio \in [ToSet(list) -> Int] /\ alloc \in [ToSet(list) -> 1..Whole]
    <3> SUFFICES ASSUME NEW j \in ToSet(list)
                 PROVE  Ratio(standing[j], share[j]) \in Int /\ share[j] \in 1..Whole
      OBVIOUS
    <3>0. j \in Job /\ share[j] > 0
      BY <1>1 DEF Active
    <3>1. share[j] \in 1..Whole /\ share[j] \in Nat \ {0} /\ standing[j] \in Int
      BY <3>0, SizesAssumption DEF TypeInv, Shares, Counts
    <3> QED
      BY <3>1, RatioType
  <2>3. ToSet(list) \in SUBSET Job
    BY <1>1 DEF Active
  <2>4. busy \in SUBSET Job
    BY DEF TypeInv, Requests
  <2>5. 1 \in 1..Len(list)
    BY <1>1, <1>3
  <2>6. /\ ratio \in UNION {[S -> Int] : S \in SUBSET Job}
        /\ alloc \in UNION {[S -> 1..Whole] : S \in SUBSET Job}
        /\ DOMAIN ratio = ToSet(list) /\ DOMAIN alloc = ToSet(list)
    BY <2>2, <2>3
  <2> HIDE DEF list, ratio, alloc, busy
  <2> QED
    BY <1>1, <2>1, <2>4, <2>5, <2>6 DEF Listed, Requests, OnItsWay
<1> QED
  BY <1>2, <1>3

LEMMA GoOnListed ==
  ASSUME TypeInv, NEW h \in Request, NEW q, Listed(q), q.at \in OnItsWay, GoOn(h, q)
  PROVE  /\ req' \in [Request -> Requests] /\ \A g \in Request : Listed(req'[g])
         /\ req'[h].at \in {"idle", "none", "walk"} /\ \A g \in Request \ {h} : req'[g] = req[g]
<1> SUFFICES ASSUME TRUE
             PROVE  \E r : /\ Listed(r) /\ r.at \in {"idle", "none", "walk"}
                            /\ req' = [req EXCEPT ![h] = r]
  BY DEF TypeInv, Listed
<1>1. CASE q.i < Len(q.list)
  <2> DEFINE n  == q.i + 1
             r1 == [q EXCEPT !.i = n]
             r  == [r1 EXCEPT !.at = "walk"]
  <2>0. Len(q.list) \in Nat /\ q.i \in Nat /\ n \in 1..Len(q.list) /\ n \in Nat
    BY <1>1 DEF Listed, Requests
  <2> HIDE DEF n
  <2>1. r1 \in Requests /\ r1.list = q.list /\ r1.ratio = q.ratio /\ r1.alloc = q.alloc
        /\ r1.i = n
    BY <2>0 DEF Listed, Requests
  <2> HIDE DEF r1
  <2>2. Listed(r) /\ r.at = "walk"
    BY <2>0, <2>1 DEF Listed, Requests, OnItsWay
  <2>3. req' = [req EXCEPT ![h] = r]
    BY <1>1 DEF GoOn, r1, n
  <2> QED
    BY <2>2, <2>3
<1>2. CASE ~(q.i < Len(q.list)) /\ q.outrun /\ q.round < Rounds
  <2> DEFINE r0 == Read(h, q.round + 1)
             r  == [r0 EXCEPT !.busy = q.busy]
  <2>1. q.round + 1 \in Nat /\ q.busy \in SUBSET Job
    BY DEF Listed, Requests
  <2>2. Listed(r0) /\ r0.at \in {"none", "walk"}
    BY <2>1, ReadListed
  <2> HIDE DEF r0
  <2>3. Listed(r) /\ r.at \in {"none", "walk"}
    BY <2>1, <2>2 DEF Listed, Requests
  <2>4. req' = [req EXCEPT ![h] = r]
    BY <1>2 DEF GoOn, r0
  <2> QED
    BY <2>3, <2>4
<1>3. CASE ~(q.i < Len(q.list)) /\ ~(q.outrun /\ q.round < Rounds)
  BY <1>3, IdleListed DEF GoOn
<1> QED
  BY <1>1, <1>2, <1>3
-----------------------------------------------------------------------------
(* What a change makes of the shares and standings                         *)

RowApplied(s, row) ==
  IF row[2] = s.share[row[1]] THEN s
  ELSE LET to == [s.share EXCEPT ![row[1]] = row[2]]
       IN [share |-> to,
           standing |-> IF row[2] = 0 THEN s.standing
             ELSE [s.standing EXCEPT ![row[1]] =
                     At(JoinRatio(row[1], to, s.standing), row[2])]]

(* What the fold over rows computes, for each part of them; it takes the   *)
(* last row of a part after the others.                                    *)
Applies(rows, D, g) ==
  g = [T \in SUBSET D |-> IF T = {} THEN [share |-> share, standing |-> standing]
                          ELSE RowApplied(g[T \ {Max(T)}], rows[Max(T)])]

LEMMA LastRow ==
  ASSUME NEW rows \in Seq(Job \X (0..Whole)), NEW T \in SUBSET DOMAIN rows, T # {}
  PROVE  Max(T) \in T
<1>1. IsFiniteSet(T) /\ T \subseteq Int
  <2>1. IsFiniteSet(DOMAIN rows) /\ DOMAIN rows \subseteq Int
    BY FS_Interval
  <2> QED
    BY <2>1, FS_Subset
<1> DEFINE f == [i \in T |-> i]
<1>2. PICK d \in T : \A x \in T : f[x] <= f[d]
  <2>1. \A x \in T : f[x] \in Int
    BY <1>1
  <2> HIDE DEF f
  <2> QED
    BY <1>1, <2>1, LargestAt
<1>3. \A x \in T : d >= x
  BY <1>1, <1>2
<1> QED
  BY <1>3 DEF Max

(* Two of them agree wherever both are defined, and there is one.          *)
LEMMA AppliesAgree ==
  ASSUME NEW rows \in Seq(Job \X (0..Whole)), NEW D \in SUBSET DOMAIN rows,
         NEW E \in SUBSET DOMAIN rows, NEW g, NEW h, Applies(rows, D, g), Applies(rows, E, h),
         NEW T, T \subseteq D, T \subseteq E
  PROVE  g[T] = h[T]
<1> DEFINE C == {U \in SUBSET D : U \subseteq E /\ g[U] # h[U]}
<1>1. SUFFICES ASSUME C # {} PROVE FALSE
  OBVIOUS
<1>2. PICK U \in C : \A V \in SUBSET U : V # U => V \notin C
  <2>1. C \in SUBSET (SUBSET D)
    OBVIOUS
  <2>2. IsFiniteSet(D)
    BY FS_Interval, FS_Subset
  <2> HIDE DEF C
  <2> QED
    BY <1>1, <2>1, <2>2, SmallestSet
<1>3. CASE U = {}
  BY <1>3, <1>2 DEF Applies
<1>4. CASE U # {}
  <2>1. Max(U) \in U
    BY <1>4, LastRow
  <2>2. U \ {Max(U)} \in SUBSET U /\ U \ {Max(U)} # U
    BY <2>1
  <2>3. g[U \ {Max(U)}] = h[U \ {Max(U)}]
    BY <1>2, <2>2
  <2>4. /\ g[U] = RowApplied(g[U \ {Max(U)}], rows[Max(U)])
        /\ h[U] = RowApplied(h[U \ {Max(U)}], rows[Max(U)])
    BY <1>2, <1>4 DEF Applies
  <2> QED
    BY <1>2, <2>3, <2>4
<1> QED
  BY <1>3, <1>4

LEMMA AppliesExist ==
  ASSUME NEW rows \in Seq(Job \X (0..Whole)), NEW D \in SUBSET DOMAIN rows
  PROVE  \E g : Applies(rows, D, g)
<1> DEFINE C == {T \in SUBSET D : ~ \E g : Applies(rows, T, g)}
<1>1. SUFFICES ASSUME C # {} PROVE FALSE
  OBVIOUS
<1>2. PICK T \in C : \A U \in SUBSET T : U # T => U \notin C
  <2>1. C \in SUBSET (SUBSET D)
    OBVIOUS
  <2>2. IsFiniteSet(D)
    BY FS_Interval, FS_Subset
  <2> HIDE DEF C
  <2> QED
    BY <1>1, <2>1, <2>2, SmallestSet
<1> DEFINE Of(U) == CHOOSE g : Applies(rows, U, g)
           G     == [U \in SUBSET T |-> IF U = {} THEN [share |-> share, standing |-> standing]
                      ELSE RowApplied(Of(U \ {Max(U)})[U \ {Max(U)}], rows[Max(U)])]
<1>3. ASSUME NEW U \in SUBSET T, U # T
      PROVE  Applies(rows, U, Of(U))
  <2>1. \E g : Applies(rows, U, g)
    BY <1>2, <1>3
  <2> QED
    BY <2>1
<1>4. ASSUME NEW U \in SUBSET T, U # T
      PROVE  G[U] = Of(U)[U]
  <2>1. Applies(rows, U, Of(U))
    BY <1>3, <1>4
  <2> HIDE DEF Of
  <2>2. CASE U = {}
    BY <2>1, <2>2 DEF Applies
  <2>3. CASE U # {}
    <3> DEFINE V == U \ {Max(U)}
    <3>1. V \in SUBSET T /\ V # T /\ V \subseteq U
      BY <1>4
    <3>2. Applies(rows, V, Of(V))
      BY <1>3, <3>1
    <3>3. Of(U)[V] = Of(V)[V]
      <4>1. U \in SUBSET DOMAIN rows /\ V \in SUBSET DOMAIN rows
        BY <3>1
      <4> HIDE DEF V
      <4> QED
        BY <2>1, <3>1, <3>2, <4>1, AppliesAgree
    <3>4. Of(U)[U] = RowApplied(Of(U)[V], rows[Max(U)])
      BY <2>1, <2>3 DEF Applies
    <3> QED
      BY <2>3, <3>3, <3>4
  <2> QED
    BY <2>2, <2>3
<1>5. Applies(rows, T, G)
  <2> HIDE DEF Of
  <2>1. ASSUME NEW U \in SUBSET T, U # {}
        PROVE  G[U] = RowApplied(G[U \ {Max(U)}], rows[Max(U)])
    <3>1. Max(U) \in U
      BY <2>1, LastRow
    <3>2. U \ {Max(U)} \in SUBSET T /\ U \ {Max(U)} # T
      BY <3>1
    <3>3. G[U \ {Max(U)}] = Of(U \ {Max(U)})[U \ {Max(U)}]
      BY <1>4, <3>2
    <3> QED
      BY <2>1, <3>3
  <2>2. G = [U \in SUBSET T |-> G[U]] /\ G[{}] = [share |-> share, standing |-> standing]
    OBVIOUS
  <2> HIDE DEF G
  <2>3. \A U \in SUBSET T : G[U] = IF U = {} THEN [share |-> share, standing |-> standing]
                                   ELSE RowApplied(G[U \ {Max(U)}], rows[Max(U)])
    BY <2>1, <2>2
  <2> QED
    BY <2>2, <2>3 DEF Applies
<1> QED
  BY <1>2, <1>5

(* So the fold takes the rows one after the other.                         *)
After(rows, T) == (CHOOSE g : Applies(rows, T, g))[T]

LEMMA AfterEquation ==
  ASSUME NEW rows \in Seq(Job \X (0..Whole))
  PROVE  /\ Applied(rows) = After(rows, DOMAIN rows)
         /\ After(rows, {}) = [share |-> share, standing |-> standing]
         /\ \A T \in SUBSET DOMAIN rows : T # {} =>
              After(rows, T) = RowApplied(After(rows, T \ {Max(T)}), rows[Max(T)])
<1> DEFINE Of(T) == CHOOSE g : Applies(rows, T, g)
<1>1. \A T \in SUBSET DOMAIN rows : Applies(rows, T, Of(T))
  BY AppliesExist
<1>2. Applied(rows) = After(rows, DOMAIN rows)
  BY DEF Applied, After, Applies, RowApplied, FoldLeft, MapThenFoldSet
<1>3. \A T : After(rows, T) = Of(T)[T]
  BY DEF After
<1> HIDE DEF Of
<1>4. After(rows, {}) = [share |-> share, standing |-> standing]
  <2>1. Applies(rows, {}, Of({}))
    BY <1>1
  <2> QED
    BY <1>3, <2>1 DEF Applies
<1>5. ASSUME NEW U \in SUBSET DOMAIN rows, NEW V \in SUBSET DOMAIN rows, V \subseteq U
      PROVE  Of(U)[V] = Of(V)[V]
  <2>1. Applies(rows, U, Of(U)) /\ Applies(rows, V, Of(V))
    BY <1>1
  <2>2. V \subseteq V
    OBVIOUS
  <2>3. ASSUME NEW g, NEW h, Applies(rows, U, g), Applies(rows, V, h)  PROVE g[V] = h[V]
    <3>1. U \in SUBSET DOMAIN rows /\ V \in SUBSET DOMAIN rows
      OBVIOUS
    <3> QED
      BY <1>5, <2>2, <2>3, <3>1, AppliesAgree, Z3
  <2> QED
    BY <2>1, <2>3
<1>6. ASSUME NEW T \in SUBSET DOMAIN rows, T # {}
      PROVE  After(rows, T) = RowApplied(After(rows, T \ {Max(T)}), rows[Max(T)])
  <2> DEFINE U == T \ {Max(T)}
  <2>1. U \in SUBSET DOMAIN rows /\ U \subseteq T
    OBVIOUS
  <2>2. Of(T)[U] = Of(U)[U]
    BY <1>5, <2>1
  <2>3. Of(T)[T] = RowApplied(Of(T)[U], rows[Max(T)])
    BY <1>1, <1>6 DEF Applies
  <2> QED
    BY <1>3, <2>2, <2>3
<1> QED
  BY <1>2, <1>4, <1>6

NamedBy(rows, T) == {rows[i][1] : i \in T}

(* A job that the change does not move, and that was claimed as late as    *)
(* any job but k that is active before, after or meanwhile.                *)
ActiveBy(rows, p) ==
  share[p] > 0 \/ \E i \in DOMAIN rows : rows[i][1] = p /\ rows[i][2] > 0
ServedBeside(rows, k, o) ==
  /\ last \in [Job -> Int] /\ o \in Job \ {k} /\ Fits(share[o]) /\ last[o] # Never
  /\ \A i \in DOMAIN rows : rows[i][1] = o => rows[i][2] = share[o]
  /\ \A p \in Job \ {k} : last[p] # Never /\ ActiveBy(rows, p) => last[p] <= last[o]

(* A job that no row names keeps its share and standing, each that one     *)
(* names has that row's share, and a job whose share does not change keeps *)
(* its standing; one that joins is put no further on than those it joins.  *)
AppliedSoFar(rows, T, s) ==
  /\ s = [share |-> s.share, standing |-> s.standing]
  /\ s.share \in Shares /\ s.standing \in Counts
  /\ \A j \in Job \ NamedBy(rows, T) : s.share[j] = share[j] /\ s.standing[j] = standing[j]
  /\ \A i \in T : /\ s.share[rows[i][1]] = rows[i][2]
                  /\ rows[i][2] = share[rows[i][1]] =>
                       s.standing[rows[i][1]] = standing[rows[i][1]]
  /\ \A i \in T : \A o : rows[i][2] # 0 /\ rows[i][2] # share[rows[i][1]]
                         /\ ServedBeside(rows, rows[i][1], o) =>
       Ratio(s.standing[rows[i][1]], rows[i][2]) <= Ratio(standing[o], share[o])

LEMMA RowsOf ==
  ASSUME NEW rows \in Change
  PROVE  /\ rows \in Seq(Job \X (0..Whole)) /\ rows # << >> /\ IsFiniteSet(DOMAIN rows)
         /\ \A i \in DOMAIN rows : rows[i][1] \in Job /\ rows[i][2] \in 0..Whole
         /\ \A i, k \in DOMAIN rows : i # k => rows[i][1] # rows[k][1]
         /\ \A i \in DOMAIN rows : rows[i][2] # 0 => Fits(rows[i][2])
<1>1. rows \in Seq(Job \X (0..Whole)) /\ rows # << >>
  BY ChangesAssumption
<1>2. \A i, k \in DOMAIN rows : i # k => rows[i][1] # rows[k][1]
  BY ChangesAssumption
<1>3. IsFiniteSet(DOMAIN rows)
  BY <1>1, FS_Interval
<1>4. \A i \in DOMAIN rows : rows[i][1] \in Job /\ rows[i][2] \in 0..Whole
  BY <1>1
<1>5. \A i \in DOMAIN rows : rows[i][2] # 0 => Fits(rows[i][2])
  BY <1>4, ChangesAssumption, SizesAssumption DEF Fits
<1> QED
  BY <1>1, <1>2, <1>3, <1>4, <1>5

(* Nobody else has been claimed later than a job that is being served.     *)
LEMMA ServedIs ==
  ASSUME last \in [Job -> Int], NEW j, NEW s, NEW o \in Job
  PROVE  o \in Served(j, s) <=>
           /\ o \in Active(s) \ {j} /\ last[o] # Never
           /\ \A p \in Active(s) \ {j} : last[p] # Never => last[p] <= last[o]
<1> DEFINE O == {p \in Active(s) \ {j} : last[p] # Never}
           L == {last[p] : p \in O}
<1>1. Served(j, s) = {p \in O : last[p] > Greatest(L) - 1}
  BY DEF Served
<1>2. O \subseteq Job /\ IsFiniteSet(O)
  BY FS_Subset, SizesAssumption DEF Active
<1>3. L \in SUBSET Int /\ IsFiniteSet(L)
  <2> DEFINE f == [p \in O |-> last[p]]
  <2>1. f \in Surjection(O, L)
    BY DEF Surjection
  <2>2. IsFiniteSet(L)
    BY <1>2, <2>1, FS_Surjection
  <2> QED
    BY <1>2, <2>2
<1>4. o \in O => L # {} /\ last[o] \in L
  OBVIOUS
<1>5. \A p \in O : last[p] \in L
  OBVIOUS
<1>6. \A n \in L : \E p \in O : n = last[p]
  OBVIOUS
<1> HIDE DEF L
<1>7. o \in O => Greatest(L) \in L /\ \A n \in L : n <= Greatest(L)
  BY <1>3, <1>4, GreatestIn
<1>8. o \in O => (last[o] > Greatest(L) - 1 <=> \A p \in O : last[p] <= last[o])
  <2> SUFFICES ASSUME o \in O
               PROVE  last[o] > Greatest(L) - 1 <=> \A p \in O : last[p] <= last[o]
    OBVIOUS
  <2>1. Greatest(L) \in Int /\ last[o] \in Int /\ last[o] <= Greatest(L)
    BY <1>3, <1>4, <1>7
  <2>2. ASSUME last[o] > Greatest(L) - 1, NEW p \in O  PROVE last[p] <= last[o]
    <3>1. last[p] \in Int /\ last[p] <= Greatest(L)
      BY <1>2, <1>5, <1>7
    <3> QED
      BY <2>1, <2>2, <3>1
  <2>3. ASSUME \A p \in O : last[p] <= last[o]  PROVE last[o] > Greatest(L) - 1
    <3>1. PICK p \in O : Greatest(L) = last[p]
      BY <1>6, <1>7
    <3> QED
      BY <2>1, <2>3, <3>1
  <2> QED
    BY <2>2, <2>3
<1> QED
  BY <1>1, <1>8

(* A job that joins beside one that is served is put no further on.        *)
LEMMA JoinIsLow ==
  ASSUME NEW j \in Job, NEW s \in Shares, NEW n \in Counts, NEW o \in Served(j, s)
  PROVE  /\ JoinRatio(j, s, n) \in Int /\ JoinRatio(j, s, n) <= Ratio(n[o], s[o])
<1> DEFINE S == Served(j, s)
           R == {Ratio(n[p], s[p]) : p \in S}
<1>1. S \in SUBSET Active(s) /\ S # {}
  BY DEF Served
<1>2. R \in SUBSET Int /\ IsFiniteSet(R) /\ R # {} /\ Ratio(n[o], s[o]) \in R
  <2>1. ASSUME NEW p \in S  PROVE Ratio(n[p], s[p]) \in Int
    <3>1. p \in Active(s)
      BY <1>1
    <3> HIDE DEF S
    <3>2. n[p] \in Int /\ s[p] \in Nat \ {0}
      BY <3>1, SizesAssumption DEF Active, Shares, Counts
    <3> QED
      BY <3>2, RatioType
  <2>2. IsFiniteSet(S)
    BY <1>1, FS_Subset, SizesAssumption DEF Active
  <2> DEFINE f == [p \in S |-> Ratio(n[p], s[p])]
  <2>3. f \in Surjection(S, R)
    BY DEF Surjection
  <2>4. IsFiniteSet(R)
    BY <2>2, <2>3, FS_Surjection
  <2> QED
    BY <2>1, <2>4
<1>3. ParityTarget(j, s, n) = {Least(R)}
  BY <1>1 DEF ParityTarget
<1> HIDE DEF R, S
<1>4. Least(R) \in Int /\ Least(R) <= Ratio(n[o], s[o])
  BY <1>2, LeastIn
<1>5. Least({Least(R)}) = Least(R)
  <2>1. {Least(R)} \in SUBSET Int /\ IsFiniteSet({Least(R)}) /\ {Least(R)} # {}
    BY <1>4, FS_Singleton
  <2> DEFINE T == {Least(R)}
  <2> HIDE DEF T
  <2>2. T \in SUBSET Int /\ IsFiniteSet(T) /\ T # {}
    BY <2>1 DEF T
  <2>3. Least(T) \in T
    BY <2>2, LeastIn
  <2> QED
    BY <2>3 DEF T
<1> QED
  BY <1>3, <1>4, <1>5 DEF JoinRatio

LEMMA RowKeeps ==
  ASSUME TypeInv, NEW rows \in Change, NEW T \in SUBSET DOMAIN rows, NEW m \in DOMAIN rows,
         m \notin T, NEW s, AppliedSoFar(rows, T, s)
  PROVE  AppliedSoFar(rows, T \cup {m}, RowApplied(s, rows[m]))
<1> DEFINE j == rows[m][1]
           n == rows[m][2]
<1>1. /\ j \in Job /\ n \in 0..Whole /\ \A i \in T : rows[i][1] # j /\ rows[i][1] \in Job
  BY RowsOf
<1>2. j \notin NamedBy(rows, T) /\ NamedBy(rows, T \cup {m}) = NamedBy(rows, T) \cup {j}
  BY <1>1 DEF NamedBy
<1>3. s.share[j] = share[j] /\ s.standing[j] = standing[j]
  BY <1>1, <1>2 DEF AppliedSoFar
<1>4. CASE n = share[j]
  <2>1. RowApplied(s, rows[m]) = s
    BY <1>3, <1>4 DEF RowApplied
  <2> QED
    BY <1>1, <1>2, <1>3, <1>4, <2>1 DEF AppliedSoFar
<1>5. CASE n # share[j]
  <2> DEFINE to == [s.share EXCEPT ![j] = n]
             w  == IF n = 0 THEN s.standing
                   ELSE [s.standing EXCEPT ![j] = At(JoinRatio(j, to, s.standing), n)]
  <2>1. RowApplied(s, rows[m]) = [share |-> to, standing |-> w]
    BY <1>3, <1>5 DEF RowApplied
  <2>2. to \in Shares /\ to[j] = n /\ \A k \in Job \ {j} : to[k] = s.share[k]
    BY <1>1 DEF AppliedSoFar, Shares
  <2> HIDE DEF to
  <2>3. At(JoinRatio(j, to, s.standing), n) \in Int
    <3>1. JoinRatio(j, to, s.standing) \in Int
      BY <2>2, JoinType DEF AppliedSoFar
    <3>2. n \in Nat
      BY <1>1
    <3> QED
      BY <3>1, <3>2, AtType
  <2>4. w \in Counts /\ \A k \in Job \ {j} : w[k] = s.standing[k]
    BY <1>1, <2>3 DEF AppliedSoFar, Counts
  <2> DEFINE z == RowApplied(s, rows[m])
  <2>5. z = [share |-> z.share, standing |-> z.standing] /\ z.share = to /\ z.standing = w
    BY <2>1
  (* Who is served when the row's turn comes is among those it joins.      *)
  <2>9. ASSUME NEW o, n # 0, ServedBeside(rows, j, o)
        PROVE  Ratio(w[j], n) <= Ratio(standing[o], share[o])
    <3>1. o \in Job \ {j} /\ last \in [Job -> Int] /\ share[o] > 0
      BY <2>9 DEF ServedBeside, Fits
    <3>2. ASSUME NEW p \in Job \ {j}, s.share[p] > 0
          PROVE  ActiveBy(rows, p)
      BY <3>2 DEF ActiveBy, AppliedSoFar, NamedBy
    <3>3. s.share[o] = share[o] /\ s.standing[o] = standing[o]
      BY <2>9, <3>1 DEF ServedBeside, AppliedSoFar, NamedBy
    <3>4. o \in Served(j, to)
      <4>1. o \in Active(to) \ {j} /\ last[o] # Never
        BY <2>2, <2>9, <3>1, <3>3 DEF Active, ServedBeside
      <4>2. ASSUME NEW p \in Active(to) \ {j}, last[p] # Never  PROVE last[p] <= last[o]
        BY <2>2, <2>9, <3>2, <4>2 DEF Active, ServedBeside
      <4> QED
        BY <3>1, <4>1, <4>2, ServedIs
    <3> DEFINE r == JoinRatio(j, to, s.standing)
    <3>5. r \in Int /\ r <= Ratio(standing[o], share[o])
      <4>1. r \in Int /\ r <= Ratio(s.standing[o], to[o])
        BY <1>1, <2>2, <3>4, JoinIsLow DEF AppliedSoFar
      <4> QED
        BY <2>2, <3>1, <3>3, <4>1
    <3>6. w[j] = At(r, n)
      BY <1>1, <2>9 DEF AppliedSoFar, Counts
    <3> HIDE DEF r
    <3>7. Fits(n)
      BY <2>9, RowsOf
    <3>8. Ratio(At(r, n), n) <= r /\ At(r, n) \in Int
      BY <3>5, <3>7, AtIs
    <3>9. Ratio(At(r, n), n) \in Int /\ Ratio(standing[o], share[o]) \in Int
      <4>1. standing[o] \in Int /\ share[o] \in Nat \ {0} /\ n \in Nat \ {0}
        BY <2>9, <3>1, <3>7 DEF TypeInv, Counts, ServedBeside, Fits
      <4> QED
        BY <3>8, <4>1, RatioType
    <3> HIDE DEF w
    <3> DEFINE x == Ratio(At(r, n), n)
               y == Ratio(standing[o], share[o])
    <3>10. x <= y
      <4>1. x \in Int /\ y \in Int /\ r \in Int /\ x <= r /\ r <= y
        BY <3>5, <3>8, <3>9
      <4> HIDE DEF x, y
      <4> QED
        BY <4>1
    <3> QED
      BY <3>6, <3>10
  <2>10. \A i \in T : w[rows[i][1]] = s.standing[rows[i][1]] /\ rows[i][1] # j
    BY <1>1, <2>4
  <2> HIDE DEF w, j, n
  <2>6. \A k \in Job \ NamedBy(rows, T \cup {m}) : to[k] = share[k] /\ w[k] = standing[k]
    BY <1>2, <2>2, <2>4 DEF AppliedSoFar
  <2>7. \A i \in T : /\ to[rows[i][1]] = rows[i][2]
                     /\ rows[i][2] = share[rows[i][1]] => w[rows[i][1]] = standing[rows[i][1]]
    BY <1>1, <2>2, <2>4 DEF AppliedSoFar
  <2>8. to[rows[m][1]] = rows[m][2] /\ rows[m][2] # share[rows[m][1]]
    BY <1>5, <2>2 DEF j, n
  <2>11. \A i \in T \cup {m} : \A o :
           rows[i][2] # 0 /\ rows[i][2] # share[rows[i][1]] /\ ServedBeside(rows, rows[i][1], o) =>
             Ratio(w[rows[i][1]], rows[i][2]) <= Ratio(standing[o], share[o])
    BY <2>9, <2>10 DEF AppliedSoFar, j, n
  <2> HIDE DEF z
  <2> QED
    BY <2>2, <2>4, <2>5, <2>6, <2>7, <2>8, <2>11 DEF AppliedSoFar, z
<1> QED
  BY <1>4, <1>5

LEMMA AppliedIs ==
  ASSUME TypeInv, NEW rows \in Change
  PROVE  AppliedSoFar(rows, DOMAIN rows, Applied(rows))
<1> DEFINE D == DOMAIN rows
           C == {T \in SUBSET D : ~AppliedSoFar(rows, T, After(rows, T))}
<1>1. SUFFICES ASSUME C # {} PROVE FALSE
  BY AfterEquation, RowsOf
<1>2. PICK T \in C : \A U \in SUBSET T : U # T => U \notin C
  <2>1. C \in SUBSET (SUBSET D) /\ IsFiniteSet(D)
    BY RowsOf
  <2> HIDE DEF C, D
  <2> QED
    BY <1>1, <2>1, SmallestSet
<1>3. T # {}
  <2>1. After(rows, {}) = [share |-> share, standing |-> standing]
    BY AfterEquation, RowsOf
  <2>2. AppliedSoFar(rows, {}, [share |-> share, standing |-> standing])
    BY DEF AppliedSoFar, TypeInv
  <2> QED
    BY <1>2, <2>1, <2>2
<1> DEFINE m == Max(T)
           U == T \ {m}
<1>4. m \in T
  BY <1>2, <1>3, LastRow, RowsOf
<1>5. After(rows, T) = RowApplied(After(rows, U), rows[m])
  BY <1>2, <1>3, AfterEquation, RowsOf
<1> HIDE DEF m
<1>6. U \in SUBSET T /\ U # T /\ U \in SUBSET D /\ m \notin U /\ m \in D /\ T = U \cup {m}
  BY <1>2, <1>4
<1>7. AppliedSoFar(rows, U, After(rows, U))
  BY <1>2, <1>6
<1> HIDE DEF U
<1>8. AppliedSoFar(rows, T, After(rows, T))
  BY <1>5, <1>6, <1>7, RowKeeps
<1> QED
  BY <1>2, <1>8

(* A change gives out what was checked for it.                             *)
LEMMA AppliedSum ==
  ASSUME TypeInv, NEW rows \in Change
  PROVE  /\ SumFunctionOnSet(Applied(rows).share, Job) = CapOf(rows)
         /\ CapOf(rows) \in Int
<1> DEFINE D == DOMAIN rows
           f == Applied(rows).share
           g == [i \in D |-> rows[i][2]]
           R == Job \ Named(rows)
           F(S) == SumFunctionOnSet(f, S)
           G(S) == SumFunctionOnSet(g, S)
           Good(T) == F(R \cup NamedBy(rows, T)) = F(R) + G(T)
           C == {T \in SUBSET D : ~Good(T)}
<1>1. AppliedSoFar(rows, D, Applied(rows))
  BY AppliedIs
<1>2. /\ f \in Shares /\ \A i \in D : f[rows[i][1]] = rows[i][2]
      /\ \A j \in R : f[j] = share[j]
  BY <1>1 DEF AppliedSoFar, Named, NamedBy
<1>3. /\ \A i \in D : rows[i][1] \in Job /\ rows[i][2] \in 0..Whole
      /\ \A i, k \in D : i # k => rows[i][1] # rows[k][1]
      /\ IsFiniteSet(D)
  BY RowsOf
<1>4. IsFiniteSet(R) /\ R \subseteq Job
  BY FS_Subset, SizesAssumption
<1>5. \A j \in Job : f[j] \in Int /\ share[j] \in Int
  BY <1>2 DEF Shares, TypeInv
<1>6. \A i \in D : g[i] \in Int
  BY <1>3
<1> HIDE DEF f, g
<1>7. F(R) = SumOf(R) /\ F(R) \in Int
  BY <1>2, <1>4, <1>5, SumSame, SumTakeOut DEF SumOf
<1>8. G(D) \in Int
  BY <1>3, <1>6, SumTakeOut
<1>9. C = {}
  <2> SUFFICES ASSUME C # {} PROVE FALSE
    OBVIOUS
  <2>1. PICK T \in C : \A U \in SUBSET T : U # T => U \notin C
    <3>1. C \in SUBSET (SUBSET D)
      OBVIOUS
    <3> HIDE DEF C, D
    <3> QED
      BY <1>3, <3>1, SmallestSet
  <2>2. T # {}
    <3>1. R \cup NamedBy(rows, {}) = R
      BY DEF NamedBy
    <3>2. G({}) = 0
      BY SumEmpty
    <3>3. F(R \cup NamedBy(rows, {})) = F(R)
      BY <3>1
    <3>4. F(R) + G({}) = F(R)
      <4> HIDE DEF F, G
      <4> QED
        BY <1>7, <3>2
    <3> QED
      BY <2>1, <3>3, <3>4
  <2>3. PICK m \in T : TRUE
    BY <2>2
  <2> DEFINE U == T \ {m}
             S == R \cup NamedBy(rows, U)
             j == rows[m][1]
  <2>4. U \in SUBSET T /\ U # T /\ U \in SUBSET D /\ m \in D
    BY <2>1, <2>3
  <2>5. F(S) = F(R) + G(U)
    BY <2>1, <2>4
  <2>6. j \notin S /\ R \cup NamedBy(rows, T) = S \cup {j} /\ S \subseteq Job /\ j \in Job
    BY <1>3, <2>3, <2>4 DEF NamedBy, Named
  <2>7. IsFiniteSet(S)
    BY <2>6, FS_Subset, SizesAssumption
  <2>8. F(S \cup {j}) = F(S) + f[j] /\ F(S) \in Int /\ f[j] \in Int
    <3>1. \A x \in S : f[x] \in Int /\ f[x] = f[x]
      BY <1>5, <2>6
    <3>2. f[j] \in Int
      BY <1>5, <2>6
    <3> HIDE DEF S, j
    <3>3. F(S \cup {j}) = F(S) + f[j]
      BY <2>6, <2>7, <3>1, <3>2, SumAdd
    <3>4. F(S) \in Int
      BY <2>7, <3>1, SumTakeOut
    <3> QED
      BY <3>2, <3>3, <3>4
  <2>9. G(T) = g[m] + G(U) /\ G(U) \in Int
    <3>1. IsFiniteSet(T) /\ IsFiniteSet(U) /\ \A i \in T : g[i] \in Int
      BY <1>3, <1>6, <2>1, FS_Subset
    <3> QED
      BY <2>3, <3>1, SumTakeOut
  <2>10. g[m] = f[j]
    BY <1>2, <2>4 DEF g
  <2>11. F(R \cup NamedBy(rows, T)) = F(R) + G(T)
    <3>1. F(R \cup NamedBy(rows, T)) = F(S) + f[j]
      BY <2>6, <2>8
    <3> HIDE DEF F, G, S, j, U
    <3> QED
      BY <1>7, <2>5, <2>8, <2>9, <2>10, <3>1
  <2> QED
    BY <2>1, <2>11
<1>10. R \cup NamedBy(rows, D) = Job
  BY <1>3 DEF Named, NamedBy
<1>11. F(Job) = F(R) + G(D)
  BY <1>9, <1>10
<1> QED
  BY <1>7, <1>8, <1>11 DEF CapOf, f, g
-----------------------------------------------------------------------------
(* The steps of a claim: types                                             *)

LEMMA PassedListed ==
  ASSUME NEW q, Listed(q), q.at \in OnItsWay, NEW S \in SUBSET Job
  PROVE  /\ Listed([q EXCEPT !.passed = S]) /\ [q EXCEPT !.passed = S].at = q.at
         /\ Listed([q EXCEPT !.busy = S]) /\ [q EXCEPT !.busy = S].at = q.at
         /\ Listed([q EXCEPT !.outrun = TRUE]) /\ [q EXCEPT !.outrun = TRUE].at = q.at
         /\ Listed([q EXCEPT !.shifted = S]) /\ [q EXCEPT !.shifted = S].at = q.at
BY DEF Listed, Requests

LEMMA AtListed ==
  ASSUME NEW q, Listed(q), q.at \in OnItsWay, NEW at \in OnItsWay
  PROVE  Listed([q EXCEPT !.at = at])
BY DEF Listed, Requests, OnItsWay

(* A request that goes on is no longer at a lock, and disturbs no other.   *)
LEMMA WalkStep ==
  ASSUME TypeInv, NEW h \in Request,
         \/ ClaimStart(h) \/ ShutdownOrIdle(h) \/ Skip(h) \/ PassOver(h) \/ FindBusy(h)
         \/ TakeTurn(h) /\ req' # [req EXCEPT ![h].at = "locked", ![h].shifted = {}]
  PROVE  /\ req' \in [Request -> Requests] /\ \A g \in Request : Listed(req'[g])
         /\ req'[h].at # "locked" /\ \A g \in Request \ {h} : req'[g] = req[g]
         /\ UNCHANGED <<share, standing, work, adm>>
<1> DEFINE q == req[h]
           Done == /\ req' \in [Request -> Requests] /\ \A g \in Request : Listed(req'[g])
                   /\ req'[h].at # "locked" /\ \A g \in Request \ {h} : req'[g] = req[g]
<1>1. Listed(q) /\ req \in [Request -> Requests] /\ \A g \in Request : Listed(req[g])
  BY DEF TypeInv
<1>2. ASSUME NEW r, Listed(r), r.at # "locked", req' = [req EXCEPT ![h] = r]  PROVE Done
  BY <1>1, <1>2 DEF Listed
<1>3. ASSUME NEW r, Listed(r), r.at \in OnItsWay, GoOn(h, r)  PROVE Done
  BY <1>3, GoOnListed
<1> HIDE DEF Done
<1>4. UNCHANGED <<share, standing, work, adm>>
  BY DEF ClaimStart, ShutdownOrIdle, Skip, PassOver, FindBusy, TakeTurn, jobsRest, others
<1>5. CASE ClaimStart(h)
  <2>1. 1 \in Nat
    OBVIOUS
  <2>2. Listed(Read(h, 1)) /\ Read(h, 1).at # "locked"
    BY <2>1, ReadListed
  <2> QED
    BY <1>2, <1>4, <1>5, <2>2 DEF ClaimStart, Done
<1>6. CASE ShutdownOrIdle(h)
  <2> DEFINE gone == [IdleReq EXCEPT !.at = "gone"]
  <2>1. Listed(gone) /\ gone.at # "locked"
    <3>1. Listed(IdleReq)
      BY IdleListed
    <3> QED
      BY <3>1 DEF Listed, Requests, OnItsWay
  <2>2. req' = [req EXCEPT ![h] = gone] \/ req' = [req EXCEPT ![h] = IdleReq]
    BY <1>6 DEF ShutdownOrIdle
  <2> QED
    BY <1>2, <1>4, <2>1, <2>2, IdleListed DEF Done
<1>7. CASE Skip(h)
  BY <1>1, <1>3, <1>4, <1>7 DEF Skip, OnItsWay, Done
<1>8. CASE PassOver(h)
  <2> DEFINE S == q.passed \cup {Chosen(q)}
  <2>1. q.at \in OnItsWay /\ GoOn(h, [q EXCEPT !.passed = S])
    BY <1>8 DEF PassOver, Walking, OnItsWay
  <2>2. S \in SUBSET Job
    BY <1>1, <2>1, ChosenType DEF Listed, Requests
  <2> HIDE DEF S, q
  <2>3. Listed([q EXCEPT !.passed = S]) /\ [q EXCEPT !.passed = S].at \in OnItsWay
    BY <1>1, <2>1, <2>2, PassedListed DEF q
  <2> QED
    BY <1>3, <1>4, <2>1, <2>3 DEF Done
<1>9. CASE FindBusy(h)
  <2> DEFINE S == q.busy \cup {Chosen(q)}
  <2>1. q.at \in OnItsWay /\ GoOn(h, [q EXCEPT !.busy = S])
    BY <1>9 DEF FindBusy, Walking, OnItsWay
  <2>2. S \in SUBSET Job
    BY <1>1, <2>1, ChosenType DEF Listed, Requests
  <2> HIDE DEF S, q
  <2>3. Listed([q EXCEPT !.busy = S]) /\ [q EXCEPT !.busy = S].at \in OnItsWay
    BY <1>1, <2>1, <2>2, PassedListed DEF q
  <2> QED
    BY <1>3, <1>4, <2>1, <2>3 DEF Done
<1>10. CASE TakeTurn(h) /\ req' # [req EXCEPT ![h].at = "locked", ![h].shifted = {}]
  <2> DEFINE S == q.passed \cup {Chosen(q)}
  <2>1. /\ q.at \in OnItsWay
        /\ GoOn(h, [q EXCEPT !.passed = S]) \/ GoOn(h, [q EXCEPT !.outrun = TRUE])
    BY <1>10 DEF TakeTurn, Walking, OnItsWay
  <2>2. S \in SUBSET Job
    BY <1>1, <2>1, ChosenType DEF Listed, Requests
  <2> HIDE DEF S, q
  <2>3. /\ Listed([q EXCEPT !.passed = S]) /\ [q EXCEPT !.passed = S].at \in OnItsWay
        /\ Listed([q EXCEPT !.outrun = TRUE]) /\ [q EXCEPT !.outrun = TRUE].at \in OnItsWay
    BY <1>1, <2>1, <2>2, PassedListed DEF q
  <2> QED
    BY <1>3, <1>4, <2>1, <2>3 DEF Done
<1> QED
  BY <1>4, <1>5, <1>6, <1>7, <1>8, <1>9, <1>10

SameTurn(p, q) ==
  p.list = q.list /\ p.i = q.i /\ p.passed = q.passed /\ p.busy = q.busy /\ p.round = q.round

LEMMA LockTaken ==
  ASSUME TypeInv, NEW h \in Request, TakeTurn(h),
         req' = [req EXCEPT ![h].at = "locked", ![h].shifted = {}]
  PROVE  /\ req' \in [Request -> Requests] /\ \A g \in Request : Listed(req'[g])
         /\ req'[h].at = "locked" /\ req'[h].shifted = {} /\ SameTurn(req[h], req'[h])
         /\ \A g \in Request \ {h} : req'[g] = req[g]
         /\ UNCHANGED <<share, standing, work, adm>>
<1> DEFINE q  == req[h]
           q1 == [q EXCEPT !.at = "locked"]
           q2 == [q1 EXCEPT !.shifted = {}]
<1>1. Listed(q) /\ q.at \in OnItsWay /\ req \in [Request -> Requests]
      /\ \A g \in Request : Listed(req[g])
  BY DEF TypeInv, TakeTurn, Walking, OnItsWay
<1>2. req' = [req EXCEPT ![h] = q2]
  BY <1>1
<1> HIDE DEF q
<1>3. Listed(q1) /\ q1.at = "locked" /\ SameTurn(q, q1)
  BY <1>1, AtListed DEF OnItsWay, SameTurn, Listed, Requests
<1> HIDE DEF q1
<1>4. Listed(q2) /\ q2.at = "locked" /\ SameTurn(q, q2) /\ q2.shifted = {}
  BY <1>3, PassedListed DEF OnItsWay, SameTurn, Listed, Requests
<1> HIDE DEF q2
<1>5. UNCHANGED <<share, standing, work, adm>>
  BY DEF TakeTurn, jobsRest, others
<1>6. q2 \in Requests
  BY <1>4 DEF Listed
<1> QED
  BY <1>1, <1>2, <1>4, <1>5, <1>6 DEF q

LEMMA PaceType ==
  ASSUME NEW q, Listed(q), q.at \in OnItsWay
  PROVE  Pace(q) \subseteq Int /\ IsFiniteSet(Pace(q))
<1> DEFINE j == q.list[q.i]
           o == q.list[IF q.i = 1 THEN 2 ELSE 1]
           d == IF j \in recent THEN Scale ELSE 0
           n == q.ratio[o] - Ratio(1, q.alloc[o]) - Ratio(1, q.alloc[j]) - d
<1>1. CASE Len(q.list) = 1
  BY <1>1, FS_EmptySet DEF Pace
<1>2. CASE Len(q.list) # 1
  <2>1. j \in ToSet(q.list) /\ o \in ToSet(q.list)
    <3>1. q.list \in Seq(Job) /\ q.i \in 1..Len(q.list) /\ Len(q.list) \in Nat
      BY DEF Listed, Requests
    <3> DEFINE i == q.i
               len == Len(q.list)
               k == IF i = 1 THEN 2 ELSE 1
    <3>2. i \in 1..len /\ k \in 1..len
      <4>1. i \in 1..len /\ len \in Nat /\ len # 1
        BY <1>2, <3>1
      <4> HIDE DEF i, len
      <4> QED
        BY <4>1
    <3>3. DOMAIN q.list = 1..Len(q.list)
      BY <3>1
    <3> QED
      BY <3>2, <3>3 DEF ToSet
  <2>2. q.ratio[o] \in Int /\ q.alloc[o] \in Nat \ {0} /\ q.alloc[j] \in Nat \ {0}
    BY <2>1, ChosenType, SizesAssumption
  <2>3. Ratio(1, q.alloc[o]) \in Int /\ Ratio(1, q.alloc[j]) \in Int /\ d \in Int
    <3>1. 1 \in Int
      OBVIOUS
    <3>2. Ratio(1, q.alloc[o]) \in Int /\ Ratio(1, q.alloc[j]) \in Int
      BY <2>2, <3>1, RatioType
    <3> QED
      BY <3>2, SizesAssumption
  <2>4. Pace(q) = {n}
    BY <1>2 DEF Pace
  <2> HIDE DEF j, o, d
  <2>5. n \in Int
    BY <2>2, <2>3
  <2> HIDE DEF n
  <2> QED
    BY <2>4, <2>5, FS_Singleton
<1> QED
  BY <1>1, <1>2

(* A claim's lift never lowers its job, and levels it with the pace. *)
LEMMA LiftedUp ==
  ASSUME TypeInv, NEW q, Listed(q), q.at \in OnItsWay, NEW j \in Job
  PROVE  /\ Lifted(j, q) \in Int /\ standing[j] <= Lifted(j, q)
         /\ Levelled(j) => \A r \in Pace(q) : At(r, share[j]) <= Lifted(j, q)
<1> DEFINE paces == Pace(q) \cup (IF Stale(j) THEN ParityTarget(j, share, standing) ELSE {})
           marks == {At(r, share[j]) : r \in paces}
           f     == [r \in paces |-> At(r, share[j])]
<1>1. share[j] \in Nat /\ standing[j] \in Int /\ share \in Shares /\ standing \in Counts
  BY SizesAssumption DEF TypeInv, Shares, Counts
<1>2. paces \subseteq Int /\ IsFiniteSet(paces)
  <2>1. /\ ParityTarget(j, share, standing) \subseteq Int
        /\ IsFiniteSet(ParityTarget(j, share, standing))
    BY <1>1, ParityType
  <2>2. Pace(q) \subseteq Int /\ IsFiniteSet(Pace(q))
    BY PaceType
  <2> QED
    BY <2>1, <2>2, FS_Union, FS_EmptySet
<1> HIDE DEF paces
<1>3. marks \subseteq Int /\ IsFiniteSet(marks)
  <2>1. \A r \in paces : At(r, share[j]) \in Int
    BY <1>1, <1>2, AtType
  <2>2. f \in Surjection(paces, marks)
    BY DEF Surjection
  <2>3. IsFiniteSet(marks)
    BY <1>2, <2>2, FS_Surjection
  <2> QED
    BY <2>1, <2>3
<1>4. Lifted(j, q) = IF Levelled(j) /\ marks # {}
                       THEN Larger(standing[j], Greatest(marks)) ELSE standing[j]
  BY DEF Lifted, paces
<1>5. \A r \in Pace(q) : At(r, share[j]) \in marks
  BY DEF paces
<1> HIDE DEF marks
<1>6. marks # {} => Greatest(marks) \in Int /\ \A n \in marks : n <= Greatest(marks)
  BY <1>3, GreatestIn
<1>7. /\ Lifted(j, q) \in Int /\ standing[j] <= Lifted(j, q)
      /\ Levelled(j) => \A n \in marks : n <= Lifted(j, q)
  BY <1>1, <1>3, <1>4, <1>6 DEF Larger
<1> QED
  BY <1>5, <1>7

LEMMA ShiftListed ==
  ASSUME NEW q \in [Request -> Requests], \A h \in Request : Listed(q[h]),
         NEW S \in SUBSET Job, Shift(q, S)
  PROVE  /\ req' \in [Request -> Requests] /\ \A h \in Request : Listed(req'[h])
         /\ \A h \in Request :
              /\ req'[h].at = q[h].at /\ SameTurn(q[h], req'[h])
              /\ q[h].at = "locked" => req'[h].shifted = q[h].shifted \cup S
<1> SUFFICES ASSUME NEW h \in Request
             PROVE  /\ req'[h] \in Requests /\ Listed(req'[h])
                    /\ req'[h].at = q[h].at /\ SameTurn(q[h], req'[h])
                    /\ q[h].at = "locked" => req'[h].shifted = q[h].shifted \cup S
  BY DEF Shift
<1> DEFINE p == q[h]
           T == p.shifted \cup S
<1>1. Listed(p) /\ T \in SUBSET Job
  BY DEF Listed, Requests
<1>2. req'[h] = IF p.at = "locked" THEN [p EXCEPT !.shifted = T] ELSE p
  BY DEF Shift
<1> HIDE DEF p, T
<1>3. CASE p.at = "locked"
  <2>1. Listed([p EXCEPT !.shifted = T])
    BY <1>1, <1>3, PassedListed DEF OnItsWay
  <2>2. /\ [p EXCEPT !.shifted = T].at = p.at /\ SameTurn(p, [p EXCEPT !.shifted = T])
        /\ [p EXCEPT !.shifted = T].shifted = T
    BY <1>1 DEF Listed, Requests, SameTurn
  <2>3. req'[h] = [p EXCEPT !.shifted = T]
    BY <1>2, <1>3
  <2> QED
    BY <2>1, <2>2, <2>3 DEF p, T, Listed
<1>4. CASE p.at # "locked"
  BY <1>1, <1>2, <1>4 DEF p, Listed, SameTurn
<1> QED
  BY <1>3, <1>4

LEMMA IssueMoves ==
  ASSUME TypeInv, NEW h \in Request, IssueClaim(h)
  PROVE  /\ req[h].at = "locked" /\ Chosen(req[h]) \in Job
         /\ req' \in [Request -> Requests] /\ \A g \in Request : Listed(req'[g])
         /\ req'[h].at # "locked" /\ \A g \in Request \ {h} : req'[g] = req[g]
         /\ standing' \in Counts /\ standing[Chosen(req[h])] <= standing'[Chosen(req[h])]
         /\ \A k \in Job \ {Chosen(req[h])} : standing'[k] = standing[k]
         /\ UNCHANGED <<share, work, adm>>
<1> DEFINE q == req[h]
           j == Chosen(q)
           r == [q EXCEPT !.at = "lift"]
           n == Lifted(j, q)
<1>1. Listed(q) /\ q.at = "locked" /\ j \in Job /\ req \in [Request -> Requests]
      /\ \A g \in Request : Listed(req[g])
  BY ChosenType DEF TypeInv, IssueClaim, OnItsWay
<1>2. n \in Int /\ standing[j] <= n
  BY <1>1, LiftedUp DEF OnItsWay
<1>3. standing' = [standing EXCEPT ![j] = n + 1] /\ UNCHANGED <<share, work, adm>>
  BY DEF IssueClaim, others
<1>4. req' = [req EXCEPT ![h] = IdleReq] \/ req' = [req EXCEPT ![h] = r]
  BY DEF IssueClaim
<1>5. Listed(r) /\ r.at # "locked"
  <2> HIDE DEF q
  <2>1. Listed(r)
    BY <1>1, AtListed DEF OnItsWay
  <2> QED
    BY <1>1, <2>1 DEF Listed, Requests
<1> HIDE DEF n, r
<1>6. standing' \in Counts /\ standing[j] <= standing'[j]
      /\ \A k \in Job \ {j} : standing'[k] = standing[k]
  <2>1. standing \in Counts /\ standing[j] \in Int
    BY <1>1 DEF TypeInv, Counts
  <2> HIDE DEF j
  <2> QED
    BY <1>1, <1>2, <1>3, <2>1 DEF Counts
<1>7. req' \in [Request -> Requests] /\ (\A g \in Request : Listed(req'[g]))
      /\ req'[h].at # "locked" /\ \A g \in Request \ {h} : req'[g] = req[g]
  BY <1>1, <1>4, <1>5, IdleListed DEF Listed
<1> QED
  BY <1>1, <1>3, <1>6, <1>7

(* Steps that move the standings or shares of some jobs, and say so to     *)
(* every request that has a job locked.                                    *)
Moves(S, q) ==
  /\ q \in [Request -> Requests] /\ Shift(q, S)
  /\ \A h \in Request : Listed(q[h]) /\ (q[h] = req[h] \/ q[h].at = "idle")
  /\ share' \in Shares /\ standing' \in Counts
  /\ \A j \in Job \ S : share'[j] = share[j] /\ standing'[j] = standing[j]

LEMMA LiftMoves ==
  ASSUME TypeInv, NEW h \in Request, LiftPassedOver(h)
  PROVE  (\E S \in SUBSET Job : \E q : Moves(S, q)) /\ UNCHANGED <<share, work, adm>>
<1> DEFINE p == req[h]
           pace == p.ratio[Chosen(p)]
           S == {j \in p.passed : /\ share[j] > 0 /\ RowFree(j)
                                  /\ standing[j] < At(pace, share[j])}
           q == [req EXCEPT ![h] = IdleReq]
<1>1. Listed(p) /\ p.at \in OnItsWay
  BY DEF TypeInv, LiftPassedOver, OnItsWay
<1>2. S \in SUBSET Job /\ pace \in Int
  BY <1>1, ChosenType DEF Listed, Requests
<1>3. q \in [Request -> Requests]
      /\ \A g \in Request : Listed(q[g]) /\ (q[g] = req[g] \/ q[g].at = "idle")
  BY IdleListed DEF TypeInv, Listed
<1>4. /\ standing' = [j \in Job |-> IF j \in S THEN At(pace, share[j]) ELSE standing[j]]
      /\ Shift(q, S) /\ UNCHANGED <<share, work, adm>>
  BY DEF LiftPassedOver, others
<1> HIDE DEF S, pace, q
<1>5. standing' \in Counts /\ \A j \in Job \ S : standing'[j] = standing[j]
  <2>1. \A j \in Job : At(pace, share[j]) \in Int /\ standing[j] \in Int
    <3> SUFFICES ASSUME NEW j \in Job  PROVE At(pace, share[j]) \in Int /\ standing[j] \in Int
      OBVIOUS
    <3>1. share[j] \in Nat /\ standing[j] \in Int
      BY SizesAssumption DEF TypeInv, Shares, Counts
    <3> QED
      BY <1>2, <3>1, AtType
  <2> QED
    BY <1>4, <2>1 DEF Counts
<1>6. Moves(S, q)
  BY <1>3, <1>4, <1>5 DEF Moves, TypeInv
<1> QED
  BY <1>2, <1>4, <1>6

LEMMA UnsettleMoves ==
  ASSUME TypeInv, NEW j \in Job, Unsettle(j)
  PROVE  (\E S \in SUBSET Job : \E q : Moves(S, q)) /\ UNCHANGED <<share, work, adm>>
<1> DEFINE P == ParityTarget(j, share, standing)
           mark == At(Least(P), share[j])
           m == IF mark < standing[j] THEN mark ELSE standing[j]
<1>1. /\ standing' = [standing EXCEPT ![j] = m] /\ P # {}
      /\ Shift(req, {j}) /\ UNCHANGED <<share, work, adm>>
  BY DEF Unsettle
<1>2. m \in Int
  <2>1. Least(P) \in Int
    BY <1>1, ParityType DEF TypeInv
  <2>2. share[j] \in Nat /\ standing[j] \in Int
    BY SizesAssumption DEF TypeInv, Shares, Counts
  <2> HIDE DEF P
  <2>3. mark \in Int
    BY <2>1, <2>2, AtType
  <2> QED
    BY <2>2, <2>3
<1> HIDE DEF m, P
<1>3. Moves({j}, req)
  BY <1>1, <1>2 DEF Moves, TypeInv, Counts
<1> QED
  BY <1>1, <1>3

LEMMA WriteMoves ==
  ASSUME TypeInv, AdmInv, NEW a \in Admin, AllocWrite(a)
  PROVE  /\ \E S \in SUBSET Job : \E q : Moves(S, q)
         /\ adm[a].rows \in Change /\ share' = Applied(adm[a].rows).share
         /\ adm[a].at = "write" /\ adm' = [adm EXCEPT ![a] = IdleAdm] /\ work' = work
<1> DEFINE rows  == adm[a].rows
           after == Applied(rows)
           S     == {j \in Named(rows) : after.share[j] # share[j]}
<1>1. rows \in Change
  BY DEF AllocWrite, TypeInv, AdmInv
<1>2. /\ share' = after.share /\ standing' = after.standing /\ Shift(req, S)
      /\ adm[a].at = "write" /\ adm' = [adm EXCEPT ![a] = IdleAdm] /\ work' = work
  BY DEF AllocWrite, admRest
<1> HIDE DEF rows
<1>3. AppliedSoFar(rows, DOMAIN rows, after)
  BY <1>1, AppliedIs
<1> HIDE DEF after
<1>4. S \in SUBSET Job
  BY <1>1, RowsOf DEF Named
<1>5. \A j \in Job \ S : after.share[j] = share[j] /\ after.standing[j] = standing[j]
  <2> SUFFICES ASSUME NEW j \in Job, j \notin S
               PROVE  after.share[j] = share[j] /\ after.standing[j] = standing[j]
    OBVIOUS
  <2>1. CASE j \in Named(rows)
    <3>1. PICK i \in DOMAIN rows : j = rows[i][1]
      BY <2>1 DEF Named
    <3>2. after.share[j] = share[j] /\ after.share[j] = rows[i][2]
      BY <1>3, <2>1, <3>1 DEF AppliedSoFar
    <3> QED
      BY <1>3, <3>1, <3>2 DEF AppliedSoFar
  <2>2. CASE j \notin Named(rows)
    BY <1>3, <2>2 DEF AppliedSoFar, Named, NamedBy
  <2> QED
    BY <2>1, <2>2
<1> HIDE DEF S
<1>6. Moves(S, req)
  BY <1>2, <1>3, <1>5 DEF Moves, TypeInv, AppliedSoFar
<1> QED
  BY <1>1, <1>2, <1>4, <1>6 DEF rows, after

-----------------------------------------------------------------------------
(* Every step is one of these to the claims.                               *)

Quiet == UNCHANGED <<share, standing, req>>

Walks(h) ==
  /\ req'[h].at # "locked" /\ \A g \in Request \ {h} : req'[g] = req[g]
  /\ UNCHANGED <<share, standing>>

Locks(h) ==
  /\ TakeTurn(h) /\ req' = [req EXCEPT ![h].at = "locked", ![h].shifted = {}]
  /\ req'[h].shifted = {} /\ SameTurn(req[h], req'[h])
  /\ \A g \in Request \ {h} : req'[g] = req[g]
  /\ UNCHANGED <<share, standing>>

Issues(h) ==
  LET j == Chosen(req[h])
  IN /\ req[h].at = "locked" /\ j \in Job
     /\ req'[h].at # "locked" /\ \A g \in Request \ {h} : req'[g] = req[g]
     /\ standing' \in Counts /\ standing[j] <= standing'[j]
     /\ \A k \in Job \ {j} : standing'[k] = standing[k]
     /\ share' = share

LEMMA ClaimSteps ==
  ASSUME TypeInv, AdmInv, [Next]_vars
  PROVE  /\ TypeInv'
         /\ \/ Quiet
            \/ \E h \in Request : Walks(h) \/ Locks(h) \/ Issues(h)
            \/ \E S \in SUBSET Job : \E q : Moves(S, q)
<1> DEFINE Ok == /\ share' \in Shares /\ standing' \in Counts /\ work' \subseteq Job
                 /\ req' \in [Request -> Requests] /\ \A h \in Request : Listed(req'[h])
           Kind == \/ Quiet
                   \/ \E h \in Request : Walks(h) \/ Locks(h) \/ Issues(h)
                   \/ \E S \in SUBSET Job : \E q : Moves(S, q)
           AdmOk == adm' \in [Admin -> [at : {"idle", "rows", "write"}, rows : Change \cup {<< >>}]]
<1>1. Ok /\ AdmOk => TypeInv'
  BY DEF TypeInv, Listed
<1>2. /\ share \in Shares /\ standing \in Counts /\ work \subseteq Job
      /\ req \in [Request -> Requests] /\ \A h \in Request : Listed(req[h])
      /\ adm \in [Admin -> [at : {"idle", "rows", "write"}, rows : Change \cup {<< >>}]]
  BY DEF TypeInv
<1>3. ASSUME NEW S \in SUBSET Job, NEW q, Moves(S, q), work' \subseteq Job  PROVE Ok /\ Kind
  BY <1>3, ShiftListed DEF Moves
<1> SUFFICES Ok /\ AdmOk /\ Kind
  BY <1>1
<1>4. ASSUME NEW h \in Request,
             \/ ClaimStart(h) \/ ShutdownOrIdle(h) \/ Skip(h) \/ PassOver(h) \/ FindBusy(h)
             \/ TakeTurn(h) \/ IssueClaim(h) \/ LiftPassedOver(h)
      PROVE  Ok /\ AdmOk /\ Kind
  <2>1. CASE \/ ClaimStart(h) \/ ShutdownOrIdle(h) \/ Skip(h) \/ PassOver(h) \/ FindBusy(h)
             \/ TakeTurn(h) /\ req' # [req EXCEPT ![h].at = "locked", ![h].shifted = {}]
    BY <1>2, <2>1, WalkStep DEF Walks
  <2>2. CASE TakeTurn(h) /\ req' = [req EXCEPT ![h].at = "locked", ![h].shifted = {}]
    BY <1>2, <2>2, LockTaken DEF Locks
  <2>3. CASE IssueClaim(h)
    BY <1>2, <2>3, IssueMoves DEF Issues
  <2>4. CASE LiftPassedOver(h)
    <3>1. (\E S \in SUBSET Job : \E q : Moves(S, q)) /\ UNCHANGED <<share, work, adm>>
      BY <2>4, LiftMoves
    <3> QED
      BY <1>2, <1>3, <3>1
  <2> QED
    BY <1>4, <2>1, <2>2, <2>3, <2>4
<1>5. ASSUME NEW j \in Job, Unsettle(j)  PROVE Ok /\ AdmOk /\ Kind
  <2>1. (\E S \in SUBSET Job : \E q : Moves(S, q)) /\ UNCHANGED <<share, work, adm>>
    BY <1>5, UnsettleMoves
  <2> QED
    BY <1>2, <1>3, <2>1
<1>6. ASSUME NEW a \in Admin, AllocWrite(a)  PROVE Ok /\ AdmOk /\ Kind
  <2>1. /\ \E S \in SUBSET Job : \E q : Moves(S, q)
        /\ adm' = [adm EXCEPT ![a] = IdleAdm] /\ work' = work
    BY <1>6, WriteMoves
  <2>2. AdmOk
    BY <1>2, <2>1 DEF IdleAdm
  <2> QED
    BY <1>2, <1>3, <2>1, <2>2
<1>7. CASE UNCHANGED vars
  BY <1>2, <1>7 DEF vars, Quiet
<1>8. CASE Tick
  BY <1>2, <1>8 DEF Tick, Quiet, jobsRest
<1>9. ASSUME NEW j \in Job, Gap(j) \/ GapEnds(j)  PROVE Ok /\ AdmOk /\ Kind
  BY <1>2, <1>9 DEF Gap, GapEnds, Quiet, Event, history
<1>10. ASSUME NEW a \in Admin, NEW rows \in Change, AllocRows(a, rows)  PROVE Ok /\ AdmOk /\ Kind
  BY <1>2, <1>10 DEF AllocRows, Quiet, admRest
<1>11. ASSUME NEW a \in Admin, AllocCheck(a)  PROVE Ok /\ AdmOk /\ Kind
  <2>1. \/ adm' = [adm EXCEPT ![a] = IdleAdm]
        \/ adm' = [adm EXCEPT ![a] = [adm[a] EXCEPT !.at = "write"]]
    BY <1>11 DEF AllocCheck
  <2>2. AdmOk
    BY <1>2, <2>1 DEF IdleAdm
  <2> QED
    BY <1>2, <1>11, <2>2 DEF AllocCheck, Quiet, admRest
<1> HIDE DEF Ok, AdmOk, Kind
<1> QED
  BY <1>4, <1>5, <1>6, <1>7, <1>8, <1>9, <1>10, <1>11 DEF Next

-----------------------------------------------------------------------------
(* A turn taken stays one                                                  *)

LEMMA RivalsType ==
  ASSUME NEW q, Listed(q), q.at \in OnItsWay  PROVE Rivals(q) \subseteq Job
BY ChosenType DEF Rivals

TurnKept(h) ==
  LET q == req[h]  r == req'[h]
  IN /\ q.at = "locked" /\ SameTurn(q, r) /\ q.shifted \subseteq r.shifted
     /\ \A j \in Job \ r.shifted : share'[j] = share[j] /\ standing[j] <= standing'[j]
     /\ Chosen(q) \notin r.shifted => standing'[Chosen(q)] = standing[Chosen(q)]

LEMMA KeptIsTurn ==
  ASSUME TypeInv, TypeInv', NEW h \in Request, TurnOf(h), TurnKept(h)
  PROVE  TurnOf(h)' /\ Chosen(req'[h]) = Chosen(req[h])
<1> DEFINE q == req[h]
           r == req'[h]
           j == Chosen(q)
<1>1. /\ q.at = "locked" /\ SameTurn(q, r) /\ q.shifted \subseteq r.shifted /\ Listed(q)
      /\ j \in Job /\ Rivals(q) \subseteq Job
  BY ChosenType, RivalsType DEF TurnKept, TypeInv, OnItsWay
<1>2. Chosen(r) = j /\ Rivals(r) = Rivals(q)
  BY <1>1 DEF Chosen, Rivals, SameTurn
<1>3. ASSUME j \notin r.shifted
      PROVE  /\ share'[j] > 0
             /\ \A o \in Rivals(q) \ r.shifted : share'[o] > 0 =>
                  Ratio(standing'[j], share'[j]) <= Ratio(standing'[o] + 1, share'[o])
  <2>1. share'[j] = share[j] /\ standing'[j] = standing[j]
    BY <1>1, <1>3 DEF TurnKept
  <2>2. share[j] > 0
    BY <1>1, <1>3 DEF TurnOf
  <2>3. ASSUME NEW o \in Rivals(q) \ r.shifted, share'[o] > 0
        PROVE  Ratio(standing'[j], share'[j]) <= Ratio(standing'[o] + 1, share'[o])
    <3>1. o \in Job /\ share'[o] = share[o] /\ standing[o] <= standing'[o]
      BY <1>1, <2>3 DEF TurnKept
    <3>2. Ratio(standing[j], share[j]) <= Ratio(standing[o] + 1, share[o])
      BY <1>1, <1>3, <2>3, <3>1 DEF TurnOf
    <3>3. /\ standing[j] \in Int /\ standing[o] + 1 \in Int /\ standing'[o] + 1 \in Int
          /\ standing[o] + 1 <= standing'[o] + 1
          /\ share[j] \in Nat \ {0} /\ share[o] \in Nat \ {0}
      <4>1. /\ standing[j] \in Int /\ standing[o] \in Int /\ standing'[o] \in Int
            /\ share[j] \in Nat /\ share[o] \in Nat
        BY <1>1, <3>1, SizesAssumption DEF TypeInv, Shares, Counts
      <4> QED
        BY <2>2, <2>3, <3>1, <4>1
    <3>4. /\ Ratio(standing[j], share[j]) \in Int /\ Ratio(standing'[o] + 1, share[o]) \in Int
          /\ Ratio(standing[o] + 1, share[o]) \in Int
          /\ Ratio(standing[o] + 1, share[o]) <= Ratio(standing'[o] + 1, share[o])
      BY <3>3, RatioType
    <3> DEFINE x == Ratio(standing[j], share[j])
               y == Ratio(standing[o] + 1, share[o])
               z == Ratio(standing'[o] + 1, share[o])
    <3>5. x <= z
      <4>1. x \in Int /\ y \in Int /\ z \in Int /\ x <= y /\ y <= z
        BY <3>2, <3>4
      <4> HIDE DEF x, y, z
      <4> QED
        BY <4>1
    <3> QED
      BY <2>1, <3>1, <3>5
  <2> QED
    BY <2>1, <2>2, <2>3
<1> QED
  BY <1>2, <1>3 DEF TurnOf

(* Who takes the lock is not outrun. *)
LEMMA TakenInTurn ==
  ASSUME TypeInv, NEW h \in Request, TakeTurn(h),
         req' = [req EXCEPT ![h].at = "locked", ![h].shifted = {}]
  PROVE  share[Chosen(req[h])] # 0 /\ ~Outrun(req[h])
<1> DEFINE q == req[h]
           j == Chosen(q)
           S == q.passed \cup {j}
<1>1. Listed(q) /\ q.at \in OnItsWay /\ j \in Job
  BY ChosenType DEF TakeTurn, Walking, OnItsWay, TypeInv
<1>2. req'[h].at = "locked"
  BY DEF TypeInv
<1>3. ASSUME NEW r, Listed(r), r.at \in OnItsWay, GoOn(h, r)  PROVE FALSE
  BY <1>2, <1>3, GoOnListed
<1>4. S \in SUBSET Job
  BY <1>1 DEF Listed, Requests
<1> HIDE DEF q, S
<1>5. /\ Listed([q EXCEPT !.outrun = TRUE]) /\ [q EXCEPT !.outrun = TRUE].at \in OnItsWay
      /\ Listed([q EXCEPT !.passed = S]) /\ [q EXCEPT !.passed = S].at \in OnItsWay
  BY <1>1, <1>4, PassedListed
<1>6. ~GoOn(h, [q EXCEPT !.outrun = TRUE]) /\ ~GoOn(h, [q EXCEPT !.passed = S])
  BY <1>3, <1>5
<1> QED
  BY <1>6 DEF TakeTurn, q, S

LEMMA TurnStep ==
  ASSUME TypeInv, AdmInv, TurnInv, [Next]_vars  PROVE TurnInv'
<1>1. TypeInv'
  BY ClaimSteps
<1>2. /\ \A g \in Request : Listed(req[g])
      /\ \A j \in Job : standing[j] \in Int /\ standing[j] <= standing[j]
  BY DEF TypeInv, Counts
<1>3. \A h \in Request : TurnOf(h)
  BY DEF TurnInv
(* Whoever keeps a turn has it still, and so has the lock to itself.       *)
<1>4. ASSUME \A h \in Request : req'[h].at = "locked" => TurnKept(h)
      PROVE  TurnInv'
  <2>1. ASSUME NEW h \in Request, req'[h].at = "locked"
        PROVE  TurnOf(h)' /\ Chosen(req'[h]) = Chosen(req[h]) /\ req[h].at = "locked"
    BY <1>1, <1>3, <1>4, <2>1, KeptIsTurn DEF TurnKept
  <2>2. \A h \in Request : TurnOf(h)'
    BY <2>1 DEF TurnOf
  <2>3. OneAtTheLock'
    BY <2>1 DEF OneAtTheLock, TurnInv
  <2> QED
    BY <2>2, <2>3 DEF TurnInv
<1>5. CASE Quiet
  <2>1. \A h \in Request : req'[h].at = "locked" => TurnKept(h)
    BY <1>2, <1>5 DEF Quiet, TurnKept, SameTurn
  <2> QED
    BY <1>4, <2>1
<1>6. ASSUME NEW h \in Request, Walks(h)  PROVE TurnInv'
  <2>1. \A g \in Request : req'[g].at = "locked" => TurnKept(g)
    BY <1>2, <1>6 DEF Walks, TurnKept, SameTurn
  <2> QED
    BY <1>4, <2>1
<1>7. ASSUME NEW h \in Request, Issues(h)  PROVE TurnInv'
  <2>1. ASSUME NEW g \in Request, req'[g].at = "locked"  PROVE TurnKept(g)
    <3>1. g # h /\ req'[g] = req[g] /\ share' = share
      BY <1>7, <2>1 DEF Issues
    <3>2. Chosen(req[g]) # Chosen(req[h]) /\ Chosen(req[g]) \in Job
      BY <1>2, <1>7, <2>1, <3>1, ChosenType DEF Issues, TurnInv, OneAtTheLock, OnItsWay
    <3>3. \A j \in Job : standing[j] <= standing'[j]
      BY <1>2, <1>7 DEF Issues
    <3>4. standing'[Chosen(req[g])] = standing[Chosen(req[g])]
      BY <1>7, <3>2 DEF Issues
    <3> QED
      BY <2>1, <3>1, <3>3, <3>4 DEF TurnKept, SameTurn
  <2> QED
    BY <1>4, <2>1
<1>8. ASSUME NEW S \in SUBSET Job, NEW q, Moves(S, q)  PROVE TurnInv'
  <2>1. /\ \A h \in Request :
             /\ req'[h].at = q[h].at /\ SameTurn(q[h], req'[h])
             /\ q[h].at = "locked" => req'[h].shifted = q[h].shifted \cup S
    BY <1>8, ShiftListed DEF Moves
  <2>2. ASSUME NEW g \in Request, req'[g].at = "locked"  PROVE TurnKept(g)
    <3>1. q[g] = req[g] /\ req[g].at = "locked" /\ SameTurn(req[g], req'[g])
          /\ req'[g].shifted = req[g].shifted \cup S
      BY <1>8, <2>1, <2>2 DEF Moves
    <3>2. \A j \in Job \ S : share'[j] = share[j] /\ standing'[j] = standing[j]
      BY <1>8 DEF Moves
    <3>3. Chosen(req[g]) \in Job
      BY <1>2, <3>1, ChosenType DEF OnItsWay
    <3> QED
      BY <1>2, <3>1, <3>2, <3>3 DEF TurnKept
  <2> QED
    BY <1>4, <2>2
<1>9. ASSUME NEW h \in Request, Locks(h)  PROVE TurnInv'
  <2> DEFINE q == req[h]
             j == Chosen(q)
  <2>1. /\ q.at = "walk" /\ Listed(q) /\ j \in Job /\ Rivals(q) \subseteq Job
        /\ DispatchFree(j)
    BY <1>2, <1>9, ChosenType, RivalsType DEF Locks, TakeTurn, Walking, OnItsWay
  <2>2. share[j] # 0 /\ ~Outrun(q)
    BY <1>9, TakenInTurn DEF Locks
  <2>3. share[j] > 0 /\ share[j] \in Nat \ {0} /\ standing[j] \in Int
    BY <2>1, <2>2, SizesAssumption DEF TypeInv, Shares, Counts
  <2>4. ASSUME NEW o \in Rivals(q), share[o] > 0
        PROVE  Ratio(standing[j], share[j]) <= Ratio(standing[o] + 1, share[o])
    <3>1. standing[o] + 1 \in Int /\ share[o] \in Nat \ {0}
      <4>1. o \in Job
        BY <2>1
      <4> QED
        BY <2>4, <4>1, SizesAssumption DEF TypeInv, Shares, Counts
    <3>2. Ratio(standing[j], share[j]) \in Int /\ Ratio(standing[o] + 1, share[o]) \in Int
      BY <2>3, <3>1, RatioType
    <3>3. ~(Ratio(standing[j], share[j]) > Ratio(standing[o] + 1, share[o]))
      BY <2>2, <2>4 DEF Outrun
    <3> DEFINE x == Ratio(standing[j], share[j])
               y == Ratio(standing[o] + 1, share[o])
    <3>4. x \in Int /\ y \in Int /\ ~(x > y)
      BY <3>2, <3>3
    <3>5. x <= y
      <4> HIDE DEF x, y
      <4> QED
        BY <3>4
    <3> QED
      BY <3>5
  <2>5. /\ SameTurn(q, req'[h]) /\ req'[h].shifted = {} /\ share' = share /\ standing' = standing
        /\ \A g \in Request \ {h} : req'[g] = req[g]
    BY <1>9 DEF Locks
  <2>6. Chosen(req'[h]) = j /\ Rivals(req'[h]) = Rivals(q)
    BY <2>5 DEF Chosen, Rivals, SameTurn
  <2>7. TurnOf(h)'
    BY <2>3, <2>4, <2>5, <2>6 DEF TurnOf
  <2>8. ASSUME NEW g \in Request \ {h}  PROVE TurnOf(g)'
    <3>1. req'[g] = req[g] /\ TurnOf(g)
      BY <1>3, <2>5
    <3> QED
      BY <2>5, <3>1 DEF TurnOf, Rivals, Chosen
  <2>9. OneAtTheLock'
    BY <2>1, <2>5, <2>6 DEF OneAtTheLock, TurnInv, DispatchFree, Chosen
  <2> QED
    BY <2>7, <2>8, <2>9 DEF TurnInv
<1> QED
  BY <1>5, <1>6, <1>7, <1>8, <1>9, ClaimSteps

-----------------------------------------------------------------------------
(* The shares                                                              *)

LEMMA AdmStep ==
  ASSUME TypeInv, AdmInv, WholeFleet, [Next]_vars  PROVE AdmInv' /\ WholeFleet'
<1>1. /\ adm \in [Admin -> [at : {"idle", "rows", "write"}, rows : Change \cup {<< >>}]]
      /\ \A a \in Admin : adm[a] = [at |-> adm[a].at, rows |-> adm[a].rows]
  BY DEF TypeInv
<1>2. ASSUME UNCHANGED <<adm, share>>  PROVE AdmInv' /\ WholeFleet'
  BY <1>2 DEF AdmInv, WholeFleet, CapOf, SumOf
<1>3. ASSUME NEW h \in Request,
             \/ ClaimStart(h) \/ ShutdownOrIdle(h) \/ Skip(h) \/ PassOver(h) \/ FindBusy(h)
             \/ TakeTurn(h) \/ IssueClaim(h) \/ LiftPassedOver(h)
      PROVE  UNCHANGED <<adm, share>>
  BY <1>3 DEF ClaimStart, ShutdownOrIdle, Skip, PassOver, FindBusy, TakeTurn, IssueClaim,
              LiftPassedOver, jobsRest, others
<1>4. ASSUME NEW j \in Job, Gap(j) \/ GapEnds(j) \/ Unsettle(j)  PROVE UNCHANGED <<adm, share>>
  BY <1>4 DEF Gap, GapEnds, Unsettle
<1>5. CASE Tick \/ UNCHANGED vars
  BY <1>2, <1>5 DEF Tick, vars, jobsRest
(* The rows of a change are nobody else's when it takes them.              *)
<1>6. ASSUME NEW a \in Admin, NEW rows \in Change, AllocRows(a, rows)
      PROVE  AdmInv' /\ WholeFleet'
  <2>1. /\ share' = share /\ adm' = [adm EXCEPT ![a] = [at |-> "rows", rows |-> rows]]
        /\ rows # << >>
    BY <1>6, RowsOf DEF AllocRows
  <2>2. \A b \in Admin \ {a} : adm'[b] = adm[b] /\ Named(rows) \cap Named(adm[b].rows) = {}
    BY <1>1, <1>6, <2>1 DEF AllocRows, RowFree, Named
  <2>3. adm'[a].at = "rows" /\ adm'[a].rows = rows
    BY <1>1, <2>1
  <2>4. \A r : CapOf(r)' = CapOf(r)
    BY <2>1 DEF CapOf, SumOf
  <2>5. AdmInv'
    BY <2>1, <2>2, <2>3, <2>4 DEF AdmInv
  <2> QED
    BY <2>1, <2>5 DEF WholeFleet, SumOf
(* What is checked is the sum the shares will have.                        *)
<1>7. ASSUME NEW a \in Admin, AllocCheck(a)  PROVE AdmInv' /\ WholeFleet'
  <2> DEFINE rows == adm[a].rows
  <2>1. /\ share' = share /\ adm[a].at = "rows" /\ \A b \in Admin : adm[b].at # "write"
        /\ adm' = [adm EXCEPT ![a] = IF CapOf(rows) > Whole THEN IdleAdm
                                     ELSE [adm[a] EXCEPT !.at = "write"]]
    BY <1>7 DEF AllocCheck, ActivationFree, CapOf
  <2>2. rows \in Change /\ rows # << >>
    BY <1>1, <2>1 DEF AdmInv
  <2>3. CapOf(rows) \in Int
    BY <2>2, AppliedSum
  <2>4. \A b \in Admin \ {a} : adm'[b] = adm[b]
    BY <2>1
  <2>5. \/ adm'[a].at = "idle" /\ adm'[a].rows = << >>
        \/ adm'[a].at = "write" /\ adm'[a].rows = rows /\ CapOf(rows) <= Whole
    <3>1. CASE CapOf(rows) > Whole
      BY <1>1, <2>1, <3>1 DEF IdleAdm
    <3>2. CASE ~(CapOf(rows) > Whole)
      <4>1. adm'[a] = [adm[a] EXCEPT !.at = "write"]
        BY <1>1, <2>1, <3>2
      <4>2. CapOf(rows) <= Whole
        <5> HIDE DEF rows
        <5> QED
          BY <2>3, <3>2, SizesAssumption
      <4> QED
        BY <1>1, <4>1, <4>2
    <3> QED
      BY <3>1, <3>2
  <2>6. \A r : CapOf(r)' = CapOf(r)
    BY <2>1 DEF CapOf, SumOf
  <2>7. Named(<< >>) = {}
    BY DEF Named
  <2>8. \A b \in Admin \ {a} : /\ adm'[b].rows = << >> <=> adm'[b].at = "idle"
                              /\ adm'[b].at # "write"
                              /\ Named(adm'[b].rows) \cap Named(adm'[a].rows) = {}
    BY <2>1, <2>4, <2>5, <2>7 DEF AdmInv
  <2>9. \A b, c \in Admin \ {a} : b # c => Named(adm'[b].rows) \cap Named(adm'[c].rows) = {}
    BY <2>4 DEF AdmInv
  <2>10. /\ adm'[a].rows = << >> <=> adm'[a].at = "idle"
         /\ adm'[a].at = "write" => CapOf(adm'[a].rows) <= Whole
    BY <2>2, <2>5
  <2> HIDE DEF rows
  <2>11. AdmInv'
    BY <2>6, <2>8, <2>9, <2>10 DEF AdmInv
  <2> QED
    BY <2>1, <2>11 DEF WholeFleet, SumOf
(* Nobody else writes, so no other sum is waiting.                         *)
<1>8. ASSUME NEW a \in Admin, AllocWrite(a)  PROVE AdmInv' /\ WholeFleet'
  <2> DEFINE rows == adm[a].rows
  <2>1. /\ rows \in Change /\ share' = Applied(rows).share
        /\ adm[a].at = "write" /\ adm' = [adm EXCEPT ![a] = IdleAdm]
    BY <1>8, WriteMoves
  <2>2. CapOf(rows) <= Whole
    BY <2>1 DEF AdmInv
  <2>3. WholeFleet'
    <3>1. SumFunctionOnSet(share', Job) = CapOf(rows)
      BY <2>1, AppliedSum
    <3> QED
      BY <2>2, <3>1 DEF WholeFleet, SumOf
  <2>4. \A b \in Admin \ {a} : adm'[b] = adm[b] /\ adm[b].at # "write"
    BY <2>1 DEF AdmInv
  <2>5. adm'[a].at = "idle" /\ adm'[a].rows = << >> /\ Named(<< >>) = {}
    BY <1>1, <2>1 DEF IdleAdm, Named
  <2>6. AdmInv'
    BY <2>4, <2>5 DEF AdmInv
  <2> QED
    BY <2>3, <2>6
<1> QED
  BY <1>2, <1>3, <1>4, <1>5, <1>6, <1>7, <1>8 DEF Next

-----------------------------------------------------------------------------
(* Joins: what the histories are                                           *)

HistoryType ==
  /\ last \in [Job -> Int] /\ clock \in Nat /\ newcomer \subseteq Job
  /\ beside \in [Job -> SUBSET Job] /\ waited \in [Job -> [Job -> Nat]]
  /\ streak \in [Request -> [Job -> Nat]]
  /\ \A j \in Job : share[j] # 0 => Fits(share[j])

LEMMA UnbrokenIs ==
  ASSUME HistoryType, NEW S
  PROVE  /\ Unbroken(S) \in [Request -> [Job -> Nat]]
         /\ \A g \in Request : \A k \in Job :
              Unbroken(S)[g][k] = IF CanRun[g] \cap S \subseteq {k} THEN streak[g][k] ELSE 0
BY DEF Unbroken, HistoryType

LEMMA MovedByChange ==
  ASSUME TypeInv, AdmInv, NEW a \in Admin, AllocWrite(a)
  PROVE  \E rows \in Change : \E S \in SUBSET Job :
           /\ share' = Applied(rows).share /\ standing' = Applied(rows).standing
           /\ S = {j \in Named(rows) : share'[j] # share[j]}
           /\ AppliedSoFar(rows, DOMAIN rows, Applied(rows))
           /\ Named(rows) = {rows[i][1] : i \in DOMAIN rows}
           /\ \A j \in Job \ S : share'[j] = share[j] /\ standing'[j] = standing[j]
           /\ newcomer' = newcomer \cup S /\ last' = last /\ recent' = recent /\ clock' = clock
           /\ beside' = [k \in Job |->
                (IF k \in S THEN Served(k, share) \cap Served(k, share') ELSE beside[k]) \ S]
           /\ waited' = [k \in Job |-> IF k \in S THEN NoneYet ELSE waited[k]]
           /\ streak' = IF S = {} THEN streak ELSE [h \in Request |-> NoneYet]
           /\ Shift(req, S)
<1>1. PICK rows \in Change : rows = adm[a].rows
  BY DEF AllocWrite, TypeInv, AdmInv
<1>2. PICK after : after = Applied(rows)
  OBVIOUS
<1>3. PICK S : S = {j \in Named(rows) : after.share[j] # share[j]}
  OBVIOUS
<1>4. /\ share' = after.share /\ standing' = after.standing
      /\ newcomer' = newcomer \cup S /\ last' = last /\ recent' = recent /\ clock' = clock
      /\ beside' = [k \in Job |->
           (IF k \in S THEN Served(k, share) \cap Served(k, share') ELSE beside[k]) \ S]
      /\ waited' = [k \in Job |-> IF k \in S THEN NoneYet ELSE waited[k]]
      /\ streak' = IF S = {} THEN streak ELSE [h \in Request |-> NoneYet]
      /\ Shift(req, S)
  BY <1>1, <1>2, <1>3 DEF AllocWrite, admRest
<1>5. AppliedSoFar(rows, DOMAIN rows, after)
  BY <1>2, AppliedIs
<1>6. Named(rows) = {rows[i][1] : i \in DOMAIN rows}
  BY DEF Named
<1>7. S \in SUBSET Job
  BY <1>3, <1>6, RowsOf
<1>8. \A j \in Job \ S : after.share[j] = share[j] /\ after.standing[j] = standing[j]
  <2> SUFFICES ASSUME NEW j \in Job, j \notin S
               PROVE  after.share[j] = share[j] /\ after.standing[j] = standing[j]
    OBVIOUS
  <2>1. CASE j \in Named(rows)
    <3>1. PICK i \in DOMAIN rows : j = rows[i][1]
      BY <1>6, <2>1
    <3>2. after.share[j] = share[j] /\ after.share[j] = rows[i][2]
      BY <1>3, <1>5, <2>1, <3>1 DEF AppliedSoFar
    <3> QED
      BY <1>5, <3>1, <3>2 DEF AppliedSoFar
  <2>2. CASE j \notin Named(rows)
    BY <1>5, <1>6, <2>2 DEF AppliedSoFar, NamedBy
  <2> QED
    BY <2>1, <2>2
<1> QED
  BY <1>2, <1>3, <1>4, <1>5, <1>6, <1>7, <1>8

LEMMA HistoryStep ==
  ASSUME TypeInv, AdmInv, HistoryType, [Next]_vars  PROVE HistoryType'
<1>1. ASSUME UNCHANGED <<share, last, clock, history>>  PROVE HistoryType'
  BY <1>1 DEF HistoryType, history
<1>2. ASSUME NEW h \in Request,
             \/ ClaimStart(h) \/ ShutdownOrIdle(h) \/ Skip(h) \/ PassOver(h) \/ FindBusy(h)
             \/ TakeTurn(h)
      PROVE  HistoryType'
  BY <1>1, <1>2 DEF ClaimStart, ShutdownOrIdle, Skip, PassOver, FindBusy, TakeTurn, jobsRest, others
<1>3. ASSUME NEW h \in Request, IssueClaim(h)  PROVE HistoryType'
  <2> DEFINE j == Chosen(req[h])
             n == IF Levelled(j) /\ req[h].passed = {} /\ Rivals(req[h]) # {}
                    THEN Unbroken({j})[h][j] + 1 ELSE 0
  <2>1. /\ last' = [last EXCEPT ![j] = clock] /\ newcomer' = newcomer
        /\ beside' = [beside EXCEPT ![j] = {}] /\ share' = share /\ clock' = clock
        /\ waited' = [k \in Job |-> IF k = j THEN NoneYet
                                    ELSE IF First(k) /\ k \in Rivals(req[h]) /\ j \in beside[k]
                                      THEN [waited[k] EXCEPT ![j] = @ + 1] ELSE waited[k]]
        /\ streak' = [Unbroken({j}) EXCEPT ![h][j] = n]
    BY <1>3 DEF IssueClaim, others
  <2>2. j \in Job
    BY <1>3, IssueMoves
  <2> HIDE DEF j
  <2>3. Unbroken({j}) \in [Request -> [Job -> Nat]]
    BY UnbrokenIs
  <2>4. n \in Nat
    <3>1. \A k \in Job : Unbroken({j})[h][k] \in Nat
      BY <2>3
    <3>2. Unbroken({j})[h][j] \in Nat
      BY <2>2, <3>1
    <3> QED
      BY <3>2
  <2> HIDE DEF n
  <2>5. streak' \in [Request -> [Job -> Nat]]
    BY <2>1, <2>3, <2>4
  <2>6. waited' \in [Job -> [Job -> Nat]]
    BY <2>1, <2>2 DEF HistoryType, NoneYet
  <2>7. last' \in [Job -> Int] /\ beside' \in [Job -> SUBSET Job]
    <3>1. clock \in Int /\ {} \in SUBSET Job
      BY DEF HistoryType
    <3> QED
      BY <2>1, <3>1 DEF HistoryType
  <2> QED
    BY <2>1, <2>5, <2>6, <2>7 DEF HistoryType
<1>4. ASSUME NEW h \in Request, LiftPassedOver(h)  PROVE HistoryType'
  <2>1. PICK S : newcomer' = newcomer \ S /\ streak' = Unbroken(S)
    BY <1>4 DEF LiftPassedOver
  <2>2. UNCHANGED <<share, last, clock, beside, waited>>
    BY <1>4 DEF LiftPassedOver, others
  <2> QED
    BY <2>1, <2>2, UnbrokenIs DEF HistoryType
<1>5. ASSUME NEW j \in Job, Gap(j) \/ GapEnds(j)  PROVE HistoryType'
  BY <1>1, <1>5 DEF Gap, GapEnds
<1>6. ASSUME NEW j \in Job, Unsettle(j)  PROVE HistoryType'
  <2>1. /\ UNCHANGED <<share, last, clock, newcomer, waited>>
        /\ beside' = [k \in Job |-> beside[k] \ {j}]
        /\ streak' = [h \in Request |-> [Unbroken({j})[h] EXCEPT ![j] = 0]]
    BY <1>6 DEF Unsettle
  <2>2. Unbroken({j}) \in [Request -> [Job -> Nat]]
    BY UnbrokenIs
  <2>3. streak' \in [Request -> [Job -> Nat]]
    BY <2>1, <2>2
  <2> QED
    BY <2>1, <2>3 DEF HistoryType
<1>7. CASE Tick
  <2>1. clock' \in Nat
    BY <1>7 DEF Tick, HistoryType
  <2> QED
    BY <1>7, <2>1 DEF Tick, HistoryType, jobsRest, history
<1>8. ASSUME NEW a \in Admin, NEW rows \in Change, AllocRows(a, rows)  PROVE HistoryType'
  BY <1>1, <1>8 DEF AllocRows, admRest
<1>9. ASSUME NEW a \in Admin, AllocCheck(a)  PROVE HistoryType'
  BY <1>1, <1>9 DEF AllocCheck, admRest
<1>10. ASSUME NEW a \in Admin, AllocWrite(a)  PROVE HistoryType'
  <2>1. PICK rows \in Change, S \in SUBSET Job :
           /\ share' = Applied(rows).share /\ S = {j \in Named(rows) : share'[j] # share[j]}
           /\ AppliedSoFar(rows, DOMAIN rows, Applied(rows))
           /\ Named(rows) = {rows[i][1] : i \in DOMAIN rows}
           /\ \A j \in Job \ S : share'[j] = share[j]
           /\ newcomer' = newcomer \cup S /\ last' = last /\ clock' = clock
           /\ beside' = [k \in Job |->
                (IF k \in S THEN Served(k, share) \cap Served(k, share') ELSE beside[k]) \ S]
           /\ waited' = [k \in Job |-> IF k \in S THEN NoneYet ELSE waited[k]]
           /\ streak' = IF S = {} THEN streak ELSE [h \in Request |-> NoneYet]
    BY <1>10, MovedByChange
  <2>2. \A j \in Job : share'[j] # 0 => Fits(share'[j])
    <3> SUFFICES ASSUME NEW j \in Job, share'[j] # 0  PROVE Fits(share'[j])
      OBVIOUS
    <3>1. CASE j \in S
      <4>1. PICK i \in DOMAIN rows : j = rows[i][1]
        BY <2>1, <3>1
      <4>2. share'[j] = rows[i][2]
        BY <2>1, <4>1 DEF AppliedSoFar
      <4> QED
        BY <4>2, RowsOf
    <3>2. CASE j \notin S
      BY <2>1, <3>2 DEF HistoryType
    <3> QED
      BY <3>1, <3>2
  <2>3. NoneYet \in [Job -> Nat]
    BY DEF NoneYet
  <2>4. beside' \in [Job -> SUBSET Job] /\ waited' \in [Job -> [Job -> Nat]]
        /\ streak' \in [Request -> [Job -> Nat]]
    BY <2>1, <2>3 DEF HistoryType, Served, Active
  <2> QED
    BY <2>1, <2>2, <2>4 DEF HistoryType
<1>11. CASE UNCHANGED vars
  BY <1>1, <1>11 DEF vars, history
<1> QED
  BY <1>2, <1>3, <1>4, <1>5, <1>6, <1>7, <1>8, <1>9, <1>10, <1>11 DEF Next

(* A job that waits is where it joined, and those it joined are where they *)
(* were or further on; who claims one of them instead has it locked.       *)
JoinKept(k, o) ==
  /\ First(k) /\ o \in beside[k]
  /\ share'[k] = share[k] /\ share'[o] = share[o] /\ standing'[k] = standing[k]
  /\ \/ waited'[k][o] = waited[k][o] /\ standing[o] <= standing'[o]
     \/ /\ waited'[k][o] = waited[k][o] + 1 /\ standing[o] + 1 <= standing'[o]
        /\ \E h \in Request : /\ req[h].at = "locked" /\ req'[h].at # "locked"
                             /\ o = Chosen(req[h]) /\ k \in Rivals(req[h])

JoinFresh(k, o) ==
  /\ share'[o] # 0 /\ waited'[k][o] = 0
  /\ Ratio(standing'[k], share'[k]) <= Ratio(standing'[o], share'[o])

LEMMA ClaimAdds ==
  ASSUME TypeInv, NEW h \in Request, IssueClaim(h)
  PROVE  standing'[Chosen(req[h])] = Lifted(Chosen(req[h]), req[h]) + 1
         /\ standing[Chosen(req[h])] + 1 <= standing'[Chosen(req[h])]
<1> DEFINE q == req[h]
           j == Chosen(q)
           n == Lifted(j, q)
<1>1. Listed(q) /\ q.at \in OnItsWay /\ j \in Job
  BY ChosenType DEF TypeInv, IssueClaim, OnItsWay
<1>2. n \in Int /\ standing[j] <= n
  BY <1>1, LiftedUp
<1>3. standing'[j] = n + 1 /\ standing[j] \in Int
  BY <1>1 DEF IssueClaim, TypeInv, Counts
<1> HIDE DEF n
<1>4. standing[j] + 1 <= n + 1
  BY <1>2, <1>3
<1> QED
  BY <1>3, <1>4 DEF n

LEMMA JoinSteps ==
  ASSUME TypeInv, AdmInv, HistoryType, [Next]_vars,
         NEW k \in Job, NEW o \in Job, First(k)', share'[k] > 0, o \in beside'[k]
  PROVE  JoinKept(k, o) \/ JoinFresh(k, o)
<1>0. \A j \in Job : standing[j] \in Int
  BY DEF TypeInv, Counts
<1>1. ASSUME UNCHANGED <<share, standing, last, history>>  PROVE JoinKept(k, o)
  BY <1>0, <1>1 DEF JoinKept, First, history
<1>2. ASSUME NEW h \in Request,
             \/ ClaimStart(h) \/ ShutdownOrIdle(h) \/ Skip(h) \/ PassOver(h) \/ FindBusy(h)
             \/ TakeTurn(h)
      PROVE  JoinKept(k, o)
  BY <1>1, <1>2 DEF ClaimStart, ShutdownOrIdle, Skip, PassOver, FindBusy, TakeTurn, jobsRest, others
<1>3. ASSUME NEW h \in Request, IssueClaim(h)  PROVE JoinKept(k, o)
  <2> DEFINE j == Chosen(req[h])
  <2>1. /\ last' = [last EXCEPT ![j] = clock] /\ newcomer' = newcomer
        /\ beside' = [beside EXCEPT ![j] = {}] /\ share' = share
        /\ waited' = [i \in Job |-> IF i = j THEN NoneYet
                                    ELSE IF First(i) /\ i \in Rivals(req[h]) /\ j \in beside[i]
                                      THEN [waited[i] EXCEPT ![j] = @ + 1] ELSE waited[i]]
    BY <1>3 DEF IssueClaim
  <2>2. /\ j \in Job /\ req[h].at = "locked" /\ req'[h].at # "locked"
        /\ \A i \in Job \ {j} : standing'[i] = standing[i]
    BY <1>3, IssueMoves
  <2>3. standing[j] + 1 <= standing'[j] /\ standing'[j] \in Int
    BY <1>3, <2>2, ClaimAdds, IssueMoves DEF Counts
  <2> HIDE DEF j
  <2>4. k # j /\ First(k) /\ o \in beside[k]
    BY <2>1, <2>2 DEF First, HistoryType, Never
  <2>5. /\ waited[k] \in [Job -> Nat]
        /\ waited'[k] = IF First(k) /\ k \in Rivals(req[h]) /\ j \in beside[k]
                          THEN [waited[k] EXCEPT ![j] = @ + 1] ELSE waited[k]
    BY <2>1, <2>4 DEF HistoryType
  <2>6. CASE o = j
    <3>1. standing[o] <= standing'[o]
      BY <1>0, <2>3, <2>6
    <3>2. CASE k \in Rivals(req[h])
      <4>1. waited'[k][o] = waited[k][o] + 1
        BY <2>4, <2>5, <2>6, <3>2
      <4> QED
        BY <2>1, <2>2, <2>3, <2>4, <2>6, <3>2, <4>1 DEF JoinKept, j
    <3>3. CASE k \notin Rivals(req[h])
      BY <2>1, <2>2, <2>4, <2>5, <3>1, <3>3 DEF JoinKept
    <3> QED
      BY <3>2, <3>3
  <2>7. CASE o # j
    <3>1. waited'[k][o] = waited[k][o] /\ standing'[o] = standing[o]
      BY <2>2, <2>5, <2>7
    <3> QED
      BY <1>0, <2>1, <2>2, <2>4, <3>1 DEF JoinKept
  <2> QED
    BY <2>6, <2>7
<1>4. ASSUME NEW h \in Request, LiftPassedOver(h)  PROVE JoinKept(k, o)
  <2> DEFINE p == req[h]
             pace == p.ratio[Chosen(p)]
  <2>1. PICK S : S = {j \in p.passed : /\ share[j] > 0 /\ RowFree(j)
                                       /\ standing[j] < At(pace, share[j])}
    OBVIOUS
  <2>2. /\ standing' = [j \in Job |-> IF j \in S THEN At(pace, share[j]) ELSE standing[j]]
        /\ newcomer' = newcomer \ S /\ UNCHANGED <<share, last, beside, waited>>
    BY <1>4, <2>1 DEF LiftPassedOver, others
  <2>3. pace \in Int
    BY <1>4, ChosenType DEF LiftPassedOver, TypeInv, OnItsWay
  <2> HIDE DEF pace, p
  <2>4. k \notin S /\ First(k)
    BY <2>2 DEF First
  <2>5. standing[o] <= standing'[o]
    <3>1. CASE o \in S
      <4>1. standing'[o] = At(pace, share[o]) /\ standing[o] < At(pace, share[o])
        BY <2>1, <2>2, <3>1
      <4>2. At(pace, share[o]) \in Int
        <5>1. share[o] \in Nat
          BY SizesAssumption DEF TypeInv, Shares
        <5> QED
          BY <2>3, <5>1, AtType
      <4> QED
        BY <1>0, <4>1, <4>2
    <3>2. CASE o \notin S
      BY <1>0, <2>2, <3>2
    <3> QED
      BY <3>1, <3>2
  <2> QED
    BY <2>2, <2>4, <2>5 DEF JoinKept
<1>5. ASSUME NEW j \in Job, Gap(j) \/ GapEnds(j)  PROVE JoinKept(k, o)
  BY <1>1, <1>5 DEF Gap, GapEnds
<1>6. ASSUME NEW j \in Job, Unsettle(j)  PROVE JoinKept(k, o)
  <2>1. PICK m : standing' = [standing EXCEPT ![j] = m]
    BY <1>6 DEF Unsettle
  <2>2. /\ last[j] # Never /\ UNCHANGED <<share, last, newcomer, waited>>
        /\ beside' = [i \in Job |-> beside[i] \ {j}]
    BY <1>6 DEF Unsettle
  <2>3. First(k) /\ k # j /\ o # j /\ o \in beside[k]
    BY <2>2 DEF First
  <2>4. standing'[k] = standing[k] /\ standing'[o] = standing[o]
    BY <2>1, <2>3 DEF TypeInv, Counts
  <2> QED
    BY <1>0, <2>2, <2>3, <2>4 DEF JoinKept
<1>7. CASE Tick
  BY <1>1, <1>7 DEF Tick, jobsRest
<1>8. ASSUME NEW a \in Admin, NEW rows \in Change, AllocRows(a, rows)  PROVE JoinKept(k, o)
  BY <1>1, <1>8 DEF AllocRows, admRest
<1>9. ASSUME NEW a \in Admin, AllocCheck(a)  PROVE JoinKept(k, o)
  BY <1>1, <1>9 DEF AllocCheck, admRest
<1>10. ASSUME NEW a \in Admin, AllocWrite(a)  PROVE JoinKept(k, o) \/ JoinFresh(k, o)
  <2>1. PICK rows \in Change, S \in SUBSET Job :
           /\ share' = Applied(rows).share /\ standing' = Applied(rows).standing
           /\ S = {j \in Named(rows) : share'[j] # share[j]}
           /\ AppliedSoFar(rows, DOMAIN rows, Applied(rows))
           /\ Named(rows) = {rows[i][1] : i \in DOMAIN rows}
           /\ \A j \in Job \ S : share'[j] = share[j] /\ standing'[j] = standing[j]
           /\ newcomer' = newcomer \cup S /\ last' = last
           /\ beside' = [i \in Job |->
                (IF i \in S THEN Served(i, share) \cap Served(i, share') ELSE beside[i]) \ S]
           /\ waited' = [i \in Job |-> IF i \in S THEN NoneYet ELSE waited[i]]
    BY <1>10, MovedByChange
  <2>2. o \notin S /\ share'[o] = share[o] /\ standing'[o] = standing[o]
    BY <2>1
  <2>3. CASE k \notin S
    <3>1. First(k) /\ o \in beside[k] /\ waited'[k][o] = waited[k][o]
      BY <2>1, <2>3 DEF First
    <3> QED
      BY <1>0, <2>1, <2>2, <2>3, <3>1 DEF JoinKept
  <2>4. CASE k \in S
    <3>1. o \in Served(k, share) /\ o \in Served(k, share') /\ waited'[k][o] = 0
      BY <2>1, <2>4 DEF NoneYet
    <3>2. PICK m \in DOMAIN rows : k = rows[m][1]
      BY <2>1, <2>4
    <3>3. \A i \in DOMAIN rows : share'[rows[i][1]] = rows[i][2] /\ rows[i][1] \in Job
      BY <2>1, RowsOf DEF AppliedSoFar
    <3>4. last \in [Job -> Int]
      BY DEF HistoryType
    <3>5. /\ o \in Job \ {k} /\ share[o] > 0 /\ last[o] # Never
          /\ \A p \in Active(share) \ {k} : last[p] # Never => last[p] <= last[o]
          /\ \A p \in Active(share') \ {k} : last[p] # Never => last[p] <= last[o]
      BY <3>1, <3>4, ServedIs DEF Active
    <3>6. ServedBeside(rows, k, o)
      <4>1. Fits(share[o])
        BY <3>5, SizesAssumption DEF HistoryType, TypeInv, Shares
      <4>2. \A i \in DOMAIN rows : rows[i][1] = o => rows[i][2] = share[o]
        BY <2>2, <3>3
      <4>3. ASSUME NEW p \in Job \ {k}, last[p] # Never, ActiveBy(rows, p)
            PROVE  last[p] <= last[o]
        <5>1. share[p] > 0 \/ share'[p] > 0
          BY <3>3, <4>3 DEF ActiveBy
        <5> QED
          BY <3>5, <4>3, <5>1 DEF Active
      <4> QED
        BY <3>4, <3>5, <4>1, <4>2, <4>3 DEF ServedBeside
    <3>7. share'[k] = rows[m][2] /\ rows[m][2] # 0 /\ rows[m][2] # share[k]
      <4>1. share'[k] = rows[m][2] /\ share'[k] # share[k]
        BY <2>1, <2>4, <3>2, <3>3
      <4> QED
        BY <4>1
    <3>8. Ratio(standing'[k], share'[k]) <= Ratio(standing[o], share[o])
      BY <2>1, <3>2, <3>6, <3>7 DEF AppliedSoFar
    <3> QED
      BY <2>2, <3>1, <3>5, <3>8 DEF JoinFresh
  <2> QED
    BY <2>3, <2>4
<1>11. CASE UNCHANGED vars
  BY <1>1, <1>11 DEF vars, history
<1> QED
  BY <1>2, <1>3, <1>4, <1>5, <1>6, <1>7, <1>8, <1>9, <1>10, <1>11 DEF Next

(* What a list says, when it is read and for as long as nobody has moved   *)
(* the jobs on it.                                                         *)
AtList == {"walk", "locked"}

ListOf(h, r) ==
  /\ ToSet(r.list) = Active(share) \cap CanRun[h]
  /\ \A i, m \in DOMAIN r.list : i # m => r.list[i] # r.list[m]
  /\ \A o \in ToSet(r.list) : r.alloc[o] = share[o]

FreshRead(h, r) ==
  ListOf(h, r) /\ \A o \in ToSet(r.list) : r.ratio[o] = Ratio(standing[o], share[o])

SameList(p, q) == p.list = q.list /\ p.ratio = q.ratio /\ p.alloc = q.alloc

(* A request goes on with the list it has or one it reads now; it gets the *)
(* lock in its turn.                                                       *)
TakesTurn(h) ==
  share[Chosen(req[h])] # 0 /\ ~Outrun(req[h]) /\ UNCHANGED <<share, standing>>

ReqStep(h) ==
  LET q == req[h]  r == req'[h]
  IN /\ r.busy \subseteq q.busy \cup recent'
     /\ \/ r.at \notin AtList
        \/ r.at = "walk" /\ FreshRead(h, r) /\ UNCHANGED <<share, standing>>
        \/ /\ q.at \in AtList /\ SameList(q, r)
           /\ \/ r.at = "walk"
              \/ r.at = "locked" /\ SameTurn(q, r) /\ (q.at = "locked" \/ TakesTurn(h))

LEMMA ReadFresh ==
  ASSUME TypeInv, NEW h \in Request, NEW n
  PROVE  /\ Read(h, n).at = "walk" => FreshRead(h, Read(h, n))
         /\ n = 1 => Read(h, n).busy = {}
         /\ Read(h, n).at \in {"none", "walk"}
<1> DEFINE list == Candidates(h)
<1>1. /\ ToSet(list) = Active(share) \cap CanRun[h]
      /\ \A i, k \in DOMAIN list : i # k => list[i] # list[k]
  BY CandidatesAre DEF TypeInv
<1>2. CASE list = << >>
  <2>1. Read(h, n) = [IdleReq EXCEPT !.at = "none"]
    BY <1>2 DEF Read
  <2> QED
    BY <2>1 DEF IdleReq
<1>3. CASE list # << >>
  <2> DEFINE r == Read(h, n)
  <2>1. /\ r.at = "walk" /\ r.list = list
        /\ r.ratio = [j \in ToSet(list) |-> Ratio(standing[j], share[j])]
        /\ r.alloc = [j \in ToSet(list) |-> share[j]]
        /\ n = 1 => r.busy = {}
    BY <1>3 DEF Read
  <2> HIDE DEF list, r
  <2>2. FreshRead(h, r)
    BY <1>1, <2>1 DEF FreshRead, ListOf
  <2> QED
    BY <2>1, <2>2 DEF r
<1> QED
  BY <1>2, <1>3

LEMMA GoOnReads ==
  ASSUME TypeInv, NEW h \in Request, NEW q, Listed(q), q.at \in OnItsWay, GoOn(h, q)
  PROVE  LET r == req'[h]
         IN /\ r.busy \subseteq q.busy
            /\ \/ r.at \notin AtList
               \/ r.at = "walk" /\ (FreshRead(h, r) \/ SameList(q, r))
<1> DEFINE r == req'[h]
<1>1. CASE q.i < Len(q.list)
  <2>1. r = [q EXCEPT !.i = @ + 1, !.at = "walk"]
    BY <1>1 DEF GoOn, TypeInv
  <2>2. r.at = "walk" /\ SameList(q, r) /\ r.busy = q.busy
    BY <2>1 DEF Listed, Requests, SameList
  <2> QED
    BY <2>2
<1>2. CASE ~(q.i < Len(q.list)) /\ q.outrun /\ q.round < Rounds
  <2> DEFINE f == Read(h, q.round + 1)
  <2>1. r = [f EXCEPT !.busy = q.busy]
    BY <1>2 DEF GoOn, TypeInv
  <2>2. f.at = "walk" => FreshRead(h, f)
    BY ReadFresh
  <2>3. f \in Requests /\ f.at \in {"none", "walk"}
    <3>1. q.round + 1 \in Nat
      BY DEF Listed, Requests
    <3> QED
      BY <3>1, ReadListed DEF Listed
  <2> HIDE DEF f
  <2>4. r.at = f.at /\ r.list = f.list /\ r.ratio = f.ratio /\ r.alloc = f.alloc /\ r.busy = q.busy
    BY <2>1, <2>3 DEF Requests
  <2> HIDE DEF r
  <2>5. r.at = "walk" => FreshRead(h, r)
    BY <2>2, <2>4 DEF FreshRead, ListOf
  <2> QED
    BY <2>3, <2>4, <2>5 DEF AtList, r
<1>3. CASE ~(q.i < Len(q.list)) /\ ~(q.outrun /\ q.round < Rounds)
  <2>1. r = IdleReq
    BY <1>3 DEF GoOn, TypeInv
  <2> QED
    BY <2>1 DEF IdleReq, AtList
<1> QED
  BY <1>1, <1>2, <1>3

LEMMA ShiftKeepsLists ==
  ASSUME NEW q \in [Request -> Requests], NEW S, Shift(q, S), NEW h \in Request
  PROVE  SameList(q[h], req'[h]) /\ req'[h].busy = q[h].busy
BY DEF Shift, Requests, SameList

LEMMA ReqSteps ==
  ASSUME TypeInv, AdmInv, [Next]_vars, NEW g \in Request
  PROVE  ReqStep(g)
<1>1. \A h \in Request : Listed(req[h]) /\ req[h] \in Requests
  BY DEF TypeInv
(* A request that nothing happens to.                                      *)
<1>2. ASSUME req'[g] = req[g]  PROVE ReqStep(g)
  BY <1>1, <1>2 DEF ReqStep, SameList, SameTurn, AtList
(* A request that goes on.                                                 *)
<1>3. ASSUME NEW q, Listed(q), q.at \in OnItsWay, GoOn(g, q), SameList(req[g], q),
             req[g].at \in AtList, q.busy \subseteq req[g].busy \cup recent',
             UNCHANGED <<share, standing>>
      PROVE  ReqStep(g)
  BY <1>3, GoOnReads DEF ReqStep, SameList
<1>4. ASSUME NEW h \in Request,
             \/ ClaimStart(h) \/ ShutdownOrIdle(h) \/ Skip(h) \/ PassOver(h) \/ FindBusy(h)
             \/ TakeTurn(h)
      PROVE  ReqStep(g)
  <2> DEFINE q == req[h]
             S == q.passed \cup {Chosen(q)}
             B == q.busy \cup {Chosen(q)}
  <2>0. Listed(q) /\ q \in Requests
    BY <1>1
  <2>1. CASE g # h
    <3>1. req'[g] = req[g]
      <4>1. CASE \/ ClaimStart(h) \/ ShutdownOrIdle(h) \/ Skip(h) \/ PassOver(h) \/ FindBusy(h)
                 \/ TakeTurn(h) /\ req' # [req EXCEPT ![h].at = "locked", ![h].shifted = {}]
        BY <2>1, <4>1, WalkStep
      <4>2. CASE TakeTurn(h) /\ req' = [req EXCEPT ![h].at = "locked", ![h].shifted = {}]
        BY <2>1, <4>2, LockTaken
      <4> QED
        BY <1>4, <4>1, <4>2
    <3> QED
      BY <1>2, <3>1
  <2>2. UNCHANGED <<share, standing>>
    BY <1>4 DEF ClaimStart, ShutdownOrIdle, Skip, PassOver, FindBusy, TakeTurn, jobsRest
  <2>3. CASE g = h /\ ClaimStart(h)
    <3>1. req'[h] = Read(h, 1)
      BY <2>3 DEF ClaimStart, TypeInv
    <3> QED
      BY <2>2, <2>3, <3>1, ReadFresh DEF ReqStep, AtList
  <2>4. CASE g = h /\ ShutdownOrIdle(h)
    <3>1. req'[h].at \in {"gone", "idle"} /\ req'[h].busy = {}
      BY <2>4 DEF ShutdownOrIdle, TypeInv, IdleReq
    <3> QED
      BY <2>4, <3>1 DEF ReqStep, AtList
  <2>5. CASE g = h /\ Skip(h)
    BY <1>3, <2>0, <2>2, <2>5 DEF Skip, SameList, OnItsWay, AtList
  <2>6. ASSUME q.at \in AtList, GoOn(h, [q EXCEPT !.passed = S])
        PROVE  ReqStep(h)
    <3>1. S \in SUBSET Job
      BY <2>0, <2>6, ChosenType DEF Requests, AtList, OnItsWay
    <3> HIDE DEF S, q
    <3> DEFINE p == [q EXCEPT !.passed = S]
    <3>2. Listed(p) /\ p.at \in OnItsWay
      BY <2>0, <2>6, <3>1, PassedListed DEF AtList, OnItsWay
    <3>3. SameList(q, p) /\ p.busy = q.busy
      BY <2>0 DEF Requests, SameList
    <3>4. GoOn(h, p)
      BY <2>6
    <3> HIDE DEF p
    <3>5. /\ SameList(req[h], p) /\ req[h].at \in AtList /\ p.busy \subseteq req[h].busy \cup recent'
          /\ UNCHANGED <<share, standing>>
      BY <2>2, <2>6, <3>3 DEF q
    <3> HIDE <2>6
    <3>6. LET r == req'[h]
          IN /\ r.busy \subseteq p.busy
             /\ \/ r.at \notin AtList
                \/ r.at = "walk" /\ (FreshRead(h, r) \/ SameList(p, r))
      BY <3>2, <3>4, GoOnReads
    <3> QED
      BY <3>5, <3>6 DEF ReqStep, SameList
  <2>7. CASE g = h /\ PassOver(h)
    BY <2>6, <2>7 DEF PassOver, Walking, AtList
  <2>8. CASE g = h /\ FindBusy(h)
    <3>1. B \in SUBSET Job /\ q.at = "walk"
      BY <2>0, <2>8, ChosenType DEF FindBusy, Walking, Requests, OnItsWay
    <3>2. GoOn(h, [q EXCEPT !.busy = B]) /\ B \subseteq req[h].busy \cup recent'
      BY <2>8 DEF FindBusy
    <3> HIDE DEF B, q
    <3> DEFINE p == [q EXCEPT !.busy = B]
    <3>3. Listed(p) /\ p.at \in OnItsWay
      BY <2>0, <3>1, PassedListed DEF OnItsWay
    <3>4. SameList(q, p) /\ p.busy = B
      BY <2>0 DEF Requests, SameList
    <3>5. GoOn(h, p)
      BY <3>2
    <3> HIDE DEF p
    <3>6. SameList(req[h], p) /\ req[h].at \in AtList
      BY <3>1, <3>4 DEF q, AtList
    <3> QED
      BY <1>3, <2>2, <2>8, <3>2, <3>3, <3>4, <3>5, <3>6
  <2>9. CASE g = h /\ TakeTurn(h) /\ req' # [req EXCEPT ![h].at = "locked", ![h].shifted = {}]
    <3>1. q.at = "walk" /\ (GoOn(h, [q EXCEPT !.passed = S]) \/ GoOn(h, [q EXCEPT !.outrun = TRUE]))
      BY <2>9 DEF TakeTurn, Walking
    <3>2. CASE GoOn(h, [q EXCEPT !.passed = S])
      BY <2>6, <2>9, <3>1, <3>2 DEF AtList
    <3>3. CASE GoOn(h, [q EXCEPT !.outrun = TRUE])
      <4> HIDE DEF q
      <4> DEFINE p == [q EXCEPT !.outrun = TRUE]
      <4>1. Listed(p) /\ p.at \in OnItsWay
        BY <2>0, <3>1, PassedListed DEF OnItsWay
      <4>2. SameList(q, p) /\ p.busy = q.busy
        BY <2>0 DEF Requests, SameList
      <4>3. GoOn(h, p)
        BY <3>3
      <4> HIDE DEF p
      <4>4. SameList(req[h], p) /\ req[h].at \in AtList /\ p.busy \subseteq req[h].busy \cup recent'
        BY <3>1, <4>2 DEF q, AtList
      <4> QED
        BY <1>3, <2>2, <2>9, <4>1, <4>3, <4>4
    <3> QED
      BY <3>1, <3>2, <3>3
  <2>10. CASE g = h /\ TakeTurn(h) /\ req' = [req EXCEPT ![h].at = "locked", ![h].shifted = {}]
    <3>1. TakesTurn(h)
      BY <2>2, <2>10, TakenInTurn DEF TakesTurn
    <3>2. req'[h].at = "locked" /\ SameTurn(q, req'[h])
      BY <2>10, LockTaken
    <3>3. SameList(q, req'[h]) /\ q.at = "walk"
      BY <2>0, <2>10 DEF SameList, TakeTurn, Walking, TypeInv, Requests
    <3> QED
      BY <2>10, <3>1, <3>2, <3>3 DEF ReqStep, AtList, SameTurn
  <2> QED
    BY <1>4, <2>1, <2>3, <2>4, <2>5, <2>7, <2>8, <2>9, <2>10
<1>5. ASSUME NEW h \in Request, IssueClaim(h)  PROVE ReqStep(g)
  <2>1. CASE g # h
    BY <1>2, <1>5, <2>1, IssueMoves
  <2>2. CASE g = h
    <3>1. req' = [req EXCEPT ![h] = IdleReq] \/ req' = [req EXCEPT ![h] = [req[h] EXCEPT !.at = "lift"]]
      BY <1>5 DEF IssueClaim
    <3>2. \/ req'[h].at = "idle" /\ req'[h].busy = {}
          \/ req'[h].at = "lift" /\ req'[h].busy = req[h].busy
      <4>1. req'[h] = IdleReq \/ req'[h] = [req[h] EXCEPT !.at = "lift"]
        BY <3>1 DEF TypeInv
      <4>2. [req[h] EXCEPT !.at = "lift"].at = "lift" /\ [req[h] EXCEPT !.at = "lift"].busy = req[h].busy
        BY <1>1 DEF Requests
      <4>3. IdleReq.at = "idle" /\ IdleReq.busy = {}
        BY DEF IdleReq
      <4>4. CASE req'[h] = IdleReq
        BY <4>3, <4>4
      <4>5. CASE req'[h] = [req[h] EXCEPT !.at = "lift"]
        <5> DEFINE z == [req[h] EXCEPT !.at = "lift"]
        <5> HIDE DEF z
        <5>1. req'[h] = z /\ z.at = "lift" /\ z.busy = req[h].busy
          BY <4>2, <4>5 DEF z
        <5> QED
          BY <5>1
      <4> QED
        BY <4>1, <4>4, <4>5
    <3> QED
      BY <2>2, <3>2 DEF ReqStep, AtList
  <2> QED
    BY <2>1, <2>2
(* The marks that others leave on a claim at its lock.                     *)
<1>6. ASSUME NEW q, q \in [Request -> Requests], NEW S \in SUBSET Job, Shift(q, S),
             \A h \in Request : Listed(q[h]), q[g] = req[g] \/ q[g] = IdleReq
      PROVE  ReqStep(g)
  <2>1. /\ req'[g].at = q[g].at /\ SameTurn(q[g], req'[g]) /\ SameList(q[g], req'[g])
        /\ req'[g].busy = q[g].busy
    BY <1>6, ShiftListed, ShiftKeepsLists
  <2>2. q[g].at \in {"idle", "none", "gone"} \cup OnItsWay
    BY <1>6 DEF Requests
  <2>3. CASE q[g] = req[g]
    BY <2>1, <2>2, <2>3 DEF ReqStep, AtList, OnItsWay
  <2>4. CASE q[g] = IdleReq
    BY <2>1, <2>4 DEF ReqStep, AtList, IdleReq
  <2> QED
    BY <1>6, <2>3, <2>4
<1>7. ASSUME NEW h \in Request, LiftPassedOver(h)  PROVE ReqStep(g)
  <2>1. PICK S \in SUBSET Job : Shift([req EXCEPT ![h] = IdleReq], S)
    <3>1. req[h].passed \in SUBSET Job
      BY <1>1 DEF Requests
    <3> QED
      BY <1>7, <3>1 DEF LiftPassedOver
  <2> DEFINE q == [req EXCEPT ![h] = IdleReq]
  <2>2. /\ q \in [Request -> Requests] /\ \A i \in Request : Listed(q[i])
        /\ q[g] = req[g] \/ q[g] = IdleReq
    BY <1>1, IdleListed DEF TypeInv, Listed
  <2> HIDE DEF q
  <2>3. Shift(q, S)
    BY <2>1 DEF q
  <2> QED
    BY <1>6, <2>2, <2>3
<1>8. ASSUME NEW j \in Job, Unsettle(j)  PROVE ReqStep(g)
  <2>1. Shift(req, {j}) /\ {j} \in SUBSET Job /\ req \in [Request -> Requests]
    BY <1>8 DEF Unsettle, TypeInv
  <2> QED
    BY <1>1, <1>6, <2>1
<1>9. ASSUME NEW a \in Admin, AllocWrite(a)  PROVE ReqStep(g)
  <2>1. PICK S \in SUBSET Job : Shift(req, S)
    BY <1>9, MovedByChange
  <2>2. req \in [Request -> Requests]
    BY DEF TypeInv
  <2> QED
    BY <1>1, <1>6, <2>1, <2>2
<1>10. ASSUME UNCHANGED req  PROVE ReqStep(g)
  BY <1>2, <1>10
<1>11. CASE Tick \/ UNCHANGED vars
  BY <1>10, <1>11 DEF Tick, vars
<1>12. ASSUME NEW j \in Job, Gap(j) \/ GapEnds(j)  PROVE ReqStep(g)
  BY <1>10, <1>12 DEF Gap, GapEnds
<1>13. ASSUME NEW a \in Admin, NEW rows \in Change, AllocRows(a, rows)
       PROVE  ReqStep(g)
  BY <1>10, <1>13 DEF AllocRows
<1>14. ASSUME NEW a \in Admin, AllocCheck(a)  PROVE ReqStep(g)
  BY <1>10, <1>14 DEF AllocCheck
<1> QED
  BY <1>4, <1>5, <1>7, <1>8, <1>9, <1>11, <1>12, <1>13, <1>14 DEF Next

-----------------------------------------------------------------------------
(* Joins: a newcomer is served                                             *)

LEMMA RatioSteps ==
  ASSUME NEW alloc, Fits(alloc)
  PROVE  /\ \A n \in Int : /\ Ratio(n, alloc) \in Int
                           /\ Ratio(n + 1, alloc) = Ratio(n, alloc) + Ratio(1, alloc)
                           /\ Ratio(n - 1, alloc) = Ratio(n, alloc) - Ratio(1, alloc)
         /\ \A m, n \in Int : m <= n => Ratio(m, alloc) <= Ratio(n, alloc)
         /\ Ratio(0, alloc) = 0 /\ Ratio(1, alloc) \in Nat \ {0}
<1> DEFINE u == Ratio(1, alloc)
<1>1. u \in Nat \ {0} /\ \A n \in Int : Ratio(n, alloc) = n * u
  BY UnitIs
<1> HIDE DEF u
<1>2. \A n \in Int : n * u \in Int /\ (n + 1) * u = n * u + u /\ (n - 1) * u = n * u - u
  BY <1>1
<1>3. \A m, n \in Int : m <= n => m * u <= n * u
  BY <1>1
<1>4. \A n \in Int : n + 1 \in Int /\ n - 1 \in Int
  OBVIOUS
<1>5. 0 * u = 0
  BY <1>1
<1>6. \A n \in Int : /\ Ratio(n, alloc) \in Int /\ Ratio(n + 1, alloc) = Ratio(n, alloc) + u
                    /\ Ratio(n - 1, alloc) = Ratio(n, alloc) - u
  <2> SUFFICES ASSUME NEW n \in Int
               PROVE  /\ Ratio(n, alloc) \in Int /\ Ratio(n + 1, alloc) = Ratio(n, alloc) + u
                      /\ Ratio(n - 1, alloc) = Ratio(n, alloc) - u
    OBVIOUS
  <2>1. /\ Ratio(n, alloc) = n * u /\ Ratio(n + 1, alloc) = (n + 1) * u
        /\ Ratio(n - 1, alloc) = (n - 1) * u
    BY <1>1, <1>4
  <2> QED
    BY <1>2, <2>1
<1>7. \A m, n \in Int : m <= n => Ratio(m, alloc) <= Ratio(n, alloc)
  <2> SUFFICES ASSUME NEW m \in Int, NEW n \in Int, m <= n
               PROVE  Ratio(m, alloc) <= Ratio(n, alloc)
    OBVIOUS
  <2>1. Ratio(m, alloc) = m * u /\ Ratio(n, alloc) = n * u
    BY <1>1
  <2> QED
    BY <1>3, <2>1
<1>8. Ratio(0, alloc) = 0
  BY <1>1, <1>5
<1> QED
  BY <1>1, <1>6, <1>7, <1>8 DEF u

(* A job that waits is behind those it joined by as many of their claims   *)
(* as it waited, and those are, but for the last, no more than its own one *)
(* is worth; for who has one of them locked and it for a rival, but for    *)
(* none.                                                                   *)
WaitsFor(k, o) ==
  First(k) /\ share[k] > 0 /\ o \in beside[k] =>
    /\ share[o] # 0
    /\ Ratio(standing[k], share[k]) + Ratio(waited[k][o], share[o]) <= Ratio(standing[o], share[o])
    /\ waited[k][o] # 0 => Ratio(waited[k][o] - 1, share[o]) <= Ratio(1, share[k])

WaitsAtLock(h, k) ==
  LET q == req[h]  j == Chosen(q)
  IN q.at = "locked" /\ k \in Rivals(q) /\ First(k) /\ share[k] > 0 /\ j \in beside[k] =>
       Ratio(waited[k][j], share[j]) <= Ratio(1, share[k])

JoinInv ==
  /\ \A k, o \in Job : WaitsFor(k, o)
  /\ \A h \in Request : \A k \in Job : WaitsAtLock(h, k)

LEMMA WaitsTypes ==
  ASSUME TypeInv, HistoryType, NEW k \in Job, NEW o \in Job, share[k] # 0, share[o] # 0
  PROVE  /\ Fits(share[k]) /\ Fits(share[o]) /\ waited[k][o] \in Nat
         /\ standing[k] \in Int /\ standing[o] \in Int /\ share[k] > 0 /\ share[o] > 0
BY DEF TypeInv, HistoryType, Counts, Fits

LEMMA WaitsForStep ==
  ASSUME TypeInv, AdmInv, HistoryType, JoinInv, HistoryType', TypeInv', [Next]_vars,
         NEW k \in Job, NEW o \in Job
  PROVE  WaitsFor(k, o)'
<1> SUFFICES ASSUME First(k)', share'[k] > 0, o \in beside'[k]
             PROVE  /\ share'[o] # 0
                    /\ Ratio(standing'[k], share'[k]) + Ratio(waited'[k][o], share'[o])
                         <= Ratio(standing'[o], share'[o])
                    /\ waited'[k][o] # 0 => Ratio(waited'[k][o] - 1, share'[o]) <= Ratio(1, share'[k])
  BY DEF WaitsFor
<1>1. CASE JoinFresh(k, o)
  <2>1. share'[o] # 0 /\ waited'[k][o] = 0
        /\ Ratio(standing'[k], share'[k]) <= Ratio(standing'[o], share'[o])
    BY <1>1 DEF JoinFresh
  <2>2. /\ Fits(share'[k]) /\ Fits(share'[o])
        /\ standing'[k] \in Int /\ standing'[o] \in Int
    <3>1. share'[k] # 0
      OBVIOUS
    <3>2. \A j \in Job : share'[j] # 0 => Fits(share'[j])
      BY DEF HistoryType
    <3>3. standing' \in [Job -> Int]
      BY DEF TypeInv, Counts
    <3> QED
      BY <2>1, <3>1, <3>2, <3>3
  <2>3. /\ Ratio(standing'[k], share'[k]) \in Int /\ Ratio(standing'[o], share'[o]) \in Int
        /\ Ratio(0, share'[o]) = 0
    BY <2>2, RatioSteps
  <2> DEFINE x == Ratio(standing'[k], share'[k])
             y == Ratio(standing'[o], share'[o])
  <2>4. x + 0 <= y
    <3>1. x \in Int /\ y \in Int /\ x <= y
      BY <2>1, <2>3
    <3> HIDE DEF x, y
    <3> QED
      BY <3>1
  <2> QED
    BY <2>1, <2>3, <2>4
<1>2. CASE JoinKept(k, o)
  <2>1. /\ share'[k] = share[k] /\ share'[o] = share[o] /\ standing'[k] = standing[k]
        /\ First(k) /\ o \in beside[k] /\ share[k] > 0
    BY <1>2 DEF JoinKept
  <2> DEFINE x == Ratio(standing[k], share[k])
             y == Ratio(standing[o], share[o])
             z == Ratio(standing'[o], share[o])
             u == Ratio(1, share[o])
             v == Ratio(1, share[k])
             n == waited[k][o]
             w == Ratio(n, share[o])
  <2>2. share[o] # 0 /\ x + w <= y /\ (n # 0 => Ratio(n - 1, share[o]) <= v)
    BY <2>1 DEF JoinInv, WaitsFor
  <2>3. Fits(share[k]) /\ Fits(share[o]) /\ n \in Nat /\ standing[k] \in Int /\ standing[o] \in Int
    BY <2>1, <2>2, WaitsTypes
  <2>4. standing'[o] \in Int
    BY DEF TypeInv, Counts
  <2>5. /\ x \in Int /\ y \in Int /\ z \in Int /\ u \in Int /\ v \in Int /\ w \in Int
        /\ Ratio(standing[o] + 1, share[o]) = y + u
        /\ Ratio(n + 1, share[o]) = w + u
        /\ standing[o] <= standing'[o] => y <= z
        /\ standing[o] + 1 <= standing'[o] => y + u <= z
    <3>1. n \in Int /\ 1 \in Int /\ standing[o] + 1 \in Int
      BY <2>3
    <3>2. \A i \in Int : Ratio(i, share[o]) \in Int /\ Ratio(i + 1, share[o]) = Ratio(i, share[o]) + u
      BY <2>3, RatioSteps
    <3>3. \A i, m \in Int : i <= m => Ratio(i, share[o]) <= Ratio(m, share[o])
      BY <2>3, RatioSteps
    <3>4. \A i \in Int : Ratio(i, share[k]) \in Int
      BY <2>3, RatioSteps
    <3>5. Ratio(standing[o] + 1, share[o]) = y + u /\ Ratio(n + 1, share[o]) = w + u
      BY <2>3, <3>1, <3>2
    <3>6. standing[o] + 1 <= standing'[o] => Ratio(standing[o] + 1, share[o]) <= z
      BY <2>4, <3>1, <3>3
    <3> QED
      BY <2>3, <2>4, <3>1, <3>2, <3>3, <3>4, <3>5, <3>6
  <2>6. CASE waited'[k][o] = n /\ standing[o] <= standing'[o]
    <3>1. x + w <= z
      <4> HIDE DEF x, y, z, u, v, w, n
      <4> QED
        BY <2>2, <2>5, <2>6
    <3> QED
      BY <2>1, <2>2, <2>6, <3>1
  <2>7. CASE /\ waited'[k][o] = n + 1 /\ standing[o] + 1 <= standing'[o]
             /\ \E h \in Request : req[h].at = "locked" /\ o = Chosen(req[h]) /\ k \in Rivals(req[h])
    <3>1. x + (w + u) <= z
      <4> HIDE DEF x, y, z, u, v, w, n
      <4> QED
        BY <2>2, <2>5, <2>7
    <3>2. w <= v
      BY <2>1, <2>7 DEF JoinInv, WaitsAtLock
    <3>3. (n + 1) - 1 = n
      BY <2>3
    <3> HIDE DEF x, y, z, u, v, n
    <3> QED
      BY <2>1, <2>2, <2>5, <2>7, <3>1, <3>2, <3>3 DEF x, z, v
  <2> QED
    BY <1>2, <2>6, <2>7 DEF JoinKept
<1> QED
  BY <1>1, <1>2, JoinSteps

LEMMA WaitsAtLockStep ==
  ASSUME TypeInv, AdmInv, TurnInv, HistoryType, JoinInv, HistoryType', TypeInv', [Next]_vars,
         NEW h \in Request, NEW k \in Job
  PROVE  WaitsAtLock(h, k)'
<1> DEFINE q == req[h]
           r == req'[h]
           j == Chosen(q)
<1> SUFFICES ASSUME r.at = "locked", k \in Rivals(r), First(k)', share'[k] > 0,
                    Chosen(r) \in beside'[k]
             PROVE  Ratio(waited'[k][Chosen(r)], share'[Chosen(r)]) <= Ratio(1, share'[k])
  BY DEF WaitsAtLock
<1>1. /\ SameTurn(q, r) /\ q.at \in AtList
      /\ q.at = "locked" \/ TakesTurn(h)
  BY ReqSteps DEF ReqStep, AtList
<1>2. Chosen(r) = j /\ Rivals(r) = Rivals(q)
  BY <1>1 DEF SameTurn, Chosen, Rivals
<1>3. j \in Job
  BY <1>1, ChosenType DEF TypeInv, AtList, OnItsWay
<1> HIDE DEF q, r
<1>4. j \in beside'[k] /\ k \in Rivals(q)
  BY <1>2
<1> HIDE DEF j
<1>5. SUFFICES Ratio(waited'[k][j], share'[j]) <= Ratio(1, share'[k])
  BY <1>2
<1>6. CASE JoinFresh(k, j)
  <2>1. Fits(share'[k]) /\ Fits(share'[j])
    <3>1. share'[k] # 0 /\ share'[j] # 0
      BY <1>6 DEF JoinFresh
    <3>2. \A i \in Job : share'[i] # 0 => Fits(share'[i])
      BY DEF HistoryType
    <3> QED
      BY <1>3, <3>1, <3>2
  <2>2. Ratio(0, share'[j]) = 0 /\ Ratio(1, share'[k]) \in Nat \ {0}
    BY <2>1, RatioSteps
  <2>3. 0 <= Ratio(1, share'[k])
    BY <2>2
  <2> QED
    BY <1>6, <2>2, <2>3 DEF JoinFresh
<1>7. CASE JoinKept(k, j)
  <2>1. /\ share'[k] = share[k] /\ share'[j] = share[j] /\ standing'[k] = standing[k]
        /\ First(k) /\ j \in beside[k] /\ share[k] > 0
    BY <1>7 DEF JoinKept
  <2>2. CASE q.at = "locked"
    <3>1. ASSUME NEW g \in Request, req[g].at = "locked", req'[g].at # "locked", j = Chosen(req[g])
          PROVE  FALSE
      <4>1. g # h
        BY <3>1 DEF r
      <4> QED
        BY <2>2, <3>1, <4>1 DEF TurnInv, OneAtTheLock, q, j
    <3>2. waited'[k][j] = waited[k][j]
      BY <1>7, <3>1 DEF JoinKept
    <3>3. Ratio(waited[k][j], share[j]) <= Ratio(1, share[k])
      BY <1>4, <2>1, <2>2 DEF JoinInv, WaitsAtLock, q, j
    <3> QED
      BY <2>1, <3>2, <3>3
  <2>3. CASE TakesTurn(h)
    <3> DEFINE x == Ratio(standing[k], share[k])
               y == Ratio(standing[j], share[j])
               v == Ratio(1, share[k])
               n == waited[k][j]
               w == Ratio(n, share[j])
    <3>1. share[j] # 0 /\ x + w <= y
      BY <1>3, <2>1 DEF JoinInv, WaitsFor
    <3>2. Fits(share[k]) /\ Fits(share[j]) /\ n \in Nat /\ standing[k] \in Int /\ standing[j] \in Int
      BY <1>3, <2>1, <3>1, WaitsTypes
    <3>3. /\ x \in Int /\ y \in Int /\ v \in Int /\ w \in Int
          /\ Ratio(standing[k] + 1, share[k]) = x + v
      <4>1. n \in Int /\ 1 \in Int
        BY <3>2
      <4>2. /\ \A i \in Int : Ratio(i, share[k]) \in Int
                              /\ Ratio(i + 1, share[k]) = Ratio(i, share[k]) + v
            /\ \A i \in Int : Ratio(i, share[j]) \in Int
        BY <3>2, RatioSteps
      <4> QED
        BY <3>2, <4>1, <4>2
    <3>4. ~(y > x + v)
      <4>1. ~(y > Ratio(standing[k] + 1, share[k]))
        BY <1>4, <2>1, <2>3 DEF TakesTurn, Outrun, q, j
      <4> QED
        BY <3>3, <4>1
    <3>5. w <= v
      <4> HIDE DEF x, y, v, w, n
      <4> QED
        BY <3>1, <3>3, <3>4
    <3>6. waited'[k][j] = n
      <4>1. standing'[j] = standing[j] /\ ~(standing[j] + 1 <= standing[j])
        BY <2>3, <3>2 DEF TakesTurn
      <4> QED
        BY <1>7, <4>1 DEF JoinKept
    <3> QED
      BY <2>1, <3>5, <3>6
  <2> QED
    BY <1>1, <2>2, <2>3
<1> QED
  BY <1>3, <1>4, <1>6, <1>7, JoinSteps

LEMMA JoinStep ==
  ASSUME TypeInv, AdmInv, TurnInv, HistoryType, JoinInv, TypeInv', HistoryType', [Next]_vars
  PROVE  JoinInv'
BY WaitsForStep, WaitsAtLockStep DEF JoinInv

(* Those claims, counted.                                                  *)
LEMMA WaitIsTurn ==
  ASSUME TypeInv, HistoryType, JoinInv  PROVE NewcomerServed
<1> SUFFICES ASSUME NEW k \in newcomer, First(k), share[k] > 0, NEW j \in beside[k]
             PROVE  waited[k][j] <= 1 + share[j] \div share[k]
  BY DEF NewcomerServed
<1>1. k \in Job /\ j \in Job
  BY DEF HistoryType
<1>2. /\ share[j] # 0
      /\ waited[k][j] # 0 => Ratio(waited[k][j] - 1, share[j]) <= Ratio(1, share[k])
  BY <1>1 DEF JoinInv, WaitsFor
<1>3. Fits(share[k]) /\ Fits(share[j]) /\ waited[k][j] \in Nat
  BY <1>1, <1>2, WaitsTypes
<1> DEFINE n == waited[k][j]
           a == share[j]
           b == share[k]
           u == Ratio(1, a)
           v == Ratio(1, b)
<1>4. /\ a \in Nat \ {0} /\ b \in Nat \ {0} /\ u \in Nat \ {0} /\ v \in Nat \ {0} /\ n \in Nat
      /\ a * u = b * v
  BY <1>3, UnitIs DEF Fits
<1>5. n # 0 => (n - 1) * u <= v
  <2>1. n - 1 \in Int
    BY <1>4
  <2>2. Ratio(n - 1, a) = (n - 1) * u
    BY <1>3, <2>1, UnitIs
  <2> QED
    BY <1>2, <2>2
<1> HIDE DEF n, a, b, u, v
<1>6. CASE n = 0
  <2>1. a \div b \in Nat
    BY <1>4, Quotient
  <2> QED
    BY <1>6, <2>1 DEF n, a, b
<1>7. CASE n # 0
  <2> DEFINE m == n - 1
  <2>1. m \in Nat /\ m * u <= v
    BY <1>4, <1>5, <1>7
  <2> HIDE DEF m
  <2>2. (m * u) * b <= v * b
    BY <1>4, <2>1
  <2>3. (m * b) * u <= a * u
    BY <1>4, <2>1, <2>2
  <2>4. m * b <= a
    <3>1. \A x, y \in Int : x * u <= y * u => x <= y
      BY <1>4
    <3>2. m * b \in Int /\ a \in Int
      BY <1>4, <2>1
    <3> QED
      BY <2>3, <3>1, <3>2
  <2>5. m <= a \div b
    <3>1. \A x \in Nat, y \in Nat \ {0} : x \div y \in Nat /\ x < ((x \div y) + 1) * y
      OBVIOUS
    <3> DEFINE d == a \div b
    <3>2. d \in Nat /\ a < (d + 1) * b
      BY <1>4, <3>1
    <3> HIDE DEF d
    <3>3. \A x, y \in Int : x * b < y * b => x < y
      BY <1>4
    <3>4. m * b < (d + 1) * b
      BY <1>4, <2>1, <2>4, <3>2
    <3>5. m < d + 1
      <4>1. m \in Int /\ d + 1 \in Int
        BY <2>1, <3>2
      <4> QED
        BY <3>3, <3>4, <4>1
    <3>6. m <= d
      BY <2>1, <3>2, <3>5
    <3> QED
      BY <3>6 DEF d
  <2>6. a \div b \in Nat
    BY <1>4, Quotient
  <2>7. n = m + 1
    BY <1>4 DEF m
  <2> DEFINE d == a \div b
  <2> HIDE DEF d
  <2>8. n <= 1 + d
    BY <2>1, <2>5, <2>6, <2>7 DEF d
  <2> QED
    BY <2>8 DEF n, a, b, d
<1> QED
  BY <1>6, <1>7

-----------------------------------------------------------------------------
(* Joins: no takeover                                                      *)

(* A streak ends, or nothing that bears on it but its own job goes on.     *)
StreakKept(g, k) ==
  \/ streak'[g][k] = 0
  \/ /\ streak'[g][k] = streak[g][k] /\ share' = share /\ standing[k] <= standing'[k]
     /\ \A o \in (Active(share) \cap CanRun[g]) \ {k} : standing'[o] = standing[o]

(* It goes on with a claim at a join, with nothing passed over and rivals. *)
StreakGrows(g, k) ==
  LET q == req[g]
  IN /\ IssueClaim(g) /\ k = Chosen(q) /\ Levelled(k) /\ q.passed = {} /\ Rivals(q) # {}
     /\ streak'[g][k] = streak[g][k] + 1

LEMMA StreakSteps ==
  ASSUME TypeInv, AdmInv, HistoryType, [Next]_vars
  PROVE  /\ recent \subseteq recent'
         /\ \A g \in Request : \A k \in Job : StreakKept(g, k) \/ StreakGrows(g, k)
<1> DEFINE Ok == /\ recent \subseteq recent'
                 /\ \A g \in Request : \A k \in Job : StreakKept(g, k) \/ StreakGrows(g, k)
<1> SUFFICES Ok
  OBVIOUS
<1>0. \A j \in Job : standing[j] \in Int
  BY DEF TypeInv, Counts
<1>1. ASSUME UNCHANGED <<share, standing, streak>>, recent \subseteq recent'  PROVE Ok
  BY <1>0, <1>1 DEF StreakKept
<1>2. ASSUME NEW h \in Request,
             \/ ClaimStart(h) \/ ShutdownOrIdle(h) \/ Skip(h) \/ PassOver(h) \/ FindBusy(h)
             \/ TakeTurn(h)
      PROVE  Ok
  BY <1>1, <1>2 DEF ClaimStart, ShutdownOrIdle, Skip, PassOver, FindBusy, TakeTurn, jobsRest,
                    others, history
<1>3. ASSUME NEW h \in Request, IssueClaim(h)  PROVE Ok
  <2> DEFINE q == req[h]
             j == Chosen(q)
             U == Unbroken({j})
             Grows == Levelled(j) /\ q.passed = {} /\ Rivals(q) # {}
             n == IF Grows THEN U[h][j] + 1 ELSE 0
  <2>1. /\ j \in Job /\ share' = share /\ \A i \in Job \ {j} : standing'[i] = standing[i]
    BY <1>3, IssueMoves
  <2>2. streak' = [U EXCEPT ![h][j] = n] /\ recent' = recent
    BY <1>3 DEF IssueClaim, others
  <2>3. /\ U \in [Request -> [Job -> Nat]]
        /\ \A g \in Request : \A k \in Job :
             U[g][k] = IF CanRun[g] \cap {j} \subseteq {k} THEN streak[g][k] ELSE 0
    BY UnbrokenIs
  <2>4. standing[j] <= standing'[j]
    BY <1>3, IssueMoves
  <2>5. IssueClaim(h) /\ j = Chosen(req[h])
    BY <1>3
  <2>6. Grows => Levelled(j) /\ req[h].passed = {} /\ Rivals(req[h]) # {}
    OBVIOUS
  <2> HIDE DEF q, j, U, n, Grows
  <2>7. streak'[h][j] = n /\ \A g \in Request : \A k \in Job : g # h \/ k # j => streak'[g][k] = U[g][k]
    BY <2>1, <2>2, <2>3
  <2>8. ASSUME NEW g \in Request, NEW k \in Job  PROVE StreakKept(g, k) \/ StreakGrows(g, k)
    <3>1. CASE g = h /\ k = j
      <4>1. U[h][j] = streak[h][j]
        BY <2>1, <2>3
      <4>2. CASE Grows
        BY <2>5, <2>6, <2>7, <3>1, <4>1, <4>2 DEF StreakGrows, n
      <4>3. CASE ~Grows
        BY <2>7, <3>1, <4>3 DEF StreakKept, n
      <4> QED
        BY <4>2, <4>3
    <3>2. CASE ~(g = h /\ k = j)
      <4>1. streak'[g][k] = U[g][k]
        BY <2>7, <3>2
      <4>2. CASE CanRun[g] \cap {j} \subseteq {k}
        <5>1. streak'[g][k] = streak[g][k]
          BY <2>3, <4>1, <4>2
        <5>2. standing[k] <= standing'[k]
          BY <1>0, <2>1, <2>4
        <5>3. \A o \in (Active(share) \cap CanRun[g]) \ {k} : standing'[o] = standing[o]
          BY <2>1, <4>2 DEF Active
        <5> QED
          BY <2>1, <5>1, <5>2, <5>3 DEF StreakKept
      <4>3. CASE ~(CanRun[g] \cap {j} \subseteq {k})
        BY <2>3, <4>1, <4>3 DEF StreakKept
      <4> QED
        BY <4>2, <4>3
    <3> QED
      BY <3>1, <3>2
  <2> QED
    BY <2>2, <2>8
(* What moves other jobs than claims ends the streaks beside them.         *)
<1>4. ASSUME NEW S, streak' = Unbroken(S), share' = share, recent' = recent,
             \A i \in Job : standing[i] <= standing'[i] /\ (i \notin S => standing'[i] = standing[i])
      PROVE  Ok
  <2>1. ASSUME NEW g \in Request, NEW k \in Job  PROVE StreakKept(g, k)
    <3>1. streak'[g][k] = IF CanRun[g] \cap S \subseteq {k} THEN streak[g][k] ELSE 0
      BY <1>4, UnbrokenIs
    <3>2. CASE CanRun[g] \cap S \subseteq {k}
      BY <1>4, <3>1, <3>2 DEF StreakKept, Active
    <3> QED
      BY <3>1, <3>2 DEF StreakKept
  <2> QED
    BY <1>4, <2>1
<1>5. ASSUME NEW h \in Request, LiftPassedOver(h)  PROVE Ok
  <2> DEFINE p == req[h]
             pace == p.ratio[Chosen(p)]
  <2>1. PICK S : S = {j \in p.passed : /\ share[j] > 0 /\ RowFree(j)
                                       /\ standing[j] < At(pace, share[j])}
    OBVIOUS
  <2>2. /\ standing' = [j \in Job |-> IF j \in S THEN At(pace, share[j]) ELSE standing[j]]
        /\ streak' = Unbroken(S) /\ share' = share /\ recent' = recent
    BY <1>5, <2>1 DEF LiftPassedOver, others
  <2>3. pace \in Int
    BY <1>5, ChosenType DEF LiftPassedOver, TypeInv, OnItsWay
  <2> HIDE DEF pace, p
  <2>4. ASSUME NEW i \in Job
        PROVE  standing[i] <= standing'[i] /\ (i \notin S => standing'[i] = standing[i])
    <3>1. CASE i \in S
      <4>1. standing'[i] = At(pace, share[i]) /\ standing[i] < At(pace, share[i])
        BY <2>1, <2>2, <3>1
      <4>2. At(pace, share[i]) \in Int
        <5>1. share[i] \in Nat
          BY SizesAssumption DEF TypeInv, Shares
        <5> QED
          BY <2>3, <5>1, AtType
      <4> QED
        BY <1>0, <3>1, <4>1, <4>2
    <3>2. CASE i \notin S
      BY <1>0, <2>2, <3>2
    <3> QED
      BY <3>1, <3>2
  <2> QED
    BY <1>4, <2>2, <2>4
<1>6. ASSUME NEW j \in Job, Gap(j) \/ GapEnds(j)  PROVE Ok
  BY <1>1, <1>6 DEF Gap, GapEnds, history
<1>7. ASSUME NEW j \in Job, Unsettle(j)  PROVE Ok
  <2>1. PICK m : standing' = [standing EXCEPT ![j] = m]
    BY <1>7 DEF Unsettle
  <2>2. /\ streak' = [h \in Request |-> [Unbroken({j})[h] EXCEPT ![j] = 0]]
        /\ share' = share /\ recent' = recent
    BY <1>7 DEF Unsettle
  <2>3. \A i \in Job \ {j} : standing'[i] = standing[i]
    BY <2>1 DEF TypeInv, Counts
  <2>4. ASSUME NEW g \in Request, NEW k \in Job  PROVE StreakKept(g, k)
    <3>1. CASE k = j
      <4>1. Unbroken({j}) \in [Request -> [Job -> Nat]]
        BY UnbrokenIs
      <4>2. streak'[g][k] = 0
        BY <2>2, <3>1, <4>1
      <4> QED
        BY <4>2 DEF StreakKept
    <3>2. CASE k # j
      <4>1. streak'[g][k] = IF CanRun[g] \cap {j} \subseteq {k} THEN streak[g][k] ELSE 0
        BY <2>2, <3>2, UnbrokenIs
      <4>2. CASE CanRun[g] \cap {j} \subseteq {k}
        BY <1>0, <2>2, <2>3, <3>2, <4>1, <4>2 DEF StreakKept, Active
      <4> QED
        BY <4>1, <4>2 DEF StreakKept
    <3> QED
      BY <3>1, <3>2
  <2> QED
    BY <2>2, <2>4
<1>8. CASE Tick
  BY <1>1, <1>8 DEF Tick, jobsRest, history
<1>9. ASSUME NEW a \in Admin, NEW rows \in Change, AllocRows(a, rows)  PROVE Ok
  BY <1>1, <1>9 DEF AllocRows, admRest, history
<1>10. ASSUME NEW a \in Admin, AllocCheck(a)  PROVE Ok
  BY <1>1, <1>10 DEF AllocCheck, admRest, history
<1>11. ASSUME NEW a \in Admin, AllocWrite(a)  PROVE Ok
  <2>1. PICK rows \in Change, S \in SUBSET Job :
           /\ share' = Applied(rows).share /\ standing' = Applied(rows).standing
           /\ AppliedSoFar(rows, DOMAIN rows, Applied(rows))
           /\ \A j \in Job \ S : share'[j] = share[j] /\ standing'[j] = standing[j]
           /\ recent' = recent
           /\ streak' = IF S = {} THEN streak ELSE [h \in Request |-> NoneYet]
    BY <1>11, MovedByChange
  <2>2. CASE S = {}
    <3>1. share' \in Shares /\ standing' \in Counts /\ share \in Shares /\ standing \in Counts
      BY <2>1 DEF AppliedSoFar, TypeInv
    <3>2. share' = share /\ standing' = standing
      BY <2>1, <2>2, <3>1 DEF Shares, Counts
    <3> QED
      BY <1>1, <2>1, <2>2, <3>2
  <2>3. CASE S # {}
    BY <2>1, <2>3 DEF StreakKept, NoneYet
  <2> QED
    BY <2>2, <2>3
<1>12. CASE UNCHANGED vars
  BY <1>1, <1>12 DEF vars
<1> HIDE DEF Ok
<1> QED
  BY <1>2, <1>3, <1>5, <1>6, <1>7, <1>8, <1>9, <1>10, <1>11, <1>12 DEF Next

(* What a job found busy of late is forgiven.                              *)
Forgiven(k) == IF k \in recent THEN Scale ELSE 0

LEMMA SlackIs ==
  ASSUME TypeInv, HistoryType, NEW k \in Job
  PROVE  /\ Forgiven(k) \in Nat
         /\ \A o \in Active(share) :
              /\ Slack(k) \in Nat
              /\ 2 * Ratio(1, share[o]) + Forgiven(k) <= Slack(k)
              /\ o # k /\ o \in recent => Ratio(1, share[o]) + Forgiven(k) + Scale <= Slack(k)
<1> DEFINE S == {share[i] : i \in Active(share)}
           m == Ratio(1, Least(S))
           b == IF recent \ {k} # {} THEN Scale ELSE 0
           f == Forgiven(k)
<1>1. f \in Nat /\ b \in Nat /\ Scale \in Nat
  BY SizesAssumption DEF Forgiven
<1>2. Slack(k) = 2 * m + f + b
  BY DEF Slack, Forgiven
<1>3. ASSUME NEW o \in Active(share)
      PROVE  /\ Slack(k) \in Nat
             /\ 2 * Ratio(1, share[o]) + f <= Slack(k)
             /\ o # k /\ o \in recent => Ratio(1, share[o]) + f + Scale <= Slack(k)
  <2>1. \A n \in S : Fits(n) /\ n \in Int
    BY DEF Active, HistoryType, Fits
  <2>2. IsFiniteSet(S)
    <3> DEFINE g == [i \in Active(share) |-> share[i]]
    <3>1. IsFiniteSet(Active(share))
      BY FS_Subset, SizesAssumption DEF Active
    <3>2. g \in Surjection(Active(share), S)
      BY DEF Surjection
    <3> QED
      BY <3>1, <3>2, FS_Surjection
  <2>3. share[o] \in S
    OBVIOUS
  <2> HIDE DEF S
  <2>4. Least(S) \in S /\ \A n \in S : Least(S) <= n
    BY <2>1, <2>2, <2>3, LeastIn
  <2> DEFINE u == Ratio(1, share[o])
  <2>5. u \in Nat /\ m \in Nat /\ u <= m
    BY <2>1, <2>3, <2>4, UnitsFall, RatioSteps
  <2>6. o # k /\ o \in recent => b = Scale
    OBVIOUS
  <2> HIDE DEF u, m, b, f
  <2>7. Slack(k) \in Nat /\ 2 * u + f <= Slack(k)
    BY <1>1, <1>2, <2>5
  <2>8. o # k /\ o \in recent => u + f + Scale <= Slack(k)
    BY <1>1, <1>2, <2>5, <2>6
  <2> QED
    BY <2>7, <2>8 DEF u
<1> QED
  BY <1>1, <1>3

LEMMA SlackGrows ==
  ASSUME TypeInv, HistoryType, share' = share, recent \subseteq recent', NEW k \in Job, share[k] # 0
  PROVE  Slack(k) \in Int /\ Slack(k)' \in Int /\ Slack(k) <= Slack(k)'
         /\ Forgiven(k) <= Forgiven(k)' /\ Forgiven(k)' \in Nat
<1> DEFINE m == Ratio(1, Least({share[i] : i \in Active(share)}))
           b == IF recent \ {k} # {} THEN Scale ELSE 0
           c == IF recent' \ {k} # {} THEN Scale ELSE 0
<1>1. Slack(k) = 2 * m + Forgiven(k) + b /\ Slack(k)' = 2 * m + Forgiven(k)' + c
  BY DEF Slack, Forgiven, Active
<1>2. Scale \in Nat
  BY SizesAssumption
<1>3. /\ Forgiven(k) \in Nat /\ Forgiven(k)' \in Nat /\ b \in Nat /\ c \in Nat
      /\ Forgiven(k) <= Forgiven(k)' /\ b <= c
  BY <1>2 DEF Forgiven
<1>4. m \in Nat
  <2> DEFINE S == {share[i] : i \in Active(share)}
             g == [i \in Active(share) |-> share[i]]
  <2>1. (\A n \in S : Fits(n) /\ n \in Int) /\ share[k] \in S
    BY DEF Active, HistoryType, Fits, TypeInv
  <2>2. IsFiniteSet(Active(share)) /\ g \in Surjection(Active(share), S)
    BY FS_Subset, SizesAssumption DEF Active, Surjection
  <2>3. IsFiniteSet(S)
    BY <2>2, FS_Surjection
  <2> HIDE DEF S
  <2>4. Least(S) \in S
    BY <2>1, <2>3, LeastIn
  <2>5. Ratio(1, Least(S)) \in Nat
    BY <2>1, <2>4, RatioSteps
  <2> QED
    BY <2>5 DEF S
<1> HIDE DEF m, b, c
<1> QED
  BY <1>1, <1>3, <1>4

(* Jobs a request found busy were found busy.                              *)
BusyInv == \A h \in Request : req[h].busy \subseteq recent

(* A worker in a streak of a job's claims has read the other jobs as they  *)
(* are.                                                                    *)
CurrentFor(h, k) ==
  LET q == req[h]
  IN q.at \in AtList /\ streak[h][k] # 0 =>
       /\ ListOf(h, q)
       /\ \A o \in ToSet(q.list) \ {k} : q.ratio[o] = Ratio(standing[o], share[o])

(* From the second of its claims on it is past the pace that one read, and *)
(* further by a claim with each.                                           *)
PacedFor(h, k) ==
  share[k] > 0 /\ streak[h][k] >= 2 =>
    \E o \in (Active(share) \cap CanRun[h]) \ {k} :
      Ratio(standing[k] - (streak[h][k] - 2), share[k])
        > Ratio(standing[o], share[o]) - Ratio(1, share[o]) - Ratio(1, share[k]) - Forgiven(k)

(* With its turn at the lock, a streak may go on once more.                *)
TurnLeft(h) ==
  LET q == req[h]  k == Chosen(q)
  IN q.at = "locked" /\ q.passed = {} /\ Rivals(q) # {} /\ share[k] > 0 =>
       Ratio(streak[h][k] - 3, share[k]) < Slack(k)

StreakInv ==
  /\ BusyInv
  /\ \A h \in Request : TurnLeft(h) /\ \A k \in Job : CurrentFor(h, k) /\ PacedFor(h, k)
  /\ NoTakeover

LEMMA BusyStep ==
  ASSUME TypeInv, AdmInv, HistoryType, BusyInv, [Next]_vars  PROVE BusyInv'
<1> SUFFICES ASSUME NEW h \in Request  PROVE req'[h].busy \subseteq recent'
  BY DEF BusyInv
<1> QED
  BY ReqSteps, StreakSteps DEF ReqStep, BusyInv

LEMMA ClaimLeaves ==
  ASSUME TypeInv, NEW h \in Request, IssueClaim(h)
  PROVE  /\ req'[h].at \notin AtList /\ UNCHANGED <<share, recent>>
         /\ req[h].at = "locked" /\ share[Chosen(req[h])] > 0
<1> DEFINE q == req[h]
<1>1. req' = [req EXCEPT ![h] = IdleReq] \/ req' = [req EXCEPT ![h] = [q EXCEPT !.at = "lift"]]
  BY DEF IssueClaim
<1>2. req \in [Request -> Requests]
  BY DEF TypeInv
<1>3. req'[h].at \in {"idle", "lift"}
  BY <1>1, <1>2 DEF IdleReq, Requests
<1> QED
  BY <1>3 DEF AtList, IssueClaim, others

LEMMA CurrentStep ==
  ASSUME TypeInv, AdmInv, HistoryType, StreakInv, [Next]_vars, NEW h \in Request, NEW k \in Job
  PROVE  CurrentFor(h, k)'
<1> DEFINE q == req[h]
           r == req'[h]
<1> SUFFICES ASSUME r.at \in AtList, streak'[h][k] # 0
             PROVE  /\ ListOf(h, req[h])'
                    /\ \A o \in ToSet(r.list) \ {k} : r.ratio[o] = Ratio(standing'[o], share'[o])
  BY DEF CurrentFor, ListOf
<1>1. CASE StreakGrows(h, k)
  BY <1>1, ClaimLeaves DEF StreakGrows
<1>2. CASE StreakKept(h, k)
  <2>1. /\ streak[h][k] # 0 /\ share' = share
        /\ \A o \in (Active(share) \cap CanRun[h]) \ {k} : standing'[o] = standing[o]
    BY <1>2 DEF StreakKept
  <2>2. \/ FreshRead(h, r) /\ standing' = standing
        \/ q.at \in AtList /\ SameList(q, r)
    BY ReqSteps DEF ReqStep
  <2>3. SUFFICES /\ ListOf(h, r)
                 /\ \A o \in ToSet(r.list) \ {k} : r.ratio[o] = Ratio(standing[o], share[o])
    <3>1. ToSet(r.list) = Active(share) \cap CanRun[h]
      BY <2>3 DEF ListOf
    <3>2. ListOf(h, req[h])'
      BY <2>1, <2>3 DEF ListOf, Active
    <3> QED
      BY <2>1, <2>3, <3>1, <3>2
  <2>4. CASE FreshRead(h, r)
    BY <2>4 DEF FreshRead
  <2>5. CASE q.at \in AtList /\ SameList(q, r)
    BY <2>1, <2>5 DEF StreakInv, CurrentFor, SameList, ListOf
  <2> QED
    BY <2>2, <2>4, <2>5
<1> QED
  BY <1>1, <1>2, StreakSteps

(* A list of more than one job has another to keep pace with, which is the *)
(* worker's to claim.                                                      *)
LEMMA PaceOf ==
  ASSUME TypeInv, NEW h \in Request, req[h].at = "locked", Rivals(req[h]) # {},
         ListOf(h, req[h])
  PROVE  LET q == req[h]  k == Chosen(q)
         IN \E o \in (Active(share) \cap CanRun[h]) \ {k} :
              Pace(q) = {q.ratio[o] - Ratio(1, share[o]) - Ratio(1, share[k]) - Forgiven(k)}
<1> DEFINE q == req[h]
           k == Chosen(q)
           m == IF q.i = 1 THEN 2 ELSE 1
           o == q.list[m]
<1>1. /\ q.list \in Seq(Job) /\ q.i \in 1..Len(q.list) /\ Len(q.list) \in Nat
      /\ k \in ToSet(q.list)
  <2>1. Listed(q) /\ q.at \in OnItsWay
    BY DEF TypeInv, OnItsWay
  <2> HIDE DEF q
  <2>2. k \in ToSet(q.list)
    BY <2>1, ChosenType
  <2>3. q.list \in Seq(Job) /\ q.i \in 1..Len(q.list)
    BY <2>1 DEF Listed, Requests
  <2> QED
    BY <2>2, <2>3
<1>2. DOMAIN q.list = 1..Len(q.list)
  BY <1>1
<1>3. Len(q.list) # 1
  <2> SUFFICES ASSUME Len(q.list) = 1  PROVE FALSE
    OBVIOUS
  <2>1. PICK p \in Rivals(q) : TRUE
    OBVIOUS
  <2>2. p \in ToSet(q.list) /\ p # k
    BY <2>1 DEF Rivals
  <2>3. q.i = 1 /\ \A x \in DOMAIN q.list : x = 1
    BY <1>1, <1>2
  <2> QED
    BY <2>2, <2>3 DEF ToSet, Chosen
<1>4. m \in 1..Len(q.list) /\ m # q.i
  <2>1. \A len \in Nat : \A i \in 1..len :
          len # 1 => (IF i = 1 THEN 2 ELSE 1) \in 1..len /\ (IF i = 1 THEN 2 ELSE 1) # i
    OBVIOUS
  <2> QED
    BY <1>1, <1>3, <2>1
<1>5. o # k
  BY <1>1, <1>2, <1>4 DEF ListOf, Chosen
<1>6. o \in ToSet(q.list) /\ q.alloc[o] = share[o] /\ q.alloc[k] = share[k]
      /\ ToSet(q.list) = Active(share) \cap CanRun[h]
  BY <1>1, <1>2, <1>4 DEF ListOf, ToSet
<1>7. Pace(q) = {q.ratio[o] - Ratio(1, q.alloc[o]) - Ratio(1, q.alloc[k]) - Forgiven(k)}
  BY <1>3 DEF Pace, Chosen, Forgiven
<1> QED
  BY <1>5, <1>6, <1>7

LEMMA PacedStep ==
  ASSUME TypeInv, AdmInv, HistoryType, StreakInv, TypeInv', HistoryType', [Next]_vars,
         NEW h \in Request, NEW k \in Job
  PROVE  PacedFor(h, k)'
<1> SUFFICES ASSUME share'[k] > 0, streak'[h][k] >= 2
             PROVE  \E o \in (Active(share') \cap CanRun[h]) \ {k} :
                      Ratio(standing'[k] - (streak'[h][k] - 2), share'[k])
                        > Ratio(standing'[o], share'[o]) - Ratio(1, share'[o])
                            - Ratio(1, share'[k]) - Forgiven(k)'
  BY DEF PacedFor, Active
<1> DEFINE q == req[h]
           n == streak[h][k]
           x == standing[k]
           y == standing'[k]
<1>1. StreakKept(h, k) \/ StreakGrows(h, k)
  BY StreakSteps
<1>2. /\ share' = share /\ x <= y
      /\ \/ streak'[h][k] = n
         \/ streak'[h][k] = n + 1 /\ x + 1 <= y /\ StreakGrows(h, k)
      /\ \A o \in (Active(share) \cap CanRun[h]) \ {k} : standing'[o] = standing[o]
  <2>1. CASE StreakKept(h, k)
    BY <2>1 DEF StreakKept
  <2>2. CASE StreakGrows(h, k)
    <3>1. IssueClaim(h) /\ k = Chosen(q) /\ streak'[h][k] = n + 1
      BY <2>2 DEF StreakGrows
    <3>2. share' = share /\ x <= y /\ \A o \in Job \ {k} : standing'[o] = standing[o]
      BY <3>1, IssueMoves
    <3>3. x + 1 <= y
      BY <3>1, ClaimAdds
    <3> QED
      BY <2>2, <3>1, <3>2, <3>3 DEF Active
  <2> QED
    BY <1>1, <2>1, <2>2
<1>3. /\ n \in Nat /\ x \in Int /\ y \in Int /\ share[k] # 0 /\ share[k] > 0
      /\ streak'[h][k] \in Nat
  BY <1>2 DEF TypeInv, HistoryType, Counts
<1>4. Fits(share[k])
  BY <1>3 DEF HistoryType
<1> DEFINE u == Ratio(1, share[k])
           f == Forgiven(k)
           g == Forgiven(k)'
<1>5. f \in Nat /\ g \in Nat /\ f <= g
  BY <1>2, <1>3, StreakSteps, SlackGrows, SlackIs
<1>6. ASSUME NEW o \in (Active(share) \cap CanRun[h]) \ {k}
      PROVE  Ratio(standing[o], share[o]) \in Int /\ Ratio(1, share[o]) \in Int /\ u \in Int
  <2>1. o \in Job /\ share[o] # 0
    BY DEF Active
  <2>2. Fits(share[o])
    BY <2>1 DEF HistoryType
  <2>3. standing[o] \in Int
    BY <2>1 DEF TypeInv, Counts
  <2>4. 1 \in Int
    OBVIOUS
  <2> QED
    BY <1>4, <2>2, <2>3, <2>4, RatioSteps
<1>7. SUFFICES \E o \in (Active(share) \cap CanRun[h]) \ {k} :
                 Ratio(y - (streak'[h][k] - 2), share[k])
                   > Ratio(standing[o], share[o]) - Ratio(1, share[o]) - u - f
  <2>1. PICK o \in (Active(share) \cap CanRun[h]) \ {k} :
               Ratio(y - (streak'[h][k] - 2), share[k])
                 > Ratio(standing[o], share[o]) - Ratio(1, share[o]) - u - f
    BY <1>7
  <2> DEFINE z == Ratio(y - (streak'[h][k] - 2), share[k])
             v == Ratio(standing[o], share[o])
             w == Ratio(1, share[o])
  <2>2. z \in Int
    <3>1. y - (streak'[h][k] - 2) \in Int
      BY <1>3
    <3> QED
      BY <1>4, <3>1, RatioSteps
  <2>3. v \in Int /\ w \in Int /\ u \in Int
    BY <1>6
  <2>4. z > v - w - u - g
    <3>1. z > v - w - u - f
      BY <2>1
    <3> HIDE DEF z, v, w, u, f, g
    <3> QED
      BY <1>5, <2>2, <2>3, <3>1
  <2>5. standing'[o] = standing[o] /\ share' = share
    BY <1>2
  <2> QED
    BY <2>4, <2>5
<1>8. CASE n >= 2
  <2>1. PICK o \in (Active(share) \cap CanRun[h]) \ {k} :
               Ratio(x - (n - 2), share[k])
                 > Ratio(standing[o], share[o]) - Ratio(1, share[o]) - u - f
    BY <1>3, <1>8 DEF StreakInv, PacedFor
  <2> DEFINE a == Ratio(x - (n - 2), share[k])
             b == Ratio(y - (streak'[h][k] - 2), share[k])
             v == Ratio(standing[o], share[o])
             w == Ratio(1, share[o])
  <2>2. a \in Int /\ b \in Int /\ a <= b
    <3>1. /\ x - (n - 2) \in Int /\ y - (streak'[h][k] - 2) \in Int
          /\ x - (n - 2) <= y - (streak'[h][k] - 2)
      BY <1>2, <1>3
    <3> QED
      BY <1>4, <3>1, RatioSteps
  <2>3. v \in Int /\ w \in Int /\ u \in Int
    BY <1>6
  <2>4. b > v - w - u - f
    <3>1. a > v - w - u - f
      BY <2>1
    <3> HIDE DEF a, b, v, w, u, f
    <3> QED
      BY <1>5, <2>2, <2>3, <3>1
  <2> QED
    BY <2>4
<1>9. CASE n < 2
  <2>1. n = 1 /\ streak'[h][k] = 2 /\ StreakGrows(h, k)
    BY <1>2, <1>3, <1>9
  <2>2. /\ IssueClaim(h) /\ k = Chosen(q) /\ Levelled(k) /\ Rivals(q) # {} /\ q.at = "locked"
    BY <2>1, ClaimLeaves DEF StreakGrows
  <2>3. /\ ListOf(h, q)
        /\ \A o \in ToSet(q.list) \ {k} : q.ratio[o] = Ratio(standing[o], share[o])
    BY <2>1, <2>2 DEF StreakInv, CurrentFor, AtList
  <2>4. PICK o \in (Active(share) \cap CanRun[h]) \ {k} :
          Pace(q) = {q.ratio[o] - Ratio(1, share[o]) - u - f}
    BY <2>2, <2>3, PaceOf
  <2> DEFINE r == Ratio(standing[o], share[o]) - Ratio(1, share[o]) - u - f
             d == At(r, share[k])
             l == Lifted(k, q)
  <2>5. Pace(q) = {r}
    BY <2>3, <2>4 DEF ListOf
  <2>6. r \in Int
    <3> DEFINE v == Ratio(standing[o], share[o])
               w == Ratio(1, share[o])
    <3>1. v \in Int /\ w \in Int /\ u \in Int
      BY <1>6
    <3>2. r = v - w - u - f
      OBVIOUS
    <3> HIDE DEF v, w, u, f, r
    <3> QED
      BY <1>5, <3>1, <3>2
  <2> HIDE DEF r
  <2>7. d \in Int /\ r < Ratio(d + 1, share[k])
    BY <1>4, <2>6, AtIs
  <2>8. l \in Int /\ d <= l
    <3>1. Listed(q) /\ q.at \in OnItsWay
      BY <2>2 DEF TypeInv, OnItsWay
    <3> HIDE DEF q
    <3> QED
      BY <2>2, <2>5, <3>1, LiftedUp
  <2>9. y = l + 1
    BY <2>2, ClaimAdds
  <2> HIDE DEF d, l, q
  <2>10. Ratio(d + 1, share[k]) <= Ratio(y, share[k]) /\ Ratio(d + 1, share[k]) \in Int
         /\ Ratio(y, share[k]) \in Int
    <3>1. d + 1 \in Int /\ d + 1 <= y
      BY <1>3, <2>7, <2>8, <2>9
    <3> QED
      BY <1>3, <1>4, <3>1, RatioSteps
  <2>11. Ratio(y, share[k]) > r
    BY <2>6, <2>7, <2>10
  <2>12. y - (streak'[h][k] - 2) = y
    BY <1>3, <2>1
  <2> QED
    BY <2>11, <2>12 DEF r
<1> QED
  BY <1>3, <1>8, <1>9

LEMMA SlackLeft ==
  ASSUME TypeInv, HistoryType, NEW k \in Job, share[k] # 0, NEW n \in Int, n <= 0
  PROVE  Ratio(n, share[k]) < Slack(k)
<1>1. Fits(share[k]) /\ k \in Active(share)
  BY DEF HistoryType, Active, TypeInv, Fits
<1>2. Ratio(1, share[k]) \in Nat \ {0} /\ Ratio(n, share[k]) \in Int /\ Ratio(n, share[k]) <= 0
  <2>1. \A m, i \in Int : m <= i => Ratio(m, share[k]) <= Ratio(i, share[k])
    BY <1>1, RatioSteps
  <2>2. Ratio(n, share[k]) <= Ratio(0, share[k])
    BY <2>1
  <2>3. Ratio(0, share[k]) = 0 /\ Ratio(n, share[k]) \in Int /\ Ratio(1, share[k]) \in Nat \ {0}
    BY <1>1, RatioSteps
  <2> QED
    BY <2>2, <2>3
<1>3. Slack(k) \in Nat /\ 2 * Ratio(1, share[k]) + Forgiven(k) <= Slack(k) /\ Forgiven(k) \in Nat
  BY <1>1, SlackIs
<1> DEFINE u == Ratio(1, share[k])
           v == Ratio(n, share[k])
           s == Slack(k)
           f == Forgiven(k)
<1> HIDE DEF u, v, s, f
<1>4. v < s
  BY <1>2, <1>3 DEF u, v, s, f
<1> QED
  BY <1>4 DEF v, s

LEMMA SlackLeftNext ==
  (\A k \in Job, n \in Int :
     TypeInv /\ HistoryType /\ share[k] # 0 /\ n <= 0 => Ratio(n, share[k]) < Slack(k))'
<1>1. \A k \in Job, n \in Int :
        TypeInv /\ HistoryType /\ share[k] # 0 /\ n <= 0 => Ratio(n, share[k]) < Slack(k)
  BY SlackLeft
<1> QED
  BY <1>1, PTL

(* Who gets its turn is not yet so far on.                                 *)
LEMMA TurnEndsStreak ==
  ASSUME TypeInv, HistoryType, StreakInv, NEW h \in Request, req[h].at \in AtList, TakesTurn(h),
         req[h].passed = {}, Rivals(req[h]) # {}, NEW k \in Job, k = Chosen(req[h])
  PROVE  Ratio(streak[h][k] - 3, share[k]) < Slack(k)
<1> DEFINE q == req[h]
           n == streak[h][k]
           x == standing[k]
<1>1. n \in Nat /\ x \in Int /\ share[k] # 0 /\ share[k] > 0 /\ Fits(share[k])
  BY DEF HistoryType, TypeInv, Counts, TakesTurn, Fits
<1>2. CASE n < 2
  <2>1. n - 3 \in Int /\ n - 3 <= 0
    BY <1>1, <1>2
  <2> QED
    BY <1>1, <2>1, SlackLeft
<1>3. CASE ~(n < 2)
  <2> DEFINE u == Ratio(1, share[k])
             f == Forgiven(k)
             s == Slack(k)
  <2>1. PICK o \in (Active(share) \cap CanRun[h]) \ {k} :
          Ratio(x - (n - 2), share[k])
            > Ratio(standing[o], share[o]) - Ratio(1, share[o]) - u - f
    BY <1>1, <1>3 DEF StreakInv, PacedFor
  <2> DEFINE v == Ratio(standing[o], share[o])
             w == Ratio(1, share[o])
             r == Ratio(x, share[k])
             t == Ratio(n - 3, share[k])
             z == Ratio(x - (n - 2), share[k])
  <2>2. o \in Job /\ share[o] # 0 /\ share[o] > 0 /\ Fits(share[o]) /\ standing[o] \in Int
    BY DEF Active, HistoryType, TypeInv, Counts, Fits
  <2>3. v \in Int /\ w \in Int /\ Ratio(standing[o] + 1, share[o]) = v + w
    <3>1. 1 \in Int
      OBVIOUS
    <3> QED
      BY <2>2, <3>1, RatioSteps
  <2>4. r \in Int /\ t \in Int /\ u \in Int /\ z = r - t - u /\ z \in Int
    <3>1. /\ u \in Nat \ {0} /\ \A i \in Int : Ratio(i, share[k]) = i * u
      BY <1>1, UnitIs
    <3>2. x - (n - 2) \in Int /\ n - 3 \in Int
      BY <1>1
    <3>3. r = x * u /\ t = (n - 3) * u /\ z = (x - (n - 2)) * u
      BY <1>1, <3>1, <3>2
    <3> HIDE DEF u, r, t, z
    <3>4. \A i, m \in Int : /\ i * u \in Int /\ (m - 3) * u \in Int
                            /\ (i - (m - 2)) * u = i * u - (m - 3) * u - u
      BY <3>1
    <3>5. x \in Int /\ n \in Int
      BY <1>1
    <3> HIDE DEF x, n
    <3>6. z = r - t - u /\ r \in Int /\ t \in Int
      BY <3>3, <3>4, <3>5
    <3> QED
      BY <3>1, <3>6
  <2>5. f \in Nat /\ s \in Nat /\ 2 * w + f <= s /\ (o \in recent => w + f + Scale <= s)
    BY SlackIs
  <2>6. o \in ToSet(q.list)
    BY <1>1, <1>3 DEF StreakInv, CurrentFor, ListOf
  <2>7. o \in Rivals(q) \/ o \in q.busy
    BY <2>6 DEF Rivals
  <2>8. CASE o \in Rivals(q)
    <3>1. ~(r > v + w)
      BY <2>2, <2>3, <2>8 DEF TakesTurn, Outrun
    <3> HIDE DEF r, v, w, u, f, s, t, z
    <3>2. r - t - u > v - w - u - f
      BY <2>1, <2>4 DEF z, v, w
    <3>3. t < s
      BY <2>3, <2>4, <2>5, <3>1, <3>2
    <3> QED
      BY <3>3 DEF t, s
  <2>9. CASE o \in q.busy
    <3>1. ~(r > v + Scale)
      BY <2>2, <2>9 DEF TakesTurn, Outrun
    <3>2. o \in recent /\ Scale \in Int
      BY <2>9, SizesAssumption DEF StreakInv, BusyInv
    <3> HIDE DEF r, v, w, u, f, s, t, z
    <3>3. r - t - u > v - w - u - f
      BY <2>1, <2>4 DEF z, v, w
    <3>4. t < s
      BY <2>3, <2>4, <2>5, <3>1, <3>2, <3>3
    <3> QED
      BY <3>4 DEF t, s
  <2> QED
    BY <2>7, <2>8, <2>9
<1> QED
  BY <1>2, <1>3

LEMMA TurnLeftStep ==
  ASSUME TypeInv, AdmInv, HistoryType, StreakInv, TypeInv', HistoryType', [Next]_vars,
         NEW h \in Request
  PROVE  TurnLeft(h)'
<1>1. PICK k : k = Chosen(req'[h])
  OBVIOUS
<1>2. SUFFICES ASSUME req'[h].at = "locked", req'[h].passed = {}, Rivals(req'[h]) # {}, share'[k] > 0
               PROVE  Ratio(streak'[h][k] - 3, share'[k]) < Slack(k)'
  BY <1>1 DEF TurnLeft, Slack, Active
<1> DEFINE q == req[h]
           r == req'[h]
<1>3. SameTurn(q, r) /\ q.at \in AtList /\ (q.at = "locked" \/ TakesTurn(h))
  BY <1>2, ReqSteps DEF ReqStep, AtList
<1>4. k = Chosen(q) /\ Rivals(q) # {} /\ q.passed = {}
  BY <1>1, <1>2, <1>3 DEF SameTurn, Chosen, Rivals
<1>5. k \in Job
  BY <1>3, <1>4, ChosenType DEF TypeInv, AtList, OnItsWay
<1>6. CASE StreakGrows(h, k)
  BY <1>2, <1>6, ClaimLeaves DEF StreakGrows, AtList
<1>7. CASE StreakKept(h, k)
  <2>1. CASE streak'[h][k] = 0
    <3>1. share'[k] # 0
      BY <1>2
    <3>2. 0 - 3 \in Int /\ 0 - 3 <= 0
      OBVIOUS
    <3>3. (Ratio(0 - 3, share[k]) < Slack(k))'
      BY <1>5, <3>1, <3>2, SlackLeftNext
    <3> QED
      BY <2>1, <3>3
  <2>2. CASE streak'[h][k] # 0
    <3>1. streak'[h][k] = streak[h][k] /\ share' = share /\ share[k] > 0 /\ share[k] # 0
      BY <1>2, <1>7, <2>2 DEF StreakKept
    <3>2. Ratio(streak[h][k] - 3, share[k]) < Slack(k)
      BY <1>3, <1>4, <1>5, <3>1, TurnEndsStreak DEF StreakInv, TurnLeft
    <3>3. Slack(k) \in Int /\ Slack(k)' \in Int /\ Slack(k) <= Slack(k)'
      BY <1>5, <3>1, StreakSteps, SlackGrows
    <3>4. Ratio(streak[h][k] - 3, share[k]) \in Int
      <4>1. Fits(share[k]) /\ streak[h][k] - 3 \in Int
        BY <1>5, <3>1 DEF HistoryType
      <4> QED
        BY <4>1, RatioSteps
    <3>5. Ratio(streak[h][k] - 3, share[k]) < Slack(k)'
      BY <3>2, <3>3, <3>4
    <3> QED
      BY <3>1, <3>5
  <2> QED
    BY <2>1, <2>2
<1> QED
  BY <1>5, <1>6, <1>7, StreakSteps

LEMMA TakeoverStep ==
  ASSUME TypeInv, AdmInv, HistoryType, StreakInv, TypeInv', HistoryType', [Next]_vars
  PROVE  NoTakeover'
<1> SUFFICES ASSUME NEW h \in Request, NEW k \in Job, share'[k] > 0
             PROVE  Ratio(streak'[h][k] - 4, share'[k]) < Slack(k)'
  BY DEF NoTakeover, Active
<1>1. CASE streak'[h][k] = 0
  <2>1. share'[k] # 0
    OBVIOUS
  <2>2. 0 - 4 \in Int /\ 0 - 4 <= 0
    OBVIOUS
  <2>3. (Ratio(0 - 4, share[k]) < Slack(k))'
    BY <2>1, <2>2, SlackLeftNext
  <2> QED
    BY <1>1, <2>3
<1>2. CASE streak'[h][k] # 0
  <2>1. share' = share /\ share[k] > 0 /\ share[k] # 0
    BY <1>2, StreakSteps, ClaimLeaves DEF StreakKept, StreakGrows
  <2>2. Ratio(streak'[h][k] - 4, share[k]) < Slack(k)
    <3>1. CASE StreakKept(h, k)
      BY <1>2, <2>1, <3>1 DEF StreakKept, StreakInv, NoTakeover, Active
    <3>2. CASE StreakGrows(h, k)
      <4>1. Ratio(streak[h][k] - 3, share[k]) < Slack(k)
        BY <2>1, <3>2, ClaimLeaves DEF StreakGrows, StreakInv, TurnLeft
      <4>2. streak'[h][k] - 4 = streak[h][k] - 3
        <5>1. streak[h][k] \in Nat /\ streak'[h][k] = streak[h][k] + 1
          BY <3>2 DEF HistoryType, StreakGrows
        <5> QED
          BY <5>1
      <4> QED
        BY <4>1, <4>2
    <3> QED
      BY <3>1, <3>2, StreakSteps
  <2>3. Slack(k) \in Int /\ Slack(k)' \in Int /\ Slack(k) <= Slack(k)'
    BY <2>1, StreakSteps, SlackGrows
  <2>4. Ratio(streak'[h][k] - 4, share[k]) \in Int
    <3>1. Fits(share[k]) /\ streak'[h][k] - 4 \in Int
      <4>1. Fits(share[k])
        BY <2>1 DEF HistoryType
      <4>2. streak'[h][k] \in Nat
        BY DEF HistoryType
      <4> QED
        BY <4>1, <4>2
    <3> QED
      BY <3>1, RatioSteps
  <2>5. Ratio(streak'[h][k] - 4, share[k]) < Slack(k)'
    BY <2>2, <2>3, <2>4
  <2> QED
    BY <2>1, <2>5
<1> QED
  BY <1>1, <1>2

LEMMA StreakStep ==
  ASSUME TypeInv, AdmInv, HistoryType, StreakInv, TypeInv', HistoryType', [Next]_vars
  PROVE  StreakInv'
<1>1. BusyInv' /\ NoTakeover'
  BY BusyStep, TakeoverStep DEF StreakInv
<1>2. ASSUME NEW h \in Request
      PROVE  TurnLeft(h)' /\ \A k \in Job : CurrentFor(h, k)' /\ PacedFor(h, k)'
  BY TurnLeftStep, CurrentStep, PacedStep
<1> QED
  BY <1>1, <1>2 DEF StreakInv

-----------------------------------------------------------------------------
LEMMA InitIInv == Init => IInv
<1> SUFFICES ASSUME Init PROVE IInv
  OBVIOUS
<1>1. share = Initially /\ standing = Lead /\ work = Job
      /\ req = [h \in Request |-> IdleReq] /\ adm = [a \in Admin |-> IdleAdm]
  BY DEF Init
<1>2. Initially \in [Job -> 0..Whole] /\ Lead \in [Job -> Nat]
      /\ SumFunctionOnSet(Initially, Job) <= Whole
  BY SizesAssumption
<1>3. TypeInv
  <2>1. Listed(IdleReq)
    BY IdleListed
  <2>2. share \in Shares /\ standing \in Counts /\ work \subseteq Job
    BY <1>1, <1>2 DEF Shares, Counts
  <2>3. req \in [Request -> Requests] /\ \A h \in Request : Listed(req[h])
    BY <1>1, <2>1 DEF Listed
  <2>4. adm \in [Admin -> [at : {"idle", "rows", "write"}, rows : Change \cup {<< >>}]]
    BY <1>1 DEF IdleAdm
  <2> QED
    BY <2>2, <2>3, <2>4 DEF TypeInv
<1>4. AdmInv
  BY <1>1 DEF AdmInv, IdleAdm, Named
<1>5. WholeFleet
  BY <1>1, <1>2 DEF WholeFleet, SumOf
<1>6. TurnInv
  BY <1>1, IdleListed DEF TurnInv, OneAtTheLock, TurnOf
<1> QED
  BY <1>3, <1>4, <1>5, <1>6 DEF IInv

LEMMA Inductive == Spec => []IInv
<1>1. IInv /\ [Next]_vars => IInv'
  BY ClaimSteps, AdmStep, TurnStep DEF IInv
<1> QED
  BY <1>1, InitIInv, PTL DEF Spec

(* The histories and what holds of them.                                   *)
JoinIInv == HistoryType /\ JoinInv /\ StreakInv

LEMMA InitJoinIInv == Init => JoinIInv
<1> SUFFICES ASSUME Init PROVE JoinIInv
  OBVIOUS
<1>0. TypeInv
  BY InitIInv DEF IInv
<1>1. /\ share = Initially /\ newcomer = {} /\ beside = [k \in Job |-> {}]
      /\ waited = [k \in Job |-> NoneYet] /\ streak = [h \in Request |-> NoneYet]
      /\ req = [h \in Request |-> IdleReq] /\ clock = 1
      /\ last = [j \in Job |-> IF Initially[j] = 0 THEN Never ELSE 1]
  BY DEF Init
<1>2. IdleReq.at = "idle" /\ IdleReq.busy = {}
  BY DEF IdleReq
<1>3. \A h \in Request : \A k \in Job : streak[h][k] = 0
  BY <1>1 DEF NoneYet
<1>4. HistoryType
  <2>1. \A j \in Job : share[j] # 0 => Fits(share[j])
    BY <1>1, SizesAssumption DEF Fits
  <2>2. last \in [Job -> Int]
    BY <1>1 DEF Never
  <2> QED
    BY <1>1, <2>1, <2>2 DEF HistoryType, NoneYet
<1>5. JoinInv
  BY <1>1, <1>2 DEF JoinInv, WaitsFor, WaitsAtLock, First
<1>6. NoTakeover
  <2> SUFFICES ASSUME NEW h \in Request, NEW k \in Active(share)
               PROVE  Ratio(streak[h][k] - 4, share[k]) < Slack(k)
    BY DEF NoTakeover
  <2>1. k \in Job /\ share[k] # 0 /\ streak[h][k] = 0
    BY <1>3 DEF Active
  <2>2. 0 - 4 \in Int /\ 0 - 4 <= 0
    OBVIOUS
  <2> QED
    BY <1>0, <1>4, <2>1, <2>2, SlackLeft
<1>7. \A h \in Request : TurnLeft(h) /\ \A k \in Job : CurrentFor(h, k) /\ PacedFor(h, k)
  BY <1>1, <1>2, <1>3 DEF TurnLeft, CurrentFor, PacedFor
<1> QED
  BY <1>1, <1>2, <1>4, <1>5, <1>6, <1>7 DEF JoinIInv, StreakInv, BusyInv

LEMMA JoinInductive == Spec => []JoinIInv
<1>1. IInv /\ IInv' /\ JoinIInv /\ [Next]_vars => JoinIInv'
  BY HistoryStep, JoinStep, StreakStep DEF IInv, JoinIInv
<1> QED
  BY <1>1, Inductive, InitJoinIInv, PTL DEF Spec

(* The jobs' allocations never add up to more than the whole fleet,        *)
(* whichever changes admins make at once and whatever they ask for: the    *)
(* check under the activation lock reads shares that no other change may   *)
(* write before this one does (set_allocations).                           *)
THEOREM FleetKept == Spec => []WholeFleet
BY Inductive, PTL DEF IInv

(* However many claims read the candidates at once, one that is issued is  *)
(* of a job no further on than one more claim would put any rival that is  *)
(* still in play, unless an admin, a decline or a lift moved the standings *)
(* meanwhile (the turn check under the dispatch lock, in claim_task).      *)
THEOREM NoBurstEver == Spec => NoBurst
<1> DEFINE A == \A h \in Request :
                  LET q == req[h]  j == Chosen(q)
                  IN q.at = "locked" /\ req'[h].at # "locked" /\ claims' > claims =>
                       \A o \in Rivals(q) \ q.shifted : share[o] > 0 /\ j \notin q.shifted =>
                         Ratio(standing[j], share[j]) <= Ratio(standing[o] + 1, share[o])
<1>1. IInv => A
  BY DEF IInv, TurnInv, TurnOf
<1>2. IInv => [A]_vars
  BY <1>1
<1> HIDE DEF A
<1>3. Spec => [][A]_vars
  BY <1>2, Inductive, PTL
<1> QED
  BY <1>3 DEF NoBurst, A

(* Whatever the shares and whichever workers claim at once, a job that an  *)
(* admin's change brings in is passed by before its first claim, by each   *)
(* of the jobs being served when it joined, for no more claims than that   *)
(* job's share is of its own, and one: it joins at the lowest ratio served *)
(* (join_at_parity), and the turn check in claim_task lets no job past a   *)
(* rival by more than one of the rival's claims.                           *)
THEOREM NewcomerIsServed == Spec => []NewcomerServed
<1>1. IInv /\ JoinIInv => NewcomerServed
  BY WaitIsTurn DEF IInv, JoinIInv
<1> QED
  BY <1>1, Inductive, JoinInductive, PTL

(* A job at a join, however far behind the others it starts, does not keep *)
(* a worker to itself: each claim brings it level with that worker's pace  *)
(* less one claim of each (issue_claim, pace_for), so that after four the  *)
(* turn check stops it within the slack that pace leaves and a job found   *)
(* busy is forgiven.                                                       *)
THEOREM NoTakeoverEver == Spec => []NoTakeover
<1>1. JoinIInv => NoTakeover
  BY DEF JoinIInv, StreakInv
<1> QED
  BY <1>1, JoinInductive, PTL
=============================================================================
