------------------------------ MODULE SumFacts ------------------------------
(***************************************************************************)
(* What SumFunctionOnSet computes, for every function and finite set: the  *)
(* components add up shares, units and results with it, and their proofs   *)
(* rest on these facts.                                                    *)
(*                                                                         *)
(* Its recursion over subsets is first shown to be defined (a solution of  *)
(* its equation exists and is the only one), by looking at a smallest set  *)
(* where it would not be.  The last two facts are about numbers and steps: *)
(* they stand in for induction where a path is followed.                   *)
(***************************************************************************)
EXTENDS Functions, FiniteSetTheorems, TLAPS

(* Of any finite sets there is one that none of the others is part of.     *)
LEMMA SmallestSet ==
  ASSUME NEW S, IsFiniteSet(S), NEW C \in SUBSET (SUBSET S), C # {}
  PROVE  \E T \in C : \A U \in SUBSET T : U # T => U \notin C
<1>1. IsWellFoundedOn(StrictSubsetOrdering(S), SUBSET S)
  BY FS_StrictSubsetOrderingWellFounded, FS_FiniteSubsetsOfFinite
<1>2. PICK T \in C : \A U \in C : <<U, T>> \notin StrictSubsetOrdering(S)
  BY <1>1, WFMin
<1>3. ASSUME NEW U \in SUBSET T, U # T, U \in C
      PROVE  FALSE
  <2>1. <<U, T>> \in (SUBSET S) \X (SUBSET S)
    BY <1>3
  <2> QED
    BY <1>2, <1>3, <2>1 DEF StrictSubsetOrdering
<1> QED
  BY <1>2, <1>3

(* The element a fold takes next, and the equation a sum solves.           *)
Pick(T) == CHOOSE x \in T : TRUE

Sums(f, S, g) ==
  g = [T \in SUBSET S |-> IF T = {} THEN 0 ELSE f[Pick(T)] + g[T \ {Pick(T)}]]

LEMMA PickIn == \A T : T # {} => Pick(T) \in T
BY DEF Pick

(* Two solutions agree wherever both are defined.                          *)
LEMMA SumsAgree ==
  ASSUME NEW S, IsFiniteSet(S), NEW R, NEW f, NEW g, NEW h, Sums(f, S, g), Sums(f, R, h),
         NEW T, T \subseteq S, T \subseteq R
  PROVE  g[T] = h[T]
<1> DEFINE C == {U \in SUBSET S : U \subseteq R /\ g[U] # h[U]}
<1>1. SUFFICES ASSUME C # {} PROVE FALSE
  OBVIOUS
<1>2. PICK U \in C : \A V \in SUBSET U : V # U => V \notin C
  <2>1. C \in SUBSET (SUBSET S)
    OBVIOUS
  <2> HIDE DEF C
  <2> QED
    BY <1>1, <2>1, SmallestSet
<1>3. CASE U = {}
  BY <1>3, <1>2 DEF Sums
<1>4. CASE U # {}
  <2>1. Pick(U) \in U
    BY <1>4, PickIn
  <2>2. U \ {Pick(U)} \in SUBSET U /\ U \ {Pick(U)} # U
    BY <2>1
  <2>3. g[U \ {Pick(U)}] = h[U \ {Pick(U)}]
    BY <1>2, <2>2
  <2>4. g[U] = f[Pick(U)] + g[U \ {Pick(U)}] /\ h[U] = f[Pick(U)] + h[U \ {Pick(U)}]
    BY <1>2, <1>4 DEF Sums
  <2> QED
    BY <1>2, <2>3, <2>4
<1> QED
  BY <1>3, <1>4

(* There is a solution: of a smallest set without one, every part has one, *)
(* and they make up one for the whole.                                     *)
LEMMA SumsExist ==
  ASSUME NEW S, IsFiniteSet(S), NEW f
  PROVE  \E g : Sums(f, S, g)
<1> DEFINE C == {T \in SUBSET S : ~ \E g : Sums(f, T, g)}
<1>1. SUFFICES ASSUME C # {} PROVE FALSE
  OBVIOUS
<1>2. PICK T \in C : \A U \in SUBSET T : U # T => U \notin C
  <2>1. C \in SUBSET (SUBSET S)
    OBVIOUS
  <2> HIDE DEF C
  <2> QED
    BY <1>1, <2>1, SmallestSet
<1> DEFINE Of(U) == CHOOSE g : Sums(f, U, g)
           G     == [U \in SUBSET T |-> IF U = {} THEN 0
                                       ELSE f[Pick(U)] + Of(U \ {Pick(U)})[U \ {Pick(U)}]]
<1>3. ASSUME NEW U \in SUBSET T, U # T
      PROVE  Sums(f, U, Of(U)) /\ IsFiniteSet(U)
  <2>1. U \in SUBSET S
    OBVIOUS
  <2>2. \E g : Sums(f, U, g)
    BY <1>2, <1>3, <2>1
  <2> QED
    BY <2>1, <2>2, FS_Subset
<1>4. ASSUME NEW U \in SUBSET T, U # T
      PROVE  G[U] = Of(U)[U]
  <2>1. Sums(f, U, Of(U)) /\ IsFiniteSet(U)
    BY <1>3, <1>4
  <2> HIDE DEF Of
  <2>2. CASE U = {}
    BY <2>1, <2>2 DEF Sums
  <2>3. CASE U # {}
    <3> DEFINE V == U \ {Pick(U)}
    <3>1. V \in SUBSET T /\ V # T /\ V \subseteq U
      BY <1>4
    <3>2. Sums(f, V, Of(V))
      BY <1>3, <3>1
    <3>3. Of(U)[V] = Of(V)[V]
      BY <2>1, <3>1, <3>2, SumsAgree
    <3>4. Of(U)[U] = f[Pick(U)] + Of(U)[V]
      BY <2>1, <2>3 DEF Sums
    <3> QED
      BY <2>3, <3>3, <3>4
  <2> QED
    BY <2>2, <2>3
<1>5. Sums(f, T, G)
  <2> HIDE DEF Of
  <2>1. ASSUME NEW U \in SUBSET T, U # {}
        PROVE  G[U] = f[Pick(U)] + G[U \ {Pick(U)}]
    <3>1. Pick(U) \in U
      BY <2>1, PickIn
    <3>2. U \ {Pick(U)} \in SUBSET T /\ U \ {Pick(U)} # T
      BY <3>1
    <3>3. G[U \ {Pick(U)}] = Of(U \ {Pick(U)})[U \ {Pick(U)}]
      BY <1>4, <3>2
    <3> QED
      BY <2>1, <3>3
  <2>2. G = [U \in SUBSET T |-> G[U]] /\ G[{}] = 0
    OBVIOUS
  <2> HIDE DEF G
  <2>3. \A U \in SUBSET T : G[U] = IF U = {} THEN 0 ELSE f[Pick(U)] + G[U \ {Pick(U)}]
    BY <2>1, <2>2
  <2> QED
    BY <2>2, <2>3 DEF Sums
<1> QED
  BY <1>2, <1>5

(* So a sum solves its equation.                                           *)
LEMMA SumEquation ==
  ASSUME NEW S, IsFiniteSet(S), NEW f
  PROVE  /\ SumFunctionOnSet(f, {}) = 0
         /\ S # {} => SumFunctionOnSet(f, S) = f[Pick(S)] + SumFunctionOnSet(f, S \ {Pick(S)})
<1> DEFINE Of(T) == CHOOSE g : Sums(f, T, g)
<1>1. \A T : SumFunctionOnSet(f, T) = Of(T)[T]
  BY DEF SumFunctionOnSet, FoldFunctionOnSet, MapThenFoldSet, Sums, Pick
<1>2. \A T : IsFiniteSet(T) => Sums(f, T, Of(T))
  BY SumsExist
<1> HIDE DEF Of
<1>3. SumFunctionOnSet(f, {}) = 0
  BY <1>1, <1>2, FS_EmptySet DEF Sums
<1>4. ASSUME S # {}
      PROVE  SumFunctionOnSet(f, S) = f[Pick(S)] + SumFunctionOnSet(f, S \ {Pick(S)})
  <2> DEFINE T == S \ {Pick(S)}
  <2>1. IsFiniteSet(T) /\ T \subseteq S
    BY FS_Subset
  <2>2. Of(S)[T] = Of(T)[T]
    BY <1>2, <2>1, SumsAgree
  <2>3. Of(S)[S] = f[Pick(S)] + Of(S)[T]
    BY <1>2, <1>4 DEF Sums
  <2> QED
    BY <1>1, <2>2, <2>3
<1> QED
  BY <1>3, <1>4

-----------------------------------------------------------------------------
(* What a sum is                                                           *)

(* Any element may be taken out first, not only the one the fold takes.    *)
LEMMA SumTakeOut ==
  ASSUME NEW S, IsFiniteSet(S), NEW f, \A x \in S : f[x] \in Int
  PROVE  /\ SumFunctionOnSet(f, S) \in Int
         /\ \A x \in S : SumFunctionOnSet(f, S) = f[x] + SumFunctionOnSet(f, S \ {x})
<1> DEFINE Sum(T)  == SumFunctionOnSet(f, T)
           Good(T) == Sum(T) \in Int /\ \A x \in T : Sum(T) = f[x] + Sum(T \ {x})
           C       == {T \in SUBSET S : ~Good(T)}
<1>1. SUFFICES ASSUME C # {} PROVE FALSE
  OBVIOUS
<1>2. PICK T \in C : \A U \in SUBSET T : U # T => U \notin C
  <2>1. C \in SUBSET (SUBSET S)
    OBVIOUS
  <2> HIDE DEF C
  <2> QED
    BY <1>1, <2>1, SmallestSet
<1>3. ASSUME NEW U \in SUBSET T, U # T  PROVE Good(U)
  BY <1>2, <1>3
<1>4. /\ Sum({}) = 0
      /\ \A U \in SUBSET S : U # {} => Sum(U) = f[Pick(U)] + Sum(U \ {Pick(U)})
  BY SumEquation, FS_Subset, FS_EmptySet
<1>5. T # {}
  <2>1. Good({})
    BY <1>4
  <2> QED
    BY <1>2, <2>1
<1> DEFINE c == Pick(T)
<1>6. c \in T /\ T \ {c} \in SUBSET T /\ T \ {c} # T /\ T \in SUBSET S
  BY <1>5, PickIn
<1> HIDE DEF c, Sum
<1>7. Sum(T) = f[c] + Sum(T \ {c})
  BY <1>4, <1>5 DEF c
<1>8. Sum(T) \in Int
  BY <1>3, <1>6, <1>7
<1>9. ASSUME NEW x \in T  PROVE Sum(T) = f[x] + Sum(T \ {x})
  <2>1. CASE x = c
    BY <2>1, <1>7
  <2>2. CASE x # c
    <3>1. x \in T \ {c} /\ c \in T \ {x} /\ T \ {x} \in SUBSET T /\ T \ {x} # T
      BY <1>6, <1>9, <2>2
    <3>2. Sum(T \ {c}) = f[x] + Sum((T \ {c}) \ {x}) /\ Sum(T \ {x}) = f[c] + Sum((T \ {x}) \ {c})
      BY <1>3, <1>6, <3>1
    <3>3. (T \ {c}) \ {x} = (T \ {x}) \ {c} /\ (T \ {c}) \ {x} \in SUBSET T
          /\ (T \ {c}) \ {x} # T
      BY <1>6
    <3>4. Sum((T \ {c}) \ {x}) \in Int /\ f[x] \in Int /\ f[c] \in Int
      BY <1>3, <1>6, <3>3
    <3>5. Sum((T \ {c}) \ {x}) = Sum((T \ {x}) \ {c})
      BY <3>3
    <3> DEFINE rest == Sum((T \ {c}) \ {x})
    <3>6. /\ Sum(T \ {c}) = f[x] + rest /\ Sum(T \ {x}) = f[c] + rest
          /\ rest \in Int /\ f[x] \in Int /\ f[c] \in Int
      BY <3>2, <3>4, <3>5
    <3> HIDE DEF rest
    <3> QED
      BY <1>7, <3>6
  <2> QED
    BY <2>1, <2>2
<1> QED
  BY <1>2, <1>8, <1>9

LEMMA SumEmpty == \A f : SumFunctionOnSet(f, {}) = 0
BY SumEquation, FS_EmptySet

(* Functions that agree on a set have the same sum on it; one no larger    *)
(* anywhere on it has a sum no larger, and the same only if it is the same.*)
LEMMA SumCompare ==
  ASSUME NEW S, IsFiniteSet(S), NEW f, NEW g,
         \A x \in S : f[x] \in Int /\ g[x] \in Int /\ f[x] <= g[x]
  PROVE  /\ SumFunctionOnSet(f, S) <= SumFunctionOnSet(g, S)
         /\ SumFunctionOnSet(f, S) = SumFunctionOnSet(g, S) => \A x \in S : f[x] = g[x]
<1> DEFINE F(T)    == SumFunctionOnSet(f, T)
           G(T)    == SumFunctionOnSet(g, T)
           Good(T) == F(T) <= G(T) /\ (F(T) = G(T) => \A x \in T : f[x] = g[x])
           C       == {T \in SUBSET S : ~Good(T)}
<1>1. SUFFICES ASSUME C # {} PROVE FALSE
  OBVIOUS
<1>2. PICK T \in C : \A U \in SUBSET T : U # T => U \notin C
  <2>1. C \in SUBSET (SUBSET S)
    OBVIOUS
  <2> HIDE DEF C
  <2> QED
    BY <1>1, <2>1, SmallestSet
<1>3. IsFiniteSet(T)
  BY FS_Subset
<1>4. T # {}
  <2>1. Good({})
    BY SumEmpty
  <2> QED
    BY <1>2, <2>1
<1>5. PICK x \in T : TRUE
  BY <1>4
<1>6. T \ {x} \in SUBSET T /\ T \ {x} # T /\ IsFiniteSet(T \ {x})
  BY <1>3, <1>5, FS_Subset
<1>7. Good(T \ {x})
  BY <1>2, <1>6
<1>8. F(T) = f[x] + F(T \ {x}) /\ F(T \ {x}) \in Int
  BY <1>3, <1>6, SumTakeOut
<1>9. G(T) = g[x] + G(T \ {x}) /\ G(T \ {x}) \in Int
  BY <1>3, <1>6, SumTakeOut
<1>10. f[x] \in Int /\ g[x] \in Int /\ f[x] <= g[x]
  BY <1>5
<1> HIDE DEF F, G
<1>11. F(T) <= G(T)
  BY <1>7, <1>8, <1>9, <1>10
<1>12. ASSUME F(T) = G(T)  PROVE \A y \in T : f[y] = g[y]
  <2>1. F(T \ {x}) = G(T \ {x}) /\ f[x] = g[x]
    BY <1>7, <1>8, <1>9, <1>10, <1>12
  <2> QED
    BY <1>7, <2>1
<1> QED
  BY <1>2, <1>11, <1>12

LEMMA SumSame ==
  ASSUME NEW S, IsFiniteSet(S), NEW f, NEW g, \A x \in S : f[x] \in Int /\ f[x] = g[x]
  PROVE  SumFunctionOnSet(f, S) = SumFunctionOnSet(g, S)
<1>1. SumFunctionOnSet(f, S) <= SumFunctionOnSet(g, S)
  BY SumCompare
<1>2. SumFunctionOnSet(g, S) <= SumFunctionOnSet(f, S)
  BY SumCompare
<1>3. SumFunctionOnSet(f, S) \in Int /\ SumFunctionOnSet(g, S) \in Int
  BY SumTakeOut
<1> QED
  BY <1>1, <1>2, <1>3

(* A function changed at one place has its sum changed by as much.         *)
LEMMA SumChange ==
  ASSUME NEW S, IsFiniteSet(S), NEW f, NEW g, NEW c \in S,
         \A x \in S : f[x] \in Int /\ g[x] \in Int /\ (x # c => f[x] = g[x])
  PROVE  /\ SumFunctionOnSet(f, S) \in Int /\ SumFunctionOnSet(g, S) \in Int
         /\ SumFunctionOnSet(g, S) = SumFunctionOnSet(f, S) + g[c] - f[c]
<1>1. IsFiniteSet(S \ {c})
  BY FS_Subset
<1>2. SumFunctionOnSet(f, S \ {c}) = SumFunctionOnSet(g, S \ {c})
  BY <1>1, SumSame
<1>3. SumFunctionOnSet(f, S) = f[c] + SumFunctionOnSet(f, S \ {c})
      /\ SumFunctionOnSet(f, S) \in Int
  BY SumTakeOut
<1>4. SumFunctionOnSet(g, S) = g[c] + SumFunctionOnSet(g, S \ {c})
      /\ SumFunctionOnSet(g, S) \in Int
  BY SumTakeOut
<1>5. SumFunctionOnSet(f, S \ {c}) \in Int
  BY <1>1, SumTakeOut
<1> QED
  BY <1>2, <1>3, <1>4, <1>5

(* Of a function into the naturals, part of a sum is no more than all of   *)
(* it, and the rest of one that is as much is nothing.                     *)
LEMMA SumPart ==
  ASSUME NEW S, IsFiniteSet(S), NEW T \in SUBSET S, NEW f, \A x \in S : f[x] \in Nat
  PROVE  /\ SumFunctionOnSet(f, S) \in Nat /\ SumFunctionOnSet(f, T) \in Nat
         /\ SumFunctionOnSet(f, T) <= SumFunctionOnSet(f, S)
         /\ SumFunctionOnSet(f, T) = SumFunctionOnSet(f, S) => \A x \in S \ T : f[x] = 0
<1> DEFINE Sum(U)  == SumFunctionOnSet(f, U)
           Good(U) == /\ Sum(U) \in Nat /\ Sum(T) \in Int
                      /\ Sum(T) <= Sum(U) /\ (Sum(T) = Sum(U) => \A x \in U \ T : f[x] = 0)
           C       == {U \in SUBSET S : T \subseteq U /\ ~Good(U)}
<1>1. Sum(T) \in Nat
  <2> DEFINE D == {U \in SUBSET S : Sum(U) \notin Nat}
  <2>1. SUFFICES ASSUME D # {} PROVE FALSE
    OBVIOUS
  <2>2. PICK U \in D : \A V \in SUBSET U : V # U => V \notin D
    <3>1. D \in SUBSET (SUBSET S)
      OBVIOUS
    <3> HIDE DEF D
    <3> QED
      BY <2>1, <3>1, SmallestSet
  <2>3. U # {} /\ IsFiniteSet(U)
    <3>1. Sum({}) \in Nat
      BY SumEmpty
    <3> QED
      BY <2>2, <3>1, FS_Subset
  <2>4. PICK x \in U : TRUE
    BY <2>3
  <2>5. Sum(U) = f[x] + Sum(U \ {x})
    BY <2>3, SumTakeOut
  <2>6. Sum(U \ {x}) \in Nat
    BY <2>2, <2>4
  <2> QED
    BY <2>2, <2>4, <2>5, <2>6
<1>2. SUFFICES ASSUME C # {} PROVE FALSE
  BY <1>1
<1>3. PICK U \in C : \A V \in SUBSET U : V # U => V \notin C
  <2>1. C \in SUBSET (SUBSET S)
    OBVIOUS
  <2> HIDE DEF C
  <2> QED
    BY <1>2, <2>1, SmallestSet
<1>4. U # T
  BY <1>1, <1>3
<1>5. PICK x \in U \ T : TRUE
  BY <1>3, <1>4
<1>6. IsFiniteSet(U) /\ x \in U /\ f[x] \in Nat
  BY <1>5, FS_Subset
<1>7. Sum(U) = f[x] + Sum(U \ {x})
  BY <1>6, SumTakeOut
<1>8. Good(U \ {x})
  BY <1>3, <1>5
<1> HIDE DEF Sum
<1>9. Sum(U) \in Nat /\ Sum(T) <= Sum(U)
  BY <1>1, <1>6, <1>7, <1>8
<1>10. ASSUME Sum(T) = Sum(U)  PROVE \A y \in U \ T : f[y] = 0
  <2>1. Sum(T) = Sum(U \ {x}) /\ f[x] = 0
    BY <1>1, <1>6, <1>7, <1>8, <1>10
  <2> QED
    BY <1>8, <2>1
<1> QED
  BY <1>1, <1>3, <1>9, <1>10

(* A sum over one element more is larger by what is at it.                 *)
LEMMA SumAdd ==
  ASSUME NEW S, IsFiniteSet(S), NEW f, NEW g, NEW c, c \notin S,
         \A x \in S : f[x] \in Int /\ g[x] = f[x],
         g[c] \in Int
  PROVE  SumFunctionOnSet(g, S \cup {c}) = SumFunctionOnSet(f, S) + g[c]
<1>1. IsFiniteSet(S \cup {c})
  BY FS_AddElement
<1>2. SumFunctionOnSet(g, S \cup {c}) = g[c] + SumFunctionOnSet(g, (S \cup {c}) \ {c})
  <2>1. \A x \in S \cup {c} : g[x] \in Int
    OBVIOUS
  <2> QED
    BY <1>1, <2>1, SumTakeOut
<1>3. SumFunctionOnSet(g, (S \cup {c}) \ {c}) = SumFunctionOnSet(g, S)
  <2>1. (S \cup {c}) \ {c} = S
    OBVIOUS
  <2> QED
    BY <2>1
<1>4. SumFunctionOnSet(g, S) = SumFunctionOnSet(f, S) /\ SumFunctionOnSet(f, S) \in Int
  BY SumSame, SumTakeOut
<1> QED
  BY <1>2, <1>3, <1>4

-----------------------------------------------------------------------------
(* A function is largest somewhere on a finite set that is not empty.      *)
LEMMA LargestAt ==
  ASSUME NEW S, IsFiniteSet(S), S # {}, NEW f, \A x \in S : f[x] \in Int
  PROVE  \E d \in S : \A x \in S : f[x] <= f[d]
<1> DEFINE Has(T) == \E d \in T : \A x \in T : f[x] <= f[d]
           C      == {T \in SUBSET S : T # {} /\ ~Has(T)}
<1>1. SUFFICES ASSUME C # {} PROVE FALSE
  OBVIOUS
<1>2. PICK T \in C : \A U \in SUBSET T : U # T => U \notin C
  <2>1. C \in SUBSET (SUBSET S)
    OBVIOUS
  <2> HIDE DEF C
  <2> QED
    BY <1>1, <2>1, SmallestSet
<1>3. PICK c \in T : TRUE
  BY <1>2
<1>4. CASE T = {c}
  BY <1>2, <1>4
<1>5. CASE T # {c}
  <2>1. T \ {c} # {} /\ T \ {c} \in SUBSET T /\ T \ {c} # T
    BY <1>3, <1>5
  <2>2. PICK d \in T \ {c} : \A x \in T \ {c} : f[x] <= f[d]
    BY <1>2, <2>1
  <2>3. CASE f[c] <= f[d]
    BY <1>2, <1>3, <2>2, <2>3
  <2>4. CASE ~(f[c] <= f[d])
    BY <1>2, <1>3, <2>2, <2>4
  <2> QED
    BY <2>3, <2>4
<1> QED
  BY <1>4, <1>5

(* Of natural numbers there is a first.                                    *)
LEMMA FirstNatural ==
  ASSUME NEW C \in SUBSET Nat, C # {}
  PROVE  \E n \in C : \A m \in C : n <= m
<1>1. PICK c \in C : TRUE
  OBVIOUS
<1> DEFINE S == C \cap (0..c)
           f == [n \in S |-> -n]
<1>2. IsFiniteSet(S) /\ S # {} /\ S \subseteq Nat
  <2>1. IsFiniteSet(0..c)
    BY <1>1, FS_Interval
  <2> QED
    BY <1>1, <2>1, FS_Subset
<1>3. \A n \in S : f[n] \in Int /\ f[n] = -n
  BY <1>2
<1>4. PICK d \in S : \A n \in S : f[n] <= f[d]
  <2> HIDE DEF f, S
  <2> QED
    BY <1>2, <1>3, LargestAt
<1>5. \A n \in S : d <= n
  BY <1>2, <1>3, <1>4
<1> QED
  BY <1>1, <1>5

(* From any place there are as many steps as one likes.                    *)
StepsFrom(A, a, s, N) ==
  {g \in [0..N -> A] : g[0] = a /\ \A k \in 1..N : g[k] = s[g[k - 1]]}

LEMMA StepsExist ==
  ASSUME NEW A, NEW a \in A, NEW s \in [A -> A], NEW N \in Nat
  PROVE  StepsFrom(A, a, s, N) # {}
<1> DEFINE Goes(n, g) == g[0] = a /\ \A k \in 1..n : g[k] = s[g[k - 1]]
           C == {n \in Nat : ~ \E g \in [0..n -> A] : Goes(n, g)}
<1>1. SUFFICES ASSUME C # {} PROVE FALSE
  BY DEF StepsFrom
<1>2. PICK n \in C : \A m \in C : n <= m
  <2>1. C \in SUBSET Nat
    OBVIOUS
  <2> HIDE DEF C
  <2> QED
    BY <1>1, <2>1, FirstNatural
<1>3. CASE n = 0
  <2>1. [k \in 0..0 |-> a] \in [0..0 -> A] /\ Goes(0, [k \in 0..0 |-> a])
    OBVIOUS
  <2> QED
    BY <1>2, <1>3, <2>1
<1>4. CASE n # 0
  <2>1. n - 1 \in Nat /\ n - 1 \notin C
    <3>1. n \in Nat /\ \A m \in C : n <= m
      BY <1>2
    <3> HIDE DEF C
    <3> QED
      BY <1>4, <3>1
  <2>2. PICK g \in [0..(n - 1) -> A] : Goes(n - 1, g)
    BY <2>1
  <2> DEFINE h == [k \in 0..n |-> IF k < n THEN g[k] ELSE s[g[n - 1]]]
  <2>3. h \in [0..n -> A]
    <3>1. \A k \in 0..n : k < n => k \in 0..(n - 1)
      BY <1>2
    <3>2. g[n - 1] \in A
      BY <2>1, <2>2
    <3> QED
      BY <2>2, <3>1, <3>2
  <2>4. h[0] = a
    BY <1>2, <1>4, <2>2
  <2>5. ASSUME NEW k \in 1..n PROVE h[k] = s[h[k - 1]]
    <3>1. CASE k < n
      BY <1>2, <2>2, <3>1
    <3>2. CASE k = n
      BY <1>2, <1>4, <3>2
    <3> QED
      BY <1>2, <3>1, <3>2
  <2> HIDE DEF h
  <2> QED
    BY <1>2, <2>3, <2>4, <2>5
<1> QED
  BY <1>3, <1>4
=============================================================================
