---------------------------- MODULE DataTheorems ----------------------------
(***************************************************************************)
(* Lemmas about finite data: induction over the naturals, and what folds,  *)
(* sums, listings of sets and lists of lists return.  The library states   *)
(* induction for an operator, which the provers cannot instantiate; here   *)
(* it is stated for a set, from the fact that the naturals are well        *)
(* ordered.                                                                *)
(***************************************************************************)
EXTENDS Integers, Sequences, SequencesExt, FiniteSets, FiniteSetsExt, Selections,
        FiniteSetTheorems, SequenceTheorems, WellFoundedInduction, TLAPS

-----------------------------------------------------------------------------
(* Induction *)

LEMMA LeastNatural ==
  ASSUME NEW T \in SUBSET Nat, T # {}
  PROVE  \E n \in T : \A m \in T : n <= m
  <1>1. PICK R : R = OpToRel(<, Nat)
    OBVIOUS
  <1>2. IsWellFoundedOn(R, Nat)
    BY <1>1, NatLessThanWellFounded
  <1>3. PICK n \in T : \A m \in T : <<m, n>> \notin R
    BY <1>2, WFMin, Zenon
  <1>4. \A m \in T : m < n => <<m, n>> \in R
    BY <1>1 DEF OpToRel
  <1>5. \A m \in T : m \in Nat /\ ~ (m < n)
    BY <1>3, <1>4
  <1>6. \A m \in T : n <= m
    BY <1>5
  <1> QED
    BY <1>6

LEMMA Induct ==
  ASSUME NEW T, 0 \in T, \A k \in Nat : k \in T => k + 1 \in T
  PROVE  Nat \subseteq T
  <1> DEFINE U == Nat \ T
  <1> SUFFICES ASSUME U # {} PROVE FALSE
    OBVIOUS
  <1>1. PICK n \in U : \A m \in U : n <= m
    BY LeastNatural
  <1>2. n \in Nat /\ n # 0 /\ n - 1 \in Nat
    BY <1>1
  <1>3. n - 1 \in T
    BY <1>1, <1>2
  <1> QED
    BY <1>1, <1>2, <1>3

LEMMA CardinalityLess ==
  ASSUME NEW S, IsFiniteSet(S), NEW x \in S, NEW k \in Nat, Cardinality(S) = k + 1
  PROVE  IsFiniteSet(S \ {x}) /\ Cardinality(S \ {x}) = k
  <1>1. IsFiniteSet(S \ {x}) /\ Cardinality(S \ {x}) = Cardinality(S) - 1
    BY FS_RemoveElement, Zenon
  <1>2. (k + 1) - 1 = k
    OBVIOUS
  <1> QED
    BY <1>1, <1>2, Zenon

\* A finite set of integers has a greatest element, which Max returns.
LEMMA GreatestOf ==
  ASSUME NEW S \in SUBSET Int, IsFiniteSet(S), S # {}
  PROVE  Max(S) \in S /\ \A x \in S : x <= Max(S)
  <1> DEFINE HasMax(s) == \E m \in s : \A x \in s : m >= x
             T == {k \in Nat : \A s \in SUBSET Int :
                     IsFiniteSet(s) /\ s # {} /\ Cardinality(s) = k => HasMax(s)}
  <1>1. 0 \in T
    BY FS_EmptySet
  <1>2. ASSUME NEW k \in Nat, k \in T PROVE k + 1 \in T
    <2> SUFFICES ASSUME NEW s \in SUBSET Int, IsFiniteSet(s), s # {}, Cardinality(s) = k + 1
                 PROVE  HasMax(s)
      OBVIOUS
    <2>1. PICK y \in s : TRUE
      OBVIOUS
    <2>2. s \ {y} \in SUBSET Int /\ IsFiniteSet(s \ {y}) /\ Cardinality(s \ {y}) = k
      BY <2>1, CardinalityLess
    <2>3. CASE s \ {y} = {}
      BY <2>1, <2>3
    <2>4. CASE s \ {y} # {}
      <3>1. HasMax(s \ {y})
        BY <1>2, <2>2, <2>4
      <3>2. PICK m \in s \ {y} : \A x \in s \ {y} : m >= x
        BY <3>1
      <3>3. y \in Int /\ m \in Int /\ \A x \in s : x \in Int /\ (x = y \/ x \in s \ {y})
        BY <2>1, <3>2
      <3>4. CASE m >= y
        BY <3>2, <3>3, <3>4
      <3>5. CASE y >= m
        <4>1. \A x \in s : y >= x
          BY <3>2, <3>3, <3>5
        <4> QED
          BY <4>1, <2>1
      <3> QED
        BY <3>3, <3>4, <3>5
    <2> QED
      BY <2>3, <2>4
  <1>3. Nat \subseteq T
    <2> HIDE DEF T
    <2> QED
      BY <1>1, <1>2, Induct
  <1>4. HasMax(S)
    BY <1>3, FS_CardinalityType
  <1> QED
    BY <1>4 DEF Max

LEMMA MaxOfPrefix ==
  ASSUME NEW k \in Nat, k >= 1
  PROVE  Max(1..k) = k /\ (1..k) \ {k} = 1..(k - 1)
  BY DEF Max

-----------------------------------------------------------------------------
(* Folds *)

\* f solves the recursion of a fold over the subsets of S.
SolvesFold(f, S, base, step, pick) ==
  \A s \in SUBSET S : f[s] = IF s = {} THEN base ELSE step[<<pick[s], f[s \ {pick[s]}]>>]

\* One value after the other: the recursion of a fold over the subsets of S
\* has a solution.
LEMMA FoldExists ==
  ASSUME NEW S, IsFiniteSet(S), NEW V, NEW base \in V, NEW step \in [S \X V -> V],
         NEW pick, \A s \in SUBSET S : s # {} => pick[s] \in s
  PROVE  \E f \in [SUBSET S -> V] : SolvesFold(f, S, base, step, pick)
<1> DEFINE Small(m) == {s \in SUBSET S : Cardinality(s) <= m}
           Solves(f, m) == \A s \in Small(m) :
              f[s] = IF s = {} THEN base ELSE step[<<pick[s], f[s \ {pick[s]}]>>]
           T == {m \in Nat : \E f \in [Small(m) -> V] : Solves(f, m)}
<1>0. \A s \in SUBSET S : IsFiniteSet(s) /\ Cardinality(s) \in Nat /\ (Cardinality(s) = 0 <=> s = {})
  BY FS_Subset, FS_CardinalityType, FS_EmptySet
<1>a. \A s \in SUBSET S : s # {} =>
        /\ pick[s] \in S /\ s \ {pick[s]} \in SUBSET S
        /\ Cardinality(s \ {pick[s]}) = Cardinality(s) - 1
  BY <1>0, FS_RemoveElement
<1>1. 0 \in T
  <2>1. Small(0) = {{}}
    BY <1>0
  <2> DEFINE f == [s \in Small(0) |-> base]
  <2>2. f \in [Small(0) -> V] /\ Solves(f, 0)
    BY <2>1
  <2> QED BY <2>2
<1>2. ASSUME NEW k \in Nat, k \in T PROVE k + 1 \in T
  <2>1. PICK f \in [Small(k) -> V] : Solves(f, k)
    BY <1>2
  <2> DEFINE g == [s \in Small(k + 1) |-> IF s \in Small(k) THEN f[s] ELSE step[<<pick[s], f[s \ {pick[s]}]>>]]
  <2>2. \A s \in Small(k+1) : s # {} => s \ {pick[s]} \in Small(k) /\ pick[s] \in S
    BY <1>0, <1>a
  <2>3. \A s \in Small(k+1) \ Small(k) : s # {}
    BY <1>0
  <2>4. Small(k) \subseteq Small(k+1)
    BY <1>0
  <2>5. \A s \in Small(k+1) : g[s] \in V
    BY <2>2, <2>3
  <2>6. \A s \in Small(k) : g[s] = f[s]
    BY <2>4
  <2>7. ASSUME NEW s \in Small(k+1) PROVE g[s] = IF s = {} THEN base ELSE step[<<pick[s], g[s \ {pick[s]}]>>]
    <3>1. CASE s \in Small(k)
      <4>1. s # {} => s \ {pick[s]} \in Small(k)
        BY <2>2, <2>4, <3>1
      <4>2. s # {} => g[s \ {pick[s]}] = f[s \ {pick[s]}]
        BY <4>1, <2>6
      <4> HIDE DEF g
      <4> QED BY <2>6, <4>2, <3>1, <2>1
    <3>2. CASE s \notin Small(k)
      <4>1. s # {} /\ s \ {pick[s]} \in Small(k)
        BY <2>2, <2>3, <3>2
      <4>2. g[s \ {pick[s]}] = f[s \ {pick[s]}]
        BY <4>1, <2>6
      <4>3. g[s] = step[<<pick[s], f[s \ {pick[s]}]>>]
        BY <3>2
      <4> HIDE DEF g
      <4> QED BY <4>1, <4>2, <4>3
    <3> QED BY <3>1, <3>2
  <2>8. g \in [Small(k+1) -> V]
    BY <2>5
  <2>9. Solves(g, k+1)
    BY <2>7
  <2> HIDE DEF g
  <2> HIDE DEF Solves, Small
  <2>10. \E h \in [Small(k+1) -> V] : Solves(h, k+1)
    BY <2>8, <2>9
  <2> QED BY <2>10
<1>3. Nat \subseteq T
  <2> HIDE DEF T
  <2> QED BY <1>1, <1>2, Induct
<1>4. Cardinality(S) \in T
  BY <1>3, <1>0
<1>5. Small(Cardinality(S)) = SUBSET S
  BY <1>0, FS_Subset
<1>6. PICK f \in [Small(Cardinality(S)) -> V] : Solves(f, Cardinality(S))
  BY <1>4
<1> QED BY <1>5, <1>6 DEF SolvesFold

SolvesMaxFold(f, n, base, step) ==
  \A s \in SUBSET (1..n) : f[s] = IF s = {} THEN base ELSE step[<<Max(s), f[s \ {Max(s)}]>>]

LEMMA FoldOfPrefixes ==
  ASSUME NEW n \in Nat, NEW V, NEW base \in V, NEW step \in [(1..n) \X V -> V]
  PROVE  \E f \in [SUBSET (1..n) -> V] : SolvesMaxFold(f, n, base, step)
<1>1. PICK pick : pick = [s \in SUBSET (1..n) |-> Max(s)]
  OBVIOUS
<1>3. IsFiniteSet(1..n) /\ \A s \in SUBSET (1..n) : pick[s] = Max(s)
  BY <1>1, FS_Interval
<1>4. \A s \in SUBSET (1..n) : s # {} => pick[s] \in s
  <2> TAKE s \in SUBSET (1..n)
  <2>1. s \in SUBSET Int
    OBVIOUS
  <2>2. IsFiniteSet(s)
    BY <1>3, FS_Subset, Zenon
  <2> QED
    BY <1>3, <2>1, <2>2, GreatestOf, Zenon
<1>5. PICK f \in [SUBSET (1..n) -> V] : SolvesFold(f, 1..n, base, step, pick)
  BY <1>3, <1>4, FoldExists, Zenon
<1> QED
  BY <1>5, <1>3 DEF SolvesFold, SolvesMaxFold

\* g goes on by step from each prefix of 1..n to the next.
GoesOn(g, n, V, step) ==
  \A k \in 1..n : g[1..(k-1)] \in V => g[1..k] = step[<<k, g[1..(k-1)]>>]

\* run is what g is on the prefixes.
RunsAlong(run, g, n, step) ==
  /\ run[0] = g[{}] /\ run[n] = g[1..n]
  /\ \A k \in 1..n : run[k] = step[<<k, run[k-1]>>]

\* What is folded goes through the prefixes.
LEMMA RunExists ==
  ASSUME NEW n \in Nat, NEW V, NEW step \in [(1..n) \X V -> V], NEW g,
         g[{}] \in V, GoesOn(g, n, V, step)
  PROVE  \E run \in [0..n -> V] : RunsAlong(run, g, n, step)
<1> DEFINE T == {k \in Nat : k <= n => g[1..k] \in V}
<1>0. 1..0 = {}
  OBVIOUS
<1>1. 0 \in T
  BY <1>0
<1>2. \A k \in Nat : k \in T => k + 1 \in T
  <2> TAKE k \in Nat
  <2> HAVE k \in T
  <2> SUFFICES ASSUME k + 1 <= n PROVE g[1..(k+1)] \in V
    OBVIOUS
  <2>1. g[1..k] \in V /\ (k+1) - 1 = k /\ k+1 \in 1..n
    OBVIOUS
  <2>2. g[1..(k+1)] = step[<<k+1, g[1..k]>>]
    BY <2>1 DEF GoesOn
  <2> QED BY <2>1, <2>2
<1>3. Nat \subseteq T
  <2> HIDE DEF T
  <2> QED BY <1>1, <1>2, Induct
<1> DEFINE run == [k \in 0..n |-> g[1..k]]
<1>4. \A k \in 0..n : g[1..k] \in V
  BY <1>3
<1>5. run \in [0..n -> V] /\ run[0] = g[{}] /\ run[n] = g[1..n]
  BY <1>4, <1>0
<1>6. \A k \in 1..n : run[k] = step[<<k, run[k-1]>>]
  <2> TAKE k \in 1..n
  <2>1. k - 1 \in 0..n /\ k \in 0..n
    OBVIOUS
  <2>2. g[1..(k-1)] \in V
    BY <2>1, <1>4
  <2> QED BY <2>1, <2>2 DEF GoesOn
<1> HIDE DEF run
<1> QED BY <1>5, <1>6 DEF RunsAlong


-----------------------------------------------------------------------------
(* Listings of a set *)

\* SetToSeq gives every element of a finite set one place.
LEMMA SetToSeqLists ==
  ASSUME NEW S, IsFiniteSet(S)
  PROVE  /\ SetToSeq(S) \in [1..Cardinality(S) -> S]
         /\ IsInjective(SetToSeq(S))
         /\ \A x \in S : \E i \in 1..Cardinality(S) : SetToSeq(S)[i] = x
  <1>1. PICK f : f \in Bijection(1..Cardinality(S), S)
    BY FS_CardinalityType DEF ExistsBijection
  <1>2. f \in [1..Cardinality(S) -> S] /\ IsInjective(f)
    BY <1>1 DEF Bijection, Injection
  <1>3. SetToSeq(S) \in [1..Cardinality(S) -> S] /\ IsInjective(SetToSeq(S))
    BY <1>2 DEF SetToSeq
  <1>4. PICK g : g = SetToSeq(S)
    OBVIOUS
  <1>5. g \in Injection(1..Cardinality(S), S)
    BY <1>3, <1>4 DEF Injection
  <1>6. Cardinality(1..Cardinality(S)) = Cardinality(S)
    BY FS_Interval, FS_CardinalityType
  <1>7. g \in Surjection(1..Cardinality(S), S)
    BY <1>5, <1>6, FS_Injection
  <1> QED
    BY <1>3, <1>4, <1>7 DEF Surjection

\* The set R of pairs orders S.
OrdersAll(R, S) ==
  /\ \A x \in S : <<x, x>> \notin R
  /\ \A x, y, z \in S : <<x, y>> \in R /\ <<y, z>> \in R => <<x, z>> \in R
  /\ \A x, y \in S : x # y => <<x, y>> \in R \/ <<y, x>> \in R

\* In the i-th place is what has i - 1 elements before it, if there is such.
PlacedBy(list, S, R) ==
  /\ list = [i \in 1..Cardinality(S) |-> list[i]]
  /\ \A i \in 1..Cardinality(S), x \in S : Cardinality({y \in S : <<y, x>> \in R}) = i - 1 =>
       list[i] \in S /\ Cardinality({y \in S : <<y, list[i]>> \in R}) = i - 1

\* Every element of S has one place, and the places are in the order R.
ListedBy(list, S, R) ==
  /\ list \in [1..Cardinality(S) -> S]
  /\ \A x \in S : \E i \in 1..Cardinality(S) : list[i] = x
  /\ \A i, j \in 1..Cardinality(S) : i < j <=> <<list[i], list[j]>> \in R
  /\ \A i, j \in 1..Cardinality(S) : list[i] = list[j] => i = j

\* What Ranked lists, for an order given as a set of pairs.
LEMMA RankedLists ==
  ASSUME NEW S, IsFiniteSet(S), NEW R, OrdersAll(R, S), NEW list, PlacedBy(list, S, R)
  PROVE  ListedBy(list, S, R)
  <1> USE DEF OrdersAll, PlacedBy
  <1> DEFINE n == Cardinality(S)
             below(x) == {y \in S : <<y, x>> \in R}
             rank(x) == Cardinality(below(x))
  <1>0. n \in Nat
    BY FS_CardinalityType
  <1>1. \A x \in S : IsFiniteSet(below(x)) /\ rank(x) \in Nat /\ below(x) \in SUBSET S
    <2> TAKE x \in S
    <2>1. below(x) \in SUBSET S
      OBVIOUS
    <2> QED
      BY <2>1, FS_Subset, FS_CardinalityType
  <1>2. \A x \in S : x \notin below(x)
    OBVIOUS
  <1>3. \A x, y \in S : <<x, y>> \in R => rank(x) < rank(y)
    <2> SUFFICES ASSUME NEW x \in S, NEW y \in S, <<x, y>> \in R PROVE rank(x) < rank(y)
      OBVIOUS
    <2>1. below(x) \cup {x} \in SUBSET below(y)
      OBVIOUS
    <2> HIDE DEF below
    <2>2. Cardinality(below(x) \cup {x}) = Cardinality(below(x)) + 1
      BY <1>1, <1>2, FS_AddElement
    <2>3. Cardinality(below(x) \cup {x}) <= Cardinality(below(y))
      BY <2>1, <1>1, FS_Subset
    <2> QED
      BY <2>2, <2>3, <1>1
  <1>4. \A x \in S : rank(x) < n
    <2> TAKE x \in S
    <2>1. below(x) \in SUBSET S /\ below(x) # S
      BY <1>2
    <2> HIDE DEF below
    <2> QED
      BY <2>1, <1>1, <1>0, FS_Subset
  <1> HIDE DEF below
  <1>5. \A x, y \in S : rank(x) = rank(y) => x = y
    <2> SUFFICES ASSUME NEW x \in S, NEW y \in S, rank(x) = rank(y), x # y PROVE FALSE
      OBVIOUS
    <2> HIDE DEF rank
    <2>1. rank(x) < rank(y) \/ rank(y) < rank(x)
      BY <1>3, Zenon
    <2>2. rank(x) \in Nat /\ rank(y) \in Nat /\ rank(x) = rank(y)
      BY <1>1, Zenon
    <2> QED
      BY ONLY <2>1, <2>2
  <1>6. \A i \in 1..n : \E x \in S : rank(x) = i - 1
    <2> DEFINE f == [x \in S |-> rank(x) + 1]
    <2>1. \A x \in S : rank(x) + 1 \in 1..n
      BY <1>0, <1>1, <1>4
    <2>2. f \in [S -> 1..n]
      BY <2>1
    <2>3. \A x, y \in S : f[x] = f[y] => x = y
      BY <1>1, <1>5
    <2>4. IsFiniteSet(1..n) /\ Cardinality(1..n) = n
      BY <1>0, FS_Interval
    <2>5. f \in Injection(S, 1..n)
      <3> HIDE DEF f
      <3> QED
        BY <2>2, <2>3 DEF Injection, IsInjective
    <2>6. f \in Surjection(S, 1..n)
      <3> HIDE DEF f
      <3> QED
        BY <2>5, <2>4, FS_Injection
    <2>7. \A i \in 1..n : \E x \in S : f[x] = i
      BY <2>6 DEF Surjection
    <2>8. ASSUME NEW i \in 1..n PROVE \E x \in S : rank(x) = i - 1
      <3>1. PICK x \in S : f[x] = i
        BY <2>7
      <3>2. rank(x) + 1 = i
        BY <3>1
      <3> QED
        BY <3>2, <1>1
    <2> QED
      BY <2>8
  <1>7. \A i \in 1..n : list[i] \in S /\ rank(list[i]) = i - 1
    <2> TAKE i \in 1..n
    <2> QED
      BY <1>6 DEF below
  <1>8. DOMAIN list = 1..n /\ list \in [1..n -> S]
    BY <1>7
  <1>9. \A x \in S : \E i \in 1..n : list[i] = x
    <2> TAKE x \in S
    <2>1. rank(x) + 1 \in 1..n /\ (rank(x) + 1) - 1 = rank(x)
      BY <1>0, <1>1, <1>4
    <2>2. list[rank(x) + 1] = x
      BY <2>1, <1>7, <1>5
    <2> QED
      BY <2>1, <2>2
  <1>10. ASSUME NEW i \in 1..n, NEW j \in 1..n
         PROVE  (i < j <=> <<list[i], list[j]>> \in R) /\ (list[i] = list[j] => i = j)
    <2>1. /\ list[i] \in S /\ rank(list[i]) = i - 1
          /\ list[j] \in S /\ rank(list[j]) = j - 1
      BY <1>7
    <2>2. i \in Int /\ j \in Int
      BY <1>0
    <2> HIDE DEF rank
    <2>3. <<list[i], list[j]>> \in R => rank(list[i]) < rank(list[j])
      BY <2>1, <1>3, Zenon
    <2>4. <<list[j], list[i]>> \in R => rank(list[j]) < rank(list[i])
      BY <2>1, <1>3, Zenon
    <2>5. list[i] = list[j] => rank(list[i]) = rank(list[j])
      OBVIOUS
    <2>6. list[i] # list[j] => <<list[i], list[j]>> \in R \/ <<list[j], list[i]>> \in R
      BY <2>1, Zenon
    <2> QED
      BY ONLY <2>1, <2>2, <2>3, <2>4, <2>5, <2>6
  <1> QED
    BY <1>8, <1>9, <1>10 DEF ListedBy

\* Ranked(S, <)
Ascending(S) ==
  [i \in 1..Cardinality(S) |-> CHOOSE x \in S : Cardinality({y \in S : y < x}) = i - 1]

\* Every number of S has one place, the smaller ones first.
Ascends(list, S) ==
  /\ list \in [1..Cardinality(S) -> S]
  /\ \A x \in S : \E i \in 1..Cardinality(S) : list[i] = x
  /\ \A i, j \in 1..Cardinality(S) : i < j <=> list[i] < list[j]
  /\ \A i, j \in 1..Cardinality(S) : list[i] = list[j] => i = j

LEMMA AscendingList ==
  ASSUME NEW S \in SUBSET Int, IsFiniteSet(S), NEW list, list = Ascending(S)
  PROVE  Ascends(list, S)
  <1> DEFINE R == {p \in S \X S : p[1] < p[2]}
             Place(i) == CHOOSE x \in S : Cardinality({y \in S : y < x}) = i - 1
  <1>1. list = [i \in 1..Cardinality(S) |-> Place(i)]
    BY DEF Ascending
  <1>2. \A x, y \in S : <<x, y>> \in R <=> x < y
    OBVIOUS
  <1>3. \A x \in S : {y \in S : <<y, x>> \in R} = {y \in S : y < x}
    BY <1>2
  <1>4. ASSUME NEW i \in 1..Cardinality(S), NEW x \in S, Cardinality({y \in S : y < x}) = i - 1
        PROVE  Place(i) \in S /\ Cardinality({y \in S : y < Place(i)}) = i - 1
    BY <1>4, Zenon
  <1>5. \A x, y, z \in S : x \in Int /\ y \in Int /\ z \in Int
    OBVIOUS
  <1> HIDE DEF R, Place
  <1>6. /\ \A x \in S : <<x, x>> \notin R
        /\ \A x, y, z \in S : <<x, y>> \in R /\ <<y, z>> \in R => <<x, z>> \in R
        /\ \A x, y \in S : x # y => <<x, y>> \in R \/ <<y, x>> \in R
    BY ONLY <1>2, <1>5
  <1>7. /\ list = [i \in 1..Cardinality(S) |-> list[i]]
        /\ \A i \in 1..Cardinality(S) : list[i] = Place(i)
    BY ONLY <1>1
  <1>8. \A i \in 1..Cardinality(S), x \in S : Cardinality({y \in S : <<y, x>> \in R}) = i - 1 =>
          list[i] \in S /\ Cardinality({y \in S : <<y, list[i]>> \in R}) = i - 1
    BY <1>3, <1>4, <1>7, Zenon
  <1>9. /\ list \in [1..Cardinality(S) -> S]
        /\ \A x \in S : \E i \in 1..Cardinality(S) : list[i] = x
        /\ \A i, j \in 1..Cardinality(S) : i < j <=> <<list[i], list[j]>> \in R
        /\ \A i, j \in 1..Cardinality(S) : list[i] = list[j] => i = j
    <2>1. OrdersAll(R, S)
      BY <1>6 DEF OrdersAll
    <2>2. PlacedBy(list, S, R)
      BY <1>7, <1>8, Zenon DEF PlacedBy
    <2>3. ListedBy(list, S, R)
      BY ONLY IsFiniteSet(S), <2>1, <2>2, RankedLists, Zenon
    <2> QED
      BY ONLY <2>3, Zenon DEF ListedBy
  <1>10. \A i \in 1..Cardinality(S) : list[i] \in S
    BY <1>9, Zenon
  <1> QED
    BY <1>2, <1>9, <1>10, Zenon DEF Ascends

\* Ranked(S, >): the numbers of S, the largest first.
Descending(S) ==
  [i \in 1..Cardinality(S) |-> CHOOSE x \in S : Cardinality({y \in S : y > x}) = i - 1]

\* Every number of S has one place, the larger ones first.
Descends(list, S) ==
  /\ list \in [1..Cardinality(S) -> S]
  /\ \A x \in S : \E i \in 1..Cardinality(S) : list[i] = x
  /\ \A i, j \in 1..Cardinality(S) : i < j <=> list[i] > list[j]
  /\ \A i, j \in 1..Cardinality(S) : list[i] = list[j] => i = j

LEMMA DescendingList ==
  ASSUME NEW S \in SUBSET Int, IsFiniteSet(S), NEW list, list = Descending(S)
  PROVE  Descends(list, S)
  <1> DEFINE R == {p \in S \X S : p[1] > p[2]}
             Place(i) == CHOOSE x \in S : Cardinality({y \in S : y > x}) = i - 1
  <1>1. list = [i \in 1..Cardinality(S) |-> Place(i)]
    BY DEF Descending
  <1>2. \A x, y \in S : <<x, y>> \in R <=> x > y
    OBVIOUS
  <1>3. \A x \in S : {y \in S : <<y, x>> \in R} = {y \in S : y > x}
    BY <1>2
  <1>4. ASSUME NEW i \in 1..Cardinality(S), NEW x \in S, Cardinality({y \in S : y > x}) = i - 1
        PROVE  Place(i) \in S /\ Cardinality({y \in S : y > Place(i)}) = i - 1
    BY <1>4, Zenon
  <1>5. \A x, y, z \in S : x \in Int /\ y \in Int /\ z \in Int
    OBVIOUS
  <1> HIDE DEF R, Place
  <1>6. /\ \A x \in S : <<x, x>> \notin R
        /\ \A x, y, z \in S : <<x, y>> \in R /\ <<y, z>> \in R => <<x, z>> \in R
        /\ \A x, y \in S : x # y => <<x, y>> \in R \/ <<y, x>> \in R
    BY ONLY <1>2, <1>5
  <1>7. /\ list = [i \in 1..Cardinality(S) |-> list[i]]
        /\ \A i \in 1..Cardinality(S) : list[i] = Place(i)
    BY ONLY <1>1
  <1>8. \A i \in 1..Cardinality(S), x \in S : Cardinality({y \in S : <<y, x>> \in R}) = i - 1 =>
          list[i] \in S /\ Cardinality({y \in S : <<y, list[i]>> \in R}) = i - 1
    BY <1>3, <1>4, <1>7, Zenon
  <1>9. /\ list \in [1..Cardinality(S) -> S]
        /\ \A x \in S : \E i \in 1..Cardinality(S) : list[i] = x
        /\ \A i, j \in 1..Cardinality(S) : i < j <=> <<list[i], list[j]>> \in R
        /\ \A i, j \in 1..Cardinality(S) : list[i] = list[j] => i = j
    <2>1. OrdersAll(R, S)
      BY <1>6 DEF OrdersAll
    <2>2. PlacedBy(list, S, R)
      BY <1>7, <1>8, Zenon DEF PlacedBy
    <2>3. ListedBy(list, S, R)
      BY ONLY IsFiniteSet(S), <2>1, <2>2, RankedLists, Zenon
    <2> QED
      BY ONLY <2>3, Zenon DEF ListedBy
  <1>10. \A i \in 1..Cardinality(S) : list[i] \in S
    BY <1>9, Zenon
  <1> QED
    BY <1>2, <1>9, <1>10, Zenon DEF Descends

\* kept are the elements of list at the places I.
SiftedTo(kept, list, I, E) ==
  /\ kept \in Seq(E) /\ Len(kept) = Cardinality(I) /\ Len(kept) \in Nat
  /\ \A k \in 1..Len(kept) : Ascending(I)[k] \in I /\ kept[k] = list[Ascending(I)[k]]
  /\ \A k, l \in 1..Len(kept) : Ascending(I)[k] = Ascending(I)[l] => k = l

\* What a list has at some of its places, Filtered(list, Passes) for one.
LEMMA FilteredList ==
  ASSUME NEW E, NEW list \in Seq(E), NEW I \in SUBSET DOMAIN list
  PROVE  SiftedTo(TakenAt(list, I), list, I, E)
  <1>0. PICK places : places = Ascending(I)
    OBVIOUS
  <1>10. PICK kept : kept = [k \in DOMAIN places |-> list[places[k]]]
    OBVIOUS
  <1>11. kept = TakenAt(list, I)
    BY <1>0, <1>10 DEF TakenAt, Ranked, Ascending
  <1>1. IsFiniteSet(DOMAIN list) /\ DOMAIN list \in SUBSET Int
    BY FS_Interval
  <1>2. IsFiniteSet(I) /\ Cardinality(I) \in Nat /\ I \in SUBSET Int
    <2>1. IsFiniteSet(I)
      BY <1>1, FS_Subset, Zenon
    <2> QED
      BY <2>1, <1>1, FS_CardinalityType
  <1>3. /\ places \in [1..Cardinality(I) -> I]
        /\ \A x \in I : \E i \in 1..Cardinality(I) : places[i] = x
        /\ \A i, j \in 1..Cardinality(I) : i < j <=> places[i] < places[j]
        /\ \A i, j \in 1..Cardinality(I) : places[i] = places[j] => i = j
    <2>1. I \in SUBSET Int /\ IsFiniteSet(I)
      BY <1>2
    <2>2. Ascends(places, I)
      BY <1>0, <2>1, AscendingList, Zenon
    <2> QED
      BY ONLY <2>2, Zenon DEF Ascends
  <1>4. /\ DOMAIN kept = 1..Cardinality(I) /\ \A k \in 1..Cardinality(I) : places[k] \in I
        /\ kept = [k \in 1..Cardinality(I) |-> list[places[k]]]
    BY ONLY <1>10, <1>3
  <1>a. \A i \in I : list[i] \in E
    OBVIOUS
  <1>5. \A k \in 1..Cardinality(I) : list[places[k]] \in E
    BY ONLY <1>4, <1>a
  <1>6. kept \in Seq(E) /\ Len(kept) = Cardinality(I)
    BY ONLY <1>2, <1>4, <1>5
  <1>7. /\ kept \in Seq(E) /\ Len(kept) = Cardinality(I) /\ Len(kept) \in Nat
        /\ \A k \in 1..Len(kept) : places[k] \in I /\ kept[k] = list[places[k]]
        /\ \A k, l \in 1..Len(kept) : places[k] = places[l] => k = l
    BY ONLY <1>2, <1>3, <1>4, <1>6
  <1> QED
    BY ONLY <1>7, <1>0, <1>11, Zenon DEF SiftedTo

\* Values all different that make up 1..m are m.
LEMMA NumbersCounted ==
  ASSUME NEW f, IsFiniteSet(DOMAIN f), IsInjective(f), NEW m \in Nat, Range(f) = 1..m
  PROVE  Cardinality(DOMAIN f) = m
  <1>1. PICK D : D = DOMAIN f
    OBVIOUS
  <1>2. PICK g : g = [x \in D |-> f[x]]
    OBVIOUS
  <1>3. g \in [D -> 1..m] /\ \A y \in 1..m : \E x \in D : g[x] = y
    BY <1>1, <1>2 DEF Range
  <1>4. \A x, y \in D : g[x] = g[y] => x = y
    BY <1>1, <1>2 DEF IsInjective
  <1>5. g \in Bijection(D, 1..m)
    BY <1>3, <1>4 DEF Bijection, Injection, Surjection, IsInjective
  <1>6. IsFiniteSet(1..m) /\ Cardinality(1..m) = m
    BY FS_Interval
  <1> QED
    BY <1>1, <1>5, <1>6, FS_Bijection, Zenon DEF ExistsBijection

-----------------------------------------------------------------------------
(* Sums *)

\* it[s] sums up, over the members of s, how many elements of E have them as
\* their key.
SumsUp(it, D, E, key) ==
  /\ it[{}] = 0
  /\ \A s \in SUBSET D : s # {} =>
       \E x \in s : it[s] = Cardinality({e \in E : key[e] = x}) + it[s \ {x}]

\* The elements of E whose key is in s.
KeyedIn(E, key, s) == {e \in E : key[e] \in s}

\* These are what is summed up.
LEMMA SumOfClasses ==
  ASSUME NEW D, IsFiniteSet(D), NEW E, IsFiniteSet(E), NEW key, NEW it, SumsUp(it, D, E, key)
  PROVE  it[D] = Cardinality(KeyedIn(E, key, D))
  <1> USE DEF SumsUp, KeyedIn
  <1> DEFINE Class(s) == {e \in E : key[e] \in s}
             Adds(s) == it[s] = Cardinality(Class(s))
             T == {k \in Nat : \A s \in SUBSET D : Cardinality(s) = k => Adds(s)}
  <1>0. \A s \in SUBSET D : IsFiniteSet(s) /\ Cardinality(s) \in Nat
    BY FS_Subset, FS_CardinalityType
  <1>1. 0 \in T
    <2>1. \A s \in SUBSET D : Cardinality(s) = 0 => s = {}
      BY <1>0, FS_EmptySet
    <2>2. Class({}) = {} /\ Cardinality({}) = 0
      BY FS_EmptySet
    <2>3. Adds({})
      BY <2>2
    <2> HIDE DEF Adds
    <2> QED
      BY <2>1, <2>3
  <1>2. ASSUME NEW k \in Nat, k \in T PROVE k + 1 \in T
    <2> SUFFICES ASSUME NEW s \in SUBSET D, Cardinality(s) = k + 1 PROVE Adds(s)
      OBVIOUS
    <2>1. s # {}
      BY FS_EmptySet
    <2>2. PICK x \in s : it[s] = Cardinality({e \in E : key[e] = x}) + it[s \ {x}]
      BY <2>1
    <2>3. s \ {x} \in SUBSET D /\ Cardinality(s \ {x}) = k
      BY <1>0, CardinalityLess
    <2>4. Adds(s \ {x})
      BY <2>3, <1>2
    <2> DEFINE One == {e \in E : key[e] = x}
               Rest == Class(s \ {x})
    <2>5. One \in SUBSET E /\ Rest \in SUBSET E /\ Class(s) = One \cup Rest /\ One \cap Rest = {}
      OBVIOUS
    <2>6. it[s] = Cardinality(One) + Cardinality(Rest)
      BY <2>2, <2>4
    <2> HIDE DEF One, Rest, Class
    <2>7. IsFiniteSet(One) /\ IsFiniteSet(Rest)
      BY <2>5, FS_Subset
    <2>8. Cardinality(One \cup Rest) = Cardinality(One) + Cardinality(Rest) - Cardinality(One \cap Rest)
      BY <2>7, FS_Union, Zenon
    <2>9. Cardinality(One) \in Nat /\ Cardinality(Rest) \in Nat /\ Cardinality(One \cap Rest) = 0
      BY <2>5, <2>7, FS_CardinalityType, FS_EmptySet, Zenon
    <2>10. Cardinality(One \cup Rest) = Cardinality(One) + Cardinality(Rest)
      BY ONLY <2>8, <2>9
    <2> QED
      BY <2>5, <2>6, <2>10, Zenon
  <1>3. Nat \subseteq T
    <2> HIDE DEF T
    <2> QED
      BY <1>1, <1>2, Induct
  <1>4. Cardinality(D) \in T
    BY <1>3, FS_CardinalityType
  <1> QED
    BY <1>4

-----------------------------------------------------------------------------
(* Lists joined one after the other *)

\* out has what the lists of seqs have.
Flat(out, seqs, S) ==
  /\ out \in Seq(S)
  /\ \A i \in 1..Len(seqs) : \A k \in 1..Len(seqs[i]) : \E m \in 1..Len(out) : out[m] = seqs[i][k]

\* Two lists one after the other have what both have.
LEMMA BothIn ==
  ASSUME NEW S, NEW a \in Seq(S), NEW b \in Seq(S)
  PROVE  /\ a \o b \in Seq(S)
         /\ \A k \in 1..Len(a) : \E m \in 1..Len(a \o b) : (a \o b)[m] = a[k]
         /\ \A k \in 1..Len(b) : \E m \in 1..Len(a \o b) : (a \o b)[m] = b[k]
  <1>1. /\ Len(a) \in Nat /\ Len(b) \in Nat /\ Len(a \o b) = Len(a) + Len(b) /\ a \o b \in Seq(S)
        /\ \A i \in 1 .. Len(a) + Len(b) : (a \o b)[i] = IF i <= Len(a) THEN a[i] ELSE b[i - Len(a)]
    BY ConcatProperties, LenProperties
  <1>2. ASSUME NEW k \in 1..Len(a) PROVE \E m \in 1..Len(a \o b) : (a \o b)[m] = a[k]
    <2>1. k \in 1..Len(a \o b) /\ (a \o b)[k] = a[k]
      BY <1>1
    <2> QED
      BY <2>1
  <1>3. ASSUME NEW k \in 1..Len(b) PROVE \E m \in 1..Len(a \o b) : (a \o b)[m] = b[k]
    <2>1. Len(a) + k \in 1..Len(a \o b) /\ (a \o b)[Len(a) + k] = b[k]
      BY <1>1
    <2> QED
      BY <2>1
  <1> QED
    BY <1>1, <1>2, <1>3

\* f joins the first k of the lists.
JoinedUpTo(f, seqs, k) ==
  \A m \in 1..k : f[m] = IF m = 1 THEN seqs[1] ELSE f[m - 1] \o seqs[m]

\* The lists that are joined have a list of what is joined so far at each place.
LEMMA PrefixesExist ==
  ASSUME NEW S, NEW seqs \in Seq(Seq(S))
  PROVE  \E f \in [1..Len(seqs) -> Seq(S)] : JoinedUpTo(f, seqs, Len(seqs))
  <1> DEFINE n == Len(seqs)
             T == {k \in Nat : k <= n => \E f \in [1..k -> Seq(S)] : JoinedUpTo(f, seqs, k)}
  <1>0. n \in Nat /\ \A i \in 1..n : seqs[i] \in Seq(S)
    OBVIOUS
  <1>1. 0 \in T
    <2>1. PICK f : f = [m \in 1..0 |-> <<>>]
      OBVIOUS
    <2>2. f \in [1..0 -> Seq(S)] /\ JoinedUpTo(f, seqs, 0)
      BY <2>1 DEF JoinedUpTo
    <2> QED
      BY <2>2
  <1>2. \A k \in Nat : k \in T => k + 1 \in T
    <2> SUFFICES ASSUME NEW k \in Nat, k \in T, k + 1 <= n
                 PROVE  \E f \in [1..(k + 1) -> Seq(S)] : JoinedUpTo(f, seqs, k + 1)
      OBVIOUS
    <2>1. PICK f \in [1..k -> Seq(S)] : JoinedUpTo(f, seqs, k)
      BY <1>0
    <2>2. PICK last : last = IF k = 0 THEN seqs[1] ELSE f[k] \o seqs[k + 1]
      OBVIOUS
    <2>3. last \in Seq(S)
      <3>1. CASE k = 0
        BY <1>0, <2>2, <3>1
      <3>2. CASE k # 0
        <4>1. f[k] \in Seq(S) /\ seqs[k + 1] \in Seq(S)
          BY <1>0, <3>2
        <4> QED
          BY <2>2, <3>2, <4>1, ConcatProperties
      <3> QED
        BY <3>1, <3>2
    <2>4. PICK h : h = [m \in 1..(k + 1) |-> IF m = k + 1 THEN last ELSE f[m]]
      OBVIOUS
    <2>5. h \in [1..(k + 1) -> Seq(S)]
      BY <2>3, <2>4
    <2>6. ASSUME NEW m \in 1..(k + 1)
          PROVE  h[m] = IF m = 1 THEN seqs[1] ELSE h[m - 1] \o seqs[m]
      <3>1. CASE m = k + 1
        <4>1. h[m] = last
          BY <2>4, <3>1
        <4>2. m # 1 => m = k + 1 /\ k # 0 /\ m - 1 = k /\ m - 1 \in 1..(k + 1) /\ m - 1 # k + 1
          BY <3>1
        <4>3. m # 1 => h[m - 1] = f[k]
          BY <2>4, <4>2
        <4>4. m = 1 => k = 0
          BY <3>1
        <4> QED
          BY <2>2, <4>1, <4>2, <4>3, <4>4
      <3>2. CASE m # k + 1
        <4>1. m \in 1..k /\ h[m] = f[m]
          BY <2>4, <3>2
        <4>2. m # 1 => m - 1 \in 1..(k + 1) /\ m - 1 # k + 1
          BY <4>1
        <4>3. m # 1 => h[m - 1] = f[m - 1]
          BY <2>4, <4>2
        <4>4. f[m] = IF m = 1 THEN seqs[1] ELSE f[m - 1] \o seqs[m]
          BY <2>1, <4>1 DEF JoinedUpTo
        <4> QED
          BY <4>1, <4>3, <4>4
      <3> QED
        BY <3>1, <3>2
    <2> QED
      BY <2>5, <2>6 DEF JoinedUpTo
  <1>3. Nat \subseteq T
    <2> HIDE DEF T
    <2> QED
      BY <1>1, <1>2, Induct
  <1> QED
    BY <1>0, <1>3

\* What is joined at the last place has what every list has.
LEMMA PrefixesFlat ==
  ASSUME NEW S, NEW seqs \in Seq(Seq(S)), NEW f, Len(seqs) # 0, JoinedUpTo(f, seqs, Len(seqs))
  PROVE  Flat(f[Len(seqs)], seqs, S)
  <1> DEFINE n == Len(seqs)
             Has(k) == /\ f[k] \in Seq(S)
                       /\ \A i \in 1..k : \A m \in 1..Len(seqs[i]) : \E l \in 1..Len(f[k]) : f[k][l] = seqs[i][m]
             T == {k \in Nat : k + 1 <= n => Has(k + 1)}
  <1>0. n \in Nat /\ \A i \in 1..n : seqs[i] \in Seq(S)
    OBVIOUS
  <1>1. Has(1)
    <2>1. 1 \in 1..n /\ f[1] = seqs[1] /\ seqs[1] \in Seq(S)
      BY <1>0 DEF JoinedUpTo
    <2> QED
      BY <2>1
  <1>2. ASSUME NEW k \in Nat, Has(k + 1), (k + 1) + 1 <= n
        PROVE  Has((k + 1) + 1)
    <2>1. f[k + 1] \in Seq(S) /\ Has(k + 1)
      BY <1>0, <1>2
    <2>2. (k + 1) + 1 \in 1..n /\ (k + 1) + 1 # 1 /\ ((k + 1) + 1) - 1 = k + 1
      BY <1>0, <1>2
    <2>3. f[(k + 1) + 1] = f[k + 1] \o seqs[(k + 1) + 1] /\ seqs[(k + 1) + 1] \in Seq(S)
      BY <1>0, <2>2 DEF JoinedUpTo
    <2>4. PICK a \in Seq(S) : a = f[k + 1]
      BY <2>1
    <2>5. PICK b \in Seq(S) : b = seqs[(k + 1) + 1]
      BY <2>3
    <2>6. PICK c : c = a \o b
      OBVIOUS
    <2>7. /\ c \in Seq(S)
          /\ \A l \in 1..Len(a) : \E m \in 1..Len(c) : c[m] = a[l]
          /\ \A l \in 1..Len(b) : \E m \in 1..Len(c) : c[m] = b[l]
      <3>1. a \in Seq(S) /\ b \in Seq(S)
        OBVIOUS
      <3>2. /\ a \o b \in Seq(S)
            /\ \A l \in 1..Len(a) : \E m \in 1..Len(a \o b) : (a \o b)[m] = a[l]
            /\ \A l \in 1..Len(b) : \E m \in 1..Len(a \o b) : (a \o b)[m] = b[l]
        BY ONLY <3>1, BothIn
      <3> QED
        BY ONLY <2>6, <3>2
    <2>8. \A i \in 1..((k + 1) + 1) : i \in 1..(k + 1) \/ i = (k + 1) + 1
      OBVIOUS
    <2>9. \A i \in 1..(k + 1) : \A m \in 1..Len(seqs[i]) : \E l \in 1..Len(c) : c[l] = seqs[i][m]
      <3> TAKE i \in 1..(k + 1)
      <3> TAKE m \in 1..Len(seqs[i])
      <3>1. PICK l \in 1..Len(a) : a[l] = seqs[i][m]
        BY <2>1, <2>4
      <3> QED
        BY <2>7, <3>1
    <2>10. f[(k + 1) + 1] = c
      BY <2>3, <2>4, <2>5, <2>6
    <2> QED
      BY <2>5, <2>7, <2>8, <2>9, <2>10
  <1> HIDE DEF Has
  <1>3. \A k \in Nat : k + 1 <= n => Has(k + 1)
    <2>1. 0 \in T
      <3>1. 0 + 1 = 1
        OBVIOUS
      <3> QED
        BY <1>1, <3>1
    <2>2. \A k \in Nat : k \in T => k + 1 \in T
      BY <1>0, <1>2
    <2>3. Nat \subseteq T
      <3> HIDE DEF T
      <3> QED
        BY <2>1, <2>2, Induct
    <2> QED
      BY <2>3
  <1>4. n - 1 \in Nat /\ (n - 1) + 1 = n
    <2>1. n # 0
      OBVIOUS
    <2> QED
      BY <1>0, <2>1
  <1>5. Has(n)
    <2> HIDE DEF n
    <2>1. (n - 1) + 1 <= n
      BY <1>0
    <2> QED
      BY <1>3, <1>4, <2>1
  <1> QED
    BY <1>5 DEF Flat, Has

\* The lists of a list of lists, one after the other.
LEMMA Flattened ==
  ASSUME NEW S, NEW seqs \in Seq(Seq(S))
  PROVE  Flat(FlattenSeq(seqs), seqs, S)
  <1>1. CASE Len(seqs) = 0
    <2>1. FlattenSeq(seqs) = seqs /\ seqs = <<>>
      BY <1>1 DEF FlattenSeq
    <2>2. seqs \in Seq(S)
      BY <2>1
    <2> QED
      BY <1>1, <2>1, <2>2 DEF Flat
  <1>2. CASE Len(seqs) # 0
    <2> DEFINE Eq(f) == f = [m \in 1..Len(seqs) |-> IF m = 1 THEN seqs[m] ELSE f[m - 1] \o seqs[m]]
               it == CHOOSE f : Eq(f)
    <2>1. FlattenSeq(seqs) = it[Len(seqs)]
      BY <1>2 DEF FlattenSeq
    <2>2. PICK f \in [1..Len(seqs) -> Seq(S)] : JoinedUpTo(f, seqs, Len(seqs))
      BY PrefixesExist
    <2>3. Eq(f)
      BY <2>2 DEF JoinedUpTo
    <2>4. Eq(it)
      <3> HIDE DEF Eq
      <3> QED
        BY <2>3
    <2> HIDE DEF it
    <2>5. JoinedUpTo(it, seqs, Len(seqs))
      BY <2>4 DEF JoinedUpTo
    <2> QED
      BY <1>2, <2>1, <2>5, PrefixesFlat
  <1> QED
    BY <1>1, <1>2
=============================================================================
