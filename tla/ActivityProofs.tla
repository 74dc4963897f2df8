--------------------------- MODULE ActivityProofs ---------------------------
(***************************************************************************)
(* Theorems about the activities and the LLM call below them, for any      *)
(* number of attempts, answers, goroutines and callers.                    *)
(*                                                                         *)
(* The first part is about the data: a first-order induction over the      *)
(* subsets of a finite set, the sums of the community modules by their     *)
(* recursive equation, and the order in which answers are collected.       *)
(***************************************************************************)
EXTENDS MCActivities, FiniteSetsExt, FiniteSetTheorems, SequenceTheorems, TLAPS

\* A set of natural numbers that is not empty has a least one.
LEMMA LeastNatural ==
    ASSUME NEW T \in SUBSET Nat, T # {}
    PROVE  \E n \in T : \A m \in T : n <= m
<1>1. \E R : IsWellFoundedOn(R, Nat) /\ \A m, n \in Nat : m < n => <<m, n>> \in R
  BY NatLessThanWellFounded DEF OpToRel
<1>2. PICK R : IsWellFoundedOn(R, Nat) /\ \A m, n \in Nat : m < n => <<m, n>> \in R
  BY <1>1
<1>3. \E n \in T : \A m \in T : ~(<<m, n>> \in R)
  <2>1. IsWellFoundedOn(R, Nat) /\ T \subseteq Nat /\ T # {}
    BY <1>2
  <2>2. QED
    BY <2>1, WFMin
<1>4. PICK n \in T : \A m \in T : ~(<<m, n>> \in R)
  BY <1>3
<1>5. \A m \in T : ~(m < n)
  BY <1>2, <1>4
<1>6. QED
  BY <1>5

\* Induction over the natural numbers, for the set T of those that have a
\* property.
LEMMA Reaches ==
    ASSUME NEW T, 0 \in T, \A n \in Nat : n \in T => n + 1 \in T
    PROVE  Nat \subseteq T
<1>1. SUFFICES ASSUME Nat \ T # {} PROVE FALSE
  OBVIOUS
<1>2. PICK n \in Nat \ T : \A m \in Nat \ T : n <= m
  BY <1>1, LeastNatural
<1>3. n # 0 /\ n - 1 \in Nat
  OBVIOUS
<1>4. QED
  BY <1>2, <1>3

\* A set of subsets of a finite set that is not empty has a minimal one.
LEMMA MinimalSubset ==
    ASSUME NEW S, IsFiniteSet(S), NEW Bad \in SUBSET SUBSET S, Bad # {}
    PROVE  \E t \in Bad : \A s \in Bad : s \subseteq t => s = t
<1>1. IsWellFoundedOn(StrictSubsetOrdering(S), SUBSET S)
  BY FS_StrictSubsetOrderingWellFounded, FS_FiniteSubsetsOfFinite
<1>2. \E t \in Bad : \A s \in Bad : ~(<<s, t>> \in StrictSubsetOrdering(S))
  <2>1. Bad \subseteq SUBSET S
    OBVIOUS
  <2>2. QED
    BY <1>1, <2>1, WFMin
<1>3. QED
  BY <1>2 DEF StrictSubsetOrdering

\* Induction over the subsets of a finite set, for the set U of those that have
\* a property.
LEMMA Grows ==
    ASSUME NEW S, IsFiniteSet(S), NEW U, {} \in U,
           \A s \in SUBSET S : \A x \in S \ s : s \in U => s \cup {x} \in U
    PROVE  S \in U
<1> DEFINE Bad == {s \in SUBSET S : s \notin U}
<1>1. SUFFICES ASSUME Bad # {} PROVE FALSE
  OBVIOUS
<1>2. PICK t \in Bad : \A s \in Bad : s \subseteq t => s = t
  <2>1. Bad \in SUBSET SUBSET S
    OBVIOUS
  <2> HIDE DEF Bad
  <2>2. QED
    BY <1>1, <2>1, MinimalSubset
<1>3. PICK x \in t : TRUE
  BY <1>2
<1>4. t \ {x} \notin Bad
  BY <1>2, <1>3
<1>5. t = (t \ {x}) \cup {x} /\ x \in S \ (t \ {x}) /\ t \ {x} \in SUBSET S
  BY <1>2, <1>3
<1>6. QED
  BY <1>2, <1>4, <1>5

-----------------------------------------------------------------------------
\* The sum over a set of indices, as a table for its subsets.
OneOf(s) == CHOOSE x \in s : TRUE
SumStep(f, t, s) == IF s = {} THEN 0 ELSE f[OneOf(s)] + t[s \ {OneOf(s)}]
Solves(f, t, S) == t = [s \in SUBSET S |-> SumStep(f, t, s)]

\* The table up to the subsets of n elements.
SolvesUpTo(f, t, S, n) ==
    /\ t \in [SUBSET S -> Int]
    /\ \A s \in SUBSET S : Cardinality(s) <= n => t[s] = SumStep(f, t, s)

\* The sum over a set is what a table that follows the recursive equation has for it.
LEMMA SumByTable ==
    ASSUME NEW f, NEW S
    PROVE  SumFunctionOnSet(f, S) = (CHOOSE t : Solves(f, t, S))[S]
  BY DEF SumFunctionOnSet, FoldFunctionOnSet, MapThenFoldSet, Solves, SumStep, OneOf

\* One more element.
LEMMA TableGrows ==
    ASSUME NEW S, IsFiniteSet(S), NEW f, \A x \in S : f[x] \in Int,
           NEW n \in Nat, NEW t, SolvesUpTo(f, t, S, n)
    PROVE  \E u : SolvesUpTo(f, u, S, n + 1)
<1> DEFINE u == [s \in SUBSET S |-> IF Cardinality(s) <= n THEN t[s] ELSE SumStep(f, t, s)]
<1>1. \A s \in SUBSET S : s # {} => OneOf(s) \in s
  BY DEF OneOf
<1>2. \A s \in SUBSET S : SumStep(f, t, s) \in Int
  BY <1>1 DEF SumStep, SolvesUpTo
<1>3. u \in [SUBSET S -> Int]
  BY <1>2 DEF SolvesUpTo
<1>4. ASSUME NEW s \in SUBSET S, Cardinality(s) <= n + 1
      PROVE  u[s] = SumStep(f, u, s)
  <2>1. u[s] = SumStep(f, t, s)
    BY DEF SolvesUpTo
  <2>2. CASE s = {}
    BY <2>1, <2>2 DEF SumStep
  <2>3. CASE s # {}
    <3>1. s \ {OneOf(s)} \in SUBSET S /\ OneOf(s) \in s /\ IsFiniteSet(s)
      BY <1>1, <2>3, FS_Subset
    <3>2. Cardinality(s) \in Nat /\ Cardinality(s \ {OneOf(s)}) = Cardinality(s) - 1
      BY <3>1, FS_RemoveElement, FS_CardinalityType
    <3>3. Cardinality(s \ {OneOf(s)}) <= n
      BY <1>4, <3>2
    <3>4. u[s \ {OneOf(s)}] = t[s \ {OneOf(s)}]
      BY <3>1, <3>3
    <3>5. QED
      BY <2>1, <2>3, <3>4 DEF SumStep
  <2>4. QED
    BY <2>2, <2>3
<1>5. SolvesUpTo(f, u, S, n + 1)
  BY <1>3, <1>4 DEF SolvesUpTo
<1>6. QED
  BY <1>5

\* The values of a table are integers.
LEMMA TableTyped ==
    ASSUME NEW S, IsFiniteSet(S), NEW f, \A x \in S : f[x] \in Int,
           NEW t, \A s \in SUBSET S : t[s] = SumStep(f, t, s)
    PROVE  \A s \in SUBSET S : t[s] \in Int
<1> DEFINE Bad == {s \in SUBSET S : t[s] \notin Int}
<1>1. SUFFICES ASSUME Bad # {} PROVE FALSE
  OBVIOUS
<1>2. PICK s \in Bad : \A r \in Bad : r \subseteq s => r = s
  <2>1. Bad \in SUBSET SUBSET S
    OBVIOUS
  <2> HIDE DEF Bad
  <2>2. QED
    BY <1>1, <2>1, MinimalSubset
<1>3. t[s] = SumStep(f, t, s)
  BY <1>2
<1>4. CASE s = {}
  BY <1>2, <1>3, <1>4 DEF SumStep
<1>5. CASE s # {}
  <2>1. OneOf(s) \in s
    BY <1>5 DEF OneOf
  <2>2. t[s \ {OneOf(s)}] \in Int /\ f[OneOf(s)] \in Int
    BY <1>2, <2>1
  <2>3. QED
    BY <1>2, <1>3, <1>5, <2>2 DEF SumStep
<1>6. QED
  BY <1>4, <1>5

\* There is a table for all subsets, and so the sum is in it.
LEMMA SumTable ==
    ASSUME NEW S, IsFiniteSet(S), NEW f, \A x \in S : f[x] \in Int
    PROVE  \E t \in [SUBSET S -> Int] : Solves(f, t, S) /\ SumFunctionOnSet(f, S) = t[S]
<1> DEFINE T == {n \in Nat : \E t : SolvesUpTo(f, t, S, n)}
<1>1. 0 \in T
  <2> DEFINE t == [s \in SUBSET S |-> 0]
  <2>1. \A s \in SUBSET S : Cardinality(s) <= 0 => s = {}
    BY FS_Subset, FS_EmptySet, FS_CardinalityType
  <2>2. SolvesUpTo(f, t, S, 0)
    BY <2>1 DEF SolvesUpTo, SumStep
  <2>3. QED
    BY <2>2
<1>2. \A n \in Nat : n \in T => n + 1 \in T
  BY TableGrows
<1>3. Cardinality(S) \in T
  <2>1. Nat \subseteq T
    <3> HIDE DEF T
    <3>1. QED
      BY <1>1, <1>2, Reaches
  <2>2. QED
    BY <2>1, FS_CardinalityType
<1>4. PICK t : SolvesUpTo(f, t, S, Cardinality(S))
  BY <1>3
<1>5. \A s \in SUBSET S : Cardinality(s) <= Cardinality(S)
  BY FS_Subset
<1>6. Solves(f, t, S)
  BY <1>4, <1>5 DEF SolvesUpTo, Solves
<1> DEFINE c == CHOOSE u : Solves(f, u, S)
<1>7. Solves(f, c, S)
  BY <1>6
<1> HIDE DEF c
<1>8. SumFunctionOnSet(f, S) = c[S]
  BY SumByTable DEF c
<1>9. \A s \in SUBSET S : c[s] = SumStep(f, c, s)
  BY <1>7 DEF Solves
<1>10. c \in [SUBSET S -> Int]
  BY <1>7, <1>9, TableTyped DEF Solves
<1>11. QED
  BY <1>7, <1>8, <1>10

\* Two tables agree on the sets for which their functions do.
LEMMA TablesAgree ==
    ASSUME NEW S, NEW R \in SUBSET S, IsFiniteSet(R), NEW f, NEW g, NEW t, NEW u,
           Solves(f, t, S), Solves(g, u, R), \A x \in R : f[x] = g[x]
    PROVE  t[R] = u[R]
<1> DEFINE Bad == {s \in SUBSET R : t[s] # u[s]}
<1>1. SUFFICES ASSUME Bad # {} PROVE FALSE
  OBVIOUS
<1>2. PICK s \in Bad : \A r \in Bad : r \subseteq s => r = s
  <2>1. Bad \in SUBSET SUBSET R
    OBVIOUS
  <2> HIDE DEF Bad
  <2>2. QED
    BY <1>1, <2>1, MinimalSubset
<1>3. t[s] = SumStep(f, t, s) /\ u[s] = SumStep(g, u, s)
  BY <1>2 DEF Solves
<1>4. CASE s = {}
  BY <1>2, <1>3, <1>4 DEF SumStep
<1>5. CASE s # {}
  <2>1. OneOf(s) \in s
    BY <1>5 DEF OneOf
  <2>2. t[s \ {OneOf(s)}] = u[s \ {OneOf(s)}] /\ f[OneOf(s)] = g[OneOf(s)]
    BY <1>2, <2>1
  <2>3. QED
    BY <1>2, <1>3, <1>5, <2>2 DEF SumStep
<1>6. QED
  BY <1>4, <1>5

\* In a table any element may be the last to be added.
Takes(f, t, S) == \A s \in SUBSET S : \A x \in s : t[s] = f[x] + t[s \ {x}]

\* A table that solves the equation takes the members of a set in any order.
LEMMA TableTakes ==
    ASSUME NEW S, IsFiniteSet(S), NEW f, \A x \in S : f[x] \in Int,
           NEW t \in [SUBSET S -> Int], Solves(f, t, S)
    PROVE  Takes(f, t, S)
<1> USE DEF Takes
<1> DEFINE Bad == {s \in SUBSET S : \E x \in s : t[s] # f[x] + t[s \ {x}]}
<1>1. SUFFICES ASSUME Bad # {} PROVE FALSE
  BY Zenon
<1>2. PICK s \in Bad : \A r \in Bad : r \subseteq s => r = s
  <2>1. Bad \in SUBSET SUBSET S
    OBVIOUS
  <2> HIDE DEF Bad
  <2>2. QED
    BY <1>1, <2>1, MinimalSubset
<1>3. PICK x \in s : t[s] # f[x] + t[s \ {x}]
  BY <1>2
<1> DEFINE y == OneOf(s)
<1>4. y \in s
  BY <1>3 DEF OneOf
<1>5. t[s] = f[y] + t[s \ {y}]
  BY <1>2, <1>3 DEF Solves, SumStep
<1> HIDE DEF y
<1>6. x # y
  BY <1>3, <1>5
<1>7. ASSUME NEW r \in SUBSET S, r \subseteq s, r # s, NEW z \in r
      PROVE  t[r] = f[z] + t[r \ {z}]
  BY <1>2, <1>7
<1>8. /\ t[s \ {y}] = f[x] + t[(s \ {y}) \ {x}]
      /\ t[s \ {x}] = f[y] + t[(s \ {x}) \ {y}]
  <2>1. /\ s \ {y} \in SUBSET S /\ s \ {y} \subseteq s /\ s \ {y} # s /\ x \in s \ {y}
        /\ s \ {x} \in SUBSET S /\ s \ {x} \subseteq s /\ s \ {x} # s /\ y \in s \ {x}
    BY <1>3, <1>4, <1>6
  <2>2. QED
    BY <1>7, <2>1
<1>9. (s \ {y}) \ {x} = (s \ {x}) \ {y}
  OBVIOUS
<1>10. f[x] \in Int /\ f[y] \in Int /\ t[(s \ {x}) \ {y}] \in Int
  BY <1>2, <1>3, <1>4
<1>11. f[y] + (f[x] + t[(s \ {x}) \ {y}]) = f[x] + (f[y] + t[(s \ {x}) \ {y}])
  BY <1>10
<1>12. QED
  BY <1>3, <1>5, <1>8, <1>9, <1>11, Zenon

-----------------------------------------------------------------------------

\* A sum of integers is an integer.
LEMMA SumTyped ==
    ASSUME NEW S, IsFiniteSet(S), NEW f, \A x \in S : f[x] \in Int
    PROVE  SumFunctionOnSet(f, S) \in Int
<1>1. PICK t \in [SUBSET S -> Int] : SumFunctionOnSet(f, S) = t[S]
  BY SumTable
<1>2. QED
  BY <1>1

\* The sum over no indices.
LEMMA SumOfNone ==
    ASSUME NEW f
    PROVE  SumFunctionOnSet(f, {}) = 0
<1>1. PICK t \in [SUBSET {} -> Int] : Solves(f, t, {}) /\ SumFunctionOnSet(f, {}) = t[{}]
  BY SumTable, FS_EmptySet
<1>2. QED
  BY <1>1 DEF Solves, SumStep

\* Two functions that agree have the same sum.
LEMMA SumOfEqual ==
    ASSUME NEW S, IsFiniteSet(S), NEW f, NEW g, \A x \in S : f[x] \in Int,
           \A x \in S : f[x] = g[x]
    PROVE  SumFunctionOnSet(f, S) = SumFunctionOnSet(g, S)
<1>1. PICK t \in [SUBSET S -> Int] : Solves(f, t, S) /\ SumFunctionOnSet(f, S) = t[S]
  BY SumTable
<1>2. PICK u \in [SUBSET S -> Int] : Solves(g, u, S) /\ SumFunctionOnSet(g, S) = u[S]
  BY SumTable
<1>3. QED
  BY <1>1, <1>2, TablesAgree

\* Any element may be the last to be added.
LEMMA SumOfMore ==
    ASSUME NEW S, IsFiniteSet(S), NEW f, \A x \in S : f[x] \in Int, NEW x \in S
    PROVE  SumFunctionOnSet(f, S) = f[x] + SumFunctionOnSet(f, S \ {x})
<1>1. PICK t \in [SUBSET S -> Int] : Solves(f, t, S) /\ SumFunctionOnSet(f, S) = t[S]
  BY SumTable
<1>2. IsFiniteSet(S \ {x}) /\ S \ {x} \in SUBSET S
  BY FS_RemoveElement
<1>3. PICK u \in [SUBSET (S \ {x}) -> Int] :
          Solves(f, u, S \ {x}) /\ SumFunctionOnSet(f, S \ {x}) = u[S \ {x}]
  BY <1>2, SumTable
<1>4. t[S \ {x}] = u[S \ {x}]
  BY <1>1, <1>2, <1>3, TablesAgree
<1>5. t[S] = f[x] + t[S \ {x}]
  <2>1. Takes(f, t, S)
    BY <1>1, TableTakes
  <2>2. QED
    BY <2>1 DEF Takes
<1>6. QED
  BY <1>1, <1>3, <1>4, <1>5

\* i comes before j.
Precedes(key, i, j) == key[i] < key[j] \/ (key[i] = key[j] /\ i < j)

\* s has all of S, each once, in the order of their keys.
IsOrder(s, S, key) ==
    /\ s \in [1..Cardinality(S) -> S]
    /\ \A i \in S : \E k \in DOMAIN s : s[k] = i
    /\ \A j, k \in DOMAIN s : j < k => Precedes(key, s[j], s[k])
    /\ \A j, k \in DOMAIN s : s[j] = s[k] => j = k

\* Sorted sorts.
LEMMA SortedIsOrder ==
    ASSUME NEW S \in SUBSET Int, IsFiniteSet(S), NEW key, \A i \in S : key[i] \in Int
    PROVE  IsOrder(Sorted(S, key), S, key) /\ Cardinality(S) \in Nat
<1> DEFINE n == Cardinality(S)
           rank == [i \in S |-> Cardinality(UpTo(S, key, i))]
           s == Sorted(S, key)
<1>1. n \in Nat /\ IsFiniteSet(1..n) /\ Cardinality(1..n) = n
  BY FS_CardinalityType, FS_Interval
<1>2. \A i \in S : UpTo(S, key, i) \in SUBSET S /\ i \in UpTo(S, key, i)
  BY DEF UpTo
<1>3. \A i \in S : IsFiniteSet(UpTo(S, key, i)) /\ rank[i] \in 1..n
  <2>1. SUFFICES ASSUME NEW i \in S
        PROVE  IsFiniteSet(UpTo(S, key, i)) /\ rank[i] \in 1..n
    OBVIOUS
  <2>2. IsFiniteSet(UpTo(S, key, i)) /\ Cardinality(UpTo(S, key, i)) <= n
    BY <1>2, FS_Subset
  <2>3. Cardinality(UpTo(S, key, i)) \in Nat /\ Cardinality(UpTo(S, key, i)) # 0
    BY <1>2, <2>2, FS_CardinalityType, FS_EmptySet
  <2>4. QED
    BY <1>1, <2>2, <2>3
<1>4. ASSUME NEW i \in S, NEW j \in S, Precedes(key, i, j)
      PROVE  rank[i] < rank[j]
  <2>1. UpTo(S, key, i) \in SUBSET UpTo(S, key, j) /\ j \notin UpTo(S, key, i)
    <3>1. key[i] \in Int /\ key[j] \in Int /\ i \in Int /\ j \in Int
      OBVIOUS
    <3>2. ASSUME NEW m \in UpTo(S, key, i)
          PROVE  m \in UpTo(S, key, j) /\ m # j
      <4>1. m \in S /\ key[m] \in Int /\ m \in Int
        BY DEF UpTo
      <4>2. key[m] < key[i] \/ (key[m] = key[i] /\ m <= i)
        BY DEF UpTo
      <4>3. (key[m] < key[j] \/ (key[m] = key[j] /\ m <= j)) /\ m # j
        BY <1>4, <3>1, <4>1, <4>2 DEF Precedes
      <4>4. QED
        BY <4>1, <4>3 DEF UpTo
    <3>3. QED
      BY <3>2
  <2>2. Cardinality(UpTo(S, key, i)) <= Cardinality(UpTo(S, key, j))
    BY <1>3, <2>1, FS_Subset
  <2>3. Cardinality(UpTo(S, key, i)) # Cardinality(UpTo(S, key, j))
    BY <1>2, <1>3, <2>1, FS_Subset
  <2>4. QED
    BY <1>1, <1>3, <2>2, <2>3
<1>5. \A i, j \in S : i = j \/ Precedes(key, i, j) \/ Precedes(key, j, i)
  BY DEF Precedes
<1>6. \A i, j \in S : rank[i] = rank[j] => i = j
  <2> HIDE DEF rank
  <2>1. QED
    BY <1>1, <1>3, <1>4, <1>5
<1>7. rank \in [S -> 1..n] /\ rank \in Injection(S, 1..n)
  BY <1>3, <1>6 DEF Injection, IsInjective
<1>8. rank \in Surjection(S, 1..n)
  <2> HIDE DEF rank
  <2>1. QED
    BY <1>1, <1>7, FS_Injection
<1>9. ASSUME NEW k \in 1..n
      PROVE  s[k] \in S /\ rank[s[k]] = k
  <2>1. \E i \in S : rank[i] = k
    BY <1>8 DEF Surjection
  <2>2. s[k] = CHOOSE i \in S : rank[i] = k
    BY DEF Sorted
  <2> HIDE DEF rank, s
  <2>3. QED
    BY <2>1, <2>2
<1>10. s = [k \in 1..n |-> s[k]]
  BY DEF Sorted
<1> HIDE DEF rank, s
<1>11. s \in [1..n -> S]
  BY <1>9, <1>10
<1>12. \A i \in S : s[rank[i]] = i
  BY <1>3, <1>6, <1>9
<1>13. ASSUME NEW j \in 1..n, NEW k \in 1..n, j < k
       PROVE  Precedes(key, s[j], s[k])
  <2>1. s[j] # s[k] /\ ~(rank[s[k]] < rank[s[j]])
    BY <1>1, <1>9, <1>13
  <2>2. QED
    BY <1>4, <1>5, <1>9, <2>1
<1>14. IsOrder(s, S, key)
  BY <1>3, <1>9, <1>11, <1>12, <1>13 DEF IsOrder
<1>15. QED
  BY <1>1, <1>14 DEF s

\* InOrder is a sequence of all of S, ascending.
LEMMA InOrderAscends ==
    ASSUME NEW S \in SUBSET Int, IsFiniteSet(S)
    PROVE  /\ InOrder(S) \in [1..Cardinality(S) -> S] /\ Cardinality(S) \in Nat
           /\ \A i \in S : \E k \in DOMAIN InOrder(S) : InOrder(S)[k] = i
           /\ \A j, k \in DOMAIN InOrder(S) : j < k => InOrder(S)[j] < InOrder(S)[k]
<1> DEFINE key == [i \in S |-> 0]
<1>1. \A i \in S : key[i] = 0
  OBVIOUS
<1>2. InOrder(S) = Sorted(S, key)
  BY DEF InOrder
<1> HIDE DEF key
<1>3. IsOrder(InOrder(S), S, key) /\ Cardinality(S) \in Nat
  BY <1>1, <1>2, SortedIsOrder
<1> DEFINE s == InOrder(S)
<1> HIDE DEF s
<1>4. IsOrder(s, S, key)
  BY <1>3 DEF s
<1>5. ASSUME NEW j \in DOMAIN s, NEW k \in DOMAIN s, j < k
      PROVE  s[j] < s[k]
  <2>1. s[j] \in S /\ s[k] \in S /\ Precedes(key, s[j], s[k])
    BY <1>4, <1>5 DEF IsOrder
  <2>2. key[s[j]] = 0 /\ key[s[k]] = 0
    BY <1>1, <2>1
  <2>3. QED
    BY <2>1, <2>2 DEF Precedes
<1>6. QED
  BY <1>3, <1>4, <1>5 DEF IsOrder, s

\* The sums over the subsets of S.
Sums(f, S) == [s \in SUBSET S |-> SumFunctionOnSet(f, s)]

\* What an induction over the subsets needs to know of them.
AddsUp(F, f, S) ==
    /\ F \in [SUBSET S -> Int] /\ F[{}] = 0
    /\ \A s \in SUBSET S : \A x \in S \ s : F[s \cup {x}] = f[x] + F[s]

\* The sums over the subsets of a finite set add up.
LEMMA SumsGrow ==
    ASSUME NEW S, IsFiniteSet(S), NEW f, \A x \in S : f[x] \in Int
    PROVE  AddsUp(Sums(f, S), f, S) /\ Sums(f, S)[S] = SumFunctionOnSet(f, S)
<1>1. ASSUME NEW s \in SUBSET S
      PROVE  SumFunctionOnSet(f, s) \in Int
  <2>1. IsFiniteSet(s)
    BY FS_Subset
  <2>2. QED
    BY <2>1, SumTyped
<1>2. ASSUME NEW s \in SUBSET S, NEW x \in S \ s
      PROVE  SumFunctionOnSet(f, s \cup {x}) = f[x] + SumFunctionOnSet(f, s)
  <2>1. IsFiniteSet(s \cup {x}) /\ (s \cup {x}) \ {x} = s /\ s \cup {x} \in SUBSET S
    BY FS_Subset
  <2>2. SumFunctionOnSet(f, s \cup {x}) = f[x] + SumFunctionOnSet(f, (s \cup {x}) \ {x})
    BY <2>1, SumOfMore
  <2>3. QED
    BY <2>1, <2>2
<1>3. QED
  BY <1>1, <1>2, SumOfNone DEF Sums, AddsUp

\* Where each p * g[x] is at most m * f[x] + b, so are the sums.
LEMMA SumAtMost ==
    ASSUME NEW S, IsFiniteSet(S), NEW f, NEW g, NEW p \in Int, NEW m \in Int, NEW b \in Int,
           \A x \in S : f[x] \in Int /\ g[x] \in Int /\ p * g[x] <= m * f[x] + b
    PROVE  p * SumFunctionOnSet(g, S) <= m * SumFunctionOnSet(f, S) + b * Cardinality(S)
<1> DEFINE F == Sums(f, S)
           G == Sums(g, S)
           Good == {s \in SUBSET S : p * G[s] <= m * F[s] + b * Cardinality(s)}
<1>1. /\ AddsUp(F, f, S) /\ F[S] = SumFunctionOnSet(f, S)
      /\ AddsUp(G, g, S) /\ G[S] = SumFunctionOnSet(g, S)
  BY SumsGrow
<1> USE DEF AddsUp
<1> HIDE DEF F, G
<1>2. {} \in Good
  <2>1. p * 0 <= m * 0 + b * 0
    OBVIOUS
  <2>2. QED
    BY <1>1, <2>1, FS_EmptySet
<1>3. ASSUME NEW s \in Good, NEW x \in S \ s
      PROVE  s \cup {x} \in Good
  <2>1. IsFiniteSet(s)
    BY FS_Subset
  <2>2. Cardinality(s) \in Nat /\ Cardinality(s \cup {x}) = Cardinality(s) + 1
    BY <2>1, FS_CardinalityType, FS_AddElement
  <2>3. f[x] \in Int /\ g[x] \in Int /\ F[s] \in Int /\ G[s] \in Int
    BY <1>1
  <2>4. /\ \A q, u \in Int : m * (u + q) = m * u + m * q /\ p * (u + q) = p * u + p * q
        /\ \A k \in Nat : b * (k + 1) = b * k + b
    OBVIOUS
  <2>5. \A q \in Int, k \in Nat : m * q \in Int /\ p * q \in Int /\ b * k \in Int
    OBVIOUS
  <2>6. p * G[s] <= m * F[s] + b * Cardinality(s) /\ p * g[x] <= m * f[x] + b
    OBVIOUS
  <2>7. p * g[x] + p * G[s] <= (m * f[x] + m * F[s]) + (b * Cardinality(s) + b)
    <3>1. \A v, w, mf, mF, bk \in Int :
             v <= mF + bk /\ w <= mf + b => w + v <= (mf + mF) + (bk + b)
      OBVIOUS
    <3>2. QED
      BY <2>2, <2>3, <2>5, <2>6, <3>1
  <2>8. p * (g[x] + G[s]) <= m * (f[x] + F[s]) + b * (Cardinality(s) + 1)
    <3>1. /\ p * (g[x] + G[s]) = p * g[x] + p * G[s] /\ m * (f[x] + F[s]) = m * f[x] + m * F[s]
          /\ b * (Cardinality(s) + 1) = b * Cardinality(s) + b
      BY <2>2, <2>3, <2>4
    <3>2. QED
      BY <2>7, <3>1, Zenon
  <2>9. QED
    BY <1>1, <2>2, <2>8
<1>4. S \in Good
  <2>1. Good \in SUBSET SUBSET S
    OBVIOUS
  <2> HIDE DEF Good
  <2>2. QED
    BY <1>2, <1>3, <2>1, Grows
<1>5. QED
  BY <1>1, <1>4

\* A single number changes.
LEMMA SumChanges ==
    ASSUME NEW S, IsFiniteSet(S), NEW f, NEW g, \A x \in S : f[x] \in Int /\ g[x] \in Int,
           NEW x \in S, \A y \in S : y # x => f[y] = g[y]
    PROVE  SumFunctionOnSet(g, S) = SumFunctionOnSet(f, S) + g[x] - f[x]
<1>1. IsFiniteSet(S \ {x})
  BY FS_RemoveElement
<1>2. SumFunctionOnSet(f, S) = f[x] + SumFunctionOnSet(f, S \ {x})
  BY SumOfMore
<1>3. SumFunctionOnSet(g, S) = g[x] + SumFunctionOnSet(g, S \ {x})
  BY SumOfMore
<1>4. SumFunctionOnSet(f, S \ {x}) = SumFunctionOnSet(g, S \ {x})
  BY <1>1, SumOfEqual
<1>5. SumFunctionOnSet(f, S \ {x}) \in Int
  BY <1>1, SumTyped
<1>6. QED
  BY <1>2, <1>3, <1>4, <1>5

\* The numbers outside of T are 0.
LEMMA SumWithout ==
    ASSUME NEW S, IsFiniteSet(S), NEW f, \A x \in S : f[x] \in Int,
           NEW T \in SUBSET S, \A x \in S \ T : f[x] = 0
    PROVE  SumFunctionOnSet(f, S) = SumFunctionOnSet(f, T)
<1> DEFINE F == Sums(f, S)
           Good == {s \in SUBSET S : F[s] = F[s \cap T]}
<1>1. AddsUp(F, f, S) /\ F[S] = SumFunctionOnSet(f, S)
  BY SumsGrow
<1> USE DEF AddsUp
<1>2. F[T] = SumFunctionOnSet(f, T)
  BY DEF Sums
<1> HIDE DEF F
<1>3. {} \in Good
  <2>1. {} \cap T = {}
    OBVIOUS
  <2>2. QED
    BY <2>1
<1>4. ASSUME NEW s \in Good, NEW x \in S \ s
      PROVE  s \cup {x} \in Good
  <2>1. F[s \cup {x}] = f[x] + F[s] /\ F[s] = F[s \cap T] /\ F[s] \in Int
    BY <1>1
  <2>2. CASE x \in T
    <3>1. (s \cup {x}) \cap T = (s \cap T) \cup {x} /\ s \cap T \in SUBSET S /\ x \in S \ (s \cap T)
      BY <2>2
    <3>2. QED
      BY <1>1, <2>1, <3>1
  <2>3. CASE x \notin T
    <3>1. (s \cup {x}) \cap T = s \cap T /\ f[x] = 0
      BY <2>3
    <3>2. F[s \cup {x}] = F[s]
      BY <2>1, <3>1
    <3>3. F[s \cup {x}] = F[(s \cup {x}) \cap T]
      BY <2>1, <3>1, <3>2, Zenon
    <3>4. QED
      BY <3>3
  <2>4. QED
    BY <2>2, <2>3
<1>5. S \in Good
  <2>1. Good \in SUBSET SUBSET S
    OBVIOUS
  <2> HIDE DEF Good
  <2>2. QED
    BY <1>3, <1>4, <2>1, Grows
<1>6. S \cap T = T
  OBVIOUS
<1>7. QED
  BY <1>1, <1>2, <1>5, <1>6

\* Ones are counted.
LEMMA SumOfOnes ==
    ASSUME NEW S, IsFiniteSet(S), NEW f, \A x \in S : f[x] = 1
    PROVE  SumFunctionOnSet(f, S) = Cardinality(S)
<1> DEFINE F == Sums(f, S)
           Good == {s \in SUBSET S : F[s] = Cardinality(s)}
<1>1. AddsUp(F, f, S) /\ F[S] = SumFunctionOnSet(f, S)
  <2>1. \A x \in S : f[x] \in Int
    OBVIOUS
  <2>2. QED
    BY <2>1, SumsGrow
<1> USE DEF AddsUp
<1> HIDE DEF F
<1>2. {} \in Good
  BY <1>1, FS_EmptySet
<1>3. ASSUME NEW s \in Good, NEW x \in S \ s
      PROVE  s \cup {x} \in Good
  <2>1. IsFiniteSet(s)
    BY FS_Subset
  <2>2. Cardinality(s) \in Nat /\ Cardinality(s \cup {x}) = Cardinality(s) + 1
    BY <2>1, FS_CardinalityType, FS_AddElement
  <2>3. QED
    BY <1>1, <2>2
<1>4. S \in Good
  <2>1. Good \in SUBSET SUBSET S
    OBVIOUS
  <2> HIDE DEF Good
  <2>2. QED
    BY <1>2, <1>3, <2>1, Grows
<1>5. QED
  BY <1>1, <1>4

\* f is 1 on T and 0 elsewhere in S.
Marks(f, T, S) == \A x \in S : f[x] = IF x \in T THEN 1 ELSE 0

\* Those that are 1 are counted.
LEMMA SumCounts ==
    ASSUME NEW S, IsFiniteSet(S), NEW f, NEW T \in SUBSET S, Marks(f, T, S)
    PROVE  SumFunctionOnSet(f, S) = Cardinality(T)
<1> USE DEF Marks
<1>1. IsFiniteSet(T) /\ \A x \in T : f[x] = 1
  BY FS_Subset
<1>2. SumFunctionOnSet(f, T) = Cardinality(T)
  BY <1>1, SumOfOnes
<1>3. \A x \in S : f[x] \in Int /\ (x \in S \ T => f[x] = 0)
  OBVIOUS
<1>4. SumFunctionOnSet(f, S) = SumFunctionOnSet(f, T)
  BY <1>3, SumWithout
<1>5. QED
  BY <1>2, <1>4

\* Sums are monotonic.
LEMMA SumMonotonic ==
    ASSUME NEW S, IsFiniteSet(S), NEW f, NEW g,
           \A x \in S : f[x] \in Int /\ g[x] \in Int /\ g[x] <= f[x]
    PROVE  SumFunctionOnSet(g, S) <= SumFunctionOnSet(f, S)
<1>1. \A i, j \in Int : 1 * i = i /\ 1 * j + 0 = j
  OBVIOUS
<1>2. \A x \in S : f[x] \in Int /\ g[x] \in Int /\ 1 * g[x] <= 1 * f[x] + 0
  <2>1. ASSUME NEW x \in S
        PROVE  f[x] \in Int /\ g[x] \in Int /\ 1 * g[x] <= 1 * f[x] + 0
    BY <1>1, Zenon
  <2>2. QED
    BY <2>1, Zenon
<1>3. 1 \in Int /\ 0 \in Int
  OBVIOUS
<1>4. 1 * SumFunctionOnSet(g, S) <= 1 * SumFunctionOnSet(f, S) + 0 * Cardinality(S)
  BY <1>2, <1>3, SumAtMost, Zenon
<1>5. /\ SumFunctionOnSet(f, S) \in Int /\ SumFunctionOnSet(g, S) \in Int
      /\ Cardinality(S) \in Nat
  BY SumTyped, FS_CardinalityType
<1>6. QED
  BY <1>4, <1>5

\* The sum over a function's domain.
LEMMA SumOfFunction ==
    ASSUME NEW S, NEW f, DOMAIN f = S
    PROVE  SumFunction(f) = SumFunctionOnSet(f, S)
  BY DEF SumFunction

\* The numbers of f by another index.
Reindexed(f, o, D) == [j \in D |-> f[o[j]]]
Places(o, D) == {o[j] : j \in D}
OneToOne(o, D) == \A i, j \in D : o[i] = o[j] => i = j

\* The sum does not depend on the index.
LEMMA SumReindexed ==
    ASSUME NEW D, IsFiniteSet(D), NEW o, OneToOne(o, D), NEW f,
           \A j \in D : f[o[j]] \in Int
    PROVE  /\ SumFunctionOnSet(Reindexed(f, o, D), D) = SumFunctionOnSet(f, Places(o, D))
           /\ IsFiniteSet(Places(o, D)) /\ Cardinality(Places(o, D)) = Cardinality(D)
<1> DEFINE S == Places(o, D)
           g == Reindexed(f, o, D)
           p == [j \in D |-> o[j]]
<1>1. IsFiniteSet(S) /\ Cardinality(S) = Cardinality(D)
  <2>1. p \in Bijection(D, S)
    BY DEF Bijection, Injection, Surjection, IsInjective, OneToOne, Places
  <2> HIDE DEF p, S
  <2>2. IsFiniteSet(D) /\ p \in Bijection(D, S)
    BY <2>1
  <2>3. QED
    BY <2>2, FS_Bijection DEF ExistsBijection
<1>2. /\ \A j \in D : g[j] = f[o[j]] /\ g[j] \in Int /\ o[j] \in S
      /\ \A x \in S : f[x] \in Int
  BY DEF Reindexed, Places
<1> HIDE DEF S, g
<1> DEFINE F == Sums(f, S)
           G == Sums(g, D)
<1>3. /\ AddsUp(F, f, S) /\ F[S] = SumFunctionOnSet(f, S)
      /\ AddsUp(G, g, D) /\ G[D] = SumFunctionOnSet(g, D)
  BY <1>1, <1>2, SumsGrow
<1> HIDE DEF F, G
<1> DEFINE Good == {s \in SUBSET D : G[s] = F[Places(o, s)]}
<1>4. {} \in Good
  <2>1. Places(o, {}) = {}
    BY DEF Places
  <2>2. QED
    BY <1>3, <2>1 DEF AddsUp
<1>5. ASSUME NEW s \in SUBSET D, NEW x \in D \ s, s \in Good
      PROVE  s \cup {x} \in Good
  <2>1. /\ Places(o, s \cup {x}) = Places(o, s) \cup {o[x]}
        /\ Places(o, s) \in SUBSET S /\ o[x] \in S \ Places(o, s)
    BY <1>2 DEF Places, OneToOne, S
  <2>2. F[Places(o, s \cup {x})] = f[o[x]] + F[Places(o, s)]
    BY <1>3, <2>1 DEF AddsUp
  <2>3. G[s \cup {x}] = g[x] + G[s]
    BY <1>3 DEF AddsUp
  <2>4. QED
    BY <1>2, <1>5, <2>2, <2>3
<1>6. D \in Good
  <2> HIDE DEF Good
  <2>1. QED
    BY <1>4, <1>5, Grows
<1>7. QED
  BY <1>1, <1>3, <1>6 DEF S, g

\* The sum over two sets apart.
LEMMA SumOfParts ==
    ASSUME NEW S, IsFiniteSet(S), NEW f, \A x \in S : f[x] \in Int,
           NEW A \in SUBSET S, NEW B \in SUBSET S, A \cap B = {}
    PROVE  SumFunctionOnSet(f, A \cup B) = SumFunctionOnSet(f, A) + SumFunctionOnSet(f, B)
<1> DEFINE F == Sums(f, S)
<1>1. /\ AddsUp(F, f, S)
      /\ \A s \in SUBSET S : F[s] = SumFunctionOnSet(f, s)
  BY SumsGrow DEF Sums
<1> HIDE DEF F
<1>2. IsFiniteSet(B)
  BY FS_Subset
<1> DEFINE Good == {s \in SUBSET B : F[A \cup s] = F[A] + F[s]}
<1>3. {} \in Good
  <2>1. A \cup {} = A /\ F[A] \in Int /\ F[{}] = 0
    BY <1>1 DEF AddsUp
  <2>2. QED
    BY <2>1
<1>4. ASSUME NEW s \in SUBSET B, NEW x \in B \ s, s \in Good
      PROVE  s \cup {x} \in Good
  <2>1. /\ A \cup (s \cup {x}) = (A \cup s) \cup {x} /\ x \in S \ (A \cup s) /\ A \cup s \in SUBSET S
        /\ s \in SUBSET S /\ x \in S \ s
    OBVIOUS
  <2>2. F[(A \cup s) \cup {x}] = f[x] + F[A \cup s] /\ F[s \cup {x}] = f[x] + F[s]
    BY <1>1, <2>1 DEF AddsUp
  <2>3. F[A] \in Int /\ F[s] \in Int /\ f[x] \in Int
    BY <1>1, <2>1 DEF AddsUp
  <2>4. F[A \cup s] = F[A] + F[s] /\ F[A \cup (s \cup {x})] = F[(A \cup s) \cup {x}]
    BY <1>4, <2>1
  <2>5. F[A \cup (s \cup {x})] = F[A] + F[s \cup {x}]
    BY <2>2, <2>3, <2>4
  <2>6. QED
    BY <2>5
<1>5. B \in Good
  <2> HIDE DEF Good
  <2>1. QED
    BY <1>2, <1>3, <1>4, Grows
<1>6. QED
  BY <1>1, <1>5

\* Sums within bounds of their numbers.
LEMMA SumBounds ==
    ASSUME NEW S, IsFiniteSet(S), NEW f, NEW c \in Int, \A x \in S : f[x] \in Int
    PROVE  /\ SumFunctionOnSet(f, S) \in Int /\ Cardinality(S) \in Nat
           /\ (\A x \in S : f[x] <= c) => SumFunctionOnSet(f, S) <= c * Cardinality(S)
           /\ (\A x \in S : c <= f[x]) => c * Cardinality(S) <= SumFunctionOnSet(f, S)
<1> DEFINE F == Sums(f, S)
<1>1. AddsUp(F, f, S) /\ F[S] = SumFunctionOnSet(f, S)
  BY SumsGrow
<1> HIDE DEF F
<1>2. \A s \in SUBSET S : /\ IsFiniteSet(s) /\ Cardinality(s) \in Nat /\ F[s] \in Int
                          /\ \A x \in S \ s : Cardinality(s \cup {x}) = Cardinality(s) + 1
                                              /\ F[s \cup {x}] = f[x] + F[s]
  BY <1>1, FS_Subset, FS_CardinalityType, FS_AddElement DEF AddsUp
<1>3. \A k \in Nat : c * (k + 1) = c * k + c /\ c * k \in Int
  OBVIOUS
<1>4. Cardinality({}) = 0 /\ F[{}] = 0 /\ c * 0 = 0
  BY <1>1, FS_EmptySet DEF AddsUp
<1>5. ASSUME \A x \in S : f[x] <= c
      PROVE  F[S] <= c * Cardinality(S)
  <2> DEFINE Good == {s \in SUBSET S : F[s] <= c * Cardinality(s)}
  <2>1. {} \in Good
    BY <1>4
  <2>2. ASSUME NEW s \in SUBSET S, NEW x \in S \ s, s \in Good
        PROVE  s \cup {x} \in Good
    <3>1. /\ F[s \cup {x}] = f[x] + F[s] /\ f[x] \in Int /\ F[s] \in Int /\ f[x] <= c
          /\ c * Cardinality(s \cup {x}) = c * Cardinality(s) + c
          /\ c * Cardinality(s) \in Int /\ F[s] <= c * Cardinality(s)
      BY <1>2, <1>3, <1>5, <2>2
    <3>2. F[s \cup {x}] <= c * Cardinality(s \cup {x})
      BY <3>1
    <3>3. QED
      BY <3>2
  <2>3. S \in Good
    <3> HIDE DEF Good
    <3>1. QED
      BY <2>1, <2>2, Grows
  <2>4. QED
    BY <2>3
<1>6. ASSUME \A x \in S : c <= f[x]
      PROVE  c * Cardinality(S) <= F[S]
  <2> DEFINE Good == {s \in SUBSET S : c * Cardinality(s) <= F[s]}
  <2>1. {} \in Good
    BY <1>4
  <2>2. ASSUME NEW s \in SUBSET S, NEW x \in S \ s, s \in Good
        PROVE  s \cup {x} \in Good
    <3>1. /\ F[s \cup {x}] = f[x] + F[s] /\ f[x] \in Int /\ F[s] \in Int /\ c <= f[x]
          /\ c * Cardinality(s \cup {x}) = c * Cardinality(s) + c
          /\ c * Cardinality(s) \in Int /\ c * Cardinality(s) <= F[s]
      BY <1>2, <1>3, <1>6, <2>2
    <3>2. c * Cardinality(s \cup {x}) <= F[s \cup {x}]
      BY <3>1
    <3>3. QED
      BY <3>2
  <2>3. S \in Good
    <3> HIDE DEF Good
    <3>1. QED
      BY <2>1, <2>2, Grows
  <2>4. QED
    BY <2>3
<1>7. QED
  BY <1>1, <1>2, <1>5, <1>6

\* Sets of the same size differ by sets of the same size.
LEMMA SameSize ==
    ASSUME NEW A, IsFiniteSet(A), NEW T, IsFiniteSet(T), Cardinality(A) = Cardinality(T)
    PROVE  Cardinality(A \ T) = Cardinality(T \ A)
<1>1. /\ Cardinality(A \ T) = Cardinality(A) - Cardinality(A \cap T)
      /\ Cardinality(T \ A) = Cardinality(T) - Cardinality(T \cap A)
  BY FS_Difference
<1>2. A \cap T = T \cap A
  OBVIOUS
<1>3. QED
  BY <1>1, <1>2

\* As many numbers that are at most, or at least, the others have the least, or
\* the greatest, sum.
LEMMA ExtremeSum ==
    ASSUME NEW S, IsFiniteSet(S), NEW f, \A x \in S : f[x] \in Int, NEW c \in Int,
           NEW A \in SUBSET S, NEW T \in SUBSET S, Cardinality(A) = Cardinality(T)
    PROVE  /\ (\A x \in A : f[x] <= c) /\ (\A x \in S \ A : c <= f[x]) =>
                 SumFunctionOnSet(f, A) <= SumFunctionOnSet(f, T)
           /\ (\A x \in A : c <= f[x]) /\ (\A x \in S \ A : f[x] <= c) =>
                 SumFunctionOnSet(f, T) <= SumFunctionOnSet(f, A)
<1> DEFINE both == A \cap T
           a == A \ T
           t == T \ A
<1>1. /\ both \in SUBSET S /\ a \in SUBSET A /\ t \in SUBSET (S \ A)
      /\ A = both \cup a /\ both \cap a = {}
      /\ T = both \cup t /\ both \cap t = {}
      /\ IsFiniteSet(A) /\ IsFiniteSet(T) /\ IsFiniteSet(a) /\ IsFiniteSet(t)
  BY FS_Subset
<1>2. Cardinality(a) = Cardinality(t)
  BY <1>1, SameSize
<1> HIDE DEF both, a, t
<1>3. /\ SumFunctionOnSet(f, A) = SumFunctionOnSet(f, both) + SumFunctionOnSet(f, a)
      /\ SumFunctionOnSet(f, T) = SumFunctionOnSet(f, both) + SumFunctionOnSet(f, t)
  <2>1. a \in SUBSET S /\ t \in SUBSET S
    BY <1>1
  <2>2. QED
    BY <1>1, <2>1, SumOfParts
<1>4. /\ SumFunctionOnSet(f, a) \in Int
      /\ (\A x \in a : f[x] <= c) => SumFunctionOnSet(f, a) <= c * Cardinality(a)
      /\ (\A x \in a : c <= f[x]) => c * Cardinality(a) <= SumFunctionOnSet(f, a)
  <2>1. \A x \in a : f[x] \in Int
    BY <1>1
  <2>2. QED
    BY <1>1, <2>1, SumBounds
<1>5. /\ SumFunctionOnSet(f, t) \in Int
      /\ (\A x \in t : f[x] <= c) => SumFunctionOnSet(f, t) <= c * Cardinality(t)
      /\ (\A x \in t : c <= f[x]) => c * Cardinality(t) <= SumFunctionOnSet(f, t)
  <2>1. \A x \in t : f[x] \in Int
    BY <1>1
  <2>2. QED
    BY <1>1, <2>1, SumBounds
<1>6. SumFunctionOnSet(f, both) \in Int
  <2>1. IsFiniteSet(both) /\ \A x \in both : f[x] \in Int
    BY <1>1, FS_Subset
  <2>2. QED
    BY <2>1, SumTyped
<1>7. c * Cardinality(a) = c * Cardinality(t) /\ c * Cardinality(a) \in Int
  <2>1. Cardinality(a) \in Nat
    BY <1>1, FS_CardinalityType
  <2>2. \A n \in Nat : c * n \in Int
    OBVIOUS
  <2>3. QED
    BY <1>2, <2>1, <2>2
<1>8. ASSUME \A x \in A : f[x] <= c, \A x \in S \ A : c <= f[x]
      PROVE  SumFunctionOnSet(f, A) <= SumFunctionOnSet(f, T)
  <2>1. SumFunctionOnSet(f, a) <= c * Cardinality(a) /\ c * Cardinality(t) <= SumFunctionOnSet(f, t)
    BY <1>1, <1>4, <1>5, <1>8
  <2>2. SumFunctionOnSet(f, a) <= SumFunctionOnSet(f, t)
    BY <1>4, <1>5, <1>7, <2>1
  <2>3. QED
    BY <1>3, <1>4, <1>5, <1>6, <2>2
<1>9. ASSUME \A x \in A : c <= f[x], \A x \in S \ A : f[x] <= c
      PROVE  SumFunctionOnSet(f, T) <= SumFunctionOnSet(f, A)
  <2>1. c * Cardinality(a) <= SumFunctionOnSet(f, a) /\ SumFunctionOnSet(f, t) <= c * Cardinality(t)
    BY <1>1, <1>4, <1>5, <1>9
  <2>2. SumFunctionOnSet(f, t) <= SumFunctionOnSet(f, a)
    BY <1>4, <1>5, <1>7, <2>1
  <2>3. QED
    BY <1>3, <1>4, <1>5, <1>6, <2>2
<1>10. QED
  BY <1>8, <1>9

\* The sums of k numbers.
SumsOf(f, k, S) == {SumFunctionOnSet(f, part) : part \in kSubset(k, S)}

\* o runs through S.
Runs(o, S) ==
    /\ o \in [1..Cardinality(S) -> S]
    /\ \A x \in S : \E j \in 1..Cardinality(S) : o[j] = x
    /\ \A i, j \in 1..Cardinality(S) : o[i] = o[j] => i = j

\* In the order of f.
Ranks(o, f, S) ==
    /\ Runs(o, S)
    /\ \A i, j \in 1..Cardinality(S) : i <= j => f[o[i]] <= f[o[j]]

\* Without its k greatest and k least numbers, a sum is the sum of those between.
LEMMA SumBetween ==
    ASSUME NEW S, IsFiniteSet(S), NEW f, \A x \in S : f[x] \in Int, NEW o, Ranks(o, f, S),
           NEW k \in Nat, 2 * k < Cardinality(S)
    PROVE  LET n == Cardinality(S)
               between == SumFunctionOnSet(Reindexed(f, o, k + 1..n - k), k + 1..n - k)
           IN  /\ between = SumFunctionOnSet(f, S) - Max(SumsOf(f, k, S)) - Min(SumsOf(f, k, S))
               /\ between \in Int
               /\ f[o[1]] * (n - 2 * k) <= between /\ between <= f[o[n]] * (n - 2 * k)
<1> DEFINE n == Cardinality(S)
           L == Places(o, 1..k)
           M == Places(o, k + 1..n - k)
           H == Places(o, n - k + 1..n)
<1>1. n \in Nat /\ n > 0 /\ k + 1 \in 1..n /\ n - k \in 1..n /\ k + 1 <= n - k
  BY FS_CardinalityType
<1> HIDE DEF n
<1>2. /\ o \in [1..n -> S] /\ \A x \in S : \E j \in 1..n : o[j] = x
      /\ \A i, j \in 1..n : o[i] = o[j] => i = j
      /\ \A i, j \in 1..n : i <= j => f[o[i]] <= f[o[j]]
  BY DEF Ranks, Runs, n
<1>3. /\ 1..k \in SUBSET (1..n) /\ k + 1..n - k \in SUBSET (1..n) /\ n - k + 1..n \in SUBSET (1..n)
      /\ 1..n = (1..k) \cup (k + 1..n - k) \cup (n - k + 1..n)
      /\ (1..k) \cap (k + 1..n - k) = {} /\ (1..k) \cap (n - k + 1..n) = {}
      /\ (k + 1..n - k) \cap (n - k + 1..n) = {}
  BY <1>1
<1>4. ASSUME NEW D \in SUBSET (1..n), IsFiniteSet(D)
      PROVE  /\ SumFunctionOnSet(Reindexed(f, o, D), D) = SumFunctionOnSet(f, Places(o, D))
             /\ IsFiniteSet(Places(o, D)) /\ Cardinality(Places(o, D)) = Cardinality(D)
             /\ Places(o, D) \in SUBSET S
  <2>1. OneToOne(o, D) /\ \A j \in D : f[o[j]] \in Int
    BY <1>2 DEF OneToOne
  <2>2. Places(o, D) \in SUBSET S
    BY <1>2 DEF Places
  <2>3. QED
    BY <1>4, <2>1, <2>2, SumReindexed
<1>5. /\ IsFiniteSet(1..k) /\ Cardinality(1..k) = k
      /\ IsFiniteSet(k + 1..n - k) /\ Cardinality(k + 1..n - k) = n - 2 * k
      /\ IsFiniteSet(n - k + 1..n) /\ Cardinality(n - k + 1..n) = k
  <2>1. /\ 1 \in Int /\ k \in Int /\ k + 1 \in Int /\ n - k \in Int /\ n - k + 1 \in Int /\ n \in Int
    BY <1>1
  <2>2. IsFiniteSet(1..k) /\ Cardinality(1..k) = IF 1 > k THEN 0 ELSE k - 1 + 1
    BY <2>1, FS_Interval
  <2>3. /\ IsFiniteSet(k + 1..n - k)
        /\ Cardinality(k + 1..n - k) = IF k + 1 > n - k THEN 0 ELSE n - k - (k + 1) + 1
    BY <2>1, FS_Interval
  <2>4. /\ IsFiniteSet(n - k + 1..n)
        /\ Cardinality(n - k + 1..n) = IF n - k + 1 > n THEN 0 ELSE n - (n - k + 1) + 1
    BY <2>1, FS_Interval
  <2>5. QED
    BY <1>1, <2>2, <2>3, <2>4
<1>6. /\ L \in SUBSET S /\ M \in SUBSET S /\ H \in SUBSET S
      /\ IsFiniteSet(M)
      /\ Cardinality(L) = k /\ Cardinality(M) = n - 2 * k /\ Cardinality(H) = k
      /\ SumFunctionOnSet(Reindexed(f, o, k + 1..n - k), k + 1..n - k) = SumFunctionOnSet(f, M)
  BY <1>3, <1>4, <1>5
<1>7. S = (L \cup M) \cup H /\ L \cap M = {} /\ (L \cup M) \cap H = {}
  BY <1>2, <1>3 DEF Places
<1>8. /\ \A x \in L : f[x] <= f[o[k + 1]]
      /\ \A x \in S \ L : f[o[k + 1]] <= f[x]
  <2>1. \A j \in 1..n : (j \in 1..k => j <= k + 1) /\ (j \notin 1..k => k + 1 <= j)
    BY <1>1
  <2>2. QED
    BY <1>1, <1>2, <1>3, <2>1 DEF Places
<1>9. /\ \A x \in H : f[o[n - k]] <= f[x]
      /\ \A x \in S \ H : f[x] <= f[o[n - k]]
  <2>1. \A j \in 1..n : (j \in n - k + 1..n => n - k <= j) /\ (j \notin n - k + 1..n => j <= n - k)
    BY <1>1
  <2>2. QED
    BY <1>1, <1>2, <1>3, <2>1 DEF Places
<1>10. \A x \in M : f[o[1]] <= f[x] /\ f[x] <= f[o[n]]
  <2>1. \A j \in 1..n : 1 <= j /\ j <= n /\ 1 \in 1..n /\ n \in 1..n
    BY <1>1
  <2>2. QED
    BY <1>2, <1>3, <2>1 DEF Places
<1> HIDE DEF L, M, H
<1>11. \A part \in kSubset(k, S) : part \in SUBSET S /\ Cardinality(part) = k
  BY DEF kSubset
<1>12. L \in kSubset(k, S) /\ H \in kSubset(k, S)
  BY <1>6 DEF kSubset
<1>13. f[o[k + 1]] \in Int /\ f[o[n - k]] \in Int /\ f[o[1]] \in Int /\ f[o[n]] \in Int
  BY <1>1, <1>2
<1>14. \A part \in kSubset(k, S) : /\ SumFunctionOnSet(f, part) \in Int
                                  /\ SumFunctionOnSet(f, L) <= SumFunctionOnSet(f, part)
                                  /\ SumFunctionOnSet(f, part) <= SumFunctionOnSet(f, H)
  <2>1. SUFFICES ASSUME NEW part \in kSubset(k, S)
                 PROVE  /\ SumFunctionOnSet(f, part) \in Int
                        /\ SumFunctionOnSet(f, L) <= SumFunctionOnSet(f, part)
                        /\ SumFunctionOnSet(f, part) <= SumFunctionOnSet(f, H)
    OBVIOUS
  <2>2. part \in SUBSET S /\ Cardinality(part) = k
    BY <1>11
  <2>3. IsFiniteSet(part) /\ \A x \in part : f[x] \in Int
    BY <2>2, FS_Subset
  <2>4. SumFunctionOnSet(f, part) \in Int
    BY <2>3, SumTyped
  <2>5. SumFunctionOnSet(f, L) <= SumFunctionOnSet(f, part)
    BY <1>6, <1>8, <1>13, <2>2, ExtremeSum
  <2>6. SumFunctionOnSet(f, part) <= SumFunctionOnSet(f, H)
    BY <1>6, <1>9, <1>13, <2>2, ExtremeSum
  <2>7. QED
    BY <2>4, <2>5, <2>6
<1>15. /\ Min(SumsOf(f, k, S)) = SumFunctionOnSet(f, L)
       /\ Max(SumsOf(f, k, S)) = SumFunctionOnSet(f, H)
  <2> DEFINE X == SumsOf(f, k, S)
             l == SumFunctionOnSet(f, L)
             h == SumFunctionOnSet(f, H)
  <2>1. l \in X /\ h \in X /\ X \subseteq Int /\ \A x \in X : l <= x /\ x <= h
    BY <1>12, <1>14 DEF SumsOf
  <2> HIDE DEF X, l, h
  <2>2. Min(X) = l
    <3>1. Min(X) \in X /\ Min(X) <= l
      BY <2>1 DEF Min
    <3>2. Min(X) \in Int /\ l \in Int /\ l <= Min(X)
      BY <2>1, <3>1
    <3>3. QED
      BY <3>1, <3>2
  <2>3. Max(X) = h
    <3>1. Max(X) \in X /\ Max(X) >= h
      BY <2>1 DEF Max
    <3>2. Max(X) \in Int /\ h \in Int /\ Max(X) <= h
      BY <2>1, <3>1
    <3>3. QED
      BY <3>1, <3>2
  <2>4. QED
    BY <2>2, <2>3 DEF X, l, h
<1>16. SumFunctionOnSet(f, S) = SumFunctionOnSet(f, L) + SumFunctionOnSet(f, M) + SumFunctionOnSet(f, H)
  <2>1. L \cup M \in SUBSET S
    BY <1>6
  <2>2. SumFunctionOnSet(f, (L \cup M) \cup H) = SumFunctionOnSet(f, L \cup M) + SumFunctionOnSet(f, H)
    BY <1>6, <1>7, <2>1, SumOfParts
  <2>3. SumFunctionOnSet(f, L \cup M) = SumFunctionOnSet(f, L) + SumFunctionOnSet(f, M)
    BY <1>6, <1>7, SumOfParts
  <2>4. QED
    BY <1>7, <2>2, <2>3
<1>17. /\ SumFunctionOnSet(f, M) \in Int
       /\ f[o[1]] * (n - 2 * k) <= SumFunctionOnSet(f, M)
       /\ SumFunctionOnSet(f, M) <= f[o[n]] * (n - 2 * k)
  <2>1. \A x \in M : f[x] \in Int
    BY <1>6
  <2>2. f[o[1]] * Cardinality(M) <= SumFunctionOnSet(f, M)
    BY <1>6, <1>10, <1>13, <2>1, SumBounds
  <2>3. SumFunctionOnSet(f, M) \in Int /\ SumFunctionOnSet(f, M) <= f[o[n]] * Cardinality(M)
    BY <1>6, <1>10, <1>13, <2>1, SumBounds
  <2>4. QED
    BY <1>6, <2>2, <2>3
<1>18. SumFunctionOnSet(f, L) \in Int /\ SumFunctionOnSet(f, H) \in Int
  BY <1>12, <1>14
<1>19. QED
  BY <1>6, <1>15, <1>16, <1>17, <1>18 DEF n

(* ------------------------- GenerateAnswers undoes ----------------------- *)

\* A goroutine that has yet to put its answer belongs to an attempt that stores.
PuttersStore ==
    \A a \in Attempts : \A k \in DOMAIN puts[a] :
        puts[a][k] \in {"waiting", "holding"} => stage[a] = "store"

\* Attempt a answers for what it has in the store: it has recorded the put, has
\* not failed, and its cleanup has not come that far.
Accounts(a, k) ==
    /\ outcome[a] # "failed"
    /\ stage[a] \in {"store", "cleanup", "emit", "done"}
    /\ k \in DOMAIN puts[a] /\ puts[a][k] = "ok"
    /\ stage[a] = "cleanup" => cleaning[a] <= k

\* The store has nothing without an attempt that accounts for it.
StoreAccounted ==
    \A a \in Attempts : \A k \in Keys :
        store[k][1] = a /\ a \notin mishap /\ outcome[a] # "crashed" => Accounts(a, k)

UndoTypes ==
    /\ stage \in [Attempts -> {"idle", "generate", "store", "cleanup", "emit", "done"}]
    /\ outcome \in [Attempts -> {"none", "ok", "failed", "crashed"}]
    /\ cleaning \in [Attempts -> Nat]
    /\ size \in Nat
    /\ DOMAIN puts = Attempts
    /\ DOMAIN store = Keys
    /\ \A a \in Attempts : outcome[a] # "none" => stage[a] = "done"

UndoInv ==
    /\ UndoTypes
    /\ PuttersStore
    /\ StoreAccounted

\* At first no attempt has put anything.
LEMMA UndoInit == SinkInit /\ GenerationInit => UndoInv
  BY MaxAttemptsAssumption
  DEF GenerationInit, UndoInv, UndoTypes, PuttersStore, StoreAccounted, Keys, Attempts

\* An empty place in the store belongs to no attempt.
LEMMA NothingIsNobody == \A a \in Attempts : Nothing[1] # a
  BY MaxAttemptsAssumption DEF Nothing, Attempts

\* What goes on outside of the store, the puts and the ends of attempts.
LEMMA UndoFrame ==
    ASSUME UndoInv, UNCHANGED <<size, stage, puts, cleaning, outcome, store, mishap>>
    PROVE  UndoInv'
  BY DEF UndoInv, UndoTypes, PuttersStore, StoreAccounted, Accounts, Keys

\* An attempt leaves the stage in which it puts when all puts are over, and never
\* comes back.
LEMMA NoMorePuts ==
    ASSUME UndoInv, NEW a \in Attempts, NEW s,
           \A k \in DOMAIN puts[a] : puts[a][k] \notin {"waiting", "holding"},
           stage' = [stage EXCEPT ![a] = s], UNCHANGED puts
    PROVE  PuttersStore'
<1>1. ASSUME NEW b \in Attempts, NEW k \in DOMAIN puts[b], puts[b][k] \in {"waiting", "holding"}
      PROVE  stage'[b] = "store"
  <2>1. b # a
    BY <1>1
  <2>2. stage'[b] = stage[b]
    BY <2>1 DEF UndoInv, UndoTypes
  <2>3. QED
    BY <1>1, <2>2 DEF UndoInv, PuttersStore
<1>2. QED
  BY <1>1 DEF PuttersStore

\* Every step of GenerateAnswers keeps the account of the store.
LEMMA UndoStep ==
    ASSUME UndoInv, [GenerationNext]_<<sinkVars, generationVars>>
    PROVE  UndoInv'
<1> USE DEF Keys
<1>1. ASSUME NEW n \in Sizes, Request(n)
      PROVE  UndoInv'
  <2>1. UndoTypes'
    BY <1>1, GenerationAssumption DEF Request, UndoInv, UndoTypes
  <2>2. PuttersStore'
    BY <1>1 DEF Request, UndoInv, PuttersStore
  <2>3. \A k \in Keys' : store'[k] = Nothing
    BY <1>1 DEF Request
  <2>4. QED
    BY <2>1, <2>2, <2>3, NothingIsNobody DEF UndoInv, StoreAccounted
<1>2. ASSUME NEW a \in Attempts, Begin(a)
      PROVE  UndoInv'
  <2>1. UndoTypes'
    BY <1>2 DEF Begin, UndoInv, UndoTypes
  <2>2. \A k \in DOMAIN puts[a] : puts[a][k] \notin {"waiting", "holding"}
    BY <1>2 DEF Begin, UndoInv, PuttersStore
  <2>3. PuttersStore'
    BY <1>2, <2>2, NoMorePuts DEF Begin
  <2>4. StoreAccounted'
    BY <1>2 DEF Begin, UndoInv, UndoTypes, StoreAccounted, Accounts
  <2>5. QED
    BY <2>1, <2>3, <2>4 DEF UndoInv
<1>3. ASSUME NEW a \in Attempts, Launch(a) \/ Answered(a)
      PROVE  UndoInv'
  BY <1>3, UndoFrame DEF Launch, Answered
<1>4. ASSUME NEW a \in Attempts, Generated(a)
      PROVE  UndoInv'
  BY <1>4 DEF Generated, UndoInv, UndoTypes, PuttersStore, StoreAccounted, Accounts
<1>5. ASSUME NEW a \in Attempts, TakeSlot(a)
      PROVE  UndoInv'
  BY <1>5 DEF TakeSlot, UndoInv, UndoTypes, PuttersStore, StoreAccounted, Accounts
<1>6. ASSUME NEW a \in Attempts, StoreContent(a)
      PROVE  UndoInv'
  BY <1>6 DEF StoreContent, Put, UndoInv, UndoTypes, PuttersStore, StoreAccounted, Accounts
<1>7. ASSUME NEW a \in Attempts, StoreFails(a)
      PROVE  UndoInv'
  BY <1>7 DEF StoreFails, Put, UndoInv, UndoTypes, PuttersStore, StoreAccounted, Accounts
<1>8. ASSUME NEW a \in Attempts, FinishStore(a)
      PROVE  UndoInv'
  <2>1. UndoTypes'
    <3>1. outcome[a] = "none"
      BY <1>8 DEF FinishStore, Stored, UndoInv, UndoTypes
    <3>2. PICK s \in {"emit", "cleanup"} : stage' = [stage EXCEPT ![a] = s]
      BY <1>8 DEF FinishStore
    <3>3. UNCHANGED <<outcome, size, puts, store>>
      BY <1>8 DEF FinishStore
    <3>4. cleaning' \in [Attempts -> Nat]
      BY <1>8 DEF FinishStore, UndoInv, UndoTypes
    <3>5. QED
      BY <3>1, <3>2, <3>3, <3>4 DEF UndoInv, UndoTypes
  <2>2. PuttersStore'
    <3>1. \E s : stage' = [stage EXCEPT ![a] = s]
      BY <1>8 DEF FinishStore
    <3>2. \A k \in DOMAIN puts[a] : puts[a][k] \notin {"waiting", "holding"}
      BY <1>8 DEF FinishStore, Stored
    <3>3. QED
      BY <1>8, <3>1, <3>2, NoMorePuts DEF FinishStore
  <2>3. ASSUME NEW b \in Attempts, NEW k \in Keys',
               store'[k][1] = b, b \notin mishap', outcome'[b] # "crashed"
        PROVE  Accounts(b, k)'
    <3>1. CASE b = a
      BY <1>8, <2>3, <3>1 DEF FinishStore, Stored, UndoInv, UndoTypes, PuttersStore, StoreAccounted, Accounts
    <3>2. CASE b # a
      BY <1>8, <2>3, <3>2 DEF FinishStore, Stored, UndoInv, UndoTypes, StoreAccounted, Accounts
    <3>3. QED
      BY <3>1, <3>2
  <2>4. QED
    BY <2>1, <2>2, <2>3 DEF UndoInv, StoreAccounted
<1>9. ASSUME NEW a \in Attempts, Cleanup(a)
      PROVE  UndoInv'
  <2>1. UndoTypes'
    BY <1>9 DEF Cleanup, UndoInv, UndoTypes
  <2>2. PuttersStore'
    BY <1>9 DEF Cleanup, UndoInv, UndoTypes, PuttersStore
  <2>3. /\ UNCHANGED <<size, stage, puts, outcome>> /\ mishap \subseteq mishap'
        /\ cleaning' = [cleaning EXCEPT ![a] = @ + 1]
        /\ \A k \in Keys : store'[k] = store[k] \/ store'[k] = Nothing
    BY <1>9 DEF Cleanup, UndoInv, UndoTypes
  <2>4. ASSUME puts[a][cleaning[a]] = "ok", cleaning[a] \in Keys, a \notin mishap'
        PROVE  store'[cleaning[a]] = Nothing \/ store[cleaning[a]][1] # a
    BY <1>9, <2>4 DEF Cleanup, UndoInv, UndoTypes, StoreAccounted, Accounts
  <2>5. ASSUME NEW b \in Attempts, NEW k \in Keys,
               store'[k][1] = b, b \notin mishap', outcome[b] # "crashed"
        PROVE  Accounts(b, k)'
    <3>1. store'[k] = store[k]
      BY <2>3, <2>5, NothingIsNobody
    <3>2. Accounts(b, k)
      BY <2>3, <2>5, <3>1 DEF UndoInv, StoreAccounted
    <3>3. ASSUME stage[b] = "cleanup"
          PROVE  cleaning'[b] <= k
      <4>1. CASE b = a
        <5>1. k # cleaning[a]
          BY <2>4, <2>5, <3>1, <3>2, <4>1, NothingIsNobody DEF Accounts
        <5>2. QED
          BY <2>3, <3>2, <3>3, <4>1, <5>1 DEF Accounts, UndoInv, UndoTypes
      <4>2. CASE b # a
        BY <2>3, <3>2, <3>3, <4>2 DEF Accounts, UndoInv, UndoTypes
      <4>3. QED
        BY <4>1, <4>2
    <3>4. QED
      BY <2>3, <3>2, <3>3 DEF Accounts
  <2>6. QED
    BY <2>1, <2>2, <2>3, <2>5 DEF UndoInv, StoreAccounted
<1>10. ASSUME NEW a \in Attempts, ReturnError(a)
       PROVE  UndoInv'
  <2>1. UndoTypes'
    BY <1>10 DEF ReturnError, Return, UndoInv, UndoTypes
  <2>2. PuttersStore'
    <3>1. \A k \in DOMAIN puts[a] : puts[a][k] \notin {"waiting", "holding"}
      BY <1>10 DEF ReturnError, UndoInv, PuttersStore
    <3>2. QED
      BY <1>10, <3>1, NoMorePuts DEF ReturnError, Return
  <2>3. ASSUME NEW b \in Attempts, NEW k \in Keys',
               store'[k][1] = b, b \notin mishap', outcome'[b] # "crashed"
        PROVE  Accounts(b, k)'
    <3>1. CASE b = a
      <4>1. Accounts(a, k)
        BY <1>10, <2>3, <3>1 DEF ReturnError, Return, UndoInv, UndoTypes, StoreAccounted
      <4>2. QED
        BY <1>10, <4>1 DEF ReturnError, UndoInv, UndoTypes, Accounts
    <3>2. CASE b # a
      BY <1>10, <2>3, <3>2 DEF ReturnError, Return, UndoInv, UndoTypes, StoreAccounted, Accounts
    <3>3. QED
      BY <3>1, <3>2
  <2>4. QED
    BY <2>1, <2>2, <2>3 DEF UndoInv, StoreAccounted
<1>11. ASSUME NEW a \in Attempts, ReturnAnswers(a)
       PROVE  UndoInv'
  <2>1. UndoTypes'
    BY <1>11 DEF ReturnAnswers, Return, UndoInv, UndoTypes
  <2>2. PuttersStore'
    <3>1. \A k \in DOMAIN puts[a] : puts[a][k] \notin {"waiting", "holding"}
      BY <1>11 DEF ReturnAnswers, UndoInv, PuttersStore
    <3>2. QED
      BY <1>11, <3>1, NoMorePuts DEF ReturnAnswers, Return
  <2>3. ASSUME NEW b \in Attempts, NEW k \in Keys',
               store'[k][1] = b, b \notin mishap', outcome'[b] # "crashed"
        PROVE  Accounts(b, k)'
    <3>1. CASE b = a
      <4>1. Accounts(a, k)
        BY <1>11, <2>3, <3>1 DEF ReturnAnswers, Return, UndoInv, UndoTypes, StoreAccounted
      <4>2. QED
        BY <1>11, <3>1, <4>1 DEF ReturnAnswers, Return, UndoInv, UndoTypes, Accounts
    <3>2. CASE b # a
      BY <1>11, <2>3, <3>2 DEF ReturnAnswers, Return, UndoInv, UndoTypes, StoreAccounted, Accounts
    <3>3. QED
      BY <3>1, <3>2
  <2>4. QED
    BY <2>1, <2>2, <2>3 DEF UndoInv, StoreAccounted
<1>12. ASSUME TimeOut \/ UNCHANGED generationVars
       PROVE  UndoInv'
  BY <1>12, UndoFrame DEF TimeOut, generationVars
<1>13. ASSUME Crash
       PROVE  UndoInv'
  BY <1>13, MaxAttemptsAssumption
  DEF Crash, Running, UndoInv, UndoTypes, PuttersStore, StoreAccounted, Accounts, Nothing, Attempts
<1>14. QED
  BY <1>1, <1>2, <1>3, <1>4, <1>5, <1>6, <1>7, <1>8, <1>9, <1>10, <1>11, <1>12, <1>13
  DEF GenerationNext, GenerationWork

\* What a failed attempt has stored is accounted for by nobody.
LEMMA UndoImplies == UndoInv => UndoneOnFailure
  BY DEF UndoInv, StoreAccounted, Accounts, UndoneOnFailure

\* An attempt of GenerateAnswers that returns an error leaves nothing of its own
\* in the artifact store, unless the store itself failed.
THEOREM FailureUndone == GenerationSpec => []UndoneOnFailure
  BY UndoInit, UndoStep, UndoImplies, PTL DEF GenerationSpec

(* -------------------- GenerateAnswers returns what it has ---------------- *)

\* The answers of an attempt are collected, and the attempt is still there.
Settled(a) == stage[a] \in {"store", "cleanup", "emit"} \/ outcome[a] = "ok"

\* The content is where the reference of the answer leads, or somebody else has
\* been there since.
InPlace(a, k) == store[k] = <<a, answers[a][k]>> \/ touched[k] # a

ResultTypes ==
    /\ answers \in [Attempts -> Seq(Int)]
    /\ DOMAIN calls = Attempts
    /\ DOMAIN touched = Keys
    /\ size = 0 => \A a \in Attempts : stage[a] = "idle"

\* A call under way belongs to an attempt that generates, with a call per answer.
CallersGenerate ==
    \A a \in Attempts :
        /\ \A i \in DOMAIN calls[a] : calls[a][i] = "running" => stage[a] = "generate"
        /\ stage[a] = "generate" => DOMAIN calls[a] = Keys

\* What holds of the results of attempt a from its collection to its end.
ResultsOf(a) ==
    /\ Settled(a) =>
          /\ answers[a] = Collected(a)
          /\ DOMAIN puts[a] = DOMAIN answers[a]
    /\ Settled(a) /\ stage[a] # "cleanup" =>
          \A k \in DOMAIN puts[a] : puts[a][k] = "ok" => InPlace(a, k)
    /\ stage[a] = "emit" \/ outcome[a] = "ok" =>
          \A k \in DOMAIN puts[a] : puts[a][k] = "ok"

ResultInv ==
    /\ UndoInv
    /\ ResultTypes
    /\ CallersGenerate
    /\ \A a \in Attempts : ResultsOf(a)

\* At first no attempt has an answer.
LEMMA ResultInit == SinkInit /\ GenerationInit => ResultInv
<1> SUFFICES ASSUME SinkInit, GenerationInit PROVE ResultInv
  OBVIOUS
<1>1. UndoInv
  BY UndoInit
<1>2. ResultTypes /\ CallersGenerate /\ \A a \in Attempts : ResultsOf(a)
  BY DEF GenerationInit, ResultTypes, CallersGenerate, ResultsOf, Settled, Keys
<1>3. QED
  BY <1>1, <1>2 DEF ResultInv

\* What is collected is a sequence of the calls that succeeded.
LEMMA CollectedRight ==
    ASSUME size \in Nat, NEW a
    PROVE  /\ Collected(a) \in Seq(Int)
           /\ DOMAIN Collected(a) \subseteq Keys
           /\ Range(Collected(a)) = {i \in Keys : calls[a][i] = "ok"}
           /\ \A j, k \in DOMAIN Collected(a) : j < k => Collected(a)[j] < Collected(a)[k]
<1> DEFINE S == {i \in Keys : calls[a][i] = "ok"}
           s == InOrder(S)
<1>1. S \in SUBSET Int /\ IsFiniteSet(S) /\ Cardinality(S) <= size
  <2>1. IsFiniteSet(Keys) /\ Cardinality(Keys) = size /\ Keys \subseteq Int
    BY FS_Interval DEF Keys
  <2>2. S \in SUBSET Keys
    OBVIOUS
  <2> HIDE DEF S
  <2>3. QED
    BY <2>1, <2>2, FS_Subset
<1> HIDE DEF S
<1>2. /\ s \in [1..Cardinality(S) -> S] /\ Cardinality(S) \in Nat
      /\ \A i \in S : \E k \in DOMAIN s : s[k] = i
      /\ \A j, k \in DOMAIN s : j < k => s[j] < s[k]
  BY <1>1, InOrderAscends
<1>3. Collected(a) = s
  BY DEF Collected, S
<1> HIDE DEF s
<1>4. s \in Seq(Int) /\ DOMAIN s \subseteq Keys
  <2>1. s \in [1..Cardinality(S) -> Int] /\ DOMAIN s = 1..Cardinality(S)
    BY <1>1, <1>2
  <2>2. QED
    BY <1>1, <1>2, <2>1, SeqDef DEF Keys
<1>5. Range(s) = S
  BY <1>2 DEF Range
<1>6. QED
  BY <1>2, <1>3, <1>4, <1>5 DEF S

\* A step of another attempt, or of none, leaves the results alone unless it
\* touches the store, where it leaves its name.
LEMMA ResultFrame ==
    ASSUME ResultInv, NEW a \in Attempts, size' = size,
           stage'[a] = stage[a], outcome'[a] = outcome[a], calls'[a] = calls[a],
           answers'[a] = answers[a], puts'[a] = puts[a],
           \A k \in Keys : (store'[k] = store[k] /\ touched'[k] = touched[k]) \/ touched'[k] # a
    PROVE  ResultsOf(a)'
<1>1. ResultsOf(a)
  BY DEF ResultInv
<1>2. Collected(a)' = Collected(a)
  BY DEF Collected, Keys
<1>3. Settled(a)' = Settled(a)
  BY DEF Settled
<1>4. ASSUME Settled(a), NEW k \in DOMAIN puts[a], InPlace(a, k)
      PROVE  InPlace(a, k)'
  <2>1. k \in Keys
    <3>1. DOMAIN puts[a] = DOMAIN Collected(a)
      BY <1>1, <1>4 DEF ResultsOf
    <3>2. QED
      BY <3>1, CollectedRight DEF ResultInv, UndoInv, UndoTypes
  <2>2. QED
    BY <1>4, <2>1 DEF InPlace
<1>5. QED
  BY <1>1, <1>2, <1>3, <1>4 DEF ResultsOf

\* Every step of GenerateAnswers keeps ResultInv.
LEMMA ResultStep ==
    ASSUME ResultInv, [GenerationNext]_<<sinkVars, generationVars>>
    PROVE  ResultInv'
<1> UndoInv'
  BY UndoStep DEF ResultInv
<1>0. size \in Nat /\ DOMAIN stage = Attempts /\ DOMAIN outcome = Attempts
      /\ DOMAIN puts = Attempts /\ DOMAIN store = Keys
  BY DEF ResultInv, UndoInv, UndoTypes
<1>1. ASSUME NEW n \in Sizes, Request(n)
      PROVE  ResultInv'
  <2>1. size = 0 /\ size' \in Nat \ {0} /\ UNCHANGED <<stage, outcome, calls, answers>>
    BY <1>1, GenerationAssumption DEF Request
  <2>2. \A a \in Attempts : ~Settled(a) /\ stage[a] # "emit"
    BY <2>1 DEF ResultInv, ResultTypes, UndoInv, UndoTypes, Settled
  <2>3. \A a \in Attempts : ResultsOf(a)'
    BY <2>1, <2>2 DEF ResultsOf, Settled
  <2>4. QED
    BY <1>1, <2>1, <2>3 DEF Request, ResultInv, ResultTypes, CallersGenerate, Keys
<1>2. ASSUME NEW a \in Attempts, Begin(a)
      PROVE  ResultInv'
  <2>1. ~Settled(a)' /\ stage'[a] # "emit"
    BY <1>0, <1>2 DEF Begin, ResultInv, UndoInv, UndoTypes, Settled
  <2>2. ASSUME NEW b \in Attempts PROVE ResultsOf(b)'
    BY <1>0, <1>2, <2>1, ResultFrame DEF Begin, ResultsOf, Settled, ResultInv, ResultTypes
  <2>3. QED
    BY <1>0, <1>2, <2>2 DEF Begin, ResultInv, ResultTypes, CallersGenerate, Keys
<1>3. ASSUME NEW a \in Attempts, Launch(a) \/ Answered(a)
      PROVE  ResultInv'
  <2>1. stage[a] = "generate"
    BY <1>3 DEF Launch, Answered, ResultInv, CallersGenerate
  <2>2. ~Settled(a)' /\ stage'[a] # "emit"
    BY <1>3, <2>1 DEF Launch, Answered, ResultInv, UndoInv, UndoTypes, Settled
  <2>3. ASSUME NEW b \in Attempts PROVE ResultsOf(b)'
    BY <1>0, <1>3, <2>2, ResultFrame DEF Launch, Answered, ResultsOf, Settled, ResultInv, ResultTypes
  <2>4. CallersGenerate'
    BY <1>0, <1>3, <2>1 DEF Launch, Answered, ResultInv, CallersGenerate, ResultTypes, Keys
  <2>5. QED
    BY <1>0, <1>3, <2>3, <2>4 DEF Launch, Answered, ResultInv, ResultTypes, Keys
<1>4. ASSUME NEW a \in Attempts, Generated(a)
      PROVE  ResultInv'
  <2>1. /\ answers'[a] = Collected(a) /\ DOMAIN puts'[a] = DOMAIN answers'[a]
        /\ \A k \in DOMAIN puts'[a] : puts'[a][k] = "waiting"
        /\ stage'[a] = "store" /\ outcome'[a] # "ok"
    BY <1>0, <1>4 DEF Generated, ResultInv, ResultTypes, UndoInv, UndoTypes
  <2>2. Collected(a)' = Collected(a)
    BY <1>4 DEF Generated, Collected, Keys
  <2>3. ASSUME NEW b \in Attempts PROVE ResultsOf(b)'
    <3>1. CASE b = a
      BY <2>1, <2>2, <3>1 DEF ResultsOf
    <3>2. CASE b # a
      BY <1>0, <1>4, <3>2, ResultFrame DEF Generated, ResultInv, ResultTypes
    <3>3. QED
      BY <3>1, <3>2
  <2>4. CallersGenerate'
    <3>1. \A i \in DOMAIN calls[a] : calls[a][i] # "running"
      BY <1>4 DEF Generated, ResultInv, CallersGenerate
    <3>2. QED
      BY <1>0, <1>4, <3>1 DEF Generated, ResultInv, CallersGenerate, Keys
  <2>5. ResultTypes'
    BY <1>0, <1>4, CollectedRight DEF Generated, ResultInv, ResultTypes, Keys
  <2>6. QED
    BY <2>3, <2>4, <2>5 DEF ResultInv
<1>5. ASSUME NEW a \in Attempts, TakeSlot(a)
      PROVE  ResultInv'
  <2>1. PICK k \in DOMAIN puts[a], v \in {"failed", "holding"} :
            puts[a][k] = "waiting" /\ puts' = [puts EXCEPT ![a][k] = v]
    BY <1>5 DEF TakeSlot
  <2>2. stage[a] = "store"
    BY <2>1 DEF ResultInv, UndoInv, PuttersStore
  <2>3. ResultsOf(a)'
    <3>1. ResultsOf(a) /\ Settled(a) /\ Settled(a)' /\ outcome[a] # "ok"
      BY <1>0, <1>5, <2>2 DEF TakeSlot, ResultInv, UndoInv, UndoTypes, Settled
    <3>2. Collected(a)' = Collected(a)
      BY <1>5 DEF TakeSlot, Collected, Keys
    <3>3. /\ DOMAIN puts'[a] = DOMAIN puts[a]
          /\ \A j \in DOMAIN puts[a] : puts'[a][j] = "ok" => puts[a][j] = "ok"
      BY <1>0, <2>1
    <3>4. \A j : InPlace(a, j)' = InPlace(a, j)
      BY <1>5 DEF TakeSlot, InPlace
    <3>5. QED
      BY <1>5, <2>2, <3>1, <3>2, <3>3, <3>4 DEF TakeSlot, ResultsOf
  <2>4. ASSUME NEW b \in Attempts, b # a PROVE ResultsOf(b)'
    BY <1>0, <1>5, <2>4, ResultFrame DEF TakeSlot
  <2>5. QED
    BY <1>0, <1>5, <2>3, <2>4 DEF TakeSlot, ResultInv, ResultTypes, CallersGenerate, Keys
<1>6. ASSUME NEW a \in Attempts, StoreContent(a) \/ StoreFails(a)
      PROVE  ResultInv'
  <2>1. PICK k \in DOMAIN puts[a], v \in {"failed", "ok"} :
            /\ puts[a][k] = "holding" /\ puts' = [puts EXCEPT ![a][k] = v]
            /\ Put(a, k) \/ (v = "failed" /\ UNCHANGED <<store, touched>>)
    BY <1>6 DEF StoreContent, StoreFails
  <2>2. /\ stage[a] = "store" /\ outcome[a] # "ok" /\ ResultsOf(a)
        /\ UNCHANGED <<size, stage, calls, answers, outcome>>
    BY <1>6, <2>1 DEF ResultInv, UndoInv, UndoTypes, PuttersStore, StoreContent, StoreFails
  <2>3. k \in Keys
    BY <1>0, <2>1, <2>2, CollectedRight DEF ResultsOf, Settled
  <2>4. ResultsOf(a)'
    <3>1. Settled(a) /\ Settled(a)'
      BY <2>2 DEF Settled
    <3>2. Collected(a)' = Collected(a)
      BY <2>2 DEF Collected, Keys
    <3>3. /\ DOMAIN puts'[a] = DOMAIN puts[a]
          /\ \A j \in DOMAIN puts[a] : j # k => puts'[a][j] = puts[a][j]
          /\ puts'[a][k] = v
      BY <1>0, <2>1
    <3>4. ASSUME NEW j \in DOMAIN puts[a], puts'[a][j] = "ok"
          PROVE  InPlace(a, j)'
      <4>1. CASE j = k
        BY <1>0, <2>1, <2>2, <2>3, <3>3, <3>4, <4>1
        DEF Put, InPlace, ResultInv, ResultTypes
      <4>2. CASE j # k
        <5>1. InPlace(a, j)
          BY <2>2, <3>1, <3>3, <3>4, <4>2 DEF ResultsOf
        <5>2. j \in Keys
          BY <1>0, <2>2, <3>1, CollectedRight DEF ResultsOf
        <5>3. store'[j] = store[j] /\ touched'[j] = touched[j]
          BY <1>0, <2>1, <4>2, <5>2 DEF Put, ResultInv, ResultTypes
        <5>4. QED
          BY <2>2, <5>1, <5>3 DEF InPlace
      <4>3. QED
        BY <4>1, <4>2
    <3>5. QED
      BY <2>2, <3>1, <3>2, <3>3, <3>4 DEF ResultsOf
  <2>5. ASSUME NEW b \in Attempts, b # a PROVE ResultsOf(b)'
    <3>1. \A j \in Keys :
             (store'[j] = store[j] /\ touched'[j] = touched[j]) \/ touched'[j] # b
      BY <1>0, <2>1, <2>3, <2>5 DEF Put, ResultInv, ResultTypes
    <3>2. puts'[b] = puts[b]
      BY <1>0, <2>1, <2>5
    <3>3. QED
      BY <2>2, <3>1, <3>2, ResultFrame
  <2>6. DOMAIN touched' = Keys
    BY <2>1 DEF Put, ResultInv, ResultTypes
  <2>7. QED
    BY <1>0, <2>2, <2>4, <2>5, <2>6 DEF ResultInv, ResultTypes, CallersGenerate, Keys
<1>7. ASSUME NEW a \in Attempts, FinishStore(a)
      PROVE  ResultInv'
  <2>1. /\ stage[a] = "store" /\ outcome[a] # "ok" /\ ResultsOf(a)
        /\ UNCHANGED <<size, calls, answers, puts, outcome, store, touched>>
    BY <1>7 DEF FinishStore, Stored, ResultInv, UndoInv, UndoTypes
  <2>2. \/ stage' = [stage EXCEPT ![a] = "emit"] /\ \A k \in DOMAIN puts[a] : puts[a][k] = "ok"
        \/ stage' = [stage EXCEPT ![a] = "cleanup"]
    BY <1>7 DEF FinishStore
  <2>3. ResultsOf(a)'
    <3>1. Settled(a) /\ stage[a] # "cleanup" /\ stage'[a] \in {"emit", "cleanup"}
      BY <1>0, <2>1, <2>2 DEF Settled
    <3>2. Collected(a)' = Collected(a)
      BY <2>1 DEF Collected, Keys
    <3>3. \A j : InPlace(a, j)' = InPlace(a, j)
      BY <2>1 DEF InPlace
    <3>4. stage'[a] = "emit" => \A k \in DOMAIN puts[a] : puts[a][k] = "ok"
      BY <1>0, <2>2
    <3>5. QED
      BY <2>1, <3>1, <3>2, <3>3, <3>4 DEF ResultsOf
  <2>4. ASSUME NEW b \in Attempts, b # a PROVE ResultsOf(b)'
    BY <1>0, <2>1, <2>2, <2>4, ResultFrame
  <2>5. QED
    BY <1>0, <2>1, <2>2, <2>3, <2>4 DEF ResultInv, ResultTypes, CallersGenerate, Keys
<1>8. ASSUME NEW a \in Attempts, Cleanup(a)
      PROVE  ResultInv'
  <2>1. /\ stage[a] = "cleanup" /\ outcome[a] # "ok" /\ ResultsOf(a)
        /\ UNCHANGED <<size, stage, calls, answers, puts, outcome>>
    BY <1>8 DEF Cleanup, ResultInv, UndoInv, UndoTypes
  <2>2. ResultsOf(a)'
    <3>1. Collected(a)' = Collected(a)
      BY <2>1 DEF Collected, Keys
    <3>2. QED
      BY <2>1, <3>1 DEF ResultsOf, Settled
  <2>3. ASSUME NEW b \in Attempts, b # a PROVE ResultsOf(b)'
    <3>1. \A j \in Keys :
             (store'[j] = store[j] /\ touched'[j] = touched[j]) \/ touched'[j] # b
      BY <1>0, <1>8, <2>3 DEF Cleanup, ResultInv, ResultTypes
    <3>2. QED
      BY <2>1, <3>1, ResultFrame
  <2>4. DOMAIN touched' = Keys
    BY <1>8 DEF Cleanup, ResultInv, ResultTypes
  <2>5. QED
    BY <1>0, <2>1, <2>2, <2>3, <2>4 DEF ResultInv, ResultTypes, CallersGenerate, Keys
<1>9. ASSUME NEW a \in Attempts, NEW o \in {"ok", "failed"}, Return(a, o),
             \/ stage[a] = "cleanup" /\ o = "failed"
             \/ stage[a] = "emit" /\ o = "ok"
      PROVE  ResultInv'
  <2>1. /\ ResultsOf(a) /\ UNCHANGED <<size, calls, answers, puts, store, touched>>
        /\ stage' = [stage EXCEPT ![a] = "done"] /\ outcome' = [outcome EXCEPT ![a] = o]
    BY <1>9 DEF Return, ResultInv
  <2>2. ResultsOf(a)'
    <3>1. Collected(a)' = Collected(a)
      BY <2>1 DEF Collected, Keys
    <3>2. \A j : InPlace(a, j)' = InPlace(a, j)
      BY <2>1 DEF InPlace
    <3>3. stage'[a] = "done" /\ outcome'[a] = o
      BY <1>0, <2>1
    <3>4. QED
      BY <1>9, <2>1, <3>1, <3>2, <3>3 DEF ResultsOf, Settled
  <2>3. ASSUME NEW b \in Attempts, b # a PROVE ResultsOf(b)'
    BY <1>0, <2>1, <2>3, ResultFrame
  <2>4. QED
    BY <1>0, <1>9, <2>1, <2>2, <2>3 DEF ResultInv, ResultTypes, CallersGenerate, Keys
<1>10. ASSUME TimeOut \/ UNCHANGED generationVars
       PROVE  ResultInv'
  <2>1. UNCHANGED <<size, stage, calls, answers, puts, outcome, store, touched>>
    BY <1>10 DEF TimeOut, generationVars
  <2>2. ASSUME NEW b \in Attempts PROVE ResultsOf(b)'
    BY <2>1, ResultFrame
  <2>3. QED
    BY <2>1, <2>2 DEF ResultInv, ResultTypes, CallersGenerate, Keys
<1>11. ASSUME Crash
       PROVE  ResultInv'
  <2>1. /\ UNCHANGED <<size, answers>>
        /\ \A b \in Attempts :
              \/ stage'[b] = "done" /\ outcome'[b] = "crashed" /\ calls'[b] = <<>>
              \/ /\ stage'[b] = stage[b] /\ outcome'[b] = outcome[b]
                 /\ calls'[b] = calls[b] /\ puts'[b] = puts[b]
    BY <1>11 DEF Crash
  <2>2. \A b \in Attempts : \A j \in Keys :
           (store'[j] = store[j] /\ touched'[j] = touched[j]) \/ touched'[j] # b
    BY <1>11, MaxAttemptsAssumption DEF Crash, Attempts
  <2>3. ASSUME NEW b \in Attempts PROVE ResultsOf(b)'
    <3>1. CASE stage'[b] = "done" /\ outcome'[b] = "crashed"
      BY <3>1 DEF ResultsOf, Settled
    <3>2. CASE /\ stage'[b] = stage[b] /\ outcome'[b] = outcome[b]
               /\ calls'[b] = calls[b] /\ puts'[b] = puts[b]
      BY <2>1, <2>2, <3>2, ResultFrame
    <3>3. QED
      BY <2>1, <3>1, <3>2
  <2>4. /\ DOMAIN touched' = Keys /\ DOMAIN calls' = Attempts
        /\ size = 0 => \A b \in Attempts : stage'[b] = "idle"
    BY <1>11 DEF Crash, Running, ResultInv, ResultTypes
  <2>5. CallersGenerate'
    BY <2>1 DEF ResultInv, CallersGenerate, Keys
  <2>6. QED
    BY <2>1, <2>3, <2>4, <2>5 DEF ResultInv, ResultTypes, Keys
<1>12. QED
  BY <1>1, <1>2, <1>3, <1>4, <1>5, <1>6, <1>7, <1>8, <1>9, <1>10, <1>11
  DEF GenerationNext, GenerationWork, ReturnError, ReturnAnswers

\* The invariant of the answers says what the caller has got.
LEMMA ResultImplies == ResultInv => ResultsStored
<1> SUFFICES ASSUME ResultInv, NEW a \in Attempts, outcome[a] = "ok"
             PROVE  /\ \A j, k \in DOMAIN answers[a] : j < k => answers[a][j] < answers[a][k]
                    /\ Range(answers[a]) = {i \in Keys : calls[a][i] = "ok"}
                    /\ \A k \in DOMAIN answers[a] : InPlace(a, k)
  BY DEF ResultsStored, InPlace
<1>1. size \in Nat /\ stage[a] = "done" /\ ResultsOf(a)
  BY DEF ResultInv, UndoInv, UndoTypes
<1>2. answers[a] = Collected(a) /\ \A k \in DOMAIN answers[a] : InPlace(a, k)
  BY <1>1 DEF ResultsOf, Settled
<1>3. QED
  BY <1>1, <1>2, CollectedRight

\* The answers of a caller are those of the calls that succeeded, in their order,
\* and every reference leads to its content, for any number of attempts, answers
\* and goroutines, unless another attempt has been there or the store is lost.
THEOREM ResultsAreStored == GenerationSpec => []ResultsStored
  BY ResultInit, ResultStep, ResultImplies, PTL DEF GenerationSpec

(* ------------------------- the events are true -------------------------- *)

\* The sink after an event may have been recorded: it keeps what it has.
LEMMA RecordedOrNot ==
    ASSUME NEW e, sink' \in {sink, Recorded(e)}
    PROVE  /\ DOMAIN sink' \subseteq DOMAIN sink \cup {e.key}
           /\ \A key \in DOMAIN sink' :
                 \/ key \in DOMAIN sink /\ sink'[key] = sink[key]
                 \/ key = e.key /\ sink'[key] = e.body
  BY DEF Recorded

\* What an emission does: the first event of the outbox may get into the sink.
LEMMA EmitStep ==
    ASSUME NEW a \in Attempts, DOMAIN outbox = Attempts, Emit(a)
    PROVE  /\ outbox[a] # <<>>
           /\ outbox'[a] \in {outbox[a], Tail(outbox[a])}
           /\ \A b \in Attempts : b # a => outbox'[b] = outbox[b]
           /\ DOMAIN outbox' = Attempts
           /\ \A key \in DOMAIN sink' :
                 \/ key \in DOMAIN sink /\ sink'[key] = sink[key]
                 \/ key = Head(outbox[a]).key /\ sink'[key] = Head(outbox[a]).body
<1> DEFINE e == Head(outbox[a])
<1>1. /\ outbox[a] # <<>>
      /\ outbox' = outbox \/ outbox' = [outbox EXCEPT ![a] = Tail(@)]
      /\ sink' \in {sink, Recorded(e)}
  BY DEF Emit, Appended, AppendFails, EmissionCancelled, NextEvent
<1> HIDE DEF e
<1>2. \A key \in DOMAIN sink' :
         \/ key \in DOMAIN sink /\ sink'[key] = sink[key]
         \/ key = e.key /\ sink'[key] = e.body
  BY <1>1, RecordedOrNot
<1>3. QED
  BY <1>1, <1>2 DEF e

\* The events an attempt of GenerateAnswers may emit.
Announced(a) == {CandidateProduced(a, k) : k \in DOMAIN answers[a]} \cup {LLMUsage(a)}

\* Attempt a has stored all its answers.
Through(a) == stage[a] \in {"emit", "done"} /\ outcome[a] # "failed"

\* What is in the sink, or will be, is announced by an attempt that has stored
\* all its answers.
AnnouncedInv ==
    /\ DOMAIN outbox = Attempts
    /\ \A a \in Attempts : outbox[a] \in Seq(Announced(a))
    /\ \A a \in Attempts : outbox[a] # <<>> => stage[a] = "emit"
    /\ \A key \in DOMAIN sink : \E a \in Attempts :
          Through(a) /\ \E e \in Announced(a) : key = e.key /\ sink[key] = e.body

\* At first nothing is announced.
LEMMA AnnouncedInit == SinkInit => AnnouncedInv
  BY DEF SinkInit, AnnouncedInv

\* Steps that emit nothing and undo nothing.
LEMMA AnnouncedFrame ==
    ASSUME AnnouncedInv, UNCHANGED <<sink, outbox>>,
           \A a \in Attempts : outbox[a] # <<>> \/ Through(a) => answers'[a] = answers[a],
           \A a \in Attempts : Through(a) => Through(a)',
           \A a \in Attempts : outbox[a] # <<>> => stage'[a] = "emit"
    PROVE  AnnouncedInv'
<1>1. \A a \in Attempts : outbox[a] # <<>> \/ Through(a) => Announced(a)' = Announced(a)
  BY DEF Announced, CandidateProduced, LLMUsage
<1>2. \A a \in Attempts : outbox'[a] \in Seq(Announced(a)')
  BY <1>1 DEF AnnouncedInv
<1>3. \A key \in DOMAIN sink' : \E a \in Attempts :
          Through(a)' /\ \E e \in Announced(a)' : key = e.key /\ sink'[key] = e.body
  BY <1>1 DEF AnnouncedInv
<1>4. QED
  BY <1>2, <1>3 DEF AnnouncedInv

\* Every step of GenerateAnswers keeps AnnouncedInv.
LEMMA AnnouncedStep ==
    ASSUME ResultInv, AnnouncedInv, [GenerationNext]_<<sinkVars, generationVars>>
    PROVE  AnnouncedInv'
<1>0. /\ size \in Nat /\ DOMAIN stage = Attempts /\ DOMAIN outcome = Attempts
      /\ DOMAIN puts = Attempts /\ DOMAIN store = Keys /\ DOMAIN answers = Attempts
  BY DEF ResultInv, ResultTypes, UndoInv, UndoTypes
<1>1. ASSUME NEW a \in Attempts, UNCHANGED sinkVars,
             \/ Begin(a) \/ Launch(a) \/ Answered(a)
             \/ TakeSlot(a) \/ StoreContent(a) \/ StoreFails(a) \/ Cleanup(a)
      PROVE  AnnouncedInv'
  <2>1. stage[a] # "emit" /\ ~Through(a)
    <3>1. stage[a] \notin {"emit", "done"}
      BY <1>1 DEF Begin, Launch, Answered, TakeSlot, StoreContent, StoreFails, Cleanup,
                  ResultInv, UndoInv, PuttersStore, CallersGenerate
    <3>2. QED
      BY <3>1 DEF Through
  <2>2. /\ UNCHANGED <<sink, outbox, answers, outcome>>
        /\ \A b \in Attempts : b # a => stage'[b] = stage[b]
    BY <1>1, <1>0 DEF sinkVars, Begin, Launch, Answered, TakeSlot, StoreContent, StoreFails, Cleanup
  <2>3. \A b \in Attempts : outbox[b] # <<>> => b # a /\ stage[b] = "emit"
    BY <2>1 DEF AnnouncedInv
  <2>4. QED
    BY <2>1, <2>2, <2>3, AnnouncedFrame DEF Through
<1>2. ASSUME NEW a \in Attempts, UNCHANGED sinkVars, Generated(a)
      PROVE  AnnouncedInv'
  <2>1. stage[a] = "generate" /\ ~Through(a)
    BY <1>2 DEF Generated, Through
  <2>2. /\ UNCHANGED <<sink, outbox, outcome>>
        /\ \A b \in Attempts : b # a => stage'[b] = stage[b] /\ answers'[b] = answers[b]
    BY <1>2, <1>0 DEF sinkVars, Generated
  <2>3. \A b \in Attempts : outbox[b] # <<>> => b # a /\ stage[b] = "emit"
    BY <2>1 DEF AnnouncedInv
  <2>4. QED
    BY <2>1, <2>2, <2>3, AnnouncedFrame DEF Through
<1>3. ASSUME NEW a \in Attempts, UNCHANGED sinkVars, ReturnError(a) \/ ReturnAnswers(a)
      PROVE  AnnouncedInv'
  <2>1. /\ outbox[a] = <<>> /\ stage[a] \in {"cleanup", "emit"}
        /\ stage[a] = "emit" => outcome'[a] = "ok"
    BY <1>3, <1>0 DEF ReturnError, ReturnAnswers, Return, AnnouncedInv
  <2>2. /\ UNCHANGED <<sink, outbox, answers>> /\ stage'[a] = "done"
        /\ \A b \in Attempts : b # a => stage'[b] = stage[b] /\ outcome'[b] = outcome[b]
    BY <1>3, <1>0 DEF sinkVars, ReturnError, ReturnAnswers, Return
  <2>3. \A b \in Attempts : outbox[b] # <<>> => b # a /\ stage[b] = "emit"
    BY <2>1 DEF AnnouncedInv
  <2>4. QED
    BY <2>1, <2>2, <2>3, AnnouncedFrame DEF Through
<1>4. ASSUME NEW a \in Attempts, FinishStore(a)
      PROVE  AnnouncedInv'
  <2>1. /\ stage[a] = "store" /\ outcome[a] = "none" /\ UNCHANGED <<sink, answers, outcome>>
        /\ \A b \in Attempts : b # a => stage'[b] = stage[b] /\ outbox'[b] = outbox[b]
        /\ DOMAIN outbox' = Attempts
    BY <1>4, <1>0 DEF FinishStore, Stored, ResultInv, UndoInv, UndoTypes, AnnouncedInv
  <2>2. outbox'[a] = <<>> \/ (stage'[a] = "emit" /\ outbox'[a] = Produced(a))
    BY <1>4, <1>0, <2>1 DEF FinishStore, AnnouncedInv
  <2>3. Produced(a) \in Seq(Announced(a))
    <3> DEFINE cands == [k \in DOMAIN answers[a] |-> CandidateProduced(a, k)]
    <3>1. Len(answers[a]) \in Nat /\ DOMAIN answers[a] = 1..Len(answers[a])
      BY DEF ResultInv, ResultTypes
    <3>2. cands \in [1..Len(answers[a]) -> Announced(a)]
      BY <3>1 DEF Announced
    <3>3. cands \in Seq(Announced(a)) /\ <<LLMUsage(a)>> \in Seq(Announced(a))
      BY <3>1, <3>2, SeqDef DEF Announced
    <3> HIDE DEF cands
    <3>4. cands \o <<LLMUsage(a)>> \in Seq(Announced(a))
      BY <3>3, ConcatProperties
    <3>5. QED
      BY <3>4 DEF cands, Produced
  <2>4. \A b \in Attempts : Announced(b)' = Announced(b)
    BY <2>1 DEF Announced, CandidateProduced, LLMUsage
  <2>5. \A b \in Attempts : outbox'[b] \in Seq(Announced(b)')
    BY <2>1, <2>2, <2>3, <2>4 DEF AnnouncedInv
  <2>6. \A b \in Attempts : outbox'[b] # <<>> => stage'[b] = "emit"
    BY <2>1, <2>2 DEF AnnouncedInv
  <2>7. \A b \in Attempts : Through(b) => Through(b)'
    BY <2>1 DEF Through
  <2>8. QED
    BY <2>1, <2>4, <2>5, <2>6, <2>7 DEF AnnouncedInv
<1>5. ASSUME NEW a \in Attempts, Emit(a), UNCHANGED generationVars
      PROVE  AnnouncedInv'
  <2>1. UNCHANGED <<answers, stage, outcome>>
    BY <1>5 DEF generationVars
  <2>2. \A b \in Attempts : Announced(b)' = Announced(b) /\ Through(b)' = Through(b)
    BY <2>1 DEF Announced, CandidateProduced, LLMUsage, Through
  <2>3. /\ outbox[a] # <<>> /\ outbox'[a] \in {outbox[a], Tail(outbox[a])}
        /\ \A b \in Attempts : b # a => outbox'[b] = outbox[b]
        /\ DOMAIN outbox' = Attempts
        /\ \A key \in DOMAIN sink' :
                 \/ key \in DOMAIN sink /\ sink'[key] = sink[key]
                 \/ key = Head(outbox[a]).key /\ sink'[key] = Head(outbox[a]).body
    BY <1>5, EmitStep DEF AnnouncedInv
  <2>4. Head(outbox[a]) \in Announced(a) /\ Tail(outbox[a]) \in Seq(Announced(a))
    BY <2>3, HeadTailProperties DEF AnnouncedInv
  <2>5. stage[a] = "emit" /\ Through(a)
    BY <2>3 DEF AnnouncedInv, Through, ResultInv, UndoInv, UndoTypes
  <2>6. \A b \in Attempts : outbox'[b] \in Seq(Announced(b)')
    BY <2>2, <2>3, <2>4 DEF AnnouncedInv
  <2>7. \A b \in Attempts : outbox'[b] # <<>> => stage'[b] = "emit"
    BY <2>1, <2>3, <2>5 DEF AnnouncedInv
  <2>8. ASSUME NEW key \in DOMAIN sink'
        PROVE  \E b \in Attempts : Through(b)' /\ \E e \in Announced(b)' :
                  key = e.key /\ sink'[key] = e.body
    <3>1. CASE key \in DOMAIN sink /\ sink'[key] = sink[key]
      <4>1. PICK b \in Attempts : Through(b) /\ \E e \in Announced(b) : key = e.key /\ sink[key] = e.body
        BY <3>1 DEF AnnouncedInv
      <4>2. Through(b)' /\ \E e \in Announced(b)' : key = e.key /\ sink'[key] = e.body
        BY <3>1, <4>1, <2>2
      <4>3. QED
        BY <4>2
    <3>2. CASE key = Head(outbox[a]).key /\ sink'[key] = Head(outbox[a]).body
      <4>1. Head(outbox[a]) \in Announced(a)' /\ Through(a)'
        BY <2>2, <2>4, <2>5
      <4>2. QED
        BY <3>2, <4>1
    <3>3. QED
      BY <2>3, <3>1, <3>2
  <2>9. QED
    BY <2>3, <2>6, <2>7, <2>8 DEF AnnouncedInv
<1>6. ASSUME UNCHANGED <<sink, outbox, answers, stage, outcome>>
      PROVE  AnnouncedInv'
  BY <1>6, AnnouncedFrame DEF AnnouncedInv, Through
<1>7. ASSUME Crash
      PROVE  AnnouncedInv'
  <2>1. /\ UNCHANGED <<sink, answers>> /\ DOMAIN outbox' = Attempts
        /\ \A b \in Attempts :
              \/ stage'[b] = "done" /\ outcome'[b] = "crashed" /\ outbox'[b] = <<>>
              \/ /\ stage'[b] = stage[b] /\ outcome'[b] = outcome[b]
                 /\ outbox'[b] = outbox[b]
    BY <1>7 DEF Crash
  <2>2. \A b \in Attempts : Announced(b)' = Announced(b)
    BY <2>1 DEF Announced, CandidateProduced, LLMUsage
  <2>3. \A b \in Attempts : Through(b) => Through(b)'
    BY <2>1 DEF Through
  <2>4. \A b \in Attempts : outbox'[b] \in Seq(Announced(b)') /\ (outbox'[b] # <<>> => stage'[b] = "emit")
    <3>1. \A b \in Attempts : <<>> \in Seq(Announced(b)) /\ outbox[b] \in Seq(Announced(b))
      BY DEF AnnouncedInv
    <3>2. \A b \in Attempts : outbox'[b] \in Seq(Announced(b))
      BY <2>1, <3>1
    <3>3. QED
      BY <2>1, <2>2, <3>2 DEF AnnouncedInv
  <2>5. QED
    BY <2>1, <2>2, <2>3, <2>4 DEF AnnouncedInv
<1>8. QED
  BY <1>1, <1>2, <1>3, <1>4, <1>5, <1>6, <1>7
  DEF GenerationNext, GenerationWork, Request, TimeOut, Cancel, sinkVars, generationVars

(* ------------------------ ScoreAnswers waits for all --------------------- *)

\* There is a report only after all goroutines are done, and it has the scores
\* as they left them.
ReportInv ==
    /\ scoring \in {"emit", "done"} => \A i \in DOMAIN worker : worker[i] = "done"
    /\ scoring \notin {"emit", "done"} => report = <<>>
    /\ report # <<>> => report.scores = scores
    /\ DOMAIN worker = 1..batch

\* At first there is no report.
LEMMA ReportInit == SinkInit /\ ScoringInit => ReportInv
  BY DEF ScoringInit, ReportInv

\* Every step of ScoreAnswers keeps ReportInv and leaves the scores of a report
\* alone.
LEMMA ReportStep ==
    ASSUME ReportInv, [ScoringNext]_<<sinkVars, scoringVars>>
    PROVE  ReportInv' /\ (report # <<>> => report.scores = scores')
<1>1. ASSUME NEW n \in Batches, NEW t \in Tenants, BeginScoring(n, t)
      PROVE  ReportInv' /\ report = <<>>
  BY <1>1 DEF BeginScoring, ReportInv
<1>2. ASSUME LaunchWorker
      PROVE  ReportInv' /\ report = <<>>
  BY <1>2 DEF LaunchWorker, ReportInv
<1>3. ASSUME Gather
      PROVE  ReportInv' /\ report = <<>>
  BY <1>3 DEF Gather, ReportInv
<1>4. ASSUME ReturnScores \/ UNCHANGED scoringVars
      PROVE  ReportInv' /\ UNCHANGED scores
  BY <1>4 DEF ReturnScores, ReportInv, scoringVars
<1>5. ASSUME NEW i \in DOMAIN worker, Worker(i)
      PROVE  ReportInv' /\ report = <<>>
  <2>1. worker[i] # "done" /\ UNCHANGED <<scoring, report, batch>>
    BY <1>5
    DEF Worker, StartWorker, JudgeReplies, JudgeFails, StoreRationale, StoreRationaleFails
  <2>2. DOMAIN worker' = DOMAIN worker
    BY <1>5
    DEF Worker, StartWorker, JudgeReplies, JudgeFails, StoreRationale, StoreRationaleFails,
        WorkerDone
  <2>3. scoring \notin {"emit", "done"}
    BY <2>1 DEF ReportInv
  <2>4. QED
    BY <2>1, <2>2, <2>3 DEF ReportInv
<1>6. QED
  BY <1>1, <1>2, <1>3, <1>4, <1>5 DEF ReportInv, ScoringNext, ScoringWork

\* The scores ScoreAnswers reports are written by no goroutine that still runs.
THEOREM ReportIsFrozen == ScoringSpec => OutputFrozen
<1>1. ReportInv /\ [ScoringNext]_<<sinkVars, scoringVars>>
        => ReportInv' /\ [report # <<>> => report.scores = scores']_<<report, scores>>
  BY ReportStep
<1>2. QED
  BY ReportInit, <1>1, PTL DEF ScoringSpec, OutputFrozen

(* ------------------------- an LLM call pays once ------------------------ *)

HasEnded(c) == at[c] \in {"observe", "done"}

\* The cost of a response is at most two roundings below the exact one.
Priced(usage, cost) ==
    LET exact == usage.prompt * PromptRate + usage.output * OutputRate
    IN  exact - 2000 < 1000 * cost /\ 1000 * cost <= exact

\* What PaidOnce says of the result r of a call that has had n whole responses.
PaidFor(r, n) ==
    /\ n \in {0, 1}
    /\ ~r.ok /\ n = 1 => ~IsRetryable(r) /\ ~ClassifiedRetryable(r)
    /\ r.ok => n = 1 /\ pricing # "missing" /\ Priced(r.usage, r.cost)

\* A response read to its end leads to the price or to the end of the call: no
\* other state is reached with one.
Paid(c) ==
    /\ at[c] \in {"idle", "loop", "sent", "wait"} => whole[c] = 0
    /\ at[c] = "answered" => whole[c] = 1
    /\ HasEnded(c) => PaidFor(result[c], whole[c])

PaidInv ==
    /\ DOMAIN result = Callers
    /\ whole \in [Callers -> {0, 1}]
    /\ at \in [Callers -> {"idle", "loop", "sent", "answered", "wait", "observe", "done"}]
    /\ \A c \in Callers : Paid(c)

\* Tokens are counted, and so is what they cost.
LEMMA TokensAndRates ==
    /\ \A u \in Usages : u.prompt \in Nat /\ u.output \in Nat
    /\ PromptRate \in Nat /\ OutputRate \in Nat
<1>1. Usages \subseteq [prompt: Nat, output: Nat] /\ PromptRate \in Nat /\ OutputRate \in Nat
  BY CallAssumption, Zenon
<1>2. QED
  BY <1>1

\* At first no call has paid.
LEMMA PaidInit == CallInit({"valid", "missing"}) => PaidInv
  BY DEF CallInit, PaidInv, Paid, HasEnded

\* The end of the call of c, after n whole responses.
LEMMA PaidEnd ==
    ASSUME PaidInv, NEW c \in Callers, NEW r, NEW n \in {0, 1}, EndCall(c, r),
           whole' = [whole EXCEPT ![c] = n], UNCHANGED pricing, PaidFor(r, n)
    PROVE  PaidInv'
<1>1. \A d \in Callers : d # c =>
         at'[d] = at[d] /\ result'[d] = result[d] /\ whole'[d] = whole[d]
  BY DEF EndCall, PaidInv
<1>2. at'[c] = "observe" /\ result'[c] = r /\ whole'[c] = n
  BY DEF EndCall, PaidInv
<1>3. \A d \in Callers : Paid(d)'
  BY <1>1, <1>2 DEF PaidInv, Paid, PaidFor, HasEnded
<1>4. QED
  BY <1>3 DEF EndCall, PaidInv

\* A step of c within its call, or within the statistics.
LEMMA PaidMove ==
    ASSUME PaidInv, NEW c \in Callers, NEW n \in {0, 1},
           NEW s \in {"idle", "loop", "sent", "answered", "wait", "observe", "done"},
           at' = [at EXCEPT ![c] = s], whole' = [whole EXCEPT ![c] = n],
           UNCHANGED <<result, pricing>>,
           s \in {"idle", "loop", "sent", "wait"} => n = 0,
           s = "answered" => n = 1,
           s \in {"observe", "done"} => HasEnded(c) /\ n = whole[c]
    PROVE  PaidInv'
<1>1. \A d \in Callers : d # c =>
         at'[d] = at[d] /\ result'[d] = result[d] /\ whole'[d] = whole[d]
  BY DEF PaidInv
<1>2. at'[c] = s /\ result'[c] = result[c] /\ whole'[c] = n
  BY DEF PaidInv
<1>3. \A d \in Callers : Paid(d)'
  BY <1>1, <1>2 DEF PaidInv, Paid, PaidFor, HasEnded
<1>4. QED
  BY <1>3 DEF PaidInv

\* An attempt of c that comes back with an error for which it is not repeated.
LEMMA PaidFail ==
    ASSUME PaidInv, NEW c \in Callers, NEW e, FailAttempt(c, e),
           whole' = [whole EXCEPT ![c] = 1], UNCHANGED pricing,
           ~IsRetryable(e), ~ClassifiedRetryable(e)
    PROVE  PaidInv'
<1>1. EndCall(c, Failed(e))
  BY DEF FailAttempt
<1>2. PaidFor(Failed(e), 1)
  BY DEF PaidFor, Failed, IsRetryable, ClassifiedRetryable
<1>3. QED
  BY <1>1, <1>2, PaidEnd

\* Rounding down to thousands twice loses less than two thousand.
LEMMA TwoRoundings ==
    ASSUME NEW x \in Nat, NEW y \in Nat
    PROVE  /\ x + y - 2000 < 1000 * (x \div 1000 + y \div 1000)
           /\ 1000 * (x \div 1000 + y \div 1000) <= x + y
<1>1. ASSUME NEW m \in Nat
      PROVE  m \div 1000 \in Nat /\ m - 1000 < 1000 * (m \div 1000) /\ 1000 * (m \div 1000) <= m
  OBVIOUS
<1>2. /\ x \div 1000 \in Nat /\ x - 1000 < 1000 * (x \div 1000) /\ 1000 * (x \div 1000) <= x
      /\ y \div 1000 \in Nat /\ y - 1000 < 1000 * (y \div 1000) /\ 1000 * (y \div 1000) <= y
  BY <1>1
<1>3. \A p, q \in Nat : 1000 * (p + q) = 1000 * p + 1000 * q
  OBVIOUS
<1>4. QED
  BY <1>2, <1>3

\* Every step keeps PaidInv.
LEMMA PaidStep ==
    ASSUME PaidInv, [CallNext]_callVars
    PROVE  PaidInv'
<1>1. ASSUME NEW c \in Callers
      PROVE  whole = [whole EXCEPT ![c] = whole[c]] /\ whole[c] \in {0, 1}
  BY DEF PaidInv
<1>2. ASSUME NEW c \in Callers, Refused(c) \/ CancelWait(c), UNCHANGED pricing
      PROVE  PaidInv'
  <2>1. PICK e : EndCall(c, Failed(e))
    BY <1>2 DEF Refused, CancelWait
  <2>2. whole[c] = 0 /\ UNCHANGED whole
    BY <1>2 DEF Refused, CancelWait, PaidInv, Paid
  <2>3. PaidFor(Failed(e), 0)
    BY DEF PaidFor, Failed
  <2>4. QED
    BY <1>1, <1>2, <2>1, <2>2, <2>3, PaidEnd
<1>3. ASSUME NEW c \in Callers, Admitted(c) \/ Wake(c), UNCHANGED pricing
      PROVE  PaidInv'
  <2>1. whole[c] = 0
    BY <1>3 DEF Admitted, Wake, PaidInv, Paid
  <2>2. /\ at' = [at EXCEPT ![c] = "loop"] /\ whole' = [whole EXCEPT ![c] = 0]
        /\ UNCHANGED <<result, pricing>>
    BY <1>1, <1>3, <2>1 DEF Admitted, Wake
  <2>3. QED
    BY <2>2, PaidMove
<1>4. ASSUME NEW c \in Callers, Attempt(c) \/ NoResponse(c), UNCHANGED pricing
      PROVE  PaidInv'
  <2>1. whole[c] = 0
    BY <1>4 DEF Attempt, NoResponse, PaidInv, Paid
  <2>2. whole' = [whole EXCEPT ![c] = 0]
    BY <1>1, <1>4, <2>1 DEF Attempt, NoResponse
  <2>3. ASSUME NEW e, FailAttempt(c, e)
        PROVE  PaidInv'
    <3>1. CASE EndCall(c, Failed(e))
      <4>1. PaidFor(Failed(e), 0)
        BY DEF PaidFor, Failed
      <4>2. QED
        BY <1>4, <2>2, <3>1, <4>1, PaidEnd
    <3>2. CASE at' = [at EXCEPT ![c] = "wait"] /\ UNCHANGED result
      BY <1>4, <2>2, <3>2, PaidMove
    <3>3. QED
      BY <2>3, <3>1, <3>2 DEF FailAttempt
  <2>4. CASE at' = [at EXCEPT ![c] = "sent"] /\ UNCHANGED result
    BY <1>4, <2>2, <2>4, PaidMove
  <2>5. QED
    BY <1>4, <2>3, <2>4 DEF Attempt, NoResponse
<1>5. ASSUME NEW c \in Callers, WholeResponse(c), UNCHANGED pricing
      PROVE  PaidInv'
  <2>1. whole[c] = 0
    BY <1>5 DEF WholeResponse, PaidInv, Paid
  <2>2. whole' = [whole EXCEPT ![c] = 1]
    BY <1>5, <2>1 DEF WholeResponse
  <2>3. ASSUME NEW e \in UselessResponse
        PROVE  ~IsRetryable(e) /\ ~ClassifiedRetryable(e)
    BY <2>3 DEF UselessResponse, Error, IsRetryable, ClassifiedRetryable
  <2>4. ASSUME NEW e \in UselessResponse, FailAttempt(c, e)
        PROVE  PaidInv'
    BY <1>5, <2>2, <2>3, <2>4, PaidFail
  <2>5. CASE at' = [at EXCEPT ![c] = "answered"] /\ UNCHANGED result
    BY <1>5, <2>2, <2>5, PaidMove
  <2>6. QED
    BY <1>5, <2>4, <2>5 DEF WholeResponse
<1>6. ASSUME NEW c \in Callers, GetCost(c), UNCHANGED pricing
      PROVE  PaidInv'
  <2>1. whole[c] = 1 /\ whole' = [whole EXCEPT ![c] = 1]
    BY <1>1, <1>6 DEF GetCost, PaidInv, Paid
  <2>2. CASE pricing = "valid"
    <3>1. PICK u \in Usages : EndCall(c, [ok |-> TRUE, usage |-> u, cost |-> Calculate(u)])
      BY <1>6, <2>2 DEF GetCost
    <3>2. u.prompt * PromptRate \in Nat /\ u.output * OutputRate \in Nat
      <4>1. u.prompt \in Nat /\ u.output \in Nat /\ PromptRate \in Nat /\ OutputRate \in Nat
        BY TokensAndRates
      <4>2. \A x, y \in Nat : x * y \in Nat
        OBVIOUS
      <4>3. QED
        BY <4>1, <4>2
    <3>3. Priced(u, Calculate(u))
      BY <3>2, TwoRoundings DEF Calculate, Priced
    <3>4. PaidFor([ok |-> TRUE, usage |-> u, cost |-> Calculate(u)], 1)
      <4> DEFINE r == [ok |-> TRUE, usage |-> u, cost |-> Calculate(u)]
      <4>1. r.ok = TRUE /\ r.usage = u /\ r.cost = Calculate(u)
        OBVIOUS
      <4> HIDE DEF r
      <4>2. PaidFor(r, 1)
        BY <2>2, <3>3, <4>1 DEF PaidFor
      <4>3. QED
        BY <4>2 DEF r
    <3>5. QED
      BY <1>6, <2>1, <3>1, <3>4, PaidEnd
  <2>3. CASE pricing # "valid"
    <3>1. FailAttempt(c, Error("pricing", "pricing_unavailable"))
      BY <1>6, <2>3 DEF GetCost
    <3>2. /\ ~IsRetryable(Error("pricing", "pricing_unavailable"))
          /\ ~ClassifiedRetryable(Error("pricing", "pricing_unavailable"))
      BY DEF Error, IsRetryable, ClassifiedRetryable
    <3>3. QED
      BY <1>6, <2>1, <3>1, <3>2, PaidFail
  <2>4. QED
    BY <2>2, <2>3
<1>7. ASSUME NEW c \in Callers, Load(c) \/ Store(c), UNCHANGED <<result, whole, pricing>>
      PROVE  PaidInv'
  <2>1. HasEnded(c)
    BY <1>7 DEF Load, Store, HasEnded
  <2>2. PICK s \in {"observe", "done"} : at' = [at EXCEPT ![c] = s]
    BY <1>7 DEF Load, Store, PaidInv
  <2>3. QED
    BY <1>1, <1>7, <2>1, <2>2, PaidMove
<1>8. CASE UNCHANGED callVars \/ PricesExpire \/ ConcurrentMapWrites
  <2>1. UNCHANGED <<at, result, whole>> /\ (pricing' = "missing" => pricing = "missing")
    BY <1>8 DEF callVars, PricesExpire, ConcurrentMapWrites
  <2>2. QED
    BY <2>1 DEF PaidInv, Paid, PaidFor, HasEnded
<1>9. QED
  BY <1>2, <1>3, <1>4, <1>5, <1>6, <1>7, <1>8 DEF CallNext, CallStep

\* The invariant of the payments says what a call has paid when it ends.
LEMMA PaidImplies == PaidInv => PaidOnce
  BY DEF PaidInv, Paid, PaidFor, Priced, HasEnded, PaidOnce, Ended, Succeeded

\* No call pays for a second whole response, and none is handed on without a
\* price, for any number of callers and attempts, refusals, usages and rates.
THEOREM CallsPayOnce == CallSpec => []PaidOnce
  BY PaidInit, PaidStep, PaidImplies, PTL DEF CallSpec

(* ----------------------- ScoreAnswers and its scores -------------------- *)

\* What is in orderedScores.
ScoreRecords ==
    [answer: Nat, valid: BOOLEAN, value: Int,
     reason: {"none", "text", "long", "ref"}, tokens: {0, 1}]

\* What is true of answer i, by the state of its goroutine.
WorkerInv(i) ==
    /\ worker[i] # "done" => scores[i] = ZeroScore
    /\ worker[i] = "storing" => reply[i] \in Replies /\ IsLarge(JudgedScore(i, reply[i]))
    /\ worker[i] = "done" => Faithful(i, scores[i]) \/ (scores[i] = ZeroScore /\ cancelled[1])
    /\ scores[i].valid <=> scores[i].tokens = 1

ScoresInv ==
    /\ ReportInv
    /\ batch \in Nat /\ cancelled \in [Attempts -> BOOLEAN]
    /\ DOMAIN reply = 1..batch
    /\ scores \in [1..batch -> ScoreRecords]
    /\ \A i \in 1..batch : WorkerInv(i)
    /\ report # <<>> => report.tokens = TokensUsed(scores)

\* At first nothing is scored.
LEMMA ScoresInit == SinkInit /\ ScoringInit => ScoresInv
<1> SUFFICES ASSUME SinkInit, ScoringInit PROVE ScoresInv
  OBVIOUS
<1>1. 1..0 = {} /\ batch = 0
  BY DEF ScoringInit
<1>2. scores \in [1..batch -> ScoreRecords] /\ DOMAIN reply = 1..batch
  BY <1>1 DEF ScoringInit
<1>3. QED
  BY <1>1, <1>2, ReportInit DEF SinkInit, ScoringInit, ScoresInv

\* What the judge's score says of its reply, before the rationale is stored.
LEMMA JudgedScoreRight ==
    ASSUME NEW i \in Nat, NEW r \in Replies
    PROVE  /\ JudgedScore(i, r) \in ScoreRecords
           /\ JudgedScore(i, r).answer = i
           /\ JudgedScore(i, r).valid <=> JudgedScore(i, r).tokens = 1
           /\ JudgedScore(i, r).valid =>
                 /\ r.json \notin {"none", "broken", "mistyped"}
                 /\ r.inRange /\ r.reasoning # "short" /\ ~r.zero
                 /\ JudgedScore(i, r).value \in 0..Top
                 /\ JudgedScore(i, r).reason = r.reasoning
           /\ IsLarge(JudgedScore(i, r)) => JudgedScore(i, r).valid
           /\ r.reasoning \in {"short", "text", "long"}
<1>1. /\ r.json \in {"valid", "repairable", "broken", "mistyped"} /\ r.value \in Int
      /\ r.reasoning \in {"short", "text", "long"} /\ Top \in Nat
  BY ScoringAssumption
<1>2. Clamped(r.value) \in 0..Top
  BY <1>1 DEF Clamped
<1>3. CASE Validates(r) /\ r.json # "mistyped" /\ MakesScore(r)
  <2>1. JudgedScore(i, r) = [answer |-> i, valid |-> TRUE, value |-> Clamped(r.value),
                             reason |-> r.reasoning, tokens |-> 1]
    BY <1>3 DEF JudgedScore
  <2>2. /\ r.inRange /\ ~r.zero /\ r.reasoning # "short"
        /\ r.json \notin {"none", "broken", "mistyped"}
    BY <1>1, <1>3 DEF Validates, MeetsSchema, MakesScore
  <2>3. QED
    BY <1>1, <1>2, <2>1, <2>2 DEF ScoreRecords
<1>4. CASE ~(Validates(r) /\ r.json # "mistyped" /\ MakesScore(r))
  <2>1. JudgedScore(i, r) = [answer |-> i, valid |-> FALSE, value |-> 0, reason |-> "text",
                             tokens |-> 0]
    BY <1>4 DEF JudgedScore, InvalidScore, ZeroScore
  <2>2. QED
    BY <1>1, <2>1 DEF ScoreRecords, IsLarge
<1>5. QED
  BY <1>3, <1>4

\* A score that is not valid claims nothing.
LEMMA NoScoreRight ==
    ASSUME NEW i \in Nat
    PROVE  /\ InvalidScore(i) \in ScoreRecords /\ Faithful(i, InvalidScore(i))'
           /\ InvalidScore(i).valid <=> InvalidScore(i).tokens = 1
           /\ FallbackScore(i) \in ScoreRecords /\ Faithful(i, FallbackScore(i))'
           /\ FallbackScore(i).valid <=> FallbackScore(i).tokens = 1
<1>1. ZeroScore \in ScoreRecords
  BY DEF ZeroScore, ScoreRecords
<1>2. InvalidScore(i) \in ScoreRecords /\ FallbackScore(i) \in ScoreRecords
  BY <1>1 DEF InvalidScore, FallbackScore, ScoreRecords
<1>3. /\ ~InvalidScore(i).valid /\ InvalidScore(i).answer = i /\ InvalidScore(i).tokens = 0
      /\ ~FallbackScore(i).valid /\ FallbackScore(i).answer = i /\ FallbackScore(i).tokens = 0
  BY DEF InvalidScore, FallbackScore, ZeroScore
<1>4. QED
  BY <1>2, <1>3 DEF Faithful

\* Steps that write no score.
LEMMA ScoresFrame ==
    ASSUME ScoresInv, ReportInv', UNCHANGED <<batch, reply, scores>>,
           cancelled' \in [Attempts -> BOOLEAN], cancelled[1] => cancelled'[1],
           \A i \in rationales : i \in rationales',
           report' = report \/ (report' # <<>> => report'.tokens = TokensUsed(scores)),
           \A i \in 1..batch :
              \/ worker'[i] = worker[i]
              \/ worker[i] # "done" /\ worker'[i] \in {"queued", "asking"}
              \/ worker[i] # "done" /\ worker'[i] = "done" /\ cancelled[1]
    PROVE  ScoresInv'
<1>1. ASSUME NEW i \in 1..batch
      PROVE  WorkerInv(i)'
  <2>1. Faithful(i, scores[i]) => Faithful(i, scores[i])'
    BY DEF Faithful
  <2>2. WorkerInv(i)
    BY DEF ScoresInv
  <2>3. QED
    BY <2>1, <2>2 DEF WorkerInv
<1>2. TokensUsed(scores)' = TokensUsed(scores)
  BY DEF TokensUsed
<1>3. QED
  BY <1>1, <1>2 DEF ScoresInv

\* The goroutine of answer i ends with a score.
LEMMA ScoreWritten ==
    ASSUME ScoresInv, ReportInv', NEW i \in 1..batch, NEW score \in ScoreRecords,
           WorkerDone(i, score), worker[i] # "done",
           UNCHANGED <<batch, scoring, report, cancelled>>,
           DOMAIN reply' = DOMAIN reply, \A j \in 1..batch : j # i => reply'[j] = reply[j],
           \A j \in rationales : j \in rationales',
           Faithful(i, score)', score.valid <=> score.tokens = 1
    PROVE  ScoresInv'
<1>1. /\ scores'[i] = score /\ worker'[i] = "done"
      /\ \A j \in 1..batch : j # i => scores'[j] = scores[j] /\ worker'[j] = worker[j]
      /\ scores' \in [1..batch -> ScoreRecords]
  BY DEF WorkerDone, ScoresInv, ReportInv
<1>2. ASSUME NEW j \in 1..batch, j # i
      PROVE  WorkerInv(j)'
  <2>1. Faithful(j, scores[j]) => Faithful(j, scores[j])'
    BY <1>1, <1>2 DEF Faithful
  <2>2. WorkerInv(j)
    BY DEF ScoresInv
  <2>3. QED
    BY <1>1, <1>2, <2>1, <2>2 DEF WorkerInv
<1>3. WorkerInv(i)'
  BY <1>1 DEF WorkerInv, Faithful
<1>4. report = <<>>
  BY DEF ScoresInv, ReportInv
<1>5. QED
  BY <1>1, <1>2, <1>3, <1>4 DEF ScoresInv

\* Every step of ScoreAnswers keeps ScoresInv.
LEMMA ScoresStep ==
    ASSUME ScoresInv, [ScoringNext]_<<sinkVars, scoringVars>>
    PROVE  ScoresInv'
<1>0. ReportInv' /\ 1 \in Attempts
  BY ReportStep, MaxAttemptsAssumption DEF ScoresInv, Attempts
<1>1. ASSUME NEW n \in Batches, NEW t \in Tenants, BeginScoring(n, t), UNCHANGED sinkVars
      PROVE  ScoresInv'
  <2>1. n \in Nat /\ report = <<>>
    BY <1>1, ScoringAssumption DEF BeginScoring, ScoresInv, ReportInv
  <2>2. ZeroScore \in ScoreRecords /\ (ZeroScore.valid <=> ZeroScore.tokens = 1)
    BY DEF ZeroScore, ScoreRecords
  <2>3. batch' = n /\ scores' = [i \in 1..n |-> ZeroScore] /\ scores' \in [1..n -> ScoreRecords]
    BY <1>1, <2>2 DEF BeginScoring
  <2>4. \A i \in 1..n : WorkerInv(i)'
    BY <1>1, <2>2 DEF BeginScoring, WorkerInv
  <2>5. QED
    BY <1>0, <1>1, <2>1, <2>3, <2>4 DEF BeginScoring, ScoresInv, sinkVars
<1>2. ASSUME LaunchWorker, UNCHANGED sinkVars
      PROVE  ScoresInv'
  <2>1. UNCHANGED <<batch, reply, scores, rationales, report, cancelled>>
    BY <1>2 DEF LaunchWorker, sinkVars
  <2>2. ASSUME NEW i \in 1..batch
        PROVE  worker'[i] = worker[i] \/ (worker[i] # "done" /\ worker'[i] \in {"queued", "asking"})
    BY <1>2 DEF LaunchWorker, ScoresInv, ReportInv
  <2>3. QED
    BY <1>0, <2>1, <2>2, ScoresFrame DEF ScoresInv
<1>3. ASSUME Gather
      PROVE  ScoresInv'
  <2>1. UNCHANGED <<batch, reply, scores, rationales, cancelled, worker>>
        /\ report' = [scores |-> scores, tokens |-> TokensUsed(scores)]
    BY <1>3 DEF Gather
  <2>2. report'.tokens = TokensUsed(scores)
    BY <2>1
  <2>3. QED
    BY <1>0, <2>1, <2>2, ScoresFrame DEF ScoresInv
<1>4. ASSUME UNCHANGED <<batch, reply, scores, rationales, report, worker>>,
             cancelled' \in [Attempts -> BOOLEAN], cancelled[1] => cancelled'[1]
      PROVE  ScoresInv'
  BY <1>0, <1>4, ScoresFrame
<1>5. ASSUME NEW i \in DOMAIN worker, Worker(i), UNCHANGED sinkVars
      PROVE  ScoresInv'
  <2>0. i \in 1..batch /\ i \in Nat /\ UNCHANGED <<batch, scoring, report, cancelled>>
    BY <1>5
    DEF ScoresInv, ReportInv, Worker, StartWorker, JudgeReplies, JudgeFails, StoreRationale,
        StoreRationaleFails, sinkVars
  <2>1. CASE StartWorker(i)
    <3>1. UNCHANGED <<reply, scores, rationales>>
      BY <2>1 DEF StartWorker
    <3>2. ASSUME NEW j \in 1..batch
          PROVE  \/ worker'[j] = worker[j]
                 \/ worker[j] # "done" /\ worker'[j] \in {"queued", "asking"}
                 \/ worker[j] # "done" /\ worker'[j] = "done" /\ cancelled[1]
      BY <2>1 DEF StartWorker, ScoresInv, ReportInv
    <3>3. QED
      BY <1>0, <2>0, <3>1, <3>2, ScoresFrame DEF ScoresInv
  <2>2. CASE JudgeReplies(i)
    <3>1. PICK r \in Replies :
              /\ reply' = [reply EXCEPT ![i] = r]
              /\ IF IsLarge(JudgedScore(i, r))
                 THEN worker' = [worker EXCEPT ![i] = "storing"] /\ UNCHANGED scores
                 ELSE WorkerDone(i, JudgedScore(i, r))
      BY <2>2 DEF JudgeReplies
    <3>2. /\ worker[i] = "asking" /\ UNCHANGED rationales
          /\ reply'[i] = r /\ DOMAIN reply' = DOMAIN reply
          /\ \A j \in 1..batch : j # i => reply'[j] = reply[j]
      BY <2>0, <2>2, <3>1 DEF JudgeReplies, ScoresInv
    <3>3. CASE ~IsLarge(JudgedScore(i, r))
      <4>1. Faithful(i, JudgedScore(i, r))'
        <5> DEFINE s == JudgedScore(i, r)
        <5>1. /\ s.answer = i
              /\ s.valid => /\ r.json \notin {"none", "broken", "mistyped"}
                            /\ r.inRange /\ r.reasoning # "short" /\ ~r.zero
                            /\ s.value \in 0..Top /\ s.reason = r.reasoning
              /\ r.reasoning \in {"short", "text", "long"} /\ s.reason # "long"
          BY <2>0, <3>3, JudgedScoreRight DEF IsLarge
        <5> HIDE DEF s
        <5>2. Faithful(i, s)'
          BY <3>2, <5>1 DEF Faithful
        <5>3. QED
          BY <5>2 DEF s
      <4>2. QED
        BY <1>0, <2>0, <3>1, <3>2, <3>3, <4>1, JudgedScoreRight, ScoreWritten
    <3>4. CASE IsLarge(JudgedScore(i, r))
      <4>1. /\ UNCHANGED scores /\ worker'[i] = "storing"
            /\ \A j \in 1..batch : j # i => worker'[j] = worker[j]
        BY <2>0, <3>1, <3>4 DEF ScoresInv, ReportInv
      <4>2. ASSUME NEW j \in 1..batch, j # i
            PROVE  WorkerInv(j)'
        <5>1. Faithful(j, scores[j]) => Faithful(j, scores[j])'
          BY <3>2, <4>1, <4>2 DEF Faithful
        <5>2. WorkerInv(j)
          BY DEF ScoresInv
        <5>3. QED
          BY <2>0, <3>2, <4>1, <4>2, <5>1, <5>2 DEF WorkerInv
      <4>3. WorkerInv(i)'
        <5>1. WorkerInv(i)
          BY <2>0 DEF ScoresInv
        <5>2. QED
          BY <3>2, <3>4, <4>1, <5>1 DEF WorkerInv
      <4>4. TokensUsed(scores)' = TokensUsed(scores)
        BY <4>1 DEF TokensUsed
      <4>5. QED
        BY <1>0, <2>0, <3>2, <4>1, <4>2, <4>3, <4>4 DEF ScoresInv
    <3>5. QED
      BY <3>3, <3>4
  <2>3. CASE JudgeFails(i)
    <3>1. /\ InvalidScore(i) \in ScoreRecords /\ Faithful(i, InvalidScore(i))'
          /\ InvalidScore(i).valid <=> InvalidScore(i).tokens = 1
      BY <2>0, NoScoreRight
    <3>2. QED
      BY <1>0, <2>0, <2>3, <3>1, ScoreWritten DEF JudgeFails
  <2>4. CASE StoreRationale(i)
    <3> PICK r : r = reply[i]
      OBVIOUS
    <3> DEFINE s == JudgedScore(i, r)
               stored == [s EXCEPT !.reason = "ref"]
    <3>1. r \in Replies /\ IsLarge(s)
      BY <2>0, <2>4 DEF StoreRationale, ScoresInv, WorkerInv
    <3>2. /\ s \in ScoreRecords /\ s.answer = i /\ s.valid /\ s.tokens = 1 /\ s.reason = "long"
          /\ r.json \notin {"none", "broken", "mistyped"} /\ r.inRange /\ ~r.zero
          /\ s.value \in 0..Top /\ r.reasoning = "long"
      BY <2>0, <3>1, JudgedScoreRight DEF IsLarge
    <3>3. worker[i] = "storing" /\ UNCHANGED reply /\ rationales' = rationales \cup {i}
          /\ WorkerDone(i, stored)
      BY <2>4 DEF StoreRationale
    <3> HIDE DEF s
    <3>4. /\ stored \in ScoreRecords /\ stored.answer = i /\ stored.valid /\ stored.tokens = 1
          /\ stored.reason = "ref" /\ stored.value = s.value
      BY <3>2 DEF ScoreRecords
    <3> HIDE DEF stored
    <3>5. reply'[i] = r
      BY <3>3
    <3>6. Faithful(i, stored)'
      BY <3>2, <3>3, <3>4, <3>5 DEF Faithful
    <3>7. QED
      BY <1>0, <2>0, <3>3, <3>4, <3>6, ScoreWritten
  <2>5. CASE StoreRationaleFails(i)
    <3>1. /\ FallbackScore(i) \in ScoreRecords /\ Faithful(i, FallbackScore(i))'
          /\ FallbackScore(i).valid <=> FallbackScore(i).tokens = 1
      BY <2>0, NoScoreRight
    <3>2. QED
      BY <1>0, <2>0, <2>5, <3>1, ScoreWritten DEF StoreRationaleFails
  <2>6. QED
    BY <1>5, <2>1, <2>2, <2>3, <2>4, <2>5 DEF Worker
<1>6. CASE UNCHANGED <<sinkVars, scoringVars>>
  BY <1>4, <1>6 DEF sinkVars, scoringVars, ScoresInv
<1>7. CASE ReturnScores /\ UNCHANGED sinkVars
  BY <1>4, <1>7 DEF sinkVars, ReturnScores, ScoresInv
<1>8. CASE Emit(1) /\ UNCHANGED scoringVars
  BY <1>4, <1>8 DEF Emit, Appended, AppendFails, EmissionCancelled, NextEvent, scoringVars, ScoresInv
<1>9. CASE Cancel(1) /\ UNCHANGED scoringVars
  BY <1>0, <1>4, <1>9 DEF Cancel, scoringVars, ScoresInv
<1>10. QED
  BY <1>1, <1>2, <1>3, <1>5, <1>6, <1>7, <1>8, <1>9 DEF ScoringNext, ScoringWork

\* The invariant of the scores says what is in a report.
LEMMA ScoresImply == ScoresInv => ScoresTrue
<1>1. SUFFICES ASSUME ScoresInv, report # <<>> PROVE ScoresTrue
  BY DEF ScoresTrue
<1>2. /\ report.scores = scores /\ scores \in [1..batch -> ScoreRecords] /\ batch \in Nat
      /\ report.tokens = TokensUsed(scores)
      /\ \A i \in 1..batch : worker[i] = "done"
  BY <1>1 DEF ScoresInv, ReportInv
<1>3. Len(scores) = batch
  BY <1>2
<1>4. \A i \in 1..batch : Faithful(i, scores[i]) \/ (scores[i] = ZeroScore /\ cancelled[1])
  BY <1>1, <1>2 DEF ScoresInv, WorkerInv
<1>5. TokensUsed(scores) = Cardinality({i \in 1..batch : scores[i].valid})
  <2> DEFINE used == [i \in DOMAIN scores |-> IF scores[i].valid THEN scores[i].tokens ELSE 0]
             T == {i \in 1..batch : scores[i].valid}
  <2>1. DOMAIN used = 1..batch /\ Marks(used, T, 1..batch)
    BY <1>1, <1>2 DEF ScoresInv, WorkerInv, Marks
  <2>2. IsFiniteSet(1..batch) /\ T \in SUBSET (1..batch)
    BY <1>2, FS_Interval
  <2>3. TokensUsed(scores) = SumFunction(used)
    BY DEF TokensUsed
  <2> HIDE DEF used, T
  <2>4. SumFunctionOnSet(used, 1..batch) = Cardinality(T)
    BY <2>1, <2>2, SumCounts
  <2>5. QED
    BY <2>1, <2>3, <2>4, SumOfFunction DEF T
<1>6. QED
  BY <1>2, <1>3, <1>4, <1>5 DEF ScoresTrue

\* A batch has one score per answer, whose validity the reply justifies, and the
\* activity reports what the valid ones have used.
THEOREM ScoresAreTrue == ScoringSpec => []ScoresTrue
  BY ScoresInit, ScoresStep, ScoresImply, PTL DEF ScoringSpec

(* ------------------- the events of ScoreAnswers are true ---------------- *)

\* The events ScoreAnswers may emit.
Told ==
    {AnswerScored(scores, i) : i \in {j \in 1..batch : scores[j].answer # 0}}
        \cup {ScoringUsage(scores)}

Reported == scoring \in {"emit", "done"}

\* What is in the sink, or will be, tells of the scores of a report, and only
\* for a tenant that is known.
ToldInv ==
    /\ DOMAIN outbox = Attempts
    /\ outbox[1] \in Seq(Told)
    /\ outbox[1] # <<>> => scoring = "emit" /\ TenantKnown
    /\ Reported => report.scores = scores
    /\ \A key \in DOMAIN sink :
          Reported /\ \E e \in Told : key = e.key /\ sink[key] = e.body
    /\ scoring = "idle" \/ ~TenantKnown => sink = <<>>

\* At first no score has been told of.
LEMMA ToldInit == SinkInit /\ ScoringInit => ToldInv
  BY MaxAttemptsAssumption DEF SinkInit, ScoringInit, ToldInv, Reported, Attempts

\* Every step of ScoreAnswers keeps ToldInv.
LEMMA ToldStep ==
    ASSUME ScoresInv, ToldInv, [ScoringNext]_<<sinkVars, scoringVars>>
    PROVE  ToldInv'
<1>0. 1 \in Attempts
  BY MaxAttemptsAssumption DEF Attempts
<1>1. ASSUME UNCHANGED sinkVars, outbox[1] = <<>>,
             DOMAIN sink = {} \/ UNCHANGED <<scores, batch, tenant>>,
             Reported' => Reported /\ UNCHANGED <<scores, report>>,
             Reported => Reported',
             scoring' = "idle" => scoring = "idle", sink # <<>> => UNCHANGED tenant
      PROVE  ToldInv'
  <2>1. outbox'[1] = <<>> /\ DOMAIN outbox' = Attempts /\ sink' = sink
    BY <1>1 DEF ToldInv, sinkVars
  <2>2. Reported' => report'.scores = scores'
    BY <1>1 DEF ToldInv
  <2>3. \A key \in DOMAIN sink' :
          Reported' /\ \E e \in Told' : key = e.key /\ sink'[key] = e.body
    <3>1. CASE DOMAIN sink = {}
      BY <2>1, <3>1
    <3>2. CASE UNCHANGED <<scores, batch, tenant>>
      <4>1. Told' = Told
        BY <3>2 DEF Told, AnswerScored, ScoringUsage, Event, TokensUsed
      <4>2. QED
        BY <1>1, <2>1, <4>1 DEF ToldInv
    <3>3. QED
      BY <1>1, <3>1, <3>2
  <2>4. scoring' = "idle" \/ ~TenantKnown' => sink' = <<>>
    BY <1>1, <2>1 DEF ToldInv, TenantKnown
  <2>5. <<>> \in Seq(Told')
    OBVIOUS
  <2>6. QED
    BY <2>1, <2>2, <2>3, <2>4, <2>5 DEF ToldInv
<1>2. ASSUME NEW n \in Batches, NEW t \in Tenants, BeginScoring(n, t), UNCHANGED sinkVars
      PROVE  ToldInv'
  <2>1. sink = <<>> /\ outbox[1] = <<>> /\ ~Reported' /\ ~Reported /\ scoring' # "idle"
    BY <1>2 DEF BeginScoring, ToldInv, Reported
  <2>2. QED
    BY <1>1, <1>2, <2>1
<1>3. ASSUME LaunchWorker, UNCHANGED sinkVars
      PROVE  ToldInv'
  <2>1. /\ outbox[1] = <<>> /\ ~Reported /\ ~Reported' /\ scoring' # "idle"
        /\ UNCHANGED <<scores, batch, tenant>>
    BY <1>3 DEF LaunchWorker, ToldInv, Reported
  <2>2. QED
    BY <1>1, <1>3, <2>1
<1>4. ASSUME NEW i \in DOMAIN worker, Worker(i), UNCHANGED sinkVars
      PROVE  ToldInv'
  <2>1. worker[i] # "done" /\ UNCHANGED <<scoring, report, batch, tenant>>
    BY <1>4
    DEF Worker, StartWorker, JudgeReplies, JudgeFails, StoreRationale, StoreRationaleFails
  <2>2. ~Reported /\ ~Reported' /\ outbox[1] = <<>>
    BY <2>1 DEF ScoresInv, ReportInv, Reported, ToldInv
  <2>3. DOMAIN sink = {}
    BY <2>2 DEF ToldInv
  <2>4. (scoring' = "idle" => scoring = "idle") /\ UNCHANGED tenant
    BY <2>1
  <2>5. QED
    BY <1>1, <1>4, <2>2, <2>3, <2>4
<1>5. ASSUME ReturnScores, UNCHANGED sinkVars
      PROVE  ToldInv'
  <2>1. /\ outbox[1] = <<>> /\ Reported /\ Reported' /\ scoring' # "idle"
        /\ UNCHANGED <<scores, batch, tenant, report>>
    BY <1>5 DEF ReturnScores, Reported
  <2>2. QED
    BY <1>1, <1>5, <2>1
<1>6. ASSUME Gather
      PROVE  ToldInv'
  <2>1. /\ DOMAIN sink = {} /\ UNCHANGED <<sink, scores, batch, tenant>> /\ Reported'
        /\ report'.scores = scores /\ scoring = "wait" /\ scoring' = "emit"
        /\ outbox' = [outbox EXCEPT ![1] = ScoringEvents(scores)]
    BY <1>6 DEF Gather, ToldInv, Reported
  <2>2. Told' = Told
    BY <2>1 DEF Told, AnswerScored, ScoringUsage, Event, TokensUsed
  <2>3. ScoringEvents(scores) \in Seq(Told) /\ (ScoringEvents(scores) # <<>> => TenantKnown)
    <3>1. CASE ~TenantKnown
      BY <3>1 DEF ScoringEvents
    <3>2. CASE TenantKnown
      <4> DEFINE S == {j \in 1..batch : scores[j].answer # 0}
                 events == [k \in DOMAIN InOrder(S) |-> AnswerScored(scores, InOrder(S)[k])]
      <4>1. DOMAIN scores = 1..batch /\ batch \in Nat
        BY DEF ScoresInv
      <4>2. Payloads(scores) = InOrder(S)
        BY <4>1 DEF Payloads
      <4>3. S \in SUBSET Int /\ IsFiniteSet(S)
        <5>1. IsFiniteSet(1..batch) /\ S \subseteq 1..batch
          BY <4>1, FS_Interval
        <5>2. S \subseteq Int
          BY <5>1
        <5> HIDE DEF S
        <5>3. QED
          BY <5>1, <5>2, FS_Subset
      <4>4. InOrder(S) \in [1..Cardinality(S) -> S] /\ Cardinality(S) \in Nat
        BY <4>3, InOrderAscends
      <4>5. \A j \in S : AnswerScored(scores, j) \in Told
        BY DEF Told
      <4> HIDE DEF S
      <4>6. events \in [1..Cardinality(S) -> Told]
        BY <4>4, <4>5
      <4>7. events \in Seq(Told) /\ <<ScoringUsage(scores)>> \in Seq(Told)
        BY <4>4, <4>6, SeqDef DEF Told
      <4>8. ScoringEvents(scores) = events \o <<ScoringUsage(scores)>>
        BY <3>2, <4>2 DEF ScoringEvents
      <4> HIDE DEF events
      <4>9. QED
        BY <3>2, <4>7, <4>8, ConcatProperties
    <3>3. QED
      BY <3>1, <3>2
  <2>4. /\ DOMAIN outbox' = Attempts /\ outbox'[1] = ScoringEvents(scores)
        /\ ~TenantKnown' => sink' = <<>>
    BY <1>0, <2>1 DEF ToldInv, TenantKnown
  <2>5. QED
    BY <2>1, <2>2, <2>3, <2>4 DEF ToldInv, TenantKnown
<1>7. ASSUME Emit(1), UNCHANGED scoringVars
      PROVE  ToldInv'
  <2>1. /\ Told' = Told /\ TenantKnown' = TenantKnown /\ Reported' = Reported
        /\ UNCHANGED <<scoring, report, scores>>
    BY <1>7 DEF Told, TenantKnown, Reported, scoringVars, AnswerScored, ScoringUsage, Event, TokensUsed
  <2>2. /\ outbox[1] # <<>> /\ outbox'[1] \in {outbox[1], Tail(outbox[1])}
        /\ DOMAIN outbox' = Attempts
        /\ \A key \in DOMAIN sink' :
                 \/ key \in DOMAIN sink /\ sink'[key] = sink[key]
                 \/ key = Head(outbox[1]).key /\ sink'[key] = Head(outbox[1]).body
    BY <1>0, <1>7, EmitStep DEF ToldInv
  <2>3. Head(outbox[1]) \in Told /\ Tail(outbox[1]) \in Seq(Told)
    BY <2>2, HeadTailProperties DEF ToldInv
  <2>4. scoring = "emit" /\ TenantKnown /\ Reported
    BY <2>2 DEF ToldInv, Reported
  <2>5. \A key \in DOMAIN sink' : \E e \in Told : key = e.key /\ sink'[key] = e.body
    BY <2>2, <2>3 DEF ToldInv
  <2>6. outbox'[1] \in Seq(Told')
    BY <2>1, <2>2, <2>3 DEF ToldInv
  <2>7. QED
    BY <2>1, <2>2, <2>4, <2>5, <2>6 DEF ToldInv
<1>8. ASSUME Cancel(1) \/ UNCHANGED sinkVars, UNCHANGED scoringVars
      PROVE  ToldInv'
  <2>1. UNCHANGED <<sink, outbox>>
    BY <1>8 DEF Cancel, sinkVars
  <2>2. Told' = Told /\ UNCHANGED <<scoring, tenant, report, scores>>
    BY <1>8 DEF Told, scoringVars, AnswerScored, ScoringUsage, Event, TokensUsed
  <2>3. QED
    BY <2>1, <2>2 DEF ToldInv, TenantKnown, Reported
<1>9. QED
  BY <1>2, <1>3, <1>4, <1>5, <1>6, <1>7, <1>8 DEF ScoringNext, ScoringWork

\* What ToldInv says of the events in the sink.
LEMMA ScoreEventsRight == ScoresInv /\ ToldInv => ScoreEventsTrue
<1> SUFFICES ASSUME ScoresInv, ToldInv PROVE ScoreEventsTrue
  OBVIOUS
<1>1. ASSUME NEW key \in DOMAIN sink, key[1] = "score"
      PROVE  /\ key[2] \in 1..batch /\ sink[key] = report.scores[key[2]]
             /\ sink[key].answer = key[2]
  <2>1. report.scores = scores
    BY DEF ToldInv
  <2>2. PICK e \in Told : key = e.key /\ sink[key] = e.body
    BY DEF ToldInv
  <2>3. e # ScoringUsage(scores)
    BY <1>1, <2>2 DEF ScoringUsage, Event
  <2>4. PICK i \in 1..batch : scores[i].answer # 0 /\ e = AnswerScored(scores, i)
    BY <2>2, <2>3 DEF Told
  <2>5. key = <<"score", i>> /\ sink[key] = scores[i]
    BY <2>2, <2>4 DEF AnswerScored, Event
  <2>6. scores[i].answer = i
    BY <2>4 DEF ScoresInv, WorkerInv, Faithful, ZeroScore
  <2>7. QED
    BY <2>1, <2>5, <2>6
<1>2. scoring # "idle" /\ tenant = "default" => sink = <<>>
  BY DEF ToldInv, TenantKnown
<1>3. QED
  BY <1>1, <1>2 DEF ScoreEventsTrue

(* ---------------- the events of the three activities are true ----------- *)

\* What is in the sink, or will be, is the verdict, and it has a winner.
ElectedInv ==
    /\ DOMAIN outbox = Attempts
    /\ outbox[1] \in Seq({VerdictReached(verdict)})
    /\ outbox[1] # <<>> => aggregating = "emit" /\ verdict.winner # NoOne
    /\ \A key \in DOMAIN sink :
          /\ aggregating \in {"emit", "done"} /\ verdict.winner # NoOne
          /\ key = VerdictReached(verdict).key /\ sink[key] = VerdictReached(verdict).body

\* At first no verdict has been told of.
LEMMA ElectedInit == SinkInit => ElectedInv
  BY MaxAttemptsAssumption DEF SinkInit, ElectedInv, Attempts

\* Every step of AggregateScores keeps ElectedInv.
LEMMA ElectedStep ==
    ASSUME ElectedInv, [AggregationNext]_<<sinkVars, aggregationVars>>
    PROVE  ElectedInv'
<1>0. 1 \in Attempts
  BY MaxAttemptsAssumption DEF Attempts
<1>1. ASSUME UNCHANGED <<sink, outbox, verdict>>, UNCHANGED aggregating \/ outbox[1] = <<>>,
             aggregating \in {"emit", "done"} => aggregating' \in {"emit", "done"}
      PROVE  ElectedInv'
  <2>1. VerdictReached(verdict)' = VerdictReached(verdict)
    BY <1>1 DEF VerdictReached, Event
  <2>2. QED
    BY <1>1, <2>1 DEF ElectedInv
<1>2. ASSUME Aggregate
      PROVE  ElectedInv'
  <2>1. /\ DOMAIN sink = {} /\ UNCHANGED sink /\ aggregating' = "emit"
        /\ outbox' = [outbox EXCEPT ![1] = VerdictEvents(verdict')]
    BY <1>2 DEF Aggregate, ElectedInv
  <2>2. DOMAIN outbox' = Attempts /\ outbox'[1] = VerdictEvents(verdict')
    BY <1>0, <2>1 DEF ElectedInv
  <2>3. \/ outbox'[1] = <<>>
        \/ outbox'[1] = <<VerdictReached(verdict)'>> /\ verdict'.winner # NoOne
    BY <2>2 DEF VerdictEvents, VerdictReached
  <2>4. outbox'[1] \in Seq({VerdictReached(verdict)'})
    <3>1. PICK e : e = VerdictReached(verdict)'
      OBVIOUS
    <3>2. <<e>> \in Seq({e}) /\ <<>> \in Seq({e})
      OBVIOUS
    <3>3. QED
      BY <2>3, <3>1, <3>2
  <2>5. QED
    BY <2>1, <2>2, <2>3, <2>4 DEF ElectedInv
<1>3. ASSUME Emit(1), UNCHANGED aggregationVars
      PROVE  ElectedInv'
  <2>1. VerdictReached(verdict)' = VerdictReached(verdict) /\ UNCHANGED <<aggregating, verdict>>
    BY <1>3 DEF VerdictReached, Event, aggregationVars
  <2>2. /\ outbox[1] # <<>> /\ outbox'[1] \in {outbox[1], Tail(outbox[1])}
        /\ DOMAIN outbox' = Attempts
        /\ \A key \in DOMAIN sink' :
                 \/ key \in DOMAIN sink /\ sink'[key] = sink[key]
                 \/ key = Head(outbox[1]).key /\ sink'[key] = Head(outbox[1]).body
    BY <1>0, <1>3, EmitStep DEF ElectedInv
  <2>3. /\ Head(outbox[1]) = VerdictReached(verdict)
        /\ Tail(outbox[1]) \in Seq({VerdictReached(verdict)})
    BY <2>2, HeadTailProperties DEF ElectedInv
  <2>4. aggregating = "emit" /\ verdict.winner # NoOne
    BY <2>2 DEF ElectedInv
  <2>5. outbox'[1] \in Seq({VerdictReached(verdict)'})
    BY <2>1, <2>2, <2>3 DEF ElectedInv
  <2>6. QED
    BY <2>1, <2>2, <2>3, <2>4, <2>5 DEF ElectedInv
<1>4. CASE Submit /\ UNCHANGED sinkVars
  BY <1>1, <1>4 DEF Submit, sinkVars, ElectedInv
<1>5. CASE (RefuseToAggregate \/ ReturnVerdict) /\ UNCHANGED sinkVars
  BY <1>1, <1>5 DEF RefuseToAggregate, ReturnVerdict, sinkVars, ElectedInv
<1>6. CASE (Cancel(1) \/ UNCHANGED sinkVars) /\ UNCHANGED aggregationVars
  BY <1>1, <1>6 DEF Cancel, sinkVars, aggregationVars
<1>7. QED
  BY <1>2, <1>3, <1>4, <1>5, <1>6 DEF AggregationNext, AggregationWork

\* The invariant of each task.
TaskInv ==
    /\ task = "generate" => ResultInv /\ AnnouncedInv
    /\ task = "score" => ScoresInv /\ ToldInv
    /\ task = "aggregate" => ElectedInv
    /\ task = "call" => sink = <<>>
    /\ task \in Tasks
    /\ task # "score" => scoring = "idle"

\* The invariants of the three activities hold at first.
LEMMA TaskInit == Init => TaskInv
  BY ResultInit, AnnouncedInit, ScoresInit, ToldInit, ElectedInit
  DEF Init, TaskInv, SinkInit, ScoringInit

\* Every step of a task keeps TaskInv.
LEMMA TaskStep ==
    ASSUME TaskInv, [Next]_activityVars
    PROVE  TaskInv'
<1>1. CASE UNCHANGED activityVars
  <2>1. /\ UNCHANGED <<task, sink, scoring>>
        /\ UNCHANGED <<sinkVars, generationVars>> /\ UNCHANGED <<sinkVars, scoringVars>>
        /\ UNCHANGED <<sinkVars, aggregationVars>>
    BY <1>1 DEF activityVars, sinkVars, scoringVars
  <2>2. QED
    BY <2>1, ResultStep, AnnouncedStep, ScoresStep, ToldStep, ElectedStep DEF TaskInv
<1>2. CASE Only("generate", GenerationNext) /\ NoScoring
  BY <1>2, ResultStep, AnnouncedStep DEF Only, NoScoring, scoringVars, TaskInv
<1>3. CASE Only("score", ScoringNext)
  BY <1>3, ScoresStep, ToldStep DEF Only, TaskInv
<1>4. CASE Only("aggregate", AggregationNext) /\ NoScoring
  BY <1>4, ElectedStep DEF Only, NoScoring, scoringVars, TaskInv
<1>5. CASE Only("call", CallNext) /\ NoScoring /\ UNCHANGED sinkVars
  BY <1>5 DEF Only, NoScoring, scoringVars, sinkVars, TaskInv
<1>6. QED
  BY <1>1, <1>2, <1>3, <1>4, <1>5 DEF Next

\* Only the task's own events are in the sink.
LEMMA EventsRight == TaskInv => EventsTrue
<1> SUFFICES ASSUME TaskInv PROVE EventsTrue
  OBVIOUS
<1>1. CASE task = "generate"
  <2>1. ResultInv /\ AnnouncedInv /\ scoring = "idle"
    BY <1>1 DEF TaskInv
  <2>2. ASSUME NEW key \in DOMAIN sink
        PROVE  /\ key[1] \notin {"score", "verdict"}
               /\ key[1] = "cand" =>
                     \E a \in Attempts :
                        /\ outcome[a] # "failed"
                        /\ key[2] \in DOMAIN answers[a]
                        /\ sink[key] = <<a, answers[a][key[2]]>>
    <3>1. PICK a \in Attempts : Through(a) /\ \E e \in Announced(a) :
              key = e.key /\ sink[key] = e.body
      BY <2>1 DEF AnnouncedInv
    <3>2. PICK e \in Announced(a) : key = e.key /\ sink[key] = e.body
      BY <3>1
    <3>3. CASE e = LLMUsage(a)
      BY <3>2, <3>3 DEF LLMUsage, Event
    <3>4. CASE \E k \in DOMAIN answers[a] : e = CandidateProduced(a, k)
      <4>1. PICK k \in DOMAIN answers[a] : e = CandidateProduced(a, k)
        BY <3>4
      <4>2. key = <<"cand", k>> /\ sink[key] = <<a, answers[a][k]>>
        BY <3>2, <4>1 DEF CandidateProduced, Event
      <4>3. QED
        BY <3>1, <4>2 DEF Through
    <3>5. QED
      BY <3>2, <3>3, <3>4 DEF Announced
  <2>3. QED
    BY <2>1, <2>2 DEF EventsTrue, CandidatesTrue, ScoreEventsTrue, VerdictEventTrue
<1>2. CASE task = "score"
  <2>1. ScoresInv /\ ToldInv
    BY <1>2 DEF TaskInv
  <2>2. ASSUME NEW key \in DOMAIN sink
        PROVE  key[1] \notin {"cand", "verdict"}
    <3>1. PICK e \in Told : key = e.key
      BY <2>1 DEF ToldInv
    <3>2. QED
      BY <3>1 DEF Told, AnswerScored, ScoringUsage, Event
  <2>3. QED
    BY <2>1, <2>2, ScoreEventsRight DEF EventsTrue, CandidatesTrue, VerdictEventTrue
<1>3. CASE task = "aggregate"
  <2>1. ElectedInv /\ scoring = "idle"
    BY <1>3 DEF TaskInv
  <2>2. ASSUME NEW key \in DOMAIN sink
        PROVE  key[1] = "verdict" /\ sink[key] = verdict /\ verdict.winner # NoOne
    BY <2>1 DEF ElectedInv, VerdictReached, Event
  <2>3. QED
    BY <2>1, <2>2 DEF EventsTrue, CandidatesTrue, ScoreEventsTrue, VerdictEventTrue
<1>4. CASE task = "call"
  <2>1. DOMAIN sink = {} /\ scoring = "idle"
    BY <1>4 DEF TaskInv
  <2>2. QED
    BY <2>1 DEF EventsTrue, CandidatesTrue, ScoreEventsTrue, VerdictEventTrue
<1>5. QED
  BY <1>1, <1>2, <1>3, <1>4 DEF TaskInv, Tasks

\* Every event in the sink tells the truth about an output of the activity that
\* emitted it, for any number of attempts, answers, scores and retries.
THEOREM EventsAreTrue == Spec => []EventsTrue
<1>1. QED
  BY TaskInit, TaskStep, EventsRight, PTL DEF Spec

(* ---------------------- the statistics of LLM calls --------------------- *)

\* The updates of a failed call are three, with the elements in their order.
LEMMA ConcatThree ==
    ASSUME NEW a, NEW b, NEW c
    PROVE  LET q == <<a>> \o <<b, c>>
           IN  q \in Seq({a, b, c}) /\ Len(q) = 3 /\ q[1] = a /\ q[2] = b /\ q[3] = c
<1>1. <<a>> \in Seq({a, b, c}) /\ Len(<<a>>) = 1
  OBVIOUS
<1>2. <<b, c>> \in Seq({a, b, c}) /\ Len(<<b, c>>) = 2
  OBVIOUS
<1>3. <<a>>[1] = a /\ <<b, c>>[1] = b /\ <<b, c>>[2] = c
  OBVIOUS
<1>4. <<a>> \o <<b, c>> \in Seq({a, b, c})
  BY <1>1, <1>2, ConcatProperties
<1>5. QED
  BY <1>1, <1>2, <1>3, <1>4, ConcatProperties

\* The same for the four of a successful call.
LEMMA ConcatFour ==
    ASSUME NEW a, NEW b, NEW c, NEW d
    PROVE  LET q == <<a>> \o <<b, c, d>>
           IN  /\ q \in Seq({a, b, c, d}) /\ Len(q) = 4
               /\ q[1] = a /\ q[2] = b /\ q[3] = c /\ q[4] = d
<1>1. <<a>> \in Seq({a, b, c, d}) /\ Len(<<a>>) = 1
  OBVIOUS
<1>2. <<b, c, d>> \in Seq({a, b, c, d}) /\ Len(<<b, c, d>>) = 3
  OBVIOUS
<1>3. <<a>>[1] = a /\ <<b, c, d>>[1] = b /\ <<b, c, d>>[2] = c /\ <<b, c, d>>[3] = d
  OBVIOUS
<1>4. <<a>> \o <<b, c, d>> \in Seq({a, b, c, d})
  BY <1>1, <1>2, ConcatProperties
<1>5. QED
  BY <1>1, <1>2, <1>3, <1>4, ConcatProperties

\* The elements of a queue.
ElementsOf(q) == {q[i] : i \in 1..Len(q)}

\* A queue is one of its own elements.
LEMMA SeqOfItsElements ==
    ASSUME NEW S, NEW q \in Seq(S)
    PROVE  q \in Seq(ElementsOf(q))
<1>1. Len(q) \in Nat /\ q \in [1..Len(q) -> S]
  OBVIOUS
<1>2. q \in [1..Len(q) -> ElementsOf(q)]
  BY <1>1 DEF ElementsOf
<1>3. QED
  BY <1>1, <1>2, SeqDef

Cents == Counter("cents", NoKey)

Proper(r) == r.ok \in BOOLEAN /\ (r.ok => r.cost \in Nat)

\* Updates to be made: each to a counter of its own.
Distinct(queue) == \A i, j \in 1..Len(queue) : queue[i].counter = queue[j].counter => i = j
Owed(queue, k) == \E i \in 1..Len(queue) : queue[i].counter = k
Owing(queue, k) == CHOOSE i \in 1..Len(queue) : queue[i].counter = k

\* What a call that ended with r adds to counter k in all.
Share(r, k) == IF Owed(Updates(r), k) THEN Updates(r)[Owing(Updates(r), k)].amount ELSE 0

\* Some updates.
Amounts(queue) == \A i \in 1..Len(queue) : queue[i].amount \in Nat

\* The fields of an update.
LEMMA UpdateFields ==
    ASSUME NEW n, NEW k, NEW x
    PROVE  Update(n, k, x).counter = Counter(n, k) /\ Update(n, k, x).amount = x
  BY DEF Update

\* Counters are the same if their names and keys are.
LEMMA SameCounter ==
    ASSUME NEW n, NEW k, NEW m, NEW l
    PROVE  Counter(n, k) = Counter(m, l) <=> n = m /\ k = l
  BY DEF Counter

\* The updates of a successful call.
LEMMA SuccessUpdates ==
    ASSUME NEW r, Proper(r), r.ok
    PROVE  /\ Updates(r) \in Seq(ElementsOf(Updates(r)))
           /\ Len(Updates(r)) = 4 /\ Distinct(Updates(r)) /\ Amounts(Updates(r))
           /\ \A i \in 1..4 : Updates(r)[i].counter \in {Counter("total", NoKey), Counter("success", NoKey),
                                  Cents, Counter("RequestsByStatus", "stop")}
           /\ Share(r, Counter("total", NoKey)) = 1
           /\ Share(r, Counter("success", NoKey)) = 1
           /\ Share(r, Cents) = r.cost \div 1000
           /\ Share(r, Counter("error", NoKey)) = 0
           /\ \A type : Share(r, Counter("ErrorsByType", type)) = 0
<1> DEFINE q == Updates(r)
<1>1. /\ q \in Seq(ElementsOf(q)) /\ Len(q) = 4
      /\ q[1] = Update("total", NoKey, 1) /\ q[2] = Update("success", NoKey, 1)
      /\ q[3] = Update("cents", NoKey, r.cost \div 1000) /\ q[4] = Update("RequestsByStatus", "stop", 1)
  <2> DEFINE a == Update("total", NoKey, 1)
             b == Update("success", NoKey, 1)
             c == Update("cents", NoKey, r.cost \div 1000)
             d == Update("RequestsByStatus", "stop", 1)
  <2>1. q = <<a>> \o <<b, c, d>>
    BY DEF Updates
  <2> HIDE DEF a, b, c, d, q
  <2>2. q \in Seq({a, b, c, d}) /\ Len(q) = 4 /\ q[1] = a /\ q[2] = b /\ q[3] = c /\ q[4] = d
    BY <2>1, ConcatFour
  <2>3. q \in Seq(ElementsOf(q))
    BY <2>2, SeqOfItsElements
  <2>4. QED
    BY <2>2, <2>3 DEF a, b, c, d
<1>2. r.cost \div 1000 \in Nat
  BY DEF Proper
<1> HIDE DEF q
<1>3. /\ q[1].counter = Counter("total", NoKey) /\ q[1].amount = 1
      /\ q[2].counter = Counter("success", NoKey) /\ q[2].amount = 1
      /\ q[3].counter = Cents /\ q[3].amount = r.cost \div 1000
      /\ q[4].counter = Counter("RequestsByStatus", "stop") /\ q[4].amount = 1
  BY <1>1, UpdateFields DEF Cents
<1>4. 1..4 = {1, 2, 3, 4} /\ 1..Len(q) = {1, 2, 3, 4}
  BY <1>1
<1>5. \A i, j \in {1, 2, 3, 4} : q[i].counter = q[j].counter => i = j
  BY <1>3, SameCounter DEF NoKey, Cents
<1>6. ASSUME NEW i \in {1, 2, 3, 4}, NEW k, q[i].counter = k
      PROVE  Owed(q, k) /\ q[Owing(q, k)].amount = q[i].amount
  <2>1. Owing(q, k) \in {1, 2, 3, 4} /\ q[Owing(q, k)].counter = k
    BY <1>4, <1>6 DEF Owing
  <2>2. QED
    BY <1>4, <1>5, <1>6, <2>1 DEF Owed
<1>7. /\ Share(r, Counter("total", NoKey)) = 1
      /\ Share(r, Counter("success", NoKey)) = 1
      /\ Share(r, Cents) = r.cost \div 1000
  BY <1>3, <1>6 DEF Share, q
<1>8. /\ ~Owed(q, Counter("error", NoKey))
      /\ \A type : ~Owed(q, Counter("ErrorsByType", type))
  BY <1>3, <1>4, SameCounter DEF NoKey, Owed, Cents
<1>9. QED
  BY <1>1, <1>2, <1>3, <1>4, <1>5, <1>7, <1>8 DEF q, Distinct, Amounts, Share

\* The updates of a call that failed.
LEMMA FailureUpdates ==
    ASSUME NEW r, Proper(r), ~r.ok
    PROVE  /\ Updates(r) \in Seq(ElementsOf(Updates(r)))
           /\ Len(Updates(r)) = 3 /\ Distinct(Updates(r)) /\ Amounts(Updates(r))
           /\ \A i \in 1..3 : Updates(r)[i].counter \in {Counter("total", NoKey), Counter("error", NoKey),
                                  Counter("ErrorsByType", r.type)}
           /\ Share(r, Counter("total", NoKey)) = 1
           /\ Share(r, Counter("success", NoKey)) = 0
           /\ Share(r, Cents) = 0
           /\ Share(r, Counter("error", NoKey)) = 1
           /\ \A type : Share(r, Counter("ErrorsByType", type)) = IF type = r.type THEN 1 ELSE 0
<1> DEFINE q == Updates(r)
<1>1. /\ q \in Seq(ElementsOf(q)) /\ Len(q) = 3
      /\ q[1] = Update("total", NoKey, 1) /\ q[2] = Update("error", NoKey, 1)
      /\ q[3] = Update("ErrorsByType", r.type, 1)
  <2> DEFINE a == Update("total", NoKey, 1)
             b == Update("error", NoKey, 1)
             c == Update("ErrorsByType", r.type, 1)
  <2>1. q = <<a>> \o <<b, c>>
    BY DEF Updates
  <2> HIDE DEF a, b, c, q
  <2>2. q \in Seq({a, b, c}) /\ Len(q) = 3 /\ q[1] = a /\ q[2] = b /\ q[3] = c
    BY <2>1, ConcatThree
  <2>3. q \in Seq(ElementsOf(q))
    BY <2>2, SeqOfItsElements
  <2>4. QED
    BY <2>2, <2>3 DEF a, b, c
<1> HIDE DEF q
<1>3. /\ q[1].counter = Counter("total", NoKey) /\ q[1].amount = 1
      /\ q[2].counter = Counter("error", NoKey) /\ q[2].amount = 1
      /\ q[3].counter = Counter("ErrorsByType", r.type) /\ q[3].amount = 1
  BY <1>1, UpdateFields
<1>4. 1..3 = {1, 2, 3} /\ 1..Len(q) = {1, 2, 3}
  BY <1>1
<1>5. \A i, j \in {1, 2, 3} : q[i].counter = q[j].counter => i = j
  BY <1>3, SameCounter DEF NoKey
<1>6. ASSUME NEW i \in {1, 2, 3}, NEW k, q[i].counter = k
      PROVE  Owed(q, k) /\ q[Owing(q, k)].amount = q[i].amount
  <2>1. Owing(q, k) \in {1, 2, 3} /\ q[Owing(q, k)].counter = k
    BY <1>4, <1>6 DEF Owing
  <2>2. QED
    BY <1>4, <1>5, <1>6, <2>1 DEF Owed
<1>7. /\ Share(r, Counter("total", NoKey)) = 1
      /\ Share(r, Counter("error", NoKey)) = 1
      /\ Share(r, Counter("ErrorsByType", r.type)) = 1
  BY <1>3, <1>6 DEF Share, q
<1>8. /\ ~Owed(q, Counter("success", NoKey)) /\ ~Owed(q, Cents)
      /\ \A type : type # r.type => ~Owed(q, Counter("ErrorsByType", type))
  BY <1>3, <1>4, SameCounter DEF NoKey, Owed, Cents
<1>9. QED
  BY <1>1, <1>3, <1>4, <1>5, <1>7, <1>8 DEF q, Distinct, Amounts, Share

\* What the updates of a call say of its shares.
LEMMA UpdatesRight ==
    ASSUME NEW r, Proper(r)
    PROVE  /\ Updates(r) \in Seq(ElementsOf(Updates(r))) /\ Updates(r) # <<>>
           /\ Distinct(Updates(r))
           /\ \A u \in ElementsOf(Updates(r)) : u.amount = Share(r, u.counter)
           /\ \A k : Share(r, k) \in Nat
           /\ \A k : ~Owed(Updates(r), k) => Share(r, k) = 0
<1>1. /\ Updates(r) \in Seq(ElementsOf(Updates(r))) /\ Len(Updates(r)) \in {3, 4}
      /\ Distinct(Updates(r)) /\ Amounts(Updates(r))
  BY SuccessUpdates, FailureUpdates DEF Proper
<1> DEFINE q == Updates(r)
<1> HIDE DEF q
<1>2. /\ q \in Seq(ElementsOf(q)) /\ Len(q) \in {3, 4} /\ Distinct(q) /\ Amounts(q)
      /\ \A k : Share(r, k) = IF Owed(q, k) THEN q[Owing(q, k)].amount ELSE 0
  BY <1>1 DEF q, Share
<1>3. \A k : Owed(q, k) => Owing(q, k) \in 1..Len(q) /\ q[Owing(q, k)].counter = k
  BY DEF Owed, Owing
<1>4. q # <<>>
  <2>1. Len(q) \in {3, 4}
    BY <1>2, Zenon
  <2>2. Len(q) # 0
    BY <2>1
  <2>3. QED
    BY <2>2
<1>5. \A u \in ElementsOf(q) : u.amount = Share(r, u.counter)
  BY <1>2, <1>3 DEF ElementsOf, Distinct, Owed
<1>6. \A k : Share(r, k) \in Nat
  BY <1>2, <1>3 DEF Amounts
<1>7. \A k : ~Owed(q, k) => Share(r, k) = 0
  BY <1>2
<1>8. QED
  BY <1>2, <1>4, <1>5, <1>6, <1>7 DEF q

\* The first of some updates has been made.
LEMMA TailRight ==
    ASSUME NEW S, NEW q \in Seq(S), q # <<>>, Distinct(q)
    PROVE  /\ Tail(q) \in Seq(S) /\ Distinct(Tail(q)) /\ Head(q) \in S
           /\ Len(q) = 1 <=> Tail(q) = <<>>
           /\ Owed(q, Head(q).counter) /\ ~Owed(Tail(q), Head(q).counter)
           /\ \A k : k # Head(q).counter => (Owed(Tail(q), k) <=> Owed(q, k))
<1>1. /\ Tail(q) \in Seq(S) /\ Head(q) \in S /\ Head(q) = q[1]
      /\ Len(q) \in Nat /\ Len(q) > 0 /\ Len(Tail(q)) = Len(q) - 1
      /\ \A i \in 1..Len(q) - 1 : Tail(q)[i] = q[i + 1]
  BY HeadTailProperties
<1> DEFINE t == Tail(q)
           n == Len(q)
<1> HIDE DEF t, n
<1>2. /\ n \in Nat /\ n > 0 /\ Len(t) = n - 1
      /\ \A i \in 1..n - 1 : t[i] = q[i + 1]
      /\ \A i \in 2..n : q[i] = t[i - 1]
  <2>1. \A i \in 2..n : i - 1 \in 1..n - 1 /\ (i - 1) + 1 = i
    BY <1>1 DEF n
  <2>2. QED
    BY <1>1, <2>1 DEF t, n
<1>3. Distinct(t)
  BY <1>2 DEF Distinct, n
<1>4. n = 1 <=> t = <<>>
  BY <1>1 DEF t, n
<1>5. Owed(q, q[1].counter) /\ ~Owed(t, q[1].counter)
  BY <1>2 DEF Owed, Distinct, n
<1>6. ASSUME NEW k, k # q[1].counter
      PROVE  Owed(t, k) <=> Owed(q, k)
  <2>1. ASSUME NEW i \in 1..Len(t), t[i].counter = k
        PROVE  Owed(q, k)
    BY <1>2, <2>1 DEF Owed, n
  <2>2. ASSUME NEW i \in 1..n, q[i].counter = k
        PROVE  Owed(t, k)
    <3>1. i \in 2..n /\ i - 1 \in 1..Len(t)
      BY <1>2, <1>6, <2>2
    <3>2. QED
      BY <1>2, <2>2, <3>1 DEF Owed
  <2>3. QED
    BY <2>1, <2>2 DEF Owed, n
<1>7. QED
  BY <1>1, <1>3, <1>4, <1>5, <1>6 DEF t, n

\* What call c has added to counter k, and what all calls have, if no update was
\* lost.
Counted(c, k) == IF HasEnded(c) /\ ~Owed(updates[c], k) THEN Share(result[c], k) ELSE 0
CountedBy(k) == [c \in Callers |-> Counted(c, k)]
CountedSoFar(k) == SumFunctionOnSet(CountedBy(k), Callers)

\* Every caller's updates are some of those of its result.
QueueInv(c) ==
    /\ at[c] = "observe" <=> updates[c] # <<>>
    /\ HasEnded(c) => Proper(result[c])
    /\ updates[c] \in Seq(ElementsOf(Updates(result[c])))
    /\ Distinct(updates[c])
    /\ loaded[c] # NotLoaded => at[c] = "observe"

\* No counter tells of more than was counted, and is exact as long as no two
\* calls were observed at once.
CountInv ==
    /\ DOMAIN at = Callers /\ DOMAIN result = Callers
    /\ DOMAIN updates = Callers /\ DOMAIN loaded = Callers
    /\ \A c \in Callers : QueueInv(c)
    /\ \A k \in DOMAIN stats : stats[k] \in Nat /\ stats[k] <= CountedSoFar(k)
    /\ \A k \in DOMAIN stats : \E c \in Callers : HasEnded(c) /\ Owed(Updates(result[c]), k)
    /\ \A c \in Callers : loaded[c] # NotLoaded =>
          loaded[c] \in Nat /\ loaded[c] <= CountedSoFar(Head(updates[c]).counter)
    /\ ~overlapped =>
          /\ \A c, d \in Observing : c = d
          /\ \A k : Reading(k) = CountedSoFar(k)
          /\ \A c \in Callers : loaded[c] # NotLoaded =>
                loaded[c] = CountedSoFar(Head(updates[c]).counter)

\* There are finitely many callers.
LEMMA FiniteCallers == IsFiniteSet(Callers)
  BY CallAssumption, Zenon

\* What is counted is a number.
LEMMA CountedTyped ==
    ASSUME \A c \in Callers : QueueInv(c)
    PROVE  \A k : CountedBy(k) \in [Callers -> Nat] /\ CountedSoFar(k) \in Int
<1>1. ASSUME NEW k
      PROVE  CountedBy(k) \in [Callers -> Nat]
  BY UpdatesRight DEF CountedBy, Counted, QueueInv
<1>2. ASSUME NEW k
      PROVE  CountedSoFar(k) \in Int
  BY <1>1, FiniteCallers, SumTyped DEF CountedSoFar
<1>3. QED
  BY <1>1, <1>2

\* At first nothing is counted.
LEMMA CountInit == CallInit({"valid", "missing"}) => CountInv
<1> SUFFICES ASSUME CallInit({"valid", "missing"}) PROVE CountInv
  OBVIOUS
<1>1. ASSUME NEW c \in Callers
      PROVE  QueueInv(c) /\ ~HasEnded(c) /\ loaded[c] = NotLoaded
  <2>1. updates[c] = <<>> /\ at[c] = "idle" /\ loaded[c] = NotLoaded
    BY DEF CallInit
  <2>2. Distinct(<<>>)
    BY DEF Distinct
  <2>3. QED
    BY <2>1, <2>2 DEF QueueInv, HasEnded
<1>2. ASSUME NEW k
      PROVE  CountedSoFar(k) = 0 /\ Reading(k) = 0
  <2>1. Marks(CountedBy(k), {}, Callers)
    BY <1>1 DEF CountedBy, Counted, Marks
  <2>2. CountedSoFar(k) = Cardinality({})
    BY <2>1, FiniteCallers, SumCounts DEF CountedSoFar
  <2>3. QED
    BY <2>2, FS_EmptySet DEF Reading, CallInit
<1>3. Observing = {} /\ DOMAIN stats = {}
  BY <1>1 DEF CallInit, Observing
<1>4. QED
  BY <1>1, <1>2, <1>3 DEF CallInit, CountInv

\* The sums after a step of call c alone.
LEMMA CountedStep ==
    ASSUME \A d \in Callers : QueueInv(d), \A d \in Callers : QueueInv(d)',
           NEW c \in Callers, NEW k, \A d \in Callers : d # c => Counted(d, k)' = Counted(d, k)
    PROVE  /\ CountedSoFar(k)' = CountedSoFar(k) + Counted(c, k)' - Counted(c, k)
           /\ Counted(c, k) \in Nat /\ Counted(c, k)' \in Nat
           /\ CountedSoFar(k) \in Int /\ CountedSoFar(k)' \in Int
<1> DEFINE f == CountedBy(k)
           g == CountedBy(k)'
<1>1. \A d \in Callers : f[d] = Counted(d, k) /\ g[d] = Counted(d, k)'
  BY DEF CountedBy
<1>2. \A d \in Callers : f[d] \in Nat
  BY UpdatesRight DEF CountedBy, Counted, QueueInv
<1>3. \A d \in Callers : g[d] \in Nat
  BY UpdatesRight DEF CountedBy, Counted, QueueInv
<1>4. CountedSoFar(k) = SumFunctionOnSet(f, Callers) /\ CountedSoFar(k)' = SumFunctionOnSet(g, Callers)
  BY DEF CountedSoFar
<1> HIDE DEF f, g
<1>5. \A d \in Callers : d # c => f[d] = g[d]
  BY <1>1
<1>6. SumFunctionOnSet(g, Callers) = SumFunctionOnSet(f, Callers) + g[c] - f[c]
  BY <1>2, <1>3, <1>5, FiniteCallers, SumChanges
<1>7. SumFunctionOnSet(f, Callers) \in Int /\ SumFunctionOnSet(g, Callers) \in Int
  BY <1>2, <1>3, FiniteCallers, SumTyped
<1>8. QED
  BY <1>1, <1>2, <1>3, <1>4, <1>6, <1>7

\* A step of call c that leaves the statistics alone, and what c has counted.
LEMMA CountFrame ==
    ASSUME CountInv, NEW c \in Callers,
           \A d \in Callers : d # c =>
              at'[d] = at[d] /\ result'[d] = result[d] /\ updates'[d] = updates[d],
           DOMAIN at' = Callers, DOMAIN result' = Callers, DOMAIN updates' = Callers,
           UNCHANGED <<loaded, stats>>, loaded[c] = NotLoaded, QueueInv(c)',
           HasEnded(c) => HasEnded(c)' /\ result'[c] = result[c],
           \A k : Counted(c, k)' = Counted(c, k),
           ~overlapped' => ~overlapped /\ \A d, e \in Observing' : d = e
    PROVE  CountInv'
<1>1. \A d \in Callers : QueueInv(d)'
  BY DEF CountInv, QueueInv, HasEnded
<1>2. ASSUME NEW k
      PROVE  CountedSoFar(k)' = CountedSoFar(k)
  <2>1. \A d \in Callers : d # c => Counted(d, k)' = Counted(d, k)
    BY DEF Counted, HasEnded
  <2>2. QED
    BY <1>1, <2>1, CountedStep DEF CountInv
<1>3. ASSUME NEW d \in Callers, loaded[d] # NotLoaded
      PROVE  CountedSoFar(Head(updates[d]).counter)' = CountedSoFar(Head(updates[d]).counter)
  <2>1. Head(updates[d]).counter' = Head(updates[d]).counter
    BY <1>3
  <2>2. PICK k : k = Head(updates[d]).counter
    OBVIOUS
  <2>3. CountedSoFar(Head(updates[d]).counter)' = CountedSoFar(k)'
    BY <2>1, <2>2
  <2>4. QED
    BY <1>2, <2>2, <2>3
<1>4. \A k \in DOMAIN stats' : stats'[k] \in Nat /\ stats'[k] <= CountedSoFar(k)'
  BY <1>2 DEF CountInv
<1>5. \A k \in DOMAIN stats' : \E d \in Callers : HasEnded(d)' /\ Owed(Updates(result'[d]), k)
  BY DEF CountInv, HasEnded
<1>6. \A d \in Callers : loaded'[d] # NotLoaded =>
          loaded'[d] \in Nat /\ loaded'[d] <= CountedSoFar(Head(updates[d]).counter)'
  BY <1>3 DEF CountInv
<1>7. ASSUME ~overlapped'
      PROVE  /\ \A d, e \in Observing' : d = e
             /\ \A k : Reading(k)' = CountedSoFar(k)'
             /\ \A d \in Callers : loaded'[d] # NotLoaded =>
                   loaded'[d] = CountedSoFar(Head(updates[d]).counter)'
  BY <1>2, <1>3, <1>7 DEF CountInv, Reading
<1>8. QED
  BY <1>1, <1>4, <1>5, <1>6, <1>7 DEF CountInv

\* The call of c ends with r.
LEMMA CountEnd ==
    ASSUME CountInv, NEW c \in Callers, NEW r, Proper(r), ~HasEnded(c), EndCall(c, r),
           UNCHANGED <<loaded, stats>>
    PROVE  CountInv'
<1>1. /\ at'[c] = "observe" /\ result'[c] = r /\ updates'[c] = Updates(r)
      /\ \A d \in Callers : d # c =>
            at'[d] = at[d] /\ result'[d] = result[d] /\ updates'[d] = updates[d]
      /\ DOMAIN at' = Callers /\ DOMAIN result' = Callers /\ DOMAIN updates' = Callers
      /\ overlapped' = (overlapped \/ Observing # {})
  BY DEF EndCall, CountInv
<1>2. loaded[c] = NotLoaded
  BY DEF CountInv, QueueInv, HasEnded
<1>3. QueueInv(c)'
  <2>1. /\ Updates(r) \in Seq(ElementsOf(Updates(r))) /\ Updates(r) # <<>>
        /\ Distinct(Updates(r))
    BY UpdatesRight
  <2>2. loaded'[c] = NotLoaded
    BY <1>2
  <2>3. QED
    BY <1>1, <2>1, <2>2 DEF QueueInv
<1>4. \A k : Counted(c, k)' = Counted(c, k)
  <2>1. \A k : ~Owed(Updates(r), k) => Share(r, k) = 0
    BY UpdatesRight
  <2>2. ASSUME NEW k
        PROVE  Counted(c, k)' = 0 /\ Counted(c, k) = 0
    BY <1>1, <2>1 DEF Counted, HasEnded
  <2>3. QED
    BY <2>2
<1>5. ~overlapped' => ~overlapped /\ \A d, e \in Observing' : d = e
  <2>1. ~overlapped' => ~overlapped /\ Observing = {}
    BY <1>1
  <2>2. Observing = {} => Observing' \subseteq {c}
    BY <1>1 DEF Observing
  <2>3. QED
    BY <2>1, <2>2
<1>6. QED
  BY <1>1, <1>2, <1>3, <1>4, <1>5, CountFrame

\* A step of c within its call.
LEMMA CountMove ==
    ASSUME CountInv, NEW c \in Callers, NEW s, s \notin {"observe", "done"}, ~HasEnded(c),
           at' = [at EXCEPT ![c] = s], UNCHANGED <<result, updates, overlapped, loaded, stats>>
    PROVE  CountInv'
<1>1. /\ at'[c] = s /\ \A d \in Callers : d # c => at'[d] = at[d]
      /\ DOMAIN at' = Callers
  BY DEF CountInv
<1>2. loaded[c] = NotLoaded /\ updates[c] = <<>>
  BY DEF CountInv, QueueInv, HasEnded
<1>3. QueueInv(c)'
  BY <1>1, <1>2 DEF CountInv, QueueInv, HasEnded
<1>4. \A k : Counted(c, k)' = Counted(c, k)
  BY <1>1 DEF Counted, HasEnded
<1>5. Observing' = Observing
  BY <1>1 DEF Observing, HasEnded
<1>6. QED
  BY <1>1, <1>2, <1>3, <1>4, <1>5, CountFrame DEF CountInv

\* c loads a counter.
LEMMA CountLoad ==
    ASSUME CountInv, NEW c \in Callers, Load(c), UNCHANGED <<result, overlapped>>
    PROVE  CountInv'
<1> DEFINE k0 == Head(updates[c]).counter
<1>1. /\ at[c] = "observe" /\ loaded' = [loaded EXCEPT ![c] = Reading(k0)]
      /\ UNCHANGED <<at, updates, stats, result, overlapped>>
  BY DEF Load
<1>2. PICK k : k = k0
  OBVIOUS
<1>3. \A l : CountedSoFar(l)' = CountedSoFar(l)
  BY <1>1 DEF CountedSoFar, CountedBy, Counted, HasEnded
<1>4. \A l : CountedSoFar(l) \in Int /\ CountedBy(l) \in [Callers -> Nat]
  BY CountedTyped DEF CountInv
<1>5. CountedSoFar(k) >= 0
  <2> DEFINE f == CountedBy(k)
             z == [d \in Callers |-> 0]
  <2>1. \A d \in Callers : z[d] \in Int /\ f[d] \in Int /\ z[d] <= f[d]
    BY <1>4
  <2>2. Marks(z, {}, Callers)
    BY DEF Marks
  <2> HIDE DEF f, z
  <2>3. SumFunctionOnSet(z, Callers) <= SumFunctionOnSet(f, Callers)
    BY <2>1, FiniteCallers, SumMonotonic
  <2>4. SumFunctionOnSet(z, Callers) = 0
    BY <2>2, FiniteCallers, SumCounts, FS_EmptySet
  <2>5. SumFunctionOnSet(f, Callers) = CountedSoFar(k)
    BY DEF CountedSoFar, f
  <2>6. QED
    BY <1>4, <2>3, <2>4, <2>5
<1>6. Reading(k) \in Nat /\ Reading(k) <= CountedSoFar(k)
  BY <1>4, <1>5 DEF Reading, CountInv
<1>7. \A d \in Callers : d # c => loaded'[d] = loaded[d]
  BY <1>1
<1>8. loaded'[c] = Reading(k) /\ DOMAIN loaded' = Callers
  BY <1>1, <1>2 DEF CountInv
<1>9. \A d \in Callers : QueueInv(d)'
  BY <1>1, <1>7, <1>8 DEF CountInv, QueueInv, HasEnded
<1>10. ASSUME NEW d \in Callers, loaded'[d] # NotLoaded
       PROVE  /\ loaded'[d] \in Nat /\ loaded'[d] <= CountedSoFar(Head(updates'[d]).counter)
              /\ ~overlapped => loaded'[d] = CountedSoFar(Head(updates'[d]).counter)
  <2>1. CASE d = c
    BY <1>1, <1>2, <1>6, <1>8, <2>1 DEF CountInv
  <2>2. CASE d # c
    BY <1>1, <1>7, <1>10, <2>2 DEF CountInv
  <2>3. QED
    BY <2>1, <2>2
<1>11. \A d \in Callers : CountedSoFar(Head(updates[d]).counter)' = CountedSoFar(Head(updates'[d]).counter)
  <2>1. SUFFICES ASSUME NEW d \in Callers
        PROVE  CountedSoFar(Head(updates[d]).counter)' = CountedSoFar(Head(updates'[d]).counter)
    OBVIOUS
  <2>2. PICK l : l = Head(updates'[d]).counter
    OBVIOUS
  <2>3. CountedSoFar(Head(updates[d]).counter)' = CountedSoFar(l)'
    BY <2>2
  <2>4. QED
    BY <1>3, <2>2, <2>3
<1>12. QED
  BY <1>1, <1>3, <1>8, <1>9, <1>10, <1>11 DEF CountInv, Observing, Reading, HasEnded

\* c stores a counter.
LEMMA CountStore ==
    ASSUME CountInv, NEW c \in Callers, Store(c), UNCHANGED <<result, overlapped>>
    PROVE  CountInv'
<1> PICK u : u = Head(updates[c])
  OBVIOUS
<1> PICK k : k = u.counter
  OBVIOUS
<1> PICK l : l = loaded[c]
  OBVIOUS
<1>1. /\ at[c] = "observe" /\ l # NotLoaded /\ l \in Nat /\ l <= CountedSoFar(k)
      /\ ~overlapped => l = CountedSoFar(k)
  BY DEF Store, CountInv
<1>2. /\ stats' = [m \in DOMAIN stats \cup {k} |-> IF m = k THEN l + u.amount ELSE stats[m]]
      /\ updates' = [updates EXCEPT ![c] = Tail(@)]
      /\ loaded' = [loaded EXCEPT ![c] = NotLoaded]
      /\ at' = [at EXCEPT ![c] = IF Len(updates[c]) = 1 THEN "done" ELSE "observe"]
  BY DEF Store
<1>3. /\ HasEnded(c) /\ Proper(result[c]) /\ updates[c] # <<>> /\ Distinct(updates[c])
      /\ updates[c] \in Seq(ElementsOf(Updates(result[c])))
  BY <1>1 DEF CountInv, QueueInv, HasEnded
<1>4. /\ Tail(updates[c]) \in Seq(ElementsOf(Updates(result[c]))) /\ Distinct(Tail(updates[c]))
      /\ u \in ElementsOf(Updates(result[c]))
      /\ Len(updates[c]) = 1 <=> Tail(updates[c]) = <<>>
      /\ Owed(updates[c], k) /\ ~Owed(Tail(updates[c]), k)
      /\ \A m : m # k => (Owed(Tail(updates[c]), m) <=> Owed(updates[c], m))
  BY <1>3, TailRight
<1>5. u.amount = Share(result[c], k) /\ Share(result[c], k) \in Nat
  BY <1>3, <1>4, UpdatesRight
<1>6. /\ updates'[c] = Tail(updates[c]) /\ loaded'[c] = NotLoaded
      /\ at'[c] = IF Len(updates[c]) = 1 THEN "done" ELSE "observe"
      /\ \A d \in Callers : d # c =>
            at'[d] = at[d] /\ updates'[d] = updates[d] /\ loaded'[d] = loaded[d]
      /\ DOMAIN at' = Callers /\ DOMAIN updates' = Callers /\ DOMAIN loaded' = Callers
  BY <1>2 DEF CountInv
<1>7. ASSUME NEW d \in Callers
      PROVE  QueueInv(d)'
  <2>1. CASE d = c
    BY <1>3, <1>4, <1>6, <2>1 DEF QueueInv, HasEnded
  <2>2. CASE d # c
    BY <1>6, <2>2 DEF CountInv, QueueInv, HasEnded
  <2>3. QED
    BY <2>1, <2>2
<1>8. ASSUME NEW m
      PROVE  /\ CountedSoFar(m)' = CountedSoFar(m) + IF m = k THEN u.amount ELSE 0
             /\ CountedSoFar(m) \in Int
  <2>1. \A d \in Callers : d # c => Counted(d, m)' = Counted(d, m)
    BY <1>6 DEF Counted, HasEnded
  <2>2. /\ CountedSoFar(m)' = CountedSoFar(m) + Counted(c, m)' - Counted(c, m)
        /\ Counted(c, m) \in Nat /\ CountedSoFar(m) \in Int
    BY <1>7, <2>1, CountedStep DEF CountInv
  <2>3. HasEnded(c)' /\ result'[c] = result[c]
    BY <1>6 DEF HasEnded
  <2>4. CASE m = k
    <3>1. Counted(c, m)' = u.amount /\ Counted(c, m) = 0
      BY <1>4, <1>5, <1>6, <2>3, <2>4 DEF Counted
    <3>2. QED
      BY <1>5, <2>2, <2>4, <3>1
  <2>5. CASE m # k
    <3>1. Counted(c, m)' = Counted(c, m)
      BY <1>3, <1>4, <1>6, <2>3, <2>5 DEF Counted
    <3>2. QED
      BY <2>2, <2>5, <3>1
  <2>6. QED
    BY <2>4, <2>5
<1>9. \A m : CountedSoFar(m) \in Int /\ CountedSoFar(m) <= CountedSoFar(m)' /\ CountedSoFar(m)' \in Int
  BY <1>5, <1>8
<1>10. CountedSoFar(k)' = CountedSoFar(k) + u.amount /\ l + u.amount \in Nat
  BY <1>1, <1>5, <1>8
<1>11. /\ DOMAIN stats' = DOMAIN stats \cup {k} /\ stats'[k] = l + u.amount
       /\ \A m \in DOMAIN stats : m # k => stats'[m] = stats[m]
  BY <1>2
<1>12. ASSUME NEW m \in DOMAIN stats'
       PROVE  stats'[m] \in Nat /\ stats'[m] <= CountedSoFar(m)'
  <2>1. CASE m = k
    BY <1>1, <1>5, <1>9, <1>10, <1>11, <2>1
  <2>2. CASE m # k
    <3>1. stats'[m] = stats[m] /\ stats[m] \in Nat /\ stats[m] <= CountedSoFar(m)
      BY <1>11, <2>2 DEF CountInv
    <3>2. QED
      BY <1>9, <3>1
  <2>3. QED
    BY <2>1, <2>2
<1>13. \A m \in DOMAIN stats' : \E d \in Callers : HasEnded(d)' /\ Owed(Updates(result'[d]), m)
  <2>1. HasEnded(c)' /\ Owed(Updates(result'[c]), k)
    BY <1>4, <1>6 DEF HasEnded, ElementsOf, Owed
  <2>2. \A d \in Callers : HasEnded(d) => HasEnded(d)'
    BY <1>6 DEF HasEnded
  <2>3. QED
    BY <1>11, <2>1, <2>2 DEF CountInv
<1>14. ASSUME NEW d \in Callers, loaded'[d] # NotLoaded
       PROVE  /\ loaded'[d] \in Nat /\ loaded'[d] <= CountedSoFar(Head(updates[d]).counter)'
              /\ overlapped
  <2>1. d # c /\ loaded[d] # NotLoaded /\ loaded'[d] = loaded[d] /\ updates'[d] = updates[d]
    BY <1>6, <1>14
  <2>2. PICK m : m = Head(updates'[d]).counter
    OBVIOUS
  <2>3. loaded[d] \in Nat /\ loaded[d] <= CountedSoFar(m)
    BY <2>1, <2>2 DEF CountInv
  <2>4. CountedSoFar(Head(updates[d]).counter)' = CountedSoFar(m)'
    BY <2>2
  <2>5. overlapped
    BY <1>1, <2>1 DEF CountInv, QueueInv, Observing
  <2>6. QED
    BY <1>9, <2>1, <2>3, <2>4, <2>5
<1>15. ASSUME ~overlapped'
       PROVE  /\ \A d, e \in Observing' : d = e
              /\ \A m : Reading(m)' = CountedSoFar(m)'
  <2>1. Observing' \subseteq Observing
    BY <1>1, <1>6 DEF Observing
  <2>2. ASSUME NEW m
        PROVE  Reading(m)' = CountedSoFar(m)'
    <3>1. CASE m = k
      BY <1>1, <1>10, <1>11, <1>15, <3>1 DEF Reading
    <3>2. CASE m # k
      <4>1. Reading(m)' = Reading(m)
        BY <1>11, <3>2 DEF Reading
      <4>2. Reading(m) = CountedSoFar(m)
        BY <1>15 DEF CountInv
      <4>3. QED
        BY <1>8, <3>2, <4>1, <4>2
    <3>3. QED
      BY <3>1, <3>2
  <2>3. QED
    BY <1>15, <2>1, <2>2 DEF CountInv
<1>16. QED
  BY <1>6, <1>7, <1>12, <1>13, <1>14, <1>15 DEF CountInv

\* An attempt of c comes back with an error.
LEMMA CountFail ==
    ASSUME CountInv, NEW c \in Callers, NEW e, FailAttempt(c, e), ~HasEnded(c),
           UNCHANGED <<loaded, stats>>
    PROVE  CountInv'
<1>1. CASE EndCall(c, Failed(e))
  <2>1. Proper(Failed(e))
    BY DEF Proper, Failed
  <2>2. QED
    BY <1>1, <2>1, CountEnd
<1>2. CASE at' = [at EXCEPT ![c] = "wait"] /\ UNCHANGED <<result, updates, overlapped>>
  BY <1>2, CountMove
<1>3. QED
  BY <1>1, <1>2 DEF FailAttempt

\* Every step keeps CountInv.
LEMMA CountStep ==
    ASSUME CountInv, [CallNext]_callVars
    PROVE  CountInv'
<1>1. ASSUME NEW c \in Callers, Refused(c) \/ CancelWait(c), UNCHANGED <<loaded, stats>>
      PROVE  CountInv'
  <2>1. PICK e : EndCall(c, Failed(e))
    BY <1>1 DEF Refused, CancelWait
  <2>2. ~HasEnded(c)
    BY <1>1 DEF Refused, CancelWait, HasEnded
  <2>3. Proper(Failed(e))
    BY DEF Proper, Failed
  <2>4. QED
    BY <1>1, <2>1, <2>2, <2>3, CountEnd
<1>2. ASSUME NEW c \in Callers, Admitted(c) \/ Wake(c), UNCHANGED <<loaded, stats>>
      PROVE  CountInv'
  <2>1. /\ at' = [at EXCEPT ![c] = "loop"] /\ ~HasEnded(c)
        /\ UNCHANGED <<result, updates, overlapped>>
    BY <1>2 DEF Admitted, Wake, HasEnded
  <2>2. QED
    BY <1>2, <2>1, CountMove
<1>3. ASSUME NEW c \in Callers, Attempt(c) \/ NoResponse(c) \/ WholeResponse(c),
             UNCHANGED <<loaded, stats>>
      PROVE  CountInv'
  <2>1. ~HasEnded(c)
    BY <1>3 DEF Attempt, NoResponse, WholeResponse, HasEnded
  <2>2. ASSUME NEW e, FailAttempt(c, e)
        PROVE  CountInv'
    BY <1>3, <2>1, <2>2, CountFail
  <2>3. ASSUME NEW s \in {"sent", "answered"}, at' = [at EXCEPT ![c] = s],
               UNCHANGED <<result, updates, overlapped>>
        PROVE  CountInv'
    BY <1>3, <2>1, <2>3, CountMove
  <2>4. CASE Attempt(c)
    BY <2>2, <2>3, <2>4 DEF Attempt
  <2>5. CASE NoResponse(c)
    BY <2>2, <2>5 DEF NoResponse
  <2>6. CASE WholeResponse(c)
    BY <2>2, <2>3, <2>6 DEF WholeResponse
  <2>7. QED
    BY <1>3, <2>4, <2>5, <2>6
<1>4. ASSUME NEW c \in Callers, GetCost(c), UNCHANGED <<loaded, stats>>
      PROVE  CountInv'
  <2>1. ~HasEnded(c)
    BY <1>4 DEF GetCost, HasEnded
  <2>2. CASE pricing = "valid"
    <3>1. PICK u \in Usages : EndCall(c, [ok |-> TRUE, usage |-> u, cost |-> Calculate(u)])
      BY <1>4, <2>2 DEF GetCost
    <3>2. Calculate(u) \in Nat
      <4>1. u.prompt \in Nat /\ u.output \in Nat /\ PromptRate \in Nat /\ OutputRate \in Nat
        BY TokensAndRates
      <4>2. \A x, y \in Nat : x * y \in Nat
        OBVIOUS
      <4>3. u.prompt * PromptRate \in Nat /\ u.output * OutputRate \in Nat
        BY <4>1, <4>2
      <4>4. \A x, y \in Nat : x \div 1000 + y \div 1000 \in Nat
        OBVIOUS
      <4>5. QED
        BY <4>3, <4>4 DEF Calculate
    <3>3. Proper([ok |-> TRUE, usage |-> u, cost |-> Calculate(u)])
      <4> DEFINE r == [ok |-> TRUE, usage |-> u, cost |-> Calculate(u)]
      <4>1. r.ok = TRUE /\ r.cost = Calculate(u)
        OBVIOUS
      <4> HIDE DEF r
      <4>2. Proper(r)
        BY <3>2, <4>1 DEF Proper
      <4>3. QED
        BY <4>2 DEF r
    <3>4. QED
      BY <1>4, <2>1, <3>1, <3>3, CountEnd
  <2>3. CASE pricing # "valid"
    <3>1. FailAttempt(c, Error("pricing", "pricing_unavailable"))
      BY <1>4, <2>3 DEF GetCost
    <3>2. QED
      BY <1>4, <2>1, <3>1, CountFail
  <2>4. QED
    BY <2>2, <2>3
<1>5. ASSUME NEW c \in Callers, Load(c) \/ Store(c), UNCHANGED <<result, overlapped>>
      PROVE  CountInv'
  BY <1>5, CountLoad, CountStore
<1>6. CASE UNCHANGED <<at, result, updates, loaded, stats, overlapped>>
  <2>1. \A k : CountedSoFar(k)' = CountedSoFar(k) /\ Reading(k)' = Reading(k)
    BY <1>6 DEF CountedSoFar, CountedBy, Counted, HasEnded, Reading
  <2>2. \A c \in Callers : QueueInv(c)'
    BY <1>6 DEF CountInv, QueueInv, HasEnded
  <2>3. \A c \in Callers : CountedSoFar(Head(updates[c]).counter)' = CountedSoFar(Head(updates[c]).counter)
    BY <1>6 DEF CountedSoFar, CountedBy, Counted, HasEnded
  <2>4. Observing' = Observing /\ \A c \in Callers : HasEnded(c)' = HasEnded(c)
    BY <1>6 DEF Observing, HasEnded
  <2>5. QED
    BY <1>6, <2>1, <2>2, <2>3, <2>4 DEF CountInv
<1>7. CASE \E c \in Callers : CallStep(c)
  BY <1>1, <1>2, <1>3, <1>4, <1>5, <1>7 DEF CallStep
<1>8. QED
  BY <1>1, <1>6, <1>7 DEF CallNext, callVars, PricesExpire, ConcurrentMapWrites

\* On S, p * g falls short of f by b at most.
Within(f, g, p, b, S) ==
    \A x \in S : f[x] \in Int /\ g[x] \in Int /\ p * g[x] <= f[x] /\ f[x] <= p * g[x] + b

\* Then so does the sum, by b for every member of S.
LEMMA SumsWithin ==
    ASSUME NEW S, IsFiniteSet(S), NEW f, NEW g, NEW p \in Int, NEW b \in Int,
           Within(f, g, p, b, S)
    PROVE  /\ p * SumFunctionOnSet(g, S) <= SumFunctionOnSet(f, S)
           /\ SumFunctionOnSet(f, S) <= p * SumFunctionOnSet(g, S) + b * Cardinality(S)
<1>1. \A x \in S : f[x] \in Int /\ g[x] \in Int /\ p * g[x] <= f[x] /\ f[x] <= p * g[x] + b
  BY DEF Within
<1>2. \A i, j \in Int : 1 * i = i /\ 1 * i + 0 = i /\ 0 * i = 0 /\ i * j \in Int /\ i + 0 = i
  OBVIOUS
<1>3. \A x \in S : /\ p * g[x] <= 1 * f[x] + 0
                   /\ 1 * f[x] <= p * g[x] + b
  <2>1. ASSUME NEW x \in S
        PROVE  p * g[x] <= 1 * f[x] + 0 /\ 1 * f[x] <= p * g[x] + b
    BY <1>1, <1>2, Zenon
  <2>2. QED
    BY <2>1, Zenon
<1>4. 1 \in Int /\ 0 \in Int
  OBVIOUS
<1>5. p * SumFunctionOnSet(g, S) <= 1 * SumFunctionOnSet(f, S) + 0 * Cardinality(S)
  <2>1. \A x \in S : f[x] \in Int /\ g[x] \in Int /\ p * g[x] <= 1 * f[x] + 0
    BY <1>1, <1>3, Zenon
  <2>2. QED
    BY <1>4, <2>1, SumAtMost, Zenon
<1>6. 1 * SumFunctionOnSet(f, S) <= p * SumFunctionOnSet(g, S) + b * Cardinality(S)
  <2>1. \A x \in S : g[x] \in Int /\ f[x] \in Int /\ 1 * f[x] <= p * g[x] + b
    BY <1>1, <1>3, Zenon
  <2>2. QED
    BY <1>4, <2>1, SumAtMost, Zenon
<1>7. /\ SumFunctionOnSet(f, S) \in Int /\ SumFunctionOnSet(g, S) \in Int
      /\ Cardinality(S) \in Int
  BY <1>1, SumTyped, FS_CardinalityType
<1>8. 1 * SumFunctionOnSet(f, S) + 0 * Cardinality(S) = SumFunctionOnSet(f, S)
  BY <1>2, <1>7
<1>9. 1 * SumFunctionOnSet(f, S) = SumFunctionOnSet(f, S)
  BY <1>2, <1>7
<1>10. QED
  BY <1>5, <1>6, <1>8, <1>9, Zenon

\* What calls that ended add to counter k in all.
Due(k) == [c \in Callers |-> IF HasEnded(c) THEN Share(result[c], k) ELSE 0]
DueInAll(k) == SumFunctionOnSet(Due(k), Callers)

\* What is counted so far is due, and all that is due once no call is observed.
LEMMA CountedIsDue ==
    ASSUME CountInv, NEW k
    PROVE  /\ CountedSoFar(k) \in Int /\ DueInAll(k) \in Nat
           /\ CountedSoFar(k) <= DueInAll(k)
           /\ Observing = {} => CountedSoFar(k) = DueInAll(k)
<1> DEFINE f == CountedBy(k)
           g == Due(k)
           z == [c \in Callers |-> 0]
<1>1. \A c \in Callers : HasEnded(c) => Share(result[c], k) \in Nat
  BY UpdatesRight DEF CountInv, QueueInv
<1>2. \A c \in Callers : f[c] \in Nat /\ g[c] \in Nat /\ f[c] <= g[c]
  BY <1>1 DEF CountedBy, Counted, Due
<1>3. ASSUME Observing = {}
      PROVE  \A c \in Callers : f[c] = g[c]
  <2>1. ASSUME NEW c \in Callers
        PROVE  ~Owed(updates[c], k)
    <3>1. updates[c] = <<>>
      BY <1>3 DEF CountInv, QueueInv, Observing
    <3>2. QED
      BY <3>1 DEF Owed
  <2>2. QED
    BY <2>1 DEF CountedBy, Counted, Due
<1>4. Marks(z, {}, Callers)
  BY DEF Marks
<1>5. \A c \in Callers : z[c] \in Int /\ z[c] <= g[c]
  BY <1>2
<1> HIDE DEF f, g, z
<1>6. SumFunctionOnSet(f, Callers) <= SumFunctionOnSet(g, Callers)
  BY <1>2, FiniteCallers, SumMonotonic
<1>7. SumFunctionOnSet(f, Callers) \in Int /\ SumFunctionOnSet(g, Callers) \in Int
  BY <1>2, FiniteCallers, SumTyped
<1>8. SumFunctionOnSet(z, Callers) = 0 /\ SumFunctionOnSet(z, Callers) <= SumFunctionOnSet(g, Callers)
  BY <1>2, <1>4, <1>5, FiniteCallers, SumCounts, SumMonotonic, FS_EmptySet
<1>9. Observing = {} => SumFunctionOnSet(f, Callers) = SumFunctionOnSet(g, Callers)
  <2>1. ASSUME Observing = {}
        PROVE  SumFunctionOnSet(f, Callers) = SumFunctionOnSet(g, Callers)
    BY <1>2, <1>3, <2>1, FiniteCallers, SumOfEqual
  <2>2. QED
    BY <2>1
<1>10. QED
  BY <1>6, <1>7, <1>8, <1>9 DEF CountedSoFar, DueInAll, f, g

\* What is due on a counter of calls is how many calls it is about.
LEMMA DueIsHappened ==
    ASSUME CountInv, NEW k \in Countable
    PROVE  DueInAll(k) = Happened(k)
<1>1. \A c \in Callers : HasEnded(c) <=> c \in Ended
  BY DEF HasEnded, Ended
<1>2. \A c \in Callers : c \in Succeeded <=> c \in Ended /\ result[c].ok
  BY DEF Succeeded, Ended
<1>3. ASSUME NEW c \in Ended
      PROVE  /\ Share(result[c], Counter("total", NoKey)) = 1
             /\ Share(result[c], Counter("success", NoKey)) = IF c \in Succeeded THEN 1 ELSE 0
             /\ Share(result[c], Counter("error", NoKey)) = IF c \in Succeeded THEN 0 ELSE 1
             /\ \A type : Share(result[c], Counter("ErrorsByType", type)) =
                   IF c \notin Succeeded /\ result[c].type = type THEN 1 ELSE 0
  <2>1. c \in Callers /\ Proper(result[c])
    BY <1>1 DEF CountInv, QueueInv, Ended
  <2>2. CASE result[c].ok
    BY <1>2, <2>1, <2>2, SuccessUpdates
  <2>3. CASE ~result[c].ok
    BY <1>2, <2>1, <2>3, FailureUpdates
  <2>4. QED
    BY <2>2, <2>3
<1>4. ASSUME NEW T \in SUBSET Ended,
             \A c \in Ended : Share(result[c], k) = IF c \in T THEN 1 ELSE 0
      PROVE  DueInAll(k) = Cardinality(T)
  <2>1. Marks(Due(k), T, Callers) /\ T \in SUBSET Callers
    BY <1>1, <1>4 DEF Marks, Due, Ended
  <2>2. QED
    BY <2>1, FiniteCallers, SumCounts DEF DueInAll
<1>5. Succeeded \in SUBSET Ended
  BY DEF Succeeded
<1>6. CASE k = Counter("total", NoKey)
  <2>1. DueInAll(k) = Cardinality(Ended)
    BY <1>3, <1>4, <1>6
  <2>2. Happened(k) = Cardinality(Ended)
    BY <1>6 DEF Happened, Counter
  <2>3. QED
    BY <2>1, <2>2
<1>7. CASE k = Counter("success", NoKey)
  <2>1. DueInAll(k) = Cardinality(Succeeded)
    BY <1>3, <1>4, <1>5, <1>7
  <2>2. Happened(k) = Cardinality(Succeeded)
    BY <1>7 DEF Happened, Counter
  <2>3. QED
    BY <2>1, <2>2
<1>8. CASE k = Counter("error", NoKey)
  <2>1. \A c \in Ended : Share(result[c], k) = IF c \in Ended \ Succeeded THEN 1 ELSE 0
    BY <1>3, <1>8
  <2>2. DueInAll(k) = Cardinality(Ended \ Succeeded)
    BY <1>4, <2>1
  <2>3. Happened(k) = Cardinality(Ended \ Succeeded)
    BY <1>8 DEF Happened, Counter
  <2>4. QED
    BY <2>2, <2>3
<1>9. ASSUME NEW type, k = Counter("ErrorsByType", type)
      PROVE  DueInAll(k) = Happened(k)
  <2> DEFINE T == {c \in Ended \ Succeeded : result[c].type = type}
  <2>1. \A c \in Ended : Share(result[c], k) = IF c \in T THEN 1 ELSE 0
    BY <1>3, <1>9
  <2>2. T \in SUBSET Ended
    OBVIOUS
  <2>3. DueInAll(k) = Cardinality(T)
    <3> HIDE DEF T
    <3>1. QED
      BY <1>4, <2>1, <2>2
  <2>4. k[1] = "ErrorsByType" /\ k[2] = type
    BY <1>9 DEF Counter
  <2>5. Happened(k) = Cardinality({c \in Ended \ Succeeded : result[c].type = k[2]})
    BY <2>4 DEF Happened
  <2>6. QED
    BY <2>3, <2>4, <2>5
<1>10. QED
  BY <1>6, <1>7, <1>8, <1>9 DEF Countable

\* The cents due are what the calls cost, rounded down call by call.
LEMMA DueCents ==
    ASSUME CountInv
    PROVE  /\ 1000 * DueInAll(Cents) <= Costs
           /\ Costs <= 1000 * DueInAll(Cents) + 999 * Cardinality(Succeeded)
           /\ Costs \in Int /\ IsFiniteSet(Succeeded)
<1> DEFINE f == [c \in Succeeded |-> result[c].cost]
           g == Due(Cents)
<1>1. Succeeded \in SUBSET Callers /\ IsFiniteSet(Succeeded)
  BY FiniteCallers, FS_Subset DEF Succeeded, Ended
<1>2. ASSUME NEW c \in Callers
      PROVE  /\ c \in Succeeded => f[c] \in Nat /\ g[c] = f[c] \div 1000
             /\ c \notin Succeeded => g[c] = 0
  <2>1. HasEnded(c) => Proper(result[c])
    BY DEF CountInv, QueueInv
  <2>2. HasEnded(c) <=> c \in Ended
    BY DEF HasEnded, Ended
  <2>3. c \in Succeeded <=> c \in Ended /\ result[c].ok
    BY DEF Succeeded
  <2>4. HasEnded(c) /\ result[c].ok => Share(result[c], Cents) = result[c].cost \div 1000
    BY <2>1, SuccessUpdates
  <2>5. HasEnded(c) /\ ~result[c].ok => Share(result[c], Cents) = 0
    BY <2>1, FailureUpdates
  <2>6. g[c] = IF HasEnded(c) THEN Share(result[c], Cents) ELSE 0
    BY DEF Due
  <2>7. c \in Succeeded => f[c] = result[c].cost /\ f[c] \in Nat
    BY <2>1, <2>2, <2>3 DEF Proper
  <2>8. QED
    BY <2>2, <2>3, <2>4, <2>5, <2>6, <2>7
<1>3. Costs = SumFunctionOnSet(f, Succeeded)
  BY SumOfFunction DEF Costs
<1>4. \A m \in Nat : /\ m \div 1000 \in Nat /\ 1000 * (m \div 1000) <= m
                     /\ m <= 1000 * (m \div 1000) + 999
  OBVIOUS
<1> HIDE DEF f, g
<1>5. Within(f, g, 1000, 999, Succeeded)
  <2>1. ASSUME NEW c \in Succeeded
        PROVE  /\ f[c] \in Int /\ g[c] \in Int
               /\ 1000 * g[c] <= f[c] /\ f[c] <= 1000 * g[c] + 999
    BY <1>1, <1>2, <1>4
  <2>2. QED
    BY <2>1 DEF Within
<1>6. DueInAll(Cents) = SumFunctionOnSet(g, Succeeded)
  <2>1. \A c \in Callers : g[c] \in Int /\ (c \in Callers \ Succeeded => g[c] = 0)
    BY <1>2, <1>4
  <2>2. SumFunctionOnSet(g, Callers) = SumFunctionOnSet(g, Succeeded)
    BY <1>1, <2>1, FiniteCallers, SumWithout
  <2>3. QED
    BY <2>2 DEF DueInAll, g
<1>7. /\ 1000 * SumFunctionOnSet(g, Succeeded) <= SumFunctionOnSet(f, Succeeded)
      /\ SumFunctionOnSet(f, Succeeded) <= 1000 * SumFunctionOnSet(g, Succeeded) + 999 * Cardinality(Succeeded)
  <2>1. PICK p \in Int : p = 1000
    OBVIOUS
  <2>2. PICK b \in Int : b = 999
    OBVIOUS
  <2>3. Within(f, g, p, b, Succeeded)
    BY <1>5, <2>1, <2>2
  <2>4. /\ p * SumFunctionOnSet(g, Succeeded) <= SumFunctionOnSet(f, Succeeded)
        /\ SumFunctionOnSet(f, Succeeded) <= p * SumFunctionOnSet(g, Succeeded) + b * Cardinality(Succeeded)
    BY <1>1, <2>3, SumsWithin
  <2>5. QED
    BY <2>1, <2>2, <2>4
<1>8. SumFunctionOnSet(f, Succeeded) \in Int
  <2>1. \A c \in Succeeded : f[c] \in Int
    BY <1>5 DEF Within
  <2>2. QED
    BY <1>1, <2>1, SumTyped
<1>9. QED
  BY <1>1, <1>3, <1>6, <1>7, <1>8

\* The invariant of the statistics is what the run checks.
LEMMA CountImplies == CountInv => StatsTrue
<1> SUFFICES ASSUME CountInv PROVE StatsTrue
  OBVIOUS
<1>1. ASSUME NEW k \in DOMAIN stats
      PROVE  /\ k \in Countable => stats[k] <= Happened(k)
             /\ k \notin Countable => k[1] \in {"cents", "RequestsByStatus"}
  <2>1. stats[k] \in Nat /\ stats[k] <= CountedSoFar(k)
    BY DEF CountInv
  <2>2. CountedSoFar(k) \in Int /\ DueInAll(k) \in Nat /\ CountedSoFar(k) <= DueInAll(k)
    BY CountedIsDue
  <2>3. k \in Countable => stats[k] <= Happened(k)
    <3>1. stats[k] <= DueInAll(k)
      BY <2>1, <2>2
    <3>2. QED
      BY <3>1, DueIsHappened
  <2>4. PICK c \in Callers : HasEnded(c) /\ Owed(Updates(result[c]), k)
    BY DEF CountInv
  <2>5. Proper(result[c]) /\ c \in Ended
    BY <2>4 DEF CountInv, QueueInv, Ended, HasEnded
  <2>6. CASE result[c].ok
    <3>1. k \in {Counter("total", NoKey), Counter("success", NoKey), Cents,
                 Counter("RequestsByStatus", "stop")}
      <4>1. Len(Updates(result[c])) = 4
        BY <2>5, <2>6, SuccessUpdates
      <4>2. PICK i \in 1..4 : Updates(result[c])[i].counter = k
        BY <2>4, <4>1, Zenon DEF Owed
      <4>3. QED
        BY <2>5, <2>6, <4>2, SuccessUpdates
    <3>2. QED
      BY <2>3, <3>1 DEF Countable, Cents, Counter
  <2>7. CASE ~result[c].ok
    <3>1. k \in {Counter("total", NoKey), Counter("error", NoKey),
                 Counter("ErrorsByType", result[c].type)}
      BY <2>4, <2>5, <2>7, FailureUpdates DEF Owed
    <3>2. c \in Ended \ Succeeded
      BY <2>5, <2>7 DEF Succeeded
    <3>3. QED
      BY <2>3, <3>1, <3>2 DEF Countable
  <2>8. QED
    BY <2>6, <2>7
<1>2. /\ CountedSoFar(Cents) \in Int /\ DueInAll(Cents) \in Nat /\ Reading(Cents) \in Nat
      /\ Reading(Cents) <= DueInAll(Cents)
  BY CountedIsDue DEF Reading, CountInv
<1>3. 1000 * Reading(Cents) <= Costs
  BY <1>2, DueCents
<1>4. ASSUME ~overlapped, Observing = {}
      PROVE  /\ \A k \in Countable : Reading(k) = Happened(k)
             /\ 1000 * Reading(Cents) > Costs - 1000 * Cardinality(Succeeded) \/ Succeeded = {}
  <2>1. ASSUME NEW k
        PROVE  Reading(k) = DueInAll(k)
    BY <1>4, CountedIsDue DEF CountInv
  <2>2. \A k \in Countable : Reading(k) = Happened(k)
    BY <2>1, DueIsHappened
  <2>3. ASSUME Succeeded # {}
        PROVE  1000 * Reading(Cents) > Costs - 1000 * Cardinality(Succeeded)
    <3>1. Cardinality(Succeeded) \in Nat /\ Cardinality(Succeeded) # 0
      BY <2>3, DueCents, FS_CardinalityType, FS_EmptySet
    <3>2. Reading(Cents) = DueInAll(Cents)
      BY <2>1
    <3>3. /\ Costs \in Int
          /\ Costs <= 1000 * Reading(Cents) + 999 * Cardinality(Succeeded)
      BY <3>2, DueCents
    <3>4. QED
      BY <1>2, <3>1, <3>3
  <2>4. QED
    BY <2>2, <2>3
<1>5. QED
  BY <1>1, <1>3, <1>4 DEF StatsTrue, Cents

\* Whatever updates are lost, the statistics never tell of more calls, errors or
\* cents than there were, and are exact if no two calls were observed at once.
THEOREM StatsAreTrue == CallSpec => []StatsTrue
<1>1. CountInv /\ [CallNext]_callVars => CountInv'
  BY CountStep
<1>2. QED
  BY CountInit, CountImplies, <1>1, PTL DEF CallSpec

(* ----------------------- the statistics of a verdict -------------------- *)

\* What a policy says of the numbers of S: a sum and what it is divided by.
Between(f, S, k) ==
    <<SumFunctionOnSet(f, S) - Max(SumsOf(f, k, S)) - Min(SumsOf(f, k, S)),
      Cardinality(S) - 2 * k>>

\* values are the numbers of S, in any order.
Arranged(values, f, S) ==
    \E p : Runs(p, S) /\ values = Reindexed(f, p, 1..Cardinality(S))

\* Some numbers of a finite set.
Numbers(f, S) == IsFiniteSet(S) /\ S # {} /\ \A x \in S : f[x] \in Int

\* A slice of n numbers.
LEMMA SliceOf ==
    ASSUME NEW n \in Nat, NEW q \in [1..n -> Int]
    PROVE  q \in Seq(Int) /\ Len(q) = n /\ DOMAIN q = 1..n /\ (n # 0 => q # <<>>)
<1>1. q \in Seq(Int)
  BY SeqDef
<1>2. DOMAIN q = 1..n /\ DOMAIN q = 1..Len(q) /\ Len(q) \in Nat
  BY <1>1
<1>3. Len(q) = n
  BY <1>2
<1>4. QED
  BY <1>1, <1>2, <1>3

\* The length of a slice of anything.
LEMMA LengthOf ==
    ASSUME NEW n \in Nat, NEW V, NEW q \in [1..n -> V]
    PROVE  Len(q) = n
<1>1. q \in Seq(V)
  BY SeqDef
<1>2. PICK m \in Nat : m = Len(q) /\ DOMAIN q = 1..m
  BY <1>1
<1>3. 1..m = 1..n
  BY <1>2
<1>4. m = n
  BY <1>2, <1>3
<1>5. QED
  BY <1>2, <1>4

\* Sorting numbers ranks the set they are of.
LEMMA AscendingRanks ==
    ASSUME NEW f, NEW S, Numbers(f, S), NEW values, Arranged(values, f, S)
    PROVE  /\ values \in [1..Cardinality(S) -> Int]
           /\ \E o : Ranks(o, f, S) /\ Ascending(values) = Reindexed(f, o, 1..Cardinality(S))
<1> DEFINE n == Cardinality(S)
<1>1. n \in Nat
  BY FS_CardinalityType DEF Numbers
<1> HIDE DEF n
<1>2. PICK p \in [1..n -> S] :
         /\ \A x \in S : \E j \in 1..n : p[j] = x
         /\ \A i, j \in 1..n : p[i] = p[j] => i = j
         /\ values = [j \in 1..n |-> f[p[j]]]
  BY DEF Arranged, Runs, Reindexed, n
<1>3. /\ values \in [1..n -> Int] /\ DOMAIN values = 1..n
      /\ \A j \in 1..n : values[j] \in Int /\ values[j] = f[p[j]]
  BY <1>2 DEF Numbers
<1>4. 1..n \in SUBSET Int /\ IsFiniteSet(1..n) /\ Cardinality(1..n) = n
  <2>1. 1 \in Int /\ n \in Int
    BY <1>1
  <2>2. IsFiniteSet(1..n) /\ Cardinality(1..n) = IF 1 > n THEN 0 ELSE n - 1 + 1
    BY <2>1, FS_Interval
  <2>3. QED
    BY <1>1, <2>2
<1>5. PICK s : s = Sorted(1..n, values)
  OBVIOUS
<1>6. IsOrder(s, 1..n, values)
  BY <1>3, <1>4, <1>5, SortedIsOrder
<1>7. /\ s \in [1..n -> 1..n]
      /\ \A i \in 1..n : \E k \in 1..n : s[k] = i
      /\ \A j, k \in 1..n : j < k => values[s[j]] <= values[s[k]]
      /\ \A j, k \in 1..n : s[j] = s[k] => j = k
  <2>1. DOMAIN s = 1..n
    BY <1>4, <1>6 DEF IsOrder
  <2>2. \A j, k \in 1..n : j < k => Precedes(values, s[j], s[k])
    BY <1>6, <2>1 DEF IsOrder
  <2>3. s \in [1..n -> 1..n]
    BY <1>4, <1>6 DEF IsOrder
  <2>4. \A j, k \in 1..n : j < k => values[s[j]] <= values[s[k]]
    BY <1>3, <2>2, <2>3 DEF Precedes
  <2>5. QED
    BY <1>6, <2>1, <2>3, <2>4 DEF IsOrder
<1>8. PICK o : o = [j \in 1..n |-> p[s[j]]]
  OBVIOUS
<1>9. Ranks(o, f, S)
  <2>1. o \in [1..n -> S] /\ \A j \in 1..n : o[j] = p[s[j]] /\ f[o[j]] = values[s[j]]
    BY <1>2, <1>3, <1>7, <1>8
  <2>2. ASSUME NEW x \in S
        PROVE  \E j \in 1..n : o[j] = x
    <3>1. PICK i \in 1..n : p[i] = x
      BY <1>2
    <3>2. PICK j \in 1..n : s[j] = i
      BY <1>7
    <3>3. QED
      BY <2>1, <3>1, <3>2
  <2>3. ASSUME NEW i \in 1..n, NEW j \in 1..n, o[i] = o[j]
        PROVE  i = j
    <3>1. s[i] \in 1..n /\ s[j] \in 1..n /\ p[s[i]] = p[s[j]]
      BY <1>7, <2>1, <2>3
    <3>2. s[i] = s[j]
      BY <1>2, <3>1
    <3>3. QED
      BY <1>7, <3>2
  <2>4. \A i, j \in 1..n : i <= j => f[o[i]] <= f[o[j]]
    <3>1. SUFFICES ASSUME NEW i \in 1..n, NEW j \in 1..n, i <= j
                   PROVE  f[o[i]] <= f[o[j]]
      OBVIOUS
    <3>2. CASE i = j
      <4>1. f[o[i]] \in Int
        BY <2>1 DEF Numbers
      <4>2. QED
        BY <3>2, <4>1
    <3>3. CASE i # j
      BY <1>7, <2>1, <3>1, <3>3
    <3>4. QED
      BY <3>2, <3>3
  <2>5. QED
    BY <2>1, <2>2, <2>3, <2>4 DEF Ranks, Runs, n
<1>10. Ascending(values) = Reindexed(f, o, 1..n)
  <2>1. Ascending(values) = [k \in 1..n |-> values[s[k]]]
    BY <1>3, <1>5, <1>7 DEF Ascending, Elements
  <2>2. \A k \in 1..n : values[s[k]] = f[o[k]]
    BY <1>3, <1>7, <1>8
  <2>3. QED
    BY <2>1, <2>2 DEF Reindexed
<1>11. QED
  BY <1>3, <1>9, <1>10 DEF n

\* The sum of one number.
LEMMA SumOfOne ==
    ASSUME NEW f, NEW i, f[i] \in Int
    PROVE  SumFunctionOnSet(f, {i}) = f[i]
<1>1. IsFiniteSet({i}) /\ \A x \in {i} : f[x] \in Int
  BY FS_Singleton
<1>2. SumFunctionOnSet(f, {i}) = f[i] + SumFunctionOnSet(f, {i} \ {i})
  BY <1>1, SumOfMore
<1>3. {i} \ {i} = {}
  OBVIOUS
<1>4. SumFunctionOnSet(f, {i}) = f[i] + 0
  BY <1>2, <1>3, SumOfNone, Zenon
<1>5. QED
  BY <1>4

\* The sum of two numbers.
LEMMA SumOfTwo ==
    ASSUME NEW f, NEW i, NEW j, i # j, f[i] \in Int, f[j] \in Int
    PROVE  SumFunctionOnSet(f, {i, j}) = f[i] + f[j]
<1>1. IsFiniteSet({i} \cup {j}) /\ {i} \cup {j} = {i, j}
  BY FS_Singleton, FS_AddElement
<1>2. IsFiniteSet({i, j}) /\ \A x \in {i, j} : f[x] \in Int
  BY <1>1
<1>3. SumFunctionOnSet(f, {i, j}) = f[j] + SumFunctionOnSet(f, {i, j} \ {j})
  BY <1>2, SumOfMore
<1>4. {i, j} \ {j} = {i}
  OBVIOUS
<1>5. SumFunctionOnSet(f, {i, j}) = f[j] + f[i]
  BY <1>3, <1>4, SumOfOne, Zenon
<1>6. QED
  BY <1>5

\* The mean is the sum by the number.
LEMMA MeanIsAverage ==
    ASSUME NEW f, NEW S, Numbers(f, S), NEW values, Arranged(values, f, S)
    PROVE  MeanValue(values) = <<SumFunctionOnSet(f, S), Cardinality(S)>> /\ Cardinality(S) # 0
<1> DEFINE n == Cardinality(S)
<1>1. n \in Nat /\ n # 0 /\ IsFiniteSet(1..n)
  BY FS_CardinalityType, FS_EmptySet, FS_Interval DEF Numbers
<1>2. PICK p \in [1..n -> S] :
         /\ \A x \in S : \E j \in 1..n : p[j] = x
         /\ \A i, j \in 1..n : p[i] = p[j] => i = j
         /\ values = Reindexed(f, p, 1..n)
  BY DEF Arranged, Runs
<1>3. OneToOne(p, 1..n) /\ Places(p, 1..n) = S /\ \A j \in 1..n : f[p[j]] \in Int
  BY <1>2 DEF OneToOne, Places, Numbers
<1>4. values \in [1..n -> Int]
  BY AscendingRanks
<1> HIDE DEF n
<1>5. SumFunctionOnSet(Reindexed(f, p, 1..n), 1..n) = SumFunctionOnSet(f, Places(p, 1..n))
  BY <1>1, <1>3, SumReindexed
<1>6. Len(values) = n /\ values # <<>> /\ DOMAIN values = 1..n
  BY <1>1, <1>4, SliceOf
<1>7. SumFunction(values) = SumFunctionOnSet(f, S)
  BY <1>2, <1>3, <1>5, <1>6, SumOfFunction
<1>8. QED
  BY <1>1, <1>6, <1>7 DEF MeanValue, n

\* With nothing left out, all is between.
LEMMA AllIsBetween ==
    ASSUME NEW f, NEW S, Numbers(f, S)
    PROVE  Between(f, S, 0) = <<SumFunctionOnSet(f, S), Cardinality(S)>>
<1>1. SumsOf(f, 0, S) = {0}
  <2>1. \A part \in SUBSET S : Cardinality(part) = 0 <=> part = {}
    BY FS_Subset, FS_EmptySet DEF Numbers
  <2>2. kSubset(0, S) = {{}}
    BY <2>1 DEF kSubset
  <2>3. SumFunctionOnSet(f, {}) = 0
    BY SumOfNone
  <2>4. QED
    BY <2>2, <2>3 DEF SumsOf
<1>2. Max({0}) = 0 /\ Min({0}) = 0
  BY DEF Max, Min
<1>3. SumFunctionOnSet(f, S) \in Int
  BY SumTyped DEF Numbers
<1>4. SumFunctionOnSet(f, S) - Max(SumsOf(f, 0, S)) - Min(SumsOf(f, 0, S)) = SumFunctionOnSet(f, S)
  <2>1. \A i \in Int : i - 0 - 0 = i
    OBVIOUS
  <2>2. QED
    BY <1>1, <1>2, <1>3, <2>1, Zenon
<1>5. Cardinality(S) - 2 * 0 = Cardinality(S)
  BY FS_CardinalityType DEF Numbers
<1>6. QED
  BY <1>4, <1>5 DEF Between

\* The mean leaves nothing out.
LEMMA MeanIsBetween ==
    ASSUME NEW f, NEW S, Numbers(f, S), NEW values, Arranged(values, f, S)
    PROVE  MeanValue(values) = Between(f, S, 0)
BY AllIsBetween, MeanIsAverage

\* What is between is the sum over the middle of the sorted slice.
LEMMA SortedBetween ==
    ASSUME NEW f, NEW S, Numbers(f, S), NEW values, Arranged(values, f, S),
           NEW k \in Nat, 2 * k < Cardinality(S)
    PROVE  LET n == Cardinality(S)
               q == Ascending(values)
           IN  /\ q \in [1..n -> Int]
               /\ Between(f, S, k) = <<SumFunctionOnSet(q, k + 1..n - k), n - 2 * k>>
<1> DEFINE n == Cardinality(S)
           q == Ascending(values)
           D == k + 1..n - k
<1>1. n \in Nat /\ n # 0
  BY FS_CardinalityType, FS_EmptySet DEF Numbers
<1>2. PICK o : Ranks(o, f, S) /\ q = Reindexed(f, o, 1..n)
  BY AscendingRanks
<1>3. o \in [1..n -> S]
  BY <1>2 DEF Ranks, Runs
<1> HIDE DEF n
<1>4. \A j \in 1..n : q[j] = f[o[j]] /\ q[j] \in Int
  BY <1>2, <1>3 DEF Reindexed, Numbers
<1>5. q \in [1..n -> Int]
  BY <1>2, <1>4 DEF Reindexed
<1>6. SumFunctionOnSet(Reindexed(f, o, D), D) = SumFunctionOnSet(f, S) - Max(SumsOf(f, k, S)) - Min(SumsOf(f, k, S))
  BY <1>2, SumBetween DEF Numbers, n
<1>7. D \in SUBSET (1..n) /\ IsFiniteSet(D)
  <2>1. k + 1 \in Int /\ n - k \in Int
    BY <1>1
  <2>2. IsFiniteSet(k + 1..n - k)
    BY <2>1, FS_Interval
  <2>3. QED
    BY <1>1, <2>2
<1>8. SumFunctionOnSet(Reindexed(f, o, D), D) = SumFunctionOnSet(q, D)
  <2> HIDE DEF D, q
  <2> DEFINE g == Reindexed(f, o, D)
  <2>1. \A j \in D : g[j] = q[j] /\ g[j] \in Int
    BY <1>4, <1>7 DEF Reindexed
  <2> HIDE DEF g
  <2>2. SumFunctionOnSet(g, D) = SumFunctionOnSet(q, D)
    BY <1>7, <2>1, SumOfEqual
  <2>3. QED
    BY <2>2 DEF g
<1>9. QED
  BY <1>5, <1>6, <1>8 DEF Between, n

\* The median leaves all but the middle one or two out.
LEMMA MedianIsBetween ==
    ASSUME NEW f, NEW S, Numbers(f, S), NEW values, Arranged(values, f, S)
    PROVE  MedianValue(values) = Between(f, S, (Cardinality(S) - 1) \div 2)
<1> DEFINE n == Cardinality(S)
           k == (n - 1) \div 2
           q == Ascending(values)
<1>1. n \in Nat /\ n # 0
  BY FS_CardinalityType, FS_EmptySet DEF Numbers
<1>2. Len(values) = n
  BY <1>1, AscendingRanks, SliceOf
<1>3. /\ k \in Nat /\ 2 * k < n
      /\ n % 2 = 1 => n \div 2 + 1 = k + 1 /\ n - k = k + 1 /\ n - 2 * k = 1
      /\ n % 2 # 1 => n \div 2 = k + 1 /\ n - k = k + 2 /\ n - 2 * k = 2
  <2> HIDE DEF n
  <2>1. QED
    BY <1>1
<1> HIDE DEF k, n
<1>4. q \in [1..n -> Int] /\ Between(f, S, k) = <<SumFunctionOnSet(q, k + 1..n - k), n - 2 * k>>
  BY <1>3, SortedBetween DEF n
<1> HIDE DEF q
<1>5. CASE n % 2 = 1
  <2>1. k + 1..n - k = {k + 1} /\ k + 1 \in 1..n
    BY <1>1, <1>3, <1>5
  <2>2. q[k + 1] \in Int /\ SumFunctionOnSet(q, {k + 1}) = q[k + 1]
    BY <1>4, <2>1, SumOfOne
  <2>3. Between(f, S, k) = <<q[k + 1], 1>>
    BY <1>3, <1>4, <1>5, <2>1, <2>2
  <2>4. MedianValue(values) = <<q[k + 1], 1>>
    BY <1>1, <1>2, <1>3, <1>5 DEF MedianValue, Whole, q
  <2>5. QED
    BY <2>3, <2>4 DEF k, n
<1>6. CASE n % 2 # 1
  <2>1. k + 1..n - k = {k + 1, k + 2} /\ k + 1 \in 1..n /\ k + 2 \in 1..n /\ k + 1 # k + 2
    BY <1>1, <1>3, <1>6
  <2>2. SumFunctionOnSet(q, {k + 1, k + 2}) = q[k + 1] + q[k + 2]
    BY <1>4, <2>1, SumOfTwo
  <2>3. Between(f, S, k) = <<q[k + 1] + q[k + 2], 2>>
    BY <1>3, <1>4, <1>6, <2>1, <2>2
  <2>4. k + 1 = n \div 2 /\ k + 2 = n \div 2 + 1
    BY <1>3, <1>6
  <2>5. MedianValue(values) = <<q[k + 1] + q[k + 2], 2>>
    BY <1>1, <1>2, <1>6, <2>4 DEF MedianValue, q
  <2>6. QED
    BY <2>3, <2>5 DEF k, n
<1>7. QED
  BY <1>5, <1>6

\* The mean of what is left of the sorted slice.
LEMMA MiddleIsBetween ==
    ASSUME NEW f, NEW S, Numbers(f, S), NEW values, Arranged(values, f, S),
           NEW k \in Nat, 2 * k < Cardinality(S)
    PROVE  MeanValue(SubSeq(Ascending(values), k + 1, Cardinality(S) - k)) = Between(f, S, k)
<1> DEFINE n == Cardinality(S)
           q == Ascending(values)
           m == n - 2 * k
           w == SubSeq(q, k + 1, n - k)
           o == [i \in 1..m |-> k + i]
           D == k + 1..n - k
<1>1. n \in Nat /\ m \in Nat /\ m # 0
  BY FS_CardinalityType DEF Numbers
<1>2. q \in [1..n -> Int] /\ Between(f, S, k) = <<SumFunctionOnSet(q, D), m>>
  BY SortedBetween
<1> HIDE DEF n, q
<1>3. w \in Seq(Int) /\ Len(w) = m /\ \A i \in 1..m : w[i] = q[k + i]
  <2>1. k + 1 \in Int /\ n - k \in Int /\ \A i \in k + 1..n - k : q[i] \in Int
    BY <1>1, <1>2
  <2>2. /\ w \in Seq(Int) /\ Len(w) = IF k + 1 <= n - k THEN n - k - (k + 1) + 1 ELSE 0
        /\ \A i \in 1..n - k - (k + 1) + 1 : w[i] = q[k + 1 + i - 1]
    BY <2>1, SubSeqProperties
  <2>3. n - k - (k + 1) + 1 = m /\ k + 1 <= n - k /\ \A i \in 1..m : k + 1 + i - 1 = k + i
    BY <1>1
  <2> HIDE DEF m, w
  <2>4. QED
    BY <2>2, <2>3
<1>4. DOMAIN w = 1..m /\ w # <<>>
  <2> HIDE DEF m, w
  <2>1. QED
    BY <1>1, <1>3
<1>5. OneToOne(o, 1..m) /\ Places(o, 1..m) = D /\ \A i \in 1..m : o[i] = k + i /\ q[o[i]] \in Int
  <2>1. \A i \in 1..m : o[i] = k + i /\ k + i \in D /\ k + i \in 1..n
    BY <1>1
  <2>2. \A j \in D : j - k \in 1..m /\ k + (j - k) = j
    BY <1>1
  <2>3. \A i, j \in 1..m : k + i = k + j => i = j
    BY <1>1
  <2> HIDE DEF o, D, m
  <2>4. OneToOne(o, 1..m)
    BY <2>1, <2>3 DEF OneToOne
  <2>5. Places(o, 1..m) = D
    BY <2>1, <2>2 DEF Places
  <2>6. QED
    BY <1>2, <2>1, <2>4, <2>5
<1>6. IsFiniteSet(1..m)
  BY <1>1, FS_Interval
<1> HIDE DEF m, w, o, D
<1>7. SumFunctionOnSet(Reindexed(q, o, 1..m), 1..m) = SumFunctionOnSet(q, D)
  BY <1>5, <1>6, SumReindexed
<1>8. SumFunctionOnSet(Reindexed(q, o, 1..m), 1..m) = SumFunctionOnSet(w, 1..m)
  <2> DEFINE g == Reindexed(q, o, 1..m)
  <2>1. \A i \in 1..m : g[i] = w[i] /\ g[i] \in Int
    BY <1>3, <1>5 DEF Reindexed
  <2> HIDE DEF g
  <2>2. SumFunctionOnSet(g, 1..m) = SumFunctionOnSet(w, 1..m)
    BY <1>6, <2>1, SumOfEqual
  <2>3. QED
    BY <2>2 DEF g
<1>9. SumFunction(w) = SumFunctionOnSet(w, 1..m)
  BY <1>4, SumOfFunction
<1>10. MeanValue(w) = <<SumFunctionOnSet(q, D), m>>
  BY <1>3, <1>4, <1>7, <1>8, <1>9 DEF MeanValue
<1>11. QED
  BY <1>2, <1>10 DEF w, q, n

\* Trimming leaves a share out at both ends, or nothing.
LEMMA TrimmedIsBetween ==
    ASSUME NEW f, NEW S, Numbers(f, S), NEW values, Arranged(values, f, S), NEW trim \in Nat
    PROVE  LET cut == (Cardinality(S) * trim) \div 10
           IN  /\ cut \in Nat
               /\ TrimmedMeanValue(values, trim) =
                      Between(f, S, IF 2 * cut < Cardinality(S) THEN cut ELSE 0)
<1> DEFINE n == Cardinality(S)
           cut == (n * trim) \div 10
<1>1. n \in Nat
  BY FS_CardinalityType DEF Numbers
<1>2. Len(values) = n
  BY <1>1, AscendingRanks, SliceOf
<1> HIDE DEF n
<1>3. cut \in Nat
  <2>1. \A x, y \in Nat : x * y \in Nat
    OBVIOUS
  <2>2. \A x \in Nat : x \div 10 \in Nat
    OBVIOUS
  <2>3. QED
    BY <1>1, <2>1, <2>2
<1>4. TrimmedMeanValue(values, trim) =
         IF 2 * cut >= n THEN MeanValue(values)
         ELSE MeanValue(SubSeq(Ascending(values), cut + 1, n - cut))
  BY <1>2 DEF TrimmedMeanValue
<1> HIDE DEF cut
<1>5. CASE 2 * cut < n
  <2>1. MeanValue(SubSeq(Ascending(values), cut + 1, n - cut)) = Between(f, S, cut)
    BY <1>3, <1>5, MiddleIsBetween DEF n
  <2>2. ~(2 * cut >= n)
    BY <1>1, <1>3, <1>5
  <2>3. QED
    BY <1>3, <1>4, <1>5, <2>1, <2>2 DEF n, cut
<1>6. CASE ~(2 * cut < n)
  <2>1. MeanValue(values) = Between(f, S, 0)
    BY MeanIsBetween
  <2>2. 2 * cut >= n
    BY <1>1, <1>3, <1>6
  <2>3. QED
    BY <1>3, <1>4, <1>6, <2>1, <2>2 DEF n, cut
<1>7. QED
  BY <1>5, <1>6

\* InOrder runs through its set.
LEMMA InOrderRuns ==
    ASSUME NEW P \in SUBSET Int, IsFiniteSet(P)
    PROVE  Runs(InOrder(P), P) /\ Cardinality(P) \in Nat
<1> DEFINE n == Cardinality(P)
           s == InOrder(P)
<1>1. /\ s \in [1..n -> P] /\ n \in Nat
      /\ \A i \in P : \E k \in DOMAIN s : s[k] = i
      /\ \A j, k \in DOMAIN s : j < k => s[j] < s[k]
  BY InOrderAscends
<1> HIDE DEF n, s
<1>2. \A i \in P : \E k \in 1..n : s[k] = i
  BY <1>1
<1>3. \A j, k \in 1..n : s[j] = s[k] => j = k
  <2>1. ASSUME NEW j \in 1..n, NEW k \in 1..n, j # k
        PROVE  s[j] # s[k]
    <3>1. j \in DOMAIN s /\ k \in DOMAIN s /\ s[j] \in Int /\ s[k] \in Int
      BY <1>1
    <3>2. j < k \/ k < j
      BY <1>1, <2>1
    <3>3. s[j] < s[k] \/ s[k] < s[j]
      BY <1>1, <3>1, <3>2
    <3>4. QED
      BY <3>1, <3>3
  <2>2. QED
    BY <2>1
<1>4. QED
  BY <1>1, <1>2, <1>3 DEF Runs, n, s

\* Running through the places in a slice that runs through P.
LEMMA RunsTwice ==
    ASSUME NEW P \in SUBSET Int, IsFiniteSet(P), NEW Q \in SUBSET (1..Cardinality(P))
    PROVE  LET s == InOrder(P)
               S == Places(s, Q)
               o == [k \in 1..Cardinality(Q) |-> s[InOrder(Q)[k]]]
           IN  /\ Runs(o, S) /\ S \in SUBSET P /\ Cardinality(S) = Cardinality(Q)
               /\ IsFiniteSet(Q) /\ Q \in SUBSET Int
<1> DEFINE n == Cardinality(P)
           s == InOrder(P)
           m == Cardinality(Q)
           r == InOrder(Q)
           S == Places(s, Q)
           o == [k \in 1..m |-> s[r[k]]]
<1>1. IsFiniteSet(Q) /\ Q \in SUBSET Int
  <2>1. n \in Nat
    BY FS_CardinalityType
  <2>2. IsFiniteSet(1..n)
    BY <2>1, FS_Interval
  <2> HIDE DEF n
  <2>3. Q \in SUBSET (1..n)
    BY DEF n
  <2>4. IsFiniteSet(Q)
    BY <2>2, <2>3, FS_Subset
  <2>5. Q \in SUBSET Int
    BY <2>1, <2>3
  <2>6. QED
    BY <2>4, <2>5
<1>2. Runs(s, P) /\ Runs(r, Q)
  BY <1>1, InOrderRuns
<1> HIDE DEF n, s, m, r
<1>3. s \in [1..n -> P] /\ \A i, j \in 1..n : s[i] = s[j] => i = j
  BY <1>2 DEF Runs, n
<1>4. /\ r \in [1..m -> Q] /\ \A x \in Q : \E j \in 1..m : r[j] = x
      /\ \A i, j \in 1..m : r[i] = r[j] => i = j
  BY <1>2 DEF Runs, m
<1>5. Q \in SUBSET (1..n)
  BY DEF n
<1>6. OneToOne(s, Q)
  BY <1>3, <1>5 DEF OneToOne
<1>7. Cardinality(S) = m /\ S \in SUBSET P
  <2>1. PICK z : z = [x \in P |-> 0]
    OBVIOUS
  <2>2. \A j \in Q : z[s[j]] \in Int
    BY <1>3, <1>5, <2>1
  <2>3. Cardinality(Places(s, Q)) = Cardinality(Q)
    BY <1>1, <1>6, <2>2, SumReindexed
  <2>4. S \in SUBSET P
    BY <1>3, <1>5 DEF Places
  <2>5. QED
    BY <2>3, <2>4 DEF m
<1>8. o \in [1..m -> S] /\ \A k \in 1..m : o[k] = s[r[k]]
  <2>1. \A k \in 1..m : s[r[k]] \in S
    BY <1>4 DEF Places
  <2>2. QED
    BY <2>1
<1> HIDE DEF o
<1>9. ASSUME NEW x \in S
      PROVE  \E k \in 1..m : o[k] = x
  <2>1. PICK j \in Q : s[j] = x
    BY DEF Places
  <2>2. PICK k \in 1..m : r[k] = j
    BY <1>4
  <2>3. QED
    BY <1>8, <2>1, <2>2
<1>10. ASSUME NEW i \in 1..m, NEW j \in 1..m, o[i] = o[j]
       PROVE  i = j
  <2>1. r[i] \in Q /\ r[j] \in Q /\ s[r[i]] = s[r[j]]
    BY <1>4, <1>8, <1>10
  <2>2. r[i] = r[j]
    BY <1>6, <2>1 DEF OneToOne
  <2>3. QED
    BY <1>4, <2>2
<1> HIDE DEF S
<1>11. Runs(o, S)
  BY <1>7, <1>8, <1>9, <1>10 DEF Runs
<1>12. QED
  BY <1>1, <1>7, <1>11 DEF n, s, m, r, S, o

\* The valid scores, one after the other.
LEMMA CountedScores ==
    ASSUME NEW list, IsScoreList(list)
    PROVE  LET P == ValidAt(list)
               n == Cardinality(P)
               s == InOrder(P)
               counted == ValidScores(list)
           IN  /\ P \in SUBSET (1..Len(list)) /\ P \in SUBSET Int /\ IsFiniteSet(P) /\ n \in Nat
               /\ Runs(s, P) /\ DOMAIN s = 1..n
               /\ DOMAIN counted = 1..n /\ Len(counted) = n
               /\ \A k \in 1..n : counted[k] = list[s[k]] /\ s[k] \in P
               /\ ValidAt(counted) = 1..n
               /\ \A x \in P : Values(list)[x] = list[x].value /\ Values(list)[x] \in Int
<1> DEFINE P == ValidAt(list)
           n == Cardinality(P)
           s == InOrder(P)
           counted == ValidScores(list)
<1>1. /\ Len(list) \in Nat /\ DOMAIN list = 1..Len(list)
      /\ \A i \in DOMAIN list : list[i].value \in Int
  BY DEF IsScoreList
<1>2. P \in SUBSET (1..Len(list)) /\ \A x \in P : IsValid(list[x])
  BY <1>1 DEF ValidAt
<1>3. P \in SUBSET Int /\ IsFiniteSet(P)
  <2>1. IsFiniteSet(1..Len(list))
    BY <1>1, FS_Interval
  <2>2. IsFiniteSet(P)
    BY <1>2, <2>1, FS_Subset
  <2>3. P \in SUBSET Int
    BY <1>1, <1>2
  <2>4. QED
    BY <2>2, <2>3
<1> HIDE DEF P
<1>4. Runs(s, P) /\ n \in Nat
  BY <1>3, InOrderRuns
<1>5. s \in [1..n -> P]
  BY <1>4 DEF Runs
<1>6. counted = [k \in 1..n |-> list[s[k]]]
  BY <1>5 DEF ValidScores, ScoresAt, Elements, P
<1> HIDE DEF n, s, counted
<1>7. DOMAIN counted = 1..n /\ \A k \in 1..n : counted[k] = list[s[k]] /\ s[k] \in P
  BY <1>5, <1>6
<1>8. Len(counted) = n
  <2>1. PICK R : R = {list[i] : i \in P}
    OBVIOUS
  <2>2. counted \in [1..n -> R]
    BY <1>5, <1>6, <2>1
  <2>3. QED
    BY <1>4, <2>2, LengthOf
<1>9. ValidAt(counted) = 1..n
  BY <1>2, <1>7 DEF ValidAt
<1>10. \A x \in P : Values(list)[x] = list[x].value /\ Values(list)[x] \in Int
  BY <1>1, <1>2 DEF Values
<1>11. QED
  BY <1>2, <1>3, <1>4, <1>5, <1>7, <1>8, <1>9, <1>10 DEF P, n, s, counted

\* The values of some of the valid scores, and where they are in the list.
LEMMA CountedValues ==
    ASSUME NEW list, IsScoreList(list)
    PROVE  LET P == ValidAt(list)
               n == Cardinality(P)
               s == InOrder(P)
               counted == ValidScores(list)
           IN  /\ Arranged(Values(counted), Values(list), P)
               /\ Places(s, 1..n) = P
               /\ \A Q \in SUBSET (1..n) :
                     /\ Arranged(Values(ScoresAt(counted, Q)), Values(list), Places(s, Q))
                     /\ Places(s, Q) \in SUBSET P /\ Cardinality(Places(s, Q)) = Cardinality(Q)
<1> DEFINE P == ValidAt(list)
           n == Cardinality(P)
           s == InOrder(P)
           counted == ValidScores(list)
           f == Values(list)
<1>1. /\ P \in SUBSET Int /\ IsFiniteSet(P) /\ n \in Nat
      /\ Runs(s, P) /\ DOMAIN s = 1..n /\ DOMAIN counted = 1..n
      /\ \A k \in 1..n : counted[k] = list[s[k]] /\ s[k] \in P
      /\ \A x \in P : f[x] = list[x].value /\ f[x] \in Int
  BY CountedScores
<1> HIDE DEF P, s, counted, f
<1>2. \A k \in 1..n : counted[k].value = f[s[k]]
  BY <1>1
<1>3. Arranged(Values(counted), f, P)
  <2>1. Values(counted) = [k \in 1..n |-> counted[k].value]
    BY <1>1 DEF Values
  <2>2. Values(counted) = Reindexed(f, s, 1..n)
    BY <1>2, <2>1 DEF Reindexed
  <2>3. QED
    BY <1>1, <2>2 DEF Arranged
<1>4. Places(s, 1..n) = P
  <2>1. s \in [1..n -> P] /\ \A x \in P : \E j \in 1..n : s[j] = x
    BY <1>1 DEF Runs
  <2> HIDE DEF n
  <2>2. QED
    BY <2>1 DEF Places
<1>5. ASSUME NEW Q \in SUBSET (1..n)
      PROVE  /\ Arranged(Values(ScoresAt(counted, Q)), f, Places(s, Q))
             /\ Places(s, Q) \in SUBSET P /\ Cardinality(Places(s, Q)) = Cardinality(Q)
  <2> DEFINE r == InOrder(Q)
             m == Cardinality(Q)
             o == [k \in 1..m |-> s[r[k]]]
             some == ScoresAt(counted, Q)
  <2>1. /\ Runs(o, Places(s, Q)) /\ Places(s, Q) \in SUBSET P
        /\ Cardinality(Places(s, Q)) = m /\ IsFiniteSet(Q) /\ Q \in SUBSET Int
    BY <1>1, RunsTwice DEF s
  <2>2. r \in [1..m -> Q]
    BY <2>1, InOrderRuns DEF Runs
  <2>3. some = [k \in 1..m |-> counted[r[k]]]
    BY <2>2 DEF ScoresAt, Elements
  <2> HIDE DEF r, some
  <2>4. Values(some) = [k \in 1..m |-> f[s[r[k]]]]
    BY <1>2, <2>2, <2>3 DEF Values
  <2>5. Values(some) = Reindexed(f, o, 1..m)
    BY <2>4 DEF Reindexed
  <2> HIDE DEF o, m
  <2>6. Arranged(Values(some), f, Places(s, Q))
    BY <2>1, <2>5 DEF Arranged
  <2>7. QED
    BY <2>1, <2>6 DEF some, m
<1>6. QED
  BY <1>3, <1>4, <1>5 DEF P, s, counted, f

\* The statistic of some places of the ballot is what lies between.
LEMMA StatisticIsBetween ==
    ASSUME NEW S
    PROVE  Statistic(S) = Between(Values(ballot.scores), S, LeftOut(Cardinality(S)))
BY DEF Statistic, SumAt, Between, SumsOf

\* What is left out, by the method of the ballot.
LEMMA PolicyLeavesOut ==
    ASSUME NEW n \in Nat, n # 0, ballot.policy \in [method: {"mean", "median", "trimmed_mean"}, trim: 0..5]
    PROVE  LET cut == (n * ballot.policy.trim) \div 10
               method == ballot.policy.method
           IN  /\ method \in {"mean", "median", "trimmed_mean"} /\ ballot.policy.trim \in Nat
               /\ cut \in Nat
               /\ method = "mean" => LeftOut(n) = 0
               /\ method = "median" => LeftOut(n) = (n - 1) \div 2
               /\ method = "trimmed_mean" => LeftOut(n) = IF 2 * cut < n THEN cut ELSE 0
               /\ LeftOut(n) \in Nat /\ 2 * LeftOut(n) < n
<1> DEFINE t == ballot.policy.trim
           cut == (n * t) \div 10
           method == ballot.policy.method
<1>1. method \in {"mean", "median", "trimmed_mean"} /\ t \in Nat
  OBVIOUS
<1> HIDE DEF t
<1>2. cut \in Nat
  <2>1. \A x, y \in Nat : x * y \in Nat
    OBVIOUS
  <2>2. \A x \in Nat : x \div 10 \in Nat
    OBVIOUS
  <2>3. QED
    BY <1>1, <2>1, <2>2
<1>3. LeftOut(n) = CASE method = "mean" -> 0
                     [] method = "median" -> (n - 1) \div 2
                     [] OTHER -> IF 2 * cut < n THEN cut ELSE 0
  BY DEF LeftOut, t
<1> HIDE DEF cut, method
<1>4. (n - 1) \div 2 \in Nat /\ 2 * ((n - 1) \div 2) < n
  OBVIOUS
<1>5. /\ method = "mean" => LeftOut(n) = 0
      /\ method = "median" => LeftOut(n) = (n - 1) \div 2
      /\ method = "trimmed_mean" => LeftOut(n) = IF 2 * cut < n THEN cut ELSE 0
  BY <1>1, <1>3
<1>6. LeftOut(n) \in Nat /\ 2 * LeftOut(n) < n
  BY <1>1, <1>2, <1>4, <1>5
<1>7. QED
  BY <1>1, <1>2, <1>5, <1>6 DEF t, cut, method

\* The aggregate is the statistic over all valid scores.
LEMMA ScoreIsStatistic ==
    ASSUME IsScoreList(ballot.scores), ValidAt(ballot.scores) # {},
           ballot.policy \in [method: {"mean", "median", "trimmed_mean"}, trim: 0..5]
    PROVE  AggregateScore(ValidScores(ballot.scores), ballot.policy) = Statistic(ValidAt(ballot.scores))
<1> DEFINE list == ballot.scores
           P == ValidAt(list)
           n == Cardinality(P)
           f == Values(list)
           counted == ValidScores(list)
           t == ballot.policy.trim
           cut == (n * t) \div 10
           method == ballot.policy.method
<1>1. /\ IsFiniteSet(P) /\ n \in Nat /\ Len(counted) = n
      /\ ValidAt(counted) = 1..n
      /\ \A x \in P : f[x] \in Int
  BY CountedScores
<1>2. Numbers(f, P) /\ n # 0
  BY <1>1, FS_EmptySet DEF Numbers
<1>3. Arranged(Values(counted), f, P) /\ Arranged(Values(ScoresAt(counted, 1..n)), f, P)
  <2> DEFINE s == InOrder(P)
  <2>1. /\ Arranged(Values(counted), f, P) /\ Places(s, 1..n) = P
        /\ \A Q \in SUBSET (1..n) : Arranged(Values(ScoresAt(counted, Q)), f, Places(s, Q))
    BY CountedValues
  <2> HIDE DEF s, P, counted, f, n
  <2>2. 1..n \in SUBSET (1..n)
    OBVIOUS
  <2>3. Arranged(Values(ScoresAt(counted, 1..n)), f, Places(s, 1..n))
    BY <2>1, <2>2
  <2>4. QED
    BY <2>1, <2>3
<1>4. CalculateMean(counted) = Between(f, P, 0)
  <2>1. CalculateMean(counted) = MeanValue(Values(ScoresAt(counted, 1..n)))
    BY <1>1 DEF CalculateMean, ValidScores
  <2>2. QED
    BY <1>2, <1>3, <2>1, MeanIsBetween
<1>5. /\ method \in {"mean", "median", "trimmed_mean"} /\ t \in Nat /\ cut \in Nat
      /\ method = "mean" => LeftOut(n) = 0
      /\ method = "median" => LeftOut(n) = (n - 1) \div 2
      /\ method = "trimmed_mean" => LeftOut(n) = IF 2 * cut < n THEN cut ELSE 0
  BY <1>1, <1>2, PolicyLeavesOut
<1>6. Statistic(P) = Between(f, P, LeftOut(n))
  BY StatisticIsBetween
<1>7. AggregateScore(counted, ballot.policy) =
          CASE method = "mean" -> CalculateMean(counted)
            [] method = "median" -> CalculateMedian(counted)
            [] method = "trimmed_mean" -> CalculateTrimmedMean(counted, t)
  BY DEF AggregateScore
<1>8. CASE method = "mean"
  BY <1>4, <1>5, <1>6, <1>7, <1>8
<1>9. CASE method = "median"
  <2>1. CalculateMedian(counted) = Between(f, P, (n - 1) \div 2)
    BY <1>2, <1>3, MedianIsBetween DEF CalculateMedian
  <2> HIDE DEF list, P, n, f, counted, t, cut, method
  <2>2. AggregateScore(counted, ballot.policy) = CalculateMedian(counted)
    BY <1>7, <1>9
  <2>3. LeftOut(n) = (n - 1) \div 2
    BY <1>5, <1>9
  <2>4. AggregateScore(counted, ballot.policy) = Statistic(P)
    BY <1>6, <2>1, <2>2, <2>3 DEF n
  <2>5. QED
    BY <2>4 DEF counted, P, list
<1>10. CASE method = "trimmed_mean"
  <2>1. CalculateTrimmedMean(counted, t) =
            IF 2 * cut >= n THEN CalculateMean(counted)
            ELSE MeanValue(SubSeq(Ascending(Values(counted)), cut + 1, n - cut))
    BY <1>1 DEF CalculateTrimmedMean
  <2>2. 2 * cut < n => MeanValue(SubSeq(Ascending(Values(counted)), cut + 1, n - cut)) = Between(f, P, cut)
    BY <1>2, <1>3, <1>5, MiddleIsBetween
  <2> HIDE DEF list, P, n, f, counted, t, cut, method
  <2>3. AggregateScore(counted, ballot.policy) = CalculateTrimmedMean(counted, t)
    BY <1>7, <1>10
  <2>4. LeftOut(n) = IF 2 * cut < n THEN cut ELSE 0
    BY <1>5, <1>10
  <2>5. 2 * cut >= n <=> ~(2 * cut < n)
    BY <1>1, <1>5
  <2>6. AggregateScore(counted, ballot.policy) = Statistic(P)
    BY <1>4, <1>6, <2>1, <2>2, <2>3, <2>4, <2>5
  <2>7. QED
    BY <2>6 DEF counted, P, list
<1>11. QED
  BY <1>5, <1>8, <1>9, <1>10

\* The mean of a dimension is that of the values given for it.
LEMMA DimensionsAreMeans ==
    ASSUME NEW list, IsScoreList(list), NEW d \in DOMAIN DimensionMeans(ValidScores(list))
    PROVE  LET given == {x \in ValidAt(list) : d \in DOMAIN list[x].dims}
           IN  DimensionMeans(ValidScores(list))[d] =
                   <<SumFunction([x \in given |-> list[x].dims[d]]), Cardinality(given)>>
<1> DEFINE P == ValidAt(list)
           n == Cardinality(P)
           s == InOrder(P)
           counted == ValidScores(list)
           given == {x \in P : d \in DOMAIN list[x].dims}
           g == [x \in given |-> list[x].dims[d]]
           Q == {i \in 1..n : d \in DOMAIN counted[i].dims}
           r == InOrder(Q)
           m == Cardinality(Q)
           o == [k \in 1..m |-> s[r[k]]]
           values == [k \in DOMAIN r |-> counted[r[k]].dims[d]]
<1>1. /\ P \in SUBSET (1..Len(list)) /\ P \in SUBSET Int /\ IsFiniteSet(P) /\ n \in Nat
      /\ Runs(s, P) /\ DOMAIN counted = 1..n
      /\ \A k \in 1..n : counted[k] = list[s[k]] /\ s[k] \in P
      /\ ValidAt(counted) = 1..n
  BY CountedScores
<1>2. /\ Runs(o, Places(s, Q)) /\ Cardinality(Places(s, Q)) = m /\ IsFiniteSet(Q) /\ Q \in SUBSET Int
  <2> HIDE DEF Q
  <2>1. Q \in SUBSET (1..n)
    BY DEF Q
  <2>2. QED
    BY <1>1, <2>1, RunsTwice
<1>3. r \in [1..m -> Q]
  <2>1. Runs(r, Q)
    BY <1>2, InOrderRuns
  <2>2. QED
    BY <2>1 DEF Runs
<1>4. d \in UNION {DOMAIN counted[i].dims : i \in 1..n} /\ DimensionMeans(counted)[d] = MeanValue(values)
  <2>1. DOMAIN DimensionMeans(counted) = UNION {DOMAIN counted[i].dims : i \in ValidAt(counted)}
    BY DEF DimensionMeans
  <2>2. d \in UNION {DOMAIN counted[i].dims : i \in 1..n}
    BY <1>1, <2>1
  <2>3. {i \in ValidAt(counted) : d \in DOMAIN counted[i].dims} = Q
    BY <1>1
  <2>4. DimensionMeans(counted)[d] =
            LET rated == InOrder({i \in ValidAt(counted) : d \in DOMAIN counted[i].dims})
            IN  MeanValue([k \in DOMAIN rated |-> counted[rated[k]].dims[d]])
    BY <2>1 DEF DimensionMeans
  <2> HIDE DEF Q, counted, n
  <2>5. QED
    BY <2>2, <2>3, <2>4
<1> HIDE DEF n, P, s, counted, Q, r, m
<1>5. Places(s, Q) = given
  <2>1. \A k \in 1..n : d \in DOMAIN counted[k].dims <=> d \in DOMAIN list[s[k]].dims
    BY <1>1
  <2>2. \A x \in P : \E k \in 1..n : s[k] = x
    BY <1>1 DEF Runs, n
  <2>3. QED
    BY <1>1, <2>1, <2>2 DEF Places, Q
<1>6. given # {}
  <2>1. PICK i \in 1..n : d \in DOMAIN counted[i].dims
    BY <1>4
  <2>2. QED
    BY <1>1, <2>1
<1>7. IsFiniteSet(given) /\ \A x \in given : g[x] = list[x].dims[d] /\ g[x] \in Int
  <2>1. IsFiniteSet(given)
    BY <1>1, FS_Subset
  <2>2. DOMAIN list = 1..Len(list) /\ \A i \in DOMAIN list : \A e \in DOMAIN list[i].dims : list[i].dims[e] \in Int
    BY DEF IsScoreList
  <2>3. QED
    BY <1>1, <2>1, <2>2
<1> HIDE DEF g
<1>8. values = Reindexed(g, o, 1..m)
  <2>1. \A k \in 1..m : r[k] \in Q /\ r[k] \in 1..n /\ o[k] = s[r[k]]
    BY <1>3 DEF Q
  <2>2. \A k \in 1..m : s[r[k]] \in given
    BY <1>5, <2>1 DEF Places
  <2>3. \A k \in 1..m : counted[r[k]].dims[d] = g[o[k]]
    BY <1>1, <1>7, <2>1, <2>2
  <2>4. values = [k \in 1..m |-> counted[r[k]].dims[d]]
    BY <1>3
  <2> HIDE DEF o, given
  <2>5. QED
    BY <2>3, <2>4 DEF Reindexed
<1> HIDE DEF given, values, o
<1>9. Numbers(g, given) /\ Arranged(values, g, given)
  BY <1>2, <1>5, <1>6, <1>7, <1>8 DEF Numbers, Arranged
<1>10. MeanValue(values) = <<SumFunctionOnSet(g, given), Cardinality(given)>>
  BY <1>9, MeanIsAverage
<1>11. DOMAIN g = given /\ SumFunction(g) = SumFunctionOnSet(g, given)
  <2>1. DOMAIN g = given
    BY DEF g
  <2>2. QED
    BY <2>1, SumOfFunction
<1>12. DimensionMeans(counted)[d] = <<SumFunction(g), Cardinality(given)>>
  BY <1>4, <1>10, <1>11
<1>13. QED
  BY <1>12 DEF counted, given, g, P

\* The statistic lies within the values.
LEMMA StatisticWithin ==
    ASSUME NEW S, Numbers(Values(ballot.scores), S),
           NEW values, Arranged(values, Values(ballot.scores), S),
           ballot.policy \in [method: {"mean", "median", "trimmed_mean"}, trim: 0..5]
    PROVE  LET f == Values(ballot.scores)
           IN  \E low, high \in S :
                  ~Less(Statistic(S), Whole(f[low])) /\ ~Less(Whole(f[high]), Statistic(S))
<1> DEFINE f == Values(ballot.scores)
           n == Cardinality(S)
           k == LeftOut(n)
<1>1. n \in Nat /\ n # 0
  BY FS_CardinalityType, FS_EmptySet DEF Numbers
<1>2. k \in Nat /\ 2 * k < n
  BY <1>1, PolicyLeavesOut
<1>3. Statistic(S) = <<SumFunctionOnSet(f, S) - Max(SumsOf(f, k, S)) - Min(SumsOf(f, k, S)), n - 2 * k>>
  BY StatisticIsBetween DEF Between
<1> HIDE DEF k
<1>4. IsFiniteSet(S) /\ S # {} /\ \A x \in S : f[x] \in Int
  BY DEF Numbers
<1> HIDE DEF f
<1>5. PICK o : Ranks(o, f, S)
  BY AscendingRanks DEF f
<1>6. o[1] \in S /\ o[n] \in S /\ f[o[1]] \in Int /\ f[o[n]] \in Int
  <2>1. o \in [1..n -> S]
    BY <1>5 DEF Ranks, Runs
  <2> HIDE DEF n
  <2>2. 1 \in 1..n /\ n \in 1..n
    BY <1>1
  <2>3. QED
    BY <1>4, <2>1, <2>2
<1>7. PICK between : between = SumFunctionOnSet(f, S) - Max(SumsOf(f, k, S)) - Min(SumsOf(f, k, S))
  OBVIOUS
<1>8. between \in Int /\ f[o[1]] * (n - 2 * k) <= between /\ between <= f[o[n]] * (n - 2 * k)
  BY <1>2, <1>4, <1>5, <1>7, SumBetween
<1>9. Statistic(S) = <<between, n - 2 * k>>
  BY <1>3, <1>7
<1> HIDE DEF n
<1>10. f[o[1]] * (n - 2 * k) \in Int /\ f[o[n]] * (n - 2 * k) \in Int
  <2>1. n - 2 * k \in Int
    BY <1>1, <1>2
  <2>2. \A x, y \in Int : x * y \in Int
    OBVIOUS
  <2>3. QED
    BY <1>6, <2>1, <2>2
<1>11. ~(between * 1 < f[o[1]] * (n - 2 * k)) /\ ~(f[o[n]] * (n - 2 * k) < between * 1)
  <2>1. between * 1 = between
    BY <1>8
  <2>2. \A x, y \in Int : x <= y => ~(y < x)
    OBVIOUS
  <2>3. QED
    BY <1>8, <1>10, <2>1, <2>2, Zenon
<1>12. ~Less(Statistic(S), Whole(f[o[1]])) /\ ~Less(Whole(f[o[n]]), Statistic(S))
  BY <1>9, <1>11 DEF Less, Whole
<1>13. QED
  BY <1>6, <1>12 DEF f

\* The verdict, once there is one, is computed from the ballot.
VerdictInv ==
    /\ ballot \in Ballots
    /\ verdict # <<>> => Acceptable(ballot) /\ verdict = Output(ballot)

\* What a ballot is.
LEMMA BallotTyped ==
    ASSUME ballot \in Ballots
    PROVE  /\ IsScoreList(ballot.scores)
           /\ ballot.policy \in [method: {"mean", "median", "trimmed_mean"}, trim: 0..5]
           /\ ballot.minValid \in Nat \ {0}
<1>1. ballot.scores \in ScoreLists /\ ballot.policy \in Policies /\ ballot.minValid \in MinValids
  BY DEF Ballots
<1>2. QED
  BY <1>1, AggregationAssumption

\* What is counted of an acceptable ballot.
LEMMA BallotCounted ==
    ASSUME ballot \in Ballots, Acceptable(ballot)
    PROVE  LET P == ValidAt(ballot.scores)
               f == Values(ballot.scores)
           IN  /\ Numbers(f, P) /\ Arranged(Values(ValidScores(ballot.scores)), f, P)
               /\ Len(ValidScores(ballot.scores)) = Cardinality(P)
               /\ Cardinality(P) >= ballot.minValid
               /\ P # {} /\ \A x \in P : f[x] = ballot.scores[x].value
<1> DEFINE list == ballot.scores
           P == ValidAt(list)
           f == Values(list)
<1>1. IsScoreList(list) /\ ballot.minValid \in Nat \ {0}
  BY BallotTyped
<1>2. /\ IsFiniteSet(P) /\ Cardinality(P) \in Nat /\ Len(ValidScores(list)) = Cardinality(P)
      /\ \A x \in P : f[x] = list[x].value /\ f[x] \in Int
  BY <1>1, CountedScores
<1>3. Arranged(Values(ValidScores(list)), f, P)
  BY <1>1, CountedValues
<1>4. Len(ValidScores(list)) >= ballot.minValid
  BY DEF Acceptable
<1> HIDE DEF P, f
<1>5. P # {}
  BY <1>1, <1>2, <1>4, FS_EmptySet
<1>6. Numbers(f, P)
  BY <1>2, <1>5 DEF Numbers
<1>7. QED
  BY <1>2, <1>3, <1>4, <1>5, <1>6 DEF P, f

\* The verdict on an acceptable ballot is right.
LEMMA OutputIsRight ==
    ASSUME VerdictInv
    PROVE  AggregateRight
<1> DEFINE list == ballot.scores
           P == ValidAt(list)
           f == Values(list)
           counted == ValidScores(list)
           all == Counting({list[i].answer : i \in DOMAIN list})
<1>1. SUFFICES ASSUME verdict # <<>>
               PROVE  /\ Same(verdict.score, Statistic(all))
                      /\ \E low, high \in all :
                            ~Less(verdict.score, Whole(list[low].value))
                            /\ ~Less(Whole(list[high].value), verdict.score)
                      /\ \A d \in DOMAIN verdict.dims :
                            LET given == {i \in all : d \in DOMAIN list[i].dims}
                            IN  Same(verdict.dims[d],
                                     <<SumFunction([i \in given |-> list[i].dims[d]]), Cardinality(given)>>)
                      /\ verdict.valid = Cardinality(all) /\ verdict.valid >= ballot.minValid
                      /\ verdict.cost = SumFunction([i \in DOMAIN list |-> list[i].cost])
  BY DEF AggregateRight
<1>2. ballot \in Ballots /\ Acceptable(ballot) /\ verdict = Output(ballot)
  BY <1>1 DEF VerdictInv
<1>3. /\ IsScoreList(list)
      /\ ballot.policy \in [method: {"mean", "median", "trimmed_mean"}, trim: 0..5]
  BY <1>2, BallotTyped
<1>4. /\ Numbers(f, P) /\ Arranged(Values(counted), f, P) /\ Len(counted) = Cardinality(P)
      /\ Cardinality(P) >= ballot.minValid
      /\ P # {} /\ \A x \in P : f[x] = list[x].value
  BY <1>2, BallotCounted
<1>5. all = P
  BY DEF Counting, ValidAt
<1>6. /\ verdict.score = AggregateScore(counted, ballot.policy) /\ verdict.valid = Len(counted)
      /\ verdict.cost = TotalCost(list) /\ verdict.dims = DimensionMeans(counted)
  BY <1>2 DEF Output
<1>7. AggregateScore(counted, ballot.policy) = Statistic(P)
  BY <1>3, <1>4, ScoreIsStatistic
<1> HIDE DEF P, f, all
<1>8. \E low, high \in all :
         ~Less(verdict.score, Whole(list[low].value))
         /\ ~Less(Whole(list[high].value), verdict.score)
  <2>1. PICK low \in P, high \in P :
           ~Less(Statistic(P), Whole(f[low])) /\ ~Less(Whole(f[high]), Statistic(P))
    BY <1>3, <1>4, StatisticWithin DEF f
  <2>2. f[low] = list[low].value /\ f[high] = list[high].value
    BY <1>4
  <2>3. QED
    BY <1>5, <1>6, <1>7, <2>1, <2>2
<1>9. ASSUME NEW d \in DOMAIN verdict.dims
      PROVE  LET given == {i \in all : d \in DOMAIN list[i].dims}
             IN  Same(verdict.dims[d],
                      <<SumFunction([i \in given |-> list[i].dims[d]]), Cardinality(given)>>)
  <2> DEFINE given == {i \in P : d \in DOMAIN list[i].dims}
  <2>1. d \in DOMAIN DimensionMeans(counted)
    BY <1>6
  <2>2. DimensionMeans(counted)[d] =
            <<SumFunction([i \in given |-> list[i].dims[d]]), Cardinality(given)>>
    BY <1>3, <2>1, DimensionsAreMeans DEF P
  <2> DEFINE mean == <<SumFunction([i \in given |-> list[i].dims[d]]), Cardinality(given)>>
  <2>3. verdict.dims[d] = mean
    BY <1>6, <2>2
  <2> HIDE DEF mean
  <2>4. Same(verdict.dims[d], mean)
    BY <2>3 DEF Same
  <2>5. QED
    BY <1>5, <2>4 DEF mean
<1>10. verdict.cost = SumFunction([i \in DOMAIN list |-> list[i].cost])
  BY <1>6 DEF TotalCost
<1>11. Same(verdict.score, Statistic(all))
  BY <1>5, <1>6, <1>7 DEF Same
<1>12. verdict.valid = Cardinality(all) /\ verdict.valid >= ballot.minValid
  BY <1>4, <1>5, <1>6
<1> HIDE DEF list
<1>13. QED
  BY <1>8, <1>9, <1>10, <1>11, <1>12 DEF list

\* There is no verdict at first.
LEMMA VerdictInit == SinkInit /\ AggregationInit(Ballots) => VerdictInv
  BY DEF AggregationInit, VerdictInv

\* Only Aggregate gives one, and then the ballot stays.
LEMMA VerdictStep == VerdictInv /\ [AggregationNext]_<<sinkVars, aggregationVars>> => VerdictInv'
<1>1. SUFFICES ASSUME VerdictInv, [AggregationNext]_<<sinkVars, aggregationVars>>
               PROVE  VerdictInv'
  OBVIOUS
<1>2. CASE UNCHANGED <<ballot, verdict>>
  BY <1>1, <1>2 DEF VerdictInv, Acceptable, Output
<1>3. CASE Aggregate
  <2>1. Acceptable(ballot) /\ verdict' = Output(ballot) /\ ballot' = ballot
    BY <1>3 DEF Aggregate
  <2>2. QED
    BY <1>1, <2>1 DEF VerdictInv, Acceptable, Output
<1>4. QED
  BY <1>1, <1>2, <1>3 DEF AggregationNext, AggregationWork, Submit, RefuseToAggregate,
     ReturnVerdict, aggregationVars, sinkVars

\* Every verdict of AggregateScores is right about the statistic, the dimensions
\* and the costs, whatever the list of scores and the policy.
THEOREM AggregateIsRight == AggregationSpec => []AggregateRight
  BY VerdictInit, VerdictStep, OutputIsRight, PTL DEF AggregationSpec

(* ------------------------------ the election ---------------------------- *)

Fractions == Int \X (Nat \ {0})

\* A positive factor keeps the order, and can be cancelled.
LEMMA FactorKeepsOrder ==
    ASSUME NEW x \in Int, NEW y \in Int, NEW c \in Nat \ {0}
    PROVE  x <= y <=> x * c <= y * c
<1>1. PICK z \in Int : y = x + z
  <2>1. y - x \in Int /\ y = x + (y - x)
    OBVIOUS
  <2>2. QED
    BY <2>1
<1>2. y * c = x * c + z * c /\ x * c \in Int /\ z * c \in Int
  <2>1. (x + z) * c = x * c + z * c
    OBVIOUS
  <2>2. \A i, j \in Int : i * j \in Int
    OBVIOUS
  <2>3. QED
    BY <1>1, <2>1, <2>2
<1>3. 0 <= z => 0 <= z * c
  OBVIOUS
<1>4. z < 0 => z * c < 0
  <2>1. SUFFICES ASSUME z < 0 PROVE z * c < 0
    OBVIOUS
  <2>2. -z \in Nat \ {0}
    BY <2>1
  <2>3. \A i, j \in Nat \ {0} : i * j \in Nat \ {0}
    OBVIOUS
  <2>4. (-z) * c \in Nat \ {0} /\ z * c = -((-z) * c)
    BY <2>2, <2>3
  <2>5. QED
    BY <1>2, <2>4
<1>5. QED
  BY <1>1, <1>2, <1>3, <1>4

\* What is not less than a fraction that is not less than another.
LEMMA NotLessTransitive ==
    ASSUME NEW p \in Fractions, NEW q \in Fractions, NEW r \in Fractions,
           ~Less(p, q), ~Less(q, r)
    PROVE  ~Less(p, r)
<1>1. /\ p[1] \in Int /\ q[1] \in Int /\ r[1] \in Int
      /\ p[2] \in Nat \ {0} /\ q[2] \in Nat \ {0} /\ r[2] \in Nat \ {0}
  BY DEF Fractions
<1>2. \A i, j \in Int : i * j \in Int
  OBVIOUS
<1>3. q[1] * p[2] <= p[1] * q[2] /\ r[1] * q[2] <= q[1] * r[2]
  <2>1. \A i, j \in Int : ~(i < j) => j <= i
    OBVIOUS
  <2>2. /\ p[1] * q[2] \in Int /\ q[1] * p[2] \in Int
        /\ q[1] * r[2] \in Int /\ r[1] * q[2] \in Int
    BY <1>1, <1>2
  <2>3. QED
    BY <2>1, <2>2 DEF Less
<1>4. (q[1] * p[2]) * r[2] <= (p[1] * q[2]) * r[2] /\ (r[1] * q[2]) * p[2] <= (q[1] * r[2]) * p[2]
  <2>1. /\ p[1] * q[2] \in Int /\ q[1] * p[2] \in Int
        /\ q[1] * r[2] \in Int /\ r[1] * q[2] \in Int
    BY <1>1, <1>2
  <2>2. (q[1] * p[2]) * r[2] <= (p[1] * q[2]) * r[2]
    BY <1>1, <1>3, <2>1, FactorKeepsOrder
  <2>3. (r[1] * q[2]) * p[2] <= (q[1] * r[2]) * p[2]
    BY <1>1, <1>3, <2>1, FactorKeepsOrder
  <2>4. QED
    BY <2>2, <2>3
<1>5. \A i, j, k \in Int : (i * j) * k = (i * k) * j
  OBVIOUS
<1>6. (r[1] * p[2]) * q[2] <= (p[1] * r[2]) * q[2]
  <2>1. /\ (q[1] * p[2]) * r[2] = (q[1] * r[2]) * p[2]
        /\ (r[1] * q[2]) * p[2] = (r[1] * p[2]) * q[2]
        /\ (p[1] * q[2]) * r[2] = (p[1] * r[2]) * q[2]
    BY <1>1, <1>5
  <2>2. (r[1] * p[2]) * q[2] \in Int /\ (q[1] * r[2]) * p[2] \in Int /\ (p[1] * r[2]) * q[2] \in Int
    BY <1>1, <1>2
  <2>3. \A i, j, k \in Int : i <= j /\ j <= k => i <= k
    OBVIOUS
  <2>4. QED
    BY <1>4, <2>1, <2>2, <2>3, Zenon
<1>7. r[1] * p[2] <= p[1] * r[2]
  <2>1. r[1] * p[2] \in Int /\ p[1] * r[2] \in Int
    BY <1>1, <1>2
  <2>2. QED
    BY <1>1, <1>6, <2>1, FactorKeepsOrder
<1>8. QED
  <2>1. \A i, j \in Int : j <= i => ~(i < j)
    OBVIOUS
  <2>2. r[1] * p[2] \in Int /\ p[1] * r[2] \in Int
    BY <1>1, <1>2
  <2>3. QED
    BY <1>7, <2>1, <2>2 DEF Less

\* Of two fractions one is not less.
LEMMA NotLessTotal ==
    ASSUME NEW p \in Fractions, NEW q \in Fractions
    PROVE  ~Less(p, p) /\ (Less(p, q) => ~Less(q, p))
<1>1. p[1] \in Int /\ q[1] \in Int /\ p[2] \in Int /\ q[2] \in Int
  BY DEF Fractions
<1>2. \A i, j \in Int : i * j \in Int
  OBVIOUS
<1>3. p[1] * q[2] \in Int /\ q[1] * p[2] \in Int /\ p[1] * p[2] \in Int
  BY <1>1, <1>2
<1>4. \A i, j \in Int : ~(i < i) /\ (i < j => ~(j < i))
  OBVIOUS
<1>5. QED
  BY <1>3, <1>4 DEF Less

\* F[a] is not less than any F[b].
Leads(F, S, a) == \A b \in S : ~Less(F[a], F[b])

\* One of finitely many has a fraction that none is greater than.
LEMMA SomeoneLeads ==
    ASSUME NEW S, IsFiniteSet(S), S # {}, NEW F \in [S -> Fractions]
    PROVE  \E a \in S : Leads(F, S, a)
<1> DEFINE Good == {s \in SUBSET S : s = {} \/ \E a \in s : Leads(F, s, a)}
<1>1. {} \in Good
  OBVIOUS
<1>2. ASSUME NEW s \in SUBSET S, NEW x \in S \ s, s \in Good
      PROVE  s \cup {x} \in Good
  <2>1. ~Less(F[x], F[x])
    BY NotLessTotal
  <2>2. CASE s = {}
    BY <2>1, <2>2 DEF Leads
  <2>3. CASE s # {}
    <3>1. PICK a \in s : Leads(F, s, a)
      BY <1>2, <2>3
    <3>2. F[a] \in Fractions /\ F[x] \in Fractions /\ \A b \in s : F[b] \in Fractions
      OBVIOUS
    <3>3. CASE ~Less(F[a], F[x])
      BY <3>1, <3>3 DEF Leads
    <3>4. CASE Less(F[a], F[x])
      <4>1. ~Less(F[x], F[a])
        BY <3>2, <3>4, NotLessTotal
      <4>2. \A b \in s : ~Less(F[x], F[b])
        BY <3>1, <3>2, <4>1, NotLessTransitive DEF Leads
      <4>3. Leads(F, s \cup {x}, x)
        BY <2>1, <4>2 DEF Leads
      <4>4. QED
        BY <4>3
    <3>5. QED
      BY <3>3, <3>4
  <2>4. QED
    BY <2>2, <2>3
<1>3. S \in Good
  <2> HIDE DEF Good
  <2>1. QED
    BY <1>1, <1>2, Grows
<1>4. QED
  BY <1>3

\* The statistic of the scores of an answer is what the election compares.
LEMMA AggregatedIsStatistic ==
    ASSUME ballot \in Ballots, NEW a, Counting({a}) # {}
    PROVE  LET S == Counting({a})
           IN  /\ AggregatedFor(a, ValidScores(ballot.scores), ballot.policy) = Statistic(S)
               /\ Numbers(Values(ballot.scores), S)
               /\ Statistic(S) \in Fractions
<1> DEFINE list == ballot.scores
           P == ValidAt(list)
           n == Cardinality(P)
           s == InOrder(P)
           f == Values(list)
           counted == ValidScores(list)
           Q == {i \in 1..n : counted[i].answer = a}
           S == Counting({a})
           k == Cardinality(S)
           trim == ballot.policy.trim
           method == ballot.policy.method
           values == Values(ScoresAt(counted, Q))
<1>1. /\ IsScoreList(list)
      /\ ballot.policy \in [method: {"mean", "median", "trimmed_mean"}, trim: 0..5]
  BY BallotTyped
<1>2. /\ IsFiniteSet(P) /\ DOMAIN counted = 1..n /\ Runs(s, P)
      /\ \A i \in 1..n : counted[i] = list[s[i]] /\ s[i] \in P
      /\ \A x \in P : f[x] \in Int
  BY <1>1, CountedScores
<1>3. Arranged(values, f, Places(s, Q))
  <2> HIDE DEF Q
  <2>1. Q \in SUBSET (1..n)
    BY DEF Q
  <2>2. QED
    BY <1>1, <2>1, CountedValues
<1>4. S = {x \in P : list[x].answer = a}
  BY DEF Counting, ValidAt
<1>5. Places(s, Q) = S
  <2>1. \A x \in P : \E j \in 1..n : s[j] = x
    BY <1>2 DEF Runs
  <2> HIDE DEF P, n, s, counted, S
  <2>2. QED
    BY <1>2, <1>4, <2>1 DEF Places
<1>6. Numbers(f, S) /\ k \in Nat /\ k # 0
  <2>1. S \in SUBSET P
    BY <1>4
  <2> HIDE DEF S, P, f
  <2>2. IsFiniteSet(S)
    BY <1>2, <2>1, FS_Subset
  <2>3. S # {}
    BY DEF S
  <2>4. Numbers(f, S)
    BY <1>2, <2>1, <2>2, <2>3 DEF Numbers
  <2>5. QED
    BY <2>2, <2>3, <2>4, FS_CardinalityType, FS_EmptySet
<1>7. Arranged(values, f, S)
  BY <1>3, <1>5
<1>8. AggregatedFor(a, counted, ballot.policy) =
          CASE method = "median" -> MedianValue(values)
            [] method = "trimmed_mean" -> TrimmedMeanValue(values, trim)
            [] OTHER -> MeanValue(values)
  BY <1>2 DEF AggregatedFor
<1> DEFINE cut == (k * trim) \div 10
<1>9. /\ method \in {"mean", "median", "trimmed_mean"} /\ trim \in Nat /\ cut \in Nat
      /\ method = "mean" => LeftOut(k) = 0
      /\ method = "median" => LeftOut(k) = (k - 1) \div 2
      /\ method = "trimmed_mean" => LeftOut(k) = IF 2 * cut < k THEN cut ELSE 0
      /\ LeftOut(k) \in Nat /\ 2 * LeftOut(k) < k
  BY <1>1, <1>6, PolicyLeavesOut
<1>10. Statistic(S) = Between(f, S, LeftOut(k))
  BY StatisticIsBetween
<1>11. /\ MeanValue(values) = Between(f, S, 0)
       /\ MedianValue(values) = Between(f, S, (k - 1) \div 2)
       /\ TrimmedMeanValue(values, trim) = Between(f, S, IF 2 * cut < k THEN cut ELSE 0)
  <2>1. MeanValue(values) = Between(f, S, 0)
    BY <1>6, <1>7, MeanIsBetween
  <2>2. MedianValue(values) = Between(f, S, (k - 1) \div 2)
    BY <1>6, <1>7, MedianIsBetween
  <2>3. TrimmedMeanValue(values, trim) = Between(f, S, IF 2 * cut < k THEN cut ELSE 0)
    <3> HIDE DEF values, S, f, trim
    <3>1. trim \in Nat
      BY <1>9
    <3>2. QED
      BY <1>6, <1>7, <3>1, TrimmedIsBetween
  <2> HIDE DEF method, cut, k, values, S, f, counted, trim
  <2>4. QED
    BY <2>1, <2>2, <2>3
<1>12. AggregatedFor(a, counted, ballot.policy) = Statistic(S)
  <2> HIDE DEF method, cut, k, values, S, f, counted, trim
  <2>1. CASE method = "mean"
    BY <1>8, <1>9, <1>10, <1>11, <2>1
  <2>2. CASE method = "median"
    BY <1>8, <1>9, <1>10, <1>11, <2>2
  <2>3. CASE method = "trimmed_mean"
    BY <1>8, <1>9, <1>10, <1>11, <2>3
  <2>4. QED
    BY <1>9, <2>1, <2>2, <2>3
<1>13. Statistic(S) \in Fractions
  <2>1. PICK o : Ranks(o, f, S)
    BY <1>6, <1>7, AscendingRanks
  <2>2. PICK m : m = LeftOut(k)
    OBVIOUS
  <2>3. SumFunctionOnSet(f, S) - Max(SumsOf(f, m, S)) - Min(SumsOf(f, m, S)) \in Int
    BY <1>6, <1>9, <2>1, <2>2, SumBetween DEF Numbers
  <2>4. k - 2 * m \in Nat \ {0}
    <3> HIDE DEF k
    <3>1. QED
      BY <1>6, <1>9, <2>2
  <2>5. Statistic(S) = Between(f, S, m)
    BY <1>10, <2>2
  <2>6. QED
    BY <2>3, <2>4, <2>5 DEF Between, Fractions
<1>14. QED
  BY <1>6, <1>12, <1>13

\* The ones among some answers that have a valid score.
RunningIn(ids) == {a \in ids : Counting({a}) # {}}

\* Those are the ones with a statistic, and they are finitely many.
LEMMA StandingIsRunning ==
    ASSUME ballot \in Ballots
    PROVE  /\ Standing(ValidScores(ballot.scores)) = RunningIn(Candidates)
           /\ IsFiniteSet(RunningIn(Candidates))
<1> DEFINE list == ballot.scores
           P == ValidAt(list)
           n == Cardinality(P)
           s == InOrder(P)
           counted == ValidScores(list)
           known == {list[x].answer : x \in P}
<1>1. IsScoreList(list)
  BY BallotTyped
<1>2. /\ IsFiniteSet(P) /\ DOMAIN counted = 1..n /\ Runs(s, P)
      /\ \A i \in 1..n : counted[i] = list[s[i]] /\ s[i] \in P
  BY <1>1, CountedScores
<1>3. \A x \in P : \E j \in 1..n : s[j] = x
  BY <1>2 DEF Runs
<1>4. \A a : Counting({a}) = {x \in P : list[x].answer = a}
  BY DEF Counting, ValidAt
<1> HIDE DEF P, n, s, counted
<1>5. {counted[i].answer : i \in DOMAIN counted} = known
  BY <1>2, <1>3
<1>6. Standing(counted) = known \cap Candidates
  BY <1>5 DEF Standing
<1>7. RunningIn(Candidates) = known \cap Candidates
  BY <1>4 DEF RunningIn
<1>8. IsFiniteSet(known)
  <2> DEFINE name == [x \in P |-> list[x].answer]
  <2>1. name \in Surjection(P, known)
    BY DEF Surjection
  <2> HIDE DEF name, known
  <2>2. QED
    BY <1>2, <2>1, FS_Surjection
<1>9. IsFiniteSet(known \cap Candidates)
  BY <1>8, FS_Subset
<1>10. QED
  BY <1>6, <1>7, <1>9 DEF counted

\* The statistics of the running candidates, and the best of these.
Standings == [a \in RunningIn(Candidates) |-> Statistic(Counting({a}))]
BestOnes == {a \in RunningIn(Candidates) : Leads(Standings, RunningIn(Candidates), a)}

\* The election finds the best ones, and the first of them.
LEMMA FirstIsBest ==
    ASSUME ballot \in Ballots
    PROVE  LET elected == Winner(ValidScores(ballot.scores), ballot.policy)
           IN  /\ BestOnes \subseteq RunningIn(Candidates)
               /\ elected.winner = NoOne <=> RunningIn(Candidates) = {}
               /\ RunningIn(Candidates) # {} =>
                     /\ elected.winner \in BestOnes /\ \A a \in BestOnes : elected.winner <= a
                     /\ elected.tied = BestOnes \ {elected.winner}
<1> DEFINE R == RunningIn(Candidates)
           F == Standings
           counted == ValidScores(ballot.scores)
           elected == Winner(counted, ballot.policy)
           top == TopAnswers(counted, ballot.policy)
<1>1. /\ Standing(counted) = R /\ IsFiniteSet(R)
      /\ \A a \in R : Counting({a}) # {}
      /\ R \subseteq Candidates
  <2>1. Standing(counted) = R /\ IsFiniteSet(R)
    BY StandingIsRunning
  <2>2. R \subseteq Candidates /\ \A a \in R : Counting({a}) # {}
    BY DEF RunningIn
  <2>3. QED
    BY <2>1, <2>2
<1>2. ASSUME NEW a \in R
      PROVE  AggregatedFor(a, counted, ballot.policy) = F[a] /\ F[a] \in Fractions
  <2>1. Counting({a}) # {}
    BY <1>1
  <2>2. /\ AggregatedFor(a, counted, ballot.policy) = Statistic(Counting({a}))
        /\ Statistic(Counting({a})) \in Fractions
    BY <2>1, AggregatedIsStatistic
  <2>3. F[a] = Statistic(Counting({a}))
    BY DEF Standings
  <2>4. QED
    BY <2>2, <2>3
<1>3. F \in [R -> Fractions]
  <2>1. F = [a \in R |-> F[a]]
    BY DEF Standings
  <2> HIDE DEF F, R
  <2>2. QED
    BY <1>2, <2>1
<1> HIDE DEF R, F
<1>4. BestOnes = {a \in R : Leads(F, R, a)}
  BY DEF BestOnes, R, F
<1>5. top = BestOnes
  <2>1. top = {a \in R : \A b \in R :
                  ~Less(AggregatedFor(a, counted, ballot.policy), AggregatedFor(b, counted, ballot.policy))}
    BY <1>1 DEF TopAnswers
  <2> HIDE DEF top
  <2>2. QED
    BY <1>2, <1>4, <2>1 DEF Leads
<1>6. R # {} => top # {}
  <2>1. SUFFICES ASSUME R # {} PROVE top # {}
    OBVIOUS
  <2>2. PICK a \in R : Leads(F, R, a)
    BY <1>1, <1>3, <2>1, SomeoneLeads
  <2>3. QED
    BY <1>4, <1>5, <2>2
<1>7. top \in SUBSET (Nat \ {0}) /\ top \subseteq R
  <2>1. Candidates \subseteq Nat \ {0}
    BY AggregationAssumption
  <2>2. top \subseteq R
    BY <1>4, <1>5
  <2>3. QED
    BY <1>1, <2>1, <2>2
<1>8. /\ elected.winner = IF top = {} THEN NoOne ELSE Min(top)
      /\ elected.tied = top \ {elected.winner}
  BY DEF Winner
<1> HIDE DEF top, elected, counted
<1>9. CASE top = {}
  <2>1. R = {} /\ elected.winner = NoOne
    BY <1>6, <1>8, <1>9
  <2>2. QED
    BY <1>4, <2>1 DEF R, elected, counted
<1>10. CASE top # {}
  <2>1. \E a \in top : \A b \in top : a <= b
    BY <1>7, <1>10, LeastNatural
  <2>2. Min(top) \in top /\ \A b \in top : Min(top) <= b
    BY <2>1 DEF Min
  <2>3. elected.winner = Min(top)
    BY <1>8, <1>10
  <2>4. elected.winner # NoOne /\ R # {}
    BY <1>7, <2>2, <2>3 DEF NoOne
  <2>5. /\ elected.winner \in BestOnes /\ \A a \in BestOnes : elected.winner <= a
        /\ elected.tied = BestOnes \ {elected.winner}
    BY <1>5, <1>8, <2>2, <2>3
  <2>6. BestOnes \subseteq R
    BY <1>5, <1>7
  <2>7. QED
    BY <2>4, <2>5, <2>6 DEF R, elected, counted
<1>11. QED
  BY <1>9, <1>10

\* The lead as a table for the number of scores seen.
LeadStep(t, list, n) ==
    IF n = 0 THEN [value |-> 0, answer |-> NoOne]
    ELSE IF TakesLead(list[n], t[n - 1])
    THEN [value |-> list[n].value, answer |-> list[n].answer]
    ELSE t[n - 1]
LeadTable(t, list) == t = [n \in 0..Len(list) |-> LeadStep(t, list, n)]
LeadUpTo(t, list, m) ==
    /\ t = [n \in 0..Len(list) |-> t[n]]
    /\ \A n \in 0..Len(list) : n <= m => t[n] = LeadStep(t, list, n)

\* Leading is such a table.
LEMMA LeadingFollows ==
    ASSUME NEW list, Len(list) \in Nat
    PROVE  \A n \in 0..Len(list) : Leading(list)[n] = LeadStep(Leading(list), list, n)
<1> DEFINE N == Len(list)
           T == {m \in Nat : \E t : LeadUpTo(t, list, m)}
<1>1. 0 \in T
  <2> DEFINE t == [n \in 0..N |-> [value |-> 0, answer |-> NoOne]]
  <2>1. \A n \in 0..N : n <= 0 => n = 0
    OBVIOUS
  <2>2. LeadUpTo(t, list, 0)
    BY <2>1 DEF LeadUpTo, LeadStep
  <2>3. QED
    BY <2>2
<1>2. ASSUME NEW m \in Nat, m \in T
      PROVE  m + 1 \in T
  <2>1. PICK t : LeadUpTo(t, list, m)
    BY <1>2
  <2> DEFINE u == [n \in 0..N |-> IF n <= m THEN t[n] ELSE LeadStep(t, list, n)]
  <2>2. ASSUME NEW n \in 0..N, n <= m + 1
        PROVE  u[n] = LeadStep(u, list, n)
    <3>1. u[n] = LeadStep(t, list, n)
      BY <2>1 DEF LeadUpTo
    <3>2. n # 0 => n - 1 \in 0..N /\ n - 1 <= m
      BY <2>2
    <3>3. n # 0 => u[n - 1] = t[n - 1]
      BY <3>2
    <3> HIDE DEF u
    <3>4. QED
      BY <3>1, <3>3 DEF LeadStep
  <2>3. LeadUpTo(u, list, m + 1)
    BY <2>2 DEF LeadUpTo
  <2>4. QED
    BY <2>3
<1>3. N \in T
  <2> HIDE DEF T
  <2>1. Nat \subseteq T
    BY <1>1, <1>2, Reaches
  <2>2. QED
    BY <2>1
<1>4. PICK t : LeadUpTo(t, list, N)
  BY <1>3
<1>5. LeadTable(t, list)
  <2>1. t = [n \in 0..N |-> t[n]] /\ \A n \in 0..N : t[n] = LeadStep(t, list, n)
    BY <1>4 DEF LeadUpTo
  <2> DEFINE u == [n \in 0..N |-> LeadStep(t, list, n)]
  <2>2. [n \in 0..N |-> t[n]] = u
    BY <2>1
  <2> HIDE DEF u
  <2>3. t = u
    BY <2>1, <2>2
  <2>4. QED
    BY <2>3 DEF u, LeadTable
<1> DEFINE c == CHOOSE u : LeadTable(u, list)
<1>6. LeadTable(c, list)
  BY <1>5
<1> HIDE DEF c
<1>7. Leading(list) = c
  BY DEF Leading, LeadTable, LeadStep, c
<1>8. \A n \in 0..N : c[n] = LeadStep(c, list, n)
  BY <1>6 DEF LeadTable
<1>9. QED
  BY <1>7, <1>8

\* Who is ahead after n scores: nobody, or the one with the greatest value, and
\* among those the least number.
Ahead(best, list, n) ==
    \/ /\ best = [value |-> 0, answer |-> NoOne]
       /\ \A j \in 1..n : list[j].value <= 0
    \/ \E j \in 1..n :
          /\ best = [value |-> list[j].value, answer |-> list[j].answer]
          /\ list[j].value > 0
          /\ \A i \in 1..n : \/ list[i].value < list[j].value
                             \/ list[i].value = list[j].value /\ list[j].answer <= list[i].answer

\* The lead is with the one that is ahead.
LEMMA LeaderIsAhead ==
    ASSUME NEW list, NEW N \in Nat, Len(list) = N,
           \A i \in 1..N : list[i].value \in Int /\ list[i].answer \in Nat \ {0}
    PROVE  Ahead(Leading(list)[N], list, N)
<1> DEFINE best == Leading(list)
           T == {n \in Nat : n <= N => Ahead(best[n], list, n)}
<1>1. \A n \in 0..N : best[n] = LeadStep(best, list, n)
  BY LeadingFollows
<1> HIDE DEF best
<1>2. 0 \in T
  <2>1. best[0] = [value |-> 0, answer |-> NoOne]
    <3>1. 0 \in 0..N
      OBVIOUS
    <3>2. best[0] = LeadStep(best, list, 0)
      BY <1>1, <3>1
    <3>3. QED
      BY <3>2 DEF LeadStep
  <2>2. Ahead(best[0], list, 0)
    BY <2>1 DEF Ahead
  <2>3. QED
    BY <2>2
<1>3. ASSUME NEW n \in Nat, n \in T
      PROVE  n + 1 \in T
  <2>1. SUFFICES ASSUME n + 1 <= N PROVE Ahead(best[n + 1], list, n + 1)
    OBVIOUS
  <2>2. Ahead(best[n], list, n) /\ n + 1 \in 1..N
    BY <1>3, <2>1
  <2> DEFINE sc == list[n + 1]
  <2>3. best[n + 1] = IF TakesLead(sc, best[n]) THEN [value |-> sc.value, answer |-> sc.answer] ELSE best[n]
    <3>1. n + 1 \in 0..N /\ n + 1 # 0 /\ n + 1 - 1 = n
      BY <2>1
    <3>2. QED
      BY <1>1, <3>1 DEF LeadStep
  <2>4. sc.value \in Int /\ sc.answer \in Nat \ {0}
    BY <2>2
  <2>5. \A i \in 1..n + 1 : i = n + 1 \/ i \in 1..n
    OBVIOUS
  <2>6. \A i \in 1..n : list[i].value \in Int /\ list[i].answer \in Nat \ {0} /\ i \in 1..n + 1
    BY <2>1
  <2>7. n + 1 \in 1..n + 1
    OBVIOUS
  <2>8. CASE best[n] = [value |-> 0, answer |-> NoOne] /\ \A j \in 1..n : list[j].value <= 0
    <3>1. TakesLead(sc, best[n]) <=> sc.value > 0
      BY <2>8 DEF TakesLead
    <3>2. CASE sc.value > 0
      <4>1. best[n + 1] = [value |-> sc.value, answer |-> sc.answer]
        BY <2>3, <3>1, <3>2
      <4>2. \A i \in 1..n + 1 : \/ list[i].value < sc.value
                                \/ list[i].value = sc.value /\ sc.answer <= list[i].answer
        <5>1. SUFFICES ASSUME NEW i \in 1..n + 1
                       PROVE  \/ list[i].value < sc.value
                              \/ list[i].value = sc.value /\ sc.answer <= list[i].answer
          OBVIOUS
        <5>2. CASE i = n + 1
          BY <2>4, <5>2
        <5>3. CASE i \in 1..n
          <6>1. list[i].value \in Int /\ list[i].value <= 0
            BY <2>6, <2>8, <5>3
          <6>2. QED
            BY <2>4, <3>2, <6>1
        <5>4. QED
          BY <2>5, <5>2, <5>3
      <4>3. QED
        BY <2>7, <3>2, <4>1, <4>2 DEF Ahead
    <3>3. CASE ~(sc.value > 0)
      <4>1. best[n + 1] = [value |-> 0, answer |-> NoOne]
        BY <2>3, <2>8, <3>1, <3>3
      <4>2. \A j \in 1..n + 1 : list[j].value <= 0
        BY <2>4, <2>5, <2>8, <3>3
      <4>3. QED
        BY <4>1, <4>2 DEF Ahead
    <3>4. QED
      BY <3>2, <3>3
  <2>9. CASE \E j \in 1..n :
                /\ best[n] = [value |-> list[j].value, answer |-> list[j].answer]
                /\ list[j].value > 0
                /\ \A i \in 1..n : \/ list[i].value < list[j].value
                                   \/ list[i].value = list[j].value /\ list[j].answer <= list[i].answer
    <3>1. PICK j \in 1..n :
             /\ best[n] = [value |-> list[j].value, answer |-> list[j].answer]
             /\ list[j].value > 0
             /\ \A i \in 1..n : \/ \/ list[i].value < list[j].value
                                \/ list[i].value = list[j].value /\ list[j].answer <= list[i].answer
      BY <2>9
    <3>2. list[j].value \in Int /\ list[j].answer \in Nat \ {0} /\ j \in 1..n + 1
      BY <2>6
    <3>3. TakesLead(sc, best[n]) <=> \/ sc.value > list[j].value
                                     \/ sc.value = list[j].value /\ sc.answer < list[j].answer
      BY <3>1, <3>2 DEF TakesLead, NoOne
    <3>4. CASE TakesLead(sc, best[n])
      <4>1. best[n + 1] = [value |-> sc.value, answer |-> sc.answer]
        BY <2>3, <3>4
      <4>2. \A i \in 1..n + 1 : \/ list[i].value < sc.value
                                \/ list[i].value = sc.value /\ sc.answer <= list[i].answer
        <5>1. SUFFICES ASSUME NEW i \in 1..n + 1
                       PROVE  \/ list[i].value < sc.value
                              \/ list[i].value = sc.value /\ sc.answer <= list[i].answer
          OBVIOUS
        <5>2. CASE i = n + 1
          BY <2>4, <3>2, <3>3, <3>4, <5>2
        <5>3. CASE i \in 1..n
          <6>1. list[i].value \in Int /\ list[i].answer \in Nat
            BY <2>6, <5>3
          <6>2. \/ list[i].value < list[j].value
                \/ list[i].value = list[j].value /\ list[j].answer <= list[i].answer
            BY <3>1, <5>3
          <6>3. \/ sc.value > list[j].value
                \/ sc.value = list[j].value /\ sc.answer < list[j].answer
            BY <3>3, <3>4
          <6>4. QED
            BY <2>4, <3>2, <6>1, <6>2, <6>3
        <5>4. QED
          BY <2>5, <5>2, <5>3
      <4>3. sc.value > 0
        BY <2>4, <3>1, <3>2, <3>3, <3>4
      <4>4. QED
        BY <2>7, <4>1, <4>2, <4>3 DEF Ahead
    <3>5. CASE ~TakesLead(sc, best[n])
      <4>1. best[n + 1] = [value |-> list[j].value, answer |-> list[j].answer]
        BY <2>3, <3>1, <3>5
      <4>2. \A i \in 1..n + 1 : \/ list[i].value < list[j].value
                                \/ list[i].value = list[j].value /\ list[j].answer <= list[i].answer
        <5>1. SUFFICES ASSUME NEW i \in 1..n + 1
                       PROVE  \/ list[i].value < list[j].value
                              \/ list[i].value = list[j].value /\ list[j].answer <= list[i].answer
          OBVIOUS
        <5>2. CASE i = n + 1
          <6>1. ~(sc.value > list[j].value) /\ (sc.value = list[j].value => ~(sc.answer < list[j].answer))
            BY <3>3, <3>5
          <6>2. QED
            BY <2>4, <3>2, <5>2, <6>1
        <5>3. CASE i \in 1..n
          <6>1. list[i].value \in Int /\ list[i].answer \in Nat
            BY <2>6, <5>3
          <6>2. \/ list[i].value < list[j].value
                \/ list[i].value = list[j].value /\ list[j].answer <= list[i].answer
            BY <3>1, <5>3
          <6>3. QED
            BY <2>4, <3>2, <3>3, <3>5, <6>1, <6>2
        <5>4. QED
          BY <2>5, <5>2, <5>3
      <4>3. QED
        BY <3>1, <3>2, <4>1, <4>2 DEF Ahead
    <3>6. QED
      BY <3>4, <3>5
  <2>10. QED
    BY <2>2, <2>8, <2>9 DEF Ahead
<1>4. N \in T
  <2> HIDE DEF T
  <2>1. Nat \subseteq T
    BY <1>2, <1>3, Reaches
  <2>2. QED
    BY <2>1
<1>5. QED
  BY <1>4 DEF best

\* The statistic of a single score is its value.
LEMMA StatisticOfOne ==
    ASSUME ballot \in Ballots, NEW a, Cardinality(Counting({a})) = 1, NEW x \in Counting({a})
    PROVE  /\ Statistic(Counting({a})) = Whole(ballot.scores[x].value)
           /\ SumAt(Counting({a})) = ballot.scores[x].value /\ ballot.scores[x].value \in Int
<1> DEFINE S == Counting({a})
           f == Values(ballot.scores)
<1>1. Numbers(f, S)
  BY AggregatedIsStatistic
<1>2. /\ IsScoreList(ballot.scores)
      /\ ballot.policy \in [method: {"mean", "median", "trimmed_mean"}, trim: 0..5]
  BY BallotTyped
<1>3. f[x] = ballot.scores[x].value
  BY DEF Counting, Values
<1> HIDE DEF S, f
<1>4. S = {x} /\ f[x] \in Int
  <2>1. IsFiniteSet(S) /\ x \in S /\ f[x] \in Int
    BY <1>1 DEF Numbers, S
  <2>2. PICK y : S = {y}
    BY <2>1, FS_Singleton DEF S
  <2>3. QED
    BY <2>1, <2>2
<1>5. SumFunctionOnSet(f, S) = f[x]
  BY <1>4, SumOfOne
<1>6. Cardinality(S) = 1
  BY DEF S
<1>7. LeftOut(Cardinality(S)) = 0
  <2>1. PICK n : n = Cardinality(S)
    OBVIOUS
  <2>2. n \in Nat /\ n # 0 /\ n = 1
    BY <1>6, <2>1
  <2>3. LeftOut(n) \in Nat /\ 2 * LeftOut(n) < n
    BY <1>2, <2>2, PolicyLeavesOut
  <2>4. LeftOut(n) = 0
    BY <2>2, <2>3
  <2>5. QED
    BY <2>1, <2>4
<1>8. Statistic(S) = Between(f, S, 0)
  BY <1>7, StatisticIsBetween DEF f
<1>9. Between(f, S, 0) = <<f[x], 1>>
  BY <1>1, <1>5, <1>6, AllIsBetween
<1>10. SumAt(S) = f[x]
  BY <1>5 DEF SumAt, f
<1>11. QED
  BY <1>3, <1>4, <1>8, <1>9, <1>10 DEF Whole, S

\* Each running candidate has a single score.
Single == \A a \in RunningIn(Candidates) : Cardinality(Counting({a})) = 1

\* Where they are, and who is ahead of them.
LEMMA WinnerIsAhead ==
    ASSUME ballot \in Ballots, Single,
           \E a \in RunningIn(Candidates) : SumAt(Counting({a})) > 0
    PROVE  LET list == ballot.scores
               R == RunningIn(Candidates)
               w == DetermineWinner(list)
           IN  /\ w \in R
               /\ \E x \in Counting({w}) : \A a \in R : \A y \in Counting({a}) :
                     list[y].value < list[x].value \/ (list[y].value = list[x].value /\ w <= a)
<1> DEFINE list == ballot.scores
           R == RunningIn(Candidates)
           P == ValidAt(list)
           C == {i \in P : list[i].answer \in Candidates}
           N == Cardinality(C)
           r == InOrder(C)
           counts == ScoresAt(list, C)
<1>1. IsScoreList(list) /\ Candidates \subseteq Nat \ {0}
  BY BallotTyped, AggregationAssumption
<1>2. /\ P \in SUBSET Int /\ IsFiniteSet(P) /\ \A x \in P : list[x].value \in Int
  <2>1. /\ P \in SUBSET Int /\ IsFiniteSet(P)
        /\ \A x \in P : Values(list)[x] = list[x].value /\ Values(list)[x] \in Int
    BY <1>1, CountedScores
  <2> HIDE DEF P
  <2>2. QED
    BY <2>1
<1>3. /\ \A a \in R : \A y \in Counting({a}) : y \in C /\ list[y].answer = a
      /\ \A x \in C : list[x].answer \in R /\ x \in Counting({list[x].answer})
  BY DEF Counting, ValidAt, RunningIn
<1> HIDE DEF R, P
<1>4. /\ C \in SUBSET Int /\ IsFiniteSet(C)
      /\ \A x \in C : list[x].value \in Int /\ list[x].answer \in Candidates
  <2>1. IsFiniteSet(C)
    BY <1>2, FS_Subset
  <2>2. QED
    BY <1>2, <2>1
<1> HIDE DEF C
<1>5. Runs(r, C) /\ N \in Nat
  BY <1>4, InOrderRuns
<1>6. r \in [1..N -> C] /\ \A x \in C : \E k \in 1..N : r[k] = x
  BY <1>5 DEF Runs
<1>7. counts = [k \in 1..N |-> list[r[k]]]
  BY <1>6 DEF ScoresAt, Elements
<1>8. Len(counts) = N
  <2>1. PICK V : V = {list[x] : x \in C}
    OBVIOUS
  <2> HIDE DEF N, r, counts
  <2>2. counts \in [1..N -> V]
    BY <1>6, <1>7, <2>1
  <2>3. QED
    BY <1>5, <2>2, LengthOf
<1>9. DetermineWinner(list) = Leading(counts)[N].answer
  BY <1>8 DEF DetermineWinner, C, P
<1> HIDE DEF N, r, counts
<1>10. \A k \in 1..N : /\ counts[k] = list[r[k]] /\ r[k] \in C
                       /\ counts[k].value \in Int /\ counts[k].answer \in Nat \ {0}
  BY <1>1, <1>4, <1>6, <1>7
<1>11. Ahead(Leading(counts)[N], counts, N)
  BY <1>5, <1>8, <1>10, LeaderIsAhead
<1>12. PICK k \in 1..N : counts[k].value > 0
  <2>1. PICK a \in R : SumAt(Counting({a})) > 0
    BY DEF R
  <2>2. PICK x \in Counting({a}) : TRUE
    BY <2>1 DEF R, RunningIn
  <2>3. Cardinality(Counting({a})) = 1
    BY <2>1 DEF Single, R
  <2>4. list[x].value = SumAt(Counting({a}))
    BY <2>2, <2>3, StatisticOfOne
  <2>5. x \in C
    BY <1>3
  <2>6. PICK k \in 1..N : r[k] = x
    BY <1>6, <2>5
  <2>7. counts[k].value > 0
    BY <1>10, <2>1, <2>4, <2>6
  <2>8. QED
    BY <2>7
<1>13. PICK j \in 1..N :
          /\ Leading(counts)[N] = [value |-> counts[j].value, answer |-> counts[j].answer]
          /\ \A i \in 1..N : \/ counts[i].value < counts[j].value
                             \/ counts[i].value = counts[j].value /\ counts[j].answer <= counts[i].answer
  <2>1. ~(\A i \in 1..N : counts[i].value <= 0)
    BY <1>10, <1>12
  <2>2. QED
    BY <1>11, <2>1 DEF Ahead
<1> DEFINE w == DetermineWinner(list)
<1>14. w = counts[j].answer /\ counts[j] = list[r[j]] /\ r[j] \in C
  BY <1>9, <1>10, <1>13
<1> HIDE DEF w
<1>15. w \in R /\ r[j] \in Counting({w})
  BY <1>3, <1>14
<1>16. ASSUME NEW a \in R, NEW y \in Counting({a})
       PROVE  list[y].value < list[r[j]].value \/ (list[y].value = list[r[j]].value /\ w <= a)
  <2>1. y \in C /\ list[y].answer = a
    BY <1>3
  <2>2. PICK i \in 1..N : r[i] = y
    BY <1>6, <2>1
  <2>3. counts[i] = list[y]
    BY <1>10, <2>2
  <2>4. \/ counts[i].value < counts[j].value
        \/ counts[i].value = counts[j].value /\ counts[j].answer <= counts[i].answer
    BY <1>13
  <2>5. QED
    BY <1>14, <2>1, <2>3, <2>4
<1>17. QED
  BY <1>15, <1>16 DEF w, R

\* The two elections agree.
LEMMA ElectionsAgree ==
    ASSUME ballot \in Ballots, Single,
           \E a \in RunningIn(Candidates) : SumAt(Counting({a})) > 0,
           NEW v \in BestOnes, \A a \in BestOnes : v <= a
    PROVE  v = DetermineWinner(ballot.scores)
<1> DEFINE list == ballot.scores
           R == RunningIn(Candidates)
           F == Standings
           w == DetermineWinner(list)
<1>1. w \in R
  BY WinnerIsAhead
<1>2. PICK x \in Counting({w}) : \A a \in R : \A y \in Counting({a}) :
         list[y].value < list[x].value \/ (list[y].value = list[x].value /\ w <= a)
  BY WinnerIsAhead
<1> HIDE DEF w
<1>3. ASSUME NEW a \in R, NEW y \in Counting({a})
      PROVE  F[a] = Whole(list[y].value) /\ list[y].value \in Int
  <2>1. Cardinality(Counting({a})) = 1
    BY DEF Single
  <2>2. Statistic(Counting({a})) = Whole(list[y].value) /\ list[y].value \in Int
    BY <2>1, StatisticOfOne
  <2>3. F[a] = Statistic(Counting({a}))
    BY DEF Standings
  <2>4. QED
    BY <2>2, <2>3
<1>4. \A a \in R : Counting({a}) # {}
  BY DEF RunningIn
<1>5. BestOnes = {a \in R : Leads(F, R, a)} /\ R \subseteq Candidates /\ Candidates \subseteq Nat \ {0}
  BY AggregationAssumption DEF BestOnes, RunningIn
<1> HIDE DEF R, F, list
<1>6. \A i, j \in Int : Less(Whole(i), Whole(j)) <=> i < j
  BY DEF Less, Whole
<1>7. F[w] = Whole(list[x].value) /\ list[x].value \in Int
  BY <1>1, <1>2, <1>3
<1>8. w \in BestOnes
  <2>1. ASSUME NEW a \in R PROVE ~Less(F[w], F[a])
    <3>1. PICK y \in Counting({a}) : TRUE
      BY <1>4
    <3>2. F[a] = Whole(list[y].value) /\ list[y].value \in Int
      BY <1>3
    <3>3. list[y].value <= list[x].value
      BY <1>2, <1>7, <3>2
    <3>4. ~(list[x].value < list[y].value)
      BY <1>7, <3>2, <3>3
    <3>5. QED
      BY <1>6, <1>7, <3>2, <3>4
  <2>2. QED
    BY <1>1, <1>5, <2>1 DEF Leads
<1>9. v <= w
  BY <1>8
<1>10. w <= v
  <2>1. v \in R /\ ~Less(F[v], F[w])
    BY <1>1, <1>5 DEF Leads
  <2>2. PICK y \in Counting({v}) : TRUE
    BY <1>4, <2>1
  <2>3. F[v] = Whole(list[y].value) /\ list[y].value \in Int
    BY <1>3, <2>1
  <2>4. ~(list[y].value < list[x].value)
    BY <1>6, <1>7, <2>1, <2>3
  <2>5. QED
    BY <1>2, <2>1, <2>4
<1>11. v \in Nat /\ w \in Nat
  BY <1>5, <1>8
<1>12. v = w
  BY <1>9, <1>10, <1>11
<1>13. QED
  BY <1>12 DEF w, list

\* The verdict on an acceptable ballot names the best.
LEMMA OutputIsBest ==
    ASSUME VerdictInv
    PROVE  VerdictIsBest
<1> DEFINE R == RunningIn(Candidates)
           best == {a \in R : \A b \in R :
                       ~Less(Statistic(Counting({a})), Statistic(Counting({b})))}
<1>1. SUFFICES ASSUME verdict # <<>>
               PROVE  /\ verdict.winner = NoOne <=> R = {}
                      /\ R # {} =>
                            /\ {verdict.winner} \cup verdict.tied = best
                            /\ \A a \in verdict.tied : verdict.winner < a
                      /\ /\ \A a \in R : Cardinality(Counting({a})) = 1
                         /\ \E a \in R : SumAt(Counting({a})) > 0
                         => verdict.winner = DetermineWinner(ballot.scores)
  BY DEF VerdictIsBest, RunningIn
<1>2. ballot \in Ballots /\ verdict = Output(ballot)
  BY <1>1 DEF VerdictInv
<1> DEFINE elected == Winner(ValidScores(ballot.scores), ballot.policy)
<1>3. verdict.winner = elected.winner /\ verdict.tied = elected.tied
  BY <1>2 DEF Output
<1>4. /\ BestOnes \subseteq R
      /\ elected.winner = NoOne <=> R = {}
      /\ R # {} => /\ elected.winner \in BestOnes /\ \A a \in BestOnes : elected.winner <= a
                   /\ elected.tied = BestOnes \ {elected.winner}
  BY <1>2, FirstIsBest
<1>5. BestOnes = best
  <2>1. \A a \in R : Standings[a] = Statistic(Counting({a}))
    BY DEF Standings
  <2> HIDE DEF R
  <2>2. QED
    BY <2>1 DEF BestOnes, Leads, R
<1>6. R \subseteq Nat \ {0}
  BY AggregationAssumption DEF RunningIn
<1> HIDE DEF R, best, elected
<1>7. R # {} => /\ {verdict.winner} \cup verdict.tied = best
                /\ \A a \in verdict.tied : verdict.winner < a
  <2>1. SUFFICES ASSUME R # {}
                 PROVE  /\ {verdict.winner} \cup verdict.tied = best
                        /\ \A a \in verdict.tied : verdict.winner < a
    OBVIOUS
  <2>2. /\ verdict.winner \in best /\ \A a \in best : verdict.winner <= a
        /\ verdict.tied = best \ {verdict.winner}
    BY <1>3, <1>4, <1>5, <2>1
  <2>3. \A a \in best : a \in Nat
    BY <1>4, <1>5, <1>6
  <2>4. QED
    BY <2>2, <2>3
<1>8. /\ \A a \in R : Cardinality(Counting({a})) = 1
      /\ \E a \in R : SumAt(Counting({a})) > 0
      => verdict.winner = DetermineWinner(ballot.scores)
  <2>1. SUFFICES ASSUME \A a \in R : Cardinality(Counting({a})) = 1,
                        \E a \in R : SumAt(Counting({a})) > 0
                 PROVE  verdict.winner = DetermineWinner(ballot.scores)
    OBVIOUS
  <2>2. Single
    BY <2>1 DEF Single, R
  <2>3. R # {}
    BY <2>1
  <2>4. verdict.winner \in BestOnes /\ \A a \in BestOnes : verdict.winner <= a
    BY <1>3, <1>4, <2>3
  <2>5. \E a \in RunningIn(Candidates) : SumAt(Counting({a})) > 0
    BY <2>1 DEF R
  <2>6. QED
    BY <1>2, <2>2, <2>4, <2>5, ElectionsAgree
<1>9. verdict.winner = NoOne <=> R = {}
  BY <1>3, <1>4
<1>10. QED
  BY <1>7, <1>8, <1>9

\* The winner of every verdict is a candidate whose statistic none is better than,
\* the ties are the others with the same, and the older election agrees with it,
\* whatever the scores, the policy and the candidates.
THEOREM VerdictIsRight == AggregationSpec => []VerdictIsBest
  BY VerdictInit, VerdictStep, OutputIsBest, PTL DEF AggregationSpec

(* ------------------------- the tasks of one worker ---------------------- *)

\* The task's own invariant; what the others would change is as it was at first.
EveryTaskInv ==
    /\ TaskInv
    /\ IF task = "aggregate" THEN VerdictInv ELSE verdict = <<>>
    /\ IF task = "call" THEN PaidInv /\ CountInv ELSE CallInit({"missing"})
    /\ task # "generate" => GenerationInit
    /\ task # "score" => ScoringInit

\* A price that is missing is one of the two there can be.
LEMMA NoPriceYet == CallInit({"missing"}) => CallInit({"valid", "missing"})
  BY DEF CallInit

\* At first nothing has been done.
LEMMA EveryTaskInit == Init => EveryTaskInv
<1> SUFFICES ASSUME Init PROVE EveryTaskInv
  OBVIOUS
<1>1. TaskInv
  BY TaskInit
<1>2. task = "aggregate" => VerdictInv
  BY VerdictInit DEF Init
<1>3. verdict = <<>>
  BY DEF Init, AggregationInit
<1>4. task = "call" => PaidInv /\ CountInv
  BY PaidInit, CountInit DEF Init
<1>5. task # "call" => CallInit({"missing"})
  BY DEF Init
<1>6. QED
  BY <1>1, <1>2, <1>3, <1>4, <1>5 DEF Init, EveryTaskInv

\* What stands still stays as it was at first.
LEMMA StandingStill ==
    /\ UNCHANGED generationVars /\ GenerationInit => GenerationInit'
    /\ UNCHANGED scoringVars /\ ScoringInit => ScoringInit'
    /\ UNCHANGED aggregationVars => verdict' = verdict
    /\ UNCHANGED callVars /\ CallInit({"missing"}) => CallInit({"missing"})'
<1>1. UNCHANGED generationVars /\ GenerationInit => GenerationInit'
  BY DEF generationVars, GenerationInit
<1>2. UNCHANGED scoringVars /\ ScoringInit => ScoringInit'
  BY DEF scoringVars, ScoringInit
<1>3. UNCHANGED aggregationVars => verdict' = verdict
  BY DEF aggregationVars
<1>4. UNCHANGED callVars /\ CallInit({"missing"}) => CallInit({"missing"})'
  BY DEF callVars, CallInit
<1>5. QED
  BY <1>1, <1>2, <1>3, <1>4

\* Every step, of whatever task, keeps the invariants of all.
LEMMA EveryTaskStep ==
    ASSUME EveryTaskInv, [Next]_activityVars
    PROVE  EveryTaskInv'
<1>1. TaskInv'
  BY TaskStep DEF EveryTaskInv
<1>2. CASE UNCHANGED activityVars
  <2>1. /\ UNCHANGED task /\ UNCHANGED generationVars /\ UNCHANGED scoringVars
        /\ UNCHANGED aggregationVars /\ UNCHANGED callVars
        /\ UNCHANGED <<sinkVars, aggregationVars>>
    BY <1>2 DEF activityVars
  <2>2. QED
    BY <1>1, <2>1, StandingStill, VerdictStep, PaidStep, CountStep DEF EveryTaskInv
<1>3. CASE Only("generate", GenerationNext) /\ NoScoring /\ NoAggregation /\ NoCall
  BY <1>1, <1>3, StandingStill DEF Only, NoScoring, NoAggregation, NoCall, EveryTaskInv
<1>4. CASE Only("score", ScoringNext) /\ NoGeneration /\ NoAggregation /\ NoCall
  BY <1>1, <1>4, StandingStill DEF Only, NoGeneration, NoAggregation, NoCall, EveryTaskInv
<1>5. CASE Only("aggregate", AggregationNext) /\ NoGeneration /\ NoScoring /\ NoCall
  BY <1>1, <1>5, StandingStill, VerdictStep
  DEF Only, NoGeneration, NoScoring, NoCall, EveryTaskInv
<1>6. CASE Only("call", CallNext) /\ NoGeneration /\ NoScoring /\ NoAggregation
  BY <1>1, <1>6, StandingStill, PaidStep, CountStep
  DEF Only, NoGeneration, NoScoring, NoAggregation, EveryTaskInv
<1>7. QED
  BY <1>2, <1>3, <1>4, <1>5, <1>6 DEF Next

\* A worker's tasks keep what each of them promises: stored answers and undone
\* failures, true scores and events, right verdicts, calls that pay once and true
\* statistics, whatever else it has registered.
THEOREM TasksKeepPromises ==
    Spec => []( /\ ResultsStored /\ UndoneOnFailure
                /\ EventsTrue /\ ScoresTrue
                /\ AggregateRight /\ VerdictIsBest
                /\ PaidOnce /\ StatsTrue )
<1>1. ASSUME EveryTaskInv
      PROVE  ResultsStored /\ UndoneOnFailure
  <2>1. CASE task = "generate"
    BY <1>1, <2>1, ResultImplies, UndoImplies DEF EveryTaskInv, TaskInv, ResultInv
  <2>2. CASE task # "generate"
    BY <1>1, <2>2 DEF EveryTaskInv, GenerationInit, ResultsStored, UndoneOnFailure
  <2>3. QED
    BY <2>1, <2>2
<1>2. ASSUME EveryTaskInv
      PROVE  EventsTrue /\ ScoresTrue
  <2>1. CASE task = "score"
    BY <1>2, <2>1, EventsRight, ScoresImply DEF EveryTaskInv, TaskInv
  <2>2. CASE task # "score"
    BY <1>2, <2>2, EventsRight DEF EveryTaskInv, ScoringInit, ScoresTrue
  <2>3. QED
    BY <2>1, <2>2
<1>3. ASSUME EveryTaskInv
      PROVE  AggregateRight /\ VerdictIsBest
  <2>1. CASE task = "aggregate"
    BY <1>3, <2>1, OutputIsRight, OutputIsBest DEF EveryTaskInv
  <2>2. CASE task # "aggregate"
    BY <1>3, <2>2 DEF EveryTaskInv, AggregateRight, VerdictIsBest
  <2>3. QED
    BY <2>1, <2>2
<1>4. ASSUME EveryTaskInv
      PROVE  PaidOnce /\ StatsTrue
  <2>1. PaidInv /\ CountInv
    BY <1>4, NoPriceYet, PaidInit, CountInit DEF EveryTaskInv
  <2>2. QED
    BY <2>1, PaidImplies, CountImplies
<1>5. QED
  BY EveryTaskInit, EveryTaskStep, <1>1, <1>2, <1>3, <1>4, PTL DEF Spec

\* The report of a scoring task is left alone by whatever the worker does.
THEOREM ReportStaysFrozen == Spec => OutputFrozen
<1>1. EveryTaskInv /\ [Next]_activityVars => [report # <<>> => report.scores = scores']_<<report, scores>>
  <2>1. SUFFICES ASSUME EveryTaskInv, [Next]_activityVars, report # <<>>, ~UNCHANGED <<report, scores>>
                 PROVE  report.scores = scores'
    OBVIOUS
  <2>2. task = "score" /\ ReportInv
    BY <2>1 DEF EveryTaskInv, ScoringInit, TaskInv, ScoresInv
  <2>3. ScoringNext
    BY <2>1, <2>2 DEF Next, Only, activityVars, scoringVars
  <2>4. QED
    BY <2>1, <2>2, <2>3, ReportStep
<1>2. QED
  BY EveryTaskInit, EveryTaskStep, <1>1, PTL DEF Spec, OutputFrozen
=============================================================================
