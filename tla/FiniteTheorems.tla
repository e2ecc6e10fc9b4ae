-------------------------- MODULE FiniteTheorems ---------------------------
(***************************************************************************)
(* Facts about finite sets that the proofs of several modules rest on: a   *)
(* greatest element, an enumeration in order, and what SumFunctionOnSet of *)
(* the community modules computes.  Induction over a finite set goes by a  *)
(* smallest counterexample (LeastNat, SubsetInduction), with sets in the   *)
(* place of predicates.                                                    *)
(***************************************************************************)
EXTENDS Integers, FiniteSets, Functions, FiniteSetTheorems, WellFoundedInduction, TLAPS

(* A set of natural numbers that is not empty has a least element.         *)
LEMMA LeastNat ==
  ASSUME NEW T \in SUBSET Nat, T # {}
  PROVE  \E m \in T : \A k \in T : m =< k
<1>1. IsWellFoundedOn(OpToRel(<, Nat), Nat)
  BY NatLessThanWellFounded
<1>2. PICK m \in T : \A y \in T : ~ (<<y, m>> \in OpToRel(<, Nat))
  BY <1>1, WFMin
<1>3. \A y \in T : ~ (y < m)
  BY <1>2 DEF OpToRel
<1> QED
  BY <1>3

LEMMA RestIsSmaller ==
  ASSUME NEW s, IsFiniteSet(s), s # {}, NEW x \in s
  PROVE  /\ IsFiniteSet(s \ {x})
         /\ Cardinality(s) \in Nat /\ Cardinality(s \ {x}) \in Nat
         /\ Cardinality(s \ {x}) = Cardinality(s) - 1
BY FS_RemoveElement, FS_CardinalityType

(* Induction over the subsets of a finite set: the sets of which a property *)
(* holds are collected in Good.                                             *)
LEMMA SubsetInduction ==
  ASSUME NEW S, IsFiniteSet(S), NEW Good,
         \A s \in SUBSET S : (\A x \in s : s \ {x} \in Good) => s \in Good
  PROVE  S \in Good
<1> DEFINE Bad == {s \in SUBSET S : s \notin Good}
<1> DEFINE Sizes == {Cardinality(s) : s \in Bad}
<1>1. ASSUME NEW s \in SUBSET S PROVE IsFiniteSet(s) /\ Cardinality(s) \in Nat
  BY FS_Subset, FS_CardinalityType
<1>2. SUFFICES ASSUME Bad # {} PROVE FALSE
  OBVIOUS
<1>3. PICK m \in Sizes : \A k \in Sizes : m =< k
  <2>1. Sizes \in SUBSET Nat /\ Sizes # {}
    BY <1>1, <1>2
  <2> QED
    BY <2>1, LeastNat
<1>4. PICK s \in Bad : m = Cardinality(s)
  BY <1>3
<1>5. ASSUME NEW x \in s PROVE s \ {x} \in Good
  <2>1. s \ {x} \in SUBSET S /\ Cardinality(s \ {x}) \in Nat /\ Cardinality(s \ {x}) < m
    BY <1>1, <1>4, RestIsSmaller
  <2> QED
    BY <1>1, <1>3, <2>1
<1> QED
  BY <1>4, <1>5

(* One element of a finite set that is not empty ranks highest.             *)
LEMMA HighestExists ==
  ASSUME NEW S, IsFiniteSet(S), S # {}, NEW rank, \A u \in S : rank[u] \in Int
  PROVE  \E m \in S : \A u \in S : rank[u] =< rank[m]
<1> DEFINE Good == {s \in SUBSET S : s # {} => \E m \in s : \A u \in s : rank[u] =< rank[m]}
<1>1. ASSUME NEW s \in SUBSET S, \A x \in s : s \ {x} \in Good PROVE s \in Good
  <2> SUFFICES ASSUME s # {} PROVE \E m \in s : \A u \in s : rank[u] =< rank[m]
    OBVIOUS
  <2>1. PICK x \in s : TRUE
    OBVIOUS
  <2>2. CASE s \ {x} = {}
    BY <2>2
  <2>3. CASE s \ {x} # {}
    <3>1. PICK m \in s \ {x} : \A u \in s \ {x} : rank[u] =< rank[m]
      BY <1>1, <2>3
    <3>2. rank[m] \in Int /\ rank[x] \in Int /\ \A u \in s : rank[u] \in Int
      OBVIOUS
    <3>3. CASE rank[x] =< rank[m]
      BY <3>1, <3>3
    <3>4. CASE rank[m] =< rank[x]
      <4>1. \A u \in s : rank[u] =< rank[x]
        BY <3>1, <3>2, <3>4
      <4> QED
        BY <4>1
    <3> QED
      BY <3>2, <3>3, <3>4
  <2> QED
    BY <2>2, <2>3
<1> HIDE DEF Good
<1>2. S \in Good
  BY <1>1, SubsetInduction
<1> QED
  BY <1>2 DEF Good

(* A finite set can be enumerated in the order of ranks that differ.        *)
InRankOrder(s, S, rank) ==
    /\ s \in [1..Cardinality(S) -> S]
    /\ \A u \in S : \E i \in DOMAIN s : s[i] = u
    /\ \A i, j \in DOMAIN s : i < j => rank[s[i]] < rank[s[j]]

LEMMA OrderExists ==
  ASSUME NEW S, IsFiniteSet(S), NEW rank, \A u \in S : rank[u] \in Int,
         \A u, v \in S : rank[u] = rank[v] => u = v
  PROVE  \E s : InRankOrder(s, S, rank)
<1> DEFINE Good == {T \in SUBSET S : \E s : InRankOrder(s, T, rank)}
<1>1. ASSUME NEW T \in SUBSET S, \A x \in T : T \ {x} \in Good PROVE T \in Good
  <2>1. CASE T = {}
    <3> DEFINE s == [i \in 1..0 |-> i]
    <3>1. Cardinality(T) = 0
      BY <2>1, FS_EmptySet
    <3>2. InRankOrder(s, T, rank)
      BY <2>1, <3>1 DEF InRankOrder
    <3> QED
      BY <3>2
  <2>2. CASE T # {}
    <3>1. IsFiniteSet(T)
      BY FS_Subset
    <3>2. PICK m \in T : \A u \in T : rank[u] =< rank[m]
      BY <2>2, <3>1, HighestExists
    <3>3. PICK s : InRankOrder(s, T \ {m}, rank)
      BY <1>1
    <3> DEFINE n == Cardinality(T)
    <3>4. n \in Nat /\ n > 0 /\ Cardinality(T \ {m}) = n - 1
      <4>1. n \in Nat /\ Cardinality(T \ {m}) \in Nat /\ Cardinality(T \ {m}) = n - 1
        BY <2>2, <3>1, RestIsSmaller
      <4> QED
        BY <4>1
    <3> DEFINE r == [i \in 1..n |-> IF i = n THEN m ELSE s[i]]
    <3> HIDE DEF n
    <3>5. s \in [1..(n - 1) -> T \ {m}]
      BY <3>3, <3>4 DEF InRankOrder
    <3>6. r \in [1..n -> T]
      BY <3>4, <3>5
    <3>7. ASSUME NEW u \in T PROVE \E i \in DOMAIN r : r[i] = u
      <4>1. CASE u = m
        BY <3>4, <4>1
      <4>2. CASE u # m
        <5>1. PICK i \in DOMAIN s : s[i] = u
          BY <3>3, <4>2 DEF InRankOrder
        <5>2. i \in 1..n /\ i # n
          BY <3>4, <3>5, <5>1
        <5> QED
          BY <5>1, <5>2
      <4> QED
        BY <4>1, <4>2
    <3>8. ASSUME NEW i \in DOMAIN r, NEW j \in DOMAIN r, i < j PROVE rank[r[i]] < rank[r[j]]
      <4>1. i \in 1..(n - 1) /\ r[i] = s[i] /\ r[i] \in T \ {m}
        BY <3>4, <3>5, <3>8
      <4>2. CASE j = n
        <5>1. r[j] = m /\ rank[r[i]] =< rank[m] /\ rank[r[i]] # rank[m]
          BY <3>2, <4>1, <4>2
        <5>2. rank[r[i]] \in Int /\ rank[m] \in Int
          BY <4>1
        <5> QED
          BY <5>1, <5>2
      <4>3. CASE j # n
        <5>1. j \in 1..(n - 1) /\ r[j] = s[j]
          BY <3>4, <4>3
        <5> QED
          BY <3>3, <3>5, <3>8, <4>1, <5>1 DEF InRankOrder
      <4> QED
        BY <4>2, <4>3
    <3> HIDE DEF r
    <3>9. InRankOrder(r, T, rank)
      BY <3>6, <3>7, <3>8 DEF InRankOrder, n
    <3> QED
      BY <3>9
  <2> QED
    BY <2>1, <2>2
<1> HIDE DEF Good
<1>2. S \in Good
  BY <1>1, SubsetInduction
<1> QED
  BY <1>2 DEF Good

-----------------------------------------------------------------------------
(* The recursion of the fold: one element is chosen, the rest is summed.    *)
Picked(s) == CHOOSE x \in s : TRUE
SumStep(f, g, s) == IF s = {} THEN 0 ELSE f[Picked(s)] + g[s \ {Picked(s)}]
SumTable(f, S) == CHOOSE g : g = [s \in SUBSET S |-> SumStep(f, g, s)]

LEMMA SumIsTable ==
  ASSUME NEW f, NEW S
  PROVE  SumFunctionOnSet(f, S) = SumTable(f, S)[S]
BY DEF SumFunctionOnSet, FoldFunctionOnSet, MapThenFoldSet, SumTable, SumStep, Picked

LEMMA PickedIn ==
  ASSUME NEW s, s # {}
  PROVE  Picked(s) \in s
BY DEF Picked

(* The recursion has a solution: level by level, for larger and larger      *)
(* subsets.                                                                 *)
LEMMA TableExists ==
  ASSUME NEW f, NEW S, IsFiniteSet(S)
  PROVE  \E g : g = [s \in SUBSET S |-> SumStep(f, g, s)]
<1> DEFINE Solves(g, n) == /\ g = [s \in SUBSET S |-> g[s]]
                           /\ \A s \in SUBSET S : Cardinality(s) =< n => g[s] = SumStep(f, g, s)
<1> DEFINE Unsolved == {n \in Nat : ~ \E g : Solves(g, n)}
<1>1. ASSUME NEW s \in SUBSET S
      PROVE  IsFiniteSet(s) /\ Cardinality(s) \in Nat /\ Cardinality(s) =< Cardinality(S)
  BY FS_Subset, FS_CardinalityType
<1>2. ASSUME NEW g, NEW n \in Nat, Solves(g, n) PROVE \E h : Solves(h, n + 1)
  <2> DEFINE h == [s \in SUBSET S |-> SumStep(f, g, s)]
  <2> HIDE DEF h
  <2>1. \A s \in SUBSET S : Cardinality(s) =< n => h[s] = g[s]
    BY <1>2 DEF h
  <2>2. ASSUME NEW s \in SUBSET S, Cardinality(s) =< n + 1 PROVE h[s] = SumStep(f, h, s)
    <3>1. CASE s = {}
      BY <3>1 DEF h, SumStep
    <3>2. CASE s # {}
      <4>1. Picked(s) \in s
        BY <3>2, PickedIn
      <4>2. s \ {Picked(s)} \in SUBSET S /\ Cardinality(s \ {Picked(s)}) =< n
        BY <1>1, <2>2, <3>2, <4>1, RestIsSmaller
      <4>3. h[s \ {Picked(s)}] = g[s \ {Picked(s)}]
        BY <2>1, <4>2
      <4> QED
        BY <3>2, <4>3 DEF h, SumStep
    <3> QED
      BY <3>1, <3>2
  <2>3. h = [s \in SUBSET S |-> h[s]]
    BY DEF h
  <2> QED
    BY <2>2, <2>3
<1>3. \E g : Solves(g, 0)
  <2> DEFINE h == [s \in SUBSET S |-> 0]
  <2>1. ASSUME NEW s \in SUBSET S, Cardinality(s) =< 0 PROVE s = {}
    BY <1>1, <2>1, FS_EmptySet
  <2>2. \A s \in SUBSET S : Cardinality(s) =< 0 => h[s] = SumStep(f, h, s)
    BY <2>1 DEF SumStep
  <2>3. Solves(h, 0)
    BY <2>2
  <2> QED
    BY <2>3
<1>4. Unsolved = {}
  <2> SUFFICES ASSUME Unsolved # {} PROVE FALSE
    OBVIOUS
  <2>1. PICK m \in Unsolved : \A k \in Unsolved : m =< k
    BY LeastNat
  <2>2. m \in Nat /\ m # 0
    BY <1>3, <2>1
  <2>3. m - 1 \in Nat /\ ~ (m =< m - 1) /\ (m - 1) + 1 = m
    BY <2>2
  <2>4. m - 1 \notin Unsolved
    BY <2>1, <2>3
  <2>5. PICK g : Solves(g, m - 1)
    BY <2>3, <2>4
  <2> HIDE DEF Solves
  <2>6. \E h : Solves(h, (m - 1) + 1)
    BY <1>2, <2>3, <2>5
  <2>7. \E h : Solves(h, m)
    BY <2>3, <2>6
  <2> QED
    BY <2>1, <2>7
<1>5. PICK g : Solves(g, Cardinality(S))
  BY <1>1, <1>4, FS_CardinalityType
<1>6. \A s \in SUBSET S : g[s] = SumStep(f, g, s)
  BY <1>1, <1>5
<1>7. g = [s \in SUBSET S |-> SumStep(f, g, s)]
  BY <1>5, <1>6
<1> QED
  BY <1>7

LEMMA TableStep ==
  ASSUME NEW f, NEW S, IsFiniteSet(S)
  PROVE  \A s \in SUBSET S : SumTable(f, S)[s] = SumStep(f, SumTable(f, S), s)
<1>1. SumTable(f, S) = [s \in SUBSET S |-> SumStep(f, SumTable(f, S), s)]
  BY TableExists DEF SumTable
<1> QED
  BY <1>1

(* Two tables agree where the functions do.                                 *)
LEMMA TablesAgree ==
  ASSUME NEW f, NEW g, NEW S, NEW T, IsFiniteSet(S), IsFiniteSet(T),
         NEW R, R \subseteq S, R \subseteq T, \A x \in R : f[x] = g[x]
  PROVE  SumTable(f, S)[R] = SumTable(g, T)[R]
<1> DEFINE Good == {s \in SUBSET R : SumTable(f, S)[s] = SumTable(g, T)[s]}
<1>1. ASSUME NEW s \in SUBSET R, \A x \in s : s \ {x} \in Good PROVE s \in Good
  <2>1. /\ SumTable(f, S)[s] = SumStep(f, SumTable(f, S), s)
        /\ SumTable(g, T)[s] = SumStep(g, SumTable(g, T), s)
    BY TableStep
  <2>2. CASE s = {}
    BY <2>1, <2>2 DEF SumStep
  <2>3. CASE s # {}
    <3>1. Picked(s) \in s
      BY <2>3, PickedIn
    <3>2. f[Picked(s)] = g[Picked(s)] /\ s \ {Picked(s)} \in Good
      BY <1>1, <3>1
    <3> QED
      BY <2>1, <2>3, <3>2 DEF SumStep
  <2> QED
    BY <2>2, <2>3
<1>2. IsFiniteSet(R)
  BY FS_Subset
<1> HIDE DEF Good
<1>3. R \in Good
  BY <1>1, <1>2, SubsetInduction
<1> QED
  BY <1>3 DEF Good

-----------------------------------------------------------------------------
(* The sum over no index.                                                   *)
LEMMA SumEmpty ==
  ASSUME NEW f
  PROVE  SumFunctionOnSet(f, {}) = 0
BY FS_EmptySet, SumIsTable, TableStep DEF SumStep

(* The sum depends only on the values at the indices.                       *)
LEMMA SumSame ==
  ASSUME NEW f, NEW g, NEW S, IsFiniteSet(S), \A x \in S : f[x] = g[x]
  PROVE  SumFunctionOnSet(f, S) = SumFunctionOnSet(g, S)
BY SumIsTable, TablesAgree

LEMMA SumPicked ==
  ASSUME NEW f, NEW S, IsFiniteSet(S), S # {}
  PROVE  SumFunctionOnSet(f, S)
           = f[Picked(S)] + SumFunctionOnSet(f, S \ {Picked(S)})
<1>1. Picked(S) \in S /\ IsFiniteSet(S \ {Picked(S)})
  BY PickedIn, RestIsSmaller
<1>2. SumTable(f, S)[S \ {Picked(S)}] = SumTable(f, S \ {Picked(S)})[S \ {Picked(S)}]
  BY <1>1, TablesAgree
<1>3. SumTable(f, S)[S] = f[Picked(S)] + SumTable(f, S)[S \ {Picked(S)}]
  BY TableStep DEF SumStep
<1> QED
  BY <1>2, <1>3, SumIsTable

(* The sum of integers is one.                                              *)
LEMMA SumInt ==
  ASSUME NEW f, NEW S, IsFiniteSet(S), \A x \in S : f[x] \in Int
  PROVE  SumFunctionOnSet(f, S) \in Int
<1> DEFINE Good == {s \in SUBSET S : SumFunctionOnSet(f, s) \in Int}
<1>1. ASSUME NEW s \in SUBSET S, \A x \in s : s \ {x} \in Good PROVE s \in Good
  <2>1. CASE s = {}
    BY <2>1, SumEmpty
  <2>2. CASE s # {}
    <3>1. IsFiniteSet(s) /\ Picked(s) \in s
      BY <2>2, PickedIn, FS_Subset
    <3>2. SumFunctionOnSet(f, s) = f[Picked(s)] + SumFunctionOnSet(f, s \ {Picked(s)})
      BY <2>2, <3>1, SumPicked
    <3>3. f[Picked(s)] \in Int /\ SumFunctionOnSet(f, s \ {Picked(s)}) \in Int
      BY <1>1, <3>1
    <3> QED
      BY <3>2, <3>3
  <2> QED
    BY <2>1, <2>2
<1> HIDE DEF Good
<1>2. S \in Good
  BY <1>1, SubsetInduction
<1> QED
  BY <1>2 DEF Good

(* Any index may be taken out first.                                        *)
LEMMA SumRemove ==
  ASSUME NEW f, NEW S, IsFiniteSet(S), \A y \in S : f[y] \in Int, NEW x \in S
  PROVE  SumFunctionOnSet(f, S) = f[x] + SumFunctionOnSet(f, S \ {x})
<1> DEFINE Good == {s \in SUBSET S : \A y \in s :
                      SumFunctionOnSet(f, s) = f[y] + SumFunctionOnSet(f, s \ {y})}
<1>1. ASSUME NEW s \in SUBSET S, \A y \in s : s \ {y} \in Good PROVE s \in Good
  <2> SUFFICES ASSUME NEW y \in s
               PROVE  SumFunctionOnSet(f, s) = f[y] + SumFunctionOnSet(f, s \ {y})
    OBVIOUS
  <2> DEFINE p == Picked(s)
  <2>1. IsFiniteSet(s) /\ p \in s
    BY PickedIn, FS_Subset
  <2>2. SumFunctionOnSet(f, s) = f[p] + SumFunctionOnSet(f, s \ {p})
    BY <2>1, SumPicked
  <2>3. CASE y = p
    BY <2>2, <2>3
  <2>4. CASE y # p
    <3>1. SumFunctionOnSet(f, s \ {p}) = f[y] + SumFunctionOnSet(f, (s \ {p}) \ {y})
      BY <1>1, <2>1, <2>4
    <3>2. SumFunctionOnSet(f, s \ {y}) = f[p] + SumFunctionOnSet(f, (s \ {y}) \ {p})
      BY <1>1, <2>1, <2>4
    <3>3. (s \ {y}) \ {p} = (s \ {p}) \ {y}
      OBVIOUS
    <3>4. SumFunctionOnSet(f, (s \ {p}) \ {y}) \in Int
      BY <2>1, FS_Subset, SumInt
    <3>5. f[p] \in Int /\ f[y] \in Int
      BY <2>1
    <3>6. SumFunctionOnSet(f, s \ {y}) = f[p] + SumFunctionOnSet(f, (s \ {p}) \ {y})
      BY <3>2, <3>3
    <3> HIDE DEF p, Good
    <3> QED
      BY <2>2, <3>1, <3>4, <3>5, <3>6
  <2> QED
    BY <2>3, <2>4
<1> HIDE DEF Good
<1>2. S \in Good
  BY <1>1, SubsetInduction
<1> QED
  BY <1>2 DEF Good

(* If one value changes, the sum changes by as much.                        *)
LEMMA SumChange ==
  ASSUME NEW f, NEW g, NEW S, IsFiniteSet(S), NEW x \in S,
         \A y \in S : f[y] \in Int, g[x] \in Int,
         \A y \in S \ {x} : g[y] = f[y]
  PROVE  SumFunctionOnSet(g, S) = SumFunctionOnSet(f, S) + g[x] - f[x]
<1>1. IsFiniteSet(S \ {x}) /\ \A y \in S : g[y] \in Int
  BY FS_Subset
<1>2. SumFunctionOnSet(f, S) = f[x] + SumFunctionOnSet(f, S \ {x})
  BY SumRemove
<1>3. SumFunctionOnSet(g, S) = g[x] + SumFunctionOnSet(g, S \ {x})
  BY <1>1, SumRemove
<1>4. SumFunctionOnSet(g, S \ {x}) = SumFunctionOnSet(f, S \ {x})
  BY <1>1, SumSame
<1>5. SumFunctionOnSet(f, S \ {x}) \in Int
  BY <1>1, SumInt
<1> QED
  BY <1>2, <1>3, <1>4, <1>5

(* A new index adds its value.                                              *)
LEMMA SumAdd ==
  ASSUME NEW f, NEW g, NEW S, IsFiniteSet(S), NEW x, x \notin S,
         \A y \in S : f[y] \in Int, g[x] \in Int,
         \A y \in S : g[y] = f[y]
  PROVE  SumFunctionOnSet(g, S \cup {x}) = SumFunctionOnSet(f, S) + g[x]
<1> DEFINE T == S \cup {x}
<1>1. IsFiniteSet(T) /\ x \in T /\ T \ {x} = S
  BY FS_AddElement
<1>2. \A y \in T : g[y] \in Int
  OBVIOUS
<1> HIDE DEF T
<1>3. SumFunctionOnSet(g, T) = g[x] + SumFunctionOnSet(g, S)
  BY <1>1, <1>2, SumRemove
<1>4. SumFunctionOnSet(g, S) = SumFunctionOnSet(f, S)
  BY SumSame
<1>5. SumFunctionOnSet(f, S) \in Int
  BY SumInt
<1> QED
  BY <1>3, <1>4, <1>5 DEF T

(* The sum of numbers that are not negative is none of them smaller.        *)
LEMMA SumBounds ==
  ASSUME NEW f, NEW S, IsFiniteSet(S), \A x \in S : f[x] \in Nat
  PROVE  /\ SumFunctionOnSet(f, S) \in Nat
         /\ \A x \in S : f[x] =< SumFunctionOnSet(f, S)
<1> DEFINE Good == {s \in SUBSET S : SumFunctionOnSet(f, s) \in Nat}
<1>1. ASSUME NEW s \in SUBSET S, \A x \in s : s \ {x} \in Good PROVE s \in Good
  <2>1. CASE s = {}
    BY <2>1, SumEmpty
  <2>2. CASE s # {}
    <3>1. PICK x \in s : TRUE
      BY <2>2
    <3>2. SumFunctionOnSet(f, s) = f[x] + SumFunctionOnSet(f, s \ {x})
      BY FS_Subset, SumRemove
    <3>3. f[x] \in Nat /\ SumFunctionOnSet(f, s \ {x}) \in Nat
      BY <1>1
    <3> QED
      BY <3>2, <3>3
  <2> QED
    BY <2>1, <2>2
<1> HIDE DEF Good
<1>2. SUBSET S \subseteq Good
  <2> SUFFICES ASSUME NEW s \in SUBSET S PROVE s \in Good
    OBVIOUS
  <2>1. IsFiniteSet(s) /\ SUBSET s \subseteq SUBSET S
    BY FS_Subset
  <2> QED
    BY <1>1, <2>1, SubsetInduction
<1>3. ASSUME NEW x \in S PROVE f[x] =< SumFunctionOnSet(f, S)
  <2>1. SumFunctionOnSet(f, S) = f[x] + SumFunctionOnSet(f, S \ {x})
    BY SumRemove
  <2>2. SumFunctionOnSet(f, S \ {x}) \in Nat
    BY <1>2 DEF Good
  <2> QED
    BY <2>1, <2>2
<1> QED
  BY <1>2, <1>3 DEF Good

(* The sum of differences is the difference of the sums.                    *)
LEMMA SumPlus ==
  ASSUME NEW f, NEW g, NEW h, NEW S, IsFiniteSet(S),
         \A x \in S : f[x] \in Int /\ g[x] \in Int /\ h[x] = f[x] + g[x]
  PROVE  SumFunctionOnSet(h, S) = SumFunctionOnSet(f, S) + SumFunctionOnSet(g, S)
<1> DEFINE Good == {s \in SUBSET S : SumFunctionOnSet(h, s)
                       = SumFunctionOnSet(f, s) + SumFunctionOnSet(g, s)}
<1>1. ASSUME NEW s \in SUBSET S, \A x \in s : s \ {x} \in Good PROVE s \in Good
  <2>1. CASE s = {}
    BY <2>1, SumEmpty
  <2>2. CASE s # {}
    <3>1. PICK x \in s : TRUE
      BY <2>2
    <3>2. IsFiniteSet(s) /\ IsFiniteSet(s \ {x})
      BY FS_Subset
    <3>3. /\ SumFunctionOnSet(f, s) = f[x] + SumFunctionOnSet(f, s \ {x})
          /\ SumFunctionOnSet(g, s) = g[x] + SumFunctionOnSet(g, s \ {x})
          /\ SumFunctionOnSet(h, s) = h[x] + SumFunctionOnSet(h, s \ {x})
      BY <3>2, SumRemove
    <3>4. SumFunctionOnSet(f, s \ {x}) \in Int /\ SumFunctionOnSet(g, s \ {x}) \in Int
      BY <3>2, SumInt
    <3>5. SumFunctionOnSet(h, s \ {x})
            = SumFunctionOnSet(f, s \ {x}) + SumFunctionOnSet(g, s \ {x})
      BY <1>1
    <3>6. f[x] \in Int /\ g[x] \in Int /\ h[x] = f[x] + g[x]
      OBVIOUS
    <3> HIDE DEF Good
    <3>7. SumFunctionOnSet(h, s) = SumFunctionOnSet(f, s) + SumFunctionOnSet(g, s)
      BY <3>3, <3>4, <3>5, <3>6
    <3> QED
      BY <3>7 DEF Good
  <2> QED
    BY <2>1, <2>2
<1> HIDE DEF Good
<1>2. S \in Good
  BY <1>1, SubsetInduction
<1> QED
  BY <1>2 DEF Good
(* Indices whose value is zero may be left out.                             *)
LEMMA SumSupport ==
  ASSUME NEW f, NEW S, IsFiniteSet(S), NEW R \in SUBSET S,
         \A x \in S : f[x] \in Int, \A x \in S \ R : f[x] = 0
  PROVE  SumFunctionOnSet(f, S) = SumFunctionOnSet(f, R)
<1> DEFINE Good == {s \in SUBSET S : SumFunctionOnSet(f, s) = SumFunctionOnSet(f, s \cap R)}
<1>1. ASSUME NEW s \in SUBSET S, \A x \in s : s \ {x} \in Good PROVE s \in Good
  <2>1. CASE s \subseteq R
    <3>1. s \cap R = s
      BY <2>1
    <3> QED
      BY <3>1
  <2>2. CASE ~ (s \subseteq R)
    <3>1. PICK x \in s : x \notin R
      BY <2>2
    <3>2. IsFiniteSet(s) /\ IsFiniteSet(s \ {x}) /\ \A y \in s : f[y] \in Int
      BY FS_Subset
    <3>3. SumFunctionOnSet(f, s) = f[x] + SumFunctionOnSet(f, s \ {x})
      BY <3>2, SumRemove
    <3>4. SumFunctionOnSet(f, s \ {x}) \in Int
      BY <3>2, SumInt
    <3>5. f[x] = 0 /\ (s \ {x}) \cap R = s \cap R
      BY <3>1
    <3>6. SumFunctionOnSet(f, s \ {x}) = SumFunctionOnSet(f, s \cap R)
      BY <1>1, <3>5
    <3> HIDE DEF Good
    <3>7. SumFunctionOnSet(f, s) = SumFunctionOnSet(f, s \cap R)
      BY <3>3, <3>4, <3>5, <3>6
    <3> QED
      BY <3>7 DEF Good
  <2> QED
    BY <2>1, <2>2
<1> HIDE DEF Good
<1>2. S \in Good
  BY <1>1, SubsetInduction
<1>3. S \cap R = R
  OBVIOUS
<1> QED
  BY <1>2, <1>3 DEF Good

(* A sum over some indices is one over all, with zero for the others.       *)
LEMMA SumExtended ==
  ASSUME NEW f, NEW S, IsFiniteSet(S), NEW R \in SUBSET S, \A x \in R : f[x] \in Int
  PROVE  SumFunctionOnSet(f, R)
           = SumFunctionOnSet([x \in S |-> IF x \in R THEN f[x] ELSE 0], S)
<1> DEFINE g == [x \in S |-> IF x \in R THEN f[x] ELSE 0]
<1>1. (\A x \in S : g[x] \in Int) /\ (\A x \in S \ R : g[x] = 0) /\ \A x \in R : g[x] = f[x]
  OBVIOUS
<1>2. IsFiniteSet(R)
  BY FS_Subset
<1> HIDE DEF g
<1>3. SumFunctionOnSet(g, S) = SumFunctionOnSet(g, R)
  BY <1>1, SumSupport
<1>4. SumFunctionOnSet(g, R) = SumFunctionOnSet(f, R)
  BY <1>1, <1>2, SumSame
<1> QED
  BY <1>3, <1>4 DEF g

(* If some value is positive where none is negative, so is the sum; a sum   *)
(* of values that are none of them positive is not positive.                *)
LEMMA SumNotPositive ==
  ASSUME NEW f, NEW S, IsFiniteSet(S), \A x \in S : f[x] \in Int /\ f[x] =< 0
  PROVE  SumFunctionOnSet(f, S) =< 0
<1> DEFINE g == [x \in S |-> -f[x]]
           h == [x \in S |-> 0]
<1>1. \A x \in S : g[x] \in Nat /\ f[x] \in Int /\ g[x] \in Int /\ h[x] = f[x] + g[x]
  OBVIOUS
<1>2. \A x \in S : h[x] = h[x] + h[x] /\ h[x] \in Int
  OBVIOUS
<1> HIDE DEF g, h
<1>3. SumFunctionOnSet(h, S) = SumFunctionOnSet(f, S) + SumFunctionOnSet(g, S)
  BY <1>1, SumPlus
<1>4. SumFunctionOnSet(h, S) = SumFunctionOnSet(h, S) + SumFunctionOnSet(h, S)
  BY <1>2, SumPlus
<1>5. SumFunctionOnSet(g, S) \in Nat /\ SumFunctionOnSet(f, S) \in Int
      /\ SumFunctionOnSet(h, S) \in Int
  BY <1>1, <1>2, SumBounds, SumInt
<1> QED
  BY <1>3, <1>4, <1>5
(* One element of an index set changes its value, or leaves the set, or     *)
(* comes into it, and the others stay as they are.                          *)
LEMMA SumOneMoved ==
  ASSUME NEW f, NEW A, IsFiniteSet(A), \A x \in A : f[x] \in Nat,
         NEW g, NEW B, IsFiniteSet(B), \A x \in B : g[x] \in Nat,
         NEW q, A \ {q} = B \ {q}, \A x \in B \ {q} : g[x] = f[x]
  PROVE  /\ SumFunctionOnSet(f, A) \in Int /\ SumFunctionOnSet(g, B) \in Int
         /\ q \notin B => SumFunctionOnSet(g, B) =< SumFunctionOnSet(f, A)
         /\ q \in B /\ q \notin A => SumFunctionOnSet(g, B) = SumFunctionOnSet(f, A) + g[q]
<1>1. SumFunctionOnSet(f, A) \in Int /\ SumFunctionOnSet(g, B) \in Int
  BY SumInt
<1>2. ASSUME q \notin B PROVE SumFunctionOnSet(g, B) =< SumFunctionOnSet(f, A)
  <2>1. B = A \ {q} /\ \A x \in B : g[x] = f[x]
    BY <1>2
  <2>2. SumFunctionOnSet(g, B) = SumFunctionOnSet(f, B)
    BY <2>1, SumSame
  <2>3. CASE q \in A
    <3>1. \A x \in A : f[x] \in Int
      OBVIOUS
    <3>2. SumFunctionOnSet(f, A) = f[q] + SumFunctionOnSet(f, A \ {q})
      BY <2>3, <3>1, SumRemove
    <3>3. f[q] \in Nat
      BY <2>3
    <3> QED
      BY <1>1, <2>1, <2>2, <3>2, <3>3
  <2>4. CASE q \notin A
    <3>1. A = B
      BY <2>1, <2>4
    <3> QED
      BY <1>1, <2>2, <3>1
  <2> QED
    BY <2>3, <2>4
<1>3. ASSUME q \in B, q \notin A
      PROVE  SumFunctionOnSet(g, B) = SumFunctionOnSet(f, A) + g[q]
  <2>1. B = A \cup {q} /\ \A x \in A : g[x] = f[x] /\ x \in B
    BY <1>3
  <2>2. (\A x \in A : f[x] \in Int) /\ g[q] \in Int
    BY <1>3
  <2>3. SumFunctionOnSet(g, A \cup {q}) = SumFunctionOnSet(f, A) + g[q]
    BY <1>3, <2>1, <2>2, SumAdd
  <2> QED
    BY <2>1, <2>3
<1> QED
  BY <1>1, <1>2, <1>3

(* The sum over a set is that over a part of it and that over the rest.     *)
LEMMA SumSplit ==
  ASSUME NEW f, NEW S, IsFiniteSet(S), \A x \in S : f[x] \in Int, NEW R \in SUBSET S
  PROVE  /\ SumFunctionOnSet(f, S) = SumFunctionOnSet(f, R) + SumFunctionOnSet(f, S \ R)
         /\ SumFunctionOnSet(f, R) \in Int /\ SumFunctionOnSet(f, S \ R) \in Int
<1> DEFINE g == [x \in S |-> IF x \in R THEN f[x] ELSE 0]
           h == [x \in S |-> IF x \in S \ R THEN f[x] ELSE 0]
<1>1. IsFiniteSet(R) /\ IsFiniteSet(S \ R)
  BY FS_Subset
<1>2. SumFunctionOnSet(f, R) = SumFunctionOnSet(g, S)
  BY SumExtended
<1>3. SumFunctionOnSet(f, S \ R) = SumFunctionOnSet(h, S)
  <2>1. S \ R \in SUBSET S /\ \A x \in S \ R : f[x] \in Int
    OBVIOUS
  <2> QED
    BY ONLY <2>1, SumExtended, IsFiniteSet(S)
<1>4. SumFunctionOnSet(f, S) = SumFunctionOnSet(g, S) + SumFunctionOnSet(h, S)
  <2>1. \A x \in S : g[x] \in Int /\ h[x] \in Int /\ f[x] = g[x] + h[x]
    OBVIOUS
  <2> HIDE DEF g, h
  <2> QED
    BY <2>1, SumPlus
<1> QED
  BY <1>1, <1>2, <1>3, <1>4, SumInt
(* The sum over what the members of S are sent to, no two to the same.      *)
LEMMA SumMapped ==
  ASSUME NEW S, IsFiniteSet(S), NEW g, \A x, y \in S : g[x] = g[y] => x = y,
         NEW f, \A x \in S : f[g[x]] \in Int, NEW h, \A x \in S : h[x] = f[g[x]]
  PROVE  SumFunctionOnSet(f, {g[x] : x \in S}) = SumFunctionOnSet(h, S)
<1> DEFINE T(s) == {g[x] : x \in s}
           Good == {s \in SUBSET S : SumFunctionOnSet(f, T(s)) = SumFunctionOnSet(h, s)}
<1>1. ASSUME NEW s \in SUBSET S PROVE IsFiniteSet(s) /\ IsFiniteSet(T(s)) /\ \A y \in T(s) : f[y] \in Int
  <2>1. IsFiniteSet(s)
    BY FS_Subset
  <2>2. [x \in s |-> g[x]] \in Surjection(s, T(s))
    BY DEF Surjection
  <2>3. \A y \in T(s) : f[y] \in Int
    OBVIOUS
  <2> HIDE DEF T
  <2> QED
    BY <2>1, <2>2, <2>3, FS_Surjection
<1>2. ASSUME NEW s \in SUBSET S, \A x \in s : s \ {x} \in Good PROVE s \in Good
  <2>1. CASE s = {}
    <3>1. T(s) = {}
      BY <2>1
    <3> HIDE DEF T
    <3> QED
      BY <2>1, <3>1, SumEmpty
  <2>2. CASE s # {}
    <3>1. PICK x \in s : TRUE
      BY <2>2
    <3>2. g[x] \in T(s) /\ T(s) \ {g[x]} = T(s \ {x})
      OBVIOUS
    <3>3. SumFunctionOnSet(f, T(s \ {x})) = SumFunctionOnSet(h, s \ {x})
      BY <1>2
    <3>4. IsFiniteSet(s) /\ IsFiniteSet(T(s)) /\ \A y \in T(s) : f[y] \in Int
      BY <1>1
    <3>5. \A y \in s : h[y] \in Int
      OBVIOUS
    <3>6. h[x] = f[g[x]]
      OBVIOUS
    <3> HIDE DEF T
    <3>7. SumFunctionOnSet(f, T(s)) = f[g[x]] + SumFunctionOnSet(f, T(s) \ {g[x]})
      BY ONLY <3>2, <3>4, SumRemove
    <3>8. SumFunctionOnSet(h, s) = h[x] + SumFunctionOnSet(h, s \ {x})
      BY ONLY <3>1, <3>4, <3>5, SumRemove
    <3> QED
      BY <3>2, <3>3, <3>6, <3>7, <3>8
  <2> QED
    BY <2>1, <2>2
<1> HIDE DEF Good
<1>3. S \in Good
  BY <1>2, SubsetInduction
<1> QED
  BY <1>3 DEF Good

(* Values that come in opposite pairs add up to nothing.                    *)
LEMMA SumOpposite ==
  ASSUME NEW S, IsFiniteSet(S), NEW f, \A x \in S : f[x] \in Int,
         NEW g, \A x \in S : g[x] \in S /\ g[g[x]] = x /\ f[g[x]] = - f[x]
  PROVE  SumFunctionOnSet(f, S) = 0
<1> DEFINE h == [x \in S |-> f[g[x]]]
           z == [x \in S |-> 0]
<1>1. {g[x] : x \in S} = S /\ \A x, y \in S : g[x] = g[y] => x = y
  OBVIOUS
<1>2. (\A x \in S : f[g[x]] \in Int) /\ \A x \in S : h[x] = f[g[x]]
  OBVIOUS
<1>3. \A x \in S : f[x] \in Int /\ h[x] \in Int /\ z[x] = f[x] + h[x]
  OBVIOUS
<1>4. (\A x \in S : z[x] \in Int) /\ {} \in SUBSET S /\ \A x \in S \ {} : z[x] = 0
  OBVIOUS
<1> HIDE DEF h, z
<1>5. SumFunctionOnSet(f, S) = SumFunctionOnSet(h, S)
  BY <1>1, <1>2, SumMapped
<1>6. SumFunctionOnSet(z, S) = SumFunctionOnSet(f, S) + SumFunctionOnSet(h, S)
  BY ONLY <1>3, SumPlus, IsFiniteSet(S)
<1>7. SumFunctionOnSet(z, S) = SumFunctionOnSet(z, {}) /\ SumFunctionOnSet(z, {}) = 0
  BY ONLY <1>4, SumSupport, SumEmpty, IsFiniteSet(S)
<1>8. SumFunctionOnSet(f, S) \in Int
  BY SumInt
<1> QED
  BY ONLY <1>5, <1>6, <1>7, <1>8
LEMMA SumNegated ==
  ASSUME NEW S, IsFiniteSet(S), NEW f, NEW g, \A x \in S : f[x] \in Int /\ g[x] = - f[x]
  PROVE  SumFunctionOnSet(g, S) = - SumFunctionOnSet(f, S)
<1> DEFINE z == [x \in S |-> 0]
<1>1. \A x \in S : f[x] \in Int /\ g[x] \in Int /\ z[x] = f[x] + g[x]
  OBVIOUS
<1>2. (\A x \in S : z[x] \in Int) /\ {} \in SUBSET S /\ \A x \in S \ {} : z[x] = 0
  OBVIOUS
<1> HIDE DEF z
<1>3. SumFunctionOnSet(z, S) = SumFunctionOnSet(f, S) + SumFunctionOnSet(g, S)
  BY ONLY <1>1, SumPlus, IsFiniteSet(S)
<1>4. SumFunctionOnSet(z, S) = SumFunctionOnSet(z, {}) /\ SumFunctionOnSet(z, {}) = 0
  BY ONLY <1>2, SumSupport, SumEmpty, IsFiniteSet(S)
<1>5. SumFunctionOnSet(f, S) \in Int /\ SumFunctionOnSet(g, S) \in Int
  BY <1>1, SumInt
<1> QED
  BY ONLY <1>3, <1>4, <1>5
-----------------------------------------------------------------------------
(* Sums over positions.  Those of two stretches, one after the other.       *)
LEMMA SumStretches ==
  ASSUME NEW n \in Nat, NEW m \in Nat, NEW f, \A k \in 1..(n + m) : f[k] \in Int,
         NEW g, \A k \in 1..m : g[k] = f[n + k]
  PROVE  SumFunctionOnSet(f, 1..(n + m))
           = SumFunctionOnSet(f, 1..n) + SumFunctionOnSet(g, 1..m)
<1> DEFINE S == 1..(n + m)
           shift == [k \in 1..m |-> n + k]
<1>1. IsFiniteSet(S) /\ IsFiniteSet(1..m) /\ 1..n \in SUBSET S /\ \A k \in S : f[k] \in Int
  BY FS_Interval
<1>2. S \ (1..n) = {shift[k] : k \in 1..m}
  <2>1. ASSUME NEW k \in S \ (1..n) PROVE k \in {shift[j] : j \in 1..m}
    <3>1. k - n \in 1..m /\ shift[k - n] = k
      OBVIOUS
    <3> HIDE DEF shift
    <3> QED
      BY <3>1
  <2>2. ASSUME NEW j \in 1..m PROVE shift[j] \in S \ (1..n)
    OBVIOUS
  <2> HIDE DEF shift, S
  <2> QED
    BY <2>1, <2>2
<1>3. /\ \A x, y \in 1..m : shift[x] = shift[y] => x = y
      /\ \A x \in 1..m : f[shift[x]] \in Int /\ g[x] = f[shift[x]]
  OBVIOUS
<1> HIDE DEF S, shift
<1>4. SumFunctionOnSet(f, S) = SumFunctionOnSet(f, 1..n) + SumFunctionOnSet(f, S \ (1..n))
  BY <1>1, SumSplit
<1>5. SumFunctionOnSet(f, {shift[k] : k \in 1..m}) = SumFunctionOnSet(g, 1..m)
  <2> DEFINE D == 1..m
  <2>1. /\ IsFiniteSet(D) /\ \A x, y \in D : shift[x] = shift[y] => x = y
        /\ \A x \in D : f[shift[x]] \in Int /\ g[x] = f[shift[x]]
    BY <1>1, <1>3
  <2> HIDE DEF D
  <2>2. SumFunctionOnSet(f, {shift[k] : k \in D}) = SumFunctionOnSet(g, D)
    BY ONLY <2>1, SumMapped
  <2> QED
    BY <2>2 DEF D
<1> QED
  BY <1>2, <1>4, <1>5 DEF S

(* Those of pairs of neighbours.                                            *)
LEMMA SumPairs ==
  ASSUME NEW n \in Nat, NEW f, \A k \in 1..(2 * n) : f[k] \in Int,
         NEW g, \A i \in 1..n : g[i] = f[2 * i - 1] + f[2 * i]
  PROVE  SumFunctionOnSet(f, 1..(2 * n)) = SumFunctionOnSet(g, 1..n)
<1> DEFINE S == 1..(2 * n)
           odd == [i \in 1..n |-> 2 * i - 1]
           even == [i \in 1..n |-> 2 * i]
           fo == [i \in 1..n |-> f[2 * i - 1]]
           fe == [i \in 1..n |-> f[2 * i]]
           Odd == {odd[i] : i \in 1..n}
<1>1. IsFiniteSet(S) /\ IsFiniteSet(1..n) /\ \A k \in S : f[k] \in Int
  BY FS_Interval
<1>2. \A i \in 1..n : 2 * i - 1 \in S /\ 2 * i \in S
  OBVIOUS
<1>3. Odd \in SUBSET S
  BY <1>2
<1>4. S \ Odd = {even[i] : i \in 1..n}
  <2>1. ASSUME NEW k \in S PROVE \E i \in 1..n : k = 2 * i - 1 \/ k = 2 * i
    <3>1. (k + 1) \div 2 \in 1..n /\ (k = 2 * ((k + 1) \div 2) - 1 \/ k = 2 * ((k + 1) \div 2))
      OBVIOUS
    <3> QED
      BY <3>1
  <2>2. ASSUME NEW i \in 1..n, NEW j \in 1..n PROVE 2 * i # 2 * j - 1
    OBVIOUS
  <2>3. \A i \in 1..n : odd[i] = 2 * i - 1 /\ even[i] = 2 * i
    OBVIOUS
  <2>4. ASSUME NEW k \in S \ Odd PROVE k \in {even[i] : i \in 1..n}
    <3>1. PICK i \in 1..n : k = 2 * i - 1 \/ k = 2 * i
      BY <2>1, <2>4
    <3>2. odd[i] \in Odd /\ k # odd[i] /\ even[i] \in {even[j] : j \in 1..n}
      BY <2>4
    <3> HIDE DEF S, odd, even, Odd
    <3> QED
      BY ONLY <2>3, <3>1, <3>2
  <2>5. ASSUME NEW j \in 1..n PROVE even[j] \in S \ Odd
    <3> HIDE DEF S, odd, even
    <3> QED
      BY <1>2, <2>2, <2>3, <2>5
  <2> HIDE DEF S, odd, even, Odd
  <2> QED
    BY <2>4, <2>5
<1>5. /\ \A x, y \in 1..n : odd[x] = odd[y] => x = y
      /\ \A x, y \in 1..n : even[x] = even[y] => x = y
      /\ \A x \in 1..n : f[odd[x]] \in Int /\ fo[x] = f[odd[x]]
      /\ \A x \in 1..n : f[even[x]] \in Int /\ fe[x] = f[even[x]]
  BY <1>2
<1>6. \A i \in 1..n : fo[i] \in Int /\ fe[i] \in Int /\ g[i] = fo[i] + fe[i]
  BY <1>2
<1> HIDE DEF S, odd, even, fo, fe
<1>7. SumFunctionOnSet(f, S) = SumFunctionOnSet(f, Odd) + SumFunctionOnSet(f, S \ Odd)
  <2> HIDE DEF Odd
  <2>1. Odd \in SUBSET S
    BY <1>3
  <2> QED
    BY ONLY <1>1, <2>1, SumSplit
<1> DEFINE D == 1..n
<1>8. /\ IsFiniteSet(D)
      /\ \A x, y \in D : odd[x] = odd[y] => x = y
      /\ \A x, y \in D : even[x] = even[y] => x = y
      /\ \A x \in D : f[odd[x]] \in Int /\ fo[x] = f[odd[x]]
      /\ \A x \in D : f[even[x]] \in Int /\ fe[x] = f[even[x]]
  BY <1>1, <1>5
<1>9. \A x \in D : fo[x] \in Int /\ fe[x] \in Int /\ g[x] = fo[x] + fe[x]
  BY <1>6
<1> HIDE DEF D
<1>10. SumFunctionOnSet(f, {odd[x] : x \in D}) = SumFunctionOnSet(fo, D)
  BY ONLY <1>8, SumMapped
<1>11. SumFunctionOnSet(f, {even[x] : x \in D}) = SumFunctionOnSet(fe, D)
  BY ONLY <1>8, SumMapped
<1>12. SumFunctionOnSet(g, D) = SumFunctionOnSet(fo, D) + SumFunctionOnSet(fe, D)
  BY ONLY <1>8, <1>9, SumPlus
<1> QED
  BY <1>4, <1>7, <1>10, <1>11, <1>12 DEF S, D

(* One position more.                                                       *)
LEMMA SumNext ==
  ASSUME NEW k \in Nat, NEW f, \A i \in 1..(k + 1) : f[i] \in Int
  PROVE  SumFunctionOnSet(f, 1..(k + 1)) = SumFunctionOnSet(f, 1..k) + f[k + 1]
<1> DEFINE S == 1..k
           x == k + 1
<1>1. 1..(k + 1) = S \cup {x} /\ x \notin S /\ f[x] \in Int /\ \A i \in S : f[i] \in Int
  OBVIOUS
<1>2. IsFiniteSet(S)
  BY FS_Interval
<1> HIDE DEF S, x
<1>3. SumFunctionOnSet(f, S \cup {x}) = SumFunctionOnSet(f, S) + f[x]
  BY <1>1, <1>2, SumAdd
<1> QED
  BY <1>1, <1>3 DEF S, x

(* Induction up to a number: those of which a property holds are collected  *)
(* in Good.                                                                 *)
LEMMA UpTo ==
  ASSUME NEW n \in Nat, NEW Good, 0 \in Good,
         \A k \in 0..n : k \in Good /\ k < n => k + 1 \in Good
  PROVE  n \in Good
<1> DEFINE Bad == {k \in 0..n : k \notin Good}
<1>1. SUFFICES ASSUME Bad # {} PROVE FALSE
  OBVIOUS
<1>2. PICK m \in Bad : \A k \in Bad : m =< k
  <2>1. Bad \in SUBSET Nat
    OBVIOUS
  <2> QED
    BY <1>1, <2>1, LeastNat
<1>3. m - 1 \in 0..n /\ ~ (m =< m - 1) /\ m - 1 < n /\ (m - 1) + 1 = m
  BY <1>2
<1> QED
  BY <1>2, <1>3
=============================================================================
