------------------------------ MODULE FoldProofs ------------------------------
(***************************************************************************)
(* Facts about intervals, finite sets, sequences and the folds of the      *)
(* community modules.                                                      *)
(*                                                                         *)
(* A fold is a recursive function: to the prover, the CHOOSE of a function *)
(* that satisfies the recursion.  So it is proved about in two steps.  A   *)
(* function with the recursion exists (FoldExists), hence the chosen one   *)
(* has it too; then induction over an interval or over the subsets of a    *)
(* finite set shows what it returns.  Both inductions are about the        *)
(* members of a set, and follow from the least element of a set of natural *)
(* numbers.                                                                *)
(***************************************************************************)
EXTENDS Integers, Sequences, FiniteSets, SequencesExt, FiniteSetsExt,
        FiniteSetTheorems, SequenceTheorems, TLAPS

(* A set of natural numbers that is not empty has a least element.         *)
LEMMA LeastNatural ==
  ASSUME NEW T \in SUBSET Nat, T # {}
  PROVE  \E m \in T : \A k \in T : m <= k
<1> DEFINE R == {ss \in Nat \X Nat : ss[1] < ss[2]}
<1>1. IsWellFoundedOn(R, Nat)
  BY NatLessThanWellFounded, Zenon DEF OpToRel
<1>2. \E m \in T : \A k \in T : ~ (<<k, m>> \in R)
  BY <1>1, WFMin, Zenon
<1>3. \A k, m \in Nat : k < m => <<k, m>> \in R
  OBVIOUS
<1>4. PICK m \in T : \A k \in T : ~ (<<k, m>> \in R)
  BY <1>2
<1> HIDE DEF R
<1>5. \A k \in T : ~(k < m)
  BY <1>3, <1>4
<1> QED
  BY <1>5

(* Induction over an interval, for the members of a set.                   *)
LEMMA IntervalInduction ==
  ASSUME NEW G, NEW N \in Nat, 0 \in G, \A k \in 1 .. N : k - 1 \in G => k \in G
  PROVE  0 .. N \subseteq G
<1> DEFINE Bad == (0 .. N) \ G
<1> SUFFICES ASSUME Bad # {} PROVE FALSE
  OBVIOUS
<1>1. Bad \in SUBSET Nat
  OBVIOUS
<1>2. PICK m \in Bad : \A k \in Bad : m <= k
  <2> HIDE DEF Bad
  <2> QED
    BY <1>1, LeastNatural
<1>3. m \in 1 .. N /\ m \notin G
  OBVIOUS
<1>4. m - 1 \in 0 .. N /\ m - 1 \notin G
  BY <1>3
<1>5. m - 1 \in Bad
  BY <1>4
<1> HIDE DEF Bad
<1> QED
  BY <1>2, <1>3, <1>5

(* Domain, length and elements of a typed sequence.                        *)
LEMMA SeqFacts ==
  ASSUME NEW S, NEW s \in Seq(S)
  PROVE  /\ DOMAIN s = 1 .. Len(s)
         /\ Len(s) \in Nat
         /\ \A i \in 1 .. Len(s) : s[i] \in S
OBVIOUS

(* A shuffle keeps the number and the type of the points.                  *)
LEMMA ShuffledIsSeq ==
  ASSUME NEW S, NEW s \in Seq(S), NEW p \in Bijection(DOMAIN s, DOMAIN s)
  PROVE  /\ [i \in DOMAIN s |-> s[p[i]]] \in Seq(S)
         /\ Len([i \in DOMAIN s |-> s[p[i]]]) = Len(s)
BY DEF Bijection, Injection, IsInjective

(* Appending one mean adds one and keeps those before it.                  *)
LEMMA AppendToAny ==
  ASSUME NEW s, s \in Seq(Range(s)), NEW e
  PROVE  /\ Append(s, e) \in Seq(Range(Append(s, e)))
         /\ Len(Append(s, e)) = Len(s) + 1
         /\ DOMAIN Append(s, e) = 1 .. Len(s) + 1
         /\ \A j \in 1 .. Len(s) : Append(s, e)[j] = s[j]
         /\ Append(s, e)[Len(s) + 1] = e
BY DEF Range

(* A number reduced to a uint16_t is below the modulus.                    *)
LEMMA ModuloIsBelow ==
  ASSUME NEW a \in Nat, NEW u \in Nat \ {0}
  PROVE  a % u \in 0 .. u - 1 /\ (a < u => a % u = a)
OBVIOUS

(* The recursion of MapThenFoldSet: elements are taken out of a finite set *)
(* one by one, as pick says, and step combines them with the rest.         *)
FoldData(S, V, base, pick, step) ==
  /\ IsFiniteSet(S)
  /\ base \in V
  /\ \A s \in SUBSET S : s # {} => pick[s] \in s
  /\ \A x \in S, v \in V : step[<<x, v>>] \in V

FoldSolved(S, base, pick, step, g) ==
  \A s \in SUBSET S : g[s] = IF s = {} THEN base ELSE step[<<pick[s], g[s \ {pick[s]}]>>]

(* The recursion has a solution.                                           *)
LEMMA FoldExists ==
  ASSUME NEW S, NEW V, NEW base, NEW pick, NEW step, FoldData(S, V, base, pick, step)
  PROVE  \E g \in [SUBSET S -> V] : FoldSolved(S, base, pick, step, g)
<1> USE DEF FoldData, FoldSolved
<1> DEFINE Solves(g, n) ==
      \A s \in SUBSET S :
        Cardinality(s) <= n =>
          g[s] = IF s = {} THEN base ELSE step[<<pick[s], g[s \ {pick[s]}]>>]
<1> DEFINE Bad == {n \in Nat : ~ \E g \in [SUBSET S -> V] : Solves(g, n)}
<1>1. \A s \in SUBSET S : IsFiniteSet(s) /\ Cardinality(s) \in Nat /\ Cardinality(s) <= Cardinality(S)
  BY FS_Subset, FS_CardinalityType
<1>2. Bad = {}
  <2> SUFFICES ASSUME Bad # {} PROVE FALSE
    OBVIOUS
  <2>1. PICK m \in Bad : \A k \in Bad : m <= k
    BY LeastNatural
  <2>2. CASE m = 0
    <3> DEFINE g == [s \in SUBSET S |-> base]
    <3>1. \A s \in SUBSET S : Cardinality(s) <= 0 => s = {}
      BY <1>1, FS_EmptySet
    <3>2. Solves(g, 0)
      BY <3>1
    <3>3. g \in [SUBSET S -> V]
      OBVIOUS
    <3> QED
      BY <2>1, <2>2, <3>2, <3>3
  <2>3. CASE m # 0
    <3>1. m \in Nat /\ m - 1 \in Nat /\ m - 1 \notin Bad
      <4>1. m \in Nat
        OBVIOUS
      <4>2. m - 1 \in Nat /\ ~(m <= m - 1)
        BY <2>3, <4>1
      <4> HIDE DEF Bad
      <4> QED
        BY <2>1, <4>1, <4>2
    <3>2. PICK g \in [SUBSET S -> V] : Solves(g, m - 1)
      BY <3>1
    <3> DEFINE h == [s \in SUBSET S |->
                       IF s = {} THEN base ELSE step[<<pick[s], g[s \ {pick[s]}]>>]]
    <3>3. h \in [SUBSET S -> V]
      OBVIOUS
    <3>4. ASSUME NEW s \in SUBSET S, s # {}, Cardinality(s) <= m
          PROVE  h[s \ {pick[s]}] = g[s \ {pick[s]}]
      <4>1. Cardinality(s \ {pick[s]}) = Cardinality(s) - 1
        BY <1>1, <3>4, FS_RemoveElement
      <4>2. Cardinality(s \ {pick[s]}) <= m - 1
        BY <1>1, <3>1, <3>4, <4>1
      <4>3. s \ {pick[s]} \in SUBSET S
        OBVIOUS
      <4> QED
        BY <3>2, <4>2, <4>3
    <3>5. Solves(h, m)
      BY <3>4
    <3> QED
      BY <2>1, <3>3, <3>5
  <2> QED
    BY <2>2, <2>3
<1>3. Cardinality(S) \in Nat
  BY FS_CardinalityType
<1>4. PICK g \in [SUBSET S -> V] : Solves(g, Cardinality(S))
  BY <1>2, <1>3
<1> QED
  BY <1>1, <1>4

(* The greatest element of a part of an interval.                          *)
LEMMA MaxOfInterval ==
  ASSUME NEW n \in Nat, NEW s \in SUBSET (1 .. n), s # {}
  PROVE  Max(s) \in s /\ \A k \in s : Max(s) >= k
<1> DEFINE T == {n - k : k \in s}
<1>1. T \in SUBSET Nat /\ T # {}
  OBVIOUS
<1>2. PICK m \in T : \A k \in T : m <= k
  BY <1>1, LeastNatural
<1>3. PICK x \in s : m = n - x
  BY <1>2
<1>4. \A y \in s : n - y \in T
  OBVIOUS
<1> HIDE DEF T
<1>5. \A y \in s : x >= y
  BY <1>2, <1>3, <1>4
<1> QED
  BY <1>5, Zenon DEF Max

-----------------------------------------------------------------------------
GrowsBySubset(S, G) ==
  /\ {} \in G
  /\ \A s \in SUBSET S : s # {} => \E x \in s : s \ {x} \in G => s \in G

(* Induction over the subsets of a finite set, for the members of a set.   *)
LEMMA SubsetInduction ==
  ASSUME NEW S, IsFiniteSet(S), NEW G, GrowsBySubset(S, G)
  PROVE  \A s \in SUBSET S : s \in G
<1> USE DEF GrowsBySubset
<1> DEFINE H == {n \in Nat : \A s \in SUBSET S : Cardinality(s) = n => s \in G}
<1>1. \A s \in SUBSET S : IsFiniteSet(s) /\ Cardinality(s) \in 0 .. Cardinality(S)
  BY FS_Subset, FS_CardinalityType
<1>2. Cardinality(S) \in Nat
  BY FS_CardinalityType
<1>3. 0 \in H
  BY <1>1, FS_EmptySet
<1>4. ASSUME NEW k \in 1 .. Cardinality(S), k - 1 \in H PROVE k \in H
  <2> SUFFICES ASSUME NEW s \in SUBSET S, Cardinality(s) = k PROVE s \in G
    OBVIOUS
  <2>1. s # {}
    <3>1. Cardinality({}) = 0 /\ k # 0
      BY FS_EmptySet
    <3> QED
      BY <3>1
  <2>2. PICK x \in s : s \ {x} \in G => s \in G
    BY <2>1
  <2>3. Cardinality(s \ {x}) = k - 1
    BY <1>1, FS_RemoveElement
  <2>4. s \ {x} \in SUBSET S
    OBVIOUS
  <2> QED
    BY <1>4, <2>2, <2>3, <2>4
<1>5. 0 .. Cardinality(S) \subseteq H
  <2> HIDE DEF H
  <2> QED
    BY <1>2, <1>3, <1>4, IntervalInduction
<1> QED
  BY <1>1, <1>5

(* A sum as MapThenSumSet folds it.                                        *)
SumOver(f, S) == MapThenSumSet(LAMBDA x : f[x], S)

\* The sums of the parts of S, each by way of a smaller one.
Summed(f, S, sums) ==
  /\ sums[S] = SumOver(f, S)
  /\ sums[{}] = 0
  /\ \A s \in SUBSET S : s # {} => \E x \in s : sums[s] = f[x] + sums[s \ {x}]

(* MapThenSumSet adds one element after the other.                         *)
LEMMA SumSteps ==
  ASSUME NEW S, IsFiniteSet(S), NEW f, NEW V, V = Int \/ V = Nat, \A x \in S : f[x] \in V
  PROVE  \E sums \in [SUBSET S -> V] : Summed(f, S, sums)
<1> DEFINE one(s) == CHOOSE x \in s : TRUE
<1> DEFINE Body(iter) ==
      [s \in SUBSET S |-> IF s = {} THEN 0 ELSE f[one(s)] + iter[s \ {one(s)}]]
<1> DEFINE iter0 == CHOOSE iter : iter = Body(iter)
<1> DEFINE pick == [s \in SUBSET S |-> one(s)]
<1> DEFINE step == [z \in S \X V |-> f[z[1]] + z[2]]
<1>1. SumOver(f, S) = iter0[S]
  BY Zenon DEF SumOver, MapThenSumSet, MapThenFoldSet
<1>2. \A s \in SUBSET S : s # {} => pick[s] \in s /\ pick[s] = one(s)
  OBVIOUS
<1>3. \A x \in S, v \in V : step[<<x, v>>] = f[x] + v
  OBVIOUS
<1>4. \A x \in S, v \in V : f[x] + v \in V
  OBVIOUS
<1> HIDE DEF pick, step, one
<1>5. PICK g \in [SUBSET S -> V] : FoldSolved(S, 0, pick, step, g)
  <2>1. FoldData(S, V, 0, pick, step)
    BY <1>2, <1>3, <1>4 DEF FoldData
  <2> QED
    BY <2>1, FoldExists, Zenon
<1>6. g = Body(g)
  <2>1. ASSUME NEW s \in SUBSET S, s # {}
        PROVE  g[s] = f[one(s)] + g[s \ {one(s)}]
    <3>1. one(s) \in S /\ pick[s] = one(s) /\ g[s \ {one(s)}] \in V
      BY <1>2, <2>1
    <3>2. g[s] = step[<<one(s), g[s \ {one(s)}]>>]
      BY <1>5, <2>1, <3>1 DEF FoldSolved
    <3> QED
      BY <1>3, <3>1, <3>2, Zenon
  <2>2. \A s \in SUBSET S : Body(g)[s] = g[s]
    BY <1>5, <2>1 DEF FoldSolved
  <2> QED
    BY <2>2
<1>7. iter0 = Body(iter0)
  <2> HIDE DEF Body
  <2> QED
    BY <1>6, Zenon
<1> DEFINE G == {s \in SUBSET S : iter0[s] \in V}
<1>8. iter0[{}] = 0
  BY <1>7
<1>9. \A s \in SUBSET S : s # {} => iter0[s] = f[one(s)] + iter0[s \ {one(s)}]
  BY <1>7
<1>10. \A s \in SUBSET S : s \in G
  <2> HIDE DEF iter0
  <2>1. {} \in G
    BY <1>8
  <2>2. ASSUME NEW s \in SUBSET S, s # {} PROVE \E x \in s : s \ {x} \in G => s \in G
    <3>1. one(s) \in s /\ one(s) \in S
      BY <1>2, <2>2
    <3>2. s \ {one(s)} \in G => s \in G
      BY <1>4, <1>9, <2>2, <3>1
    <3> QED
      BY <3>1, <3>2
  <2> HIDE DEF G
  <2>3. GrowsBySubset(S, G)
    BY <2>1, <2>2 DEF GrowsBySubset
  <2> QED
    BY <2>3, SubsetInduction
<1>11. iter0 \in [SUBSET S -> V]
  <2>1. iter0 = [s \in SUBSET S |-> iter0[s]]
    BY <1>7
  <2> HIDE DEF iter0
  <2> QED
    BY <1>10, <2>1
<1>12. \A s \in SUBSET S : s # {} => one(s) \in s
  BY <1>2
<1> HIDE DEF iter0, one
<1>13. \A s \in SUBSET S : s # {} => \E x \in s : iter0[s] = f[x] + iter0[s \ {x}]
  BY <1>9, <1>12, Zenon
<1>14. Summed(f, S, iter0)
  BY <1>1, <1>8, <1>13, Zenon DEF Summed
<1> QED
  BY <1>11, <1>14

(* The sum of integers is one, that of natural numbers too.                *)
LEMMA SumType ==
  ASSUME NEW S, IsFiniteSet(S), NEW f \in [S -> Int], NEW V, V = Int \/ V = Nat, f \in [S -> V]
  PROVE  SumOver(f, S) \in V /\ (S = {} => SumOver(f, S) = 0)
<1>1. \A x \in S : f[x] \in V
  OBVIOUS
<1>2. PICK sums \in [SUBSET S -> V] : Summed(f, S, sums)
  BY <1>1, SumSteps, Zenon
<1> QED
  BY <1>2 DEF Summed

(* A sum of natural numbers is 0 only when they all are.                   *)
LEMMA SumIsZero ==
  ASSUME NEW S, IsFiniteSet(S), NEW f \in [S -> Nat]
  PROVE  SumOver(f, S) = 0 <=> \A x \in S : f[x] = 0
<1>1. \A x \in S : f[x] \in Nat
  OBVIOUS
<1>2. PICK sums \in [SUBSET S -> Nat] : Summed(f, S, sums)
  BY <1>1, SumSteps, Zenon
<1> DEFINE G == {s \in SUBSET S : sums[s] = 0 <=> \A x \in s : f[x] = 0}
<1>3. {} \in G
  BY <1>2 DEF Summed
<1>4. ASSUME NEW s \in SUBSET S, s # {} PROVE \E x \in s : s \ {x} \in G => s \in G
  <2>1. PICK x \in s : sums[s] = f[x] + sums[s \ {x}]
    BY <1>2, <1>4 DEF Summed
  <2>2. f[x] \in Nat /\ sums[s \ {x}] \in Nat
    BY <1>2
  <2>3. sums[s] = 0 <=> f[x] = 0 /\ sums[s \ {x}] = 0
    BY <2>1, <2>2
  <2> QED
    BY <2>3
<1> HIDE DEF G
<1>5. GrowsBySubset(S, G)
  BY <1>3, <1>4 DEF GrowsBySubset
<1>6. S \in G
  BY <1>5, SubsetInduction
<1> QED
  BY <1>2, <1>6 DEF G, Summed

\* The same, by way of any smaller one.
SummedAnyWay(f, S, sums) == \A s \in SUBSET S : \A x \in s : sums[s] = f[x] + sums[s \ {x}]

(* In which order the elements are added makes no difference.              *)
LEMMA AnyOrder ==
  ASSUME NEW S, IsFiniteSet(S), NEW f, \A x \in S : f[x] \in Int,
         NEW sums \in [SUBSET S -> Int], Summed(f, S, sums)
  PROVE  SummedAnyWay(f, S, sums)
<1> DEFINE H == {n \in Nat : \A s \in SUBSET S : Cardinality(s) = n =>
                               \A x \in s : sums[s] = f[x] + sums[s \ {x}]}
<1>1. \A s \in SUBSET S : IsFiniteSet(s) /\ Cardinality(s) \in 0 .. Cardinality(S)
  BY FS_Subset, FS_CardinalityType
<1>2. Cardinality(S) \in Nat
  BY FS_CardinalityType
<1>3. 0 \in H
  BY <1>1, FS_EmptySet
<1>4. ASSUME NEW k \in 1 .. Cardinality(S), k - 1 \in H PROVE k \in H
  <2>1. SUFFICES ASSUME NEW s \in SUBSET S, Cardinality(s) = k, NEW x \in s
                 PROVE  sums[s] = f[x] + sums[s \ {x}]
    OBVIOUS
  <2>2. PICK y \in s : sums[s] = f[y] + sums[s \ {y}]
    BY DEF Summed
  <2>3. CASE x = y
    BY <2>2, <2>3
  <2>4. CASE x # y
    <3>1. Cardinality(s \ {x}) = k - 1 /\ Cardinality(s \ {y}) = k - 1
      BY <1>1, <2>1, FS_RemoveElement
    <3>2. \A t \in SUBSET S : Cardinality(t) = k - 1 =>
            \A z \in t : sums[t] = f[z] + sums[t \ {z}]
      BY <1>4
    <3> HIDE DEF H
    <3>3. /\ s \ {x} \in SUBSET S /\ y \in s \ {x} /\ s \ {y} \in SUBSET S /\ x \in s \ {y}
          /\ (s \ {x}) \ {y} = (s \ {y}) \ {x} /\ (s \ {y}) \ {x} \in SUBSET S
      BY <2>4
    <3>4. /\ sums[s \ {x}] = f[y] + sums[(s \ {y}) \ {x}]
          /\ sums[s \ {y}] = f[x] + sums[(s \ {y}) \ {x}]
      <4>1. sums[s \ {x}] = f[y] + sums[(s \ {x}) \ {y}]
        BY <3>1, <3>2, <3>3, Zenon
      <4>2. sums[s \ {y}] = f[x] + sums[(s \ {y}) \ {x}]
        BY <3>1, <3>2, <3>3, Zenon
      <4> QED
        BY <3>3, <4>1, <4>2, Zenon
    <3>5. f[x] \in Int /\ f[y] \in Int /\ sums[(s \ {y}) \ {x}] \in Int
      BY <3>3
    <3> QED
      BY <2>2, <3>4, <3>5
  <2> QED
    BY <2>3, <2>4
<1>5. 0 .. Cardinality(S) \subseteq H
  <2> HIDE DEF H
  <2> QED
    BY <1>2, <1>3, <1>4, IntervalInduction
<1> QED
  BY <1>1, <1>5 DEF SummedAnyWay

\* How the sums over the parts of S are related.
SumRules(f, S, V) ==
  /\ SumOver(f, {}) = 0
  /\ \A s \in SUBSET S :
       SumOver(f, s) \in V /\ \A x \in s : SumOver(f, s) = f[x] + SumOver(f, s \ {x})

(* A sum, over any part of S, is any element of it and the sum of the rest.*)
LEMMA SumsOfParts ==
  ASSUME NEW S, IsFiniteSet(S), NEW f, NEW V, V = Int \/ V = Nat, \A x \in S : f[x] \in V
  PROVE  SumRules(f, S, V)
<1>1. PICK sums \in [SUBSET S -> V] : Summed(f, S, sums)
  BY SumSteps, Zenon
<1>2. \A s \in SUBSET S : \A x \in s : sums[s] = f[x] + sums[s \ {x}]
  <2>1. sums \in [SUBSET S -> Int] /\ \A x \in S : f[x] \in Int
    OBVIOUS
  <2>2. SummedAnyWay(f, S, sums)
    BY <1>1, <2>1, AnyOrder, Zenon
  <2> QED
    BY <2>2 DEF SummedAnyWay
<1>3. sums[{}] = 0
  BY <1>1 DEF Summed
<1>4. ASSUME NEW s \in SUBSET S PROVE SumOver(f, s) = sums[s]
  <2>1. IsFiniteSet(s) /\ \A x \in s : f[x] \in V
    BY FS_Subset
  <2>2. PICK part \in [SUBSET s -> V] : Summed(f, s, part)
    BY <2>1, SumSteps, Zenon
  <2> DEFINE G == {t \in SUBSET s : part[t] = sums[t]}
  <2>3. {} \in G
    BY <1>3, <2>2 DEF Summed
  <2>4. ASSUME NEW t \in SUBSET s, t # {} PROVE \E x \in t : t \ {x} \in G => t \in G
    <3>1. PICK x \in t : part[t] = f[x] + part[t \ {x}]
      BY <2>2, <2>4 DEF Summed
    <3>2. sums[t] = f[x] + sums[t \ {x}]
      BY <1>2
    <3> QED
      BY <3>1, <3>2
  <2> HIDE DEF G
  <2>5. s \in G
    <3>1. GrowsBySubset(s, G)
      BY <2>3, <2>4 DEF GrowsBySubset
    <3> QED
      BY <2>1, <3>1, SubsetInduction
  <2> QED
    BY <2>2, <2>5 DEF G, Summed
<1>5. SumOver(f, {}) = 0
  BY <1>3, <1>4
<1>6. ASSUME NEW s \in SUBSET S
      PROVE  SumOver(f, s) \in V /\ \A x \in s : SumOver(f, s) = f[x] + SumOver(f, s \ {x})
  BY <1>2, <1>4
<1> QED
  BY <1>5, <1>6, Zenon DEF SumRules

(* Where every term is at most its counterpart the sum is at most the      *)
(* other, and less when one term is.                                       *)
LEMMA SumMonotone ==
  ASSUME NEW S, IsFiniteSet(S), NEW f, NEW g,
         \A x \in S : f[x] \in Int /\ g[x] \in Int /\ f[x] <= g[x]
  PROVE  /\ SumOver(f, S) \in Int /\ SumOver(g, S) \in Int
         /\ SumOver(f, S) <= SumOver(g, S)
         /\ (\E x \in S : f[x] < g[x]) => SumOver(f, S) < SumOver(g, S)
<1>1. SumRules(f, S, Int) /\ SumRules(g, S, Int)
  BY SumsOfParts
<1>2. \A s \in SUBSET S : SumOver(f, s) \in Int /\ SumOver(g, s) \in Int
  BY <1>1, Zenon DEF SumRules
<1> DEFINE G == {s \in SUBSET S : SumOver(f, s) <= SumOver(g, s)}
<1>3. {} \in G
  BY <1>1 DEF SumRules
<1>4. ASSUME NEW s \in SUBSET S, NEW x \in s
      PROVE  /\ SumOver(f, s) = f[x] + SumOver(f, s \ {x})
             /\ SumOver(g, s) = g[x] + SumOver(g, s \ {x})
             /\ SumOver(f, s \ {x}) \in Int /\ SumOver(g, s \ {x}) \in Int
  <2>1. s \ {x} \in SUBSET S
    OBVIOUS
  <2> QED
    BY <1>1, <1>2, <2>1, Zenon DEF SumRules
<1>5. ASSUME NEW s \in SUBSET S, s # {} PROVE \E x \in s : s \ {x} \in G => s \in G
  <2>1. PICK x \in s : TRUE
    BY <1>5
  <2>2. SumOver(f, s \ {x}) <= SumOver(g, s \ {x}) => SumOver(f, s) <= SumOver(g, s)
    BY <1>4
  <2> QED
    BY <2>2
<1>6. \A s \in SUBSET S : SumOver(f, s) <= SumOver(g, s)
  <2> HIDE DEF G
  <2>1. GrowsBySubset(S, G)
    BY <1>3, <1>5 DEF GrowsBySubset
  <2>2. \A s \in SUBSET S : s \in G
    BY <2>1, SubsetInduction
  <2> QED
    BY <2>2 DEF G
<1>7. ASSUME NEW x \in S, f[x] < g[x] PROVE SumOver(f, S) < SumOver(g, S)
  <2>1. SumOver(f, S \ {x}) <= SumOver(g, S \ {x})
    BY <1>6
  <2> QED
    BY <1>4, <1>7, <2>1
<1> QED
  BY <1>2, <1>6, <1>7

(* Equal terms, equal sums.                                                *)
LEMMA SumSame ==
  ASSUME NEW S, IsFiniteSet(S), NEW f, NEW g, \A x \in S : f[x] \in Int /\ f[x] = g[x]
  PROVE  SumOver(f, S) \in Int /\ SumOver(f, S) = SumOver(g, S)
<1>1. \A x \in S : f[x] \in Int /\ g[x] \in Int /\ f[x] <= g[x] /\ g[x] <= f[x]
  OBVIOUS
<1>2. /\ SumOver(f, S) \in Int /\ SumOver(g, S) \in Int
      /\ SumOver(f, S) <= SumOver(g, S)
  BY <1>1, SumMonotone
<1>3. SumOver(g, S) <= SumOver(f, S)
  BY <1>1, SumMonotone
<1> QED
  BY <1>2, <1>3

\* Terms that fall, or stay and have a weight that does not rise.
Descends(f, f1, g, g1, S) ==
  \A x \in S : /\ f[x] \in Int /\ f1[x] \in Int /\ g[x] \in Int /\ g1[x] \in Int
               /\ f1[x] < f[x] \/ (f1[x] = f[x] /\ g1[x] <= g[x])

(* Then the sum falls, or stays and the sum of the weights falls.          *)
LEMMA SumDescends ==
  ASSUME NEW S, IsFiniteSet(S), NEW f, NEW f1, NEW g, NEW g1, Descends(f, f1, g, g1, S),
         \E x \in S : f1[x] < f[x] \/ g1[x] < g[x]
  PROVE  \/ SumOver(f1, S) < SumOver(f, S)
         \/ SumOver(f1, S) = SumOver(f, S) /\ SumOver(g1, S) < SumOver(g, S)
<1>1. CASE \E x \in S : f1[x] < f[x]
  <2>1. \A x \in S : f1[x] \in Int /\ f[x] \in Int /\ f1[x] <= f[x]
    BY DEF Descends
  <2>2. SumOver(f1, S) < SumOver(f, S)
    BY <1>1, <2>1, SumMonotone
  <2> QED
    BY <2>2
<1>2. CASE ~\E x \in S : f1[x] < f[x]
  <2>1. \A x \in S : f1[x] \in Int /\ f1[x] = f[x]
    BY <1>2 DEF Descends
  <2>2. \A x \in S : g1[x] \in Int /\ g[x] \in Int /\ g1[x] <= g[x]
    BY <1>2 DEF Descends
  <2>3. \E x \in S : g1[x] < g[x]
    BY <1>2
  <2>4. SumOver(f1, S) = SumOver(f, S)
    BY <2>1, SumSame
  <2>5. SumOver(g1, S) < SumOver(g, S)
    BY <2>2, <2>3, SumMonotone
  <2> QED
    BY <2>4, <2>5
<1> QED
  BY <1>1, <1>2

\* The terms of f are made of those of g, h and p, and so is their sum.
AffineTerms(f, g, h, p, a, b, S) ==
  \A x \in S : /\ f[x] \in Int /\ g[x] \in Int /\ h[x] \in Int /\ p[x] \in Int
               /\ f[x] = g[x] + h[x] + a * p[x] + b

AffineSums(f, g, h, p, a, b, S) ==
  /\ SumOver(f, S) \in Int /\ SumOver(g, S) \in Int /\ SumOver(h, S) \in Int
  /\ SumOver(f, S) = SumOver(g, S) + SumOver(h, S) + a * SumOver(p, S) + b * Cardinality(S)

(* Adding, term by term, a second sum, a multiple of a third and a         *)
(* constant.                                                               *)
LEMMA SumAffine ==
  ASSUME NEW S, IsFiniteSet(S), NEW f, NEW g, NEW h, NEW p, NEW a \in Int, NEW b \in Int,
         AffineTerms(f, g, h, p, a, b, S)
  PROVE  AffineSums(f, g, h, p, a, b, S)
<1> USE DEF AffineTerms, AffineSums
<1>1. SumRules(f, S, Int) /\ SumRules(g, S, Int) /\ SumRules(h, S, Int) /\ SumRules(p, S, Int)
  BY SumsOfParts
<1>2. ASSUME NEW s \in SUBSET S
      PROVE  /\ SumOver(f, s) \in Int /\ SumOver(g, s) \in Int
             /\ SumOver(h, s) \in Int /\ SumOver(p, s) \in Int
             /\ IsFiniteSet(s) /\ Cardinality(s) \in Int
  BY <1>1, FS_Subset, FS_CardinalityType DEF SumRules
<1> DEFINE Holds(s) == SumOver(f, s)
              = SumOver(g, s) + SumOver(h, s) + a * SumOver(p, s) + b * Cardinality(s)
           G == {s \in SUBSET S : Holds(s)}
<1>3. {} \in G
  <2>1. /\ SumOver(f, {}) = 0 /\ SumOver(g, {}) = 0 /\ SumOver(h, {}) = 0 /\ SumOver(p, {}) = 0
        /\ Cardinality({}) = 0
    BY <1>1, FS_EmptySet, Zenon DEF SumRules
  <2> QED
    BY <2>1
<1>4. ASSUME NEW s \in SUBSET S, s # {} PROVE \E x \in s : s \ {x} \in G => s \in G
  <2>1. PICK x \in s : TRUE
    BY <1>4
  <2>2. /\ SumOver(f, s) = f[x] + SumOver(f, s \ {x})
        /\ SumOver(g, s) = g[x] + SumOver(g, s \ {x})
        /\ SumOver(h, s) = h[x] + SumOver(h, s \ {x})
        /\ SumOver(p, s) = p[x] + SumOver(p, s \ {x})
    BY <1>1, Zenon DEF SumRules
  <2>3. Cardinality(s) = Cardinality(s \ {x}) + 1 /\ s \ {x} \in SUBSET S
    <3>1. Cardinality(s \ {x}) = Cardinality(s) - 1
      BY <1>2, FS_RemoveElement
    <3> QED
      BY <1>2, <3>1
  <2>4. /\ f[x] \in Int /\ g[x] \in Int /\ h[x] \in Int /\ p[x] \in Int
        /\ f[x] = g[x] + h[x] + a * p[x] + b
    OBVIOUS
  <2>5. \A u, v, w, y, z \in Int :
          /\ a * (u + v) = a * u + a * v /\ a * u \in Int /\ a * v \in Int
          /\ b * (u + 1) = b * u + b /\ b * u \in Int
    OBVIOUS
  <2>6. ASSUME Holds(s \ {x}) PROVE Holds(s)
    <3>1. /\ SumOver(f, s \ {x}) \in Int /\ SumOver(g, s \ {x}) \in Int
          /\ SumOver(h, s \ {x}) \in Int /\ SumOver(p, s \ {x}) \in Int
          /\ Cardinality(s \ {x}) \in Int
      BY <1>2, <2>3
    <3>2. /\ a * SumOver(p, s) = a * p[x] + a * SumOver(p, s \ {x})
          /\ a * p[x] \in Int /\ a * SumOver(p, s \ {x}) \in Int
          /\ b * Cardinality(s) = b * Cardinality(s \ {x}) + b
          /\ b * Cardinality(s \ {x}) \in Int
      <4>1. a * (p[x] + SumOver(p, s \ {x})) = a * p[x] + a * SumOver(p, s \ {x})
        BY <2>4, <2>5, <3>1, Zenon
      <4>2. b * (Cardinality(s \ {x}) + 1) = b * Cardinality(s \ {x}) + b
        BY <2>5, <3>1, Zenon
      <4> QED
        BY <2>2, <2>3, <2>4, <2>5, <3>1, <4>1, <4>2, Zenon
    <3> QED
      BY <2>2, <2>4, <2>6, <3>1, <3>2
  <2> QED
    BY <2>3, <2>6
<1> HIDE DEF G
<1>5. S \in G
  <2>1. GrowsBySubset(S, G)
    BY <1>3, <1>4 DEF GrowsBySubset
  <2> QED
    BY <2>1, SubsetInduction
<1> QED
  BY <1>2, <1>5 DEF G

(* The sum over two sets without a common element.                         *)
LEMMA SumUnion ==
  ASSUME NEW S, IsFiniteSet(S), NEW f, \A x \in S : f[x] \in Int,
         NEW A \in SUBSET S, NEW B \in SUBSET S, A \cap B = {}
  PROVE  SumOver(f, A \cup B) = SumOver(f, A) + SumOver(f, B)
<1>1. SumRules(f, S, Int)
  BY SumsOfParts
<1>2. \A s \in SUBSET S : SumOver(f, s) \in Int
  BY <1>1, Zenon DEF SumRules
<1> DEFINE G == {s \in SUBSET B : SumOver(f, A \cup s) = SumOver(f, A) + SumOver(f, s)}
<1>3. {} \in G
  <2>1. A \cup {} = A
    OBVIOUS
  <2> QED
    BY <1>1, <1>2, <2>1 DEF SumRules
<1>4. ASSUME NEW s \in SUBSET B, s # {} PROVE \E x \in s : s \ {x} \in G => s \in G
  <2>1. PICK x \in s : TRUE
    BY <1>4
  <2>2. /\ A \cup s \in SUBSET S /\ x \in A \cup s /\ s \in SUBSET S
        /\ (A \cup s) \ {x} = A \cup (s \ {x})
        /\ A \cup (s \ {x}) \in SUBSET S /\ s \ {x} \in SUBSET S
    OBVIOUS
  <2>3. /\ SumOver(f, A \cup s) = f[x] + SumOver(f, A \cup (s \ {x}))
        /\ SumOver(f, s) = f[x] + SumOver(f, s \ {x})
    BY <1>1, <2>2, Zenon DEF SumRules
  <2>4. /\ SumOver(f, A) \in Int /\ SumOver(f, s \ {x}) \in Int /\ f[x] \in Int
    BY <1>2, <2>2
  <2>5. SumOver(f, A \cup (s \ {x})) = SumOver(f, A) + SumOver(f, s \ {x}) =>
          SumOver(f, A \cup s) = SumOver(f, A) + SumOver(f, s)
    BY <2>3, <2>4
  <2> QED
    BY <2>5
<1> HIDE DEF G
<1>5. B \in G
  <2>1. GrowsBySubset(B, G) /\ IsFiniteSet(B)
    BY <1>3, <1>4, FS_Subset DEF GrowsBySubset
  <2> QED
    BY <2>1, SubsetInduction
<1> QED
  BY <1>5 DEF G

(* A sum that is at most another one over each of the groups that partition*)
(* a set is at most the other over the set.                                *)
LEMMA SumByGroups ==
  ASSUME NEW S, IsFiniteSet(S), NEW L, IsFiniteSet(L), NEW group \in [S -> L],
         NEW f, NEW g, \A x \in S : f[x] \in Int /\ g[x] \in Int,
         \A l \in L : SumOver(f, {x \in S : group[x] = l}) <= SumOver(g, {x \in S : group[x] = l})
  PROVE  SumOver(f, S) <= SumOver(g, S)
<1> DEFINE In(s) == {x \in S : group[x] \in s}
           Only(l) == {x \in S : group[x] = l}
           G == {s \in SUBSET L : SumOver(f, In(s)) <= SumOver(g, In(s))}
<1>1. SumRules(f, S, Int) /\ SumRules(g, S, Int)
  BY SumsOfParts
<1>2. \A s \in SUBSET S : SumOver(f, s) \in Int /\ SumOver(g, s) \in Int
  BY <1>1, Zenon DEF SumRules
<1>3. {} \in G
  <2>1. In({}) = {}
    OBVIOUS
  <2> HIDE DEF In
  <2> QED
    BY <1>1, <2>1 DEF SumRules
<1>4. ASSUME NEW s \in SUBSET L, s # {} PROVE \E l \in s : s \ {l} \in G => s \in G
  <2>1. PICK l \in s : TRUE
    BY <1>4
  <2>2. /\ In(s) = In(s \ {l}) \cup Only(l) /\ In(s \ {l}) \cap Only(l) = {}
        /\ In(s \ {l}) \in SUBSET S /\ Only(l) \in SUBSET S /\ In(s) \in SUBSET S
    OBVIOUS
  <2>3. SumOver(f, Only(l)) <= SumOver(g, Only(l))
    OBVIOUS
  <2> HIDE DEF In, Only
  <2>4. s \ {l} \in G => SumOver(f, In(s \ {l})) <= SumOver(g, In(s \ {l}))
    OBVIOUS
  <2>5. SumOver(f, In(s)) <= SumOver(g, In(s)) => s \in G
    OBVIOUS
  <2> HIDE DEF G
  <2> DEFINE A == In(s \ {l})
             B == Only(l)
  <2>6. In(s) = A \cup B /\ A \cap B = {} /\ A \in SUBSET S /\ B \in SUBSET S
    BY <2>2
  <2>7. SumOver(f, A) \in Int /\ SumOver(f, B) \in Int /\ SumOver(g, A) \in Int /\ SumOver(g, B) \in Int
    BY <1>2, <2>6, Zenon
  <2> HIDE DEF A, B
  <2>8. SumOver(f, A \cup B) = SumOver(f, A) + SumOver(f, B)
    BY <2>6, SumUnion
  <2>9. SumOver(g, A \cup B) = SumOver(g, A) + SumOver(g, B)
    BY <2>6, SumUnion
  <2>10. SumOver(f, A) <= SumOver(g, A) => SumOver(f, A \cup B) <= SumOver(g, A \cup B)
    BY <2>3, <2>7, <2>8, <2>9 DEF B
  <2>11. s \ {l} \in G => s \in G
    BY <2>4, <2>5, <2>6, <2>10, Zenon DEF A
  <2> QED
    BY <2>1, <2>11
<1> HIDE DEF G
<1>5. L \in G
  <2>1. GrowsBySubset(L, G)
    BY <1>3, <1>4 DEF GrowsBySubset
  <2> QED
    BY <2>1, SubsetInduction
<1>6. In(L) = S
  OBVIOUS
<1> QED
  BY <1>5, <1>6 DEF G

(* Every number of an interval divides the product of them all.            *)
LEMMA ProductIsMultiple ==
  ASSUME NEW N \in Nat
  PROVE  /\ ProductSet(1 .. N) \in Nat \ {0}
         /\ \A n \in 1 .. N : \E k \in Nat \ {0} : ProductSet(1 .. N) = n * k
<1> DEFINE S == 1 .. N
           V == Nat \ {0}
           one(s) == CHOOSE x \in s : TRUE
           Body(iter) == [s \in SUBSET S |-> IF s = {} THEN 1 ELSE one(s) * iter[s \ {one(s)}]]
           iter0 == CHOOSE iter : iter = Body(iter)
           pick == [s \in SUBSET S |-> one(s)]
           step == [z \in S \X V |-> z[1] * z[2]]
<1>1. ProductSet(S) = iter0[S]
  BY Zenon DEF ProductSet, FoldSet, MapThenFoldSet
<1>2. \A s \in SUBSET S : s # {} => pick[s] \in s /\ pick[s] = one(s)
  OBVIOUS
<1>3. \A x \in S, v \in V : step[<<x, v>>] = x * v
  OBVIOUS
<1>4. \A x \in S, v \in V : x * v \in V
  OBVIOUS
<1>5. IsFiniteSet(S) /\ 1 \in V /\ S \subseteq V
  BY FS_Interval
<1> HIDE DEF pick, step, one, S, V
<1>6. PICK g \in [SUBSET S -> V] : FoldSolved(S, 1, pick, step, g)
  <2>1. FoldData(S, V, 1, pick, step)
    BY <1>2, <1>3, <1>4, <1>5 DEF FoldData
  <2> QED
    BY <2>1, FoldExists, Zenon
<1>7. g = Body(g)
  <2>1. ASSUME NEW s \in SUBSET S, s # {}
        PROVE  g[s] = one(s) * g[s \ {one(s)}]
    <3>1. one(s) \in S /\ pick[s] = one(s) /\ g[s \ {one(s)}] \in V
      BY <1>2, <2>1
    <3>2. g[s] = step[<<one(s), g[s \ {one(s)}]>>]
      BY <1>6, <2>1, <3>1 DEF FoldSolved
    <3> QED
      BY <1>3, <3>1, <3>2, Zenon
  <2>2. \A s \in SUBSET S : Body(g)[s] = g[s]
    BY <1>6, <2>1 DEF FoldSolved
  <2> QED
    BY <2>2
<1>8. iter0 = Body(iter0)
  <2> HIDE DEF Body
  <2> QED
    BY <1>7, Zenon
<1> DEFINE Multiple(s) ==
             iter0[s] \in V /\ \A n \in s : \E k \in V : iter0[s] = n * k
           G == {s \in SUBSET S : Multiple(s)}
<1>9. iter0[{}] = 1
  BY <1>8
<1>10. \A s \in SUBSET S : s # {} => iter0[s] = one(s) * iter0[s \ {one(s)}]
  BY <1>8
<1> HIDE DEF iter0
<1>11. {} \in G
  BY <1>5, <1>9
<1>12. ASSUME NEW s \in SUBSET S, s # {} PROVE \E x \in s : s \ {x} \in G => s \in G
  <2>1. one(s) \in s /\ one(s) \in V
    BY <1>2, <1>5, <1>12
  <2> SUFFICES ASSUME s \ {one(s)} \in G PROVE s \in G
    BY <2>1
  <2> DEFINE x == one(s)
             r == iter0[s \ {x}]
  <2>2. r \in V /\ \A n \in s \ {x} : \E k \in V : r = n * k
    OBVIOUS
  <2>3. iter0[s] = x * r
    BY <1>10, <1>12
  <2> HIDE DEF r, x, G
  <2>4. \A m, k, n \in V : n * k \in V /\ m * (n * k) = n * (m * k)
    BY DEF V
  <2>5. x \in V
    BY <2>1 DEF x
  <2>6. iter0[s] \in V
    BY <1>4, <2>1, <2>2, <2>3, <2>5, <2>4 DEF V
  <2>7. ASSUME NEW n \in s PROVE \E k \in V : iter0[s] = n * k
    <3>1. CASE n = x
      BY <2>2, <2>3, <3>1
    <3>2. CASE n # x
      <4>1. PICK k \in V : r = n * k
        BY <2>2, <3>2
      <4>2. n \in V /\ x * k \in V
        BY <1>5, <2>4, <2>5
      <4>3. iter0[s] = n * (x * k)
        BY <2>3, <2>4, <2>5, <4>1, <4>2
      <4> QED
        BY <4>2, <4>3
    <3> QED
      BY <3>1, <3>2
  <2> QED
    BY <2>6, <2>7 DEF G
<1> HIDE DEF G
<1>13. S \in G
  <2>1. GrowsBySubset(S, G)
    BY <1>11, <1>12 DEF GrowsBySubset
  <2> QED
    BY <1>5, <2>1, SubsetInduction
<1> QED
  BY <1>1, <1>13 DEF G, S, V

-----------------------------------------------------------------------------
(* FoldLeft, for an operator that is a function step on the values V that  *)
(* the fold takes and the elements of the sequence.                        *)

\* The recursion on the parts of the domain that FoldLeft is defined by.
LeftRecursion(step, base, seq, V, iter) ==
  /\ iter[{}] = base
  /\ \A s \in SUBSET DOMAIN seq :
       s # {} /\ iter[s \ {Max(s)}] \in V =>
         iter[s] = step[<<iter[s \ {Max(s)}], seq[Max(s)]>>]

\* The fold of every prefix, each by way of the one before.
LeftFold(step, base, seq, fold) ==
  /\ fold[0] = base
  /\ \A k \in 1 .. Len(seq) : fold[k] = step[<<fold[k - 1], seq[k]>>]

\* The fold of the whole sequence.
FoldsTo(step, base, seq, V, result) ==
  \E fold \in [0 .. Len(seq) -> V] : LeftFold(step, base, seq, fold) /\ result = fold[Len(seq)]

(* The recursion has a solution, with all its values in V.                 *)
LEMMA LeftExists ==
  ASSUME NEW V, NEW E, NEW base \in V, NEW step \in [V \X E -> V], NEW seq \in Seq(E)
  PROVE  \E g \in [SUBSET DOMAIN seq -> V] : LeftRecursion(step, base, seq, V, g)
<1> DEFINE S == DOMAIN seq
           pick == [s \in SUBSET S |-> Max(s)]
           both == [z \in S \X V |-> step[<<z[2], seq[z[1]]>>]]
<1>1. S = 1 .. Len(seq) /\ Len(seq) \in Nat /\ \A i \in S : seq[i] \in E
  BY SeqFacts
<1>2. IsFiniteSet(S)
  BY <1>1, FS_Interval
<1>3. \A s \in SUBSET S : s # {} => pick[s] = Max(s) /\ Max(s) \in s
  BY <1>1, MaxOfInterval
<1>4. \A x \in S, v \in V : both[<<x, v>>] = step[<<v, seq[x]>>] /\ both[<<x, v>>] \in V
  BY <1>1
<1> HIDE DEF pick, both, S
<1>5. PICK g \in [SUBSET S -> V] : FoldSolved(S, base, pick, both, g)
  <2>1. FoldData(S, V, base, pick, both)
    BY <1>2, <1>3, <1>4 DEF FoldData
  <2> QED
    BY <2>1, FoldExists, Zenon
<1>6. g[{}] = base
  BY <1>5 DEF FoldSolved
<1>7. ASSUME NEW s \in SUBSET S, s # {} PROVE g[s] = step[<<g[s \ {Max(s)}], seq[Max(s)]>>]
  <2>1. Max(s) \in S /\ pick[s] = Max(s) /\ s \ {Max(s)} \in SUBSET S
    BY <1>3, <1>7
  <2>2. g[s \ {Max(s)}] \in V
    BY <1>5, <2>1
  <2>3. g[s] = both[<<Max(s), g[s \ {Max(s)}]>>]
    BY <1>5, <1>7, <2>1 DEF FoldSolved
  <2> QED
    BY <1>4, <2>1, <2>2, <2>3
<1>8. LeftRecursion(step, base, seq, V, g)
  BY <1>6, <1>7, Zenon DEF LeftRecursion, S
<1> QED
  BY <1>5, <1>8 DEF S

(* A solution of the recursion folds one element after the other.          *)
LEMMA LeftSteps ==
  ASSUME NEW V, NEW E, NEW base \in V, NEW step \in [V \X E -> V], NEW seq \in Seq(E),
         NEW iter, LeftRecursion(step, base, seq, V, iter)
  PROVE  FoldsTo(step, base, seq, V, iter[DOMAIN seq])
<1> DEFINE n == Len(seq)
           Good == {k \in 0 .. n : iter[1 .. k] \in V}
           fold == [k \in 0 .. n |-> iter[1 .. k]]
<1>1. DOMAIN seq = 1 .. n /\ n \in Nat /\ \A i \in 1 .. n : seq[i] \in E
  BY SeqFacts
<1> HIDE DEF n
<1>2. iter[1 .. 0] = base
  <2>1. 1 .. 0 = {}
    OBVIOUS
  <2> QED
    BY <2>1, Zenon DEF LeftRecursion
<1>3. ASSUME NEW k \in 1 .. n, iter[1 .. (k - 1)] \in V
      PROVE  iter[1 .. k] = step[<<iter[1 .. (k - 1)], seq[k]>>]
  <2>1. 1 .. k \in SUBSET DOMAIN seq /\ 1 .. k # {} /\ k \in Nat /\ k \in 1 .. k
    <3>1. k \in Nat /\ k \in 1 .. k /\ 1 .. k \subseteq 1 .. n
      BY <1>1
    <3> QED
      BY <1>1, <3>1, Zenon
  <2>2. Max(1 .. k) = k
    <3>1. Max(1 .. k) \in 1 .. k /\ Max(1 .. k) >= k
      BY <2>1, MaxOfInterval
    <3> QED
      BY <2>1, <3>1
  <2>3. (1 .. k) \ {k} = 1 .. (k - 1)
    OBVIOUS
  <2> QED
    BY <1>3, <2>1, <2>2, <2>3, Zenon DEF LeftRecursion
<1>4. 0 .. n \subseteq Good
  <2>1. 0 \in Good
    BY <1>1, <1>2
  <2>2. ASSUME NEW k \in 1 .. n, k - 1 \in Good PROVE k \in Good
    <3>1. iter[1 .. (k - 1)] \in V /\ seq[k] \in E
      BY <1>1, <2>2
    <3>2. step[<<iter[1 .. (k - 1)], seq[k]>>] \in V
      BY <3>1
    <3> QED
      BY <1>3, <3>1, <3>2
  <2> HIDE DEF Good
  <2> QED
    BY <1>1, <2>1, <2>2, IntervalInduction
<1>5. \A k \in 0 .. n : iter[1 .. k] \in V /\ fold[k] = iter[1 .. k]
  BY <1>4
<1>6. fold \in [0 .. n -> V]
  BY <1>5
<1> HIDE DEF fold, Good
<1>7. fold[0] = base /\ fold[n] = iter[DOMAIN seq]
  BY <1>1, <1>2, <1>5
<1>8. ASSUME NEW k \in 1 .. n PROVE fold[k] = step[<<fold[k - 1], seq[k]>>]
  <2>1. k - 1 \in 0 .. n /\ k \in 0 .. n
    BY <1>1
  <2> QED
    BY <1>3, <1>5, <2>1
<1> QED
  BY <1>6, <1>7, <1>8 DEF FoldsTo, LeftFold, n

=============================================================================
