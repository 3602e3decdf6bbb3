------------------------------ MODULE FiniteSums -----------------------------
(***************************************************************************)
(* Facts about naturals, finite sums and orders that the proofs share.     *)
(* Induction is by a smallest counterexample.                              *)
(***************************************************************************)
EXTENDS Ranks, FiniteSetsExt, FiniteSetTheorems, TLAPS

LEMMA LeastNatural ==
  ASSUME NEW T \in SUBSET Nat, T # {}
  PROVE  \E n \in T : \A m \in T : n <= m
<1>1. PICK n \in T : \A m \in T : <<m, n>> \notin OpToRel(<, Nat)
  BY NatLessThanWellFounded, WFMin
<1>2. \A m \in T : ~(m < n)
  BY <1>1 DEF OpToRel
<1>3. n \in Nat
  OBVIOUS
<1> QED BY <1>2, <1>3

\* Each unit of time of each interval.
Cells(s, v) == {c \in s \X (Nat \ {0}) : c[2] <= v[c[1]]}

LEMMA OneMore ==
  ASSUME NEW s, NEW x \in s, NEW v \in [s -> Nat], IsFiniteSet(Cells(s \ {x}, v))
  PROVE  /\ IsFiniteSet(Cells(s, v))
         /\ Cardinality(Cells(s, v)) = v[x] + Cardinality(Cells(s \ {x}, v))
<1> DEFINE new == {x} \X (1..v[x])
<1>1. v[x] \in Nat
  OBVIOUS
<1>2. Cells(s, v) = Cells(s \ {x}, v) \cup new
  BY <1>1 DEF Cells
<1>3. Cells(s \ {x}, v) \cap new = {}
  BY DEF Cells
<1>4. IsFiniteSet(1..v[x]) /\ Cardinality(1..v[x]) = v[x]
  <2>1. 1 \in Int /\ v[x] \in Int
    BY <1>1
  <2>2. Cardinality(1..v[x]) = IF 1 > v[x] THEN 0 ELSE v[x] - 1 + 1
    BY <2>1, FS_Interval
  <2> QED BY <1>1, <2>1, <2>2, FS_Interval
<1>5. IsFiniteSet({x}) /\ Cardinality({x}) = 1
  BY FS_Singleton
<1>6. IsFiniteSet(new) /\ Cardinality(new) = 1 * v[x]
  <2>1. /\ IsFiniteSet({x} \X (1..v[x]))
        /\ Cardinality({x} \X (1..v[x])) = Cardinality({x}) * Cardinality(1..v[x])
    BY <1>4, <1>5, FS_Product
  <2> QED BY <1>4, <1>5, <2>1
<1>7. /\ IsFiniteSet(Cells(s \ {x}, v) \cup new)
      /\ Cardinality(Cells(s \ {x}, v) \cup new) =
           Cardinality(Cells(s \ {x}, v)) + Cardinality(new) - Cardinality(Cells(s \ {x}, v) \cap new)
  BY <1>6, FS_Union
<1>8. Cardinality(Cells(s \ {x}, v) \cap new) = 0 /\ Cardinality(Cells(s \ {x}, v)) \in Nat
  BY <1>3, FS_EmptySet, FS_CardinalityType
<1> HIDE DEF new
<1> QED BY <1>1, <1>2, <1>6, <1>7, <1>8

\* The recursive sum over subsets of S, which takes the elements as they come.
IsSum(g, S, v) ==
  g = [s \in SUBSET S |-> IF s = {} THEN 0
                          ELSE v[CHOOSE x \in s : TRUE] + g[s \ {CHOOSE x \in s : TRUE}]]

\* Induction over the subsets of a finite set, by a smallest counterexample.
LEMMA CellsFinite ==
  ASSUME NEW S, IsFiniteSet(S), NEW v \in [S -> Nat]
  PROVE  \A s \in SUBSET S : IsFiniteSet(Cells(s, v))
<1> DEFINE bad == {n \in Nat : \E s \in SUBSET S : Cardinality(s) = n /\ ~IsFiniteSet(Cells(s, v))}
<1>1. SUFFICES ASSUME NEW s0 \in SUBSET S, ~IsFiniteSet(Cells(s0, v)) PROVE FALSE
  OBVIOUS
<1>2. \A s \in SUBSET S : IsFiniteSet(s) /\ Cardinality(s) \in Nat
  BY FS_Subset, FS_CardinalityType
<1>3. bad # {} /\ bad \in SUBSET Nat
  BY <1>1, <1>2
<1>4. PICK n \in bad : \A m \in bad : n <= m
  <2> HIDE DEF bad
  <2> QED BY <1>3, LeastNatural
<1>5. PICK s \in SUBSET S : Cardinality(s) = n /\ ~IsFiniteSet(Cells(s, v))
  BY <1>4
<1>6. s # {}
  <2>1. Cells({}, v) = {}
    BY DEF Cells
  <2> QED BY <1>5, <2>1, FS_EmptySet
<1>7. PICK x \in s : TRUE
  BY <1>6
<1>8. Cardinality(s \ {x}) = n - 1 /\ s \ {x} \in SUBSET S
  BY <1>2, <1>5, FS_RemoveElement
<1>9. n \in Nat /\ n - 1 \in Nat
  BY <1>2, <1>5, <1>8
<1>10. IsFiniteSet(Cells(s \ {x}, v))
  BY <1>4, <1>8, <1>9
<1>11. \A t \in SUBSET s : Cells(t, v) = Cells(t, [i \in s |-> v[i]])
  BY DEF Cells
<1>12. IsFiniteSet(Cells(s, [i \in s |-> v[i]]))
  <2>1. [i \in s |-> v[i]] \in [s -> Nat] /\ s \ {x} \in SUBSET s
    OBVIOUS
  <2>2. IsFiniteSet(Cells(s \ {x}, [i \in s |-> v[i]]))
    BY <1>10, <1>11, <2>1
  <2> QED BY <2>1, <2>2, OneMore
<1> QED BY <1>5, <1>11, <1>12

\* The recursive sum over a finite set, of naturals.
LEMMA SumIsCells ==
  ASSUME NEW S, IsFiniteSet(S), NEW v \in [S -> Nat], NEW g, IsSum(g, S, v)
  PROVE  g[S] = Cardinality(Cells(S, v))
<1> DEFINE bad == {n \in Nat : \E s \in SUBSET S : Cardinality(s) = n /\ g[s] # Cardinality(Cells(s, v))}
<1>1. SUFFICES ASSUME g[S] # Cardinality(Cells(S, v)) PROVE FALSE
  OBVIOUS
<1>2. \A s \in SUBSET S : IsFiniteSet(s) /\ Cardinality(s) \in Nat
  BY FS_Subset, FS_CardinalityType
<1>3. bad # {} /\ bad \in SUBSET Nat
  <2>1. S \in SUBSET S
    OBVIOUS
  <2> QED BY <1>1, <1>2, <2>1
<1>4. PICK n \in bad : \A m \in bad : n <= m
  <2> HIDE DEF bad
  <2> QED BY <1>3, LeastNatural
<1>5. PICK s \in SUBSET S : Cardinality(s) = n /\ g[s] # Cardinality(Cells(s, v))
  BY <1>4
<1>6. s # {}
  <2>1. Cells({}, v) = {}
    BY DEF Cells
  <2>2. g[{}] = 0
    <3>1. {} \in SUBSET S
      OBVIOUS
    <3> QED BY <3>1 DEF IsSum
  <2> QED BY <1>5, <2>1, <2>2, FS_EmptySet
<1>7. PICK x : x = CHOOSE y \in s : TRUE
  OBVIOUS
<1>8. x \in s
  BY <1>6, <1>7
<1>9. g[s] = v[x] + g[s \ {x}]
  BY <1>6, <1>7 DEF IsSum
<1>10. Cardinality(s \ {x}) = n - 1 /\ s \ {x} \in SUBSET S
  BY <1>2, <1>5, <1>8, FS_RemoveElement
<1>11. n \in Nat /\ n - 1 \in Nat
  BY <1>2, <1>5, <1>10
<1>12. g[s \ {x}] = Cardinality(Cells(s \ {x}, v))
  <2>1. SUFFICES ASSUME g[s \ {x}] # Cardinality(Cells(s \ {x}, v)) PROVE FALSE
    OBVIOUS
  <2>2. n - 1 \in bad
    BY <1>10, <1>11, <2>1
  <2>3. n <= n - 1
    BY <1>4, <2>2
  <2> QED BY <1>11, <2>3
<1>13. \A t \in SUBSET s : Cells(t, v) = Cells(t, [i \in s |-> v[i]])
  BY DEF Cells
<1>14. Cardinality(Cells(s, v)) = v[x] + Cardinality(Cells(s \ {x}, v))
  <2>1. [i \in s |-> v[i]] \in [s -> Nat] /\ s \ {x} \in SUBSET s /\ [i \in s |-> v[i]][x] = v[x]
    BY <1>8
  <2>2. IsFiniteSet(Cells(s \ {x}, [i \in s |-> v[i]]))
    BY <1>10, <1>13, <2>1, CellsFinite
  <2>3. Cardinality(Cells(s, [i \in s |-> v[i]]))
          = v[x] + Cardinality(Cells(s \ {x}, [i \in s |-> v[i]]))
    BY <1>8, <2>1, <2>2, OneMore
  <2> QED BY <1>13, <2>1, <2>3
<1> QED BY <1>5, <1>9, <1>12, <1>14

\* So there is such a sum.
LEMMA SumExists ==
  ASSUME NEW S, IsFiniteSet(S), NEW v \in [S -> Nat]
  PROVE  \E g : IsSum(g, S, v)
<1> DEFINE g == [s \in SUBSET S |-> Cardinality(Cells(s, v))]
<1>1. ASSUME NEW s \in SUBSET S
      PROVE  g[s] = IF s = {} THEN 0
                    ELSE v[CHOOSE x \in s : TRUE] + g[s \ {CHOOSE x \in s : TRUE}]
  <2>1. CASE s = {}
    <3>1. Cells({}, v) = {}
      BY DEF Cells
    <3> QED BY <2>1, <3>1, FS_EmptySet
  <2>2. CASE s # {}
    <3>1. PICK x : x = CHOOSE y \in s : TRUE
      OBVIOUS
    <3>2. x \in s
      BY <2>2, <3>1
    <3>3. s \ {x} \in SUBSET S
      OBVIOUS
    <3>4. \A t \in SUBSET s : Cells(t, v) = Cells(t, [i \in s |-> v[i]])
      BY DEF Cells
    <3>5. Cardinality(Cells(s, v)) = v[x] + Cardinality(Cells(s \ {x}, v))
      <4>1. [i \in s |-> v[i]] \in [s -> Nat] /\ s \ {x} \in SUBSET s /\ [i \in s |-> v[i]][x] = v[x]
        BY <3>2
      <4>2. IsFiniteSet(Cells(s \ {x}, [i \in s |-> v[i]]))
        BY <3>3, <3>4, <4>1, CellsFinite
      <4>3. Cardinality(Cells(s, [i \in s |-> v[i]]))
              = v[x] + Cardinality(Cells(s \ {x}, [i \in s |-> v[i]]))
        BY <3>2, <4>1, <4>2, OneMore
      <4> QED BY <3>4, <4>1, <4>3
    <3>6. g[s] = v[x] + g[s \ {x}]
      BY <3>3, <3>5
    <3> HIDE DEF g
    <3> QED BY <2>2, <3>1, <3>6
  <2> QED BY <2>1, <2>2
<1>2. g = [s \in SUBSET S |-> g[s]]
  OBVIOUS
<1> HIDE DEF g
<1>3. IsSum(g, S, v)
  BY <1>1, <1>2 DEF IsSum
<1> QED BY <1>3

\* A sum of naturals over a finite set counts the units of its terms.
LEMMA SumCounts ==
  ASSUME NEW S, IsFiniteSet(S), NEW v \in [S -> Nat]
  PROVE  /\ MapThenSumSet(LAMBDA i : v[i], S) = Cardinality(Cells(S, v))
         /\ IsFiniteSet(Cells(S, v))
<1>1. PICK g : MapThenSumSet(LAMBDA i : v[i], S) = g[S] /\ g = CHOOSE h : IsSum(h, S, v)
  BY DEF MapThenSumSet, MapThenFoldSet, IsSum
<1>2. \E h : IsSum(h, S, v)
  BY SumExists
<1>3. IsSum(g, S, v)
  BY <1>1, <1>2
<1>4. g[S] = Cardinality(Cells(S, v))
  BY <1>3, SumIsCells
<1>5. IsFiniteSet(Cells(S, v))
  BY CellsFinite
<1> QED BY <1>1, <1>4, <1>5

\* So it is a natural, and no less than any of its terms.
LEMMA SumBounds ==
  ASSUME NEW S, IsFiniteSet(S), NEW v \in [S -> Nat]
  PROVE  /\ MapThenSumSet(LAMBDA i : v[i], S) \in Nat
         /\ \E b \in Nat : \A x \in S : v[x] <= b
<1>1. /\ MapThenSumSet(LAMBDA i : v[i], S) = Cardinality(Cells(S, v))
      /\ IsFiniteSet(Cells(S, v))
  BY SumCounts
<1>2. Cardinality(Cells(S, v)) \in Nat
  BY <1>1, FS_CardinalityType
<1>3. ASSUME NEW x \in S
      PROVE  v[x] <= Cardinality(Cells(S, v))
  <2>1. IsFiniteSet(Cells(S \ {x}, v))
    BY CellsFinite
  <2>2. Cardinality(Cells(S, v)) = v[x] + Cardinality(Cells(S \ {x}, v))
    BY <2>1, OneMore
  <2>3. Cardinality(Cells(S \ {x}, v)) \in Nat /\ v[x] \in Nat
    BY <2>1, FS_CardinalityType
  <2> QED BY <2>2, <2>3
<1>4. MapThenSumSet(LAMBDA i : v[i], S) \in Nat
  BY <1>1, <1>2
<1>5. \E b \in Nat : \A x \in S : v[x] <= b
  BY <1>2, <1>3
<1> QED BY <1>4, <1>5

-----------------------------------------------------------------------------
\* Values have an m-th in their order: the least number that m of them do not
\* exceed is one of them.
LEMMA RankedIs ==
  ASSUME NEW f, IsFiniteSet(DOMAIN f), f \in [DOMAIN f -> Nat], NEW m \in 1..Cardinality(DOMAIN f)
  PROVE  /\ Ranked(f, m) \in {f[k] : k \in DOMAIN f} /\ Ranked(f, m) \in Nat
         /\ Cardinality({k \in DOMAIN f : f[k] < Ranked(f, m)}) < m
         /\ m <= Cardinality({k \in DOMAIN f : f[k] <= Ranked(f, m)})
<1> DEFINE D == DOMAIN f
           below(v) == {k \in D : f[k] < v}
           upto(v) == {k \in D : f[k] <= v}
           T == {v \in Nat : m <= Cardinality(upto(v))}
<1>1. /\ IsFiniteSet(D) /\ f \in [D -> Nat] /\ \A k \in D : f[k] \in Nat
      /\ Cardinality(D) \in Nat /\ m \in Nat /\ m >= 1 /\ m <= Cardinality(D)
  BY FS_CardinalityType
<1>2. T # {} /\ T \in SUBSET Nat
  <2>1. PICK b \in Nat : \A k \in D : f[k] <= b
    BY <1>1, SumBounds
  <2>2. upto(b) = D
    BY <2>1
  <2> QED BY <1>1, <2>1, <2>2
<1>3. PICK v \in T : \A w \in T : v <= w
  <2> HIDE DEF T
  <2> QED BY <1>2, LeastNatural
<1>4. v \in Nat /\ m <= Cardinality(upto(v))
  BY <1>3
<1>5. \A w : IsFiniteSet(below(w)) /\ Cardinality(below(w)) \in Nat
  BY <1>1, FS_Subset, FS_CardinalityType
<1>6. Cardinality(below(v)) < m
  <2>1. CASE v = 0
    <3>1. below(v) = {}
      BY <1>1, <2>1
    <3> QED BY <1>1, <3>1, FS_EmptySet
  <2>2. CASE v # 0
    <3>1. v - 1 \in Nat /\ v - 1 < v
      BY <1>4, <2>2
    <3>2. ~(m <= Cardinality(upto(v - 1)))
      BY <1>3, <1>4, <3>1
    <3>3. upto(v - 1) = below(v)
      BY <1>1, <1>4
    <3> HIDE DEF upto, below
    <3> QED BY <1>1, <1>5, <3>2, <3>3
  <2> QED BY <2>1, <2>2
<1>7. \E k \in D : f[k] = v
  <2> SUFFICES ASSUME \A k \in D : f[k] # v PROVE FALSE
    OBVIOUS
  <2>1. upto(v) = below(v)
    BY <1>1, <1>4
  <2> HIDE DEF upto, below
  <2> QED BY <1>1, <1>4, <1>5, <1>6, <2>1
<1>8. v \in {f[k] : k \in DOMAIN f}
  BY <1>7
<1>9. \E w \in {f[k] : k \in DOMAIN f} :
        /\ Cardinality({k \in DOMAIN f : f[k] < w}) < m
        /\ m <= Cardinality({k \in DOMAIN f : f[k] <= w})
  BY <1>4, <1>6, <1>8
<1>10. /\ Ranked(f, m) \in {f[k] : k \in DOMAIN f}
       /\ Cardinality({k \in DOMAIN f : f[k] < Ranked(f, m)}) < m
       /\ m <= Cardinality({k \in DOMAIN f : f[k] <= Ranked(f, m)})
  BY <1>9 DEF Ranked
<1> QED BY <1>1, <1>10

\* In a set of naturals the places tell the members apart.
LEMMA RankedDistinct ==
  ASSUME NEW S \in SUBSET Nat, IsFiniteSet(S),
         NEW m \in 1..Cardinality(S), NEW n \in 1..Cardinality(S), m < n
  PROVE  Ranked([w \in S |-> w], m) # Ranked([w \in S |-> w], n)
<1> DEFINE f == [w \in S |-> w]
           v == Ranked(f, m)
<1>1. Cardinality(S) \in Nat /\ m \in Nat /\ n \in Nat
  BY FS_CardinalityType
<1>2. DOMAIN f = S /\ f \in [DOMAIN f -> Nat] /\ \A k \in S : f[k] = k
  OBVIOUS
<1> HIDE DEF f
<1>3. v \in S /\ m <= Cardinality({k \in S : f[k] <= v}) /\ Cardinality({k \in S : f[k] < v}) < m
  BY <1>2, RankedIs
<1>4. SUFFICES ASSUME Ranked(f, n) = v PROVE FALSE
  BY DEF f
<1>5. n <= Cardinality({k \in S : f[k] <= v})
  BY <1>2, <1>4, RankedIs
<1>6. {k \in S : f[k] <= v} = {k \in S : f[k] < v} \cup {v}
  BY <1>2, <1>3
<1>7. v \notin {k \in S : f[k] < v} /\ IsFiniteSet({k \in S : f[k] < v})
  BY <1>2, <1>3, FS_Subset
<1>8. Cardinality({k \in S : f[k] <= v}) = Cardinality({k \in S : f[k] < v}) + 1
  BY <1>6, <1>7, FS_AddElement
<1>9. Cardinality({k \in S : f[k] < v}) \in Nat
  BY <1>7, FS_CardinalityType
<1> QED BY <1>1, <1>3, <1>5, <1>8, <1>9
=============================================================================
