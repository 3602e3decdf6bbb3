-------------------------- MODULE SweepResult_proofs -------------------------
(***************************************************************************)
(* What the verdict of a sweep is worth, for any grid, loads and budgets.  *)
(***************************************************************************)
EXTENDS SweepResult, FiniteSums

-----------------------------------------------------------------------------
(* Figures *)

IsFigures(f) == IsFiniteSet(DOMAIN f) /\ f \in [DOMAIN f -> Nat]

LEMMA MedianFraction ==
  ASSUME NEW f, IsFigures(f), ~None(f)
  PROVE  Median(f) \in Nat \X (Nat \ {0})
<1>1. Count(f) \in Nat /\ Count(f) # 0
  BY FS_CardinalityType, FS_EmptySet DEF IsFigures, None, Count
<1>2. (Count(f) + 1) \div 2 \in 1..Count(f) /\ Count(f) \div 2 + 1 \in 1..Count(f)
  BY <1>1
<1>3. Ranked(f, (Count(f) + 1) \div 2) \in Nat /\ Ranked(f, Count(f) \div 2 + 1) \in Nat
  BY <1>2, RankedIs DEF Count, IsFigures
<1> QED BY <1>3 DEF Median

LEMMA MeanFraction ==
  ASSUME NEW f, IsFigures(f), ~None(f)
  PROVE  Mean(f) \in Nat \X (Nat \ {0})
<1>1. Count(f) \in Nat /\ Count(f) # 0
  BY FS_CardinalityType, FS_EmptySet DEF IsFigures, None, Count
<1>2. Total(f) \in Nat
  BY SumBounds DEF IsFigures, Total
<1> QED BY <1>1, <1>2 DEF Mean

\* The figures of a point are figures.
LEMMA PointFigures ==
  ASSUME NEW ms \in Seq(Run), NEW i
  PROVE  IsFigures(Jpts(ms, i)) /\ IsFigures(P99s(ms, i))
<1>1. /\ Len(ms) \in Nat /\ DOMAIN ms = 1..Len(ms)
      /\ \A k \in DOMAIN ms : ms[k].jpt \in Figure /\ ms[k].p99 \in Figure
  <2>1. Len(ms) \in Nat /\ DOMAIN ms = 1..Len(ms)
    OBVIOUS
  <2>2. \A X : ms \in Seq(X) => \A k \in DOMAIN ms : ms[k] \in X
    OBVIOUS
  <2>3. \A k \in DOMAIN ms : ms[k] \in Run
    BY <2>2
  <2> QED BY <2>1, <2>3 DEF Run
<1>2. IsFiniteSet(DOMAIN ms)
  <2>1. 1 \in Int /\ Len(ms) \in Int
    BY <1>1
  <2> QED BY <1>1, <2>1, FS_Interval
<1>3. \A K \in SUBSET DOMAIN ms : IsFiniteSet(K)
  BY <1>2, FS_Subset
<1>4. IsFigures(Jpts(ms, i))
  <2>1. DOMAIN Jpts(ms, i) \in SUBSET DOMAIN ms
    BY DEF Jpts, Runs
  <2>2. Jpts(ms, i) \in [DOMAIN Jpts(ms, i) -> Nat]
    BY <1>1 DEF Jpts, Runs, Figure
  <2> QED BY <1>3, <2>1, <2>2 DEF IsFigures
<1>5. IsFigures(P99s(ms, i))
  <2>1. DOMAIN P99s(ms, i) \in SUBSET DOMAIN ms
    BY DEF P99s, Runs
  <2>2. P99s(ms, i) \in [DOMAIN P99s(ms, i) -> Nat]
    BY <1>1 DEF P99s, Runs, Figure
  <2> QED BY <1>3, <2>1, <2>2 DEF IsFigures
<1> QED BY <1>4, <1>5

-----------------------------------------------------------------------------
(* The order of fractions *)

LEMMA Scale ==
  ASSUME NEW x \in Nat, NEW y \in Nat, NEW k \in Nat \ {0}
  PROVE  /\ x <= y => x * k <= y * k
         /\ x * k <= y * k => x <= y
  OBVIOUS

LEMMA LETransitive ==
  ASSUME NEW a \in Nat \X (Nat \ {0}), NEW b \in Nat \X (Nat \ {0}),
         NEW c \in Nat \X (Nat \ {0}), LE(a, b), LE(b, c)
  PROVE  LE(a, c)
<1>1. PICK a1 \in Nat, a2 \in Nat \ {0} : a1 = a[1] /\ a2 = a[2]
  OBVIOUS
<1>2. PICK b1 \in Nat, b2 \in Nat \ {0} : b1 = b[1] /\ b2 = b[2]
  OBVIOUS
<1>3. PICK c1 \in Nat, c2 \in Nat \ {0} : c1 = c[1] /\ c2 = c[2]
  OBVIOUS
<1>4. a1 * b2 <= b1 * a2 /\ b1 * c2 <= c1 * b2
  BY <1>1, <1>2, <1>3 DEF LE
<1>5. /\ a1 * b2 \in Nat /\ b1 * a2 \in Nat /\ b1 * c2 \in Nat /\ c1 * b2 \in Nat
      /\ a1 * c2 \in Nat /\ c1 * a2 \in Nat
  OBVIOUS
<1>6. (a1 * b2) * c2 <= (b1 * a2) * c2
  BY <1>4, <1>5, Scale
<1>7. (b1 * c2) * a2 <= (c1 * b2) * a2
  BY <1>4, <1>5, Scale
<1>8. /\ (a1 * b2) * c2 = (a1 * c2) * b2 /\ (b1 * a2) * c2 = (b1 * c2) * a2
      /\ (c1 * b2) * a2 = (c1 * a2) * b2
  OBVIOUS
<1>9. (a1 * c2) * b2 \in Nat /\ (b1 * c2) * a2 \in Nat /\ (c1 * a2) * b2 \in Nat
  BY <1>5
<1>10. (a1 * c2) * b2 <= (c1 * a2) * b2
  BY <1>6, <1>7, <1>8, <1>9
<1>11. a1 * c2 <= c1 * a2
  BY <1>5, <1>10, Scale
<1> QED BY <1>1, <1>3, <1>11 DEF LE

LEMMA LETotal ==
  ASSUME NEW a \in Nat \X (Nat \ {0}), NEW b \in Nat \X (Nat \ {0})
  PROVE  LE(a, b) \/ LE(b, a)
<1>1. a[1] * b[2] \in Nat /\ b[1] * a[2] \in Nat
  OBVIOUS
<1> QED BY <1>1 DEF LE

\* min() finds the first of the least.
LEMMA FirstLeast ==
  ASSUME NEW n \in Nat, NEW I \in SUBSET (1..n), I # {}, NEW e \in [I -> Nat \X (Nat \ {0})]
  PROVE  \E i \in I : \A j \in I : LE(e[i], e[j]) /\ (j < i => LT(e[i], e[j]))
<1> DEFINE Best(m, i) == \A j \in I : j <= m => LE(e[i], e[j]) /\ (j < i => LT(e[i], e[j]))
           bad == {m \in Nat : (\E i \in I : i <= m) /\ ~(\E i \in I : i <= m /\ Best(m, i))}
<1>1. \A i \in I : i \in Nat /\ i <= n
  OBVIOUS
<1>2. n \notin bad
  <2> SUFFICES ASSUME n \in bad PROVE FALSE
    OBVIOUS
  <2>1. bad # {} /\ bad \in SUBSET Nat
    OBVIOUS
  <2>2. PICK m \in bad : \A l \in bad : m <= l
    <3> HIDE DEF bad
    <3> QED BY <2>1, LeastNatural
  <2>3. m \in Nat /\ (\E i \in I : i <= m) /\ \A i \in I : i <= m => ~Best(m, i)
    BY <2>2
  <2>4. m # 0
    BY <2>3
  <2>5. m - 1 \in Nat /\ m - 1 \notin bad
    <3> HIDE DEF bad
    <3>1. m - 1 \in Nat /\ ~(m <= m - 1)
      BY <2>3, <2>4
    <3> QED BY <2>2, <3>1
  <2>6. CASE m \notin I
    <3>1. \A j \in I : j <= m <=> j <= m - 1
      <4> SUFFICES ASSUME NEW j \in I PROVE j <= m <=> j <= m - 1
        OBVIOUS
      <4>1. j \in Nat /\ m \in Nat /\ j # m
        BY <1>1, <2>3, <2>6
      <4> QED BY <4>1
    <3>2. \A i \in I : Best(m - 1, i) => Best(m, i)
      BY <3>1
    <3> QED BY <2>3, <2>5, <3>1, <3>2
  <2>7. CASE m \in I /\ \A i \in I : ~(i <= m - 1)
    <3>1. \A j \in I : j <= m => j = m
      BY <1>1, <2>3, <2>7
    <3>2. LE(e[m], e[m])
      BY <2>7, LETotal
    <3>3. Best(m, m)
      BY <2>3, <3>1, <3>2
    <3> QED BY <2>3, <2>7, <3>3
  <2>8. CASE m \in I /\ \E i \in I : i <= m - 1
    <3>1. PICK i \in I : i <= m - 1 /\ Best(m - 1, i)
      BY <2>5, <2>8
    <3>2. \A j \in I : j <= m => j <= m - 1 \/ j = m
      BY <1>1, <2>3
    <3>3. i <= m /\ ~(m < i)
      BY <1>1, <2>3, <3>1
    <3>4. CASE LE(e[i], e[m])
      <4>1. Best(m, i)
        BY <3>1, <3>2, <3>3, <3>4
      <4> QED BY <2>3, <3>3, <4>1
    <3>5. CASE ~LE(e[i], e[m])
      <4>1. \A j \in I : e[j] \in Nat \X (Nat \ {0})
        OBVIOUS
      <4>2. LE(e[m], e[i]) /\ LE(e[m], e[m])
        BY <2>8, <3>5, <4>1, LETotal
      <4>3. ASSUME NEW j \in I, j <= m - 1
            PROVE  LE(e[m], e[j]) /\ LT(e[m], e[j])
        <5>1. LE(e[i], e[j])
          BY <3>1, <4>3
        <5>2. LE(e[m], e[j])
          BY <2>8, <4>1, <4>2, <5>1, LETransitive
        <5>3. ~LE(e[j], e[m])
          BY <2>8, <3>5, <4>1, <5>1, LETransitive
        <5> QED BY <5>2, <5>3 DEF LT
      <4>4. Best(m, m)
        <5> SUFFICES ASSUME NEW j \in I, j <= m
                     PROVE  LE(e[m], e[j]) /\ (j < m => LT(e[m], e[j]))
          OBVIOUS
        <5>1. CASE j <= m - 1
          BY <4>3, <5>1
        <5>2. CASE j = m
          <6>1. ~(m < m)
            BY <2>3
          <6> QED BY <4>2, <5>2, <6>1
        <5> QED BY <3>2, <5>1, <5>2
      <4> QED BY <2>3, <2>8, <4>4
    <3> QED BY <3>4, <3>5
  <2> QED BY <2>6, <2>7, <2>8
<1>3. \E i \in I : i <= n
  BY <1>1
<1>4. PICK i \in I : Best(n, i)
  BY <1>2, <1>3
<1> QED BY <1>1, <1>4

-----------------------------------------------------------------------------
(* The best point *)

LEMMA GridSize == Len(Points) \in Nat \ {0} /\ DOMAIN Points = 1..Len(Points)
  BY ResultAssumption

LEMMA LeastIsLeast ==
  ASSUME NEW ms \in Seq(Run), NEW I \in SUBSET DOMAIN Points, I # {},
         \A i \in I : ~None(Jpts(ms, i))
  PROVE  /\ Least(ms, I) \in I
         /\ \A j \in I : /\ LE(Energy(ms, Least(ms, I)), Energy(ms, j))
                         /\ j < Least(ms, I) => LT(Energy(ms, Least(ms, I)), Energy(ms, j))
<1> DEFINE e == [i \in I |-> Energy(ms, i)]
<1>1. \A i \in I : Energy(ms, i) \in Nat \X (Nat \ {0})
  BY PointFigures, MeanFraction DEF Energy
<1>2. e \in [I -> Nat \X (Nat \ {0})]
  BY <1>1
<1>3. \E i \in I : \A j \in I : LE(e[i], e[j]) /\ (j < i => LT(e[i], e[j]))
  <2> HIDE DEF e
  <2> QED BY <1>2, GridSize, FirstLeast
<1>4. \E i \in I : \A j \in I : /\ LE(Energy(ms, i), Energy(ms, j))
                                /\ j < i => LT(Energy(ms, i), Energy(ms, j))
  BY <1>3
<1> QED BY <1>4 DEF Least

\* pick_best names a first least of what may be named, if there is any.
Eligible(ms, slo) == Scored(ms, slo) \cap Verified

LEMMA BestIsBest ==
  ASSUME NEW ms \in Seq(Run), NEW slo
  PROVE  LET best == PickBest(ms, slo).best
         IN  /\ Eligible(ms, slo) = {} => best = 0
             /\ Eligible(ms, slo) # {} =>
                  /\ best \in Eligible(ms, slo) /\ best \in DOMAIN Points
                  /\ \A j \in Eligible(ms, slo) :
                       /\ LE(Energy(ms, best), Energy(ms, j))
                       /\ j < best => LT(Energy(ms, best), Energy(ms, j))
<1>1. PickBest(ms, slo).best = IF Eligible(ms, slo) = {} THEN 0 ELSE Least(ms, Eligible(ms, slo))
  BY DEF PickBest, Eligible
<1>2. /\ Eligible(ms, slo) \in SUBSET DOMAIN Points
      /\ \A i \in Eligible(ms, slo) : ~None(Jpts(ms, i))
  BY DEF Eligible, Scored, Verified
<1> QED BY <1>1, <1>2, LeastIsLeast

LEMMA PickType ==
  ASSUME NEW ms \in Seq(Run), NEW slo
  PROVE  /\ {PickBest(ms, slo).best, PickBest(ms, slo).surprise} \subseteq 0..Len(Points)
         /\ PickBest(ms, slo).tied \subseteq Verified
<1> DEFINE beat == Surprises(ms, Least(ms, Eligible(ms, slo)), Scored(ms, slo) \ Verified)
<1>1. PickBest(ms, slo).best \in 0..Len(Points)
  BY BestIsBest, GridSize
<1>2. PickBest(ms, slo).tied \subseteq Verified
  BY DEF PickBest
<1>3. PickBest(ms, slo).surprise = IF Eligible(ms, slo) = {} \/ beat = {} THEN 0
                                   ELSE Least(ms, beat)
  BY DEF PickBest, Eligible
<1>4. beat \in SUBSET DOMAIN Points /\ \A i \in beat : ~None(Jpts(ms, i))
  BY DEF Surprises, Scored
<1> HIDE DEF beat
<1>5. beat # {} => Least(ms, beat) \in DOMAIN Points
  BY <1>4, LeastIsLeast
<1>6. PickBest(ms, slo).surprise \in 0..Len(Points)
  BY <1>3, <1>5, GridSize
<1> QED BY <1>1, <1>2, <1>6

LEMMA SloFraction ==
  ASSUME NEW ms \in Seq(Run), NEW b \in Budgets
  PROVE  Slo(ms, b) \in Fraction
<1>1. b \in Nat \cup {Missing} /\ Slack \in Int \X (Nat \ {0}) /\ NoResult.slo = <<-1, 1>>
  BY ResultAssumption DEF Fraction, NoResult, Missing
<1>2. CASE b # Missing
  BY <1>1, <1>2 DEF Slo, Fraction
<1>3. CASE b = Missing /\ None(P99s(ms, 1))
  BY <1>1, <1>3 DEF Slo, Fraction
<1>4. CASE b = Missing /\ ~None(P99s(ms, 1))
  <2>1. Median(P99s(ms, 1)) \in Nat \X (Nat \ {0})
    BY <1>4, PointFigures, MedianFraction
  <2>2. PICK p \in Nat, q \in Nat \ {0} : p = Median(P99s(ms, 1))[1] /\ q = Median(P99s(ms, 1))[2]
    BY <2>1
  <2>3. PICK x \in Int, y \in Nat \ {0} : x = Slack[1] /\ y = Slack[2]
    BY <1>1
  <2>4. p * x \in Int /\ q * y \in Nat \ {0}
    OBVIOUS
  <2>5. Slo(ms, b) = <<p * x, q * y>>
    BY <1>4, <2>2, <2>3 DEF Slo, Times
  <2> QED BY <2>4, <2>5 DEF Fraction
<1> QED BY <1>2, <1>3, <1>4

LEMMA FinalisedIs ==
  ASSUME NEW ms, NEW b
  PROVE  LET r == Finalised(ms, b)
             p == PickBest(ms, Slo(ms, b))
         IN  /\ r.slo = Slo(ms, b)
             /\ ~Ranks => r.best = 0 /\ r.surprise = 0 /\ r.tied = {}
             /\ Ranks => r.best = p.best /\ r.surprise = p.surprise /\ r.tied = p.tied
  BY DEF Finalised

-----------------------------------------------------------------------------
(* Steps *)

LEMMA RoundType ==
  ASSUME NEW r \in Nat \ {0}, NEW n \in Nat \ {0}, NEW k \in Nat, k < r * n
  PROVE  k \div n \in 0..r - 1 /\ k % n \in 0..n - 1
<1>1. k \div n \in Nat /\ k % n \in 0..n - 1 /\ k = n * (k \div n) + (k % n)
  OBVIOUS
<1>2. PICK q \in Nat : q = k \div n
  BY <1>1
<1>3. q * n <= k
  BY <1>1, <1>2
<1>4. ~(r <= q)
  <2> SUFFICES ASSUME r <= q PROVE FALSE
    OBVIOUS
  <2>1. r * n <= q * n
    BY Scale
  <2>2. r * n \in Nat /\ q * n \in Nat
    OBVIOUS
  <2> QED BY <1>3, <2>1, <2>2
<1> QED BY <1>1, <1>2, <1>4

\* A difference of readings is a figure; it is what was done, or missing, unless
\* the counter started anew under a load that counts as much as it had held.
LEMMA DeltaIsTrue ==
  ASSUME NEW w \in Nat, NEW r \in Readings(w)
  PROVE  /\ Delta(r.before, r.after) \in Figure /\ r.outran \in BOOLEAN /\ r.spoilt \in {0, 1}
         /\ Delta(r.before, r.after) \in {Missing, w} \/ r.outran
<1>1. PICK held \in Warms : r \in Around(held, w)
  BY DEF Readings
<1>2. held \in Nat
  BY ResultAssumption
<1>3. CASE r = Reading(held, held + w, 0, FALSE)
  BY <1>2, <1>3 DEF Reading, Delta, Missing, Figure
<1>4. CASE r = Reading(Missing, w, 1, FALSE) \/ r = Reading(w, Missing, 1, FALSE)
  <2>1. Missing \in {r.before, r.after} /\ r.outran = FALSE /\ r.spoilt = 1
    BY <1>4 DEF Reading
  <2>2. Delta(r.before, r.after) = Missing
    BY <2>1 DEF Delta
  <2> QED BY <2>1, <2>2 DEF Figure
<1>5. CASE r = Reading(held, 0, 1, held <= w) \/ r = Reading(held, w, 1, held <= w)
  <2>1. PICK v \in {0, w} : r = Reading(held, v, 1, held <= w)
    BY <1>5
  <2>2. v \in Nat /\ v <= w
    OBVIOUS
  <2>3. r.before = held /\ r.after = v /\ r.outran = (held <= w) /\ r.spoilt = 1
    BY <2>1 DEF Reading
  <2>4. CASE v < held
    BY <1>2, <2>2, <2>3, <2>4 DEF Delta, Missing, Figure
  <2>5. CASE ~(v < held)
    <3>1. v - held \in Nat /\ held <= w
      BY <1>2, <2>2, <2>5
    <3> QED BY <1>2, <2>2, <2>3, <2>5, <3>1 DEF Delta, Missing, Figure
  <2> QED BY <2>4, <2>5
<1> QED BY <1>1, <1>3, <1>4, <1>5 DEF Around

LEMMA PerTokenFigure ==
  ASSUME NEW e \in Figure, NEW g \in Figure
  PROVE  PerToken(e, g) \in Figure
<1>1. CASE Missing \in {e, g} \/ g = 0
  BY <1>1 DEF PerToken, Figure
<1>2. CASE ~(Missing \in {e, g} \/ g = 0)
  <2>1. e \in Nat /\ g \in Nat \ {0}
    BY <1>2 DEF Figure
  <2>2. e \div g \in Nat
    BY <2>1
  <2> QED BY <1>2, <2>2 DEF PerToken, Figure
<1> QED BY <1>1, <1>2

\* What Measure appends.
LEMMA MeasureAppends ==
  ASSUME TypeOK, Measure
  PROVE  /\ faults' \in 0..MaxFaults
         /\ \E r \in Run : /\ measured' = Append(measured, r)
                           /\ r.point = (Len(measured) % Len(Points)) + 1
                           /\ r.jpt \in {Missing, r.true} \/ r.outran
<1> DEFINE k == Len(measured)
           n == Len(Points)
           i == (k % n) + 1
<1>1. k \in Nat /\ n \in Nat \ {0} /\ Repeats \in Nat \ {0}
  <2>1. measured \in Seq(Run)
    BY DEF TypeOK
  <2> QED BY <2>1, ResultAssumption, GridSize
<1>2. k < Repeats * n
  <2>1. k <= Repeats * n /\ k # Repeats * n
    BY DEF TypeOK, Measure, Complete, Executions
  <2>2. Repeats * n \in Nat
    BY <1>1
  <2> QED BY <1>1, <2>1, <2>2
<1>3. i \in DOMAIN Points /\ (k \div n) + 1 \in 1..Repeats
  <2>1. k \div n \in 0..Repeats - 1 /\ k % n \in 0..n - 1
    BY <1>1, <1>2, RoundType
  <2> QED BY <1>1, <2>1, GridSize
<1> HIDE DEF i
<1>4. PICK load \in Loads(i) : \E e \in Readings(load.energy), g \in Readings(load.gen) :
        /\ faults' = faults + e.spoilt + g.spoilt /\ faults' <= MaxFaults
        /\ measured' = Append(measured,
          [point |-> i, round |-> (k \div n) + 1,
           jpt |-> PerToken(Delta(e.before, e.after), Delta(g.before, g.after)),
           p99 |-> load.p99, mhz |-> load.mhz,
           true |-> PerToken(load.energy, load.gen), outran |-> e.outran \/ g.outran])
  BY DEF Measure, i
<1>41. PICK e \in Readings(load.energy), g \in Readings(load.gen) :
        /\ faults' = faults + e.spoilt + g.spoilt /\ faults' <= MaxFaults
        /\ measured' = Append(measured,
          [point |-> i, round |-> (k \div n) + 1,
           jpt |-> PerToken(Delta(e.before, e.after), Delta(g.before, g.after)),
           p99 |-> load.p99, mhz |-> load.mhz,
           true |-> PerToken(load.energy, load.gen), outran |-> e.outran \/ g.outran])
  BY <1>4
<1>5. load.energy \in Nat /\ load.gen \in Nat /\ load.p99 \in Figure /\ load.mhz \in Figure
  <2>1. load \in [energy: Nat, gen: Nat, p99: Figure, mhz: Figure]
    BY <1>3, ResultAssumption
  <2> QED BY <2>1
<1>6. /\ Delta(e.before, e.after) \in Figure /\ Delta(g.before, g.after) \in Figure
      /\ e.outran \in BOOLEAN /\ g.outran \in BOOLEAN
      /\ Delta(e.before, e.after) \in {Missing, load.energy} \/ e.outran
      /\ Delta(g.before, g.after) \in {Missing, load.gen} \/ g.outran
  BY <1>5, DeltaIsTrue
<1>7. PICK j : j = PerToken(Delta(e.before, e.after), Delta(g.before, g.after))
  OBVIOUS
<1>71. PICK o \in BOOLEAN : o = (e.outran \/ g.outran)
  BY <1>6
<1>8. PICK t : t = PerToken(load.energy, load.gen)
  OBVIOUS
<1>9. load.energy \in Figure /\ load.gen \in Figure
  BY <1>5 DEF Figure
<1>10. j \in Figure /\ t \in Figure
  BY <1>6, <1>7, <1>8, <1>9, PerTokenFigure
<1>11. j \in {Missing, t} \/ o
  BY <1>6, <1>7, <1>71, <1>8 DEF PerToken
<1> DEFINE r == [point |-> i, round |-> (k \div n) + 1, jpt |-> j,
                 p99 |-> load.p99, mhz |-> load.mhz, true |-> t, outran |-> o]
<1>12. measured' = Append(measured, r)
  BY <1>41, <1>7, <1>71, <1>8
<1>13. r \in Run
  BY <1>3, <1>5, <1>71, <1>10 DEF Run
<1>14. r.point = (k % n) + 1 /\ (r.jpt \in {Missing, r.true} \/ r.outran)
  BY <1>11 DEF i
<1>15. faults' \in 0..MaxFaults
  <2>1. e.spoilt \in {0, 1} /\ g.spoilt \in {0, 1}
    BY <1>5, DeltaIsTrue
  <2>2. faults \in 0..MaxFaults /\ MaxFaults \in Nat
    BY ResultAssumption DEF TypeOK
  <2>3. PICK x \in Nat, y \in Nat : x = e.spoilt /\ y = g.spoilt
    BY <2>1
  <2>4. faults' = faults + x + y /\ faults' <= MaxFaults
    BY <1>41, <2>3
  <2> QED BY <2>2, <2>4
<1> QED BY <1>12, <1>13, <1>14, <1>15

LEMMA InitHolds == Init => IInv
<1> SUFFICES ASSUME Init PROVE IInv
  OBVIOUS
<1>1. TypeOK
  <2>1. measured \in Seq(Run) /\ Len(measured) = 0 /\ DOMAIN measured = {}
    BY DEF Init
  <2>2. Executions \in Nat
    BY ResultAssumption, GridSize DEF Executions
  <2>3. result.slo \in Fraction /\ result.best = 0 /\ result.surprise = 0 /\ result.tied = {}
    BY DEF Init, NoResult, Fraction, Missing
  <2>4. 0 \in 0..MaxFaults /\ 0 \in 0..Len(Points)
    BY ResultAssumption, GridSize
  <2>5. /\ budget \in Budgets /\ aborted \in BOOLEAN /\ report = "nothing" /\ faults = 0
    BY DEF Init
  <2>6. Len(measured) <= Executions
    BY <2>1, <2>2
  <2> QED BY <2>1, <2>3, <2>4, <2>5, <2>6 DEF TypeOK
<1>2. FiguresInv /\ ResultInv /\ ReportInv
  BY DEF Init, FiguresInv, ResultInv, ReportInv
<1> QED BY <1>1, <1>2 DEF IInv

LEMMA MeasureKeeps ==
  ASSUME IInv, Measure
  PROVE  IInv'
<1>1. PICK r \in Run : /\ measured' = Append(measured, r)
                       /\ r.point = (Len(measured) % Len(Points)) + 1
                       /\ r.jpt \in {Missing, r.true} \/ r.outran
  BY MeasureAppends DEF IInv
<1>2. /\ measured \in Seq(Run) /\ Len(measured) \in Nat /\ DOMAIN measured = 1..Len(measured)
      /\ Executions \in Nat
  <2>1. measured \in Seq(Run)
    BY DEF IInv, TypeOK
  <2>2. Len(measured) \in Nat /\ DOMAIN measured = 1..Len(measured)
    BY <2>1
  <2>3. Repeats \in Nat /\ Len(Points) \in Nat
    BY ResultAssumption, GridSize
  <2> QED BY <2>1, <2>2, <2>3 DEF Executions
<1>3. /\ measured' \in Seq(Run) /\ Len(measured') = Len(measured) + 1
      /\ DOMAIN measured' = 1..Len(measured) + 1
      /\ \A k \in 1..Len(measured) : measured'[k] = measured[k]
      /\ measured'[Len(measured) + 1] = r
  BY <1>1, <1>2
<1>4. /\ UNCHANGED <<budget, aborted, result, report>>
      /\ result = NoResult /\ Len(measured) # Executions
      /\ faults' \in 0..MaxFaults
  <2>1. faults' \in 0..MaxFaults
    BY MeasureAppends DEF IInv
  <2> QED BY <2>1 DEF Measure, Complete
<1>5. TypeOK'
  <2>1. Len(measured') <= Executions
    <3>1. Len(measured) <= Executions
      BY DEF IInv, TypeOK
    <3>2. PICK l \in Nat : l = Len(measured)
      BY <1>2
    <3>3. Len(measured') = l + 1 /\ l <= Executions /\ l # Executions /\ Executions \in Nat
      BY <1>2, <1>3, <1>4, <3>1, <3>2
    <3> QED BY <3>3
  <2>2. \A k \in DOMAIN measured' : measured'[k].point = ((k - 1) % Len(Points)) + 1
    <3>1. \A k \in DOMAIN measured : measured[k].point = ((k - 1) % Len(Points)) + 1
      BY DEF IInv, TypeOK
    <3>2. PICK l \in Nat : l = Len(measured)
      BY <1>2
    <3>3. /\ DOMAIN measured = 1..l /\ DOMAIN measured' = 1..l + 1
          /\ \A k \in 1..l : measured'[k].point = measured[k].point
          /\ measured'[l + 1].point = (l % Len(Points)) + 1
      BY <1>1, <1>2, <1>3, <3>2
    <3>4. (l + 1) - 1 = l /\ \A k \in 1..l + 1 : k \in 1..l \/ k = l + 1
      OBVIOUS
    <3> QED BY <3>1, <3>3, <3>4
  <2> QED BY <1>3, <1>4, <2>1, <2>2 DEF IInv, TypeOK
<1>6. FiguresInv'
  BY <1>1, <1>2, <1>3 DEF IInv, FiguresInv
<1>7. ResultInv' /\ ReportInv'
  BY <1>4 DEF IInv, ResultInv, ReportInv
<1> QED BY <1>5, <1>6, <1>7 DEF IInv

LEMMA AbortKeeps ==
  ASSUME IInv, Abort
  PROVE  IInv'
<1>1. faults' \in 0..MaxFaults
  <2>1. faults \in 0..MaxFaults /\ MaxFaults \in Nat
    BY ResultAssumption DEF IInv, TypeOK
  <2> QED BY <2>1 DEF Abort
<1> QED BY <1>1 DEF IInv, Abort, TypeOK, FiguresInv, ResultInv, ReportInv

LEMMA FinaliseKeeps ==
  ASSUME IInv, Finalise
  PROVE  IInv'
<1>1. /\ UNCHANGED <<budget, measured, aborted, report, faults>> /\ result = NoResult
      /\ result' = Finalised(measured, budget) /\ (aborted \/ Complete)
  BY DEF Finalise
<1>2. measured \in Seq(Run) /\ budget \in Budgets
  BY DEF IInv, TypeOK
<1>3. result'.slo \in Fraction
  BY <1>1, <1>2, FinalisedIs, SloFraction
<1>4. /\ {result'.best, result'.surprise} \subseteq 0..Len(Points)
      /\ result'.tied \subseteq Verified
  <2>1. CASE Ranks
    BY <1>1, <1>2, <2>1, FinalisedIs, PickType
  <2>2. CASE ~Ranks
    BY <1>1, <2>2, FinalisedIs, GridSize
  <2> QED BY <2>1, <2>2
<1>5. TypeOK'
  BY <1>1, <1>3, <1>4 DEF IInv, TypeOK
<1>6. FiguresInv' /\ ReportInv'
  BY <1>1 DEF IInv, FiguresInv, ReportInv
<1>7. ResultInv'
  <2>1. Finalised(measured, budget)' = Finalised(measured, budget)
    BY <1>1 DEF Finalised, Ranks
  <2>2. (aborted \/ Complete)'
    BY <1>1 DEF Complete
  <2> QED BY <1>1, <2>1, <2>2 DEF ResultInv
<1> QED BY <1>5, <1>6, <1>7 DEF IInv

LEMMA RenderKeeps ==
  ASSUME IInv, Render
  PROVE  IInv'
<1>1. /\ UNCHANGED <<budget, measured, aborted, result, faults>> /\ result # NoResult
      /\ report' = Printed
  BY DEF Render
<1>2. report' \in {"no comparable result", "stock", "suggested"}
  BY <1>1 DEF Printed
<1>3. TypeOK'
  BY <1>1, <1>2 DEF IInv, TypeOK
<1>4. ResultInv'
  <2>1. Finalised(measured, budget)' = Finalised(measured, budget)
    BY <1>1 DEF Finalised, Ranks
  <2> QED BY <1>1, <2>1 DEF IInv, ResultInv, Complete
<1>5. ReportInv'
  BY <1>1 DEF ReportInv, Printed
<1>6. FiguresInv'
  BY <1>1 DEF IInv, FiguresInv
<1> QED BY <1>3, <1>4, <1>5, <1>6 DEF IInv

LEMMA StutterKeeps ==
  ASSUME IInv, UNCHANGED vars
  PROVE  IInv'
<1>1. Finalised(measured, budget)' = Finalised(measured, budget)
  BY DEF vars, Finalised, Ranks
<1> QED BY <1>1 DEF vars, IInv, TypeOK, FiguresInv, ResultInv, ReportInv, Complete, Printed

\* The invariant behind a sweep's verdict is inductive, whatever the loads, the
\* failing reads and the abort.
THEOREM ResultInductive == Spec => []IInv
<1>1. IInv /\ [Next]_vars => IInv'
  BY MeasureKeeps, AbortKeeps, FinaliseKeeps, RenderKeeps, StutterKeeps DEF Next
<1> QED BY InitHolds, <1>1, PTL DEF Spec

-----------------------------------------------------------------------------
(* What follows *)

\* Counters that were not read, or that started anew, leave no wrong figure
\* (_delta and _apply_energy return None for them), unless the load of that run
\* took the new count as far as the old one.
THEOREM FiguresTrue == Spec => []FiguresAreTrue
<1>1. IInv => FiguresAreTrue
  BY DEF IInv, FiguresInv, FiguresAreTrue
<1> QED BY <1>1, ResultInductive, PTL

\* Nothing is named best of an aborted sweep (finalise skips _pick_best).
THEOREM PartialIsNameless == Spec => []PartialNamesNothing
<1>1. IInv => PartialNamesNothing
  <2> SUFFICES ASSUME IInv, aborted, report # "nothing"
               PROVE  ~Named /\ report = "no comparable result"
    BY DEF PartialNamesNothing
  <2>1. result = Finalised(measured, budget) /\ report = Printed
    BY DEF IInv, ResultInv, ReportInv
  <2>2. result.best = 0
    BY <2>1, FinalisedIs DEF Ranks
  <2> QED BY <2>1, <2>2 DEF Named, Printed
<1> QED BY <1>1, ResultInductive, PTL

\* The suggested clock saves energy over stock, or stock is too slow.
THEOREM SuggestionsSave == Spec => []SuggestionSaves
<1>1. IInv => SuggestionSaves
  <2> SUFFICES ASSUME IInv, report = "suggested"
               PROVE  \/ LT(Energy(measured, result.best), Energy(measured, 1))
                      \/ HasSlo(result.slo) /\ ~Meets(measured, 1, result.slo)
    BY DEF SuggestionSaves
  <2>1. /\ result = Finalised(measured, budget) /\ result.best # 0 /\ result.best # 1
        /\ ~None(Jpts(measured, 1))
    BY DEF IInv, ResultInv, ReportInv, Printed
  <2>2. PICK slo : slo = result.slo
    OBVIOUS
  <2>3. result.best = PickBest(measured, slo).best
    BY <2>1, <2>2, FinalisedIs
  <2>4. measured \in Seq(Run)
    BY DEF IInv, TypeOK
  <2>5. /\ result.best \in Eligible(measured, slo) /\ result.best \in DOMAIN Points
        /\ \A j \in Eligible(measured, slo) :
             j < result.best => LT(Energy(measured, result.best), Energy(measured, j))
    BY <2>1, <2>3, <2>4, BestIsBest
  <2>6. 1 \in Verified /\ 1 < result.best
    BY <2>1, <2>5, GridSize, ResultAssumption DEF Verified
  <2>7. CASE 1 \in Scored(measured, slo)
    BY <2>5, <2>6, <2>7 DEF Eligible
  <2>8. CASE 1 \notin Scored(measured, slo)
    <3>1. HasSlo(slo) /\ ~Meets(measured, 1, slo)
      BY <2>1, <2>8, GridSize DEF Scored
    <3> QED BY <2>2, <3>1
  <2> QED BY <2>7, <2>8
<1> QED BY <1>1, ResultInductive, PTL

\* A larger budget never makes the best point dearer, nor leaves none.
THEOREM RelaxingNeverHurts == Spec => []RelaxingHelps
<1>1. IInv => RelaxingHelps
  <2> SUFFICES ASSUME IInv, NEW a \in Budgets \ {Missing}, NEW b \in Budgets \ {Missing}, a <= b,
                      PickBest(measured, <<a, 1>>).best # 0
               PROVE  /\ PickBest(measured, <<b, 1>>).best # 0
                      /\ LE(Energy(measured, PickBest(measured, <<b, 1>>).best),
                            Energy(measured, PickBest(measured, <<a, 1>>).best))
    BY DEF RelaxingHelps
  <2>1. a \in Nat /\ b \in Nat /\ measured \in Seq(Run)
    BY ResultAssumption DEF IInv, TypeOK
  <2>2. HasSlo(<<a, 1>>) /\ HasSlo(<<b, 1>>)
    BY <2>1 DEF HasSlo, NoResult, Missing
  <2>3. ASSUME NEW i, Meets(measured, i, <<a, 1>>)
        PROVE  Meets(measured, i, <<b, 1>>)
    <3>1. ~None(P99s(measured, i)) /\ LE(Mean(P99s(measured, i)), <<a, 1>>)
      BY <2>3 DEF Meets
    <3>2. Mean(P99s(measured, i)) \in Nat \X (Nat \ {0})
      BY <2>1, <3>1, PointFigures, MeanFraction
    <3>3. LE(<<a, 1>>, <<b, 1>>)
      BY <2>1 DEF LE
    <3>4. <<a, 1>> \in Nat \X (Nat \ {0}) /\ <<b, 1>> \in Nat \X (Nat \ {0})
      BY <2>1
    <3> QED BY <3>1, <3>2, <3>3, <3>4, LETransitive DEF Meets
  <2>4. Eligible(measured, <<a, 1>>) \subseteq Eligible(measured, <<b, 1>>)
    BY <2>2, <2>3 DEF Eligible, Scored
  <2>5. PickBest(measured, <<a, 1>>).best \in Eligible(measured, <<a, 1>>)
    BY <2>1, BestIsBest
  <2>6. /\ PickBest(measured, <<b, 1>>).best \in DOMAIN Points
        /\ LE(Energy(measured, PickBest(measured, <<b, 1>>).best),
              Energy(measured, PickBest(measured, <<a, 1>>).best))
    BY <2>1, <2>4, <2>5, BestIsBest
  <2> QED BY <2>6, GridSize
<1> QED BY <1>1, ResultInductive, PTL
=============================================================================
