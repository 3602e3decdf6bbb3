---------------------------- MODULE SweepResult ------------------------------
(***************************************************************************)
(* The figures of a sweep: what _measure makes of the counters read around *)
(* a load, SweepResult.finalise over the runs of all points, and the       *)
(* verdict benchmark prints.                                               *)
(*                                                                         *)
(* Runs come point by point, round by round, until the grid is complete or *)
(* the sweep is aborted; then finalise, once, and the report.  Means are   *)
(* fractions <<numerator, denominator>>; a missing figure is Missing, and  *)
(* the figures of a point are a function of the runs that have one.        *)
(***************************************************************************)
EXTENDS Ranks, FiniteSetsExt, Sequences

CONSTANTS Points,     \* the grid: [clock, capped], stock first, clock 0
          Repeats,
          Loads(_),   \* what a run of a point may be: [energy, gen, p99, mhz]
          Warms,      \* what a counter may hold before a run
          Budgets,    \* --slo-ms, or Missing to derive the threshold
          Slack,      \* --slo-slack, a fraction
          MinStock,   \* MIN_STOCK_RUNS_FOR_SLO
          Noise,      \* NOISE_FLOOR_FRACTION, a fraction
          MaxFaults   \* bound on failing reads, resets and aborts

Missing == -1
Figure == Nat \cup {Missing}
Fraction == Int \X (Nat \ {0})

ASSUME ResultAssumption ==
  /\ Points \in Seq([clock: Nat, capped: BOOLEAN]) /\ Points # <<>>
  /\ Points[1] = [clock |-> 0, capped |-> FALSE]
  /\ Repeats \in Nat \ {0} /\ MaxFaults \in Nat /\ MinStock \in Nat
  /\ {Slack, Noise} \subseteq Fraction /\ Budgets \subseteq Nat \cup {Missing}
  /\ Warms \subseteq Nat
  /\ \A i \in DOMAIN Points :
       Loads(i) \subseteq [energy: Nat, gen: Nat, p99: Figure, mhz: Figure]

VARIABLES budget,    \* slo_ms
          measured,  \* runs, each with its point, its round and what truly was
          aborted,
          result,    \* of finalise, or NoResult
          report,    \* the verdict printed: a clock, "stock", "none"
          faults

vars == <<budget, measured, aborted, result, report, faults>>

NoResult == [slo |-> <<Missing, 1>>, best |-> 0, tied |-> {}, surprise |-> 0, warned |-> {}]

Executions == Repeats * Len(Points)
Complete == Len(measured) = Executions

-----------------------------------------------------------------------------
(* Fractions and statistics *)

LE(a, b) == a[1] * b[2] <= b[1] * a[2]
LT(a, b) == ~LE(b, a)
Minus(a, b) == <<a[1] * b[2] - b[1] * a[2], a[2] * b[2]>>
Times(a, b) == <<a[1] * b[1], a[2] * b[2]>>

\* Of figures, as functions of the runs they are of.
None(f) == DOMAIN f = {}
Count(f) == Cardinality(DOMAIN f)
Total(f) == MapThenSumSet(LAMBDA k : f[k], DOMAIN f)
Mean(f) == <<Total(f), Count(f)>>

\* The square of statistics.stdev; 0 for one value.
Variance(f) ==
  LET n == Count(f)
      squares == [k \in DOMAIN f |-> f[k] * f[k]]
  IN  IF n > 1 THEN <<n * Total(squares) - Total(f) * Total(f), n * (n - 1)>> ELSE <<0, 1>>

Median(f) == <<Ranked(f, (Count(f) + 1) \div 2) + Ranked(f, Count(f) \div 2 + 1), 2>>

-----------------------------------------------------------------------------
(* One run *)

\* Mutant: a counter that went backwards is subtracted all the same.
DeltaAnyway(before, after) ==
  IF Missing \in {before, after} THEN Missing ELSE after - before

\* _apply_energy and workload._delta.
Delta(before, after) ==
  IF Missing \in {before, after} \/ after < before THEN Missing ELSE after - before

\* A counter read before and after w was done: the two values, was that spoilt, and
\* did the counter start again under a load that counts as much as it had held.
Reading(before, after, spoilt, outran) ==
  [before |-> before, after |-> after, spoilt |-> spoilt, outran |-> outran]

\* A read may fail, the counter may start again from nothing at any moment in
\* between.
Around(held, w) ==
  {Reading(held, held + w, 0, FALSE)}
    \cup (IF faults < MaxFaults
            THEN {Reading(Missing, w, 1, FALSE), Reading(w, Missing, 1, FALSE),
                  Reading(held, 0, 1, held <= w), Reading(held, w, 1, held <= w)}
            ELSE {})

Readings(w) == UNION {Around(held, w) : held \in Warms}

\* joules_per_generated_token, of a run with both figures and any tokens.
PerToken(energy, gen) ==
  IF Missing \in {energy, gen} \/ gen = 0 THEN Missing ELSE energy \div gen

Measure ==
  /\ result = NoResult /\ ~aborted /\ ~Complete
  /\ LET k == Len(measured)
         i == (k % Len(Points)) + 1
     IN  \E load \in Loads(i) : \E e \in Readings(load.energy), g \in Readings(load.gen) :
           /\ measured' = Append(measured,
                [point |-> i, round |-> (k \div Len(Points)) + 1,
                 jpt |-> PerToken(Delta(e.before, e.after), Delta(g.before, g.after)),
                 p99 |-> load.p99, mhz |-> load.mhz,
                 true |-> PerToken(load.energy, load.gen), outran |-> e.outran \/ g.outran])
           /\ faults' = faults + e.spoilt + g.spoilt /\ faults' <= MaxFaults
  /\ UNCHANGED <<budget, aborted, result, report>>

\* The sweep ends early: a guard failed, the load failed, Ctrl-C.
Abort ==
  /\ result = NoResult /\ ~aborted /\ ~Complete /\ faults < MaxFaults
  /\ aborted' = TRUE /\ faults' = faults + 1
  /\ UNCHANGED <<budget, measured, result, report>>

-----------------------------------------------------------------------------
(* finalise *)

Runs(ms, i) == {k \in DOMAIN ms : ms[k].point = i}
Jpts(ms, i) == [k \in {k \in Runs(ms, i) : ms[k].jpt # Missing} |-> ms[k].jpt]
P99s(ms, i) == [k \in {k \in Runs(ms, i) : ms[k].p99 # Missing} |-> ms[k].p99]
Clocks(ms, i) == [k \in {k \in Runs(ms, i) : ms[k].mhz # Missing} |-> ms[k].mhz]

\* The threshold: given, derived from the stock runs, or none.
Slo(ms, b) ==
  IF b # Missing THEN <<b, 1>>
  ELSE IF None(P99s(ms, 1)) THEN NoResult.slo
  ELSE Times(Median(P99s(ms, 1)), Slack)

HasSlo(slo) == slo # NoResult.slo

\* Mutant: a point meets what it exceeds.
MeetsNot(ms, i, slo) == ~None(P99s(ms, i)) /\ LE(slo, Mean(P99s(ms, i)))
Meets(ms, i, slo) == ~None(P99s(ms, i)) /\ LE(Mean(P99s(ms, i)), slo)

\* joules_per_generated_token of stock has moved between its first and its last
\* run with a figure.
Drifted(ms) ==
  LET j == Jpts(ms, 1)
      K == {k \in DOMAIN j : j[k] # 0}
      moved == j[Max(K)] - j[Min(K)]
      floor == Times(<<j[Min(K)], 1>>, Noise)
  IN  Cardinality(K) >= 2 /\ (LT(floor, <<moved, 1>>) \/ LT(<<moved, 1>>, <<-floor[1], floor[2]>>))

\* Points with runs, but not as many as asked for.
Uneven(ms) == {i \in DOMAIN Points : Cardinality(Runs(ms, i)) \notin {0, Repeats}}

\* round(): to the nearest, from halfway to the even one.
Rounded(q) ==
  LET n == q[1] \div q[2]
      twice == 2 * (q[1] % q[2])
  IN  IF twice > q[2] \/ (twice = q[2] /\ n % 2 = 1) THEN n + 1 ELSE n

\* Achieved clocks that are the same, or not the ones asked for.
Indistinct(ms) ==
  \E i, j \in {i \in DOMAIN Points : ~None(Clocks(ms, i))} :
    i # j /\ Rounded(Mean(Clocks(ms, i))) = Rounded(Mean(Clocks(ms, j)))
Snapped(ms) ==
  \E i \in {i \in DOMAIN Points : Points[i].clock # 0 /\ ~None(Clocks(ms, i))} :
    LET gap == Minus(Mean(Clocks(ms, i)), <<Points[i].clock, 1>>)
    IN  LE(<<1, 1>>, gap) \/ LE(gap, <<-1, 1>>)

Scored(ms, slo) ==
  {i \in DOMAIN Points : ~None(Jpts(ms, i)) /\ (HasSlo(slo) => Meets(ms, i, slo))}

\* Power-capped points are on an axis nothing has verified.
Verified == {i \in DOMAIN Points : ~Points[i].capped}

Energy(ms, i) == Mean(Jpts(ms, i))

\* Mutant: among equals the last.
LeastLast(ms, I) ==
  CHOOSE i \in I : \A j \in I : /\ LE(Energy(ms, i), Energy(ms, j))
                                /\ j > i => LT(Energy(ms, i), Energy(ms, j))

\* min(): the first of the least.
Least(ms, I) ==
  CHOOSE i \in I : \A j \in I : /\ LE(Energy(ms, i), Energy(ms, j))
                                /\ j < i => LT(Energy(ms, i), Energy(ms, j))

\* What the sweep cannot resolve: d is within the best point's standard
\* deviation or within the noise floor.
InBand(ms, best, d) ==
  \/ LE(d, <<0, 1>>)
  \/ LE(Times(d, d), Variance(Jpts(ms, best)))
  \/ LE(d, Times(Energy(ms, best), Noise))

\* Unverified points that beat the best by more than that.
Surprises(ms, best, I) ==
  {i \in I : ~InBand(ms, best, Minus(Energy(ms, best), Energy(ms, i)))}

PickBest(ms, slo) ==
  LET eligible == Scored(ms, slo) \cap Verified
      unverified == Scored(ms, slo) \ Verified
      best == Least(ms, eligible)
      tied == {i \in eligible \ {best} :
                 InBand(ms, best, Minus(Energy(ms, i), Energy(ms, best)))}
      beat == Surprises(ms, best, unverified)
  IN  IF eligible = {}
        THEN [best |-> 0, tied |-> {}, surprise |-> 0]
        ELSE [best |-> best, tied |-> tied,
              surprise |-> IF beat = {} THEN 0 ELSE Least(ms, beat)]

Warnings(ms, slo, b) ==
  {w \in {"no slo", "few stock runs", "drift", "indistinct", "snapped"} :
     CASE w = "no slo" -> ~HasSlo(slo)
       [] w = "few stock runs" -> b = Missing /\ HasSlo(slo) /\ Count(P99s(ms, 1)) < MinStock
       [] w = "drift" -> Drifted(ms)
       [] w = "indistinct" -> Indistinct(ms)
       [] w = "snapped" -> Snapped(ms)}

\* Mutant: what there is of an aborted sweep is ranked.
RanksAnyway == TRUE
Ranks == ~aborted

Finalised(ms, b) ==
  LET slo == Slo(ms, b)
      picked == PickBest(ms, slo)
      flags == Warnings(ms, slo, b)
      given == [slo |-> slo, best |-> 0, tied |-> {}, surprise |-> 0,
                warned |-> flags \cup {"aborted"}]
  IN  IF ~Ranks THEN given
      ELSE [given EXCEPT !.best = picked.best, !.tied = picked.tied,
              !.surprise = picked.surprise,
              !.warned = flags
                \cup (IF Uneven(ms) # {} THEN {"uneven"} ELSE {})
                \cup (IF Scored(ms, slo) \ Verified # {} THEN {"unverified"} ELSE {})
                \cup (IF picked.best = 0 THEN {"no best"} ELSE {})
                \cup (IF picked.tied # {} THEN {"tied"} ELSE {})
                \cup (IF picked.surprise # 0 THEN {"surprise"} ELSE {})]

Finalise ==
  /\ result = NoResult /\ (aborted \/ Complete)
  /\ result' = Finalised(measured, budget)
  /\ UNCHANGED <<budget, measured, aborted, report, faults>>

\* format_benchmark_report: stock and the best point are both needed.
Printed ==
  IF result.best = 0 \/ None(Jpts(measured, 1)) THEN "no comparable result"
  ELSE IF result.best = 1 THEN "stock" ELSE "suggested"

Render ==
  /\ result # NoResult /\ report = "nothing"
  /\ report' = Printed
  /\ UNCHANGED <<budget, measured, aborted, result, faults>>

Init == /\ budget \in Budgets
        /\ measured = <<>> /\ aborted = FALSE
        /\ result = NoResult /\ report = "nothing"
        /\ faults = 0

Next == Measure \/ Abort \/ Finalise \/ Render

Spec == Init /\ [][Next]_vars

-----------------------------------------------------------------------------
Run == [point: DOMAIN Points, round: 1..Repeats, jpt: Figure, p99: Figure, mhz: Figure,
        true: Figure, outran: BOOLEAN]

TypeOK ==
  /\ budget \in Budgets /\ aborted \in BOOLEAN
  /\ measured \in Seq(Run) /\ Len(measured) <= Executions
  /\ \A k \in DOMAIN measured : measured[k].point = ((k - 1) % Len(Points)) + 1
  /\ result.slo \in Fraction
  /\ {result.best, result.surprise} \subseteq 0..Len(Points)
  /\ result.tied \subseteq Verified
  /\ report \in {"nothing", "no comparable result", "stock", "suggested"}
  /\ faults \in 0..MaxFaults

Named == result.best # 0

\* A counter that could not be read, or that started anew during a run, leaves no
\* trace in a figure: what a point is ranked by is what its runs truly took.  The
\* code knows a restart by a counter that went backwards, so that the exception is
\* a restart under a load that counts as much as the counter had held before.
FiguresAreTrue ==
  /\ TypeOK
  /\ \A k \in DOMAIN measured :
       measured[k].jpt \in {Missing, measured[k].true} \/ measured[k].outran

\* An aborted sweep has no best point, and benchmark reports no figure of it.
PartialNamesNothing ==
  aborted /\ report # "nothing" => ~Named /\ report = "no comparable result"

\* The clock benchmark suggests takes less energy than stock, or stock is too
\* slow for the budget.
SuggestionSaves ==
  report = "suggested" =>
    \/ LT(Energy(measured, result.best), Energy(measured, 1))
    \/ HasSlo(result.slo) /\ ~Meets(measured, 1, result.slo)

\* Relaxing the budget never makes the best point dearer, nor leaves none.
RelaxingHelps ==
  Complete =>
    \A a, b \in Budgets \ {Missing} :
      LET tight == PickBest(measured, <<a, 1>>).best
          loose == PickBest(measured, <<b, 1>>).best
      IN  a <= b /\ tight # 0 => loose # 0 /\ LE(Energy(measured, loose), Energy(measured, tight))

-----------------------------------------------------------------------------
(* The inductive invariant behind these properties *)

FiguresInv ==
  \A k \in DOMAIN measured :
    measured[k].jpt \in {Missing, measured[k].true} \/ measured[k].outran
ResultInv == result # NoResult => result = Finalised(measured, budget) /\ (aborted \/ Complete)
ReportInv == report # "nothing" => result # NoResult /\ report = Printed

IInv == TypeOK /\ FiguresInv /\ ResultInv /\ ReportInv
=============================================================================
