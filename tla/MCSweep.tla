------------------------------ MODULE MCSweep -------------------------------
(***************************************************************************)
(* Instances of Sweep for TLC: the command lines worth telling apart.      *)
(***************************************************************************)
EXTENDS SweepInvariant

Line(kind, powers, fresh) ==
  [kind |-> kind, clocks |-> TRUE, powers |-> powers, low |-> FALSE, allowed |-> TRUE,
   slo |-> FALSE, fresh |-> fresh]

\* A grid of both axes, a stock sweep, a clock below the floor.
SweepLines == {Line("sweep", TRUE, FALSE), [Line("sweep", FALSE, FALSE) EXCEPT !.clocks = FALSE],
               [Line("sweep", FALSE, FALSE) EXCEPT !.low = TRUE]}

\* With and without a supplied budget, with the output directory kept or new.
BenchmarkLines == {Line("benchmark", FALSE, FALSE),
                   [Line("benchmark", FALSE, TRUE) EXCEPT !.slo = TRUE],
                   [Line("calibrate", FALSE, TRUE) EXCEPT !.allowed = FALSE]}
AllLines == SweepLines \cup BenchmarkLines

Everywhere == Labels \ {"flag", "hooks", "exit"}
=============================================================================
