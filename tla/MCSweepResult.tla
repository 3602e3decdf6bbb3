--------------------------- MODULE MCSweepResult ----------------------------
(***************************************************************************)
(* An instance of SweepResult for TLC: stock, a clock, the same clock with *)
(* a cap, two rounds.  Loads lie on both sides of the noise floor and of   *)
(* the budgets, and a counter holds next to nothing before a run, or more  *)
(* than a run adds to it.                                                  *)
(***************************************************************************)
EXTENDS SweepResult

MCPoints == <<[clock |-> 0, capped |-> FALSE], [clock |-> 150, capped |-> FALSE],
              [clock |-> 150, capped |-> TRUE]>>

Load(energy, p99, mhz) == [energy |-> energy, gen |-> 2, p99 |-> p99, mhz |-> mhz]

MCLoads(i) ==
  CASE i = 1 -> {Load(200, 50, 190), Load(206, 52, 190), [Load(200, Missing, 190) EXCEPT !.gen = 0]}
    [] i = 2 -> {Load(200, 54, 151), Load(190, 58, 150), Load(196, 54, 150)}
    [] i = 3 -> {Load(188, 54, 150), Load(180, 54, 150), Load(194, 60, 151)}

MCWarms == {1, 300}
MCBudgets == {53, 56, Missing}
MCSlack == <<11, 10>>
MCNoise == <<2, 100>>
=============================================================================
