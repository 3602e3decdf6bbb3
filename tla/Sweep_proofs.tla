---------------------------- MODULE Sweep_proofs ----------------------------
(***************************************************************************)
(* The safety of Sweep, for every set of command lines, every number of    *)
(* rounds, commands and failures.                                          *)
(***************************************************************************)
EXTENDS SweepInvariant, TLAPS

-----------------------------------------------------------------------------
(* The grid *)

LEMMA ProductNat ==
  ASSUME NEW m \in Nat, NEW n \in Nat
  PROVE  m * n \in Nat
  OBVIOUS

LEMMA Rest ==
  ASSUME NEW a \in Nat, NEW n \in Nat \ {0}
  PROVE  (a % n) + 1 \in 1..n
  OBVIOUS

LEMMA Singleton ==
  ASSUME NEW S, NEW x \in S
  PROVE  <<x>> \in Seq(S) /\ Len(<<x>>) = 1
  OBVIOUS

LEMMA Nothing ==
  ASSUME NEW S
  PROVE  <<>> \in Seq(S) /\ Len(<<>>) = 0
  OBVIOUS

LEMMA Joined ==
  ASSUME NEW S, NEW s \in Seq(S), NEW t \in Seq(S)
  PROVE  /\ s \o t \in Seq(S)
         /\ Len(s \o t) = Len(s) + Len(t)
         /\ Len(s) \in Nat /\ Len(t) \in Nat
  OBVIOUS

\* The grid is never empty and asks for settings only.
LEMMA GridType ==
  ASSUME NEW c \in Command
  PROVE  /\ Grid(c) \in Seq(SUBSET Settings)
         /\ Len(Grid(c)) \in Nat \ {0}
<1> DEFINE S == SUBSET Settings
           clocks == IF c.clocks THEN {"clock"} ELSE Stock
           G1 == <<Stock>>
           G2 == IF c.clocks THEN <<clocks>> ELSE <<>>
           G3 == IF c.powers THEN <<clocks \cup {"power"}>> ELSE <<>>
<1>1. Stock \in S /\ clocks \in S /\ clocks \cup {"power"} \in S
  BY DEF Settings, Stock
<1>2. Grid(c) = (G1 \o G2) \o G3
  BY DEF Grid
<1> HIDE DEF S, clocks
<1>3. G1 \in Seq(S) /\ Len(G1) = 1
  BY <1>1, Singleton
<1>4. G2 \in Seq(S)
  BY <1>1, Singleton, Nothing
<1>5. G3 \in Seq(S)
  BY <1>1, Singleton, Nothing
<1> HIDE DEF G1, G2, G3
<1>6. G1 \o G2 \in Seq(S) /\ Len(G1 \o G2) = 1 + Len(G2) /\ Len(G2) \in Nat
  BY <1>3, <1>4, Joined
<1>7. /\ (G1 \o G2) \o G3 \in Seq(S)
      /\ Len((G1 \o G2) \o G3) = Len(G1 \o G2) + Len(G3) /\ Len(G3) \in Nat
  BY <1>5, <1>6, Joined
<1> QED
  BY <1>2, <1>6, <1>7 DEF S

LEMMA PointsType ==
  ASSUME cmd \in Commands
  PROVE  /\ Points \in Seq(SUBSET Settings)
         /\ Len(Points) \in Nat \ {0}
<1>1. Grid(cmd) \in Seq(SUBSET Settings) /\ Len(Grid(cmd)) \in Nat \ {0}
  <2>1. cmd \in Command
    BY SweepAssumption
  <2> QED BY <2>1, GridType
<1>2. <<Stock>> \in Seq(SUBSET Settings) /\ Len(<<Stock>>) = 1
  <2>1. Stock \in SUBSET Settings
    BY DEF Stock
  <2> QED BY <2>1, Singleton
<1>3. Points = <<Stock>> \/ Points = Grid(cmd)
  BY DEF Points
<1>4. CASE Points = <<Stock>>
  BY <1>2, <1>4
<1>5. CASE Points = Grid(cmd)
  BY <1>1, <1>5
<1> QED
  BY <1>3, <1>4, <1>5

LEMMA ExecutionsType ==
  ASSUME cmd \in Commands
  PROVE  Executions \in Nat
  BY PointsType, SweepAssumption, ProductNat DEF Executions

LEMMA PointAtType ==
  ASSUME cmd \in Commands, NEW k \in Nat \ {0}
  PROVE  PointAt(k) \in SUBSET Settings
<1>1. k - 1 \in Nat
  OBVIOUS
<1>2. ((k - 1) % Len(Points)) + 1 \in 1..Len(Points)
  BY <1>1, PointsType, Rest
<1> QED
  BY <1>2, PointsType DEF PointAt

\* A calibration measures stock.
LEMMA CalibrationPoint ==
  ASSUME stage = "calibrate", NEW k \in Nat \ {0}
  PROVE  PointAt(k) = Stock
<1>1. Points = <<Stock>> /\ Len(Points) = 1
  BY DEF Points
<1>2. ((k - 1) % 1) + 1 \in 1..1
  <2>1. k - 1 \in Nat
    OBVIOUS
  <2> QED BY <2>1, Rest
<1>3. ((k - 1) % Len(Points)) + 1 = 1
  BY <1>1, <1>2
<1> QED
  BY <1>1, <1>3 DEF PointAt

-----------------------------------------------------------------------------
(* Frames *)

\* The grid and its executions are those of the command and the stage.
LEMMA SameGrid ==
  ASSUME cmd' = cmd, stage' = stage
  PROVE  /\ Points' = Points
         /\ Executions' = Executions
         /\ \A k : PointAt(k)' = PointAt(k)
<1>1. Points' = Points
  BY DEF Points
<1>2. Executions' = Executions
  BY <1>1 DEF Executions
<1>3. \A k : PointAt(k)' = PointAt(k)
  BY <1>1 DEF PointAt
<1> QED
  BY <1>1, <1>2, <1>3

LEMMA SamePoint ==
  ASSUME cmd' = cmd, stage' = stage, runs' = runs
  PROVE  Current' = Current
  BY SameGrid DEF Current

\* The rounds of a command that has just been given.
LEMMA NewExecutionsType ==
  ASSUME cmd' \in Commands
  PROVE  Executions' \in Nat
<1>1. Grid(cmd') \in Seq(SUBSET Settings) /\ Len(Grid(cmd')) \in Nat \ {0}
  <2>1. cmd' \in Command
    BY SweepAssumption
  <2> QED BY <2>1, GridType
<1>2. Len(<<Stock>>) = 1
  OBVIOUS
<1>3. Points' = <<Stock>> \/ Points' = Grid(cmd')
  BY DEF Points
<1>4. Len(Points') \in Nat
  BY <1>1, <1>2, <1>3
<1> QED
  BY <1>4, SweepAssumption, ProductNat DEF Executions

USE DEF At, Goto, Raise, Calm, Succeeds, Failing, Returns, Running, Leaving, Onward,
        outsideVars, commandVars, guardVars, runVars, abortVars

-----------------------------------------------------------------------------
(* Types *)

\* The device's settings, and what _point_writes has of them.
LEMMA SettingTypes ==
  ASSUME IInv, Next
  PROVE  dev' \in SUBSET Settings /\ wrote' \in SUBSET Settings
<1>t. TypeOK
  BY DEF IInv
<1>1. CASE Invoke
  BY <1>1, <1>t DEF Invoke, NewRunner, TypeOK, Settings, Stock
<1>2. CASE BuildGuard
  BY <1>2, <1>t DEF BuildGuard, TypeOK, Settings, Stock
<1>3. CASE WriteClock
  BY <1>3, <1>t DEF WriteClock, Write, TypeOK, Settings, Stock
<1>4. CASE WritePower
  BY <1>4, <1>t DEF WritePower, Write, TypeOK, Settings, Stock
<1>5. CASE Restore
  BY <1>5, <1>t DEF Restore, RestoreRaises, GivesUp, TypeOK, Settings, Stock
<1>6. CASE Calibrated
  BY <1>6, <1>t DEF Calibrated, NewRunner, TypeOK, Settings, Stock
<1>7. CASE Exit
  BY <1>7, <1>t DEF Exit, Ends, NewRunner, TypeOK, Settings, Stock
<1>8. CASE Kill
  BY <1>8, <1>t DEF Kill, Ends, NewRunner, TypeOK, Settings, Stock
<1>9. CASE Recover
  BY <1>9, <1>t DEF Recover, processVars, TypeOK, Settings, Stock
<1>10. CASE NeighbourActs
  BY <1>10, <1>t DEF NeighbourActs, processVars, TypeOK, Settings, Stock
<1>11. CASE CheckArguments \/ OpenDevice \/ OpenSampler \/ WarmUp \/ NextPoint \/ Arm \/
          Settle \/ EndLoad \/ Unwind \/ Leave \/ Release \/ Flag \/ Abort \/ CloseSampler \/
          CloseControllers \/ WriteOutputs \/ Render \/ ExitHooks \/ Interrupt \/ Terminate
  <2>1. UNCHANGED <<dev, wrote>>
    BY <1>11 DEF CheckArguments, OpenDevice, OpenSampler, WarmUp, NextPoint, Arm, Settle,
        EndLoad, Unwind, Leave, Release, Flag, Abort, CloseSampler, CloseControllers, WriteOutputs,
        Render, ExitHooks, Interrupt, Terminate
  <2> QED BY <1>t, <2>1 DEF TypeOK
<1> QED
  BY <1>1, <1>2, <1>3, <1>4, <1>5, <1>6, <1>7, <1>8, <1>9, <1>10, <1>11 DEF Next, SweepStep

\* hardware_may_be_modified, and whether there was a p99.
LEMMA FlagTypes ==
  ASSUME IInv, Next
  PROVE  hw' \in BOOLEAN /\ p99' \in BOOLEAN
<1>t. TypeOK
  BY DEF IInv
<1>1. CASE Invoke
  BY <1>1, <1>t DEF Invoke, NewRunner, TypeOK
<1>2. CASE EndLoad
  BY <1>2, <1>t DEF EndLoad, LeavePoint, StopSampler, TypeOK
<1>3. CASE Flag
  BY <1>3, <1>t DEF Flag, StillOwes, Discard, TypeOK
<1>4. CASE Calibrated
  BY <1>4, <1>t DEF Calibrated, NewRunner, TypeOK
<1>5. CASE Exit
  BY <1>5, <1>t DEF Exit, Ends, NewRunner, TypeOK
<1>6. CASE Kill
  BY <1>6, <1>t DEF Kill, Ends, NewRunner, TypeOK
<1>7. CASE CheckArguments \/ OpenDevice \/ OpenSampler \/ WarmUp \/ NextPoint \/ BuildGuard \/
          Arm \/ WriteClock \/ WritePower \/ Settle \/ Unwind \/ Leave \/ Restore \/ Release \/
          Abort \/ CloseSampler \/ CloseControllers \/ WriteOutputs \/ Render \/ ExitHooks \/
          Interrupt \/ Terminate \/ Recover \/ NeighbourActs
  <2>1. UNCHANGED <<hw, p99>>
    BY <1>7 DEF CheckArguments, OpenDevice, OpenSampler, WarmUp, NextPoint, BuildGuard, Arm,
        WriteClock, Write, WritePower, Settle, Unwind, Leave, Restore, Release, Abort, CloseSampler,
        CloseControllers, WriteOutputs, Render, ExitHooks, Interrupt, Terminate, processVars,
        Recover, NeighbourActs
  <2> QED BY <1>t, <2>1 DEF TypeOK
<1> QED
  BY <1>1, <1>2, <1>3, <1>4, <1>5, <1>6, <1>7 DEF Next, SweepStep

\* Stages, reasons, exceptions and samplers.
LEMMA StateTypes ==
  ASSUME IInv, Next
  PROVE  /\ stage' \in {"calibrate", "sweep"}
         /\ reason' \in Reasons
         /\ exc' \in {"none", "refusal", "guard", "sweep", "other", "interrupt"}
         /\ sampler' \in {"none", "idle", "live", "late"}
         /\ slo' \in {"none", "given", "stock", "modified"}
<1>t. TypeOK
  BY DEF IInv
<1>1. CASE Invoke
  BY <1>1, <1>t DEF Invoke, NewRunner, TypeOK, Reasons, NoReason, Verdict
<1>2. CASE OpenSampler
  BY <1>2, <1>t DEF OpenSampler, TypeOK, Reasons, NoReason, Verdict
<1>3. CASE WarmUp
  BY <1>3, <1>t DEF WarmUp, TypeOK, Reasons, NoReason, Verdict
<1>4. CASE BuildGuard
  BY <1>4, <1>t DEF BuildGuard, TypeOK, Reasons, NoReason, Verdict
<1>5. CASE Arm
  BY <1>5, <1>t DEF Arm, TypeOK, Reasons, NoReason, Verdict
<1>6. CASE WriteClock
  BY <1>6, <1>t DEF WriteClock, Write, TypeOK, Reasons, NoReason, Verdict
<1>7. CASE WritePower
  BY <1>7, <1>t DEF WritePower, Write, TypeOK, Reasons, NoReason, Verdict
<1>8. CASE Settle
  BY <1>8, <1>t DEF Settle, TypeOK, Reasons, NoReason, Verdict
<1>9. CASE EndLoad
  BY <1>9, <1>t DEF EndLoad, LeavePoint, StopSampler, TypeOK, Reasons, NoReason, Verdict
<1>10. CASE Unwind
  BY <1>10, <1>t DEF Unwind, StopSampler, TypeOK, Reasons, NoReason, Verdict
<1>19. CASE Leave
  BY <1>19, <1>t DEF Leave, LeavePoint, TypeOK, Reasons, NoReason, Verdict
<1>11. CASE Restore
  BY <1>11, <1>t DEF Restore, RestoreRaises, GivesUp, TypeOK, Reasons, NoReason, Verdict
<1>12. CASE Abort
  BY <1>12, <1>t DEF Abort, TypeOK, Reasons, NoReason, Verdict
<1>13. CASE Calibrated
  BY <1>13, <1>t DEF Calibrated, NewRunner, TypeOK, Reasons, NoReason, Verdict
<1>14. CASE CloseSampler
  BY <1>14, <1>t DEF CloseSampler, TypeOK, Reasons, NoReason, Verdict
<1>15. CASE Exit
  BY <1>15, <1>t DEF Exit, Ends, NewRunner, TypeOK, Reasons, NoReason, Verdict
<1>16. CASE Interrupt
  BY <1>16, <1>t DEF Interrupt, Landing, TypeOK, Reasons, NoReason, Verdict
<1>17. CASE Kill
  BY <1>17, <1>t DEF Kill, Ends, NewRunner, TypeOK, Reasons, NoReason, Verdict
<1>18. CASE CheckArguments \/ OpenDevice \/ NextPoint \/ Release \/ Flag \/ CloseControllers \/
          WriteOutputs \/ Render \/ ExitHooks \/ Terminate \/ Recover \/ NeighbourActs
  <2>1. UNCHANGED <<stage, reason, exc, sampler, slo>>
    BY <1>18 DEF CheckArguments, OpenDevice, NextPoint, Release, Flag, CloseControllers,
        WriteOutputs, Render, ExitHooks, Terminate, processVars, Recover, NeighbourActs
  <2> QED BY <1>t, <2>1 DEF TypeOK
<1> QED
  BY <1>1, <1>2, <1>3, <1>4, <1>5, <1>6, <1>7, <1>8, <1>9, <1>10, <1>11, <1>12, <1>13, <1>14,
    <1>15, <1>16, <1>17, <1>18, <1>19 DEF Next, SweepStep

\* Where a process is, and where restore() returns to.
LEMMA LabelTypes ==
  ASSUME IInv, Next
  PROVE  {pc, back}' \subseteq Labels \cup {"idle"}
<1>t. TypeOK
  BY DEF IInv
<1>1. CASE Invoke
  BY <1>1, <1>t DEF Invoke, NewRunner, TypeOK, Labels
<1>2. CASE CheckArguments
  BY <1>2, <1>t DEF CheckArguments, TypeOK, Labels
<1>3. CASE OpenDevice
  BY <1>3, <1>t DEF OpenDevice, TypeOK, Labels
<1>4. CASE OpenSampler
  BY <1>4, <1>t DEF OpenSampler, TypeOK, Labels
<1>5. CASE WarmUp
  BY <1>5, <1>t DEF WarmUp, TypeOK, Labels
<1>6. CASE NextPoint
  BY <1>6, <1>t DEF NextPoint, TypeOK, Labels
<1>7. CASE BuildGuard
  BY <1>7, <1>t DEF BuildGuard, TypeOK, Labels
<1>8. CASE Arm
  BY <1>8, <1>t DEF Arm, TypeOK, Labels
<1>9. CASE WriteClock
  BY <1>9, <1>t DEF WriteClock, Write, TypeOK, Labels
<1>10. CASE WritePower
  BY <1>10, <1>t DEF WritePower, Write, TypeOK, Labels
<1>11. CASE Settle
  BY <1>11, <1>t DEF Settle, TypeOK, Labels
<1>12. CASE EndLoad
  BY <1>12, <1>t DEF EndLoad, LeavePoint, StopSampler, TypeOK, Labels
<1>13. CASE Unwind
  BY <1>13, <1>t DEF Unwind, StopSampler, TypeOK, Labels
<1>30. CASE Leave
  BY <1>30, <1>t DEF Leave, LeavePoint, TypeOK, Labels
<1>14. CASE Restore
  BY <1>14, <1>t DEF Restore, RestoreRaises, GivesUp, TypeOK, Labels
<1>15. CASE Release
  BY <1>15, <1>t DEF Release, TypeOK, Labels
<1>16. CASE Flag
  BY <1>16, <1>t DEF Flag, StillOwes, Discard, TypeOK, Labels
<1>17. CASE Abort
  BY <1>17, <1>t DEF Abort, TypeOK, Labels
<1>18. CASE Calibrated
  BY <1>18, <1>t DEF Calibrated, NewRunner, TypeOK, Labels
<1>19. CASE CloseSampler
  BY <1>19, <1>t DEF CloseSampler, TypeOK, Labels
<1>20. CASE CloseControllers
  BY <1>20, <1>t DEF CloseControllers, MayClose, TypeOK, Labels
<1>21. CASE WriteOutputs
  BY <1>21, <1>t DEF WriteOutputs, Why, TypeOK, Labels
<1>22. CASE Render
  BY <1>22, <1>t DEF Render, TypeOK, Labels
<1>23. CASE ExitHooks
  BY <1>23, <1>t DEF ExitHooks, TypeOK, Labels
<1>24. CASE Exit
  BY <1>24, <1>t DEF Exit, Ends, NewRunner, TypeOK, Labels
<1>25. CASE Interrupt
  BY <1>25, <1>t DEF Interrupt, Landing, TypeOK, Labels
<1>26. CASE Terminate
  BY <1>26, <1>t DEF Terminate, TypeOK, Labels
<1>27. CASE Kill
  BY <1>27, <1>t DEF Kill, Ends, NewRunner, TypeOK, Labels
<1>28. CASE Recover
  BY <1>28, <1>t DEF Recover, processVars, TypeOK, Labels
<1>29. CASE NeighbourActs
  BY <1>29, <1>t DEF NeighbourActs, processVars, TypeOK, Labels
<1> QED
  BY <1>1, <1>2, <1>3, <1>4, <1>5, <1>6, <1>7, <1>8, <1>9, <1>10, <1>11, <1>12, <1>13, <1>14,
    <1>15, <1>16, <1>17, <1>18, <1>19, <1>20, <1>21, <1>22, <1>23, <1>24, <1>25, <1>26, <1>27,
      <1>28, <1>29, <1>30 DEF Next, SweepStep

\* Invocations and failures stay within their bounds.
LEMMA NumberTypes ==
  ASSUME IInv, Next
  PROVE  /\ claim' \in 0..Neighbour
         /\ inv' \in 0..MaxInvocations
         /\ cmd' \in Commands
         /\ shown' \in 0..MaxInvocations
         /\ faults' \in 0..MaxFaults
<1>t. TypeOK
  BY DEF IInv
<1>1. CASE Invoke
  BY <1>1, <1>t, SweepAssumption DEF Invoke, NewRunner, TypeOK, Neighbour, Free, NoJson
<1>2. CASE OpenDevice
  BY <1>2, <1>t, SweepAssumption DEF OpenDevice, TypeOK, Neighbour, Free, NoJson
<1>3. CASE OpenSampler
  BY <1>3, <1>t, SweepAssumption DEF OpenSampler, TypeOK, Neighbour, Free, NoJson
<1>4. CASE WarmUp
  BY <1>4, <1>t, SweepAssumption DEF WarmUp, TypeOK, Neighbour, Free, NoJson
<1>5. CASE BuildGuard
  BY <1>5, <1>t, SweepAssumption DEF BuildGuard, TypeOK, Neighbour, Free, NoJson
<1>6. CASE Arm
  BY <1>6, <1>t, SweepAssumption DEF Arm, TypeOK, Neighbour, Free, NoJson
<1>7. CASE WriteClock
  BY <1>7, <1>t, SweepAssumption DEF WriteClock, Write, TypeOK, Neighbour, Free, NoJson
<1>8. CASE WritePower
  BY <1>8, <1>t, SweepAssumption DEF WritePower, Write, TypeOK, Neighbour, Free, NoJson
<1>9. CASE EndLoad
  <2>1. UNCHANGED <<claim, inv, cmd, shown>>
    BY <1>9 DEF EndLoad
  <2>2. faults' \in 0..MaxFaults
    <3>1. faults' = faults \/ (faults < MaxFaults /\ faults' = faults + 1)
      BY <1>9 DEF EndLoad
    <3> QED BY <3>1, <1>t, SweepAssumption DEF TypeOK
  <2> QED BY <1>t, <2>1, <2>2 DEF TypeOK
<1>10. CASE Restore
  BY <1>10, <1>t, SweepAssumption
    DEF Restore, RestoreRaises, GivesUp, TypeOK, Neighbour, Free, NoJson
<1>11. CASE Release
  BY <1>11, <1>t, SweepAssumption DEF Release, TypeOK, Neighbour, Free, NoJson
<1>12. CASE Calibrated
  BY <1>12, <1>t, SweepAssumption DEF Calibrated, NewRunner, TypeOK, Neighbour, Free, NoJson
<1>13. CASE WriteOutputs
  <2>1. UNCHANGED <<claim, inv, cmd, shown>>
    BY <1>13 DEF WriteOutputs
  <2>2. faults' \in 0..MaxFaults
    <3>1. faults' = faults \/ (faults < MaxFaults /\ faults' = faults + 1)
      BY <1>13 DEF WriteOutputs
    <3> QED BY <3>1, <1>t, SweepAssumption DEF TypeOK
  <2> QED BY <1>t, <2>1, <2>2 DEF TypeOK
<1>14. CASE Render
  BY <1>14, <1>t, SweepAssumption DEF Render, TypeOK, Neighbour, Free, NoJson
<1>15. CASE Exit
  BY <1>15, <1>t, SweepAssumption DEF Exit, Ends, NewRunner, TypeOK, Neighbour, Free, NoJson
<1>16. CASE Interrupt
  BY <1>16, <1>t, SweepAssumption DEF Interrupt, Landing, TypeOK, Neighbour, Free, NoJson
<1>17. CASE Kill
  BY <1>17, <1>t, SweepAssumption DEF Kill, Ends, NewRunner, TypeOK, Neighbour, Free, NoJson
<1>18. CASE Recover
  BY <1>18, <1>t, SweepAssumption DEF Recover, processVars, TypeOK, Neighbour, Free, NoJson
<1>19. CASE NeighbourActs
  BY <1>19, <1>t, SweepAssumption DEF NeighbourActs, processVars, TypeOK, Neighbour, Free, NoJson
<1>20. CASE CheckArguments \/ NextPoint \/ Settle \/ Unwind \/ Leave \/ Flag \/ Abort \/
          CloseSampler \/ CloseControllers \/ ExitHooks \/ Terminate
  <2>1. UNCHANGED <<claim, inv, cmd, shown, faults>>
    BY <1>20 DEF CheckArguments, NextPoint, Settle, Unwind, Leave, Flag, Abort, CloseSampler,
        CloseControllers, ExitHooks, Terminate
  <2> QED BY <1>t, <2>1 DEF TypeOK
<1> QED
  BY <1>1, <1>2, <1>3, <1>4, <1>5, <1>6, <1>7, <1>8, <1>9, <1>10, <1>11, <1>12, <1>13, <1>14,
    <1>15, <1>16, <1>17, <1>18, <1>19, <1>20 DEF Next, SweepStep

\* A report has the shape of _write_outputs' dictionary.
LEMMA JsonType ==
  ASSUME IInv, Next
  PROVE  json' \in [by: 0..MaxInvocations, runs: Seq(SUBSET Settings), hw: BOOLEAN,
                    reason: Reasons, best: BOOLEAN, wrote: SUBSET Settings]
<1>t. TypeOK
  BY DEF IInv
<1> DEFINE Json == [by: 0..MaxInvocations, runs: Seq(SUBSET Settings), hw: BOOLEAN,
                    reason: Reasons, best: BOOLEAN, wrote: SUBSET Settings]
<1>j. json \in Json
  BY <1>t DEF TypeOK
<1>n. NoJson \in Json
  BY SweepAssumption, Nothing DEF NoJson, Free, NoReason, Reasons
<1> HIDE DEF Json
<1> SUFFICES json' \in Json
  BY DEF Json
<1>1. CASE Invoke
  BY <1>1, <1>j, <1>n DEF Invoke
<1>2. CASE WriteOutputs
  <2>1. ASSUME NEW b \in BOOLEAN
        PROVE  [by |-> inv, runs |-> runs, hw |-> hw, reason |-> Why, best |-> b, wrote |-> wrote]
                 \in Json
    <3>1. Why \in Reasons
      BY <1>t DEF TypeOK, Why, Reasons
    <3> QED BY <1>t, <3>1 DEF TypeOK, Json
  <2>2. \/ json' \in {json, NoJson}
        \/ \E b \in BOOLEAN : json' = [by |-> inv, runs |-> runs, hw |-> hw, reason |-> Why,
                                       best |-> b, wrote |-> wrote]
    BY <1>2 DEF WriteOutputs
  <2> QED BY <2>1, <2>2, <1>j, <1>n
<1>3. CASE CheckArguments \/ OpenDevice \/ OpenSampler \/ WarmUp \/ NextPoint \/ BuildGuard \/
          Arm \/ WriteClock \/ WritePower \/ Settle \/ EndLoad \/ Unwind \/ Leave \/ Restore \/
          Release \/ Flag \/ Abort \/ Calibrated \/ CloseSampler \/ CloseControllers \/
          Render \/ ExitHooks \/ Exit \/ Interrupt \/ Terminate \/ Kill \/ Recover \/
          NeighbourActs
  <2>1. json' = json
    BY <1>3 DEF CheckArguments, OpenDevice, OpenSampler, WarmUp, NextPoint, BuildGuard, Arm,
        WriteClock, Write, WritePower, Settle, EndLoad, Unwind, Leave, Restore, Release, Flag,
        Abort, Calibrated, CloseSampler, CloseControllers, Render, ExitHooks, Exit, Ends, Interrupt,
        Terminate, Kill, processVars, Recover, NeighbourActs
  <2> QED BY <1>j, <2>1
<1> QED
  BY <1>1, <1>2, <1>3 DEF Next, SweepStep

\* No more executions are kept than --repeats asks for.
LEMMA SequenceTypes ==
  ASSUME IInv, Next
  PROVE  /\ runs' \in Seq(SUBSET Settings) /\ Len(runs') <= Executions'
         /\ taken' \in Seq(SUBSET Settings) /\ Len(taken') <= 1
<1>t. TypeOK
  BY DEF IInv
<1>e. Executions \in Nat
  BY <1>t, ExecutionsType DEF TypeOK
<1>x. ASSUME runs' = <<>>, taken' = <<>>, cmd' \in Commands
      PROVE  /\ runs' \in Seq(SUBSET Settings) /\ Len(runs') <= Executions'
             /\ taken' \in Seq(SUBSET Settings) /\ Len(taken') <= 1
  <2>1. Executions' \in Nat
    BY <1>x, NewExecutionsType
  <2> QED BY <2>1, <1>x, Nothing
<1>1. CASE Invoke
  BY <1>1, <1>x, <1>t DEF Invoke, NewRunner, TypeOK
<1>2. CASE EndLoad
  <2>1. cmd' = cmd /\ stage' = stage /\ Executions' = Executions
    BY <1>2, SameGrid DEF EndLoad
  <2>2. Len(runs) < Executions /\ taken = <<>>
    BY <1>2 DEF EndLoad, IInv, PlaceInv, MidPoint
  <2>3. \/ UNCHANGED <<runs, taken>>
        \/ runs' = Append(runs, dev) /\ UNCHANGED taken
        \/ taken' = Append(taken, dev) /\ UNCHANGED runs
    BY <1>2 DEF EndLoad
  <2>4. /\ Append(runs, dev) \in Seq(SUBSET Settings) /\ Len(Append(runs, dev)) = Len(runs) + 1
        /\ Append(taken, dev) \in Seq(SUBSET Settings) /\ Len(Append(taken, dev)) = 1
        /\ Len(runs) \in Nat
    BY <1>t, <2>2 DEF TypeOK
  <2>5. CASE UNCHANGED <<runs, taken>>
    BY <1>t, <2>1, <2>5 DEF TypeOK
  <2>6. CASE runs' = Append(runs, dev) /\ taken' = taken
    BY <1>e, <1>t, <2>1, <2>2, <2>4, <2>6 DEF TypeOK
  <2>7. CASE taken' = Append(taken, dev) /\ runs' = runs
    BY <1>t, <2>1, <2>4, <2>7 DEF TypeOK
  <2> QED BY <2>3, <2>5, <2>6, <2>7
<1>3. CASE Flag
  <2>1. cmd' = cmd /\ stage' = stage /\ Executions' = Executions
    BY <1>3, SameGrid DEF Flag
  <2>2. Len(runs) < Executions
    BY <1>3 DEF Flag, IInv, PlaceInv, MidPoint
  <2>3. taken' = <<>> /\ (runs' = runs \/ runs' = runs \o taken)
    BY <1>3 DEF Flag, Discard
  <2>4. /\ runs \o taken \in Seq(SUBSET Settings)
        /\ Len(runs \o taken) = Len(runs) + Len(taken)
        /\ Len(runs) \in Nat /\ Len(taken) \in Nat
    BY <1>t, Joined DEF TypeOK
  <2>5. Len(runs \o taken) <= Executions
    BY <1>e, <1>t, <2>2, <2>4 DEF TypeOK
  <2>6. taken' \in Seq(SUBSET Settings) /\ Len(taken') <= 1
    BY <2>3, Nothing
  <2>7. runs' \in Seq(SUBSET Settings) /\ Len(runs') <= Executions'
    BY <1>t, <2>1, <2>3, <2>4, <2>5 DEF TypeOK
  <2> QED BY <2>6, <2>7
<1>4. CASE Calibrated
  <2>1. CASE NewRunner("sweep")
    BY <1>4, <2>1, <1>x, <1>t DEF Calibrated, NewRunner, TypeOK
  <2>2. CASE ~NewRunner("sweep")
    BY <1>4, <2>2, <1>t, <1>e, SameGrid DEF Calibrated, TypeOK
  <2> QED BY <2>1, <2>2
<1>5. CASE Exit
  BY <1>5, <1>x, <1>t DEF Exit, Ends, NewRunner, TypeOK
<1>6. CASE Kill
  BY <1>6, <1>x, <1>t DEF Kill, Ends, NewRunner, TypeOK
<1>7. CASE CheckArguments \/ OpenDevice \/ OpenSampler \/ WarmUp \/ NextPoint \/ BuildGuard \/
          Arm \/ WriteClock \/ WritePower \/ Settle \/ Unwind \/ Leave \/ Restore \/ Release \/
          Abort \/ CloseSampler \/ CloseControllers \/ WriteOutputs \/ Render \/ ExitHooks \/
          Interrupt \/ Terminate \/ Recover \/ NeighbourActs
  <2>1. UNCHANGED <<runs, taken, cmd, stage>>
    BY <1>7 DEF CheckArguments, OpenDevice, OpenSampler, WarmUp, NextPoint, BuildGuard, Arm,
        WriteClock, Write, WritePower, Settle, Unwind, Leave, Restore, Release, Abort, CloseSampler,
        CloseControllers, WriteOutputs, Render, ExitHooks, Interrupt, Terminate, processVars,
        Recover, NeighbourActs
  <2> QED BY <1>t, SameGrid, <2>1 DEF TypeOK
<1> QED
  BY <1>1, <1>2, <1>3, <1>4, <1>5, <1>6, <1>7 DEF Next, SweepStep

\* Guards are numbered by the executions they were built for.
LEMMA GuardTypes ==
  ASSUME IInv, Next
  PROVE  ({guard, armed} \cup owing \cup open)' \subseteq 0..Executions'
<1>t. TypeOK
  BY DEF IInv
<1>e. Executions \in Nat
  BY <1>t, ExecutionsType DEF TypeOK
<1>x. ASSUME guard' = 0, armed' = 0, owing' = {}, open' = {}, cmd' \in Commands
      PROVE  ({guard, armed} \cup owing \cup open)' \subseteq 0..Executions'
  BY <1>x, NewExecutionsType
<1>1. CASE Invoke
  BY <1>1, <1>x, <1>t DEF Invoke, NewRunner, TypeOK, IInv, IdleInv
<1>2. CASE BuildGuard
  <2>1. cmd' = cmd /\ stage' = stage /\ Executions' = Executions
    BY <1>2, SameGrid DEF BuildGuard
  <2>2. Len(runs) < Executions /\ Len(runs) \in Nat
    BY <1>2, <1>t DEF BuildGuard, IInv, PlaceInv, MidPoint, TypeOK
  <2>3. \/ UNCHANGED <<guard, open>>
        \/ guard' = Len(runs) + 1 /\ open' = open \cup {guard'}
    BY <1>2 DEF BuildGuard
  <2>4. UNCHANGED <<armed, owing>>
    BY <1>2 DEF BuildGuard
  <2>5. Len(runs) + 1 \in 0..Executions
    BY <1>e, <2>2
  <2> QED BY <1>t, <1>e, <2>1, <2>3, <2>4, <2>5 DEF TypeOK
<1>3. CASE Arm
  BY <1>3, <1>t, <1>e, SameGrid DEF Arm, TypeOK
<1>4. CASE WriteClock
  BY <1>4, <1>t, <1>e, SameGrid DEF WriteClock, Write, TypeOK
<1>5. CASE WritePower
  BY <1>5, <1>t, <1>e, SameGrid DEF WritePower, Write, TypeOK
<1>6. CASE Restore
  BY <1>6, <1>t, <1>e, SameGrid DEF Restore, RestoreRaises, GivesUp, TypeOK
<1>7. CASE Calibrated
  BY <1>7, <1>x, <1>t DEF Calibrated, TypeOK, IInv, CalibrateInv
<1>8. CASE CloseControllers
  BY <1>8, <1>t, <1>e, SameGrid DEF CloseControllers, MayClose, TypeOK
<1>9. CASE Exit
  BY <1>9, <1>x, <1>t DEF Exit, Ends, TypeOK
<1>10. CASE Kill
  BY <1>10, <1>x, <1>t DEF Kill, Ends, TypeOK
<1>11. CASE CheckArguments \/ OpenDevice \/ OpenSampler \/ WarmUp \/ NextPoint \/ Settle \/
          EndLoad \/ Unwind \/ Leave \/ Release \/ Flag \/ Abort \/ CloseSampler \/ WriteOutputs \/
          Render \/ ExitHooks \/ Interrupt \/ Terminate \/ Recover \/ NeighbourActs
  <2>1. UNCHANGED <<guard, armed, owing, open, cmd, stage>>
    BY <1>11 DEF CheckArguments, OpenDevice, OpenSampler, WarmUp, NextPoint, Settle, EndLoad,
        Unwind, Leave, Release, Flag, Abort, CloseSampler, WriteOutputs, Render, ExitHooks,
        Interrupt, Terminate, processVars, Recover, NeighbourActs
  <2> QED BY <1>t, SameGrid, <2>1 DEF TypeOK
<1> QED
  BY <1>1, <1>2, <1>3, <1>4, <1>5, <1>6, <1>7, <1>8, <1>9, <1>10, <1>11 DEF Next, SweepStep

\* Together they are the type invariant.
LEMMA TypeKept ==
  ASSUME IInv, Next
  PROVE  TypeOK'
<1> QED
  BY SettingTypes, FlagTypes, StateTypes, LabelTypes,
     NumberTypes, JsonType, SequenceTypes, GuardTypes DEF TypeOK

-----------------------------------------------------------------------------
(* The inductive invariant *)

\* A process that has ended has left nothing in memory.
LEMMA IdleKept ==
  ASSUME IInv, Next
  PROVE  IdleInv'
<1>t. TypeOK /\ Executions \in Nat
  BY ExecutionsType DEF IInv, TypeOK
<1>1. CASE Invoke
  BY <1>1, <1>t, SweepAssumption DEF Invoke, NewRunner, IInv, IdleInv, TypeOK
<1>2. CASE CheckArguments
  BY <1>2, <1>t, SweepAssumption DEF CheckArguments, IInv, IdleInv, TypeOK
<1>3. CASE OpenDevice
  BY <1>3, <1>t, SweepAssumption DEF OpenDevice, IInv, IdleInv, TypeOK
<1>4. CASE OpenSampler
  BY <1>4, <1>t, SweepAssumption DEF OpenSampler, IInv, IdleInv, TypeOK
<1>5. CASE WarmUp
  BY <1>5, <1>t, SweepAssumption DEF WarmUp, IInv, IdleInv, TypeOK
<1>6. CASE NextPoint
  BY <1>6, <1>t, SweepAssumption DEF NextPoint, IInv, IdleInv, TypeOK
<1>7. CASE BuildGuard
  BY <1>7, <1>t, SweepAssumption DEF BuildGuard, IInv, IdleInv, TypeOK
<1>8. CASE Arm
  BY <1>8, <1>t, SweepAssumption DEF Arm, IInv, IdleInv, TypeOK
<1>9. CASE WriteClock
  BY <1>9, <1>t, SweepAssumption DEF WriteClock, Write, IInv, IdleInv, TypeOK
<1>10. CASE WritePower
  BY <1>10, <1>t, SweepAssumption DEF WritePower, Write, IInv, IdleInv, TypeOK
<1>11. CASE Settle
  BY <1>11, <1>t, SweepAssumption DEF Settle, IInv, IdleInv, TypeOK
<1>12. CASE EndLoad
  BY <1>12, <1>t, SweepAssumption DEF EndLoad, LeavePoint, StopSampler, IInv, IdleInv, TypeOK
<1>13. CASE Unwind
  BY <1>13, <1>t, SweepAssumption DEF Unwind, StopSampler, IInv, IdleInv, TypeOK
<1>30. CASE Leave
  BY <1>30, <1>t, SweepAssumption DEF Leave, LeavePoint, IInv, IdleInv, TypeOK
<1>14. CASE Restore
  BY <1>14, <1>t DEF Restore, RestoreRaises, GivesUp, IInv, IdleInv, PlaceInv, TypeOK
<1>15. CASE Release
  BY <1>15, <1>t DEF Release, IInv, IdleInv, PlaceInv, TypeOK
<1>16. CASE Flag
  BY <1>16, <1>t, SweepAssumption DEF Flag, StillOwes, Discard, IInv, IdleInv, TypeOK
<1>17. CASE Abort
  BY <1>17, <1>t, SweepAssumption DEF Abort, IInv, IdleInv, TypeOK
<1>18. CASE Calibrated
  BY <1>18, <1>t, SweepAssumption DEF Calibrated, NewRunner, IInv, IdleInv, TypeOK
<1>19. CASE CloseSampler
  BY <1>19, <1>t, SweepAssumption DEF CloseSampler, IInv, IdleInv, TypeOK
<1>20. CASE CloseControllers
  BY <1>20, <1>t, SweepAssumption DEF CloseControllers, MayClose, IInv, IdleInv, TypeOK
<1>21. CASE WriteOutputs
  BY <1>21, <1>t, SweepAssumption DEF WriteOutputs, Why, IInv, IdleInv, TypeOK
<1>22. CASE Render
  BY <1>22, <1>t, SweepAssumption DEF Render, IInv, IdleInv, TypeOK
<1>23. CASE ExitHooks
  BY <1>23, <1>t, SweepAssumption DEF ExitHooks, IInv, IdleInv, TypeOK
<1>24. CASE Exit
  BY <1>24, <1>t, SweepAssumption DEF Exit, Ends, NewRunner, IInv, IdleInv, TypeOK
<1>25. CASE Interrupt
  BY <1>25, <1>t, SweepAssumption DEF Interrupt, Landing, IInv, IdleInv, TypeOK, Labels
<1>26. CASE Terminate
  BY <1>26, <1>t, SweepAssumption DEF Terminate, IInv, IdleInv, TypeOK
<1>27. CASE Kill
  BY <1>27, <1>t, SweepAssumption DEF Kill, Ends, NewRunner, IInv, IdleInv, TypeOK
<1>28. CASE Recover
  BY <1>28, <1>t, SweepAssumption DEF Recover, processVars, IInv, IdleInv, TypeOK
<1>29. CASE NeighbourActs
  BY <1>29, <1>t, SweepAssumption DEF NeighbourActs, processVars, IInv, IdleInv, TypeOK
<1> QED
  BY <1>1, <1>2, <1>3, <1>4, <1>5, <1>6, <1>7, <1>8, <1>9, <1>10, <1>11, <1>12, <1>13, <1>14,
    <1>15, <1>16, <1>17, <1>18, <1>19, <1>20, <1>21, <1>22, <1>23, <1>24, <1>25, <1>26, <1>27,
      <1>28, <1>29, <1>30 DEF Next, SweepStep

\* A calibration builds no guard and writes nothing.
LEMMA CalibrateKept ==
  ASSUME IInv, Next
  PROVE  CalibrateInv'
<1>c. stage = "calibrate" => Current = Stock
  <2>1. Len(runs) + 1 \in Nat \ {0}
    BY DEF IInv, TypeOK
  <2> QED BY <2>1, CalibrationPoint DEF Current
<1>1. CASE Invoke
  BY <1>1 DEF Invoke, NewRunner, IInv, IdleInv, CalibrateInv, NoReason
<1>2. CASE CheckArguments
  BY <1>2 DEF CheckArguments, IInv, IdleInv, CalibrateInv, NoReason
<1>3. CASE OpenDevice
  BY <1>3 DEF OpenDevice, IInv, IdleInv, CalibrateInv, NoReason
<1>4. CASE OpenSampler
  BY <1>4 DEF OpenSampler, IInv, IdleInv, CalibrateInv, NoReason
<1>5. CASE WarmUp
  BY <1>5 DEF WarmUp, IInv, IdleInv, CalibrateInv, NoReason
<1>6. CASE NextPoint
  BY <1>6, <1>c DEF NextPoint, IInv, CalibrateInv
<1>7. CASE BuildGuard
  BY <1>7 DEF BuildGuard, IInv, IdleInv, CalibrateInv, NoReason
<1>8. CASE Arm
  BY <1>8 DEF Arm, IInv, IdleInv, CalibrateInv, NoReason
<1>9. CASE WriteClock
  BY <1>9 DEF WriteClock, Write, IInv, IdleInv, CalibrateInv, NoReason
<1>10. CASE WritePower
  BY <1>10 DEF WritePower, Write, IInv, IdleInv, CalibrateInv, NoReason
<1>11. CASE Settle
  BY <1>11 DEF Settle, IInv, IdleInv, CalibrateInv, NoReason
<1>12. CASE EndLoad
  BY <1>12, <1>c DEF EndLoad, LeavePoint, StopSampler, IInv, CalibrateInv
<1>13. CASE Unwind
  BY <1>13, <1>c DEF Unwind, StopSampler, IInv, CalibrateInv
<1>30. CASE Leave
  BY <1>30, <1>c DEF Leave, LeavePoint, IInv, CalibrateInv
<1>14. CASE Restore
  BY <1>14 DEF Restore, RestoreRaises, GivesUp, IInv, CalibrateInv, PlaceInv
<1>15. CASE Release
  BY <1>15 DEF Release, IInv, CalibrateInv, PlaceInv
<1>16. CASE Flag
  BY <1>16 DEF Flag, StillOwes, Discard, IInv, IdleInv, CalibrateInv, NoReason
<1>17. CASE Abort
  BY <1>17 DEF Abort, IInv, IdleInv, CalibrateInv, NoReason
<1>18. CASE Calibrated
  BY <1>18 DEF Calibrated, NewRunner, IInv, IdleInv, CalibrateInv, NoReason
<1>19. CASE CloseSampler
  BY <1>19 DEF CloseSampler, IInv, IdleInv, CalibrateInv, NoReason
<1>20. CASE CloseControllers
  BY <1>20 DEF CloseControllers, MayClose, IInv, IdleInv, CalibrateInv, NoReason
<1>21. CASE WriteOutputs
  BY <1>21 DEF WriteOutputs, Why, IInv, IdleInv, CalibrateInv, NoReason
<1>22. CASE Render
  BY <1>22 DEF Render, IInv, IdleInv, CalibrateInv, NoReason
<1>23. CASE ExitHooks
  BY <1>23 DEF ExitHooks, IInv, IdleInv, CalibrateInv, NoReason
<1>24. CASE Exit
  BY <1>24 DEF Exit, Ends, NewRunner, IInv, IdleInv, CalibrateInv, NoReason
<1>25. CASE Interrupt
  BY <1>25 DEF Interrupt, Landing, IInv, IdleInv, CalibrateInv, NoReason
<1>26. CASE Terminate
  BY <1>26 DEF Terminate, IInv, IdleInv, CalibrateInv, NoReason
<1>27. CASE Kill
  BY <1>27 DEF Kill, Ends, NewRunner, IInv, IdleInv, CalibrateInv, NoReason
<1>28. CASE Recover
  BY <1>28 DEF Recover, processVars, IInv, IdleInv, CalibrateInv, NoReason
<1>29. CASE NeighbourActs
  BY <1>29 DEF NeighbourActs, processVars, IInv, IdleInv, CalibrateInv, NoReason
<1> QED
  BY <1>1, <1>2, <1>3, <1>4, <1>5, <1>6, <1>7, <1>8, <1>9, <1>10, <1>11, <1>12, <1>13, <1>14,
    <1>15, <1>16, <1>17, <1>18, <1>19, <1>20, <1>21, <1>22, <1>23, <1>24, <1>25, <1>26, <1>27,
      <1>28, <1>29, <1>30 DEF Next, SweepStep

\* A guard writes only while the record is its own, and pays before it gives
\* the record up.
LEMMA DebtKept ==
  ASSUME IInv, Next
  PROVE  DebtInv'
<1>t. TypeOK /\ Executions \in Nat
  BY ExecutionsType DEF IInv, TypeOK
<1>1. CASE Invoke
  <2> USE <1>1, <1>t, SamePoint, SweepAssumption
    DEF Invoke, NewRunner, IInv, IdleInv, DebtInv, TypeOK, Free, Neighbour
  <2>1. (claim \in 0..inv \cup {Neighbour})'
    OBVIOUS
  <2>2. (claim = Free => dev = Stock)'
    OBVIOUS
  <2>3. (owing # {} => owing = {armed} /\ claim = inv /\ armed \in open)'
    OBVIOUS
  <2>4. (Running /\ claim = inv /\ dev # Stock => owing # {})'
    OBVIOUS
  <2>5. (pc \in {"arm", "clock", "power"} => guard \in open)'
    OBVIOUS
  <2>6. (pc \in {"clock", "power"} => armed = guard /\ claim = inv)'
    OBVIOUS
  <2>7. (pc = "release" => owing = {})'
    OBVIOUS
  <2> QED BY <2>1, <2>2, <2>3, <2>4, <2>5, <2>6, <2>7 DEF DebtInv
<1>2. CASE CheckArguments
  BY <1>2, <1>t, SamePoint DEF CheckArguments, IInv, IdleInv, DebtInv, TypeOK
<1>3. CASE OpenDevice
  BY <1>3, <1>t, SamePoint DEF OpenDevice, IInv, IdleInv, DebtInv, TypeOK
<1>4. CASE OpenSampler
  BY <1>4, <1>t, SamePoint DEF OpenSampler, IInv, IdleInv, DebtInv, TypeOK
<1>5. CASE WarmUp
  BY <1>5, <1>t, SamePoint DEF WarmUp, IInv, IdleInv, DebtInv, TypeOK
<1>6. CASE NextPoint
  BY <1>6, <1>t, SamePoint DEF NextPoint, IInv, IdleInv, DebtInv, TypeOK
<1>7. CASE BuildGuard
  BY <1>7, <1>t, SamePoint DEF BuildGuard, IInv, IdleInv, DebtInv, TypeOK
<1>8. CASE Arm
  <2>1. UNCHANGED <<dev, inv, owing, open, guard>> /\ pc = "arm"
    BY <1>8 DEF Arm
  <2>2. \/ pc' = "flag" /\ claim' = claim
        \/ claim = Free /\ claim' = inv /\ armed' = guard /\ pc' \in {"clock", "power"}
    BY <1>8 DEF Arm
  <2>3. claim \in 0..inv \cup {Neighbour} /\ inv \in 1..MaxInvocations /\ guard \in open
    BY <2>1 DEF IInv, IdleInv, DebtInv
  <2>4. owing = {} \/ (claim = inv /\ armed' = armed)
    <3>1. owing # {} => claim = inv /\ inv # Free
      BY <2>3, SweepAssumption DEF IInv, DebtInv, Free
    <3>2. claim # Free => armed' = armed
      BY <1>8 DEF Arm
    <3> QED BY <3>1, <3>2
  <2>5. claim' \in 0..inv \cup {Neighbour} /\ (claim' = Free => dev = Stock)
    BY <2>2, <2>3 DEF IInv, DebtInv
  <2>6. owing # {} => owing = {armed'} /\ claim' = inv /\ armed' \in open
    <3>1. owing # {} => claim # Free
      BY <2>3, <2>4, SweepAssumption DEF Free
    <3> QED BY <2>2, <2>4, <3>1 DEF IInv, DebtInv
  <2>7. claim' = inv /\ dev # Stock => owing # {}
    BY <2>1, <2>2 DEF IInv, DebtInv
  <2>8. /\ pc' \in {"clock", "power"} => guard' \in open' /\ armed' = guard' /\ claim' = inv'
        /\ pc' \notin {"arm", "release"}
    BY <2>1, <2>2, <2>3
  <2> QED BY <2>1, <2>5, <2>6, <2>7, <2>8 DEF DebtInv
<1>9. CASE WriteClock
  <2> USE <1>9, <1>t, SamePoint, SweepAssumption
    DEF WriteClock, Write, IInv, IdleInv, DebtInv, TypeOK, Free, Neighbour
  <2>1. (claim \in 0..inv \cup {Neighbour})'
    OBVIOUS
  <2>2. (claim = Free => dev = Stock)'
    OBVIOUS
  <2>3. (owing # {} => owing = {armed} /\ claim = inv /\ armed \in open)'
    OBVIOUS
  <2>4. (Running /\ claim = inv /\ dev # Stock => owing # {})'
    OBVIOUS
  <2>5. (pc \in {"arm", "clock", "power"} => guard \in open)'
    OBVIOUS
  <2>6. (pc \in {"clock", "power"} => armed = guard /\ claim = inv)'
    OBVIOUS
  <2>7. (pc = "release" => owing = {})'
    OBVIOUS
  <2> QED BY <2>1, <2>2, <2>3, <2>4, <2>5, <2>6, <2>7 DEF DebtInv
<1>10. CASE WritePower
  <2> USE <1>10, <1>t, SamePoint, SweepAssumption
    DEF WritePower, Write, IInv, IdleInv, DebtInv, TypeOK, Free, Neighbour
  <2>1. (claim \in 0..inv \cup {Neighbour})'
    OBVIOUS
  <2>2. (claim = Free => dev = Stock)'
    OBVIOUS
  <2>3. (owing # {} => owing = {armed} /\ claim = inv /\ armed \in open)'
    OBVIOUS
  <2>4. (Running /\ claim = inv /\ dev # Stock => owing # {})'
    OBVIOUS
  <2>5. (pc \in {"arm", "clock", "power"} => guard \in open)'
    OBVIOUS
  <2>6. (pc \in {"clock", "power"} => armed = guard /\ claim = inv)'
    OBVIOUS
  <2>7. (pc = "release" => owing = {})'
    OBVIOUS
  <2> QED BY <2>1, <2>2, <2>3, <2>4, <2>5, <2>6, <2>7 DEF DebtInv
<1>11. CASE Settle
  BY <1>11, <1>t, SamePoint DEF Settle, IInv, IdleInv, DebtInv, TypeOK
<1>12. CASE EndLoad
  BY <1>12, <1>t, SamePoint DEF EndLoad, LeavePoint, StopSampler, IInv, IdleInv, DebtInv, TypeOK
<1>13. CASE Unwind
  BY <1>13, <1>t, SamePoint DEF Unwind, StopSampler, IInv, IdleInv, DebtInv, TypeOK
<1>30. CASE Leave
  BY <1>30, <1>t, SamePoint DEF Leave, LeavePoint, IInv, IdleInv, DebtInv, TypeOK
<1>14. CASE Restore
  <2> USE <1>14, <1>t, SweepAssumption
    DEF Restore, RestoreRaises, GivesUp, IInv, PlaceInv, DebtInv, TypeOK, Free, Stock
  <2>1. (claim \in 0..inv \cup {Neighbour})'
    OBVIOUS
  <2>2. (claim = Free => dev = Stock)'
    OBVIOUS
  <2>3. (owing # {} => owing = {armed} /\ claim = inv /\ armed \in open)'
    OBVIOUS
  <2>4. (Running /\ claim = inv /\ dev # Stock => owing # {})'
    OBVIOUS
  <2>5. (pc \in {"arm", "clock", "power"} => guard \in open)'
    OBVIOUS
  <2>6. (pc \in {"clock", "power"} => armed = guard /\ claim = inv)'
    OBVIOUS
  <2>7. (pc = "release" => owing = {})'
    OBVIOUS
  <2> QED BY <2>1, <2>2, <2>3, <2>4, <2>5, <2>6, <2>7 DEF DebtInv
<1>15. CASE Release
  <2> USE <1>15, <1>t, SweepAssumption DEF Release, IInv, PlaceInv, DebtInv, TypeOK, Free, Stock
  <2>1. (claim \in 0..inv \cup {Neighbour})'
    OBVIOUS
  <2>2. (claim = Free => dev = Stock)'
    OBVIOUS
  <2>3. (owing # {} => owing = {armed} /\ claim = inv /\ armed \in open)'
    OBVIOUS
  <2>4. (Running /\ claim = inv /\ dev # Stock => owing # {})'
    OBVIOUS
  <2>5. (pc \in {"arm", "clock", "power"} => guard \in open)'
    OBVIOUS
  <2>6. (pc \in {"clock", "power"} => armed = guard /\ claim = inv)'
    OBVIOUS
  <2>7. (pc = "release" => owing = {})'
    OBVIOUS
  <2> QED BY <2>1, <2>2, <2>3, <2>4, <2>5, <2>6, <2>7 DEF DebtInv
<1>16. CASE Flag
  BY <1>16, <1>t, SamePoint DEF Flag, StillOwes, Discard, IInv, IdleInv, DebtInv, TypeOK
<1>17. CASE Abort
  BY <1>17, <1>t, SamePoint DEF Abort, IInv, IdleInv, DebtInv, TypeOK
<1>18. CASE Calibrated
  BY <1>18, <1>t, SamePoint DEF Calibrated, NewRunner, IInv, IdleInv, DebtInv, TypeOK
<1>19. CASE CloseSampler
  BY <1>19, <1>t, SamePoint DEF CloseSampler, IInv, IdleInv, DebtInv, TypeOK
<1>20. CASE CloseControllers
  <2> USE <1>20 DEF CloseControllers, MayClose, IInv, PlaceInv, DebtInv, FlagInv
  <2>1. (claim \in 0..inv \cup {Neighbour})'
    OBVIOUS
  <2>2. (claim = Free => dev = Stock)'
    OBVIOUS
  <2>3. (owing # {} => owing = {armed} /\ claim = inv /\ armed \in open)'
    OBVIOUS
  <2>4. (Running /\ claim = inv /\ dev # Stock => owing # {})'
    OBVIOUS
  <2>5. (pc \in {"arm", "clock", "power"} => guard \in open)'
    OBVIOUS
  <2>6. (pc \in {"clock", "power"} => armed = guard /\ claim = inv)'
    OBVIOUS
  <2>7. (pc = "release" => owing = {})'
    OBVIOUS
  <2> QED BY <2>1, <2>2, <2>3, <2>4, <2>5, <2>6, <2>7 DEF DebtInv
<1>21. CASE WriteOutputs
  BY <1>21, <1>t, SamePoint DEF WriteOutputs, Why, IInv, IdleInv, DebtInv, TypeOK
<1>22. CASE Render
  BY <1>22, <1>t, SamePoint DEF Render, IInv, IdleInv, DebtInv, TypeOK
<1>23. CASE ExitHooks
  BY <1>23, <1>t, SamePoint DEF ExitHooks, IInv, IdleInv, DebtInv, TypeOK
<1>24. CASE Exit
  BY <1>24, <1>t, SamePoint DEF Exit, Ends, NewRunner, IInv, IdleInv, DebtInv, TypeOK
<1>25. CASE Interrupt
  <2> USE <1>25, <1>t, SweepAssumption DEF Interrupt, Landing, IInv, DebtInv, Labels, TypeOK
  <2>1. (claim \in 0..inv \cup {Neighbour})'
    OBVIOUS
  <2>2. (claim = Free => dev = Stock)'
    OBVIOUS
  <2>3. (owing # {} => owing = {armed} /\ claim = inv /\ armed \in open)'
    OBVIOUS
  <2>4. (Running /\ claim = inv /\ dev # Stock => owing # {})'
    OBVIOUS
  <2>5. (pc \in {"arm", "clock", "power"} => guard \in open)'
    OBVIOUS
  <2>6. (pc \in {"clock", "power"} => armed = guard /\ claim = inv)'
    OBVIOUS
  <2>7. (pc = "release" => owing = {})'
    OBVIOUS
  <2> QED BY <2>1, <2>2, <2>3, <2>4, <2>5, <2>6, <2>7 DEF DebtInv
<1>26. CASE Terminate
  BY <1>26, <1>t, SamePoint DEF Terminate, IInv, IdleInv, DebtInv, TypeOK
<1>27. CASE Kill
  BY <1>27, <1>t, SamePoint DEF Kill, Ends, NewRunner, IInv, IdleInv, DebtInv, TypeOK
<1>28. CASE Recover
  <2> USE <1>28, <1>t, SamePoint, SweepAssumption
    DEF Recover, processVars, IInv, IdleInv, DebtInv, TypeOK, Free, Neighbour
  <2>1. (claim \in 0..inv \cup {Neighbour})'
    OBVIOUS
  <2>2. (claim = Free => dev = Stock)'
    OBVIOUS
  <2>3. (owing # {} => owing = {armed} /\ claim = inv /\ armed \in open)'
    OBVIOUS
  <2>4. (Running /\ claim = inv /\ dev # Stock => owing # {})'
    OBVIOUS
  <2>5. (pc \in {"arm", "clock", "power"} => guard \in open)'
    OBVIOUS
  <2>6. (pc \in {"clock", "power"} => armed = guard /\ claim = inv)'
    OBVIOUS
  <2>7. (pc = "release" => owing = {})'
    OBVIOUS
  <2> QED BY <2>1, <2>2, <2>3, <2>4, <2>5, <2>6, <2>7 DEF DebtInv
<1>29. CASE NeighbourActs
  <2> USE <1>29, <1>t, SamePoint, SweepAssumption
    DEF NeighbourActs, processVars, IInv, IdleInv, DebtInv, TypeOK, Free, Neighbour
  <2>1. (claim \in 0..inv \cup {Neighbour})'
    OBVIOUS
  <2>2. (claim = Free => dev = Stock)'
    OBVIOUS
  <2>3. (owing # {} => owing = {armed} /\ claim = inv /\ armed \in open)'
    OBVIOUS
  <2>4. (Running /\ claim = inv /\ dev # Stock => owing # {})'
    OBVIOUS
  <2>5. (pc \in {"arm", "clock", "power"} => guard \in open)'
    OBVIOUS
  <2>6. (pc \in {"clock", "power"} => armed = guard /\ claim = inv)'
    OBVIOUS
  <2>7. (pc = "release" => owing = {})'
    OBVIOUS
  <2> QED BY <2>1, <2>2, <2>3, <2>4, <2>5, <2>6, <2>7 DEF DebtInv
<1> QED
  BY <1>1, <1>2, <1>3, <1>4, <1>5, <1>6, <1>7, <1>8, <1>9, <1>10, <1>11, <1>12, <1>13, <1>14,
    <1>15, <1>16, <1>17, <1>18, <1>19, <1>20, <1>21, <1>22, <1>23, <1>24, <1>25, <1>26, <1>27,
      <1>28, <1>29, <1>30 DEF Next, SweepStep

\* An exception or a verdict is where the code that handles it is.
LEMMA PlaceKept ==
  ASSUME Premises, IInv, Next
  PROVE  PlaceInv'
<1>t. TypeOK /\ Executions \in Nat
  BY ExecutionsType DEF IInv, TypeOK
<1>n. Current \in SUBSET Settings
  <2>1. Len(runs) + 1 \in Nat \ {0}
    BY <1>t DEF TypeOK
  <2> QED BY <1>t, <2>1, PointAtType DEF Current, TypeOK
<1>1. CASE Invoke
  BY <1>1, SameGrid, SamePoint DEF Invoke, NewRunner, IInv, IdleInv, PlaceInv, MidPoint, Fresh, Over
<1>2. CASE CheckArguments
  BY <1>2, SameGrid, SamePoint DEF CheckArguments, IInv, IdleInv, PlaceInv, MidPoint, Fresh, Over
<1>3. CASE OpenDevice
  BY <1>3, SameGrid, SamePoint DEF OpenDevice, IInv, IdleInv, PlaceInv, MidPoint, Fresh, Over
<1>4. CASE OpenSampler
  BY <1>4, SameGrid, SamePoint DEF OpenSampler, IInv, IdleInv, PlaceInv, MidPoint, Fresh, Over
<1>5. CASE WarmUp
  BY <1>5, SameGrid, SamePoint DEF WarmUp, IInv, IdleInv, PlaceInv, MidPoint, Fresh, Over
<1>6. CASE NextPoint
  <2> USE <1>6, <1>t, <1>n, SameGrid, SamePoint
    DEF NextPoint, IInv, PlaceInv, MidPoint, Fresh, Over, TypeOK
  <2>1. (Leaving => back \in {"flag", "unwind", "leave", "abort", "hooks", "exit"})'
    OBVIOUS
  <2>2. (Onward \in MidPoint => Len(runs) < Executions)'
    OBVIOUS
  <2>3. (taken # <<>> => Onward \in {"flag", "exit"})'
    OBVIOUS
  <2>4. (pc \in Fresh \cup {"calibrated"} => exc = "none")'
    OBVIOUS
  <2>5. (Running /\ Onward \notin Over => reason = NoReason)'
    OBVIOUS
  <2>6. (pc \in {"build", "arm", "clock", "power"} => Current # Stock)'
    OBVIOUS
  <2>7. (pc \in {"clock", "power"} => pc \in Current)'
    OBVIOUS
  <2>8. (pc \in {"final", "close", "write"} => exc \in {"none", "interrupt"})'
    OBVIOUS
  <2> QED BY <2>1, <2>2, <2>3, <2>4, <2>5, <2>6, <2>7, <2>8 DEF PlaceInv
<1>7. CASE BuildGuard
  BY <1>7, SameGrid, SamePoint DEF BuildGuard, IInv, IdleInv, PlaceInv, MidPoint, Fresh, Over
<1>8. CASE Arm
  <2> USE <1>8, <1>n, SameGrid, SamePoint
    DEF Arm, IInv, PlaceInv, MidPoint, Fresh, Over, Settings, Stock
  <2>1. (Leaving => back \in {"flag", "unwind", "leave", "abort", "hooks", "exit"})'
    OBVIOUS
  <2>2. (Onward \in MidPoint => Len(runs) < Executions)'
    OBVIOUS
  <2>3. (taken # <<>> => Onward \in {"flag", "exit"})'
    OBVIOUS
  <2>4. (pc \in Fresh \cup {"calibrated"} => exc = "none")'
    OBVIOUS
  <2>5. (Running /\ Onward \notin Over => reason = NoReason)'
    OBVIOUS
  <2>6. (pc \in {"build", "arm", "clock", "power"} => Current # Stock)'
    OBVIOUS
  <2>7. (pc \in {"clock", "power"} => pc \in Current)'
    OBVIOUS
  <2>8. (pc \in {"final", "close", "write"} => exc \in {"none", "interrupt"})'
    OBVIOUS
  <2> QED BY <2>1, <2>2, <2>3, <2>4, <2>5, <2>6, <2>7, <2>8 DEF PlaceInv
<1>9. CASE WriteClock
  BY <1>9, SameGrid, SamePoint DEF WriteClock, Write, IInv, IdleInv, PlaceInv, MidPoint, Fresh, Over
<1>10. CASE WritePower
  BY <1>10, SameGrid, SamePoint
    DEF WritePower, Write, IInv, IdleInv, PlaceInv, MidPoint, Fresh, Over
<1>11. CASE Settle
  BY <1>11, SameGrid, SamePoint DEF Settle, IInv, IdleInv, PlaceInv, MidPoint, Fresh, Over
<1>12. CASE EndLoad
  BY <1>12, SameGrid, SamePoint
    DEF EndLoad, LeavePoint, StopSampler, IInv, IdleInv, PlaceInv, MidPoint, Fresh, Over
<1>13. CASE Unwind
  BY <1>13, SameGrid, SamePoint
    DEF Unwind, StopSampler, IInv, IdleInv, PlaceInv, MidPoint, Fresh, Over
<1>30. CASE Leave
  BY <1>30, SameGrid, SamePoint
    DEF Leave, LeavePoint, IInv, IdleInv, PlaceInv, MidPoint, Fresh, Over
<1>14. CASE Restore
  BY <1>14, SameGrid, SamePoint
    DEF Restore, RestoreRaises, GivesUp, IInv, IdleInv, PlaceInv, MidPoint, Fresh, Over
<1>15. CASE Release
  BY <1>15, SameGrid, SamePoint DEF Release, IInv, IdleInv, PlaceInv, MidPoint, Fresh, Over
<1>16. CASE Flag
  BY <1>16, SameGrid, SamePoint
    DEF Flag, StillOwes, Discard, IInv, IdleInv, PlaceInv, MidPoint, Fresh, Over
<1>17. CASE Abort
  BY <1>17, SameGrid, SamePoint DEF Abort, IInv, IdleInv, PlaceInv, MidPoint, Fresh, Over
<1>18. CASE Calibrated
  <2> USE <1>18, SameGrid, SamePoint
    DEF Calibrated, NewRunner, IInv, PlaceInv, MidPoint, Fresh, Over
  <2>1. (Leaving => back \in {"flag", "unwind", "leave", "abort", "hooks", "exit"})'
    OBVIOUS
  <2>2. (Onward \in MidPoint => Len(runs) < Executions)'
    OBVIOUS
  <2>3. (taken # <<>> => Onward \in {"flag", "exit"})'
    OBVIOUS
  <2>4. (pc \in Fresh \cup {"calibrated"} => exc = "none")'
    OBVIOUS
  <2>5. (Running /\ Onward \notin Over => reason = NoReason)'
    OBVIOUS
  <2>6. (pc \in {"build", "arm", "clock", "power"} => Current # Stock)'
    OBVIOUS
  <2>7. (pc \in {"clock", "power"} => pc \in Current)'
    OBVIOUS
  <2>8. (pc \in {"final", "close", "write"} => exc \in {"none", "interrupt"})'
    OBVIOUS
  <2> QED BY <2>1, <2>2, <2>3, <2>4, <2>5, <2>6, <2>7, <2>8 DEF PlaceInv
<1>19. CASE CloseSampler
  BY <1>19, SameGrid, SamePoint DEF CloseSampler, IInv, IdleInv, PlaceInv, MidPoint, Fresh, Over
<1>20. CASE CloseControllers
  BY <1>20, SameGrid, SamePoint
    DEF CloseControllers, MayClose, IInv, IdleInv, PlaceInv, MidPoint, Fresh, Over
<1>21. CASE WriteOutputs
  BY <1>21, SameGrid, SamePoint
    DEF WriteOutputs, Why, IInv, IdleInv, PlaceInv, MidPoint, Fresh, Over
<1>22. CASE Render
  BY <1>22, SameGrid, SamePoint DEF Render, IInv, IdleInv, PlaceInv, MidPoint, Fresh, Over
<1>23. CASE ExitHooks
  BY <1>23, SameGrid, SamePoint DEF ExitHooks, IInv, IdleInv, PlaceInv, MidPoint, Fresh, Over
<1>24. CASE Exit
  BY <1>24, SameGrid, SamePoint
    DEF Exit, Ends, NewRunner, IInv, IdleInv, PlaceInv, MidPoint, Fresh, Over
<1>25. CASE Interrupt
  <2> USE <1>25, SameGrid, SamePoint, SweepAssumption
    DEF Interrupt, Landing, Premises, IInv, PlaceInv, MidPoint, Fresh, Over, Labels
  <2>1. (Leaving => back \in {"flag", "unwind", "leave", "abort", "hooks", "exit"})'
    OBVIOUS
  <2>2. (Onward \in MidPoint => Len(runs) < Executions)'
    OBVIOUS
  <2>3. (taken # <<>> => Onward \in {"flag", "exit"})'
    OBVIOUS
  <2>4. (pc \in Fresh \cup {"calibrated"} => exc = "none")'
    OBVIOUS
  <2>5. (Running /\ Onward \notin Over => reason = NoReason)'
    OBVIOUS
  <2>6. (pc \in {"build", "arm", "clock", "power"} => Current # Stock)'
    OBVIOUS
  <2>7. (pc \in {"clock", "power"} => pc \in Current)'
    OBVIOUS
  <2>8. (pc \in {"final", "close", "write"} => exc \in {"none", "interrupt"})'
    OBVIOUS
  <2> QED BY <2>1, <2>2, <2>3, <2>4, <2>5, <2>6, <2>7, <2>8 DEF PlaceInv
<1>26. CASE Terminate
  BY <1>26, SameGrid, SamePoint DEF Terminate, IInv, IdleInv, PlaceInv, MidPoint, Fresh, Over
<1>27. CASE Kill
  BY <1>27, SameGrid, SamePoint
    DEF Kill, Ends, NewRunner, IInv, IdleInv, PlaceInv, MidPoint, Fresh, Over
<1>28. CASE Recover
  BY <1>28, SameGrid, SamePoint
    DEF Recover, processVars, IInv, IdleInv, PlaceInv, MidPoint, Fresh, Over
<1>29. CASE NeighbourActs
  BY <1>29, SameGrid, SamePoint
    DEF NeighbourActs, processVars, IInv, IdleInv, PlaceInv, MidPoint, Fresh, Over
<1> QED
  BY <1>1, <1>2, <1>3, <1>4, <1>5, <1>6, <1>7, <1>8, <1>9, <1>10, <1>11, <1>12, <1>13, <1>14,
    <1>15, <1>16, <1>17, <1>18, <1>19, <1>20, <1>21, <1>22, <1>23, <1>24, <1>25, <1>26, <1>27,
      <1>28, <1>29, <1>30 DEF Next, SweepStep

\* KeyboardInterrupt arrives where it lands, at once or after the handler's
\* restore.
LEMMA Lands ==
  ASSUME Interrupt
  PROVE  \E l \in Landing(pc) : Onward' = l /\ (pc' = l \/ (pc' = "restore" /\ back' = l))
<1>1. \E l \in Landing(pc) : IF armed = 0 THEN pc' = l /\ UNCHANGED back
                                            ELSE pc' = "restore" /\ back' = l
  BY Zenon DEF Interrupt
<1>2. PICK l \in Landing(pc) : IF armed = 0 THEN pc' = l /\ UNCHANGED back
                                            ELSE pc' = "restore" /\ back' = l
  BY <1>1
<1>3. l \notin {"restore", "release"}
  BY <1>2 DEF Landing
<1>4. pc' = l \/ (pc' = "restore" /\ back' = l)
  BY <1>2
<1>5. Onward' = l
  BY <1>3, <1>4
<1> QED
  BY <1>4, <1>5

\* Where the sampler polls, and under which exception.
LEMMA SamplerKept ==
  ASSUME Premises, IInv, Next
  PROVE  SamplerInv'
<1> USE DEF SamplerInv, QuietRestore
<1>1. CASE Invoke
  BY <1>1 DEF Invoke, NewRunner, IInv, IdleInv
<1>2. CASE CheckArguments \/ OpenDevice \/ OpenSampler \/ WarmUp \/ NextPoint \/ BuildGuard \/ Arm
  BY <1>2 DEF CheckArguments, OpenDevice, OpenSampler, WarmUp, NextPoint, BuildGuard, Arm, IInv
<1>3. CASE WriteClock \/ WritePower
  BY <1>3 DEF WriteClock, WritePower, Write, IInv
<1>4. CASE Settle
  BY <1>4 DEF Settle
<1>5. CASE EndLoad
  BY <1>5 DEF EndLoad, LeavePoint, StopSampler
<1>6. CASE Unwind
  BY <1>6 DEF Unwind, StopSampler, IInv
<1>7. CASE Leave
  BY <1>7 DEF Leave, LeavePoint, IInv
<1>8. CASE Restore
  BY <1>8 DEF Restore, RestoreRaises, GivesUp, IInv, PlaceInv
<1>9. CASE Release
  BY <1>9 DEF Release, IInv, PlaceInv
<1>10. CASE Flag
  BY <1>10 DEF Flag, IInv
<1>11. CASE Abort
  BY <1>11 DEF Abort, IInv, CalibrateInv
<1>12. CASE Calibrated
  BY <1>12 DEF Calibrated, IInv
<1>13. CASE CloseSampler
  BY <1>13 DEF CloseSampler
<1>14. CASE CloseControllers \/ WriteOutputs \/ Render \/ ExitHooks
  BY <1>14 DEF CloseControllers, WriteOutputs, Render, ExitHooks, IInv
<1>15. CASE Interrupt
  <2>1. PICK l \in Landing(pc) : Onward' = l /\ (pc' = l \/ (pc' = "restore" /\ back' = l))
    BY <1>15, Lands
  <2>2. exc' = "interrupt" /\ sampler' = sampler /\ pc \notin {"flag", "exit", "hooks"}
    BY <1>15 DEF Interrupt, Premises
  <2>3. Leaving => back = "flag"
    BY <1>15 DEF Interrupt
  <2>4. sampler = "live" => l \in {"unwind", "leave", "flag", "abort", "hooks"}
    BY <2>1 DEF Landing
  <2>5. l \notin {"clock", "power"}
    BY <2>1 DEF Landing
  <2> QED BY <2>1, <2>2, <2>4, <2>5
<1>16. CASE Terminate
  BY <1>16 DEF Terminate, IInv
<1>17. CASE Exit \/ Kill
  BY <1>17 DEF Exit, Kill, Ends
<1>18. CASE Recover \/ NeighbourActs
  BY <1>18 DEF Recover, NeighbourActs, processVars, IInv
<1> QED
  BY <1>1, <1>2, <1>3, <1>4, <1>5, <1>6, <1>7, <1>8, <1>9, <1>10, <1>11, <1>12, <1>13, <1>14,
    <1>15, <1>16, <1>17, <1>18 DEF Next, SweepStep

\* A debt stays with its point until _run_point's finally clause has flagged it.
LEMMA FlagKept ==
  ASSUME Premises, IInv, Next
  PROVE  FlagInv'
<1>t. TypeOK /\ Executions \in Nat
  BY ExecutionsType DEF IInv, TypeOK
<1>1. CASE Invoke
  BY <1>1 DEF Invoke, NewRunner, IInv, IdleInv, FlagInv
<1>2. CASE CheckArguments
  BY <1>2, SamePoint, SweepAssumption DEF CheckArguments, IInv, DebtInv, FlagInv
<1>3. CASE OpenDevice
  BY <1>3, SamePoint, SweepAssumption DEF OpenDevice, IInv, DebtInv, FlagInv
<1>4. CASE OpenSampler
  BY <1>4, SamePoint, SweepAssumption DEF OpenSampler, IInv, DebtInv, FlagInv
<1>5. CASE WarmUp
  BY <1>5, SamePoint, SweepAssumption DEF WarmUp, IInv, DebtInv, FlagInv
<1>6. CASE NextPoint
  BY <1>6, SamePoint, SweepAssumption DEF NextPoint, IInv, DebtInv, FlagInv
<1>7. CASE BuildGuard
  BY <1>7, SamePoint, SweepAssumption DEF BuildGuard, IInv, DebtInv, FlagInv
<1>8. CASE Arm
  BY <1>8, SamePoint, SweepAssumption DEF Arm, IInv, DebtInv, FlagInv
<1>9. CASE WriteClock
  <2> USE <1>9, SamePoint DEF WriteClock, Write, IInv, PlaceInv, DebtInv, FlagInv
  <2>1. (owing # {} /\ ~hw =>
           \/ /\ armed = guard
              /\ Onward \in {"clock", "power", "settle", "load", "unwind", "leave", "flag"}
              /\ Onward \in {"settle", "load", "unwind", "leave"} => Current # Stock
           \/ Onward = "exit")'
    OBVIOUS
  <2>2. (pc = "flag" /\ owing # {} => exc # "none")'
    OBVIOUS
  <2>3. (hw => exc # "none" \/ reason # NoReason)'
    OBVIOUS
  <2> QED BY <2>1, <2>2, <2>3 DEF FlagInv
<1>10. CASE WritePower
  <2> USE <1>10, SamePoint DEF WritePower, Write, IInv, PlaceInv, DebtInv, FlagInv
  <2>1. (owing # {} /\ ~hw =>
           \/ /\ armed = guard
              /\ Onward \in {"clock", "power", "settle", "load", "unwind", "leave", "flag"}
              /\ Onward \in {"settle", "load", "unwind", "leave"} => Current # Stock
           \/ Onward = "exit")'
    OBVIOUS
  <2>2. (pc = "flag" /\ owing # {} => exc # "none")'
    OBVIOUS
  <2>3. (hw => exc # "none" \/ reason # NoReason)'
    OBVIOUS
  <2> QED BY <2>1, <2>2, <2>3 DEF FlagInv
<1>11. CASE Settle
  BY <1>11, SamePoint, SweepAssumption DEF Settle, IInv, DebtInv, FlagInv
<1>12. CASE EndLoad
  BY <1>12, SamePoint, SweepAssumption DEF EndLoad, LeavePoint, StopSampler, IInv, DebtInv, FlagInv
<1>13. CASE Unwind
  BY <1>13, SamePoint, SweepAssumption DEF Unwind, StopSampler, IInv, DebtInv, FlagInv
<1>30. CASE Leave
  BY <1>30, SamePoint, SweepAssumption DEF Leave, LeavePoint, IInv, DebtInv, FlagInv
<1>14. CASE Restore
  BY <1>14, SamePoint, SweepAssumption DEF Restore, RestoreRaises, GivesUp, IInv, DebtInv, FlagInv
<1>15. CASE Release
  BY <1>15, SamePoint, SweepAssumption DEF Release, IInv, DebtInv, FlagInv
<1>16. CASE Flag
  BY <1>16, SamePoint, SweepAssumption DEF Flag, StillOwes, Discard, IInv, DebtInv, FlagInv
<1>17. CASE Abort
  <2> USE <1>17 DEF Abort, Verdict, NoReason, IInv, DebtInv, FlagInv
  <2>1. (owing # {} /\ ~hw =>
           \/ /\ armed = guard
              /\ Onward \in {"clock", "power", "settle", "load", "unwind", "leave", "flag"}
              /\ Onward \in {"settle", "load", "unwind", "leave"} => Current # Stock
           \/ Onward = "exit")'
    OBVIOUS
  <2>2. (pc = "flag" /\ owing # {} => exc # "none")'
    OBVIOUS
  <2>3. (hw => exc # "none" \/ reason # NoReason)'
    OBVIOUS
  <2> QED BY <2>1, <2>2, <2>3 DEF FlagInv
<1>18. CASE Calibrated
  BY <1>18 DEF Calibrated, NewRunner, IInv, CalibrateInv, FlagInv
<1>19. CASE CloseSampler
  BY <1>19, SamePoint, SweepAssumption DEF CloseSampler, IInv, DebtInv, FlagInv
<1>20. CASE CloseControllers
  BY <1>20, SamePoint, SweepAssumption DEF CloseControllers, MayClose, IInv, DebtInv, FlagInv
<1>21. CASE WriteOutputs
  BY <1>21, SamePoint, SweepAssumption DEF WriteOutputs, Why, IInv, DebtInv, FlagInv
<1>22. CASE Render
  BY <1>22, SamePoint, SweepAssumption DEF Render, IInv, DebtInv, FlagInv
<1>23. CASE ExitHooks
  BY <1>23, SamePoint, SweepAssumption DEF ExitHooks, IInv, DebtInv, FlagInv
<1>24. CASE Exit
  BY <1>24, SamePoint, SweepAssumption DEF Exit, Ends, NewRunner, IInv, DebtInv, FlagInv
<1>25. CASE Interrupt
  <2>1. UNCHANGED <<guard, armed, owing, hw, runs, cmd, stage>> /\ exc' = "interrupt"
    BY <1>25 DEF Interrupt
  <2>2. PICK l \in Landing(pc) : Onward' = l
    BY <1>25, Lands
  <2>3. pc \notin {"flag", "exit"} /\ (Leaving => back = "flag")
    BY <1>25 DEF Interrupt, Premises
  <2>4. ASSUME owing # {}, ~hw
        PROVE  /\ armed = guard
               /\ l \in {"unwind", "leave", "flag"}
               /\ l \in {"unwind", "leave"} => Current # Stock
    <3>1. /\ armed = guard
          /\ Onward \in {"clock", "power", "settle", "load", "unwind", "leave", "flag"}
          /\ Onward \in {"settle", "load", "unwind", "leave"} => Current # Stock
      BY <2>3, <2>4 DEF IInv, FlagInv
    <3>2. pc \in {"clock", "power"} => Current # Stock
      BY DEF IInv, PlaceInv
    <3>3. CASE Leaving
      BY <2>2, <2>3, <3>1, <3>3 DEF Landing
    <3>4. CASE ~Leaving
      <4>1. pc \in {"clock", "power", "settle", "load", "unwind", "leave"} /\ Current # Stock
        BY <2>3, <3>1, <3>2, <3>4
      <4>2. l \in {"unwind", "leave"}
        BY <2>2, <4>1 DEF Landing
      <4> QED BY <3>1, <4>1, <4>2
    <3> QED BY <3>3, <3>4
  <2>5. Current' = Current
    BY <2>1, SamePoint
  <2>6. hw => exc # "none" \/ reason # NoReason
    BY DEF IInv, FlagInv
  <2> QED BY <2>1, <2>2, <2>4, <2>5, <2>6 DEF FlagInv
<1>26. CASE Terminate
  BY <1>26, SamePoint, SweepAssumption DEF Terminate, IInv, DebtInv, FlagInv
<1>27. CASE Kill
  BY <1>27, SamePoint, SweepAssumption DEF Kill, Ends, NewRunner, IInv, DebtInv, FlagInv
<1>28. CASE Recover
  BY <1>28, SamePoint, SweepAssumption DEF Recover, processVars, IInv, DebtInv, FlagInv
<1>29. CASE NeighbourActs
  BY <1>29, SamePoint, SweepAssumption DEF NeighbourActs, processVars, IInv, DebtInv, FlagInv
<1> QED
  BY <1>1, <1>2, <1>3, <1>4, <1>5, <1>6, <1>7, <1>8, <1>9, <1>10, <1>11, <1>12, <1>13, <1>14,
    <1>15, <1>16, <1>17, <1>18, <1>19, <1>20, <1>21, <1>22, <1>23, <1>24, <1>25, <1>26, <1>27,
      <1>28, <1>29, <1>30 DEF Next, SweepStep

\* What has been published stays true.
LEMMA ReportKept ==
  ASSUME IInv, Next
  PROVE  ReportInv'
<1>t. TypeOK /\ Executions \in Nat
  BY ExecutionsType DEF IInv, TypeOK
<1>1. CASE Invoke
  <2> USE <1>1, <1>t, SweepAssumption
    DEF Invoke, NewRunner, IInv, ReportInv, ReportTruthful, IdleInv, TypeOK, NoJson, Free
  <2>1. (json.by \in 0..inv)'
    OBVIOUS
  <2>2. (json.by = inv /\ json.by # Free =>
           stage = "sweep" /\ Onward \in {"render", "hooks", "exit", "idle"})'
    OBVIOUS
  <2>3. (pc \in {"final", "close", "write"} /\ reason = NoReason /\ exc = "none" =>
           Len(runs) = Executions /\ ~hw)'
    OBVIOUS
  <2>4. (json.by # Free /\ ~json.hw => ~(claim = json.by /\ dev # Stock))'
    OBVIOUS
  <2>5. (json.best /\ json.by = inv =>
           Len(json.runs) = Executions /\ json.reason = NoReason /\ ~json.hw)'
    OBVIOUS
  <2> QED BY <2>1, <2>2, <2>3, <2>4, <2>5 DEF ReportInv, ReportTruthful
<1>2. CASE CheckArguments
  BY <1>2, <1>t, SameGrid DEF CheckArguments, IInv, IdleInv, ReportInv, ReportTruthful
<1>3. CASE OpenDevice
  BY <1>3, <1>t, SameGrid DEF OpenDevice, IInv, IdleInv, ReportInv, ReportTruthful
<1>4. CASE OpenSampler
  BY <1>4, <1>t, SameGrid DEF OpenSampler, IInv, IdleInv, ReportInv, ReportTruthful
<1>5. CASE WarmUp
  BY <1>5, <1>t, SameGrid DEF WarmUp, IInv, IdleInv, ReportInv, ReportTruthful
<1>6. CASE NextPoint
  <2> USE <1>6, <1>t, SameGrid
    DEF NextPoint, IInv, ReportInv, ReportTruthful, PlaceInv, FlagInv, CalibrateInv, Fresh
  <2>1. (json.by \in 0..inv)'
    OBVIOUS
  <2>2. (json.by = inv /\ json.by # Free =>
           stage = "sweep" /\ Onward \in {"render", "hooks", "exit", "idle"})'
    OBVIOUS
  <2>3. (pc \in {"final", "close", "write"} /\ reason = NoReason /\ exc = "none" =>
           Len(runs) = Executions /\ ~hw)'
    OBVIOUS
  <2>4. (json.by # Free /\ ~json.hw => ~(claim = json.by /\ dev # Stock))'
    OBVIOUS
  <2>5. (json.best /\ json.by = inv =>
           Len(json.runs) = Executions /\ json.reason = NoReason /\ ~json.hw)'
    OBVIOUS
  <2> QED BY <2>1, <2>2, <2>3, <2>4, <2>5 DEF ReportInv, ReportTruthful
<1>7. CASE BuildGuard
  BY <1>7, <1>t, SameGrid DEF BuildGuard, IInv, IdleInv, ReportInv, ReportTruthful
<1>8. CASE Arm
  BY <1>8, <1>t, SameGrid DEF Arm, IInv, IdleInv, ReportInv, ReportTruthful
<1>9. CASE WriteClock
  <2> USE <1>9, SameGrid DEF WriteClock, Write, IInv, ReportInv, ReportTruthful, DebtInv, TypeOK
  <2>1. (json.by \in 0..inv)'
    OBVIOUS
  <2>2. (json.by = inv /\ json.by # Free =>
           stage = "sweep" /\ Onward \in {"render", "hooks", "exit", "idle"})'
    OBVIOUS
  <2>3. (pc \in {"final", "close", "write"} /\ reason = NoReason /\ exc = "none" =>
           Len(runs) = Executions /\ ~hw)'
    OBVIOUS
  <2>4. (json.by # Free /\ ~json.hw => ~(claim = json.by /\ dev # Stock))'
    OBVIOUS
  <2>5. (json.best /\ json.by = inv =>
           Len(json.runs) = Executions /\ json.reason = NoReason /\ ~json.hw)'
    OBVIOUS
  <2> QED BY <2>1, <2>2, <2>3, <2>4, <2>5 DEF ReportInv, ReportTruthful
<1>10. CASE WritePower
  <2> USE <1>10, SameGrid DEF WritePower, Write, IInv, ReportInv, ReportTruthful, DebtInv, TypeOK
  <2>1. (json.by \in 0..inv)'
    OBVIOUS
  <2>2. (json.by = inv /\ json.by # Free =>
           stage = "sweep" /\ Onward \in {"render", "hooks", "exit", "idle"})'
    OBVIOUS
  <2>3. (pc \in {"final", "close", "write"} /\ reason = NoReason /\ exc = "none" =>
           Len(runs) = Executions /\ ~hw)'
    OBVIOUS
  <2>4. (json.by # Free /\ ~json.hw => ~(claim = json.by /\ dev # Stock))'
    OBVIOUS
  <2>5. (json.best /\ json.by = inv =>
           Len(json.runs) = Executions /\ json.reason = NoReason /\ ~json.hw)'
    OBVIOUS
  <2> QED BY <2>1, <2>2, <2>3, <2>4, <2>5 DEF ReportInv, ReportTruthful
<1>11. CASE Settle
  BY <1>11, <1>t, SameGrid DEF Settle, IInv, IdleInv, ReportInv, ReportTruthful
<1>12. CASE EndLoad
  BY <1>12, <1>t, SameGrid
    DEF EndLoad, LeavePoint, StopSampler, IInv, IdleInv, ReportInv, ReportTruthful
<1>13. CASE Unwind
  BY <1>13, <1>t, SameGrid DEF Unwind, StopSampler, IInv, IdleInv, ReportInv, ReportTruthful
<1>30. CASE Leave
  BY <1>30, <1>t, SameGrid DEF Leave, LeavePoint, IInv, IdleInv, ReportInv, ReportTruthful
<1>14. CASE Restore
  <2> USE <1>14, <1>t, SameGrid
    DEF Restore, RestoreRaises, GivesUp, IInv, ReportInv, ReportTruthful, PlaceInv, Stock, TypeOK
  <2>1. (json.by \in 0..inv)'
    OBVIOUS
  <2>2. (json.by = inv /\ json.by # Free =>
           stage = "sweep" /\ Onward \in {"render", "hooks", "exit", "idle"})'
    OBVIOUS
  <2>3. (pc \in {"final", "close", "write"} /\ reason = NoReason /\ exc = "none" =>
           Len(runs) = Executions /\ ~hw)'
    OBVIOUS
  <2>4. (json.by # Free /\ ~json.hw => ~(claim = json.by /\ dev # Stock))'
    OBVIOUS
  <2>5. (json.best /\ json.by = inv =>
           Len(json.runs) = Executions /\ json.reason = NoReason /\ ~json.hw)'
    OBVIOUS
  <2> QED BY <2>1, <2>2, <2>3, <2>4, <2>5 DEF ReportInv, ReportTruthful
<1>15. CASE Release
  <2> USE <1>15, SameGrid DEF Release, IInv, ReportInv, ReportTruthful, PlaceInv
  <2>1. (json.by \in 0..inv)'
    OBVIOUS
  <2>2. (json.by = inv /\ json.by # Free =>
           stage = "sweep" /\ Onward \in {"render", "hooks", "exit", "idle"})'
    OBVIOUS
  <2>3. (pc \in {"final", "close", "write"} /\ reason = NoReason /\ exc = "none" =>
           Len(runs) = Executions /\ ~hw)'
    OBVIOUS
  <2>4. (json.by # Free /\ ~json.hw => ~(claim = json.by /\ dev # Stock))'
    OBVIOUS
  <2>5. (json.best /\ json.by = inv =>
           Len(json.runs) = Executions /\ json.reason = NoReason /\ ~json.hw)'
    OBVIOUS
  <2> QED BY <2>1, <2>2, <2>3, <2>4, <2>5 DEF ReportInv, ReportTruthful
<1>16. CASE Flag
  BY <1>16, <1>t, SameGrid DEF Flag, StillOwes, Discard, IInv, IdleInv, ReportInv, ReportTruthful
<1>17. CASE Abort
  <2> USE <1>17, SameGrid DEF Abort, IInv, ReportInv, ReportTruthful, Verdict, NoReason
  <2>1. (json.by \in 0..inv)'
    OBVIOUS
  <2>2. (json.by = inv /\ json.by # Free =>
           stage = "sweep" /\ Onward \in {"render", "hooks", "exit", "idle"})'
    OBVIOUS
  <2>3. (pc \in {"final", "close", "write"} /\ reason = NoReason /\ exc = "none" =>
           Len(runs) = Executions /\ ~hw)'
    OBVIOUS
  <2>4. (json.by # Free /\ ~json.hw => ~(claim = json.by /\ dev # Stock))'
    OBVIOUS
  <2>5. (json.best /\ json.by = inv =>
           Len(json.runs) = Executions /\ json.reason = NoReason /\ ~json.hw)'
    OBVIOUS
  <2> QED BY <2>1, <2>2, <2>3, <2>4, <2>5 DEF ReportInv, ReportTruthful
<1>18. CASE Calibrated
  <2> USE <1>18, <1>t, SameGrid
    DEF Calibrated, NewRunner, IInv, ReportInv, ReportTruthful, CalibrateInv, IdleInv, Free, TypeOK
  <2>1. (json.by \in 0..inv)'
    OBVIOUS
  <2>2. (json.by = inv /\ json.by # Free =>
           stage = "sweep" /\ Onward \in {"render", "hooks", "exit", "idle"})'
    OBVIOUS
  <2>3. (pc \in {"final", "close", "write"} /\ reason = NoReason /\ exc = "none" =>
           Len(runs) = Executions /\ ~hw)'
    OBVIOUS
  <2>4. (json.by # Free /\ ~json.hw => ~(claim = json.by /\ dev # Stock))'
    OBVIOUS
  <2>5. (json.best /\ json.by = inv =>
           Len(json.runs) = Executions /\ json.reason = NoReason /\ ~json.hw)'
    OBVIOUS
  <2> QED BY <2>1, <2>2, <2>3, <2>4, <2>5 DEF ReportInv, ReportTruthful
<1>19. CASE CloseSampler
  BY <1>19, <1>t, SameGrid DEF CloseSampler, IInv, IdleInv, ReportInv, ReportTruthful
<1>20. CASE CloseControllers
  BY <1>20, <1>t, SameGrid DEF CloseControllers, MayClose, IInv, IdleInv, ReportInv, ReportTruthful
<1>21. CASE WriteOutputs
  <2>1. /\ UNCHANGED <<claim, dev, inv, hw, cmd, stage>>
        /\ pc = "write" /\ pc' \in {"hooks", "render"}
    BY <1>21 DEF WriteOutputs
  <2>2. Executions' = Executions /\ stage = "sweep" /\ inv \in 1..MaxInvocations
    BY <2>1, SameGrid DEF IInv, CalibrateInv, TypeOK, IdleInv
  <2>3. CASE \E b \in IF Why = NoReason THEN BOOLEAN ELSE {FALSE} :
               json' = [by |-> inv, runs |-> runs, hw |-> hw, reason |-> Why, best |-> b,
                        wrote |-> wrote]
    <3>1. PICK b \in IF Why = NoReason THEN BOOLEAN ELSE {FALSE} :
               json' = [by |-> inv, runs |-> runs, hw |-> hw, reason |-> Why, best |-> b,
                        wrote |-> wrote]
      BY <2>3
    <3>2. /\ json'.by = inv /\ json'.runs = runs /\ json'.hw = hw /\ json'.reason = Why
          /\ json'.best => Why = NoReason
      BY <3>1
    <3>3. Why = NoReason => exc = "none" /\ reason = NoReason
      BY <2>1 DEF Why, NoReason, IInv, PlaceInv
    <3>4. Why = NoReason => Len(runs) = Executions /\ ~hw
      BY <2>1, <3>3 DEF IInv, ReportInv
    <3>5. ~hw => ~(claim = inv /\ dev # Stock)
      BY <2>1 DEF IInv, DebtInv, FlagInv
    <3> QED BY <2>1, <2>2, <3>2, <3>4, <3>5 DEF ReportInv, ReportTruthful
  <2>4. CASE json' = json
    BY <2>1, <2>2, <2>4 DEF IInv, ReportInv, ReportTruthful
  <2>5. CASE json' = NoJson
    BY <2>1, <2>2, <2>5 DEF NoJson, Free, ReportInv, ReportTruthful
  <2> QED BY <1>21, <2>3, <2>4, <2>5 DEF WriteOutputs
<1>22. CASE Render
  BY <1>22, <1>t, SameGrid DEF Render, IInv, IdleInv, ReportInv, ReportTruthful
<1>23. CASE ExitHooks
  BY <1>23, <1>t, SameGrid DEF ExitHooks, IInv, IdleInv, ReportInv, ReportTruthful
<1>24. CASE Exit
  <2> USE <1>24, <1>t, SameGrid
    DEF Exit, Ends, NewRunner, IInv, ReportInv, ReportTruthful, IdleInv, TypeOK, Free
  <2>1. (json.by \in 0..inv)'
    OBVIOUS
  <2>2. (json.by = inv /\ json.by # Free =>
           stage = "sweep" /\ Onward \in {"render", "hooks", "exit", "idle"})'
    OBVIOUS
  <2>3. (pc \in {"final", "close", "write"} /\ reason = NoReason /\ exc = "none" =>
           Len(runs) = Executions /\ ~hw)'
    OBVIOUS
  <2>4. (json.by # Free /\ ~json.hw => ~(claim = json.by /\ dev # Stock))'
    OBVIOUS
  <2>5. (json.best /\ json.by = inv =>
           Len(json.runs) = Executions /\ json.reason = NoReason /\ ~json.hw)'
    OBVIOUS
  <2> QED BY <2>1, <2>2, <2>3, <2>4, <2>5 DEF ReportInv, ReportTruthful
<1>25. CASE Interrupt
  BY <1>25, <1>t, SameGrid DEF Interrupt, Landing, IInv, IdleInv, ReportInv, ReportTruthful
<1>26. CASE Terminate
  BY <1>26, <1>t, SameGrid DEF Terminate, IInv, IdleInv, ReportInv, ReportTruthful
<1>27. CASE Kill
  <2> USE <1>27, <1>t, SameGrid
    DEF Kill, Ends, NewRunner, IInv, ReportInv, ReportTruthful, IdleInv, TypeOK, Free
  <2>1. (json.by \in 0..inv)'
    OBVIOUS
  <2>2. (json.by = inv /\ json.by # Free =>
           stage = "sweep" /\ Onward \in {"render", "hooks", "exit", "idle"})'
    OBVIOUS
  <2>3. (pc \in {"final", "close", "write"} /\ reason = NoReason /\ exc = "none" =>
           Len(runs) = Executions /\ ~hw)'
    OBVIOUS
  <2>4. (json.by # Free /\ ~json.hw => ~(claim = json.by /\ dev # Stock))'
    OBVIOUS
  <2>5. (json.best /\ json.by = inv =>
           Len(json.runs) = Executions /\ json.reason = NoReason /\ ~json.hw)'
    OBVIOUS
  <2> QED BY <2>1, <2>2, <2>3, <2>4, <2>5 DEF ReportInv, ReportTruthful
<1>28. CASE Recover
  BY <1>28, <1>t, SameGrid DEF Recover, processVars, IInv, IdleInv, ReportInv, ReportTruthful
<1>29. CASE NeighbourActs
  <2> USE <1>29, <1>t, SameGrid, SweepAssumption
    DEF NeighbourActs, processVars, IInv, ReportInv, ReportTruthful, TypeOK, Neighbour, Free
  <2>1. (json.by \in 0..inv)'
    OBVIOUS
  <2>2. (json.by = inv /\ json.by # Free =>
           stage = "sweep" /\ Onward \in {"render", "hooks", "exit", "idle"})'
    OBVIOUS
  <2>3. (pc \in {"final", "close", "write"} /\ reason = NoReason /\ exc = "none" =>
           Len(runs) = Executions /\ ~hw)'
    OBVIOUS
  <2>4. (json.by # Free /\ ~json.hw => ~(claim = json.by /\ dev # Stock))'
    OBVIOUS
  <2>5. (json.best /\ json.by = inv =>
           Len(json.runs) = Executions /\ json.reason = NoReason /\ ~json.hw)'
    OBVIOUS
  <2> QED BY <2>1, <2>2, <2>3, <2>4, <2>5 DEF ReportInv, ReportTruthful
<1> QED
  BY <1>1, <1>2, <1>3, <1>4, <1>5, <1>6, <1>7, <1>8, <1>9, <1>10, <1>11, <1>12, <1>13, <1>14,
    <1>15, <1>16, <1>17, <1>18, <1>19, <1>20, <1>21, <1>22, <1>23, <1>24, <1>25, <1>26, <1>27,
      <1>28, <1>29, <1>30 DEF Next, SweepStep

\* A point is measured with its settings, and only then kept under its name.
LEMMA MeasuredKept ==
  ASSUME Premises, IInv, Next
  PROVE  MeasuredInv'
<1>t. TypeOK /\ Executions \in Nat
  BY ExecutionsType DEF IInv, TypeOK
<1>n. Current \in SUBSET Settings
  <2>1. Len(runs) + 1 \in Nat \ {0}
    BY <1>t DEF TypeOK
  <2> QED BY <1>t, <2>1, PointAtType DEF Current, TypeOK
<1>1. CASE Invoke
  BY <1>1, <1>t, SameGrid, SamePoint
    DEF Invoke, NewRunner, IInv, MeasuredInv, MeasuredAsNamed, Alone, Fresh, MidPoint
<1>2. CASE CheckArguments
  BY <1>2, <1>t, SameGrid, SamePoint
    DEF CheckArguments, IInv, MeasuredInv, MeasuredAsNamed, Alone, Fresh, MidPoint
<1>3. CASE OpenDevice
  <2> USE <1>3, <1>t, SameGrid, SamePoint
    DEF OpenDevice, IInv, MeasuredInv, MeasuredAsNamed, Alone, Fresh, MidPoint, Stale, Free,
        PlaceInv
  <2>1. (pc = "clock" => dev = Stock)'
    OBVIOUS
  <2>2. (pc = "power" => dev = Current \ {"power"})'
    OBVIOUS
  <2>3. (pc \in {"settle", "load"} /\ Current # Stock => dev = Current /\ claim = inv)'
    OBVIOUS
  <2>4. (taken # <<>> /\ Onward = "flag" => taken = <<Current>>)'
    OBVIOUS
  <2>5. (stage = "sweep" /\ Alone /\ Onward \in (Fresh \cup MidPoint) \ {"args", "open"}
           => claim \in {Free, inv})'
    OBVIOUS
  <2>6. (MeasuredAsNamed)'
    OBVIOUS
  <2> QED BY <2>1, <2>2, <2>3, <2>4, <2>5, <2>6 DEF MeasuredInv
<1>4. CASE OpenSampler
  BY <1>4, <1>t, SameGrid, SamePoint
    DEF OpenSampler, IInv, MeasuredInv, MeasuredAsNamed, Alone, Fresh, MidPoint
<1>5. CASE WarmUp
  BY <1>5, <1>t, SameGrid, SamePoint
    DEF WarmUp, IInv, MeasuredInv, MeasuredAsNamed, Alone, Fresh, MidPoint
<1>6. CASE NextPoint
  BY <1>6, <1>t, SameGrid, SamePoint
    DEF NextPoint, IInv, MeasuredInv, MeasuredAsNamed, Alone, Fresh, MidPoint
<1>7. CASE BuildGuard
  BY <1>7, <1>t, SameGrid, SamePoint
    DEF BuildGuard, IInv, MeasuredInv, MeasuredAsNamed, Alone, Fresh, MidPoint
<1>8. CASE Arm
  <2> USE <1>8, <1>n, SameGrid, SamePoint
    DEF Arm, IInv, MeasuredInv, MeasuredAsNamed, Alone, Fresh, MidPoint, Free, PlaceInv, DebtInv,
        Settings, Stock
  <2>1. (pc = "clock" => dev = Stock)'
    OBVIOUS
  <2>2. (pc = "power" => dev = Current \ {"power"})'
    OBVIOUS
  <2>3. (pc \in {"settle", "load"} /\ Current # Stock => dev = Current /\ claim = inv)'
    OBVIOUS
  <2>4. (taken # <<>> /\ Onward = "flag" => taken = <<Current>>)'
    OBVIOUS
  <2>5. (stage = "sweep" /\ Alone /\ Onward \in (Fresh \cup MidPoint) \ {"args", "open"}
           => claim \in {Free, inv})'
    OBVIOUS
  <2>6. (MeasuredAsNamed)'
    OBVIOUS
  <2> QED BY <2>1, <2>2, <2>3, <2>4, <2>5, <2>6 DEF MeasuredInv
<1>9. CASE WriteClock
  <2> USE <1>9 DEF WriteClock, Write
  <2>1. UNCHANGED <<cmd, inv, stage, runs, taken>> /\ Current' = Current
    BY SamePoint
  <2>2. ASSUME pc' # "restore"
        PROVE  /\ dev' = {"clock"} /\ claim' = inv'
               /\ "power" \notin Current => pc' = "settle" /\ Current = {"clock"}
               /\ "power" \in Current => pc' = "power" /\ Current = {"clock", "power"}
    <3>1. dev = {} /\ claim = inv /\ "clock" \in Current
      BY DEF IInv, MeasuredInv, DebtInv, PlaceInv, Stock
    <3>2. dev' = dev \cup {"clock"} /\ claim' = claim
      BY <2>2
    <3>3. pc' = IF "power" \in Current THEN "power" ELSE "settle"
      BY <2>2
    <3> QED BY <1>n, <2>1, <3>1, <3>2, <3>3 DEF Settings
  <2>3. /\ pc' = "power" => dev' = Current' \ {"power"}
        /\ pc' \in {"settle", "load"} => dev' = Current' /\ claim' = inv'
    BY <2>1, <2>2
  <2>4. taken' # <<>> /\ Onward' = "flag" => taken' = <<Current'>>
    BY <2>1 DEF IInv, PlaceInv
  <2>5. stage' = "sweep" /\ Alone' /\ Onward' \in (Fresh \cup MidPoint) \ {"args", "open"}
          => claim' \in {Free, inv'}
    BY DEF IInv, DebtInv
  <2>6. MeasuredAsNamed'
    BY <2>1, SameGrid DEF IInv, MeasuredInv, MeasuredAsNamed
  <2>7. pc' # "clock"
    OBVIOUS
  <2> QED BY <2>3, <2>4, <2>5, <2>6, <2>7 DEF MeasuredInv
<1>10. CASE WritePower
  <2> USE <1>10 DEF WritePower, Write
  <2>1. UNCHANGED <<cmd, inv, stage, runs, taken>> /\ Current' = Current
    BY SamePoint
  <2>2. ASSUME pc' # "restore"
        PROVE  pc' = "settle" /\ dev' = Current /\ claim' = inv'
    <3>1. dev = Current \ {"power"} /\ claim = inv /\ "power" \in Current
      BY DEF IInv, MeasuredInv, DebtInv, PlaceInv
    <3>2. dev' = dev \cup {"power"} /\ claim' = claim
      BY <2>2
    <3> QED BY <2>1, <2>2, <3>1, <3>2
  <2>3. /\ pc' # "power"
        /\ pc' \in {"settle", "load"} => dev' = Current' /\ claim' = inv'
    BY <2>1, <2>2
  <2>4. taken' # <<>> /\ Onward' = "flag" => taken' = <<Current'>>
    BY <2>1 DEF IInv, PlaceInv
  <2>5. stage' = "sweep" /\ Alone' /\ Onward' \in (Fresh \cup MidPoint) \ {"args", "open"}
          => claim' \in {Free, inv'}
    BY DEF IInv, DebtInv
  <2>6. MeasuredAsNamed'
    BY <2>1, SameGrid DEF IInv, MeasuredInv, MeasuredAsNamed
  <2>7. pc' # "clock"
    OBVIOUS
  <2> QED BY <2>3, <2>4, <2>5, <2>6, <2>7 DEF MeasuredInv
<1>11. CASE Settle
  BY <1>11, <1>t, SameGrid, SamePoint
    DEF Settle, IInv, MeasuredInv, MeasuredAsNamed, Alone, Fresh, MidPoint
<1>12. CASE EndLoad
  <2>1. /\ UNCHANGED <<dev, claim, cmd, inv, stage, reason, hw, owing, armed, guard>>
        /\ pc = "load" /\ pc' \in {"next", "abort", "restore"}
        /\ pc' = "restore" => back' = "flag"
        /\ Current # Stock => UNCHANGED runs
        /\ UNCHANGED <<runs, taken>> \/ (Current = Stock /\ runs' = Append(runs,
          dev) /\ taken' = taken)
             \/ (Current # Stock /\ runs' = runs /\ taken' = Append(taken, dev))
    BY <1>12 DEF EndLoad, LeavePoint
  <2>2. taken = <<>>
    BY <2>1 DEF IInv, PlaceInv
  <2>3. taken' # <<>> => taken' = <<Current'>>
    <3>1. CASE Current # Stock /\ runs' = runs /\ taken' = Append(taken, dev)
      <4>1. Current' = Current
        BY <2>1, <3>1, SamePoint
      <4>2. dev = Current
        BY <2>1, <3>1 DEF IInv, MeasuredInv
      <4>3. Append(<<>>, Current) = <<Current>>
        OBVIOUS
      <4> QED BY <2>2, <3>1, <4>1, <4>2, <4>3
    <3> QED BY <2>1, <2>2, <3>1
  <2>4. stage' = "sweep" /\ Alone' /\ Onward' \in (Fresh \cup MidPoint) \ {"args", "open"}
          => claim' \in {Free, inv'}
    BY <2>1 DEF IInv, MeasuredInv, Alone, MidPoint
  <2>5. MeasuredAsNamed'
    <3>1. CASE runs' = runs
      BY <2>1, <3>1, SameGrid DEF IInv, MeasuredInv, MeasuredAsNamed
    <3>2. CASE Current = Stock /\ runs' = Append(runs, dev)
      <4>1. ASSUME stage = "sweep", Alone
            PROVE  dev = Stock
        <5>1. claim \in {Free, inv}
          BY <2>1, <4>1 DEF IInv, MeasuredInv, MidPoint
        <5>2. exc = "none" /\ reason = NoReason
          BY <2>1 DEF IInv, PlaceInv, Fresh, Over
        <5>3. owing = {}
          BY <2>1, <3>2, <5>2 DEF IInv, FlagInv
        <5> QED BY <2>1, <5>1, <5>3 DEF IInv, DebtInv
      <4>2. /\ runs \in Seq(SUBSET Settings) /\ dev \in SUBSET Settings
        BY <1>t DEF TypeOK
      <4>3. /\ DOMAIN runs' = 1..(Len(runs) + 1) /\ DOMAIN runs = 1..Len(runs) /\ Len(runs) \in Nat
            /\ \A i \in DOMAIN runs : runs'[i] = runs[i]
            /\ runs'[Len(runs) + 1] = dev
        BY <3>2, <4>2
      <4>4. ASSUME stage' = "sweep", NEW i \in DOMAIN runs',
                   PointAt(i)' # Stock \/ (Writes(cmd') /\ inv' \notin Shared)
            PROVE  runs'[i] = PointAt(i)'
        <5>1. PointAt(i)' = PointAt(i)
          BY <2>1, SameGrid
        <5>2. CASE i \in DOMAIN runs
          BY <2>1, <4>3, <4>4, <5>1, <5>2 DEF IInv, MeasuredInv, MeasuredAsNamed
        <5>3. CASE i = Len(runs) + 1
          <6>1. PointAt(i) = Stock
            BY <3>2, <5>3 DEF Current
          <6>2. dev = Stock
            BY <2>1, <4>1, <4>4, <5>1, <6>1 DEF Alone
          <6> QED BY <4>3, <5>1, <5>3, <6>1, <6>2
        <5> QED BY <4>3, <5>2, <5>3
      <4> QED BY <4>4 DEF MeasuredAsNamed
    <3> QED BY <2>1, <3>1, <3>2
  <2> QED BY <2>1, <2>3, <2>4, <2>5 DEF MeasuredInv
<1>13. CASE Unwind
  <2> USE <1>13, SameGrid, SamePoint
    DEF Unwind, StopSampler, IInv, MeasuredInv, MeasuredAsNamed, Alone, Fresh, MidPoint, PlaceInv
  <2>1. (pc = "clock" => dev = Stock)'
    OBVIOUS
  <2>2. (pc = "power" => dev = Current \ {"power"})'
    OBVIOUS
  <2>3. (pc \in {"settle", "load"} /\ Current # Stock => dev = Current /\ claim = inv)'
    OBVIOUS
  <2>4. (taken # <<>> /\ Onward = "flag" => taken = <<Current>>)'
    OBVIOUS
  <2>5. (stage = "sweep" /\ Alone /\ Onward \in (Fresh \cup MidPoint) \ {"args", "open"}
           => claim \in {Free, inv})'
    OBVIOUS
  <2>6. (MeasuredAsNamed)'
    OBVIOUS
  <2> QED BY <2>1, <2>2, <2>3, <2>4, <2>5, <2>6 DEF MeasuredInv
<1>30. CASE Leave
  <2> USE <1>30, SameGrid, SamePoint
    DEF Leave, LeavePoint, IInv, MeasuredInv, MeasuredAsNamed, Alone, Fresh, MidPoint, PlaceInv
  <2>1. (pc = "clock" => dev = Stock)'
    OBVIOUS
  <2>2. (pc = "power" => dev = Current \ {"power"})'
    OBVIOUS
  <2>3. (pc \in {"settle", "load"} /\ Current # Stock => dev = Current /\ claim = inv)'
    OBVIOUS
  <2>4. (taken # <<>> /\ Onward = "flag" => taken = <<Current>>)'
    OBVIOUS
  <2>5. (stage = "sweep" /\ Alone /\ Onward \in (Fresh \cup MidPoint) \ {"args", "open"}
           => claim \in {Free, inv})'
    OBVIOUS
  <2>6. (MeasuredAsNamed)'
    OBVIOUS
  <2> QED BY <2>1, <2>2, <2>3, <2>4, <2>5, <2>6 DEF MeasuredInv
<1>14. CASE Restore
  <2> USE <1>14, SameGrid, SamePoint
    DEF Restore, RestoreRaises, GivesUp, IInv, MeasuredInv, MeasuredAsNamed, Alone, Fresh,
        MidPoint, PlaceInv
  <2>1. (pc = "clock" => dev = Stock)'
    OBVIOUS
  <2>2. (pc = "power" => dev = Current \ {"power"})'
    OBVIOUS
  <2>3. (pc \in {"settle", "load"} /\ Current # Stock => dev = Current /\ claim = inv)'
    OBVIOUS
  <2>4. (taken # <<>> /\ Onward = "flag" => taken = <<Current>>)'
    OBVIOUS
  <2>5. (stage = "sweep" /\ Alone /\ Onward \in (Fresh \cup MidPoint) \ {"args", "open"}
           => claim \in {Free, inv})'
    OBVIOUS
  <2>6. (MeasuredAsNamed)'
    OBVIOUS
  <2> QED BY <2>1, <2>2, <2>3, <2>4, <2>5, <2>6 DEF MeasuredInv
<1>15. CASE Release
  <2> USE <1>15, SameGrid, SamePoint
    DEF Release, IInv, MeasuredInv, MeasuredAsNamed, Alone, Fresh, MidPoint, PlaceInv, Free
  <2>1. (pc = "clock" => dev = Stock)'
    OBVIOUS
  <2>2. (pc = "power" => dev = Current \ {"power"})'
    OBVIOUS
  <2>3. (pc \in {"settle", "load"} /\ Current # Stock => dev = Current /\ claim = inv)'
    OBVIOUS
  <2>4. (taken # <<>> /\ Onward = "flag" => taken = <<Current>>)'
    OBVIOUS
  <2>5. (stage = "sweep" /\ Alone /\ Onward \in (Fresh \cup MidPoint) \ {"args", "open"}
           => claim \in {Free, inv})'
    OBVIOUS
  <2>6. (MeasuredAsNamed)'
    OBVIOUS
  <2> QED BY <2>1, <2>2, <2>3, <2>4, <2>5, <2>6 DEF MeasuredInv
<1>16. CASE Flag
  <2>1. /\ UNCHANGED <<dev, claim, cmd, inv, stage>>
        /\ pc = "flag" /\ pc' \in {"next", "abort"} /\ taken' = <<>>
        /\ runs' = runs \/ runs' = runs \o taken
    BY <1>16 DEF Flag, Discard
  <2>2. stage' = "sweep" /\ Alone' /\ Onward' \in (Fresh \cup MidPoint) \ {"args", "open"}
          => claim' \in {Free, inv'}
    BY <2>1 DEF IInv, MeasuredInv, Alone, MidPoint
  <2>3. taken = <<>> \/ taken = <<Current>>
    BY <2>1 DEF IInv, MeasuredInv
  <2>4. runs' = runs \/ runs' = runs \o <<Current>>
    <3>1. runs \o <<>> = runs
      <4>1. runs \in Seq(SUBSET Settings)
        BY <1>t DEF TypeOK
      <4> QED BY <4>1
    <3> QED BY <2>1, <2>3, <3>1
  <2>5. MeasuredAsNamed'
    <3>1. CASE runs' = runs
      BY <2>1, <3>1, SameGrid DEF IInv, MeasuredInv, MeasuredAsNamed
    <3>2. CASE runs' = runs \o <<Current>>
      <4>1. /\ runs \in Seq(SUBSET Settings)
        BY <1>t DEF TypeOK
      <4>2. /\ DOMAIN runs' = 1..(Len(runs) + 1) /\ DOMAIN runs = 1..Len(runs) /\ Len(runs) \in Nat
            /\ \A i \in DOMAIN runs : runs'[i] = runs[i]
            /\ runs'[Len(runs) + 1] = Current
        BY <3>2, <4>1, <1>n
      <4>3. ASSUME stage' = "sweep", NEW i \in DOMAIN runs',
                   PointAt(i)' # Stock \/ (Writes(cmd') /\ inv' \notin Shared)
            PROVE  runs'[i] = PointAt(i)'
        <5>1. PointAt(i)' = PointAt(i)
          BY <2>1, SameGrid
        <5>2. CASE i \in DOMAIN runs
          BY <2>1, <4>2, <4>3, <5>1, <5>2 DEF IInv, MeasuredInv, MeasuredAsNamed
        <5>3. CASE i = Len(runs) + 1
          BY <4>2, <5>1, <5>3 DEF Current
        <5> QED BY <4>2, <5>2, <5>3
      <4> QED BY <4>3 DEF MeasuredAsNamed
    <3> QED BY <2>4, <3>1, <3>2
  <2> QED BY <2>1, <2>2, <2>5 DEF MeasuredInv
<1>17. CASE Abort
  BY <1>17, <1>t, SameGrid, SamePoint
    DEF Abort, IInv, MeasuredInv, MeasuredAsNamed, Alone, Fresh, MidPoint
<1>18. CASE Calibrated
  BY <1>18, <1>t, SameGrid, SamePoint
    DEF Calibrated, NewRunner, IInv, MeasuredInv, MeasuredAsNamed, Alone, Fresh, MidPoint
<1>19. CASE CloseSampler
  BY <1>19, <1>t, SameGrid, SamePoint
    DEF CloseSampler, IInv, MeasuredInv, MeasuredAsNamed, Alone, Fresh, MidPoint
<1>20. CASE CloseControllers
  BY <1>20, <1>t, SameGrid, SamePoint
    DEF CloseControllers, MayClose, IInv, MeasuredInv, MeasuredAsNamed, Alone, Fresh, MidPoint
<1>21. CASE WriteOutputs
  BY <1>21, <1>t, SameGrid, SamePoint
    DEF WriteOutputs, Why, IInv, MeasuredInv, MeasuredAsNamed, Alone, Fresh, MidPoint
<1>22. CASE Render
  BY <1>22, <1>t, SameGrid, SamePoint
    DEF Render, IInv, MeasuredInv, MeasuredAsNamed, Alone, Fresh, MidPoint
<1>23. CASE ExitHooks
  BY <1>23, <1>t, SameGrid, SamePoint
    DEF ExitHooks, IInv, MeasuredInv, MeasuredAsNamed, Alone, Fresh, MidPoint
<1>24. CASE Exit
  BY <1>24, <1>t, SameGrid, SamePoint
    DEF Exit, Ends, NewRunner, IInv, MeasuredInv, MeasuredAsNamed, Alone, Fresh, MidPoint
<1>25. CASE Interrupt
  <2> USE <1>25, SameGrid, SamePoint
    DEF Interrupt, Landing, IInv, MeasuredInv, MeasuredAsNamed, Premises, Alone, Fresh, MidPoint,
        PlaceInv
  <2>1. (pc = "clock" => dev = Stock)'
    OBVIOUS
  <2>2. (pc = "power" => dev = Current \ {"power"})'
    OBVIOUS
  <2>3. (pc \in {"settle", "load"} /\ Current # Stock => dev = Current /\ claim = inv)'
    OBVIOUS
  <2>4. (taken # <<>> /\ Onward = "flag" => taken = <<Current>>)'
    OBVIOUS
  <2>5. (stage = "sweep" /\ Alone /\ Onward \in (Fresh \cup MidPoint) \ {"args", "open"}
           => claim \in {Free, inv})'
    OBVIOUS
  <2>6. (MeasuredAsNamed)'
    OBVIOUS
  <2> QED BY <2>1, <2>2, <2>3, <2>4, <2>5, <2>6 DEF MeasuredInv
<1>26. CASE Terminate
  BY <1>26, <1>t, SameGrid, SamePoint
    DEF Terminate, IInv, MeasuredInv, MeasuredAsNamed, Alone, Fresh, MidPoint
<1>27. CASE Kill
  BY <1>27, <1>t, SameGrid, SamePoint
    DEF Kill, Ends, NewRunner, IInv, MeasuredInv, MeasuredAsNamed, Alone, Fresh, MidPoint
<1>28. CASE Recover
  <2> USE <1>28, SameGrid, SamePoint
    DEF Recover, processVars, IInv, MeasuredInv, MeasuredAsNamed, Alone, Fresh, MidPoint, Free,
        DebtInv, IdleInv
  <2>1. (pc = "clock" => dev = Stock)'
    OBVIOUS
  <2>2. (pc = "power" => dev = Current \ {"power"})'
    OBVIOUS
  <2>3. (pc \in {"settle", "load"} /\ Current # Stock => dev = Current /\ claim = inv)'
    OBVIOUS
  <2>4. (taken # <<>> /\ Onward = "flag" => taken = <<Current>>)'
    OBVIOUS
  <2>5. (stage = "sweep" /\ Alone /\ Onward \in (Fresh \cup MidPoint) \ {"args", "open"}
           => claim \in {Free, inv})'
    OBVIOUS
  <2>6. (MeasuredAsNamed)'
    OBVIOUS
  <2> QED BY <2>1, <2>2, <2>3, <2>4, <2>5, <2>6 DEF MeasuredInv
<1>29. CASE NeighbourActs
  <2> USE <1>29, <1>t, SameGrid, SamePoint, SweepAssumption
    DEF NeighbourActs, processVars, IInv, MeasuredInv, MeasuredAsNamed, Alone, Fresh, MidPoint,
        Free, Neighbour, DebtInv, IdleInv, TypeOK
  <2>1. (pc = "clock" => dev = Stock)'
    OBVIOUS
  <2>2. (pc = "power" => dev = Current \ {"power"})'
    OBVIOUS
  <2>3. (pc \in {"settle", "load"} /\ Current # Stock => dev = Current /\ claim = inv)'
    OBVIOUS
  <2>4. (taken # <<>> /\ Onward = "flag" => taken = <<Current>>)'
    OBVIOUS
  <2>5. (stage = "sweep" /\ Alone /\ Onward \in (Fresh \cup MidPoint) \ {"args", "open"}
           => claim \in {Free, inv})'
    OBVIOUS
  <2>6. (MeasuredAsNamed)'
    OBVIOUS
  <2> QED BY <2>1, <2>2, <2>3, <2>4, <2>5, <2>6 DEF MeasuredInv
<1> QED
  BY <1>1, <1>2, <1>3, <1>4, <1>5, <1>6, <1>7, <1>8, <1>9, <1>10, <1>11, <1>12, <1>13, <1>14,
    <1>15, <1>16, <1>17, <1>18, <1>19, <1>20, <1>21, <1>22, <1>23, <1>24, <1>25, <1>26, <1>27,
      <1>28, <1>29, <1>30 DEF Next, SweepStep

\* Steps that change nothing.
LEMMA StutterKept ==
  ASSUME IInv, UNCHANGED vars
  PROVE  IInv'
<1> USE DEF vars
<1>1. cmd' = cmd /\ stage' = stage /\ runs' = runs
  OBVIOUS
<1>2. TypeOK'
  BY <1>1, SameGrid DEF IInv, TypeOK
<1>3. IdleInv' /\ SamplerInv' /\ CalibrateInv' /\ DebtInv'
  BY DEF IInv, IdleInv, SamplerInv, QuietRestore, CalibrateInv, DebtInv
<1>4. PlaceInv' /\ FlagInv'
  BY <1>1, SameGrid, SamePoint DEF IInv, PlaceInv, FlagInv, MidPoint, Fresh, Over
<1>5. ReportInv'
  BY <1>1, SameGrid DEF IInv, ReportInv, ReportTruthful
<1>6. MeasuredInv'
  BY <1>1, SameGrid, SamePoint
     DEF IInv, MeasuredInv, MeasuredAsNamed, Alone, Fresh, MidPoint
<1> QED
  BY <1>2, <1>3, <1>4, <1>5, <1>6 DEF IInv

\* Before the first command.
LEMMA InitHolds ==
  ASSUME Init
  PROVE  IInv
<1> USE DEF Init, Free, Stock, NoJson, NoReason
<1>1. Executions \in Nat
  BY ExecutionsType
<1>2. TypeOK
  <2>1. /\ dev \in SUBSET Settings /\ wrote \in SUBSET Settings
        /\ {pc, back} \subseteq Labels \cup {"idle"}
        /\ stage \in {"calibrate", "sweep"}
        /\ hw \in BOOLEAN /\ reason \in Reasons /\ p99 \in BOOLEAN
        /\ exc \in {"none", "refusal", "guard", "sweep", "other", "interrupt"}
        /\ sampler \in {"none", "idle", "live", "late"}
        /\ slo \in {"none", "given", "stock", "modified"}
    BY DEF Reasons
  <2>2. /\ claim \in 0..Neighbour /\ inv \in 0..MaxInvocations /\ cmd \in Commands
        /\ shown \in 0..MaxInvocations /\ faults \in 0..MaxFaults
    BY SweepAssumption DEF Neighbour
  <2>3. /\ runs \in Seq(SUBSET Settings) /\ Len(runs) <= Executions
        /\ taken \in Seq(SUBSET Settings) /\ Len(taken) <= 1
        /\ {guard, armed} \cup owing \cup open \subseteq 0..Executions
    BY <1>1, Nothing
  <2>4. json \in [by: 0..MaxInvocations, runs: Seq(SUBSET Settings), hw: BOOLEAN,
                  reason: Reasons, best: BOOLEAN, wrote: SUBSET Settings]
    BY SweepAssumption, Nothing DEF Reasons
  <2> QED BY <2>1, <2>2, <2>3, <2>4 DEF TypeOK
<1>3. IdleInv /\ SamplerInv /\ CalibrateInv /\ DebtInv /\ FlagInv
  BY DEF IdleInv, SamplerInv, QuietRestore, CalibrateInv, DebtInv, FlagInv
<1>4. PlaceInv
  BY DEF PlaceInv, MidPoint, Fresh, Over
<1>5. ReportInv
  BY DEF ReportInv, ReportTruthful
<1>6. MeasuredInv
  BY DEF MeasuredInv, MeasuredAsNamed, Fresh, MidPoint
<1> QED
  BY <1>2, <1>3, <1>4, <1>5, <1>6 DEF IInv

\* The invariant is inductive, if Ctrl-C does not arrive between a guard's exit
\* and the flag it sets, nor while the process exits.
LEMMA StepHolds ==
  ASSUME Premises, IInv, [Next]_vars
  PROVE  IInv'
<1>1. CASE Next
  BY <1>1, TypeKept, IdleKept, CalibrateKept, DebtKept, PlaceKept, SamplerKept, FlagKept,
     ReportKept,
     MeasuredKept DEF IInv
<1>2. CASE UNCHANGED vars
  BY <1>2, StutterKept
<1> QED
  BY <1>1, <1>2

\* SweepRunner keeps the inductive invariant, whatever the operator's command
\* lines, the failures of NVML, the file system and the load, and the crashes.
THEOREM SweepInductive == ASSUME Premises PROVE Spec => []IInv
<1>1. IInv /\ [Next]_vars => IInv'
  BY StepHolds
<1>2. QED
  BY <1>1, InitHolds, PTL DEF Spec

-----------------------------------------------------------------------------
(* What follows *)

\* NVML is open and the handler installed for a guard that owes a restore, and
\* the record outstanding is its own (sweep.py closes controllers only while
\* hardware_may_be_modified is not set).
THEOREM SweepDebtHeld == ASSUME Premises PROVE Spec => []DebtHeld
<1>1. IInv => DebtHeld
  BY DEF IInv, DebtInv, DebtHeld
<1>2. QED
  BY <1>1, SweepInductive, PTL

\* pthread_sigmask blocks signals in the calling thread only: the sampler does
\* not poll while a guard writes, nor, unless Ctrl-C leaves the point, while one
\* restores at the end of a point (sweep.py stops it in a finally clause).
THEOREM SweepQuiet == ASSUME Premises PROVE Spec => []QuietRestore
<1>1. IInv => QuietRestore
  BY DEF IInv, SamplerInv
<1>2. QED
  BY <1>1, SweepInductive, PTL

\* sweep.json never says that the hardware is as it was while it is not, and
\* names a best point only for complete rounds.
THEOREM SweepTruthful == ASSUME Premises PROVE Spec => []ReportTruthful
<1>1. IInv => ReportTruthful
  BY DEF IInv, ReportInv
<1>2. QED
  BY <1>1, SweepInductive, PTL

\* A run kept under a point's name was measured with that point's settings.
THEOREM SweepMeasured == ASSUME Premises PROVE Spec => []MeasuredAsNamed
<1>1. IInv => MeasuredAsNamed
  BY DEF IInv, MeasuredInv
<1>2. QED
  BY <1>1, SweepInductive, PTL

-----------------------------------------------------------------------------
(* The refinement of Custody *)

\* Only the holder of the record touches the device, and the record is given
\* up only over a device that is stock.
LEMMA StepContract ==
  ASSUME IInv, Next
  PROVE  [Contract!Next]_<<claim, dev # Stock>>
<1> USE DEF Contract!Next, Contract!Claim, Contract!Touch, Contract!Release
<1>1. /\ inv \in 0..MaxInvocations /\ MaxInvocations \in Nat
      /\ Running => inv \in 1..Neighbour
  BY SweepAssumption DEF IInv, TypeOK, IdleInv, Neighbour
<1>2. CASE Arm
  BY <1>1, <1>2 DEF Arm, Free
<1>3. CASE WriteClock \/ WritePower
  <2>1. Running /\ claim' = claim /\ claim = inv
    BY <1>3 DEF WriteClock, WritePower, Write, IInv, DebtInv
  <2> QED BY <1>1, <2>1
<1>4. CASE Restore
  <2>1. Running /\ claim' = claim
    BY <1>4 DEF Restore
  <2>2. dev' = dev \/ armed \in owing
    BY <1>4 DEF Restore
  <2>3. armed \in owing => claim = inv
    BY DEF IInv, DebtInv
  <2> QED BY <1>1, <2>1, <2>2, <2>3
<1>5. CASE Release
  <2>1. Running /\ dev' = dev /\ (claim' = claim \/ (claim = inv /\ claim' = Free))
    BY <1>5 DEF Release
  <2>2. claim = inv => dev = Stock
    BY <1>5 DEF Release, IInv, DebtInv
  <2> QED BY <1>1, <2>1, <2>2
<1>6. CASE Recover
  <2>1. claim \in 1..Neighbour
    BY <1>1, <1>6 DEF Recover, Neighbour
  <2>2. \/ claim' = claim /\ dev' = Stock
        \/ claim' = Free /\ dev' = dev /\ dev = Stock
    BY <1>6 DEF Recover
  <2> QED BY <2>1, <2>2
<1>7. CASE NeighbourActs
  <2>1. Neighbour \in 1..Neighbour
    BY <1>1 DEF Neighbour
  <2> QED BY <1>7, <2>1 DEF NeighbourActs
<1>8. CASE ~(Arm \/ WriteClock \/ WritePower \/ Restore \/ Release \/ Recover \/ NeighbourActs)
  <2>1. UNCHANGED <<dev, claim>>
    BY <1>8 DEF Next, SweepStep, Invoke, CheckArguments, OpenDevice, OpenSampler, WarmUp,
                NextPoint, BuildGuard, Settle, EndLoad, Unwind, Leave, Flag, Abort, Calibrated,
                CloseSampler, CloseControllers, WriteOutputs, Render, ExitHooks, Exit,
                Interrupt, Terminate, Kill
  <2> QED BY <2>1
<1> QED
  BY <1>2, <1>3, <1>4, <1>5, <1>6, <1>7, <1>8

\* Sweeps, their crashes, recovery and a neighbour share the device by the
\* contract of the record: it differs from stock only while somebody holds it.
THEOREM SweepCustody == ASSUME Premises PROVE Spec => CustodyKept
<1>1. Init => Contract!Init
  BY DEF Init, Contract!Init
<1>2. IInv /\ [Next]_vars => [Contract!Next]_<<claim, dev # Stock>>
  <2>1. UNCHANGED vars => UNCHANGED <<claim, dev # Stock>>
    BY DEF vars
  <2> QED BY <2>1, StepContract
<1>3. QED
  BY <1>1, <1>2, SweepInductive, PTL DEF Spec, CustodyKept, Contract!Spec
=============================================================================
