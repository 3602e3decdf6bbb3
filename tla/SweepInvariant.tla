--------------------------- MODULE SweepInvariant ---------------------------
(***************************************************************************)
(* The inductive invariant behind the safety of Sweep, when Ctrl-C does    *)
(* not arrive between a guard's exit and the flag it sets, nor while the   *)
(* process exits.                                                          *)
(***************************************************************************)
EXTENDS Sweep

Premises == InterruptedAt \cap {"flag", "hooks", "exit"} = {}

\* In restore(); and where the process is when that returns.
Leaving == pc \in {"restore", "release"}
Onward == IF Leaving THEN back ELSE pc

\* Before the first exception or verdict; in the middle of a point; over.
Fresh == {"args", "open", "sampler", "warm", "next", "build", "arm", "clock", "power", "settle",
          "load"}
MidPoint == {"build", "arm", "clock", "power", "settle", "load", "unwind", "leave", "flag"}
Over == {"calibrated", "final", "close", "write", "render", "hooks", "exit"}

\* A process that is not there has nothing in memory.
IdleInv ==
  /\ ~Running => /\ guard = 0 /\ armed = 0 /\ owing = {} /\ open = {}
                 /\ taken = <<>> /\ runs = <<>> /\ stage = "sweep"
                 /\ hw = FALSE /\ reason = NoReason /\ exc = "none" /\ sampler = "none"
  /\ Running => inv \in 1..MaxInvocations

\* Exceptions, verdicts and measurements by where the process is.
PlaceInv ==
  /\ Leaving => back \in {"flag", "unwind", "leave", "abort", "hooks", "exit"}
  /\ Onward \in MidPoint => Len(runs) < Executions
  /\ taken # <<>> => Onward \in {"flag", "exit"}
  /\ pc \in Fresh \cup {"calibrated"} => exc = "none"
  /\ Running /\ Onward \notin Over => reason = NoReason
  /\ pc \in {"build", "arm", "clock", "power"} => Current # Stock
  /\ pc \in {"clock", "power"} => pc \in Current
  /\ pc \in {"final", "close", "write"} => exc \in {"none", "interrupt"}

\* After a load the sampler polls only where Ctrl-C has led.
SamplerInv ==
  /\ Onward \in {"unwind", "leave"} => exc = "interrupt"
  /\ sampler = "live" =>
       Onward \in {"load", "unwind", "leave", "flag", "abort", "final", "hooks", "exit"}
  /\ sampler = "live" /\ pc = "flag" => exc # "none"
  /\ QuietRestore

\* A calibration has no guards and no sampler.
CalibrateInv ==
  /\ pc = "calibrated" => stage = "calibrate"
  /\ stage = "calibrate" =>
    /\ guard = 0 /\ armed = 0 /\ owing = {} /\ open = {} /\ hw = FALSE /\ sampler = "none"
    /\ pc \in {"warm", "next", "settle", "load", "unwind", "leave", "abort", "calibrated",
              "hooks", "exit"}

\* Who holds the card; who owes what on it.
DebtInv ==
  /\ claim \in 0..inv \cup {Neighbour}
  /\ claim = Free => dev = Stock
  /\ owing # {} => owing = {armed} /\ claim = inv /\ armed \in open
  /\ Running /\ claim = inv /\ dev # Stock => owing # {}
  /\ pc \in {"arm", "clock", "power"} => guard \in open
  /\ pc \in {"clock", "power"} => armed = guard /\ claim = inv
  /\ pc = "release" => owing = {}

\* Until the debt is flagged it is the current point's, or the process exits.
FlagInv ==
  /\ owing # {} /\ ~hw =>
       \/ /\ armed = guard
          /\ Onward \in {"clock", "power", "settle", "load", "unwind", "leave", "flag"}
          /\ Onward \in {"settle", "load", "unwind", "leave"} => Current # Stock
       \/ Onward = "exit"
  /\ pc = "flag" /\ owing # {} => exc # "none"
  /\ hw => exc # "none" \/ reason # NoReason

\* A report is of a sweep that has left its last point.
ReportInv ==
  /\ json.by \in 0..inv
  /\ json.by = inv /\ json.by # Free =>
       stage = "sweep" /\ Onward \in {"render", "hooks", "exit", "idle"}
  /\ pc \in {"final", "close", "write"} /\ reason = NoReason /\ exc = "none" =>
       Len(runs) = Executions /\ ~hw
  /\ ReportTruthful

\* What the device is set to when a point is measured.
Alone == Writes(cmd) /\ inv \notin Shared
MeasuredInv ==
  /\ pc = "clock" => dev = Stock
  /\ pc = "power" => dev = Current \ {"power"}
  /\ pc \in {"settle", "load"} /\ Current # Stock => dev = Current /\ claim = inv
  /\ taken # <<>> /\ Onward = "flag" => taken = <<Current>>
  /\ stage = "sweep" /\ Alone /\ Onward \in (Fresh \cup MidPoint) \ {"args", "open"}
       => claim \in {Free, inv}
  /\ MeasuredAsNamed

IInv == /\ TypeOK
        /\ IdleInv /\ PlaceInv /\ SamplerInv /\ CalibrateInv
        /\ DebtInv /\ FlagInv /\ ReportInv /\ MeasuredInv
=============================================================================
