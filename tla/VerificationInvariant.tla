------------------------ MODULE VerificationInvariant ------------------------
(***************************************************************************)
(* The inductive invariant behind the properties of Verification.          *)
(***************************************************************************)
EXTENDS Verification

\* The settings are among those the command lines and the card's past name.
ValueInv ==
  /\ {dev.lock, found.lock} \subseteq Clocks
  /\ {dev.cap, found.cap, snap} \subseteq Limits
  /\ \E s \in Left : found = s

\* Phases come one after another, each guarded or not; an exception ends them.
Working == {"build", "arm", "lock", "cap", "restore", "close"}
PhaseInv ==
  /\ pc \in {"args", "range"} => phases = <<>> /\ taken = NoPhase
  /\ pc \notin {"args", "hooks", "done"} => Size # 0
  /\ pc \in Working \cup {"measure", "kept", "escape"} => Len(phases) < Final
  /\ pc \in Working => Guarded
  /\ pc = "cap" => Power /\ Between(Index)
  /\ pc = "judge" => Len(phases) = Final
  /\ Len(phases) = Final => pc \in {"next", "judge", "hooks", "done"} /\ exc = "none"
  /\ pc \in {"args", "range", "next", "build", "arm", "lock", "cap", "measure", "kept", "judge"}
       => exc = "none"
  /\ pc = "escape" => exc # "none"
  /\ pc \in {"restore", "close", "kept"} /\ exc = "none" => taken # NoPhase
  /\ pc \in {"next", "build", "arm", "lock", "cap", "measure"} => taken = NoPhase

\* Who owes a restore holds the record, with NVML open.
OwingInv ==
  /\ touched # {} => open /\ claim = "ours"
  /\ pc \in {"lock", "cap", "restore"} => open /\ claim = "ours"
  /\ pc = "measure" /\ Guarded => open /\ claim = "ours"
  /\ pc \in {"arm", "close"} => open
  /\ pc \in {"args", "range", "next", "build", "arm", "lock", "kept", "judge"} => touched = {}
  /\ pc = "measure" /\ ~Guarded => touched = {}
  /\ pc \in {"close", "hooks", "done"} /\ exc = "none" => touched = {}
  /\ Len(phases) > Size => touched = {}

\* The cap is the one found until a cap is tested.
CapInv ==
  (~Power \/ phases = <<>>) => dev.cap = found.cap /\ "cap" \notin touched

\* What was asked for is in force while it is measured.
ForceInv ==
  exc = "none" /\ Guarded =>
    /\ pc \in {"cap", "measure"} => dev.lock = LockAsked /\ dev.lock # 0
    /\ pc = "measure" /\ Power /\ Between(Index) => dev.cap = CapAsked
    /\ pc \in {"restore", "close", "kept"} => dev.lock \in {0, LockAsked}

\* A lock that is left on the card is the last that was asked for.
LeftInv == ~Power /\ Len(phases) > Size => dev.lock \in {0, Tested[Size]}

\* A measurement is of the settings of its phase, the last of those left.
Measured1(i, p) ==
  /\ p.loaded =>
       \E lock \in Clocks, cap \in Limits :
         /\ Under(lock, cap, p)
         /\ Power /\ i # Final => lock = req.clock /\ lock # 0
         /\ Power /\ Between(i) => cap = Tested[i - 1]
         /\ ~Power /\ Between(i) => lock = Tested[i - 1] /\ lock # 0
         /\ ~Power => cap = found.cap
         /\ ~Power /\ i = Final => lock = dev.lock
  /\ Power /\ i = 1 => p.limit \in {found.cap, Unknown}
  /\ Power /\ i = Final => p.limit \in {dev.cap, Unknown}

MeasuredInv ==
  /\ \A i \in DOMAIN phases : Measured1(i, phases[i].result)
  /\ taken # NoPhase => Measured1(Index, taken.result)

\* A file says what the phases say, or that there are not all of them.
VerdictInv ==
  /\ artifact # "none" \/ code # Unknown => pc \in {"hooks", "done"}
  /\ \/ artifact = "none" /\ (code \in {Unknown, 2} \/ exc # "none")
     \/ artifact = "NOT RUN" /\ code = 2 /\ Len(phases) < Final
     \/ artifact = "RESTORE FAILED" /\ exc # "none" /\ Len(phases) < Final
     \/ artifact = JudgePhases(phases) /\ code = ExitCode(artifact) /\ Len(phases) = Final

VInv == /\ TypeOK /\ ValueInv /\ PhaseInv /\ OwingInv /\ CapInv /\ ForceInv /\ LeftInv
        /\ MeasuredInv /\ VerdictInv
=============================================================================
