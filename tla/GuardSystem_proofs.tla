------------------------- MODULE GuardSystem_proofs -------------------------
(***************************************************************************)
(* Proofs about GuardSystem, for any set of guard processes and caps: type *)
(* correctness, the inductive invariant under SerialSpec, and what follows *)
(* from it.                                                                *)
(***************************************************************************)
EXTENDS GuardInvariant, TLAPS

USE GuardStateAssumption, GpuGuardAssumption, RecoveryAssumption,
    OperatorAssumption, CorruptAssumption

-----------------------------------------------------------------------------
(* Type correctness *)

\* The typing invariant of the guards, in the parts a step disturbs apart.
LabelsOK == /\ pc \in [Guards -> [Frames -> MainLabels \cup HandLabels]]
            /\ \A p \in Guards : /\ pc[p]["main"] \in MainLabels
                                 /\ pc[p]["hand"] \in HandLabels
            /\ call \in [Guards -> Calls]

FlagsOK == /\ err \subseteq Guards \X Frames
           /\ armed \subseteq Guards
           /\ published \subseteq Guards
           /\ owing \subseteq Guards
           /\ installed \subseteq Guards

StatesOK == st \in [Guards -> Record]

LEMMA TypeParts == GuardTypeOK <=> LabelsOK /\ FlagsOK /\ StatesOK
BY DEF GuardTypeOK, LabelsOK, FlagsOK, StatesOK

LEMMA RecordTypes ==
  /\ NoRecord \in Record
  /\ NoRun \in RecoveryRun
<1>1. NoRecord \in Record BY DEF NoRecord, Record
<1>2. NoRun \in RecoveryRun BY <1>1 DEF NoRun, RecoveryRun, RecoveryLabels
<1>3. QED BY <1>1, <1>2

\* What each assignment to self.state does to its fields.
LEMMA RecordUpdates ==
  ASSUME NEW r \in Record, NEW c
  PROVE  /\ WithIntent(r, c) \in Record
         /\ Touched(r) \in Record
         /\ Surrendered(r) \in Record
         /\ Incomplete(r) \in Record
         /\ Restored(r) \in Record
<1>2. WithIntent(r, c) \in Record BY DEF WithIntent, Record
<1>3. Touched(r) \in Record BY DEF Touched, Record
<1>4. Surrendered(r) \in Record BY DEF Surrendered, Record
<1>5. Incomplete(r) \in Record BY DEF Incomplete, Record
<1>6. Restored(r) \in Record BY DEF Restored, Record
<1>7. QED BY <1>2, <1>3, <1>4, <1>5, <1>6

LEMMA ClaimType ==
  ASSUME NEW p \in Guards, NEW snap \in Caps \cup {NoCap}
  PROVE  Claim(p, snap) \in Record
BY DEF Claim, Record, NoRecord

LEMMA InitTypeOK == Init => TypeOK
<1> SUFFICES ASSUME Init PROVE TypeOK OBVIOUS
<1>1. SharedTypeOK
  <2>1. dev \in Device BY DEF Init, SharedInit, Device
  <2>2. file \in StateFile BY RecordTypes DEF Init, SharedInit, StateFile
  <2>3. faults \in 0..MaxFaults BY DEF Init, SharedInit
  <2>4. QED BY <2>1, <2>2, <2>3 DEF Init, SharedInit, SharedTypeOK
<1>2. GuardTypeOK
  <2>1. \A p \in Guards : pc[p]["main"] = "idle" /\ pc[p]["hand"] = "off"
    BY DEF Init, GuardInit, Frames
  <2>2. pc \in [Guards -> [Frames -> MainLabels \cup HandLabels]]
    BY DEF Init, GuardInit, Frames, MainLabels, HandLabels
  <2>3. QED BY <2>1, <2>2, RecordTypes
            DEF Init, GuardInit, GuardTypeOK, MainLabels, HandLabels, Calls
<1>3. RecoveryTypeOK BY RecordTypes DEF Init, RecoveryInit, RecoveryTypeOK
<1>4. QED BY <1>1, <1>2, <1>3 DEF TypeOK

\* A fault leaves the count within its bound.
LEMMA FaultsType ==
  ASSUME SharedTypeOK, Succeeds \/ Fails
  PROVE  faults' \in 0..MaxFaults
BY DEF SharedTypeOK, Succeeds, Fails

LEMMA WriteType ==
  ASSUME NEW r \in Record, WriteState(r)
  PROVE  file' \in StateFile
BY DEF WriteState, StateFile

LEMMA DeviceType ==
  ASSUME SharedTypeOK, NEW c \in Caps,
         \/ dev' = [dev EXCEPT !.locked = TRUE] \/ ClocksReset \/ CapSet(c)
  PROVE  dev' \in Device
<1>1. dev \in Device BY DEF SharedTypeOK
<1>2. CASE dev' = [dev EXCEPT !.locked = TRUE] BY <1>1, <1>2 DEF Device
<1>3. CASE ClocksReset BY <1>1, <1>3 DEF Device, ClocksReset
<1>4. CASE CapSet(c) BY <1>1, <1>4 DEF Device, CapSet
<1>5. QED BY <1>2, <1>3, <1>4

\* Moving a frame, returning from a method, unwinding and dying keep labels
\* and calls typed.
LEMMA GotoType ==
  ASSUME LabelsOK, NEW p \in Guards, NEW f \in Frames, NEW l,
         f = "main" => l \in MainLabels, f = "hand" => l \in HandLabels,
         Goto(p, f, l), call' \in [Guards -> Calls]
  PROVE  LabelsOK'
<1>1. l \in MainLabels \cup HandLabels BY DEF Frames
<1>2. pc' \in [Guards -> [Frames -> MainLabels \cup HandLabels]]
  BY <1>1 DEF LabelsOK, Goto
<1>3. \A q \in Guards : pc'[q]["main"] \in MainLabels /\ pc'[q]["hand"] \in HandLabels
  BY DEF LabelsOK, Goto, Frames
<1>4. QED BY <1>2, <1>3 DEF LabelsOK

LEMMA MainReturnsType ==
  ASSUME LabelsOK, NEW p \in Guards, MainReturns(p)
  PROVE  LabelsOK'
<1>1. call' \in [Guards -> Calls] BY DEF MainReturns, LabelsOK, Calls
<1>2. "idle" \in MainLabels /\ "main" \in Frames BY DEF MainLabels, Frames
<1>3. Goto(p, "main", "idle") BY DEF MainReturns
<1>4. QED BY <1>1, <1>2, <1>3, GotoType

LEMMA RestoreReturnsType ==
  ASSUME LabelsOK, NEW p \in Guards, NEW f \in Frames, RestoreReturns(p, f)
  PROVE  LabelsOK'
<1>1. CASE f = "main" BY <1>1, MainReturnsType DEF RestoreReturns
<1>2. CASE f = "hand"
  <2>1. Goto(p, f, "deliver") /\ UNCHANGED call BY <1>2 DEF RestoreReturns
  <2>2. "deliver" \in HandLabels BY DEF HandLabels
  <2>3. QED BY <2>1, <2>2, <1>2, GotoType DEF LabelsOK
<1>3. QED BY <1>1, <1>2 DEF Frames

LEMMA UnwindType ==
  ASSUME LabelsOK, FlagsOK, NEW p \in Guards, Unwind(p)
  PROVE  LabelsOK' /\ err' \subseteq Guards \X Frames
BY DEF LabelsOK, FlagsOK, Unwind, Frames, MainLabels, HandLabels, Calls

LEMMA DiesType ==
  ASSUME SharedTypeOK, GuardTypeOK, NEW p \in Guards, Dies(p)
  PROVE  SharedTypeOK' /\ GuardTypeOK'
<1> USE TypeParts
<1>1. SharedTypeOK' BY DEF Dies, sharedVars, SharedTypeOK
<1>2. LabelsOK' BY DEF LabelsOK, Dies, Frames, MainLabels, HandLabels, Calls
<1>3. FlagsOK' BY DEF FlagsOK, Dies
<1>4. StatesOK' BY RecordTypes DEF StatesOK, Dies
<1>5. QED BY <1>1, <1>2, <1>3, <1>4 DEF LabelsOK, FlagsOK, StatesOK, GuardTypeOK

\* arm() and the writers keep the types.
LEMMA ArmType ==
  ASSUME SharedTypeOK, GuardTypeOK, NEW p \in Guards,
         CheckNotBusy(p) \/ TakeSnapshot(p) \/ Publish(p) \/ CallWriter(p) \/ RefuseWrite(p) \/ AssignIntent(p) \/ MarkTouched(p) \/ HardwareWrite(p)
  PROVE  SharedTypeOK' /\ GuardTypeOK'
<1> SUFFICES SharedTypeOK' /\ LabelsOK' /\ FlagsOK' /\ StatesOK'
  BY DEF GuardTypeOK, LabelsOK, FlagsOK, StatesOK
<1>0. SharedTypeOK /\ LabelsOK /\ FlagsOK /\ StatesOK BY TypeParts
<1>1. CASE CheckNotBusy(p)
  <2> USE <1>0, <1>1 DEF CheckNotBusy
  <2>1. SharedTypeOK' BY DEF sharedVars, SharedTypeOK
  <2>2. LabelsOK' BY DEF LabelsOK, Goto, Frames, MainLabels, RestoreLabels, Calls
  <2>3. FlagsOK' BY DEF FlagsOK, flags, Frames
  <2>4. StatesOK' BY DEF StatesOK
  <2>5. QED BY <2>1, <2>2, <2>3, <2>4
<1>2. CASE TakeSnapshot(p)
  <2> USE <1>0, <1>2 DEF TakeSnapshot
  <2>1. SharedTypeOK' BY DEF sharedVars, SharedTypeOK
  <2>2. LabelsOK' BY DEF LabelsOK, Goto, Frames, MainLabels, RestoreLabels, Calls
  <2>3. FlagsOK' BY DEF FlagsOK, flags, Frames
  <2>4. StatesOK' 
    BY ClaimType DEF StatesOK, RestoreTarget, SharedTypeOK, Device
  <2>5. QED BY <2>1, <2>2, <2>3, <2>4
<1>3. CASE Publish(p)
  <2> USE <1>0, <1>3 DEF Publish
  <2>1. SharedTypeOK' BY FaultsType, WriteType, RecordUpdates
     DEF SharedTypeOK, StatesOK
  <2>2. LabelsOK' 
    BY MainReturnsType DEF LabelsOK, Goto, Frames, MainLabels
  <2>3. FlagsOK' BY DEF FlagsOK, flags, Frames
  <2>4. StatesOK' BY DEF StatesOK
  <2>5. QED BY <2>1, <2>2, <2>3, <2>4
<1>4. CASE CallWriter(p)
  <2> USE <1>0, <1>4 DEF CallWriter
  <2>1. SharedTypeOK' BY DEF sharedVars, SharedTypeOK
  <2>2. LabelsOK' BY DEF LabelsOK, Goto, Frames, MainLabels, RestoreLabels, Calls
  <2>3. FlagsOK' BY DEF FlagsOK, flags, Frames
  <2>4. StatesOK' BY DEF StatesOK
  <2>5. QED BY <2>1, <2>2, <2>3, <2>4
<1>5. CASE RefuseWrite(p)
  <2> USE <1>0, <1>5 DEF RefuseWrite
  <2>1. SharedTypeOK' BY DEF sharedVars, SharedTypeOK
  <2>2. LabelsOK' BY MainReturnsType
  <2>3. FlagsOK' BY DEF FlagsOK, flags, Frames
  <2>4. StatesOK' BY DEF StatesOK
  <2>5. QED BY <2>1, <2>2, <2>3, <2>4
<1>6. CASE AssignIntent(p)
  <2> USE <1>0, <1>6 DEF AssignIntent
  <2>1. SharedTypeOK' BY DEF sharedVars, SharedTypeOK
  <2>2. LabelsOK' BY DEF LabelsOK, Goto, Frames, MainLabels, RestoreLabels, Calls
  <2>3. FlagsOK' BY DEF FlagsOK, flags, Frames
  <2>4. StatesOK' BY RecordUpdates DEF StatesOK
  <2>5. QED BY <2>1, <2>2, <2>3, <2>4
<1>7. CASE MarkTouched(p)
  <2> USE <1>0, <1>7 DEF MarkTouched
  <2>1. SharedTypeOK' BY FaultsType, WriteType, RecordUpdates
     DEF SharedTypeOK, StatesOK
  <2>2. LabelsOK' 
    BY MainReturnsType DEF LabelsOK, Goto, Frames, MainLabels
  <2>3. FlagsOK' BY DEF FlagsOK, flags, Frames
  <2>4. StatesOK' BY RecordUpdates DEF StatesOK
  <2>5. QED BY <2>1, <2>2, <2>3, <2>4
<1>8. CASE HardwareWrite(p)
  <2> USE <1>0, <1>8 DEF HardwareWrite
  <2>1. SharedTypeOK' BY FaultsType, DeviceType DEF SharedTypeOK
  <2>2. LabelsOK' BY MainReturnsType
  <2>3. FlagsOK' BY DEF FlagsOK, flags, Frames
  <2>4. StatesOK' BY DEF StatesOK
  <2>5. QED BY <2>1, <2>2, <2>3, <2>4
<1> QED BY <1>1, <1>2, <1>3, <1>4, <1>5, <1>6, <1>7, <1>8

\* restore() keeps the types, in either frame.
LEMMA RestoreType ==
  ASSUME SharedTypeOK, GuardTypeOK, NEW p \in Guards, NEW f \in Frames,
         RestoreStep(p, f)
  PROVE  SharedTypeOK' /\ GuardTypeOK'
<1> SUFFICES SharedTypeOK' /\ LabelsOK' /\ FlagsOK' /\ StatesOK'
  BY DEF GuardTypeOK, LabelsOK, FlagsOK, StatesOK
<1>0. SharedTypeOK /\ LabelsOK /\ FlagsOK /\ StatesOK BY TypeParts
<1>1. CASE Surrender(p, f)
  <2> USE <1>0, <1>1 DEF Surrender
  <2>1. SharedTypeOK' BY FaultsType, WriteType, RecordUpdates
     DEF SharedTypeOK, StatesOK
  <2>2. LabelsOK' BY RestoreReturnsType
  <2>3. FlagsOK' BY DEF FlagsOK, flags, Frames
  <2>4. StatesOK' BY RecordUpdates DEF StatesOK
  <2>5. QED BY <2>1, <2>2, <2>3, <2>4
<1>2. CASE FindDebt(p, f)
  <2> USE <1>0, <1>2 DEF FindDebt
  <2>1. SharedTypeOK' BY DEF sharedVars, SharedTypeOK
  <2>2. LabelsOK' BY DEF LabelsOK, Goto, Frames, MainLabels, HandLabels, RestoreLabels
  <2>3. FlagsOK' BY DEF FlagsOK, flags, Frames
  <2>4. StatesOK' BY DEF StatesOK
  <2>5. QED BY <2>1, <2>2, <2>3, <2>4
<1>3. CASE ResetClocks(p, f)
  <2> USE <1>0, <1>3 DEF ResetClocks
  <2>1. SharedTypeOK' BY FaultsType, DeviceType DEF SharedTypeOK
  <2>2. LabelsOK' BY DEF LabelsOK, Goto, Frames, MainLabels, HandLabels, RestoreLabels
  <2>3. FlagsOK' BY DEF FlagsOK, flags, Frames
  <2>4. StatesOK' BY DEF StatesOK
  <2>5. QED BY <2>1, <2>2, <2>3, <2>4
<1>4. CASE RestorePower(p, f)
  <2> USE <1>0, <1>4 DEF RestorePower
  <2>1. SharedTypeOK' BY FaultsType, DeviceType DEF SharedTypeOK, StatesOK, Record
  <2>2. LabelsOK' BY DEF LabelsOK, Goto, Frames, MainLabels, HandLabels, RestoreLabels
  <2>3. FlagsOK' BY DEF FlagsOK, flags, Frames
  <2>4. StatesOK' BY DEF StatesOK
  <2>5. QED BY <2>1, <2>2, <2>3, <2>4
<1>5. CASE ReportFailure(p, f)
  <2> USE <1>0, <1>5 DEF ReportFailure
  <2>1. SharedTypeOK' BY DEF sharedVars, SharedTypeOK
  <2>2. LabelsOK' BY DEF LabelsOK, Goto, Frames, MainLabels, HandLabels, RestoreLabels
  <2>3. FlagsOK' BY DEF FlagsOK, flags, Frames
  <2>4. StatesOK' BY RecordUpdates DEF StatesOK
  <2>5. QED BY <2>1, <2>2, <2>3, <2>4
<1>6. CASE RewriteRecord(p, f)
  <2> USE <1>0, <1>6 DEF RewriteRecord
  <2>1. SharedTypeOK' BY FaultsType, WriteType, RecordUpdates
     DEF SharedTypeOK, StatesOK
  <2>2. LabelsOK' BY RestoreReturnsType
  <2>3. FlagsOK' BY DEF FlagsOK, flags, Frames
  <2>4. StatesOK' BY DEF StatesOK
  <2>5. QED BY <2>1, <2>2, <2>3, <2>4
<1>7. CASE SettleDebt(p, f)
  <2> USE <1>0, <1>7 DEF SettleDebt
  <2>1. SharedTypeOK' BY DEF sharedVars, SharedTypeOK
  <2>2. LabelsOK' BY DEF LabelsOK, Goto, Frames, MainLabels, HandLabels, RestoreLabels
  <2>3. FlagsOK' BY DEF FlagsOK, flags, Frames
  <2>4. StatesOK' BY DEF StatesOK
  <2>5. QED BY <2>1, <2>2, <2>3, <2>4
<1>8. CASE FinishRestore(p, f)
  <2> USE <1>0, <1>8 DEF FinishRestore
  <2>1. SharedTypeOK' BY FaultsType, WriteType, RecordUpdates
     DEF SharedTypeOK, StatesOK
  <2>2. LabelsOK' BY RestoreReturnsType
  <2>3. FlagsOK' BY DEF FlagsOK, flags, Frames
  <2>4. StatesOK' BY RecordUpdates DEF StatesOK
  <2>5. QED BY <2>1, <2>2, <2>3, <2>4
<1> QED BY <1>1, <1>2, <1>3, <1>4, <1>5, <1>6, <1>7, <1>8 DEF RestoreStep

\* Signals, death and the calls a program makes keep the types.
LEMMA OutsideType ==
  ASSUME SharedTypeOK, GuardTypeOK, NEW p \in Guards,
         \/ CallRestore(p) \/ CallExit(p) \/ SignalStep(p)
         \/ SignalReturns(p) \/ Terminate(p)
  PROVE  SharedTypeOK' /\ GuardTypeOK'
<1> SUFFICES ASSUME ~Dies(p)
             PROVE  SharedTypeOK' /\ LabelsOK' /\ FlagsOK' /\ StatesOK'
  BY DiesType DEF GuardTypeOK, LabelsOK, FlagsOK, StatesOK
<1>0. SharedTypeOK /\ LabelsOK /\ FlagsOK /\ StatesOK BY TypeParts
<1>1. CASE CallRestore(p) \/ CallExit(p) \/ Signal(p)
  <2> USE <1>0, <1>1 DEF CallRestore, CallExit, Signal
  <2>1. SharedTypeOK' BY DEF sharedVars, SharedTypeOK
  <2>2. LabelsOK'
    BY DEF LabelsOK, Goto, Frames, MainLabels, HandLabels, RestoreLabels, Calls
  <2>3. FlagsOK' BY DEF FlagsOK, flags
  <2>4. StatesOK' BY DEF StatesOK
  <2>5. QED BY <2>1, <2>2, <2>3, <2>4
<1>2. CASE Unwind(p) /\ UNCHANGED <<sharedVars, flags, st>>
  <2>1. SharedTypeOK' BY <1>0, <1>2 DEF sharedVars, SharedTypeOK
  <2>2. LabelsOK' /\ err' \subseteq Guards \X Frames BY <1>0, <1>2, UnwindType
  <2>3. FlagsOK' BY <1>0, <1>2, <2>2 DEF FlagsOK, flags
  <2>4. QED BY <1>0, <1>2, <2>1, <2>2, <2>3 DEF StatesOK
<1>3. CASE Goto(p, "hand", "off") /\ UNCHANGED <<sharedVars, call, err, flags, st>>
  <2>1. SharedTypeOK' BY <1>0, <1>3 DEF sharedVars, SharedTypeOK
  <2>2. LabelsOK' BY <1>0, <1>3, GotoType DEF LabelsOK, Frames, HandLabels
  <2>3. FlagsOK' /\ StatesOK' BY <1>0, <1>3 DEF FlagsOK, flags, StatesOK
  <2>4. QED BY <2>1, <2>2, <2>3
<1>4. QED
  BY <1>1, <1>2, <1>3 DEF SignalStep, DefaultSignal, Crash, SignalReturns, Terminate

LEMMA GuardStepType ==
  ASSUME SharedTypeOK, GuardTypeOK, NEW p \in Guards, GuardStep(p)
  PROVE  SharedTypeOK' /\ GuardTypeOK'
<1>1. CASE MethodStep(p)
  BY <1>1, ArmType, RestoreType, OutsideType DEF MethodStep
<1>2. CASE CallerStep(p) BY <1>2, ArmType, OutsideType DEF CallerStep
<1>3. CASE SignalStep(p) BY <1>3, OutsideType
<1>4. QED BY <1>1, <1>2, <1>3 DEF GuardStep

LEMMA BeginType ==
  ASSUME TypeOK, BeginRecovery
  PROVE  SharedTypeOK' /\ RecoveryTypeOK'
<1>1. ASSUME NEW switch \in Switches, NEW held \in BOOLEAN, NEW failed \in BOOLEAN
      PROVE  Run(switch, held, failed) \in RecoveryRun
  <2>1. file.rec \in Record BY DEF TypeOK, SharedTypeOK, StateFile
  <2>2. (IF held THEN file.rec ELSE NoRecord) \in Record BY <2>1, RecordTypes
  <2>3. ("force" \in switch) \in BOOLEAN OBVIOUS
  <2>4. QED BY <2>2, <2>3 DEF Run, RecoveryRun, RecoveryLabels
<1>2. PICK switch \in Switches, mine \in IdentityReads :
        LET held == file.status = "ok" /\ mine
        IN  \/ rec' = Run(switch, held, FALSE)
            \/ rec' = Run(switch, held, TRUE)
            \/ rec' = Run(switch, held, file.status = "unreadable")
  BY Zenon DEF BeginRecovery
<1>3. RecoveryTypeOK'
  <2> DEFINE held == file.status = "ok" /\ mine
             lost == file.status = "unreadable"
  <2>1. held \in BOOLEAN /\ lost \in BOOLEAN OBVIOUS
  <2>2. \/ rec' = Run(switch, held, FALSE)
        \/ rec' = Run(switch, held, TRUE)
        \/ rec' = Run(switch, held, lost)
    BY <1>2
  <2> HIDE DEF held, lost
  <2>3. Run(switch, held, FALSE) \in RecoveryRun BY <1>1, <2>1, Zenon
  <2>4. Run(switch, held, TRUE) \in RecoveryRun BY <1>1, <2>1, Zenon
  <2>5. Run(switch, held, lost) \in RecoveryRun BY <1>1, <2>1, Zenon
  <2>6. QED BY <2>2, <2>3, <2>4, <2>5 DEF RecoveryTypeOK
<1>4. file' \in StateFile /\ aside' \in BOOLEAN /\ UNCHANGED <<dev, opCap>>
  <2>1. [status |-> "absent", rec |-> NoRecord] \in StateFile
    BY RecordTypes DEF StateFile
  <2>2. \/ file' = file /\ aside' = aside
        \/ file' = [status |-> "absent", rec |-> NoRecord] /\ aside' = TRUE
    BY DEF BeginRecovery, Quarantine
  <2>3. UNCHANGED <<dev, opCap>> BY DEF BeginRecovery
  <2>4. QED BY <2>1, <2>2, <2>3 DEF TypeOK, SharedTypeOK
<1>5. Succeeds \/ Fails BY DEF BeginRecovery, Succeeds
<1>6. SharedTypeOK' BY <1>4, <1>5, FaultsType DEF TypeOK, SharedTypeOK
<1>7. QED BY <1>3, <1>6

\* One step of recovery changes its label and adds to its errors.
LEMMA AdvancedType ==
  ASSUME rec \in RecoveryRun, NEW l \in RecoveryLabels, NEW e \in BOOLEAN
  PROVE  Advanced(l, e) \in RecoveryRun
<1>1. rec.err \/ e \in BOOLEAN BY DEF RecoveryRun
<1>2. QED BY <1>1 DEF RecoveryRun, Advanced

LEMMA RecoveryStepType ==
  ASSUME TypeOK, RecoveryStep \/ RecoveryDies
  PROVE  SharedTypeOK' /\ RecoveryTypeOK'
<1> USE DEF TypeOK, RecoveryTypeOK
<1>0. /\ {"power", "check", "publish"} \subseteq RecoveryLabels
      /\ NoRun \in RecoveryRun
  BY RecordTypes DEF RecoveryLabels
<1>1. CASE RecoverClocks
  <2>1. SharedTypeOK'
    BY <1>1, FaultsType, DeviceType DEF RecoverClocks, SharedTypeOK
  <2>2. PICK e \in BOOLEAN : rec' = Advanced("power", e)
    BY <1>1 DEF RecoverClocks
  <2>3. QED BY <1>0, <2>1, <2>2, AdvancedType
<1>2. CASE RecoverPower
  <2>1. OwesPower \in BOOLEAN /\ RecordTarget \in Caps \cup {NoCap}
        /\ ForcedWish \in Caps
    BY DEF OwesPower, RecordTarget, ForcedWish, RecoveryRun, Record, SharedTypeOK
  <2>2. SharedTypeOK'
    <3>1. dev' \in Device
      BY <1>2, <2>1, DeviceType DEF RecoverPower, SharedTypeOK
    <3>2. opCap' \in Caps BY <1>2, <2>1 DEF RecoverPower, SharedTypeOK
    <3>3. Succeeds \/ Fails BY <1>2 DEF RecoverPower, Succeeds
    <3>4. QED BY <1>2, <3>1, <3>2, <3>3, FaultsType DEF RecoverPower, SharedTypeOK
  <2>3. PICK e \in BOOLEAN : rec' = Advanced("check", e)
    BY <1>2, <2>1 DEF RecoverPower
  <2>4. QED BY <1>0, <2>2, <2>3, AdvancedType
<1>3. CASE CheckHolder
  <2>1. SharedTypeOK' BY <1>3 DEF CheckHolder, sharedVars, SharedTypeOK
  <2>2. rec' = NoRun \/ rec' = Advanced("publish", FALSE) BY <1>3 DEF CheckHolder
  <2>3. Advanced("publish", FALSE) \in RecoveryRun
    BY <1>0, AdvancedType
  <2>4. QED BY <1>0, <2>1, <2>2, <2>3
<1>4. CASE PublishCleared
  <2>1. Restored(rec.prior) \in Record BY RecordUpdates DEF RecoveryRun
  <2>2. QED
    BY <1>4, <2>1, RecordTypes, FaultsType, WriteType DEF PublishCleared, SharedTypeOK
<1>5. CASE RecoveryDies
  BY <1>5, RecordTypes, FaultsType DEF RecoveryDies, SharedTypeOK
<1>6. QED BY <1>1, <1>2, <1>3, <1>4, <1>5 DEF RecoveryStep

\* The steps of the environment keep the types.
LEMMA EnvironmentType ==
  ASSUME TypeOK, OperatorSetsCap \/ CorruptFile
  PROVE  SharedTypeOK' /\ UNCHANGED <<guardVars, rec>>
<1> USE DEF TypeOK
<1>1. CASE OperatorSetsCap
  BY <1>1, DeviceType DEF OperatorSetsCap, SharedTypeOK
<1>2. CASE CorruptFile
  BY <1>2, RecordTypes, FaultsType DEF CorruptFile, SharedTypeOK, StateFile
<1>3. QED BY <1>1, <1>2

LEMMA GuardsUntouched ==
  ASSUME GuardTypeOK, UNCHANGED guardVars
  PROVE  GuardTypeOK'
BY DEF GuardTypeOK, guardVars, flags

LEMMA NextTypeOK == TypeOK /\ [Next]_vars => TypeOK'
<1> SUFFICES ASSUME TypeOK, [Next]_vars PROVE TypeOK' OBVIOUS
<1> USE DEF TypeOK
<1>1. CASE \E p \in Guards : GuardStep(p) /\ UNCHANGED rec
  BY <1>1, GuardStepType DEF RecoveryTypeOK
<1>2. CASE BeginRecovery
  BY <1>2, BeginType, GuardsUntouched DEF BeginRecovery
<1>3. CASE RecoveryStep \/ RecoveryDies
  <2>1. UNCHANGED guardVars
    BY <1>3 DEF RecoveryStep, RecoveryDies, RecoverClocks, RecoverPower, CheckHolder,
                PublishCleared
  <2>2. QED BY <1>3, <2>1, RecoveryStepType, GuardsUntouched
<1>4. CASE OperatorSetsCap \/ CorruptFile
  BY <1>4, EnvironmentType, GuardsUntouched DEF RecoveryTypeOK
<1>5. CASE UNCHANGED vars
  BY <1>5, GuardsUntouched DEF vars, sharedVars, SharedTypeOK, RecoveryTypeOK
<1>6. QED BY <1>1, <1>2, <1>3, <1>4, <1>5 DEF Next, RecoveryNext

\* Every variable of the system keeps its type, in the system as it is.
THEOREM TypeCorrect == Spec => []TypeOK
BY InitTypeOK, NextTypeOK, PTL DEF Spec

\* So it does when the windows are serialized.
THEOREM SerialTypeCorrect == SerialSpec => []TypeOK
<1>1. SerialNext => Next BY DEF SerialNext
<1>2. TypeOK /\ [SerialNext]_vars => TypeOK' BY <1>1, NextTypeOK
<1>3. QED BY InitTypeOK, <1>2, PTL DEF SerialSpec

-----------------------------------------------------------------------------
(* The inductive invariant *)

\* What a step of another process leaves q with.
Kept(q) ==
  /\ pc'[q] = pc[q]
  /\ call'[q] = call[q]
  /\ st'[q] = st[q]
  /\ q \in armed' <=> q \in armed
  /\ q \in published' <=> q \in published
  /\ q \in owing' <=> q \in owing
  /\ \A f \in Frames : <<q, f>> \in err' <=> <<q, f>> \in err

\* The guards, the recovery run and the sets of the armed and of the living
\* are what FileInv and RecoveryInv depend on beside the device and the file.
SamePeople == /\ UNCHANGED <<rec, armed>>
              /\ \A q \in Guards : Alive(q)' <=> Alive(q)

-----------------------------------------------------------------------------
(* The record *)

\* The fields each assignment leaves in a record.
LEMMA RecordFields ==
  ASSUME NEW r \in Record, NEW c
  PROVE  /\ Touched(r) = [r EXCEPT !.restored = FALSE]
         /\ Touched(r).pid = r.pid /\ Touched(r).snap = r.snap
         /\ Touched(r).clocks = r.clocks /\ Touched(r).power = r.power
         /\ ~Touched(r).restored
         /\ Surrendered(r).pid = r.pid /\ Surrendered(r).restored
         /\ Restored(r).pid = r.pid /\ Restored(r).snap = r.snap
         /\ Restored(r).power = r.power /\ Restored(r).restored
         /\ ~Restored(r).clocks
         /\ Incomplete(r).pid = r.pid /\ Incomplete(r).snap = r.snap
         /\ Incomplete(r).clocks = r.clocks /\ Incomplete(r).power = r.power
         /\ ~Incomplete(r).restored
<1>1. Touched(r) = [r EXCEPT !.restored = FALSE] BY DEF Touched
<1>2. /\ Touched(r).pid = r.pid /\ Touched(r).snap = r.snap
      /\ Touched(r).clocks = r.clocks /\ Touched(r).power = r.power
      /\ ~Touched(r).restored
  BY DEF Touched, Record
<1>3. Surrendered(r).pid = r.pid /\ Surrendered(r).restored
  BY DEF Surrendered, Record
<1>4. /\ Restored(r).pid = r.pid /\ Restored(r).snap = r.snap
      /\ Restored(r).power = r.power /\ Restored(r).restored
      /\ ~Restored(r).clocks
  BY DEF Restored, Record
<1>5. /\ Incomplete(r).pid = r.pid /\ Incomplete(r).snap = r.snap
      /\ Incomplete(r).clocks = r.clocks /\ Incomplete(r).power = r.power
      /\ ~Incomplete(r).restored
  BY DEF Incomplete, Record
<1>6. QED BY <1>1, <1>2, <1>3, <1>4, <1>5

LEMMA IntentFields ==
  ASSUME NEW r \in Record, NEW c
  PROVE  /\ WithIntent(r, c).pid = r.pid
         /\ WithIntent(r, c).snap = r.snap
         /\ WithIntent(r, c).restored = r.restored
         /\ r.clocks \/ c = "clocks" => WithIntent(r, c).clocks
         /\ r.power \/ (c = "power" /\ c # "clocks") => WithIntent(r, c).power
BY DEF WithIntent, Record

LEMMA ClaimFields ==
  ASSUME NEW p \in Guards, NEW snap
  PROVE  /\ Claim(p, snap).pid = p
         /\ Claim(p, snap).snap = snap
         /\ ~Claim(p, snap).restored
         /\ ~Claim(p, snap).clocks
         /\ ~Claim(p, snap).power
BY DEF Claim, NoRecord

-----------------------------------------------------------------------------
(* One holder at a time *)

\* The record of an armed guard is outstanding, so nobody else is armed or
\* arming, and recovery is not about to publish.
LEMMA OneHolder ==
  ASSUME IInv, NEW p \in Guards, Armed(p)
  PROVE  /\ file.status = "ok" /\ file.rec.pid = p /\ Outstanding
         /\ Alive(p) /\ ~Arming(p)
         /\ \A q \in Guards : Arming(q) => FALSE
         /\ \A q \in Guards \ {p} : ~Armed(q)
         /\ rec.pc # "publish"
<1>1. /\ file.status = "ok" /\ file.rec.pid = p /\ Outstanding
      /\ Alive(p) /\ ~Arming(p)
  BY DEF IInv, GuardInv, ArmedInv
<1>2. \A q \in Guards : Arming(q) => FALSE
  BY <1>1 DEF IInv, GuardInv, ArmingInv
<1>3. \A q \in Guards : Armed(q) => file.rec.pid = q
  BY DEF IInv, GuardInv, ArmedInv
<1>4. rec.pc # "publish"
  BY <1>1 DEF IInv, RecoveryInv, Recovering
<1>5. QED BY <1>1, <1>2, <1>3, <1>4

\* While a guard arms nobody holds the device, nobody else arms and recovery
\* does not run.
LEMMA OneArming ==
  ASSUME IInv, NEW p \in Guards, Arming(p)
  PROVE  /\ ~Outstanding /\ Clear /\ ~Recovering
         /\ file.status # "unreadable"
         /\ \A q \in Guards : ~Armed(q)
         /\ \A q \in Guards \ {p} : ~Arming(q)
<1>1. ~Outstanding /\ file.status # "unreadable" BY DEF IInv, GuardInv, ArmingInv
<1>2. Clear BY <1>1 DEF IInv, FileInv
<1>3. ~Recovering BY DEF IInv, SerialState, RecoversAlone
<1>4. \A q \in Guards : ~Armed(q) BY <1>1 DEF IInv, GuardInv, ArmedInv
<1>5. \A q \in Guards \ {p} : ~Arming(q) BY DEF IInv, SerialState, ArmsAlone
<1>6. QED BY <1>1, <1>2, <1>3, <1>4, <1>5

\* An outstanding record is some guard's.
LEMMA HolderIsGuard ==
  ASSUME TypeOK, IInv, Outstanding
  PROVE  file.status = "ok" /\ file.rec.pid \in Guards
<1>1. file.status \in {"absent", "ok", "unreadable"}
  BY DEF TypeOK, SharedTypeOK, StateFile
<1>2. QED BY <1>1 DEF IInv, FileInv

-----------------------------------------------------------------------------
(* The file and the recovery run, by what a step does to device and file *)

LEMMA SharedQuiet ==
  ASSUME TypeOK, IInv, SamePeople, UNCHANGED <<dev, opCap, file, aside>>
  PROVE  FileInv' /\ RecoveryInv'
<1>1. Outstanding => /\ file.rec.pid \in Guards
                     /\ Alive(file.rec.pid)' <=> Alive(file.rec.pid)
  BY HolderIsGuard DEF SamePeople
<1>2. FileInv'
  BY <1>1 DEF IInv, FileInv, SamePeople, Outstanding, Clear, Settled, IntentNamed, Recoverable,
         Armed
<1>3. rec.pc = "publish" => /\ rec.prior.pid \in Guards
                            /\ Alive(rec.prior.pid)' <=> Alive(rec.prior.pid)
  BY DEF IInv, RecoveryInv, Recovering, SamePeople
<1>4. RecoveryInv'
  BY <1>1, <1>3 DEF IInv, FileInv, RecoveryInv, SamePeople, Outstanding, Recovering, OwesPower
<1>5. QED BY <1>2, <1>4

\* The holder writes an outstanding record that says all it did.
LEMMA HolderWrites ==
  ASSUME TypeOK, IInv, SamePeople, UNCHANGED <<dev, opCap, aside>>,
         NEW p \in Guards, Armed(p),
         NEW r \in Record, WriteState(r), r.pid = p, ~r.restored,
         dev.locked /\ ~aside => r.clocks, dev.cap # opCap /\ ~aside => r.power,
         ~aside => r.snap \in {opCap, NoCap}
  PROVE  FileInv' /\ RecoveryInv'
<1>1. file'.status = "ok" /\ file'.rec = r BY DEF WriteState
<1>2. rec.pc # "publish" /\ Alive(p) BY OneHolder
<1>3. FileInv'
  BY <1>1 DEF IInv, FileInv, SamePeople, Outstanding, Clear, Settled, IntentNamed,
              Recoverable, Armed
<1>4. RecoveryInv'
  BY <1>1, <1>2 DEF IInv, RecoveryInv, SamePeople, Outstanding, Recovering, OwesPower
<1>5. QED BY <1>3, <1>4

\* The holder writes a settled record over a settled device.
LEMMA HolderSettles ==
  ASSUME TypeOK, IInv, UNCHANGED <<dev, opCap, aside, rec>>,
         NEW p \in Guards, Armed(p), Clear,
         NEW r \in Record, WriteState(r), r.pid = p, r.restored
  PROVE  FileInv' /\ RecoveryInv'
<1>1. file'.status = "ok" /\ file'.rec = r BY DEF WriteState
<1>2. rec.pc # "publish" BY OneHolder
<1>3. FileInv'
  BY <1>1 DEF IInv, FileInv, Outstanding, Clear, Settled, IntentNamed, Recoverable
<1>4. RecoveryInv'
  BY <1>1, <1>2 DEF IInv, RecoveryInv, Outstanding, Recovering, OwesPower
<1>5. QED BY <1>3, <1>4

\* The holder changes the device in ways its record names.
LEMMA HolderTouches ==
  ASSUME TypeOK, IInv, SamePeople, UNCHANGED <<opCap, file, aside>>,
         NEW p \in Guards, Armed(p),
         dev'.locked /\ ~aside => file.rec.clocks,
         dev'.cap # opCap /\ ~aside => file.rec.power
  PROVE  FileInv' /\ RecoveryInv'
<1>1. Outstanding /\ file.rec.pid = p /\ Alive(p) /\ rec.pc # "publish" BY OneHolder
<1>2. FileInv'
  BY <1>1 DEF IInv, FileInv, SamePeople, Outstanding, Clear, Settled, IntentNamed,
              Recoverable, Armed
<1>3. RecoveryInv'
  BY <1>1 DEF IInv, RecoveryInv, SamePeople, Outstanding, Recovering, OwesPower
<1>4. QED BY <1>2, <1>3

-----------------------------------------------------------------------------
(* The other guards *)

\* A guard that another process's step leaves alone keeps its invariant when
\* the device and the file stay, or when it neither holds nor is about to.
LEMMA OthersKeepInv ==
  ASSUME TypeOK, IInv, NEW q \in Guards, Kept(q),
         \/ UNCHANGED <<dev, opCap, file, aside>>
         \/ ~Armed(q) /\ ~Arming(q)
  PROVE  GuardInv(q)'
<1>1. GuardInv(q) BY DEF IInv
<1>2. CASE UNCHANGED <<dev, opCap, file, aside>>
  <2>1. ArmedInv(q)'
    BY <1>1, <1>2 DEF Kept, GuardInv, ArmedInv, Armed, Alive, Arming, Outstanding, Clear, Settled
  <2>2. DisarmedInv(q)' /\ ArmingInv(q)'
    BY <1>1, <1>2 DEF Kept, GuardInv, DisarmedInv, ArmingInv, Armed, Arming, Outstanding
  <2>3. WriterInv(q)'
    BY <1>1, <1>2 DEF Kept, GuardInv, WriterInv, At, InHandler, Arming
  <2>4. ASSUME NEW f \in Frames PROVE FrameInv(q, f)'
    BY <1>1, <1>2 DEF Kept, GuardInv, FrameInv, Running, InHandler, Armed, Clear, Settled
  <2>5. QED BY <2>1, <2>2, <2>3, <2>4 DEF GuardInv
<1>3. CASE ~Armed(q) /\ ~Arming(q)
  <2>1. ArmedInv(q)' /\ DisarmedInv(q)' /\ ArmingInv(q)'
    BY <1>1, <1>3 DEF Kept, GuardInv, ArmedInv, DisarmedInv, ArmingInv, Armed, Arming
  <2>2. Running(q, "main") => pc[q]["main"] \notin Owning
    BY <1>1, <1>3 DEF GuardInv, FrameInv, Frames
  <2>3. WriterInv(q)'
    BY <1>1, <1>3, <2>2
       DEF Kept, GuardInv, WriterInv, At, Running, InHandler, Arming, Owning
  <2>4. ASSUME NEW f \in Frames PROVE FrameInv(q, f)'
    BY <1>1, <1>3 DEF Kept, GuardInv, FrameInv, Running, InHandler, Armed, Owning
  <2>5. QED BY <2>1, <2>3, <2>4 DEF GuardInv
<1>4. QED BY <1>2, <1>3

\* Where a move leaves the frames of its process and of the others.
LEMMA GotoFacts ==
  ASSUME TypeOK, NEW p \in Guards, NEW f \in Frames, NEW l, Goto(p, f, l)
  PROVE  /\ pc'[p][f] = l
         /\ \A g \in Frames \ {f} : pc'[p][g] = pc[p][g]
         /\ \A q \in Guards \ {p} : pc'[q] = pc[q]
BY DEF TypeOK, GuardTypeOK, Goto

LEMMA MainReturnsFacts ==
  ASSUME TypeOK, NEW p \in Guards, MainReturns(p)
  PROVE  /\ pc'[p]["main"] = "idle"
         /\ pc'[p]["hand"] = pc[p]["hand"]
         /\ \A q \in Guards \ {p} : pc'[q] = pc[q] /\ call'[q] = call[q]
<1>1. "main" \in Frames /\ "hand" \in Frames \ {"main"} BY DEF Frames
<1>2. Goto(p, "main", "idle") BY DEF MainReturns
<1>3. \A q \in Guards \ {p} : call'[q] = call[q]
  BY DEF MainReturns, TypeOK, GuardTypeOK
<1>4. QED BY <1>1, <1>2, <1>3, GotoFacts

LEMMA RestoreReturnsFacts ==
  ASSUME TypeOK, NEW p \in Guards, NEW f \in Frames, RestoreReturns(p, f)
  PROVE  /\ pc'[p][f] = IF f = "main" THEN "idle" ELSE "deliver"
         /\ \A g \in Frames \ {f} : pc'[p][g] = pc[p][g]
         /\ f = "hand" => call' = call
         /\ \A q \in Guards \ {p} : pc'[q] = pc[q] /\ call'[q] = call[q]
<1>1. CASE f = "main"
  BY <1>1, MainReturnsFacts DEF RestoreReturns, Frames
<1>2. CASE f = "hand"
  <2>1. Goto(p, f, "deliver") /\ UNCHANGED call BY <1>2 DEF RestoreReturns
  <2>2. QED BY <1>2, <2>1, GotoFacts
<1>3. QED BY <1>1, <1>2 DEF Frames

LEMMA UnwindFacts ==
  ASSUME TypeOK, NEW p \in Guards, Unwind(p)
  PROVE  /\ pc'[p]["main"] = "idle" /\ pc'[p]["hand"] = "off"
         /\ \A q \in Guards \ {p} : /\ pc'[q] = pc[q] /\ call'[q] = call[q]
                                    /\ \A f \in Frames : <<q, f>> \in err' <=> <<q, f>> \in err
BY DEF TypeOK, GuardTypeOK, Unwind, Frames

LEMMA DiesFacts ==
  ASSUME TypeOK, NEW p \in Guards, Dies(p)
  PROVE  /\ pc'[p]["main"] = "dead" /\ pc'[p]["hand"] = "off"
         /\ \A q \in Guards \ {p} : Kept(q)
<1>1. pc'[p]["main"] = "dead" /\ pc'[p]["hand"] = "off"
  BY DEF TypeOK, GuardTypeOK, Dies, Frames
<1>2. ASSUME NEW q \in Guards \ {p} PROVE Kept(q)
  BY DEF TypeOK, GuardTypeOK, Dies, Kept
<1>3. QED BY <1>1, <1>2

\* A step of one guard process leaves the others alone.
LEMMA OthersUntouched ==
  ASSUME TypeOK, NEW p \in Guards, GuardStep(p), NEW q \in Guards \ {p}
  PROVE  Kept(q)
<1> USE GotoFacts, MainReturnsFacts, RestoreReturnsFacts
<1>0. "main" \in Frames /\ "hand" \in Frames BY DEF Frames
<1>t. /\ call \in [Guards -> Calls] /\ st \in [Guards -> Record]
  BY DEF TypeOK, GuardTypeOK
<1> DEFINE SamePc == pc'[q] = pc[q]
           SameCall == call'[q] = call[q]
           SameSt == st'[q] = st[q]
           SameFlags == /\ q \in armed' <=> q \in armed
                        /\ q \in published' <=> q \in published
                        /\ q \in owing' <=> q \in owing
                        /\ \A f \in Frames : <<q, f>> \in err' <=> <<q, f>> \in err
<1>1. CASE CheckNotBusy(p)
  <2>1. SamePc /\ SameCall BY <1>0, <1>t, <1>1 DEF CheckNotBusy
  <2>2. SameSt BY <1>t, <1>1 DEF CheckNotBusy
  <2>3. SameFlags BY <1>1 DEF CheckNotBusy, flags
  <2>4. QED BY <2>1, <2>2, <2>3 DEF Kept
<1>2. CASE TakeSnapshot(p)
  <2>1. SamePc /\ SameCall BY <1>0, <1>t, <1>2 DEF TakeSnapshot
  <2>2. SameSt BY <1>t, <1>2 DEF TakeSnapshot
  <2>3. SameFlags BY <1>2 DEF TakeSnapshot, flags
  <2>4. QED BY <2>1, <2>2, <2>3 DEF Kept
<1>3. CASE Publish(p)
  <2>1. SamePc /\ SameCall BY <1>0, <1>t, <1>3 DEF Publish
  <2>2. SameSt BY <1>t, <1>3 DEF Publish
  <2>3. SameFlags BY <1>3 DEF Publish, flags
  <2>4. QED BY <2>1, <2>2, <2>3 DEF Kept
<1>4. CASE CallWriter(p)
  <2>1. SamePc /\ SameCall BY <1>0, <1>t, <1>4 DEF CallWriter
  <2>2. SameSt BY <1>t, <1>4 DEF CallWriter
  <2>3. SameFlags BY <1>4 DEF CallWriter, flags
  <2>4. QED BY <2>1, <2>2, <2>3 DEF Kept
<1>5. CASE RefuseWrite(p)
  <2>1. SamePc /\ SameCall BY <1>0, <1>t, <1>5 DEF RefuseWrite
  <2>2. SameSt BY <1>t, <1>5 DEF RefuseWrite
  <2>3. SameFlags BY <1>5 DEF RefuseWrite, flags
  <2>4. QED BY <2>1, <2>2, <2>3 DEF Kept
<1>6. CASE AssignIntent(p)
  <2>1. SamePc /\ SameCall BY <1>0, <1>t, <1>6 DEF AssignIntent
  <2>2. SameSt BY <1>t, <1>6 DEF AssignIntent
  <2>3. SameFlags BY <1>6 DEF AssignIntent, flags
  <2>4. QED BY <2>1, <2>2, <2>3 DEF Kept
<1>7. CASE MarkTouched(p)
  <2>1. SamePc /\ SameCall BY <1>0, <1>t, <1>7 DEF MarkTouched
  <2>2. SameSt BY <1>t, <1>7 DEF MarkTouched
  <2>3. SameFlags BY <1>7 DEF MarkTouched, flags
  <2>4. QED BY <2>1, <2>2, <2>3 DEF Kept
<1>8. CASE HardwareWrite(p)
  <2>1. SamePc /\ SameCall BY <1>0, <1>t, <1>8 DEF HardwareWrite
  <2>2. SameSt BY <1>t, <1>8 DEF HardwareWrite
  <2>3. SameFlags BY <1>8 DEF HardwareWrite, flags
  <2>4. QED BY <2>1, <2>2, <2>3 DEF Kept
<1>9. CASE CallRestore(p)
  <2>1. SamePc /\ SameCall BY <1>0, <1>t, <1>9 DEF CallRestore
  <2>2. SameSt BY <1>t, <1>9 DEF CallRestore
  <2>3. SameFlags BY <1>9 DEF CallRestore, flags
  <2>4. QED BY <2>1, <2>2, <2>3 DEF Kept
<1>10. CASE CallExit(p)
  <2>1. SamePc /\ SameCall BY <1>0, <1>t, <1>10 DEF CallExit
  <2>2. SameSt BY <1>t, <1>10 DEF CallExit
  <2>3. SameFlags BY <1>10 DEF CallExit, flags
  <2>4. QED BY <2>1, <2>2, <2>3 DEF Kept
<1>11. CASE Signal(p)
  <2>1. SamePc /\ SameCall BY <1>0, <1>t, <1>11 DEF Signal
  <2>2. SameSt BY <1>t, <1>11 DEF Signal
  <2>3. SameFlags BY <1>11 DEF Signal, flags
  <2>4. QED BY <2>1, <2>2, <2>3 DEF Kept
<1>d. CASE Dies(p) BY <1>d, DiesFacts
<1>u. CASE Unwind(p) /\ UNCHANGED <<sharedVars, flags, st>>
  BY <1>u, UnwindFacts DEF Kept, flags
<1>o. CASE Goto(p, "hand", "off") /\ UNCHANGED <<sharedVars, call, err, flags, st>>
  BY <1>0, <1>o DEF Kept, flags
<1>s. ASSUME NEW f \in Frames, RestoreStep(p, f) PROVE Kept(q)
  <2>1. CASE Surrender(p, f)
    <3>1. SamePc /\ SameCall BY <2>1 DEF Surrender
    <3>2. SameSt BY <1>t, <2>1 DEF Surrender
    <3>3. SameFlags BY <2>1 DEF Surrender, flags
    <3>4. QED BY <3>1, <3>2, <3>3 DEF Kept
  <2>2. CASE FindDebt(p, f)
    <3>1. SamePc /\ SameCall BY <2>2 DEF FindDebt
    <3>2. SameSt BY <1>t, <2>2 DEF FindDebt
    <3>3. SameFlags BY <2>2 DEF FindDebt, flags
    <3>4. QED BY <3>1, <3>2, <3>3 DEF Kept
  <2>3. CASE ResetClocks(p, f)
    <3>1. SamePc /\ SameCall BY <2>3 DEF ResetClocks
    <3>2. SameSt BY <1>t, <2>3 DEF ResetClocks
    <3>3. SameFlags BY <2>3 DEF ResetClocks, flags
    <3>4. QED BY <3>1, <3>2, <3>3 DEF Kept
  <2>4. CASE RestorePower(p, f)
    <3>1. SamePc /\ SameCall BY <2>4 DEF RestorePower
    <3>2. SameSt BY <1>t, <2>4 DEF RestorePower
    <3>3. SameFlags BY <2>4 DEF RestorePower, flags
    <3>4. QED BY <3>1, <3>2, <3>3 DEF Kept
  <2>5. CASE ReportFailure(p, f)
    <3>1. SamePc /\ SameCall BY <2>5 DEF ReportFailure
    <3>2. SameSt BY <1>t, <2>5 DEF ReportFailure
    <3>3. SameFlags BY <2>5 DEF ReportFailure, flags
    <3>4. QED BY <3>1, <3>2, <3>3 DEF Kept
  <2>6. CASE RewriteRecord(p, f)
    <3>1. SamePc /\ SameCall BY <2>6 DEF RewriteRecord
    <3>2. SameSt BY <1>t, <2>6 DEF RewriteRecord
    <3>3. SameFlags BY <2>6 DEF RewriteRecord, flags
    <3>4. QED BY <3>1, <3>2, <3>3 DEF Kept
  <2>7. CASE SettleDebt(p, f)
    <3>1. SamePc /\ SameCall BY <2>7 DEF SettleDebt
    <3>2. SameSt BY <1>t, <2>7 DEF SettleDebt
    <3>3. SameFlags BY <2>7 DEF SettleDebt, flags
    <3>4. QED BY <3>1, <3>2, <3>3 DEF Kept
  <2>8. CASE FinishRestore(p, f)
    <3>1. SamePc /\ SameCall BY <2>8 DEF FinishRestore
    <3>2. SameSt BY <1>t, <2>8 DEF FinishRestore
    <3>3. SameFlags BY <2>8 DEF FinishRestore, flags
    <3>4. QED BY <3>1, <3>2, <3>3 DEF Kept
  <2> QED BY <1>s, <2>1, <2>2, <2>3, <2>4, <2>5, <2>6, <2>7, <2>8 DEF RestoreStep
<1> QED
  BY <1>1, <1>2, <1>3, <1>4, <1>5, <1>6, <1>7, <1>8, <1>9, <1>10, <1>11, <1>d, <1>u, <1>o, <1>s
     DEF GuardStep, MethodStep, CallerStep, SignalStep, DefaultSignal, SignalReturns,
         Terminate, Crash

-----------------------------------------------------------------------------
(* restore() *)

\* A step of restore() moves the running frame within restore() or out of it.
LEMMA RestoreControl ==
  ASSUME TypeOK, IInv, NEW p \in Guards, NEW f \in Frames, RestoreStep(p, f)
  PROVE  /\ Running(p, f) /\ pc[p][f] \in RestoreLabels
         /\ pc'[p][f] \in RestoreLabels \cup {IF f = "main" THEN "idle" ELSE "deliver"}
         /\ \A g \in Frames \ {f} : pc'[p][g] = pc[p][g]
         /\ f = "hand" => call' = call
<1> USE GotoFacts, RestoreReturnsFacts DEF RestoreLabels
<1>r. ASSUME \/ \E l \in RestoreLabels : Goto(p, f, l) /\ call' = call
             \/ RestoreReturns(p, f)
      PROVE  /\ pc'[p][f] \in RestoreLabels \cup {IF f = "main" THEN "idle" ELSE "deliver"}
             /\ \A g \in Frames \ {f} : pc'[p][g] = pc[p][g]
             /\ f = "hand" => call' = call
  BY <1>r
<1>1. CASE Surrender(p, f) BY <1>r, <1>1 DEF Surrender, At, Running
<1>2. CASE FindDebt(p, f) BY <1>r, <1>2 DEF FindDebt, At, Running
<1>3. CASE ResetClocks(p, f) BY <1>r, <1>3 DEF ResetClocks, At, Running
<1>4. CASE RestorePower(p, f) BY <1>r, <1>4 DEF RestorePower, At, Running
<1>5. CASE ReportFailure(p, f) BY <1>r, <1>5 DEF ReportFailure, At, Running
<1>6. CASE RewriteRecord(p, f) BY <1>r, <1>6 DEF RewriteRecord, At, Running
<1>7. CASE SettleDebt(p, f) BY <1>r, <1>7 DEF SettleDebt, At, Running
<1>8. CASE FinishRestore(p, f) BY <1>r, <1>8 DEF FinishRestore, At, Running
<1> QED BY <1>1, <1>2, <1>3, <1>4, <1>5, <1>6, <1>7, <1>8 DEF RestoreStep

\* What a step of restore() cannot disturb in its own process.
LEMMA RestoreElsewhere ==
  ASSUME TypeOK, IInv, NEW p \in Guards, NEW f \in Frames, RestoreStep(p, f)
  PROVE  /\ Alive(p) /\ Alive(p)'
         /\ Running(p, f)'
         /\ Arming(p)' => Arming(p)
         /\ pc'[p]["main"] = "built" => pc[p]["main"] = "built"
         /\ WriterInv(p)'
         /\ \A g \in Frames \ {f} : FrameInv(p, g)'
<1>1. WriterInv(p) BY DEF IInv, GuardInv
<1>2. CASE f = "main"
  <2>1. pc[p]["hand"] = "off" /\ pc'[p]["hand"] = "off"
    BY <1>2, RestoreControl DEF Running, InHandler, Frames
  <2>2. /\ pc[p]["main"] \in RestoreLabels
        /\ pc'[p]["main"] \in RestoreLabels \cup {"idle"}
    BY <1>2, RestoreControl
  <2>3. WriterInv(p)' BY <2>1, <2>2 DEF WriterInv, At, InHandler, Arming, RestoreLabels
  <2>4. FrameInv(p, "hand")' BY <2>1 DEF FrameInv, Owning
  <2>5. QED
    BY <1>2, <2>1, <2>2, <2>3, <2>4
       DEF Alive, Running, InHandler, Arming, RestoreLabels, Frames
<1>3. CASE f = "hand"
  <2>1. /\ pc'[p]["main"] = pc[p]["main"] /\ call' = call
        /\ pc[p]["hand"] # "off" /\ pc'[p]["hand"] # "off"
    BY <1>3, RestoreControl DEF Frames, RestoreLabels
  <2>2. pc[p]["main"] \notin {"nvml", "dead"} BY <1>1, <2>1 DEF WriterInv, InHandler
  <2>3. WriterInv(p)' BY <1>1, <2>1 DEF WriterInv, At, InHandler, Arming
  <2>4. FrameInv(p, "main")' BY <2>1 DEF FrameInv, Running, InHandler
  <2>5. QED
    BY <1>3, <2>1, <2>2, <2>3, <2>4 DEF Alive, Running, Arming, Frames
<1>4. QED BY <1>2, <1>3 DEF Frames

\* What has to be shown of a step of p: the shared parts and its own, and that
\* it changes the device or the file only as the holder or the next one.
StepKeeps(p) ==
  /\ FileInv' /\ RecoveryInv' /\ GuardInv(p)'
  /\ UNCHANGED <<dev, opCap, file, aside>> \/ Armed(p) \/ Arming(p)

\* What an armed guard knows.
LEMMA HolderKnows ==
  ASSUME TypeOK, IInv, NEW p \in Guards, Armed(p)
  PROVE  /\ st[p] \in Record /\ st[p].pid = p /\ ~st[p].restored
         /\ p \in published
         /\ ~aside => st[p].snap \in {opCap, NoCap}
         /\ file.rec.snap = st[p].snap
         /\ dev.locked /\ ~aside => st[p].clocks
         /\ dev.cap # opCap /\ ~aside => st[p].power
         /\ file.rec.power => st[p].power
         /\ p \notin owing => Clear
         /\ dev.locked /\ ~aside => file.rec.clocks
         /\ dev.cap # opCap /\ ~aside => file.rec.power
<1>1. st[p] \in Record BY DEF TypeOK, GuardTypeOK
<1>2. ArmedInv(p) BY DEF IInv, GuardInv
<1>3. /\ dev.locked /\ ~aside => file.rec.clocks
      /\ dev.cap # opCap /\ ~aside => file.rec.power
  BY <1>2 DEF ArmedInv, IInv, FileInv, IntentNamed
<1>4. QED BY <1>1, <1>2, <1>3 DEF ArmedInv

LEMMA RestoreKeeps ==
  ASSUME TypeOK, IInv, UNCHANGED rec, NEW p \in Guards, NEW f \in Frames,
         RestoreStep(p, f)
  PROVE  StepKeeps(p)
<1>a. \A q \in Guards : Alive(q)' <=> Alive(q)
  <2>1. ASSUME NEW q \in Guards \ {p} PROVE Alive(q)' <=> Alive(q)
    BY OthersUntouched DEF GuardStep, MethodStep, Kept, Alive
  <2>2. QED BY <2>1, RestoreElsewhere
<1>b. /\ Running(p, f) /\ Running(p, f)' /\ Alive(p)'
      /\ Arming(p)' => Arming(p)
      /\ pc'[p]["main"] = "built" => pc[p]["main"] = "built"
  BY RestoreControl, RestoreElsewhere
<1>c. /\ ArmedInv(p) /\ DisarmedInv(p) /\ ArmingInv(p) /\ FrameInv(p, f)
  BY DEF IInv, GuardInv
<1>d. Armed(p) => ~Arming(p)' /\ pc'[p]["main"] # "built"
  BY <1>b, OneHolder DEF Arming
<1>e. /\ pc[p][f] \in Owning => Armed(p)
      /\ p \in owing => Armed(p)
  BY <1>b, <1>c DEF FrameInv, DisarmedInv
<1>f. st[p] \in Record /\ st \in [Guards -> Record] BY DEF TypeOK, GuardTypeOK
<1> SUFFICES /\ FileInv' /\ RecoveryInv'
             /\ ArmedInv(p)' /\ DisarmedInv(p)' /\ ArmingInv(p)' /\ FrameInv(p, f)'
             /\ UNCHANGED <<dev, opCap, file, aside>> \/ Armed(p)
  BY RestoreElsewhere DEF GuardInv, StepKeeps
<1>1. CASE Surrender(p, f)
  <2>1. CASE Succeeds /\ p \in published /\ ~st[p].restored /\ UNCHANGED <<dev, opCap, aside>>
             /\ st' = [st EXCEPT ![p] = Surrendered(@)] /\ WriteState(Surrendered(st[p]))
             /\ armed' = armed \ {p} /\ UNCHANGED <<published, owing>>
             /\ RestoreReturns(p, f) /\ p \notin owing
    <3>1. Armed(p) BY <1>c, <2>1 DEF DisarmedInv
    <3>2. Clear BY <2>1, <3>1, HolderKnows
    <3>3. st'[p] = Surrendered(st[p]) BY <1>f, <2>1
    <3>4. /\ Surrendered(st[p]).pid = p /\ Surrendered(st[p]).restored
          /\ Surrendered(st[p]) \in Record
      BY <1>f, <3>1, RecordFields, RecordUpdates, HolderKnows
    <3>5. FileInv' /\ RecoveryInv' BY <2>1, <3>1, <3>2, <3>4, HolderSettles
    <3>6. ~Armed(p)' BY <2>1 DEF Armed
    <3>7. ArmedInv(p)' /\ DisarmedInv(p)' /\ ArmingInv(p)'
      BY <1>d, <2>1, <3>1, <3>3, <3>4, <3>6 DEF ArmedInv, DisarmedInv, ArmingInv
    <3>8. FrameInv(p, f)' BY <2>1, RestoreReturnsFacts DEF FrameInv, Owning
    <3>9. QED BY <3>1, <3>5, <3>7, <3>8
  <2>2. CASE UNCHANGED <<dev, opCap, aside, file, st, armed, published, owing>>
             /\ RestoreReturns(p, f)
    <3>1. FileInv' /\ RecoveryInv' BY <1>a, <2>2, SharedQuiet DEF SamePeople
    <3>2. ArmedInv(p)' /\ DisarmedInv(p)' /\ ArmingInv(p)'
      BY <1>b, <1>c, <1>d, <2>2
         DEF ArmedInv, DisarmedInv, ArmingInv, Armed, Outstanding, Clear, Settled
    <3>3. FrameInv(p, f)' BY <2>2, RestoreReturnsFacts DEF FrameInv, Owning
    <3>4. QED BY <2>2, <3>1, <3>2, <3>3
  <2>3. p \notin published \/ st[p].restored => ~Armed(p)
    BY HolderKnows
  <2>4. p \notin published \/ st[p].restored => armed \ {p} = armed
    BY <2>3 DEF Armed
  <2>5. \/ /\ Succeeds /\ p \in published /\ ~st[p].restored
           /\ st' = [st EXCEPT ![p] = Surrendered(@)] /\ WriteState(Surrendered(st[p]))
           /\ armed' = armed \ {p}
        \/ UNCHANGED <<file, armed, st>>
    BY <1>1, <2>4 DEF Surrender
  <2>6. RestoreReturns(p, f) /\ p \notin owing /\ UNCHANGED <<dev, opCap, aside, published, owing>>
    BY <1>1 DEF Surrender
  <2>7. QED BY <2>1, <2>2, <2>5, <2>6
<1>2. CASE FindDebt(p, f)
  <2>1. UNCHANGED <<dev, opCap, aside, file, st, armed, published, owing>>
    BY <1>2 DEF FindDebt, sharedVars, flags
  <2>2. FileInv' /\ RecoveryInv' BY <1>a, <2>1, SharedQuiet DEF SamePeople
  <2>3. ArmedInv(p)' /\ DisarmedInv(p)' /\ ArmingInv(p)'
    BY <1>b, <1>c, <1>d, <2>1
       DEF ArmedInv, DisarmedInv, ArmingInv, Armed, Outstanding, Clear, Settled
  <2>4. pc'[p][f] = "clocks" /\ Armed(p)' BY <1>2, <1>e, <2>1, GotoFacts DEF FindDebt, Armed
  <2>5. FrameInv(p, f)' BY <2>4 DEF FrameInv
  <2>6. QED BY <2>1, <2>2, <2>3, <2>5
<1>3. CASE ResetClocks(p, f)
  <2>1. UNCHANGED <<opCap, aside, file, st, armed, published, owing>>
        /\ pc[p][f] = "clocks" /\ pc'[p][f] = "power"
    BY <1>3, GotoFacts DEF ResetClocks, At, flags
  <2>2. Armed(p) BY <1>e, <2>1 DEF Owning
  <2>3. /\ dev'.cap = dev.cap
        /\ dev'.locked => dev.locked
        /\ <<p, f>> \notin err' => ~dev'.locked
    BY <1>3 DEF ResetClocks, ClocksReset, TypeOK, SharedTypeOK, Device
  <2>4. FileInv' /\ RecoveryInv'
    BY <1>a, <2>1, <2>2, <2>3, HolderTouches, HolderKnows DEF SamePeople
  <2>5. ArmedInv(p)' /\ DisarmedInv(p)' /\ ArmingInv(p)'
    BY <1>b, <1>c, <1>d, <2>1, <2>2, <2>3
       DEF ArmedInv, DisarmedInv, ArmingInv, Armed, Outstanding, Clear, Settled
  <2>6. FrameInv(p, f)' BY <2>1, <2>2, <2>3 DEF FrameInv, Armed
  <2>7. QED BY <2>2, <2>4, <2>5, <2>6
<1>4. CASE RestorePower(p, f)
  <2>1. UNCHANGED <<opCap, aside, file, st, armed, published, owing>>
        /\ pc[p][f] = "power"
    BY <1>4 DEF RestorePower, At, flags
  <2>2. Armed(p) BY <1>e, <2>1 DEF Owning
  <2>3. /\ dev'.locked = dev.locked
        /\ dev'.cap = dev.cap \/ dev'.cap = opCap \/ aside
    BY <1>4, <2>2, HolderKnows
       DEF RestorePower, CapSet, TypeOK, SharedTypeOK, Device
  <2>4. \/ pc'[p][f] = "report"
        \/ /\ pc'[p][f] = "flag" /\ <<p, f>> \notin err
           /\ dev'.cap = opCap \/ aside
    <3>1. \/ pc'[p][f] = "report"
          \/ /\ pc'[p][f] = "flag" /\ <<p, f>> \notin err
             /\ ~st[p].power /\ dev' = dev
          \/ /\ pc'[p][f] = "flag" /\ <<p, f>> \notin err
             /\ st[p].snap # NoCap /\ CapSet(st[p].snap)
      BY <1>4, GotoFacts DEF RestorePower
    <3>2. ~st[p].power => dev.cap = opCap \/ aside BY <2>2, HolderKnows
    <3>3. st[p].snap # NoCap /\ CapSet(st[p].snap) => dev'.cap = opCap \/ aside
      BY <2>2, HolderKnows DEF CapSet, TypeOK, SharedTypeOK, Device
    <3>4. QED BY <3>1, <3>2, <3>3
  <2>5. FileInv' /\ RecoveryInv'
    BY <1>a, <2>1, <2>2, <2>3, HolderTouches, HolderKnows DEF SamePeople
  <2>6. ArmedInv(p)' /\ DisarmedInv(p)' /\ ArmingInv(p)'
    BY <1>b, <1>c, <1>d, <2>1, <2>2, <2>3
       DEF ArmedInv, DisarmedInv, ArmingInv, Armed, Outstanding, Clear, Settled
  <2>7. FrameInv(p, f)'
    BY <1>b, <1>c, <2>1, <2>2, <2>3, <2>4 DEF FrameInv, Armed, Clear, Settled
  <2>8. QED BY <2>2, <2>5, <2>6, <2>7
<1>5. CASE ReportFailure(p, f)
  <2>1. UNCHANGED <<dev, opCap, aside, file, armed, published, owing>>
        /\ pc[p][f] = "report" /\ pc'[p][f] = "rewrite"
        /\ st'[p] = Incomplete(st[p])
    BY <1>f, <1>5, GotoFacts DEF ReportFailure, At, flags, sharedVars
  <2>2. Armed(p) BY <1>e, <2>1 DEF Owning
  <2>3. /\ st'[p].pid = st[p].pid /\ st'[p].snap = st[p].snap
        /\ st'[p].clocks = st[p].clocks /\ st'[p].power = st[p].power
        /\ ~st'[p].restored
    BY <1>f, <2>1, RecordFields
  <2>4. FileInv' /\ RecoveryInv' BY <1>a, <2>1, SharedQuiet DEF SamePeople
  <2>5. ArmedInv(p)' /\ DisarmedInv(p)' /\ ArmingInv(p)'
    BY <1>b, <1>c, <1>d, <2>1, <2>2, <2>3
       DEF ArmedInv, DisarmedInv, ArmingInv, Armed, Outstanding, Clear, Settled
  <2>6. FrameInv(p, f)' BY <2>1, <2>2 DEF FrameInv, Armed
  <2>7. QED BY <2>2, <2>4, <2>5, <2>6
<1>6. CASE RewriteRecord(p, f)
  <2>1. UNCHANGED <<dev, opCap, aside, st, armed, published, owing>>
        /\ pc[p][f] = "rewrite" /\ pc'[p][f] \in {"idle", "deliver"}
    BY <1>6, RestoreReturnsFacts DEF RewriteRecord, At, flags
  <2>2. Armed(p) BY <1>e, <2>1 DEF Owning
  <2>3. UNCHANGED file \/ WriteState(st[p]) BY <1>6 DEF RewriteRecord
  <2>4. FileInv' /\ RecoveryInv'
    BY <1>a, <2>1, <2>2, <2>3, SharedQuiet, HolderWrites, HolderKnows DEF SamePeople
  <2>5. ArmedInv(p)'
    BY <1>b, <1>c, <1>d, <2>1, <2>2, <2>3, HolderKnows
       DEF ArmedInv, Armed, Outstanding, Clear, Settled, WriteState
  <2>6. DisarmedInv(p)' /\ ArmingInv(p)'
    BY <1>d, <2>1, <2>2 DEF DisarmedInv, ArmingInv, Armed
  <2>7. FrameInv(p, f)' BY <2>1 DEF FrameInv, Owning
  <2>8. QED BY <2>2, <2>4, <2>5, <2>6, <2>7
<1>7. CASE SettleDebt(p, f)
  <2>1. UNCHANGED <<dev, opCap, aside, file, st, armed, published>>
        /\ pc[p][f] = "flag" /\ pc'[p][f] = "tail" /\ owing' = owing \ {p}
    BY <1>7, GotoFacts DEF SettleDebt, At, sharedVars
  <2>2. Armed(p) BY <1>e, <2>1 DEF Owning
  <2>3. Clear BY <1>b, <1>c, <2>1 DEF FrameInv
  <2>4. FileInv' /\ RecoveryInv' BY <1>a, <2>1, SharedQuiet DEF SamePeople
  <2>5. ArmedInv(p)' /\ DisarmedInv(p)' /\ ArmingInv(p)'
    BY <1>b, <1>c, <1>d, <2>1, <2>2, <2>3
       DEF ArmedInv, DisarmedInv, ArmingInv, Armed, Outstanding, Clear, Settled
  <2>6. FrameInv(p, f)' BY <2>1, <2>2, <2>3 DEF FrameInv, Armed, Clear, Settled
  <2>7. QED BY <2>2, <2>4, <2>5, <2>6
<1>8. CASE FinishRestore(p, f)
  <2>1. UNCHANGED <<dev, opCap, aside, published, owing>>
        /\ pc[p][f] = "tail" /\ pc'[p][f] \in {"idle", "deliver"}
    BY <1>8, RestoreReturnsFacts DEF FinishRestore, At
  <2>2. Armed(p) BY <1>e, <2>1 DEF Owning
  <2>3. Clear /\ p \notin owing BY <1>b, <1>c, <2>1 DEF FrameInv
  <2>4. /\ Restored(st[p]) \in Record /\ Restored(st[p]).pid = p
        /\ Restored(st[p]).restored /\ Restored(st[p]).snap = st[p].snap
        /\ Restored(st[p]).power = st[p].power
    <3>1. st[p] \in Record /\ st[p].pid = p BY <2>2, HolderKnows
    <3>2. Restored(st[p]) \in Record BY <3>1, RecordUpdates
    <3>3. QED BY <3>1, <3>2, RecordFields
  <2>5. FrameInv(p, f)' BY <2>1 DEF FrameInv, Owning
  <2>6. CASE WriteState(Restored(st[p])) /\ armed' = armed \ {p}
             /\ st' = [st EXCEPT ![p] = Restored(@)]
    <3>1. st'[p] = Restored(st[p]) /\ ~Armed(p)' BY <1>f, <2>6 DEF Armed
    <3>2. FileInv' /\ RecoveryInv' BY <2>1, <2>2, <2>3, <2>4, <2>6, HolderSettles
    <3>3. ArmedInv(p)' /\ DisarmedInv(p)' /\ ArmingInv(p)'
      BY <1>d, <2>1, <2>2, <2>3, <2>4, <3>1 DEF ArmedInv, DisarmedInv, ArmingInv
    <3>4. QED BY <2>2, <2>5, <3>2, <3>3
  <2>7. CASE UNCHANGED <<file, armed>>
             /\ st' = [st EXCEPT ![p] = Touched(Restored(@))]
    <3>1. st'[p] = Touched(Restored(st[p])) BY <1>f, <2>7
    <3>2. /\ st'[p].pid = p /\ st'[p].snap = st[p].snap /\ ~st'[p].restored
          /\ st'[p].power = st[p].power
      BY <2>4, <3>1, RecordFields
    <3>3. FileInv' /\ RecoveryInv' BY <1>a, <2>1, <2>7, SharedQuiet DEF SamePeople
    <3>4. ArmedInv(p)' /\ DisarmedInv(p)' /\ ArmingInv(p)'
      BY <1>b, <1>c, <1>d, <2>1, <2>2, <2>3, <2>7, <3>2
         DEF ArmedInv, DisarmedInv, ArmingInv, Armed, Outstanding, Clear, Settled
    <3>5. QED BY <2>2, <2>5, <3>3, <3>4
  <2>8. QED BY <1>8, <2>6, <2>7 DEF FinishRestore
<1>9. QED
  BY <1>1, <1>2, <1>3, <1>4, <1>5, <1>6, <1>7, <1>8 DEF RestoreStep

-----------------------------------------------------------------------------
(* arm(), the writers and the calls of the program around the guard *)

\* A step of the main thread: the handler is not running, before or after.
LEMMA MainFrame ==
  ASSUME TypeOK, IInv, NEW p \in Guards, NEW l, pc[p]["hand"] = "off",
         Goto(p, "main", l), l # "dead", Alive(p),
         NEW q \in Guards
  PROVE  /\ pc'[p]["main"] = l /\ pc'[p]["hand"] = "off"
         /\ FrameInv(p, "hand")'
         /\ Alive(q)' <=> Alive(q)
<1>1. /\ pc'[p]["main"] = l /\ pc'[p]["hand"] = "off"
      /\ \A r \in Guards \ {p} : pc'[r] = pc[r]
  BY GotoFacts DEF Frames
<1>2. QED BY <1>1 DEF FrameInv, Owning, Alive

\* Steps of main that change neither the shared state nor the guard's flags
\* and record, and leave main outside the labels that promise something.
LEMMA QuietMove ==
  ASSUME TypeOK, IInv, NEW p \in Guards, NEW l \in {"idle", "restore", "assign"},
         UNCHANGED <<rec, dev, opCap, file, aside, armed, published, owing, st>>,
         pc[p]["hand"] = "off", Alive(p), Goto(p, "main", l),
         l = "assign" => Armed(p) /\ call'[p] \in {"clocks", "power"}
  PROVE  StepKeeps(p)
<1>1. /\ pc'[p]["main"] = l /\ pc'[p]["hand"] = "off" /\ FrameInv(p, "hand")'
      /\ \A q \in Guards : Alive(q)' <=> Alive(q)
  BY MainFrame
<1>2. FileInv' /\ RecoveryInv' BY <1>1, SharedQuiet DEF SamePeople
<1>3. ArmedInv(p) /\ DisarmedInv(p) BY DEF IInv, GuardInv
<1>4. ArmedInv(p)' /\ DisarmedInv(p)' /\ ArmingInv(p)'
  BY <1>1, <1>3
     DEF ArmedInv, DisarmedInv, ArmingInv, Armed, Outstanding, Clear, Settled, Arming
<1>5. WriterInv(p)' BY <1>1 DEF WriterInv, At, InHandler, Arming
<1>6. FrameInv(p, "main")' BY <1>1 DEF FrameInv, Owning, Armed
<1>7. QED BY <1>1, <1>2, <1>4, <1>5, <1>6 DEF StepKeeps, GuardInv, Frames

LEMMA CallsKeep ==
  ASSUME TypeOK, IInv, UNCHANGED rec, NEW p \in Guards,
         CallWriter(p) \/ RefuseWrite(p) \/ CallRestore(p) \/ CallExit(p)
  PROVE  StepKeeps(p)
<1>1. /\ UNCHANGED <<dev, opCap, file, aside, armed, published, owing, st>>
      /\ pc[p]["hand"] = "off" /\ Alive(p)
  BY DEF CallWriter, RefuseWrite, CallRestore, CallExit, At, InHandler, Alive,
         sharedVars, flags
<1>2. CASE CallWriter(p)
  <2>1. Armed(p) /\ Goto(p, "main", "assign") /\ call'[p] \in {"clocks", "power"}
    BY <1>2 DEF CallWriter, TypeOK, GuardTypeOK
  <2>2. QED BY <1>1, <2>1, QuietMove
<1>3. CASE RefuseWrite(p) BY <1>1, <1>3, QuietMove DEF RefuseWrite, MainReturns
<1>4. CASE CallRestore(p) BY <1>1, <1>4, QuietMove DEF CallRestore
<1>5. CASE CallExit(p)
  <2>1. PICK l \in {"idle", "restore"} : Goto(p, "main", l) BY <1>5 DEF CallExit
  <2>2. QED BY <1>1, <2>1, QuietMove
<1>6. QED BY <1>2, <1>3, <1>4, <1>5

LEMMA CheckKeeps ==
  ASSUME TypeOK, IInv, UNCHANGED rec, NEW p \in Guards, CheckNotBusy(p)
  PROVE  StepKeeps(p)
<1>1. /\ UNCHANGED <<dev, opCap, file, aside, armed, published, owing, st>>
      /\ pc[p]["hand"] = "off" /\ Alive(p) /\ ~Armed(p) /\ ~Outstanding
      /\ file.status # "unreadable" /\ Goto(p, "main", "checked")
  BY DEF CheckNotBusy, NotBusy, At, InHandler, Alive, sharedVars, flags, Outstanding
<1>2. call'[p] # "exit" BY DEF CheckNotBusy, TypeOK, GuardTypeOK
<1>3. /\ pc'[p]["main"] = "checked" /\ pc'[p]["hand"] = "off" /\ FrameInv(p, "hand")'
      /\ \A q \in Guards : Alive(q)' <=> Alive(q)
  BY <1>1, MainFrame
<1>4. FileInv' /\ RecoveryInv' BY <1>1, <1>3, SharedQuiet DEF SamePeople
<1>5. DisarmedInv(p) BY DEF IInv, GuardInv
<1>6. ArmedInv(p)' /\ DisarmedInv(p)' /\ ArmingInv(p)'
  BY <1>1, <1>3, <1>5 DEF ArmedInv, DisarmedInv, ArmingInv, Armed, Outstanding
<1>7. WriterInv(p)' /\ FrameInv(p, "main")'
  BY <1>2, <1>3 DEF WriterInv, At, InHandler, Arming, FrameInv, Owning
<1>8. QED BY <1>1, <1>3, <1>4, <1>6, <1>7 DEF StepKeeps, GuardInv, Frames

LEMMA SnapshotKeeps ==
  ASSUME Premises, TypeOK, IInv, UNCHANGED rec, NEW p \in Guards, TakeSnapshot(p)
  PROVE  StepKeeps(p)
<1>1. /\ UNCHANGED <<dev, opCap, file, aside, armed, owing, call>>
      /\ published' = published \ {p}
      /\ pc[p]["hand"] = "off" /\ Alive(p) /\ Arming(p)
      /\ Goto(p, "main", "built")
  BY DEF TakeSnapshot, At, InHandler, Alive, Arming, sharedVars
<1>2. ~Armed(p) /\ ~Outstanding /\ Clear /\ file.status # "unreadable"
  BY <1>1, OneArming
<1>3. PICK snap : st'[p] = Claim(p, snap) /\ (~aside => snap \in {opCap, NoCap})
  <2>1. PICK read \in SnapshotReads : st' = [st EXCEPT ![p] = Claim(p, RestoreTarget(read))]
    BY DEF TakeSnapshot
  <2>2. ~aside => RestoreTarget(read) \in {opCap, NoCap}
    BY <1>2 DEF RestoreTarget, Premises, Clear, Settled
  <2>3. QED BY <2>1, <2>2 DEF TypeOK, GuardTypeOK
<1>4. /\ pc'[p]["main"] = "built" /\ pc'[p]["hand"] = "off" /\ FrameInv(p, "hand")'
      /\ \A q \in Guards : Alive(q)' <=> Alive(q)
  BY <1>1, MainFrame
<1>5. FileInv' /\ RecoveryInv' BY <1>1, <1>4, SharedQuiet DEF SamePeople
<1>6. DisarmedInv(p) /\ WriterInv(p) BY DEF IInv, GuardInv
<1>7. ArmedInv(p)' /\ DisarmedInv(p)'
  BY <1>1, <1>2, <1>6 DEF ArmedInv, DisarmedInv, Armed
<1>8. ArmingInv(p)'
  BY <1>1, <1>2, <1>3, ClaimFields DEF ArmingInv, Outstanding
<1>9. WriterInv(p)' /\ FrameInv(p, "main")'
  BY <1>1, <1>4, <1>6 DEF WriterInv, At, InHandler, Arming, FrameInv, Owning
<1>10. QED BY <1>1, <1>4, <1>5, <1>7, <1>8, <1>9 DEF StepKeeps, GuardInv, Frames

LEMMA PublishKeeps ==
  ASSUME TypeOK, IInv, UNCHANGED rec, NEW p \in Guards, Publish(p)
  PROVE  StepKeeps(p)
<1>1. /\ UNCHANGED <<dev, opCap, aside, owing, st>>
      /\ pc[p]["main"] = "built" /\ pc[p]["hand"] = "off" /\ Alive(p) /\ Arming(p)
  BY DEF Publish, At, InHandler, Alive, Arming
<1>2. /\ ~Outstanding /\ Clear /\ ~Recovering BY <1>1, OneArming
<1>3. /\ st[p] \in Record /\ st[p].pid = p /\ ~st[p].restored
      /\ ~st[p].power /\ ~st[p].clocks
      /\ ~aside => st[p].snap \in {opCap, NoCap}
  BY <1>1 DEF IInv, GuardInv, ArmingInv, TypeOK, GuardTypeOK
<1>4. CASE Succeeds /\ WriteState(st[p]) /\ published' = published \cup {p}
           /\ armed' = armed \cup {p} /\ UNCHANGED call
           /\ Goto(p, "main", IF call[p] = "none" THEN "idle" ELSE "assign")
  <2>1. /\ file'.status = "ok" /\ file'.rec = st[p] /\ Armed(p)' /\ p \in published'
    BY <1>4 DEF WriteState, Armed
  <2>2. PICK l \in {"idle", "assign"} : /\ Goto(p, "main", l)
                                        /\ l = "assign" => call[p] # "none"
    BY <1>4
  <2>3. /\ pc'[p]["main"] = l /\ pc'[p]["hand"] = "off" /\ FrameInv(p, "hand")'
        /\ \A q \in Guards : Alive(q)' <=> Alive(q)
    BY <1>1, <2>2, MainFrame
  <2>4. RecoveryInv' BY <1>2 DEF RecoveryInv, Recovering
  <2>5. FileInv'
    BY <1>1, <1>2, <1>3, <2>1
       DEF IInv, FileInv, Outstanding, Clear, Settled, IntentNamed, Recoverable
  <2>6. ArmedInv(p)' /\ DisarmedInv(p)' /\ ArmingInv(p)'
    BY <1>1, <1>2, <1>3, <2>1, <2>3
       DEF ArmedInv, DisarmedInv, ArmingInv, Arming, Outstanding, Clear, Settled
  <2>7. l = "assign" => call[p] \in {"clocks", "power"}
    BY <1>1, <2>2 DEF IInv, GuardInv, WriterInv, TypeOK, GuardTypeOK, Calls
  <2>8. WriterInv(p)' BY <1>4, <2>3, <2>7 DEF WriterInv, At, InHandler, Arming
  <2>9. FrameInv(p, "main")' BY <2>1, <2>3 DEF FrameInv
  <2>10. QED BY <1>1, <2>3, <2>4, <2>5, <2>6, <2>8, <2>9 DEF StepKeeps, GuardInv, Frames
<1>5. CASE Fails /\ MainReturns(p) /\ UNCHANGED <<file, published, armed>>
  BY <1>1, <1>5, QuietMove DEF MainReturns
<1>6. QED BY <1>4, <1>5 DEF Publish

\* The intent is in self.state, the record on disk is as it was.
LEMMA AssignKeeps ==
  ASSUME TypeOK, IInv, UNCHANGED rec, NEW p \in Guards, AssignIntent(p)
  PROVE  StepKeeps(p)
<1>1. /\ UNCHANGED <<dev, opCap, file, aside, armed, published, owing, call>>
      /\ pc[p]["main"] = "assign" /\ pc[p]["hand"] = "off" /\ Alive(p)
      /\ Goto(p, "main", "mark")
  BY DEF AssignIntent, At, InHandler, Alive, sharedVars, flags
<1>2. Armed(p) /\ call[p] \in {"clocks", "power"}
  BY <1>1 DEF IInv, GuardInv, FrameInv, WriterInv, Running, InHandler, Owning, Frames
<1>3. st'[p] = WithIntent(st[p], call[p])
  BY DEF AssignIntent, TypeOK, GuardTypeOK
<1>4. /\ st'[p].pid = st[p].pid /\ st'[p].snap = st[p].snap
      /\ st'[p].restored = st[p].restored
      /\ st[p].clocks \/ call[p] = "clocks" => st'[p].clocks
      /\ st[p].power \/ call[p] = "power" => st'[p].power
  BY <1>2, <1>3, IntentFields, HolderKnows
<1>5. /\ pc'[p]["main"] = "mark" /\ pc'[p]["hand"] = "off" /\ FrameInv(p, "hand")'
      /\ \A q \in Guards : Alive(q)' <=> Alive(q)
  BY <1>1, MainFrame
<1>6. FileInv' /\ RecoveryInv' BY <1>1, <1>5, SharedQuiet DEF SamePeople
<1>7. ArmedInv(p) BY DEF IInv, GuardInv
<1>8. ArmedInv(p)' /\ DisarmedInv(p)' /\ ArmingInv(p)'
  BY <1>1, <1>2, <1>4, <1>5, <1>7
     DEF ArmedInv, DisarmedInv, ArmingInv, Armed, Outstanding, Clear, Settled, Arming
<1>9. WriterInv(p)' /\ FrameInv(p, "main")'
  BY <1>1, <1>2, <1>4, <1>5 DEF WriterInv, At, InHandler, Arming, FrameInv, Armed
<1>10. QED BY <1>1, <1>5, <1>6, <1>8, <1>9 DEF StepKeeps, GuardInv, Frames

LEMMA MarkKeeps ==
  ASSUME TypeOK, IInv, UNCHANGED rec, NEW p \in Guards, MarkTouched(p)
  PROVE  StepKeeps(p)
<1>1. /\ UNCHANGED <<dev, opCap, aside, armed>>
      /\ pc[p]["main"] = "mark" /\ pc[p]["hand"] = "off" /\ Alive(p)
      /\ At(p, "main", "mark")
  BY DEF MarkTouched, At, InHandler, Alive
<1>2. Armed(p)
  BY <1>1 DEF IInv, GuardInv, FrameInv, Running, InHandler, Owning, Frames
<1>3. /\ st' = [st EXCEPT ![p] = Touched(@)] /\ owing' = owing \cup {p}
  BY <1>2 DEF MarkTouched
<1>4. st'[p] = Touched(st[p]) BY <1>3 DEF TypeOK, GuardTypeOK
<1>5. /\ Touched(st[p]) \in Record
      /\ Touched(st[p]).pid = p /\ Touched(st[p]).snap = st[p].snap
      /\ Touched(st[p]).clocks = st[p].clocks /\ Touched(st[p]).power = st[p].power
      /\ ~Touched(st[p]).restored
  BY <1>2, HolderKnows, RecordFields, RecordUpdates
<1>6. ArmedInv(p) /\ WriterInv(p) BY DEF IInv, GuardInv
<1>7. call[p] \in {"clocks", "power"} BY <1>1, <1>6 DEF WriterInv
<1>8. CASE WriteState(Touched(st[p])) /\ published' = published \cup {p}
           /\ Goto(p, "main", "nvml") /\ UNCHANGED call
  <2>1. /\ pc'[p]["main"] = "nvml" /\ pc'[p]["hand"] = "off" /\ FrameInv(p, "hand")'
        /\ \A q \in Guards : Alive(q)' <=> Alive(q)
    BY <1>1, <1>8, MainFrame
  <2>2. file'.status = "ok" /\ file'.rec = Touched(st[p]) BY <1>8 DEF WriteState
  <2>3. FileInv' /\ RecoveryInv'
    BY <1>1, <1>2, <1>5, <1>8, <2>1, HolderWrites, HolderKnows DEF SamePeople
  <2>4. ArmedInv(p)' /\ DisarmedInv(p)' /\ ArmingInv(p)'
    BY <1>1, <1>2, <1>3, <1>4, <1>5, <1>6, <1>8, <2>1, <2>2
       DEF ArmedInv, DisarmedInv, ArmingInv, Armed, Outstanding, Clear, Settled, Arming
  <2>5. WriterInv(p)' /\ FrameInv(p, "main")'
    BY <1>1, <1>2, <1>3, <1>4, <1>5, <1>6, <1>7, <1>8, <2>1, <2>2
       DEF WriterInv, At, InHandler, Arming, FrameInv, Armed
  <2>6. QED BY <1>2, <2>1, <2>3, <2>4, <2>5 DEF StepKeeps, GuardInv, Frames
<1>9. CASE MainReturns(p) /\ UNCHANGED <<file, published>>
  <2>1. Goto(p, "main", "idle") BY <1>9 DEF MainReturns
  <2>2. /\ pc'[p]["main"] = "idle" /\ pc'[p]["hand"] = "off" /\ FrameInv(p, "hand")'
        /\ \A q \in Guards : Alive(q)' <=> Alive(q)
    BY <1>1, <2>1, MainFrame
  <2>3. FileInv' /\ RecoveryInv' BY <1>1, <1>9, <2>2, SharedQuiet DEF SamePeople
  <2>4. ArmedInv(p)' /\ DisarmedInv(p)' /\ ArmingInv(p)'
    BY <1>1, <1>2, <1>3, <1>4, <1>5, <1>6, <1>9, <2>2
       DEF ArmedInv, DisarmedInv, ArmingInv, Armed, Outstanding, Clear, Settled, Arming
  <2>5. WriterInv(p)' /\ FrameInv(p, "main")'
    BY <2>2 DEF WriterInv, At, InHandler, Arming, FrameInv, Owning
  <2>6. QED BY <1>2, <2>2, <2>3, <2>4, <2>5 DEF StepKeeps, GuardInv, Frames
<1>10. QED BY <1>2, <1>8, <1>9 DEF MarkTouched

\* The hardware is touched only in ways the record on disk already names.
LEMMA HardwareKeeps ==
  ASSUME TypeOK, IInv, UNCHANGED rec, NEW p \in Guards, HardwareWrite(p)
  PROVE  StepKeeps(p)
<1>1. /\ UNCHANGED <<opCap, file, aside, armed, published, owing, st>>
      /\ pc[p]["main"] = "nvml" /\ pc[p]["hand"] = "off" /\ Alive(p)
      /\ At(p, "main", "nvml") /\ Goto(p, "main", "idle")
  BY DEF HardwareWrite, MainReturns, At, InHandler, Alive, flags
<1>2. Armed(p) /\ p \in owing
  BY <1>1 DEF IInv, GuardInv, FrameInv, Running, InHandler, Owning, Frames
<1>3. /\ call[p] \in {"clocks", "power"}
      /\ call[p] = "clocks" => st[p].clocks /\ file.rec.clocks
      /\ call[p] = "power" => st[p].power /\ file.rec.power
  BY <1>1 DEF IInv, GuardInv, WriterInv
<1>4. \/ dev' = dev
      \/ call[p] = "clocks" /\ dev'.cap = dev.cap
      \/ call[p] = "power" /\ dev'.locked = dev.locked
  BY <1>3 DEF HardwareWrite, CapSet, TypeOK, SharedTypeOK, Device
<1>5. /\ dev'.locked /\ ~aside => file.rec.clocks /\ st[p].clocks
      /\ dev'.cap # opCap /\ ~aside => file.rec.power
  BY <1>2, <1>3, <1>4, HolderKnows
<1>6. /\ pc'[p]["main"] = "idle" /\ pc'[p]["hand"] = "off" /\ FrameInv(p, "hand")'
      /\ \A q \in Guards : Alive(q)' <=> Alive(q)
  BY <1>1, MainFrame
<1>7. FileInv' /\ RecoveryInv'
  BY <1>1, <1>2, <1>5, <1>6, HolderTouches DEF SamePeople
<1>8. ArmedInv(p) BY DEF IInv, GuardInv
<1>9. ArmedInv(p)' /\ DisarmedInv(p)' /\ ArmingInv(p)'
  BY <1>1, <1>2, <1>5, <1>6, <1>8
     DEF ArmedInv, DisarmedInv, ArmingInv, Armed, Outstanding, Clear, Settled, Arming
<1>10. WriterInv(p)' /\ FrameInv(p, "main")'
  BY <1>6 DEF WriterInv, At, InHandler, Arming, FrameInv, Owning
<1>11. QED BY <1>2, <1>6, <1>7, <1>9, <1>10 DEF StepKeeps, GuardInv, Frames

-----------------------------------------------------------------------------
(* signals and process death *)

\* The handler starts with a first look at the guard.
LEMMA SignalKeeps ==
  ASSUME TypeOK, IInv, UNCHANGED rec, NEW p \in Guards, Signal(p)
  PROVE  StepKeeps(p)
<1>1. /\ UNCHANGED <<dev, opCap, file, aside, armed, published, owing, st, call>>
      /\ pc[p]["main"] \notin {"nvml", "dead"}
      /\ Goto(p, "hand", "restore")
  BY DEF Signal, sharedVars, flags
<1>2. /\ pc'[p]["hand"] = "restore" /\ pc'[p]["main"] = pc[p]["main"]
      /\ \A q \in Guards : Alive(q)' <=> Alive(q)
  BY <1>1, GotoFacts DEF Frames, Alive
<1>3. FileInv' /\ RecoveryInv' BY <1>1, <1>2, SharedQuiet DEF SamePeople
<1>4. ArmedInv(p) /\ DisarmedInv(p) /\ ArmingInv(p) /\ WriterInv(p) BY DEF IInv, GuardInv
<1>5. ArmedInv(p)' /\ DisarmedInv(p)' /\ ArmingInv(p)'
  BY <1>1, <1>2, <1>4
     DEF ArmedInv, DisarmedInv, ArmingInv, Armed, Outstanding, Clear, Settled, Arming
<1>6. WriterInv(p)' BY <1>1, <1>2, <1>4 DEF WriterInv, At, InHandler, Arming
<1>7. FrameInv(p, "main")' /\ FrameInv(p, "hand")'
  BY <1>2 DEF FrameInv, Running, InHandler, Owning
<1>8. QED BY <1>1, <1>3, <1>5, <1>6, <1>7 DEF StepKeeps, GuardInv, Frames

\* An unwound process keeps its claim and forgets its place.
LEMMA UnwindKeeps ==
  ASSUME TypeOK, IInv, UNCHANGED rec, NEW p \in Guards, Alive(p),
         Unwind(p), UNCHANGED <<sharedVars, flags, st>>
  PROVE  StepKeeps(p)
<1>1. UNCHANGED <<dev, opCap, file, aside, armed, published, owing, st>>
  BY DEF sharedVars, flags
<1>2. /\ pc'[p]["main"] = "idle" /\ pc'[p]["hand"] = "off"
      /\ \A q \in Guards : Alive(q)' <=> Alive(q)
  BY UnwindFacts DEF Alive
<1>3. FileInv' /\ RecoveryInv' BY <1>1, <1>2, SharedQuiet DEF SamePeople
<1>4. ArmedInv(p) /\ DisarmedInv(p) BY DEF IInv, GuardInv
<1>5. ArmedInv(p)' /\ DisarmedInv(p)' /\ ArmingInv(p)'
  BY <1>1, <1>2, <1>4
     DEF ArmedInv, DisarmedInv, ArmingInv, Armed, Outstanding, Clear, Settled, Arming, Alive
<1>6. WriterInv(p)' BY <1>2 DEF WriterInv, At, InHandler, Arming
<1>7. FrameInv(p, "main")' /\ FrameInv(p, "hand")' BY <1>2 DEF FrameInv, Owning
<1>8. QED BY <1>1, <1>3, <1>5, <1>6, <1>7 DEF StepKeeps, GuardInv, Frames

\* A process dies with no recovery running; its record stays, the record of a
\* dead holder.
LEMMA DeathKeeps ==
  ASSUME TypeOK, IInv, UNCHANGED rec, NobodyDies, NEW p \in Guards, Alive(p), Dies(p)
  PROVE  StepKeeps(p)
<1>1. /\ UNCHANGED <<dev, opCap, file, aside>>
      /\ p \notin armed' /\ p \notin published' /\ p \notin owing'
  BY DEF Dies, sharedVars
<1>2. /\ pc'[p]["main"] = "dead" /\ pc'[p]["hand"] = "off"
      /\ \A q \in Guards \ {p} : Kept(q)
  BY DiesFacts
<1>3. ~Recovering BY <1>2 DEF NobodyDies, Alive
<1>4. RecoveryInv' BY <1>3 DEF RecoveryInv, Recovering
<1>5. Outstanding => \/ ~Alive(file.rec.pid)'
                     \/ Armed(file.rec.pid)'
  <2>1. CASE file.rec.pid = p BY <1>1, <1>2, <2>1 DEF Alive
  <2>2. CASE file.rec.pid # p
    <3>1. Outstanding => file.rec.pid \in Guards \ {p} BY <2>2, HolderIsGuard
    <3>2. Outstanding => Armed(file.rec.pid) \/ ~Alive(file.rec.pid)
      BY DEF IInv, FileInv
    <3>3. QED BY <1>1, <1>2, <3>1, <3>2 DEF Kept, Armed, Alive
  <2>3. QED BY <2>1, <2>2
<1>6. FileInv'
  BY <1>1, <1>5
     DEF IInv, FileInv, Outstanding, Clear, Settled, IntentNamed, Recoverable, Armed, Alive
<1>7. ArmedInv(p)' /\ DisarmedInv(p)' /\ ArmingInv(p)'
  BY <1>1, <1>2 DEF ArmedInv, DisarmedInv, ArmingInv, Armed, Arming
<1>8. WriterInv(p)' BY <1>2 DEF WriterInv, At, InHandler, Arming
<1>9. FrameInv(p, "main")' /\ FrameInv(p, "hand")' BY <1>2 DEF FrameInv, Owning
<1>10. QED BY <1>1, <1>4, <1>6, <1>7, <1>8, <1>9 DEF StepKeeps, GuardInv, Frames

LEMMA OutsideKeeps ==
  ASSUME Premises, TypeOK, IInv, UNCHANGED rec, NobodyDies, NEW p \in Guards,
         SignalStep(p) \/ SignalReturns(p) \/ Terminate(p)
  PROVE  StepKeeps(p)
<1>1. CASE Signal(p) BY <1>1, SignalKeeps
<1>2. CASE DefaultSignal(p)
  <2>1. Alive(p) BY <1>2 DEF DefaultSignal, Alive
  <2>2. QED BY <1>2, <2>1, UnwindKeeps, DeathKeeps DEF DefaultSignal
<1>3. CASE Crash(p) BY <1>3, DeathKeeps DEF Crash
<1>4. CASE SignalReturns(p)
  <2>1. Alive(p)
    BY <1>4 DEF SignalReturns, At, Alive, InHandler, IInv, GuardInv, WriterInv
  <2>2. Ignored = {} BY DEF Premises
  <2>3. QED BY <1>4, <2>1, <2>2, UnwindKeeps, DeathKeeps DEF SignalReturns
<1>5. CASE Terminate(p)
  <2>1. Alive(p) BY <1>5 DEF Terminate, At, Alive
  <2>2. QED BY <1>5, <2>1, DeathKeeps DEF Terminate
<1>6. QED BY <1>1, <1>2, <1>3, <1>4, <1>5 DEF SignalStep

LEMMA GuardStepKeeps ==
  ASSUME Premises, TypeOK, IInv, UNCHANGED rec, NobodyDies, NEW p \in Guards,
         GuardStep(p)
  PROVE  StepKeeps(p)
<1>1. CASE MethodStep(p)
  BY <1>1, SnapshotKeeps, PublishKeeps, CallsKeep, AssignKeeps, MarkKeeps,
     HardwareKeeps, RestoreKeeps, OutsideKeeps DEF MethodStep
<1>2. CASE CallerStep(p) BY <1>2, CheckKeeps, CallsKeep DEF CallerStep
<1>3. CASE SignalStep(p) BY <1>3, OutsideKeeps
<1>4. QED BY <1>1, <1>2, <1>3 DEF GuardStep

\* A step of a guard process keeps the invariant of the system.
LEMMA GuardsKeep ==
  ASSUME Premises, TypeOK, IInv, UNCHANGED rec, Serial, NEW p \in Guards,
         GuardStep(p)
  PROVE  IInv'
<1>1. StepKeeps(p) BY GuardStepKeeps DEF Serial
<1>2. ASSUME NEW q \in Guards \ {p} PROVE GuardInv(q)'
  <2>1. Kept(q) BY OthersUntouched
  <2>2. UNCHANGED <<dev, opCap, file, aside>> \/ (~Armed(q) /\ ~Arming(q))
    BY <1>1, OneHolder, OneArming DEF StepKeeps
  <2>3. QED BY <2>1, <2>2, OthersKeepInv
<1>3. SerialState' BY DEF Serial, SerialState
<1>4. QED BY <1>1, <1>2, <1>3 DEF StepKeeps, IInv

-----------------------------------------------------------------------------
(* recovery and the operator *)

\* The device has been put back, in part, or left alone, so far as is known.
Mended == /\ dev'.locked => dev.locked
          /\ dev'.cap = dev.cap \/ dev'.cap = opCap \/ aside
          /\ UNCHANGED opCap

\* No guard is armed or arming.
NobodyHolds == \A p \in Guards : ~Armed(p) /\ ~Arming(p)

\* A guard whose own state stays as it is survives a device put back, and
\* anything at all while it neither holds the device nor is about to.
LEMMA GuardsLeft ==
  ASSUME TypeOK, IInv, UNCHANGED guardVars,
         (Mended /\ UNCHANGED <<file, aside>>) \/ NobodyHolds,
         NEW p \in Guards
  PROVE  GuardInv(p)'
<1>1. GuardInv(p) BY DEF IInv
<1>2. UNCHANGED <<pc, call, err, armed, published, owing, st>> BY DEF guardVars, flags
<1>3. CASE Mended /\ UNCHANGED <<file, aside>>
  <2>1. ArmedInv(p)' /\ DisarmedInv(p)' /\ ArmingInv(p)'
    BY <1>1, <1>2, <1>3
       DEF GuardInv, ArmedInv, DisarmedInv, ArmingInv, Armed, Alive, Arming,
           Outstanding, Clear, Settled, Mended
  <2>2. WriterInv(p)'
    BY <1>1, <1>2, <1>3 DEF GuardInv, WriterInv, At, InHandler, Arming
  <2>3. ASSUME NEW f \in Frames PROVE FrameInv(p, f)'
    BY <1>1, <1>2, <1>3 DEF GuardInv, FrameInv, Running, InHandler, Armed, Clear, Settled, Mended
  <2>4. QED BY <2>1, <2>2, <2>3 DEF GuardInv
<1>4. CASE NobodyHolds
  <2>1. Kept(p) BY <1>2 DEF Kept
  <2>2. QED BY <1>4, <2>1, OthersKeepInv DEF NobodyHolds
<1>5. QED BY <1>3, <1>4

\* Nobody else touches the record of a holder nobody waits for.
LEMMA DeadHolder ==
  ASSUME TypeOK, IInv, NobodyHolds, Outstanding
  PROVE  file.rec.pid \in Guards /\ ~Alive(file.rec.pid)
BY HolderIsGuard DEF IInv, FileInv, NobodyHolds

\* A file that cannot be read is nobody's.
LEMMA UnreadableIsNobodys ==
  ASSUME IInv, file.status = "unreadable"
  PROVE  NobodyHolds /\ ~Outstanding /\ Corruptible /\ rec.pc # "publish"
<1>1. ~Outstanding /\ Corruptible BY DEF IInv, FileInv
<1>2. NobodyHolds
  BY DEF IInv, GuardInv, ArmedInv, ArmingInv, NobodyHolds
<1>3. rec.pc # "publish" BY DEF IInv, RecoveryInv, Recovering
<1>4. QED BY <1>1, <1>2, <1>3

\* A run begins with what the file says, or moves aside what it cannot read.
LEMMA BeginKeeps ==
  ASSUME TypeOK, IInv, BeginRecovery
  PROVE  /\ UNCHANGED <<dev, opCap, guardVars>> /\ FileInv' /\ RecoveryInv'
         /\ \/ UNCHANGED <<file, aside>>
            \/ NobodyHolds /\ file.status = "unreadable" /\ Quarantine
<1>1. UNCHANGED <<dev, opCap, guardVars>> BY DEF BeginRecovery
<1>2. PICK switch \in Switches, mine \in IdentityReads :
        LET held == file.status = "ok" /\ mine
        IN  \/ file.status = "unreadable" /\ Quarantine /\ rec' = Run(switch, held, FALSE)
            \/ UNCHANGED <<file, aside>> /\ rec' = Run(switch, held, TRUE)
            \/ /\ UNCHANGED <<file, aside>>
               /\ rec' = Run(switch, held, file.status = "unreadable")
  BY Zenon DEF BeginRecovery
<1>3. /\ rec'.pc = "clocks"
      /\ rec'.held => file.status = "ok" /\ rec'.prior = file.rec
  <2>1. ASSUME NEW failed, rec' = Run(switch, file.status = "ok" /\ mine, failed)
        PROVE  /\ rec'.pc = "clocks"
               /\ rec'.held => file.status = "ok" /\ rec'.prior = file.rec
    BY <2>1 DEF Run
  <2>2. QED BY <1>2, <2>1
<1>4. CASE UNCHANGED <<file, aside>>
  <2>1. FileInv'
    BY <1>1, <1>4
       DEF IInv, FileInv, guardVars, flags, Outstanding, Clear, Settled, IntentNamed,
           Recoverable, Armed, Alive
  <2>2. rec'.held => rec'.prior.pid \in Guards BY <1>3 DEF IInv, FileInv
  <2>3. OwesPower' /\ rec'.prior.snap # NoCap => aside \/ rec'.prior.snap = opCap
    BY <1>3 DEF IInv, FileInv, OwesPower, Recoverable, Outstanding
  <2>4. RecoveryInv' BY <1>1, <1>3, <1>4, <2>2, <2>3 DEF RecoveryInv
  <2>5. QED BY <1>1, <1>4, <2>1, <2>4
<1>5. CASE file.status = "unreadable" /\ Quarantine
  <2>1. NobodyHolds /\ Corruptible BY <1>5, UnreadableIsNobodys
  <2>2. file'.status = "absent" /\ file'.rec.restored = TRUE /\ aside' = TRUE
    BY <1>5 DEF Quarantine, NoRecord
  <2>3. FileInv'
    BY <2>1, <2>2 DEF FileInv, Outstanding, Clear, IntentNamed, Recoverable
  <2>4. ~rec'.held BY <1>3, <1>5
  <2>5. RecoveryInv' BY <1>3, <2>2, <2>4 DEF RecoveryInv, OwesPower, Outstanding
  <2>6. QED BY <1>1, <1>5, <2>1, <2>3, <2>5
<1>6. QED BY <1>2, <1>4, <1>5

\* The fields a step of a run leaves.
LEMMA AdvancedFields ==
  ASSUME TypeOK, NEW l, NEW e, rec' = Advanced(l, e)
  PROVE  /\ rec'.pc = l /\ rec'.held = rec.held /\ rec'.prior = rec.prior
         /\ rec'.force = rec.force /\ rec'.err = (rec.err \/ e)
BY DEF Advanced, TypeOK, RecoveryTypeOK, RecoveryRun

\* What a mended device does to the invariant of the file.
LEMMA MendedFile ==
  ASSUME TypeOK, IInv, Mended, UNCHANGED <<file, aside, guardVars>>
  PROVE  FileInv'
BY DEF Mended, IInv, FileInv, guardVars, flags, Outstanding, Clear, Settled, IntentNamed,
       Recoverable, Armed, Alive

LEMMA ClocksKeep ==
  ASSUME TypeOK, IInv, RecoverClocks
  PROVE  Mended /\ UNCHANGED <<file, aside, guardVars>> /\ RecoveryInv'
<1>1. /\ Mended /\ UNCHANGED <<opCap, file, aside, guardVars>> /\ rec.pc = "clocks"
  BY DEF RecoverClocks, Mended, ClocksReset, TypeOK, SharedTypeOK, Device
<1>2. PICK e \in BOOLEAN : rec' = Advanced("power", e) /\ (~e => ~dev'.locked)
  BY DEF RecoverClocks, ClocksReset, TypeOK, SharedTypeOK, Device
<1>3. /\ rec'.pc = "power" /\ rec'.held = rec.held /\ rec'.prior = rec.prior
      /\ ~rec'.err => ~dev'.locked
  BY <1>2, AdvancedFields
<1>4. UNCHANGED pc BY <1>1 DEF guardVars
<1>5. RecoveryInv'
  BY <1>1, <1>3, <1>4
     DEF IInv, RecoveryInv, Recovering, OwesPower, Outstanding, Alive
<1>6. QED BY <1>1, <1>5

\* Only a record whose holder is dead tells recovery anything, and a forced
\* limit is one nobody is armed under.
LEMMA PowerKeeps ==
  ASSUME TypeOK, IInv, RecoverPower
  PROVE  /\ UNCHANGED <<file, aside, guardVars>> /\ FileInv' /\ RecoveryInv'
         /\ Mended \/ NobodyHolds
<1>1. /\ UNCHANGED <<file, aside, guardVars>> /\ UNCHANGED <<pc, armed>>
      /\ rec.pc = "power" /\ Recovering
  BY DEF RecoverPower, guardVars, flags, Recovering
<1>2. dev.cap \in Caps /\ dev \in Device BY DEF TypeOK, SharedTypeOK, Device
<1>3. PICK e : rec' = Advanced("check", e) BY DEF RecoverPower
<1>4. /\ rec'.pc = "check" /\ rec'.held = rec.held /\ rec'.prior = rec.prior
      /\ rec'.err = (rec.err \/ e)
  BY <1>3, AdvancedFields
\* What remains of RecoveryInv' is about a dead holder's record.
<1>5. ASSUME \/ dev'.locked = dev.locked /\ rec'.err
             \/ dev'.locked = dev.locked /\ (rec.held => aside \/ dev'.cap = opCap')
             \/ dev' = dev /\ UNCHANGED opCap /\ (~rec'.err => ~OwesPower)
      PROVE  RecoveryInv'
  <2>1. rec.held => rec.prior.pid \in Guards BY <1>1 DEF IInv, RecoveryInv
  <2>2. Outstanding /\ ~Alive(file.rec.pid) =>
          /\ rec.held => rec.prior = file.rec
          /\ ~rec.err => ~dev.locked
    BY <1>1 DEF IInv, RecoveryInv
  <2>3. Outstanding /\ rec.held /\ rec.prior = file.rec /\ ~OwesPower
          => aside \/ dev.cap = opCap
    BY DEF IInv, FileInv, IntentNamed, OwesPower, Outstanding
  <2>4. Outstanding' = Outstanding /\ Alive(file.rec.pid)' = Alive(file.rec.pid)
    BY <1>1 DEF Outstanding, Alive
  <2>5. Outstanding' /\ ~Alive(file.rec.pid)' =>
          /\ rec'.held => rec'.prior = file'.rec
          /\ ~rec'.err => ~dev'.locked
          /\ ~rec'.err /\ rec'.held => aside \/ dev'.cap = opCap'
    BY <1>1, <1>4, <1>5, <2>2, <2>3, <2>4
  <2>6. QED BY <1>1, <1>4, <2>1, <2>5 DEF RecoveryInv
<1>6. CASE dev' = dev /\ UNCHANGED opCap /\ (~rec'.err => ~OwesPower)
  <2>1. Mended BY <1>6 DEF Mended
  <2>2. QED BY <1>1, <1>5, <1>6, <2>1, MendedFile
<1>7. CASE RecordTarget # NoCap /\ CapSet(RecordTarget) /\ UNCHANGED opCap
  <2>1. RecordTarget = opCap \/ aside
    BY <1>1, <1>7 DEF RecordTarget, IInv, RecoveryInv
  <2>2. (dev'.cap = opCap' \/ aside) /\ dev'.locked = dev.locked
    BY <1>2, <1>7, <2>1 DEF CapSet, Device
  <2>3. Mended BY <1>7, <2>2 DEF Mended
  <2>4. QED BY <1>1, <1>5, <2>2, <2>3, MendedFile
<1>8. CASE RecordTarget = NoCap /\ rec.force /\ CapSet(DefaultCap) /\ opCap' = ForcedWish
  <2>1. NobodyHolds
    BY <1>1, <1>8 DEF NobodyHolds, IInv, SerialState, RecoversAlone, ForcedAlone
  <2>2. dev'.cap = DefaultCap /\ dev'.locked = dev.locked
    BY <1>2, <1>8 DEF CapSet, Device
  <2>3. rec.held => dev'.cap = opCap' BY <1>8, <2>2 DEF ForcedWish
  <2>4. RecoveryInv' BY <1>5, <2>2, <2>3
  <2>5. Outstanding /\ rec.held => rec.prior = file.rec
    BY <1>1, <2>1, DeadHolder DEF IInv, RecoveryInv
  <2>6. CASE ~rec.held /\ file.rec.power /\ Outstanding
    <3>1. opCap' = opCap BY <1>8, <2>6 DEF ForcedWish
    <3>2. FileInv'
      BY <1>1, <2>2, <2>6, <3>1
         DEF IInv, FileInv, Outstanding, Clear, Settled, IntentNamed, Recoverable, Armed, Alive
    <3>3. QED BY <1>1, <2>1, <2>4, <3>2
  <2>7. CASE ~(~rec.held /\ file.rec.power /\ Outstanding)
    <3>1. opCap' = DefaultCap BY <1>8, <2>7 DEF ForcedWish
    <3>2. ~(Outstanding /\ file.rec.power /\ file.rec.snap # NoCap)
      BY <1>8, <2>5, <2>7 DEF RecordTarget, OwesPower, Outstanding
    <3>3. FileInv'
      BY <1>1, <2>2, <3>1, <3>2
         DEF IInv, FileInv, Outstanding, Clear, Settled, IntentNamed, Recoverable, Armed, Alive
    <3>4. QED BY <1>1, <2>1, <2>4, <3>3
  <2>8. QED BY <2>6, <2>7
<1>9. \/ RecordTarget # NoCap /\ CapSet(RecordTarget) /\ UNCHANGED opCap
      \/ RecordTarget = NoCap /\ rec.force /\ CapSet(DefaultCap) /\ opCap' = ForcedWish
      \/ dev' = dev /\ UNCHANGED opCap /\ rec' = Advanced("check", TRUE)
      \/ dev' = dev /\ UNCHANGED opCap /\ rec' = Advanced("check", OwesPower)
  BY DEF RecoverPower
<1>10. rec' = Advanced("check", TRUE) => rec'.err BY AdvancedFields
<1>11. rec' = Advanced("check", OwesPower) => (~rec'.err => ~OwesPower)
  BY AdvancedFields
<1>12. QED BY <1>6, <1>7, <1>8, <1>9, <1>10, <1>11

\* A run that is over leaves no promise about it.
LEMMA NoRunKeeps == rec' = NoRun => RecoveryInv'
BY DEF RecoveryInv, Recovering, NoRun

LEMMA CheckHolderKeeps ==
  ASSUME TypeOK, IInv, CheckHolder
  PROVE  Mended /\ UNCHANGED <<file, aside, guardVars>> /\ RecoveryInv'
<1>1. /\ Mended /\ UNCHANGED <<dev, opCap, file, aside, guardVars>> /\ UNCHANGED pc
      /\ rec.pc = "check" /\ Recovering
  BY DEF CheckHolder, Mended, sharedVars, guardVars, Recovering
<1>2. CASE rec' = NoRun BY <1>1, <1>2, NoRunKeeps
<1>3. CASE \E probe \in PidProbes : MayClear(probe) /\ rec' = Advanced("publish", FALSE)
  <2>1. /\ rec.held /\ ~rec.err /\ file = [status |-> "ok", rec |-> rec.prior]
        /\ ~(rec.prior.pid \in Guards /\ Alive(rec.prior.pid))
    BY <1>3 DEF MayClear, PidAlive
  <2>2. rec.prior.pid \in Guards BY <1>1, <2>1 DEF IInv, RecoveryInv
  <2>3. /\ rec'.pc = "publish" /\ rec'.held = rec.held /\ rec'.prior = rec.prior
        /\ ~rec'.err
    BY <1>3, <2>1, AdvancedFields
  <2>4. Outstanding /\ ~Alive(file.rec.pid) => ~dev.locked /\ (aside \/ dev.cap = opCap)
    BY <1>1, <2>1 DEF IInv, RecoveryInv
  <2>5. RecoveryInv'
    BY <1>1, <2>1, <2>2, <2>3, <2>4
       DEF RecoveryInv, Outstanding, Alive
  <2>6. QED BY <1>1, <2>5
<1>4. QED BY <1>2, <1>3 DEF CheckHolder

\* Recovery settles a dead holder's record over a device it has put back.
LEMMA ClearedKeeps ==
  ASSUME TypeOK, IInv, PublishCleared
  PROVE  /\ UNCHANGED <<dev, opCap, aside, guardVars>> /\ FileInv' /\ RecoveryInv'
         /\ (Mended /\ UNCHANGED <<file, aside>>) \/ (NobodyHolds /\ Clear /\ Outstanding' = FALSE)
<1>1. /\ UNCHANGED <<dev, opCap, aside, guardVars>>
      /\ rec.pc = "publish" /\ rec' = NoRun /\ Recovering
  BY DEF PublishCleared, Recovering
<1>2. RecoveryInv' BY <1>1, NoRunKeeps
<1>3. CASE UNCHANGED file
  <2>1. Mended BY <1>1 DEF Mended
  <2>2. QED BY <1>1, <1>2, <1>3, <2>1, MendedFile
<1>4. CASE WriteState(Restored(rec.prior))
  <2>1. /\ rec.held /\ ~rec.err /\ file = [status |-> "ok", rec |-> rec.prior]
        /\ rec.prior.pid \in Guards /\ ~Alive(rec.prior.pid)
    BY <1>1 DEF IInv, RecoveryInv
  <2>2. Clear
    <3>1. CASE Outstanding BY <1>1, <2>1, <3>1 DEF IInv, RecoveryInv, Clear, Settled
    <3>2. CASE ~Outstanding BY <2>1, <3>2 DEF IInv, FileInv
    <3>3. QED BY <3>1, <3>2
  <2>3. /\ Restored(rec.prior).pid = rec.prior.pid /\ Restored(rec.prior).restored = TRUE
    <3>1. rec.prior \in Record BY DEF TypeOK, RecoveryTypeOK, RecoveryRun
    <3>2. QED BY <3>1 DEF Restored, Record
  <2>4. file'.status = "ok" /\ file'.rec = Restored(rec.prior)
    BY <1>4 DEF WriteState
  <2>5. FileInv'
    BY <1>1, <2>1, <2>2, <2>3, <2>4
       DEF IInv, FileInv, Outstanding, Clear, Settled, IntentNamed, Recoverable
  <2>6. NobodyHolds
    BY <1>1, OneHolder DEF NobodyHolds, IInv, SerialState, RecoversAlone
  <2>7. Outstanding' = FALSE BY <2>3, <2>4 DEF Outstanding
  <2>8. QED BY <1>1, <1>2, <2>2, <2>5, <2>6, <2>7
<1>5. QED BY <1>3, <1>4 DEF PublishCleared

LEMMA RecoveryKeeps ==
  ASSUME TypeOK, IInv, Serial, RecoveryNext
  PROVE  IInv'
<1>1. SerialState' BY DEF Serial, SerialState
<1>2. CASE BeginRecovery
  <2>1. /\ UNCHANGED <<dev, opCap, guardVars>> /\ FileInv' /\ RecoveryInv'
        /\ UNCHANGED <<file, aside>> \/ NobodyHolds
    BY <1>2, BeginKeeps
  <2>2. Mended BY <2>1 DEF Mended
  <2>3. QED BY <1>1, <2>1, <2>2, GuardsLeft DEF IInv
<1>3. CASE RecoverClocks BY <1>1, <1>3, ClocksKeep, MendedFile, GuardsLeft DEF IInv
<1>4. CASE RecoverPower BY <1>1, <1>4, PowerKeeps, GuardsLeft DEF IInv
<1>5. CASE CheckHolder BY <1>1, <1>5, CheckHolderKeeps, MendedFile, GuardsLeft DEF IInv
<1>6. CASE PublishCleared BY <1>1, <1>6, ClearedKeeps, GuardsLeft DEF IInv
<1>7. CASE RecoveryDies
  <2>1. Mended /\ UNCHANGED <<file, aside, guardVars>> /\ rec' = NoRun
    BY <1>7 DEF RecoveryDies, Mended
  <2>2. QED BY <1>1, <2>1, NoRunKeeps, MendedFile, GuardsLeft DEF IInv
<1>8. QED BY <1>2, <1>3, <1>4, <1>5, <1>6, <1>7 DEF RecoveryNext, RecoveryStep

LEMMA OperatorKeeps ==
  ASSUME TypeOK, IInv, Serial, OperatorSetsCap
  PROVE  IInv'
<1>1. SerialState' BY DEF Serial, SerialState
<1>2. UNCHANGED <<file, aside, guardVars, rec>> /\ ~Outstanding /\ ~Recovering
  BY DEF OperatorSetsCap, Unattended
<1>3. Clear' BY <1>2 DEF OperatorSetsCap, CapSet, IInv, FileInv, Clear, Settled, TypeOK,
                          SharedTypeOK, Device
<1>4. FileInv' BY <1>2, <1>3 DEF IInv, FileInv, Outstanding, IntentNamed, Recoverable
<1>5. RecoveryInv' BY <1>2 DEF RecoveryInv, Recovering
<1>6. NobodyHolds BY DEF OperatorSetsCap, Unattended, NobodyHolds
<1>7. QED BY <1>1, <1>2, <1>4, <1>5, <1>6, GuardsLeft DEF IInv

\* Damage befalls a file nobody holds.
LEMMA CorruptKeeps ==
  ASSUME TypeOK, IInv, Serial, CorruptFile
  PROVE  IInv'
<1>1. SerialState' BY DEF Serial, SerialState
<1>2. /\ UNCHANGED <<dev, opCap, aside, guardVars, rec>>
      /\ Corruptible /\ ~Recovering
      /\ file' = [status |-> "unreadable", rec |-> NoRecord]
  BY DEF CorruptFile, Unattended
<1>3. file'.status = "unreadable" /\ file'.rec.restored = TRUE
  BY <1>2 DEF NoRecord
<1>4. FileInv' BY <1>2, <1>3 DEF FileInv, Outstanding, IntentNamed, Recoverable
<1>5. RecoveryInv' BY <1>2 DEF RecoveryInv, Recovering
<1>6. NobodyHolds BY DEF CorruptFile, Unattended, NobodyHolds
<1>7. QED BY <1>1, <1>2, <1>4, <1>5, <1>6, GuardsLeft DEF IInv

-----------------------------------------------------------------------------
(* The invariant, and the properties that follow *)

LEMMA InitIInv == Init => IInv
<1> SUFFICES ASSUME Init PROVE IInv OBVIOUS
<1>1. /\ dev.locked = FALSE /\ dev.cap = opCap /\ file.status = "absent"
      /\ file.rec = NoRecord /\ aside = FALSE /\ rec = NoRun
      /\ armed = {} /\ published = {} /\ owing = {}
  BY DEF Init, SharedInit, GuardInit, RecoveryInit
<1>2. \A p \in Guards : pc[p]["main"] = "idle" /\ pc[p]["hand"] = "off"
  BY DEF Init, GuardInit, Frames
<1>3. ~Outstanding /\ Clear /\ ~Recovering
  BY <1>1 DEF Outstanding, Clear, Settled, Recovering, NoRecord, NoRun
<1>4. SerialState
  BY <1>1, <1>2, <1>3
     DEF SerialState, ArmsAlone, RecoversAlone, ForcedAlone, Arming
<1>5. FileInv BY <1>1, <1>3 DEF FileInv, IntentNamed, Recoverable
<1>6. RecoveryInv BY <1>3 DEF RecoveryInv
<1>7. ASSUME NEW p \in Guards PROVE GuardInv(p)
  <2>1. ArmedInv(p) /\ DisarmedInv(p) /\ ArmingInv(p)
    BY <1>1, <1>2 DEF ArmedInv, DisarmedInv, ArmingInv, Armed, Arming
  <2>2. WriterInv(p) BY <1>2 DEF WriterInv, At, InHandler, Arming
  <2>3. FrameInv(p, "main") /\ FrameInv(p, "hand") BY <1>2 DEF FrameInv, Owning
  <2>4. QED BY <2>1, <2>2, <2>3 DEF GuardInv, Frames
<1>8. QED BY <1>4, <1>5, <1>6, <1>7 DEF IInv

LEMMA NextIInv ==
  ASSUME Premises
  PROVE  TypeOK /\ IInv /\ [SerialNext]_vars => IInv'
<1> SUFFICES ASSUME TypeOK, IInv, [SerialNext]_vars PROVE IInv' OBVIOUS
<1>1. CASE SerialNext
  <2>1. Serial BY <1>1 DEF SerialNext
  <2>2. CASE \E p \in Guards : GuardStep(p) /\ UNCHANGED rec BY <2>1, <2>2, GuardsKeep
  <2>3. CASE RecoveryNext BY <2>1, <2>3, RecoveryKeeps
  <2>4. CASE OperatorSetsCap BY <2>1, <2>4, OperatorKeeps
  <2>5. CASE CorruptFile BY <2>1, <2>5, CorruptKeeps
  <2>6. QED BY <1>1, <2>2, <2>3, <2>4, <2>5 DEF SerialNext, Next
<1>2. CASE UNCHANGED vars
  <2>1. UNCHANGED <<dev, opCap, file, aside, guardVars, rec>>
    BY <1>2 DEF vars, sharedVars
  <2>2. UNCHANGED <<pc, armed>> BY <2>1 DEF guardVars, flags
  <2>3. Mended BY <2>1 DEF Mended
  <2>4. FileInv' /\ RecoveryInv' BY <2>1, <2>2, SharedQuiet DEF SamePeople, Alive
  <2>5. SerialState'
    BY <2>1, <2>2 DEF IInv, SerialState, ArmsAlone, RecoversAlone, ForcedAlone, Arming,
                      Armed, Recovering
  <2>6. QED BY <2>1, <2>3, <2>4, <2>5, GuardsLeft DEF IInv
<1>3. QED BY <1>1, <1>2

\* The inductive invariant holds of the serialized system.
THEOREM Inductive == ASSUME Premises PROVE SerialSpec => []IInv
<1>1. TypeOK /\ IInv /\ [SerialNext]_vars => IInv' BY NextIInv
<1>2. QED BY <1>1, InitIInv, SerialTypeCorrect, PTL DEF SerialSpec

\* The device never differs from what the operator left without evidence.
THEOREM EvidenceHolds == ASSUME Premises PROVE SerialSpec => []Evidence
<1>1. IInv => Evidence BY DEF IInv, FileInv, Clear, Settled, Evidence, Modified
<1>2. QED BY <1>1, Inductive, PTL

\* The outstanding record names every change, until one was lost to damage.
THEOREM IntentNamedHolds == ASSUME Premises PROVE SerialSpec => []IntentNamed
<1>1. IInv => IntentNamed BY DEF IInv, FileInv
<1>2. QED BY <1>1, Inductive, PTL

\* The snapshot in an outstanding record is the operator's cap, likewise.
THEOREM RecoverableHolds == ASSUME Premises PROVE SerialSpec => []Recoverable
<1>1. IInv => Recoverable BY DEF IInv, FileInv
<1>2. QED BY <1>1, Inductive, PTL

\* An armed guard's record is the one in the file, so at most one is armed.
THEOREM ArmedMeansHeldHolds == ASSUME Premises PROVE SerialSpec => []ArmedMeansHeld
<1>1. IInv => ArmedMeansHeld
  BY DEF IInv, GuardInv, ArmedInv, ArmedMeansHeld, Outstanding
<1>2. QED BY <1>1, Inductive, PTL

\* No guard takes another guard's setting for the stock one, likewise.
THEOREM SnapshotIsStockHolds == ASSUME Premises PROVE SerialSpec => []SnapshotIsStock
<1>1. IInv => SnapshotIsStock BY DEF IInv, GuardInv, ArmedInv, SnapshotIsStock
<1>2. QED BY <1>1, Inductive, PTL

-----------------------------------------------------------------------------
(* Damage *)

\* No step of a guard writes over a file that cannot be read: what writes is
\* arming, or holds a record that is in the file.
LEMMA GuardLeavesUnreadable ==
  ASSUME TypeOK, IInv, file.status = "unreadable", NEW p \in Guards, GuardStep(p)
  PROVE  UNCHANGED file
<1>1. ~Armed(p) /\ ~Arming(p) BY UnreadableIsNobodys DEF NobodyHolds
<1>2. ASSUME NEW f \in Frames, RestoreStep(p, f) PROVE UNCHANGED file
  <2>1. Running(p, f) /\ pc[p][f] \notin Owning
    BY <1>1, <1>2, RestoreControl DEF IInv, GuardInv, FrameInv
  <2>2. p \in published => st[p].restored BY <1>1 DEF IInv, GuardInv, DisarmedInv
  <2>3. CASE Surrender(p, f) BY <2>2, <2>3 DEF Surrender
  <2>4. CASE FindDebt(p, f) BY <2>4 DEF FindDebt, sharedVars
  <2>5. ~Surrender(p, f) /\ ~FindDebt(p, f) => pc[p][f] \in Owning
    BY <1>2 DEF RestoreStep, ResetClocks, RestorePower, ReportFailure, RewriteRecord,
                SettleDebt, FinishRestore, At, Owning
  <2>6. QED BY <2>1, <2>3, <2>4, <2>5
<1>3. ~Publish(p) BY <1>1 DEF Publish, At, Arming
<1>4. CASE MarkTouched(p) BY <1>1, <1>4 DEF MarkTouched
<1>5. CASE \/ TakeSnapshot(p) \/ RefuseWrite(p) \/ AssignIntent(p) \/ HardwareWrite(p)
           \/ CallerStep(p) \/ Signal(p)
  BY <1>5 DEF TakeSnapshot, RefuseWrite, AssignIntent, HardwareWrite, CallerStep,
              CheckNotBusy, CallWriter, CallRestore, CallExit, Signal, sharedVars
<1>6. CASE Dies(p) \/ UNCHANGED sharedVars BY <1>6 DEF Dies, sharedVars
<1>7. QED
  BY <1>2, <1>3, <1>4, <1>5, <1>6
     DEF GuardStep, MethodStep, SignalStep, DefaultSignal, Crash, SignalReturns, Terminate

LEMMA NextKeepsUnreadable ==
  ASSUME TypeOK, IInv, [SerialNext]_vars, file.status = "unreadable"
  PROVE  file' = file \/ (file'.status = "absent" /\ aside')
<1>1. CASE \E p \in Guards : GuardStep(p) BY <1>1, GuardLeavesUnreadable
<1>2. CASE BeginRecovery
  <2>1. CASE UNCHANGED <<file, aside>> BY <2>1
  <2>2. CASE Quarantine
    <3>1. file'.status = "absent" BY <2>2 DEF Quarantine
    <3>2. aside' BY <2>2 DEF Quarantine
    <3>3. QED BY <3>1, <3>2
  <2>3. QED BY <1>2, <2>1, <2>2, BeginKeeps
<1>3. ~PublishCleared BY UnreadableIsNobodys DEF PublishCleared
<1>4. CASE RecoverClocks \/ RecoverPower \/ CheckHolder \/ RecoveryDies
  BY <1>4 DEF RecoverClocks, RecoverPower, CheckHolder, RecoveryDies, sharedVars
<1>5. ~OperatorSetsCap /\ ~CorruptFile BY DEF OperatorSetsCap, CorruptFile
<1>6. CASE UNCHANGED vars BY <1>6 DEF vars, sharedVars
<1>7. QED
  BY <1>1, <1>2, <1>3, <1>4, <1>5, <1>6 DEF SerialNext, Next, RecoveryNext, RecoveryStep

\* Only quarantine removes a file that could not be read, and it keeps a copy.
THEOREM UnreadableKeptHolds == ASSUME Premises PROVE SerialSpec => UnreadableKept
<1>1. TypeOK /\ IInv /\ [SerialNext]_vars
        => [file.status = "unreadable" => \/ file' = file
                                          \/ file'.status = "absent" /\ aside']_vars
  BY NextKeepsUnreadable
<1>2. QED BY <1>1, Inductive, SerialTypeCorrect, PTL DEF SerialSpec, UnreadableKept

-----------------------------------------------------------------------------
(* The contract of module Custody *)

\* What a step may do to the record: while it is outstanding it is nobody
\* else's, and it is settled, or made, only over a device put back.
CustodyStep ==
  /\ Outstanding /\ Outstanding' => file'.rec.pid = file.rec.pid
  /\ Outstanding /\ ~Outstanding' => Clear
  /\ ~Outstanding /\ Outstanding' => Clear'

LEMMA FileUnchanged == UNCHANGED file => CustodyStep
BY DEF CustodyStep, Outstanding

\* restore() writes only the holder's record.
LEMMA RestoreCustody ==
  ASSUME TypeOK, IInv, NEW p \in Guards, NEW f \in Frames, RestoreStep(p, f)
  PROVE  CustodyStep
<1>1. Running(p, f) BY RestoreControl
<1>2. FrameInv(p, f) /\ DisarmedInv(p) BY DEF IInv, GuardInv
<1>3. ASSUME NEW r \in Record, Armed(p), WriteState(r), r.pid = p, r.restored => Clear
      PROVE  CustodyStep
  <2>1. Outstanding /\ file.rec.pid = p BY <1>3, OneHolder
  <2>2. file'.rec = r BY <1>3 DEF WriteState
  <2>3. QED BY <1>3, <2>1, <2>2 DEF CustodyStep, Outstanding
<1>4. CASE Surrender(p, f)
  <2>1. CASE UNCHANGED file BY <2>1, FileUnchanged
  <2>2. CASE p \in published /\ ~st[p].restored /\ p \notin owing
             /\ WriteState(Surrendered(st[p]))
    <3>1. Armed(p) BY <1>2, <2>2 DEF DisarmedInv
    <3>2. st[p] \in Record /\ st[p].pid = p /\ Clear BY <2>2, <3>1, HolderKnows
    <3>3. Surrendered(st[p]) \in Record /\ Surrendered(st[p]).pid = p
      BY <3>2, RecordUpdates, RecordFields
    <3>4. QED BY <1>3, <2>2, <3>1, <3>2, <3>3
  <2>3. QED BY <1>4, <2>1, <2>2 DEF Surrender
<1>5. CASE RewriteRecord(p, f)
  <2>1. CASE UNCHANGED file BY <2>1, FileUnchanged
  <2>2. CASE WriteState(st[p])
    <3>1. Armed(p) BY <1>1, <1>2, <1>5 DEF RewriteRecord, At, FrameInv, Owning
    <3>2. QED BY <1>3, <2>2, <3>1, HolderKnows
  <2>3. QED BY <1>5, <2>1, <2>2 DEF RewriteRecord
<1>6. CASE FinishRestore(p, f)
  <2>1. CASE UNCHANGED file BY <2>1, FileUnchanged
  <2>2. CASE WriteState(Restored(st[p]))
    <3>1. Armed(p) /\ Clear BY <1>1, <1>2, <1>6 DEF FinishRestore, At, FrameInv, Owning
    <3>2. st[p] \in Record /\ st[p].pid = p BY <3>1, HolderKnows
    <3>3. Restored(st[p]) \in Record /\ Restored(st[p]).pid = p
      BY <3>2, RecordUpdates, RecordFields
    <3>4. QED BY <1>3, <2>2, <3>1, <3>3
  <2>3. QED BY <1>6, <2>1, <2>2 DEF FinishRestore
<1>7. CASE ~(Surrender(p, f) \/ RewriteRecord(p, f) \/ FinishRestore(p, f))
  <2>1. UNCHANGED file
    BY <1>7 DEF RestoreStep, FindDebt, ResetClocks, RestorePower, ReportFailure,
                SettleDebt, sharedVars
  <2>2. QED BY <2>1, FileUnchanged
<1>8. QED BY <1>4, <1>5, <1>6, <1>7

\* arm() publishes over a settled record, _mark_touched over its own.
LEMMA PublishCustody ==
  ASSUME TypeOK, IInv, NEW p \in Guards, Publish(p)
  PROVE  CustodyStep
<1>1. CASE UNCHANGED file BY <1>1, FileUnchanged
<1>2. CASE ~UNCHANGED file
  <2>1. Arming(p) /\ UNCHANGED <<dev, opCap, aside>> BY DEF Publish, At, Arming
  <2>2. ~Outstanding /\ Clear BY <2>1, OneArming
  <2>3. QED BY <2>1, <2>2 DEF CustodyStep, Clear, Settled
<1>3. QED BY <1>1, <1>2

LEMMA MarkCustody ==
  ASSUME TypeOK, IInv, NEW p \in Guards, MarkTouched(p)
  PROVE  CustodyStep
<1>1. CASE UNCHANGED file BY <1>1, FileUnchanged
<1>2. CASE WriteState(Touched(st[p])) /\ Armed(p)
  <2>1. file.rec.pid = p /\ Outstanding BY <1>2, OneHolder
  <2>2. Touched(st[p]).pid = p /\ ~Touched(st[p]).restored
    BY <1>2, HolderKnows, RecordFields
  <2>3. file'.rec = Touched(st[p]) BY <1>2 DEF WriteState
  <2>4. QED BY <2>1, <2>2, <2>3 DEF CustodyStep, Outstanding
<1>3. QED BY <1>1, <1>2 DEF MarkTouched

LEMMA GuardCustody ==
  ASSUME TypeOK, IInv, NEW p \in Guards, GuardStep(p)
  PROVE  CustodyStep
<1>1. CASE \E f \in Frames : RestoreStep(p, f) BY <1>1, RestoreCustody
<1>2. CASE Publish(p) BY <1>2, PublishCustody
<1>3. CASE MarkTouched(p) BY <1>3, MarkCustody
<1>4. CASE Dies(p) \/ (Unwind(p) /\ UNCHANGED <<sharedVars, flags, st>>)
  BY <1>4, FileUnchanged DEF Dies, sharedVars
<1>5. CASE \/ TakeSnapshot(p) \/ RefuseWrite(p) \/ AssignIntent(p) \/ HardwareWrite(p)
           \/ CallerStep(p) \/ Signal(p)
  <2>1. UNCHANGED file
    BY <1>5 DEF TakeSnapshot, RefuseWrite, AssignIntent, HardwareWrite, CallerStep,
                CheckNotBusy, CallWriter, CallRestore, CallExit, Signal, sharedVars
  <2>2. QED BY <2>1, FileUnchanged
<1>6. CASE Goto(p, "hand", "off") /\ UNCHANGED <<sharedVars, call, err, flags, st>>
  BY <1>6, FileUnchanged DEF sharedVars
<1>7. QED
  BY <1>1, <1>2, <1>3, <1>4, <1>5, <1>6
     DEF GuardStep, MethodStep, SignalStep, DefaultSignal, Crash, SignalReturns, Terminate

LEMMA NextCustody ==
  ASSUME ~Corruptible, TypeOK, IInv, [SerialNext]_vars
  PROVE  CustodyStep
<1>1. CASE \E p \in Guards : GuardStep(p) BY <1>1, GuardCustody
<1>2. CASE BeginRecovery
  BY <1>2, BeginKeeps, UnreadableIsNobodys, FileUnchanged
<1>3. CASE PublishCleared
  <2>1. UNCHANGED file \/ (Clear /\ Outstanding' = FALSE) BY <1>3, ClearedKeeps
  <2>2. QED BY <2>1, FileUnchanged DEF CustodyStep
<1>4. CASE RecoverClocks \/ RecoverPower \/ CheckHolder \/ RecoveryDies \/ OperatorSetsCap
  BY <1>4, FileUnchanged
     DEF RecoverClocks, RecoverPower, CheckHolder, RecoveryDies, OperatorSetsCap, sharedVars
<1>5. CASE UNCHANGED vars BY <1>5, FileUnchanged DEF vars, sharedVars
<1>6. ~CorruptFile BY DEF CorruptFile
<1>7. QED
  BY <1>1, <1>2, <1>3, <1>4, <1>5, <1>6
     DEF SerialNext, Next, RecoveryNext, RecoveryStep

-----------------------------------------------------------------------------
(* The refinement *)

LEMMA InitContract == Init => Contract!Init
<1> SUFFICES ASSUME Init PROVE Contract!Init OBVIOUS
<1>1. dev.locked = FALSE /\ dev.cap = opCap /\ file.rec = NoRecord
  BY DEF Init, SharedInit
<1>2. QED BY <1>1 DEF Contract!Init, Custodian, Modified, Outstanding, NoRecord

LEMMA StepContract ==
  ASSUME ~Corruptible, TypeOK, IInv, IInv', TypeOK', CustodyStep
  PROVE  [Contract!Next]_<<Custodian, Modified>>
<1>1. /\ Outstanding => file.rec.pid \in Guards
      /\ Outstanding' => file'.rec.pid \in Guards
  <2>1. /\ file.status \in {"absent", "ok", "unreadable"}
        /\ file'.status \in {"absent", "ok", "unreadable"}
    BY DEF TypeOK, SharedTypeOK, StateFile
  <2>2. QED BY <2>1 DEF IInv, FileInv
<1>2. /\ ~Outstanding => ~Modified
      /\ ~Outstanding' => ~Modified'
  BY DEF IInv, FileInv, Clear, Settled, Modified
<1>c. ~aside /\ ~aside' BY DEF IInv, FileInv
<1>3. CASE Outstanding /\ Outstanding'
  <2>1. Custodian \in Guards /\ Custodian' = Custodian
    BY <1>1, <1>3 DEF Custodian, CustodyStep
  <2>2. Modified' \in BOOLEAN BY DEF Modified
  <2>3. Contract!Touch BY <2>1, <2>2 DEF Contract!Touch
  <2>4. QED BY <2>3 DEF Contract!Next
<1>4. CASE Outstanding /\ ~Outstanding'
  <2>1. Custodian \in Guards /\ Custodian' = NoPid BY <1>1, <1>4 DEF Custodian
  <2>2. ~Modified /\ ~Modified' BY <1>2, <1>c, <1>4 DEF CustodyStep, Clear, Settled, Modified
  <2>3. Contract!Release BY <2>1, <2>2 DEF Contract!Release, Modified
  <2>4. QED BY <2>3 DEF Contract!Next
<1>5. CASE ~Outstanding /\ Outstanding'
  <2>1. Custodian = NoPid /\ Custodian' \in Guards BY <1>1, <1>5 DEF Custodian
  <2>2. ~Modified /\ ~Modified' BY <1>2, <1>c, <1>5 DEF CustodyStep, Clear, Settled, Modified
  <2>3. Contract!Claim BY <2>1, <2>2 DEF Contract!Claim, Modified
  <2>4. QED BY <2>3 DEF Contract!Next
<1>6. CASE ~Outstanding /\ ~Outstanding'
  <2>1. Custodian = NoPid /\ Custodian' = NoPid BY <1>6 DEF Custodian
  <2>2. Modified' = Modified BY <1>2, <1>6 DEF Modified
  <2>3. QED BY <2>1, <2>2
<1>7. QED BY <1>3, <1>4, <1>5, <1>6

\* The device is somebody's to change only between a claim and a settled
\* record, and the claim passes from nobody to one guard and back.
THEOREM CustodyHolds ==
  ASSUME Premises, ~Corruptible PROVE SerialSpec => CustodyKept
<1>1. TypeOK /\ TypeOK' /\ IInv /\ IInv' /\ [SerialNext]_vars
        => [Contract!Next]_<<Custodian, Modified>>
  BY NextCustody, StepContract
<1>2. QED
  BY <1>1, InitContract, Inductive, SerialTypeCorrect, PTL
     DEF SerialSpec, CustodyKept, Contract!Spec
=============================================================================
