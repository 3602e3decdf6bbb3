------------------------------ MODULE Recovery ------------------------------
(***************************************************************************)
(* restore_from_state_file, the command an operator runs after a hard      *)
(* kill.  One run of it at a time; it is a process of its own, reads the   *)
(* record once, and interleaves with the guards between its steps:         *)
(*                                                                         *)
(*   idle -> clocks -> power -> check -> publish -> idle                   *)
(***************************************************************************)
EXTENDS GpuGuard

CONSTANTS Switches,       \* subsets of {"force", "quarantine"} an operator passes
          IdentityReads,  \* does the record name this device: what a run may read
          PidProbes       \* what os.kill(pid, 0) may say: "exact", "reused"

ASSUME RecoveryAssumption ==
  /\ Switches \subseteq SUBSET {"force", "quarantine"}
  /\ IdentityReads \subseteq BOOLEAN
  /\ PidProbes \subseteq {"exact", "reused"}

VARIABLE rec   \* label, the record it read and holds to be its own, --force, errors

RecoveryLabels == {"idle", "clocks", "power", "check", "publish"}

RecoveryRun == [pc: RecoveryLabels, prior: Record, held: BOOLEAN,
                force: BOOLEAN, err: BOOLEAN]

NoRun == [pc |-> "idle", prior |-> NoRecord, held |-> FALSE,
          force |-> FALSE, err |-> FALSE]

RecoveryTypeOK == rec \in RecoveryRun

RecoveryInit == rec = NoRun

Recovering == rec.pc # "idle"

-----------------------------------------------------------------------------
\* _pid_alive: a dead process's pid may have been given to another process.
PidAlive(pid, probe) == \/ pid \in Guards /\ Alive(pid)
                        \/ pid \in Guards /\ probe = "reused"

\* A run that has read the record: held, if it is a record of this device.
Run(switch, held, failed) ==
  [pc |-> "clocks", held |-> held, prior |-> IF held THEN file.rec ELSE NoRecord,
   force |-> "force" \in switch, err |-> failed]

\* os.replace to a name of its own: the evidence is kept beside.
Quarantine == /\ file' = [status |-> "absent", rec |-> NoRecord]
              /\ aside' = TRUE

\* Read the record; move an unreadable file aside if asked to; drop a record
\* that names another device.
BeginRecovery ==
  /\ rec.pc = "idle"
  /\ \E switch \in Switches, mine \in IdentityReads :
       LET held == file.status = "ok" /\ mine
           moves == file.status = "unreadable" /\ "quarantine" \in switch
       IN  \/ /\ moves
              /\ \/ /\ Succeeds
                    /\ Quarantine
                    /\ rec' = Run(switch, held, FALSE)
                 \/ /\ Fails
                    /\ rec' = Run(switch, held, TRUE)
                    /\ UNCHANGED <<file, aside>>
           \/ /\ ~moves
              /\ rec' = Run(switch, held, file.status = "unreadable")
              /\ UNCHANGED <<file, aside, faults>>
  /\ UNCHANGED <<dev, opCap, guardVars>>

\* The run goes on with label l, and remembers a step that failed.
Advanced(l, failed) == [rec EXCEPT !.pc = l, !.err = @ \/ failed]

\* The clock reset is unconditional.
RecoverClocks ==
  /\ rec.pc = "clocks"
  /\ \/ Succeeds /\ ClocksReset /\ rec' = Advanced("power", FALSE)
     \/ Fails /\ UNCHANGED dev /\ rec' = Advanced("power", TRUE)
  /\ UNCHANGED <<opCap, file, aside, guardVars>>

\* Mutant: the cap of a settled record is replayed.
OwesPowerStale == rec.held /\ rec.prior.power

\* A record still owes its power write only while it is unrestored.
OwesPower == /\ rec.held
             /\ rec.prior.power
             /\ ~rec.prior.restored

\* The limit the record's snapshot gives back.
RecordTarget == IF OwesPower THEN rec.prior.snap ELSE NoCap

\* A forced limit is the operator's new wish, unless this run could not hold
\* the outstanding record of a cap write.
ForcedWish == IF ~rec.held /\ file.rec.power /\ Outstanding
                THEN opCap ELSE DefaultCap

\* The record's target, else the factory limit when the operator forces it,
\* which may turn out to be unreadable, else nothing.
RecoverPower ==
  LET Continue(failed) == rec' = Advanced("check", failed)
  IN  /\ rec.pc = "power"
      /\ \/ /\ RecordTarget # NoCap
            /\ \/ Succeeds /\ CapSet(RecordTarget) /\ Continue(FALSE)
               \/ Fails /\ Continue(TRUE) /\ UNCHANGED dev
            /\ UNCHANGED opCap
         \/ /\ RecordTarget = NoCap /\ rec.force
            /\ \/ /\ Succeeds
                  /\ CapSet(DefaultCap)
                  /\ opCap' = ForcedWish
                  /\ Continue(FALSE)
               \/ /\ Fails
                  /\ Continue(TRUE)
                  /\ UNCHANGED <<dev, opCap>>
         \/ /\ RecordTarget = NoCap /\ ~rec.force
            /\ Continue(OwesPower)
            /\ UNCHANGED <<dev, opCap, faults>>
      /\ UNCHANGED <<file, aside, guardVars>>

\* Mutant: the record of a live holder is cleared.
MayClearLive(probe) ==
  /\ rec.held
  /\ file = [status |-> "ok", rec |-> rec.prior]
  /\ ~rec.err

\* Mutant: the record is cleared though a step failed.
MayClearUnpaid(probe) ==
  /\ rec.held
  /\ ~PidAlive(rec.prior.pid, probe)
  /\ file = [status |-> "ok", rec |-> rec.prior]

\* Mutant: a record whose own guard failed to restore is never cleared.
MayClearUnfailed(probe) ==
  /\ rec.held
  /\ ~PidAlive(rec.prior.pid, probe)
  /\ file = [status |-> "ok", rec |-> rec.prior]
  /\ ~rec.err
  /\ ~rec.prior.failed

\* A live holder's record, one that changed meanwhile, and one whose debt
\* could not be paid are left alone.
MayClear(probe) ==
  /\ rec.held
  /\ ~PidAlive(rec.prior.pid, probe)
  /\ file = [status |-> "ok", rec |-> rec.prior]
  /\ ~rec.err

CheckHolder ==
  /\ rec.pc = "check"
  /\ \E probe \in PidProbes :
       rec' = IF MayClear(probe) THEN Advanced("publish", FALSE) ELSE NoRun
  /\ UNCHANGED <<sharedVars, guardVars>>

\* os.replace of the settled record over whatever the file holds by now.
PublishCleared ==
  /\ rec.pc = "publish"
  /\ \/ /\ Succeeds
        /\ WriteState(Restored(rec.prior))
     \/ /\ Fails
        /\ UNCHANGED file
  /\ rec' = NoRun
  /\ UNCHANGED <<dev, opCap, aside, guardVars>>

\* The recovery command is itself killed: one more of the bounded faults.
RecoveryDies ==
  /\ Recovering
  /\ Fails
  /\ rec' = NoRun
  /\ UNCHANGED <<dev, opCap, file, aside, guardVars>>

RecoveryStep == \/ RecoverClocks
                \/ RecoverPower
                \/ CheckHolder
                \/ PublishCleared

RecoveryNext == BeginRecovery \/ RecoveryStep \/ RecoveryDies
=============================================================================
