----------------------------- MODULE GuardState -----------------------------
(***************************************************************************)
(* What the guard processes and the recovery command share: the device,    *)
(* and the state file that is the only evidence of what was done to it.    *)
(*                                                                         *)
(* The record of the file keeps the fields that decide something.  Clock   *)
(* frequencies, time stamps and messages are abstracted; the power cap is  *)
(* a member of Caps, and "snap" is the one value restore() and recovery    *)
(* derive from the snapshot: the limit read at arm time, else the default  *)
(* limit, else nothing (NoCap).                                            *)
(***************************************************************************)
EXTENDS Naturals

CONSTANTS Guards,       \* guard processes, one per pid
          NoPid,        \* the pid of a record no guard wrote
          Caps,         \* power limits the device accepts
          NoCap,        \* a limit that could not be read
          DefaultCap,   \* the device's factory limit
          MaxFaults     \* bound on failing NVML calls and file writes

ASSUME GuardStateAssumption ==
  /\ NoPid \notin Guards
  /\ NoCap \notin Caps
  /\ DefaultCap \in Caps
  /\ MaxFaults \in Nat

VARIABLES dev,      \* the device: is a clock lock applied, which cap
          opCap,    \* the cap the operator wants the device to have
          file,     \* the state file: absent, ok or unreadable, and its record
          aside,    \* is there a quarantined copy of an unreadable file
          faults    \* calls that have failed so far

sharedVars == <<dev, opCap, file, aside, faults>>

Record == [pid: Guards \cup {NoPid}, clocks: BOOLEAN, power: BOOLEAN,
           snap: Caps \cup {NoCap}, restored: BOOLEAN, failed: BOOLEAN]

\* GuardState(): what a reader takes from a file that holds no record.
NoRecord == [pid |-> NoPid, clocks |-> FALSE, power |-> FALSE,
             snap |-> NoCap, restored |-> TRUE, failed |-> FALSE]

\* The record arm() builds: a claim, and no write yet.
Claim(p, snap) == [NoRecord EXCEPT !.pid = p, !.snap = snap, !.restored = FALSE]

\* Mutant: each writer records the other's intent.
WithIntentSwapped(r, c) == IF c = "power" THEN [r EXCEPT !.clocks = TRUE]
                                          ELSE [r EXCEPT !.power = TRUE]

\* The fields each method assigns in self.state before it is written out.
WithIntent(r, c) == IF c = "clocks" THEN [r EXCEPT !.clocks = TRUE]
                                    ELSE [r EXCEPT !.power = TRUE]
Touched(r)     == [r EXCEPT !.restored = FALSE]
Surrendered(r) == [r EXCEPT !.restored = TRUE]
Incomplete(r)  == [r EXCEPT !.restored = FALSE, !.failed = TRUE]
Restored(r)    == [r EXCEPT !.restored = TRUE, !.failed = FALSE, !.clocks = FALSE]

Device == [locked: BOOLEAN, cap: Caps]

StateFile == [status: {"absent", "ok", "unreadable"}, rec: Record]

SharedTypeOK ==
  /\ dev \in Device
  /\ opCap \in Caps
  /\ file \in StateFile
  /\ aside \in BOOLEAN
  /\ faults \in 0..MaxFaults

SharedInit ==
  /\ opCap \in Caps
  /\ dev = [locked |-> FALSE, cap |-> opCap]
  /\ file = [status |-> "absent", rec |-> NoRecord]
  /\ aside = FALSE
  /\ faults = 0

-----------------------------------------------------------------------------
\* A call to the driver or to the file system either succeeds or raises.
Succeeds == UNCHANGED faults

Fails == /\ faults < MaxFaults
         /\ faults' = faults + 1

\* Mutant: the record on disk forgets that a power cap was written.
WriteStateLosesPower(r) ==
  file' = [status |-> "ok", rec |-> [r EXCEPT !.power = FALSE]]

\* _write_state: the record appears whole, by os.replace, or not at all.
WriteState(r) == file' = [status |-> "ok", rec |-> r]

\* nvmlDeviceResetGpuLockedClocks
ClocksReset == dev' = [dev EXCEPT !.locked = FALSE]

\* nvmlDeviceSetPowerManagementLimit
CapSet(c) == dev' = [dev EXCEPT !.cap = c]

-----------------------------------------------------------------------------
\* The device differs from what the operator left.
Modified == dev.locked \/ dev.cap # opCap

\* Somebody's record is outstanding in the file.
Outstanding == ~file.rec.restored
=============================================================================
