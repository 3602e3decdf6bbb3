----------------------------- MODULE GuardSystem ----------------------------
(***************************************************************************)
(* Guard processes, the recovery command and the operator over one device  *)
(* and one state file.                                                     *)
(*                                                                         *)
(* Spec is the system as it is.  SerialSpec is the system in which the two *)
(* windows the module leaves open are not hit: those between _check_not_   *)
(* busy and the publish of the claim, and between recovery's reads and its *)
(* own publish.  The source says that closing them takes an inter-process  *)
(* lock it deliberately does not have.                                     *)
(***************************************************************************)
EXTENDS Recovery

CONSTANT OperatorCaps   \* caps the operator sets by other means

ASSUME OperatorAssumption == OperatorCaps \subseteq Caps

CONSTANT Corruptible    \* may the file become unreadable

ASSUME CorruptAssumption == Corruptible \in BOOLEAN

vars == <<sharedVars, guardVars, rec>>

Init == SharedInit /\ GuardInit /\ RecoveryInit

-----------------------------------------------------------------------------
\* p is between its busy check and the publish of its claim.
Arming(p) == pc[p]["main"] \in {"checked", "built"}

\* No process holds the device or is about to.
Unattended == /\ \A p \in Guards : ~Arming(p) /\ ~Armed(p) /\ ~InHandler(p)
              /\ ~Recovering

\* The operator sets a cap with another tool while no guard is about and no
\* record says that one left something behind.
OperatorSetsCap ==
  /\ Unattended
  /\ file.status # "unreadable"
  /\ ~aside
  /\ ~Outstanding
  /\ \E c \in OperatorCaps : /\ opCap' = c
                             /\ CapSet(c)
  /\ UNCHANGED <<file, aside, faults, guardVars, rec>>

\* Nothing in this package writes an uninterpretable record; a full disk, a
\* hand edit or another version's schema does.
CorruptFile ==
  /\ Corruptible
  /\ Unattended
  /\ file.status = "ok"
  /\ Fails
  /\ file' = [status |-> "unreadable", rec |-> NoRecord]
  /\ UNCHANGED <<dev, opCap, aside, guardVars, rec>>

GuardStep(p) == \/ MethodStep(p)
                \/ CallerStep(p)
                \/ SignalStep(p)

Next == \/ \E p \in Guards : GuardStep(p) /\ UNCHANGED rec
        \/ RecoveryNext
        \/ OperatorSetsCap
        \/ CorruptFile

Spec == Init /\ [][Next]_vars

-----------------------------------------------------------------------------
\* At most one process arms at a time.
ArmsAlone == \A p, q \in Guards : Arming(p) /\ Arming(q) => p = q

\* No process arms while recovery runs.
RecoversAlone == Recovering => \A p \in Guards : ~Arming(p)

\* The guards do not die, and --force is not given, under a running recovery.
NobodyDies == Recovering => \A p \in Guards : Alive(p) => Alive(p)'

ForcedAlone == Recovering /\ rec.force => \A p \in Guards : ~Armed(p)

Serial == /\ ArmsAlone'
          /\ RecoversAlone'
          /\ ForcedAlone'
          /\ NobodyDies

SerialNext == Next /\ Serial

SerialSpec == Init /\ [][SerialNext]_vars

\* A method that has been called goes on, and so does a recovery that was
\* started; an operator who sees an outstanding record runs recovery, again if
\* need be.  Nothing makes a program call the guard or a signal arrive.
\* Fairness of the guards is strong only because Serial makes a dying guard
\* wait for a running recovery, which ends but may be run again.
FairSpec ==
  /\ SerialSpec
  /\ \A p \in Guards : SF_vars(MethodStep(p) /\ UNCHANGED rec /\ Serial)
  /\ WF_vars(RecoveryStep /\ Serial)
  /\ WF_vars(BeginRecovery /\ Outstanding /\ Serial)

-----------------------------------------------------------------------------
TypeOK == SharedTypeOK /\ GuardTypeOK /\ RecoveryTypeOK

\* Whenever the device differs from what the operator left, there is evidence:
\* an outstanding record, or a file nobody could read, in place or set aside.
Evidence == Modified => \/ Outstanding
                        \/ file.status = "unreadable"
                        \/ aside

\* The outstanding record names what was changed: a clock lock, a power write.
\* Once a damaged record was set aside only that copy tells what was done
\* before it, and the next guard takes the device as it finds it.
IntentNamed == Outstanding /\ ~aside => /\ dev.locked => file.rec.clocks
                                        /\ dev.cap # opCap => file.rec.power

\* What the evidence says is enough to undo the change.
Recoverable ==
  Outstanding /\ ~aside /\ file.rec.power /\ file.rec.snap # NoCap
    => file.rec.snap = opCap

\* An armed guard's own record is the one in the file, and it is unrestored;
\* so no two guards are armed.
ArmedMeansHeld ==
  \A p \in Guards : Armed(p) =>
    file.status = "ok" /\ file.rec.pid = p /\ ~file.rec.restored

\* A guard never takes another guard's setting for the stock one, unless it
\* arms after a damaged record was set aside.
SnapshotIsStock ==
  \A p \in Guards : Armed(p) /\ ~aside => st[p].snap \in {opCap, NoCap}

\* Only quarantine removes a file that could not be read, and it keeps a copy:
\* arming over it is refused and recovery does not clear it.
UnreadableKept ==
  [][file.status = "unreadable" => \/ file' = file
                                   \/ file'.status = "absent" /\ aside']_vars

\* The device a dead process left behind comes back to the operator's state
\* and its record is cleared, however often recovery fails first.
AbandonedRecovers ==
  \A p \in Guards : (Outstanding /\ file.rec.pid = p /\ ~Alive(p))
                       ~> (~Outstanding /\ ~Modified)

\* A restore that was begun ends, whichever of its calls fail, and exit ends
\* in termination, unless ignored signals keep interrupting it without end; the
\* handler's own restore always ends.
RestoreEnds ==
  \A p \in Guards :
    /\ \/ []<>InHandler(p)
       \/ (pc[p]["main"] \in RestoreLabels) ~> (pc[p]["main"] \in {"idle", "dead"})
    /\ (call[p] = "exit") ~> (~Alive(p) \/ InHandler(p))
    /\ InHandler(p) ~> ~InHandler(p)

\* The abstract contract, over the record's pid and the state of the device.
Custodian == IF Outstanding THEN file.rec.pid ELSE NoPid

Contract == INSTANCE Custody WITH Holders <- Guards, Nobody <- NoPid,
                                  holder <- Custodian, modified <- Modified

CustodyKept == Contract!Spec
=============================================================================
