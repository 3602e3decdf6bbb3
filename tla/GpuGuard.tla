------------------------------ MODULE GpuGuard ------------------------------
(***************************************************************************)
(* class GpuGuard, one object in each guard process.                       *)
(*                                                                         *)
(* A process runs two frames: "main", the caller's thread, and "hand", the *)
(* signal handler, which interrupts main between two of its steps and runs *)
(* restore() on the same object.  A label is the point a frame has         *)
(* reached; a step between two labels is what the code does with signals   *)
(* blocked, or touches nothing a handler reads.                            *)
(*                                                                         *)
(*   main:  idle -> checked -> built -> (assign) -> mark -> nvml -> idle   *)
(*   both:  restore -> clocks -> power -> flag -> tail                     *)
(*                                    \-> report -> rewrite                *)
(*   hand:  off, and "deliver" once its restore() has returned or raised   *)
(*                                                                         *)
(* Bound: the handler is not interrupted by a second handler.              *)
(***************************************************************************)
EXTENDS GuardState

CONSTANTS Ignored,        \* signals whose disposition was SIG_IGN at arm time
          Killable,       \* processes that may be killed with SIGKILL
          Signalled,      \* processes that may be sent SIGINT or SIGTERM
          SnapshotReads   \* what the snapshot's reads of the limits may yield

Signals == {"SIGINT", "SIGTERM"}

ASSUME GpuGuardAssumption ==
  /\ Ignored \subseteq Signals
  /\ Killable \subseteq Guards
  /\ Signalled \subseteq Guards
  /\ SnapshotReads \subseteq {"limit", "default", "none"}

VARIABLES pc,     \* label of each frame
          call,   \* the method of the guard main is executing
          err,        \* frames whose restore() has collected an error
          armed,      \* guards with _armed
          published,  \* guards with _published
          owing,      \* guards with a hardware debt, ~_restored
          installed,  \* processes whose handlers are the guard's
          st          \* self.state

flags == <<armed, published, owing, installed>>
guardVars == <<pc, call, err, flags, st>>

Frames == {"main", "hand"}
RestoreLabels == {"restore", "clocks", "power", "report", "rewrite",
                  "flag", "tail"}
MainLabels == RestoreLabels \cup
              {"idle", "checked", "built", "assign", "mark", "nvml", "dead"}
HandLabels == RestoreLabels \cup {"off", "deliver"}
Calls == {"none", "clocks", "power", "exit"}

GuardTypeOK ==
  /\ pc \in [Guards -> [Frames -> MainLabels \cup HandLabels]]
  /\ \A p \in Guards : /\ pc[p]["main"] \in MainLabels
                       /\ pc[p]["hand"] \in HandLabels
  /\ call \in [Guards -> Calls]
  /\ err \subseteq Guards \X Frames
  /\ armed \subseteq Guards
  /\ published \subseteq Guards
  /\ owing \subseteq Guards
  /\ installed \subseteq Guards
  /\ st \in [Guards -> Record]

GuardInit ==
  /\ pc = [p \in Guards |-> [f \in Frames |-> IF f = "main" THEN "idle" ELSE "off"]]
  /\ call = [p \in Guards |-> "none"]
  /\ err = {}
  /\ armed = {} /\ published = {} /\ owing = {} /\ installed = {}
  /\ st = [p \in Guards |-> NoRecord]

-----------------------------------------------------------------------------
Alive(p) == pc[p]["main"] # "dead"
Armed(p) == p \in armed
InHandler(p) == pc[p]["hand"] # "off"

\* Frame f of p runs and has reached label l.
At(p, f, l) == /\ pc[p][f] = l
               /\ f = "main" => ~InHandler(p)

Goto(p, f, l) == pc' = [pc EXCEPT ![p][f] = l]

\* The guard method main was executing returns or raises.
MainReturns(p) ==
  /\ Goto(p, "main", "idle")
  /\ call' = [call EXCEPT ![p] = IF @ = "exit" THEN @ ELSE "none"]

\* Mutant: the main thread returns the way a handler does.
RestoreReturnsSwapped(p, f) ==
  IF f = "hand" THEN MainReturns(p)
                ELSE Goto(p, f, "deliver") /\ UNCHANGED call

\* Mutant: the handler chains to the handler it found installed, which is its
\* own, and so without bound.
RestoreReturnsChained(p, f) ==
  IF f = "main" THEN MainReturns(p)
                ELSE Goto(p, f, "restore") /\ UNCHANGED call

\* restore() of frame f returns or raises.
RestoreReturns(p, f) ==
  IF f = "main" THEN MainReturns(p)
                ELSE Goto(p, f, "deliver") /\ UNCHANGED call

\* The process is gone, its memory with it; device and file stay.
Dies(p) ==
  /\ pc' = [pc EXCEPT ![p] = [f \in Frames |-> IF f = "main" THEN "dead" ELSE "off"]]
  /\ call' = [call EXCEPT ![p] = "none"]
  /\ err' = err \ ({p} \X Frames)
  /\ armed' = armed \ {p}
  /\ published' = published \ {p}
  /\ owing' = owing \ {p}
  /\ installed' = installed \ {p}
  /\ st' = [st EXCEPT ![p] = NoRecord]
  /\ UNCHANGED sharedVars

-----------------------------------------------------------------------------
(* arm() *)

\* Mutant: the unrestored record is not looked at.
NotBusyIgnoresRecord == file.status # "unreadable"

\* Mutant: an unreadable file is taken for a missing one.
NotBusyIgnoresDamage == file.rec.restored

\* Mutant: a dead holder's record may be taken over.
NotBusyTakesOver ==
  /\ file.status # "unreadable"
  /\ file.rec.restored \/ (file.rec.pid \in Guards /\ ~Alive(file.rec.pid))

\* _check_not_busy: an unreadable file and an unrestored record both refuse,
\* whoever wrote the record and whether or not that process still runs.
NotBusy == /\ file.status # "unreadable"
           /\ file.rec.restored

\* The entry of arm(), called by `with` (c = "none") or by a writer that
\* finds the guard disarmed.  A refusal raises and changes nothing.
CheckNotBusy(p) ==
  /\ At(p, "main", "idle")
  /\ call[p] = "none"
  /\ ~Armed(p)
  /\ NotBusy
  /\ Goto(p, "main", "checked")
  /\ \E c \in {"none", "clocks", "power"} : call' = [call EXCEPT ![p] = c]
  /\ UNCHANGED <<sharedVars, err, flags, st>>

\* Mutant: the factory limit is taken for the limit the operator had set.
RestoreTargetFactory(read) == IF read = "none" THEN NoCap ELSE DefaultCap

\* What restore() puts back: the limit read, else the default limit, else
\* nothing.
RestoreTarget(read) == CASE read = "limit"   -> dev.cap
                         [] read = "default" -> DefaultCap
                         [] read = "none"    -> NoCap

\* Mutant: _published survives from the last cycle.
TakeSnapshotStaysPublished(p) ==
  /\ At(p, "main", "checked")
  /\ \E read \in SnapshotReads :
       st' = [st EXCEPT ![p] = Claim(p, RestoreTarget(read))]
  /\ Goto(p, "main", "built")
  /\ UNCHANGED <<sharedVars, call, err, flags>>

\* _published is cleared, the device is read and self.state is rebuilt.
TakeSnapshot(p) ==
  /\ At(p, "main", "checked")
  /\ \E read \in SnapshotReads :
       st' = [st EXCEPT ![p] = Claim(p, RestoreTarget(read))]
  /\ published' = published \ {p}
  /\ Goto(p, "main", "built")
  /\ UNCHANGED <<sharedVars, call, err, armed, owing, installed>>

\* With signals blocked: install the handlers, publish the claim, arm.  When
\* the write raises, the handlers stay and nothing else has changed.
Publish(p) ==
  /\ At(p, "main", "built")
  /\ \/ /\ Succeeds
        /\ WriteState(st[p])
        /\ published' = published \cup {p}
        /\ armed' = armed \cup {p}
        /\ Goto(p, "main", IF call[p] = "none" THEN "idle" ELSE "assign")
        /\ UNCHANGED call
     \/ /\ Fails
        /\ MainReturns(p)
        /\ UNCHANGED <<file, published, armed>>
  /\ installed' = installed \cup {p}
  /\ UNCHANGED <<dev, opCap, aside, err, owing, st>>

-----------------------------------------------------------------------------
(* lock_clocks() and set_power_limit_mw() *)

CallWriter(p) ==
  /\ At(p, "main", "idle")
  /\ call[p] = "none"
  /\ Armed(p)
  /\ \E c \in {"clocks", "power"} : call' = [call EXCEPT ![p] = c]
  /\ Goto(p, "main", "assign")
  /\ UNCHANGED <<sharedVars, err, flags, st>>

\* The privilege check or the range check raises, after the claim is out.
RefuseWrite(p) ==
  /\ At(p, "main", "assign")
  /\ MainReturns(p)
  /\ UNCHANGED <<sharedVars, err, flags, st>>

\* The intent goes into self.state before signals are blocked.
AssignIntent(p) ==
  /\ At(p, "main", "assign")
  /\ st' = [st EXCEPT ![p] = WithIntent(@, call[p])]
  /\ Goto(p, "main", "mark")
  /\ UNCHANGED <<sharedVars, call, err, flags>>

\* _mark_touched: refused once the claim is gone, else the intent is on disk
\* before the hardware is touched.
MarkTouched(p) ==
  /\ At(p, "main", "mark")
  /\ \/ /\ ~Armed(p)
        /\ MainReturns(p)
        /\ UNCHANGED <<file, faults, published, owing, st>>
     \/ /\ Armed(p)
        /\ st' = [st EXCEPT ![p] = Touched(@)]
        /\ owing' = owing \cup {p}
        /\ \/ /\ Succeeds
              /\ WriteState(Touched(st[p]))
              /\ published' = published \cup {p}
              /\ Goto(p, "main", "nvml")
              /\ UNCHANGED call
           \/ /\ Fails
              /\ MainReturns(p)
              /\ UNCHANGED <<file, published>>
  /\ UNCHANGED <<dev, opCap, aside, err, armed, installed>>

\* The NVML write, still with signals blocked.
HardwareWrite(p) ==
  /\ At(p, "main", "nvml")
  /\ \/ /\ Succeeds
        /\ IF call[p] = "clocks"
             THEN dev' = [dev EXCEPT !.locked = TRUE]
             ELSE \E c \in Caps : CapSet(c)
     \/ /\ Fails
        /\ UNCHANGED dev
  /\ MainReturns(p)
  /\ UNCHANGED <<opCap, file, aside, err, flags, st>>

-----------------------------------------------------------------------------
(* restore(), in either frame *)

\* `with` ends, or main calls restore().
CallRestore(p) ==
  /\ At(p, "main", "idle")
  /\ call[p] = "none"
  /\ Goto(p, "main", "restore")
  /\ UNCHANGED <<sharedVars, call, err, flags, st>>

\* The interpreter exits: atexit runs restore() one last time.
CallExit(p) ==
  /\ At(p, "main", "idle")
  /\ call[p] = "none"
  /\ call' = [call EXCEPT ![p] = "exit"]
  /\ Goto(p, "main", IF p \in installed THEN "restore" ELSE "idle")
  /\ UNCHANGED <<sharedVars, err, flags, st>>

\* _surrender_claim: no hardware debt, so only the claim is given back.  What
\* this cycle has not published is left alone; a write that raises leaves the
\* guard armed.
Surrender(p, f) ==
  /\ At(p, f, "restore")
  /\ p \notin owing
  /\ \/ /\ p \in published /\ ~st[p].restored
        /\ \/ /\ Succeeds
              /\ st' = [st EXCEPT ![p] = Surrendered(@)]
              /\ WriteState(Surrendered(st[p]))
              /\ armed' = armed \ {p}
           \/ /\ Fails
              /\ UNCHANGED <<file, armed, st>>
     \/ /\ p \notin published \/ st[p].restored
        /\ armed' = armed \ {p}
        /\ UNCHANGED <<file, faults, st>>
  /\ RestoreReturns(p, f)
  /\ UNCHANGED <<dev, opCap, aside, err, published, owing, installed>>

\* There is a hardware debt: restore() goes on to the device.
FindDebt(p, f) ==
  /\ At(p, f, "restore")
  /\ p \in owing
  /\ Goto(p, f, "clocks")
  /\ UNCHANGED <<sharedVars, call, err, flags, st>>

\* The reset is issued without asking, and an error does not end restore().
ResetClocks(p, f) ==
  /\ At(p, f, "clocks")
  /\ \/ /\ Succeeds
        /\ ClocksReset
        /\ err' = err \ {<<p, f>>}
     \/ /\ Fails
        /\ err' = err \cup {<<p, f>>}
        /\ UNCHANGED dev
  /\ Goto(p, f, "power")
  /\ UNCHANGED <<opCap, file, aside, call, flags, st>>

\* The cap is put back only if this guard wrote one and knows a target.
RestorePower(p, f) ==
  LET Passes == /\ Goto(p, f, IF <<p, f>> \in err THEN "report" ELSE "flag")
                /\ UNCHANGED err
      Errs   == /\ Goto(p, f, "report")
                /\ err' = err \cup {<<p, f>>}
  IN  /\ At(p, f, "power")
      /\ \/ ~st[p].power /\ Passes /\ UNCHANGED <<dev, faults>>
         \/ st[p].power /\ st[p].snap = NoCap /\ Errs /\ UNCHANGED <<dev, faults>>
         \/ /\ st[p].power /\ st[p].snap # NoCap
            /\ \/ Succeeds /\ CapSet(st[p].snap) /\ Passes
               \/ Fails /\ Errs /\ UNCHANGED dev
      /\ UNCHANGED <<opCap, file, aside, call, flags, st>>

\* The restore failed: say so in self.state ...
ReportFailure(p, f) ==
  /\ At(p, f, "report")
  /\ st' = [st EXCEPT ![p] = Incomplete(@)]
  /\ err' = err \ {<<p, f>>}
  /\ Goto(p, f, "rewrite")
  /\ UNCHANGED <<sharedVars, call, flags>>

\* ... then in the file, if it can be written, and raise.
RewriteRecord(p, f) ==
  /\ At(p, f, "rewrite")
  /\ \/ Succeeds /\ WriteState(st[p])
     \/ Fails /\ UNCHANGED file
  /\ RestoreReturns(p, f)
  /\ UNCHANGED <<dev, opCap, aside, err, flags, st>>

\* self._restored = True, outside the signal-blocked tail.
SettleDebt(p, f) ==
  /\ At(p, f, "flag")
  /\ owing' = owing \ {p}
  /\ Goto(p, f, "tail")
  /\ UNCHANGED <<sharedVars, call, err, armed, published, installed, st>>

\* The tail, signals blocked: publish the settled record and disarm, or roll
\* back "restored" and stay armed when the write raises.
FinishRestore(p, f) ==
  /\ At(p, f, "tail")
  /\ \/ /\ Succeeds
        /\ st' = [st EXCEPT ![p] = Restored(@)]
        /\ WriteState(Restored(st[p]))
        /\ armed' = armed \ {p}
     \/ /\ Fails
        /\ st' = [st EXCEPT ![p] = Touched(Restored(@))]
        /\ UNCHANGED <<file, armed>>
  /\ RestoreReturns(p, f)
  /\ UNCHANGED <<dev, opCap, aside, err, published, owing, installed>>

-----------------------------------------------------------------------------
(* signals and process death *)

\* KeyboardInterrupt leaves whatever main was executing.
Unwind(p) ==
  /\ pc' = [pc EXCEPT ![p] = [f \in Frames |-> IF f = "main" THEN "idle" ELSE "off"]]
  /\ call' = [call EXCEPT ![p] = IF @ = "exit" THEN @ ELSE "none"]
  /\ err' = err \ {<<p, "main">>}

\* The handler starts between two steps of main.  During "nvml" the signal is
\* blocked and stays pending.  Which signal it was matters at the end only.
Signal(p) ==
  /\ p \in Signalled
  /\ p \in installed
  /\ ~InHandler(p)
  /\ pc[p]["main"] \notin {"nvml", "dead"}
  /\ Goto(p, "hand", "restore")
  /\ UNCHANGED <<sharedVars, call, err, flags, st>>

\* No guard has armed in this process yet: the default dispositions hold.
DefaultSignal(p) ==
  /\ p \in Signalled
  /\ p \notin installed
  /\ pc[p]["main"] \in {"checked", "built"}
  /\ \/ /\ "SIGINT" \notin Ignored
        /\ Unwind(p)
        /\ UNCHANGED <<sharedVars, flags, st>>
     \/ /\ "SIGTERM" \notin Ignored
        /\ Dies(p)

\* The end of _signal_restore.  An ignored signal lets the interrupted frame
\* resume, SIGINT raises KeyboardInterrupt in it, SIGTERM kills the process
\* without running atexit.
SignalReturns(p) ==
  /\ At(p, "hand", "deliver")
  /\ \/ /\ Ignored # {}
        /\ Goto(p, "hand", "off")
        /\ UNCHANGED <<sharedVars, call, err, flags, st>>
     \/ /\ "SIGINT" \notin Ignored
        /\ Unwind(p)
        /\ UNCHANGED <<sharedVars, flags, st>>
     \/ /\ "SIGTERM" \notin Ignored
        /\ Dies(p)

\* The exit-time restore has returned, raised or been interrupted.
Terminate(p) ==
  /\ At(p, "main", "idle")
  /\ call[p] = "exit"
  /\ Dies(p)

\* SIGKILL, at any point.
Crash(p) ==
  /\ p \in Killable
  /\ Alive(p)
  /\ Dies(p)

-----------------------------------------------------------------------------
\* One frame of the guard takes one step.
RestoreStep(p, f) ==
  \/ Surrender(p, f)
  \/ FindDebt(p, f)
  \/ ResetClocks(p, f)
  \/ RestorePower(p, f)
  \/ ReportFailure(p, f)
  \/ RewriteRecord(p, f)
  \/ SettleDebt(p, f)
  \/ FinishRestore(p, f)

\* What a method of the guard does once it has been called.
MethodStep(p) ==
  \/ TakeSnapshot(p)
  \/ Publish(p)
  \/ RefuseWrite(p)
  \/ AssignIntent(p)
  \/ MarkTouched(p)
  \/ HardwareWrite(p)
  \/ \E f \in Frames : RestoreStep(p, f)
  \/ SignalReturns(p)
  \/ Terminate(p)

\* What the program around the guard decides.
CallerStep(p) ==
  \/ CheckNotBusy(p)
  \/ CallWriter(p)
  \/ CallRestore(p)
  \/ CallExit(p)

\* What happens to the process from outside.
SignalStep(p) ==
  \/ Signal(p)
  \/ DefaultSignal(p)
  \/ Crash(p)
=============================================================================
