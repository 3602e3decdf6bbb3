--------------------------- MODULE GuardInvariant ---------------------------
(***************************************************************************)
(* The inductive invariant behind the safety of SerialSpec, when no signal *)
(* was ignored at arm time and the snapshot reads the limit itself or      *)
(* nothing.  The file may be damaged: who holds the device is known all    *)
(* the same, what was done to it only until a damaged record is set aside. *)
(***************************************************************************)
EXTENDS GuardSystem

Premises == /\ Ignored = {}
            /\ SnapshotReads \subseteq {"limit", "none"}

Settled == ~dev.locked /\ dev.cap = opCap

\* The device is as the operator left it, unless a damaged record was set
\* aside: then it is for him to look at.
Clear == aside \/ Settled

\* The states Serial admits.
SerialState == ArmsAlone /\ RecoversAlone /\ ForcedAlone

\* A record in the file is some guard's; nothing outstanding in a file that
\* can be read means the device is as the operator left it; an outstanding
\* record is that of an armed guard or of a dead one, names every change, and
\* its snapshot, if read, is the operator's cap.
FileInv ==
  /\ ~Corruptible => file.status # "unreadable" /\ ~aside
  /\ file.status # "ok" => ~Outstanding
  /\ file.status = "ok" => file.rec.pid \in Guards
  /\ ~Outstanding /\ file.status # "unreadable" => Clear
  /\ Outstanding => Armed(file.rec.pid) \/ ~Alive(file.rec.pid)
  /\ IntentNamed
  /\ Recoverable

\* What an armed guard holds in memory agrees with its record and the device;
\* without a debt the device is untouched.
ArmedInv(p) ==
  Armed(p) =>
    /\ file.status = "ok" /\ file.rec.pid = p /\ Outstanding
    /\ p \in published
    /\ Alive(p) /\ ~Arming(p)
    /\ st[p].pid = p /\ ~st[p].restored
    /\ ~aside => st[p].snap \in {opCap, NoCap}
    /\ file.rec.power => st[p].power
    /\ file.rec.snap = st[p].snap
    /\ dev.locked /\ ~aside => st[p].clocks
    /\ p \notin owing => Clear

\* What a disarmed guard still remembers cannot reach the file.
DisarmedInv(p) ==
  ~Armed(p) =>
    /\ p \notin owing
    /\ p \in published => st[p].restored

\* While p arms, the file is free and its new record is blank.
ArmingInv(p) ==
  /\ Arming(p) => ~Outstanding /\ file.status # "unreadable"
  /\ pc[p]["main"] = "built" =>
       /\ p \notin published
       /\ ~st[p].power /\ ~st[p].clocks /\ ~st[p].restored
       /\ st[p].pid = p
       /\ ~aside => st[p].snap \in {opCap, NoCap}

\* Labels past the frame's first look at the guard.
Owning == {"clocks", "power", "report", "rewrite", "flag", "tail",
           "assign", "mark", "nvml"}

\* f is the frame of p that runs.
Running(p, f) == f = "main" => ~InHandler(p)

\* The running frame of p past its first look at the guard is armed, and
\* what it has done to the device so far has taken effect.
FrameInv(p, f) ==
  Running(p, f) =>
    /\ pc[p][f] \in Owning => Armed(p)
    /\ pc[p][f] = "power" /\ <<p, f>> \notin err => ~dev.locked
    /\ pc[p][f] = "flag" => Clear
    /\ pc[p][f] = "tail" => Clear /\ p \notin owing
    /\ pc[p][f] = "nvml" => p \in owing

\* The intent of the write main is about to make is in self.state, then in
\* the file.
WriterInv(p) ==
  /\ Arming(p) => call[p] # "exit"
  /\ pc[p]["main"] \in {"assign", "mark", "nvml"} => call[p] \in {"clocks", "power"}
  /\ At(p, "main", "mark") => /\ call[p] = "clocks" => st[p].clocks
                              /\ call[p] = "power" => st[p].power
  /\ At(p, "main", "nvml") => /\ call[p] = "clocks" => st[p].clocks /\ file.rec.clocks
                              /\ call[p] = "power" => st[p].power /\ file.rec.power
  /\ InHandler(p) => pc[p]["main"] \notin {"nvml", "dead"}

\* A guard that is dead when recovery runs was dead when it began, so nobody
\* but recovery touches the device or the record since.
RecoveryInv ==
  Recovering =>
    /\ rec.held => rec.prior.pid \in Guards
    /\ rec.pc \in {"clocks", "power"} /\ OwesPower /\ rec.prior.snap # NoCap
         => aside \/ rec.prior.snap = opCap
    /\ Outstanding /\ ~Alive(file.rec.pid) =>
         /\ rec.held => rec.prior = file.rec
         /\ rec.pc \in {"power", "check", "publish"} /\ ~rec.err => ~dev.locked
         /\ rec.pc \in {"check", "publish"} /\ ~rec.err /\ rec.held
              => aside \/ dev.cap = opCap
    /\ rec.pc = "publish" => /\ rec.held /\ ~rec.err
                             /\ file = [status |-> "ok", rec |-> rec.prior]
                             /\ ~Alive(rec.prior.pid)

GuardInv(p) == /\ ArmedInv(p)
               /\ DisarmedInv(p)
               /\ ArmingInv(p)
               /\ WriterInv(p)
               /\ \A f \in Frames : FrameInv(p, f)

\* The inductive invariant.
IInv == /\ SerialState
        /\ FileInv
        /\ RecoveryInv
        /\ \A p \in Guards : GuardInv(p)
=============================================================================
