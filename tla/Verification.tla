---------------------------- MODULE Verification ----------------------------
(***************************************************************************)
(* One run of verify_clock_lock or of verify_power_cap: a baseline phase,  *)
(* a phase under each setting, each with a guard and a controller of its   *)
(* own, a last phase on the card as it was left, and a verdict.            *)
(*                                                                         *)
(*   args -> range -> next -> (build -> arm -> lock -> cap ->) measure     *)
(*        -> (restore -> close ->) kept -> next ... judge -> hooks -> done *)
(*   and from anywhere, with an exception: escape -> hooks -> done         *)
(*                                                                         *)
(* The guard is what its caller sees of it.  The card may not do what its  *)
(* driver accepts: it may ignore locks, or caps, and a reset may have no   *)
(* effect.                                                                 *)
(***************************************************************************)
EXTENDS Judges, Ranks

CONSTANTS Requests,   \* command lines: [tool, clock, caps, targets]
          Left,       \* the settings the card may hold beforehand
          Cards,      \* [lock, cap]: does the card enforce that setting
          Boosts,     \* unlocked clocks under load
          Floor,      \* MIN_SM_CLOCK_MHZ
          PowerMin, PowerMax, PowerDefault,  \* range of the caps
          Draw(_),    \* peak power at a clock
          Top(_),     \* the highest clock a cap allows
          MaxFaults   \* bound on failing calls and on Ctrl-C

Setting == [lock: Nat, cap: Nat]  \* lock 0: not locked; cap 0: not written
Tools == {"clock", "power"}
Request == [tool: Tools, clock: Nat, caps: SUBSET Nat, targets: Seq(Nat)]

\* The clocks a card can be at, and the limits it can hold.
Clocks ==
  {0} \cup Boosts \cup {s.lock : s \in Left} \cup {r.clock : r \in Requests}
      \cup UNION {{r.targets[i] : i \in DOMAIN r.targets} : r \in Requests}
Limits == {0} \cup {s.cap : s \in Left} \cup UNION {r.caps : r \in Requests}

ASSUME RequestAssumption ==
  /\ Requests \subseteq Request /\ \A r \in Requests : IsFiniteSet(r.caps)
  /\ Left \subseteq Setting /\ Cards \subseteq [lock: BOOLEAN, cap: BOOLEAN]
  /\ Boosts \subseteq Nat /\ Boosts # {}
  /\ {PowerMin, PowerMax, PowerDefault, MaxFaults} \subseteq Nat /\ Floor \in Nat \ {0}
  /\ \A c \in Clocks : Draw(c) \in Int
  /\ \A w \in Limits : Top(w) \in Int

\* A phase that was not loaded, and none.
Idle(limit) == [loaded |-> FALSE, mhz |-> 0, peak |-> 0, ring |-> FALSE, limit |-> limit]
NoPhase == [name |-> <<"none", 0>>, result |-> Idle(Unknown)]

VARIABLES req,       \* the command line
          dev,       \* what the driver has stored
          found,     \* dev before the run
          obeys,     \* the card: one of Cards
          claim,     \* the record: "none", "ours" or "other"
          default,   \* did the driver tell the default limit
          phases,    \* results["phases"], with their names
          taken,     \* the measurement of a guarded phase, until it is kept
          pc,
          exc,       \* the exception under way
          snap,      \* the guard's snapshot of the limit
          touched,   \* what the guard has written: it owes a restore
          open,      \* is NVML open for the guard
          artifact,  \* the verdict in the file written, or "none"
          code,      \* exit status, or Unknown
          faults

runVars == <<req, found, obeys, default>>
guardVars == <<snap, touched, open, claim>>
endVars == <<artifact, code>>
vars == <<runVars, guardVars, endVars, dev, phases, taken, pc, exc, faults>>

Failing == faults < MaxFaults /\ faults' = faults + 1
Succeeds == UNCHANGED faults

At(l) == pc = l
Goto(l) == pc' = l
Raise(e, l) == exc' = e /\ Goto(l)

Power == req.tool = "power"

\* The caps, deduplicated, the greatest first; the targets in order.
Caps ==
  LET n == Cardinality(req.caps)
  IN  [i \in 1..n |-> Ranked([w \in req.caps |-> w], n + 1 - i)]
Targets == [i \in 1..Len(req.targets) |-> Ranked(req.targets, i)]

\* What is tested, each in a phase of its own between the first and the last.
Size == IF Power THEN Cardinality(req.caps) ELSE Len(req.targets)
Tested == IF Power THEN Caps ELSE Targets

Final == Size + 2
Index == Len(phases) + 1
Between(i) == i \in 2..Size + 1

\* The last phase is of the card as it was left; that tool's first one, of the
\* card as it was found.
Guarded == IF Power THEN Index # Final ELSE Between(Index)

LockAsked == IF Power THEN req.clock ELSE Tested[Index - 1]
CapAsked == Tested[Index - 1]

\* cap@100W, locked@600.
Name(i) ==
  IF i = 1 THEN <<"baseline", 0>>
  ELSE IF i = Final THEN <<"recovered", 0>>
  ELSE <<IF Power THEN "cap" ELSE "locked", Tested[i - 1]>>

Named(p) == [name |-> Name(Index), result |-> p]

-----------------------------------------------------------------------------
Init == /\ req \in Requests
        /\ dev \in Left /\ found = dev
        /\ obeys \in Cards
        /\ claim \in {"none", "other"}
        /\ default = TRUE
        /\ phases = <<>> /\ taken = NoPhase
        /\ pc = "args" /\ exc = "none"
        /\ snap = 0 /\ touched = {} /\ open = FALSE
        /\ artifact = "none" /\ code = Unknown
        /\ faults = 0

\* bail, or a verdict: the file is written before the process ends.
Conclude(result, status) == /\ artifact' = result /\ code' = status
                            /\ Goto("hooks")

NotRun == Conclude("NOT RUN", 2)

\* Refusals on the arguments alone write no file.
ArgumentsRefused ==
  IF Power THEN req.caps = {} \/ req.clock < Floor ELSE req.targets = <<>>

CheckArguments ==
  /\ At("args")
  /\ IF ArgumentsRefused THEN code' = 2 /\ Goto("hooks")
     ELSE UNCHANGED code /\ Goto(IF Power THEN "range" ELSE "next")
  /\ UNCHANGED <<runVars, guardVars, dev, phases, taken, exc, artifact, faults>>

\* Caps the card cannot take, or none that could change anything.
CapsRefused(reference) ==
  \/ \E w \in req.caps : w < PowerMin \/ w > PowerMax
  \/ \A w \in req.caps : w >= reference

\* The range of the card, read without a guard.
CheckRange ==
  /\ At("range")
  /\ \/ Failing /\ NotRun /\ UNCHANGED default
     \/ /\ Succeeds /\ UNCHANGED default
        /\ IF CapsRefused(PowerDefault) THEN NotRun ELSE Goto("next") /\ UNCHANGED endVars
     \/ /\ Failing /\ default' = FALSE
        /\ IF CapsRefused(PowerMax) THEN NotRun ELSE Goto("next") /\ UNCHANGED endVars
  /\ UNCHANGED <<req, found, obeys, guardVars, dev, phases, taken, exc>>

NextPhase ==
  /\ At("next")
  /\ Goto(IF Index > Final THEN "judge" ELSE IF Guarded THEN "build" ELSE "measure")
  /\ UNCHANGED <<runVars, guardVars, endVars, dev, phases, taken, exc, faults>>

-----------------------------------------------------------------------------
(* _run_guarded_phase, locked_phases_for *)

\* The controller of this phase; one tool translates its failure.
Build ==
  /\ At("build")
  /\ \/ Succeeds /\ open' = TRUE /\ Goto("arm") /\ UNCHANGED exc
     \/ Failing /\ UNCHANGED open /\ Raise(IF Power THEN "guard" ELSE "other", "escape")
  /\ touched' = {}
  /\ UNCHANGED <<runVars, endVars, snap, claim, dev, phases, taken>>

Arm ==
  /\ At("arm")
  /\ \/ claim # "none" /\ Succeeds /\ Raise("guard", "close") /\ UNCHANGED <<claim, snap>>
     \/ claim = "none" /\ Failing /\ Raise("other", "close") /\ UNCHANGED <<claim, snap>>
     \/ /\ claim = "none" /\ Succeeds /\ UNCHANGED exc
        /\ claim' = "ours" /\ snap' = dev.cap
        /\ Goto("lock")
  /\ UNCHANGED <<runVars, endVars, dev, touched, open, phases, taken>>

\* A writer owes a restore from before its call on, whatever comes of it.
Write(field, value) ==
  /\ touched' = touched \cup {field}
  /\ \/ Succeeds /\ UNCHANGED exc /\ dev' = [dev EXCEPT ![field] = value]
     \/ Failing /\ exc' \in {"guard", "other"} /\ dev' \in {dev, [dev EXCEPT ![field] = value]}

LockClocks ==
  /\ At("lock")
  /\ IF LockAsked < Floor
       THEN Succeeds /\ Raise("guard", "restore") /\ UNCHANGED <<touched, dev>>
       ELSE /\ Write("lock", LockAsked)
            /\ Goto(IF exc' # "none" THEN "restore"
                    ELSE IF Power /\ Between(Index) THEN "cap" ELSE "measure")
  /\ UNCHANGED <<runVars, endVars, claim, snap, open, phases, taken>>

SetPowerLimit ==
  /\ At("cap")
  /\ Write("cap", CapAsked)
  /\ Goto(IF exc' = "none" THEN "measure" ELSE "restore")
  /\ UNCHANGED <<runVars, endVars, claim, snap, open, phases, taken>>

\* What a loaded card does under a lock and a cap: it holds a lock it obeys, runs
\* at a boost clock otherwise, and slows down under a cap it obeys.
Under(lock, cap, p) ==
  \E boost \in Boosts :
    LET free == IF obeys.lock /\ lock # 0 THEN lock ELSE boost
        held == obeys.cap /\ Draw(free) > cap
    IN  /\ p.mhz = IF held THEN Top(cap) ELSE free
        /\ p.peak = IF held THEN cap ELSE Draw(free)

Behaves(p) == Under(dev.lock, dev.cap, p)

Observed == [loaded: {TRUE}, mhz: Boosts \cup {dev.lock, Top(dev.cap)},
             peak: {Draw(c) : c \in Boosts \cup {dev.lock}} \cup {dev.cap},
             ring: BOOLEAN, limit: {dev.cap, Unknown}]

\* phase(): the load may not run, the ring or the limit may not be readable.
PhaseOf(p) ==
  \/ /\ p \in Observed /\ Behaves(p)
     /\ IF p.ring /\ p.limit # Unknown THEN Succeeds ELSE Failing
  \/ /\ p \in {Idle(dev.cap), Idle(Unknown)} /\ Failing

\* The phase runs; NVML may fail it altogether.
Measure ==
  /\ At("measure")
  /\ \/ /\ \E p \in Observed \cup {Idle(dev.cap), Idle(Unknown)} :
             PhaseOf(p) /\ taken' = Named(p)
        /\ UNCHANGED exc
        /\ Goto(IF Guarded THEN "restore" ELSE "kept")
     \/ /\ Failing /\ UNCHANGED taken
        /\ Raise("other", IF Guarded THEN "restore" ELSE "escape")
  /\ UNCHANGED <<runVars, guardVars, endVars, dev, phases>>

\* Ctrl-C: a guard's handler restores before the exception goes on.
Interrupt ==
  /\ pc \in {"lock", "cap", "measure"}
  /\ Failing
  /\ Raise("interrupt", IF Guarded THEN "restore" ELSE "escape")
  /\ UNCHANGED <<runVars, guardVars, endVars, dev, phases, taken>>

Reset == [lock |-> IF "lock" \in touched THEN 0 ELSE dev.lock,
          cap |-> IF "cap" \in touched THEN snap ELSE dev.cap]

\* restore(): done; accepted by the driver without effect; or given up, and
\* still owed.
Restores(raise) ==
  \/ /\ Succeeds
     /\ dev' = Reset /\ touched' = {} /\ claim' = "none"
     /\ UNCHANGED <<exc>>
  \/ /\ touched # {} /\ Failing
     /\ dev' \in {dev, [Reset EXCEPT !.cap = dev.cap], [Reset EXCEPT !.lock = dev.lock]}
     /\ touched' = {} /\ claim' = "none"
     /\ UNCHANGED <<exc>>
  \/ /\ touched # {} /\ Failing
     /\ dev' \in {dev, [Reset EXCEPT !.cap = dev.cap], [Reset EXCEPT !.lock = dev.lock]}
     /\ exc' = raise
     /\ UNCHANGED <<touched, claim>>

Restore ==
  /\ At("restore")
  /\ Restores("restore")
  /\ Goto("close")
  /\ UNCHANGED <<runVars, endVars, snap, open, phases, taken>>

\* Mutant: the controller is closed whatever its guard owes.
ClosesAlways == FALSE
StaysOpen == touched # {} /\ claim = "ours"

\* NVML is left open for a guard that owes a restore.
Close ==
  /\ At("close")
  /\ open' = StaysOpen
  /\ Goto(IF exc = "none" THEN "kept" ELSE "escape")
  /\ UNCHANGED <<runVars, endVars, claim, snap, touched, dev, phases, taken, exc, faults>>

-----------------------------------------------------------------------------
(* main *)

\* The power tool's baseline must be of a card without a cap.
BaselineFit(p) == p.limit # Unknown /\ (default => p.limit = PowerDefault)

Forget == taken' = NoPhase

Keep ==
  /\ At("kept")
  /\ phases' = Append(phases, taken) /\ Forget
  /\ IF Power /\ Index = 1 /\ ~BaselineFit(taken.result) THEN NotRun
     ELSE Goto("next") /\ UNCHANGED endVars
  /\ UNCHANGED <<runVars, guardVars, dev, exc, faults>>

\* The except clauses around the phases.
Caught ==
  IF Power
    THEN \/ Index = 1 /\ exc # "interrupt" /\ NotRun
         \/ /\ Between(Index)
            /\ \/ exc = "guard" /\ NotRun
               \/ exc \in {"restore", "other"} /\ Conclude("RESTORE FAILED", 3)
    ELSE Between(Index) /\ exc \in {"guard", "restore"} /\ NotRun

Uncaught ==
  IF Power THEN exc = "interrupt" \/ Index = Final
           ELSE exc \in {"interrupt", "other"} \/ Index = Final

Escape ==
  /\ At("escape")
  /\ \/ Caught
     \/ /\ Uncaught
        /\ code' = IF exc = "interrupt" THEN 130 ELSE 1
        /\ Goto("hooks") /\ UNCHANGED artifact
  /\ UNCHANGED <<runVars, guardVars, dev, phases, taken, exc, faults>>

ExitCode(result) ==
  CASE result \in {"CAP WORKS", "LOCK WORKS"} -> 0
    [] Power /\ result \in {"RESTORE FAILED", "RESTORE UNVERIFIED"} -> 3
    [] OTHER -> 1

JudgePhases(ps) ==
  LET middle == [i \in 1..Size |-> ps[i + 1].result]
  IN  IF Power THEN JudgePower(ps[1].result, middle, ps[Final].result, Tested, req.clock)
      ELSE JudgeClock(ps[1].result, middle, ps[Final].result, Tested)

Judge ==
  /\ At("judge")
  /\ LET verdict == JudgePhases(phases) IN Conclude(verdict, ExitCode(verdict))
  /\ UNCHANGED <<runVars, guardVars, dev, phases, taken, exc, faults>>

\* The guard's exit hook: its last try, which needs NVML.
ExitHook ==
  /\ At("hooks")
  /\ Goto("done")
  /\ IF touched # {} /\ open THEN Restores(exc)
     ELSE UNCHANGED <<dev, touched, claim, exc, faults>>
  /\ UNCHANGED <<runVars, snap, open, phases, taken, endVars>>

Next == \/ CheckArguments \/ CheckRange \/ NextPhase
        \/ Build \/ Arm \/ LockClocks \/ SetPowerLimit \/ Measure \/ Interrupt
        \/ Restore \/ Close \/ Keep \/ Escape \/ Judge \/ ExitHook

Spec == Init /\ [][Next]_vars

-----------------------------------------------------------------------------
(* --rejudge: the verdict once more, from the phases in the file *)

\* Mutant: the phases by their positions.
FindByPosition(ps, name) ==
  CASE name[1] = "baseline" -> {1} \cap DOMAIN ps
    [] name[1] = "recovered" -> {Len(ps)} \cap DOMAIN ps
    [] OTHER -> {i \in DOMAIN ps : ps[i].name = name}

\* The phases of that name.
Find(ps, name) == {i \in DOMAIN ps : ps[i].name = name}

FirstOf(I) == CHOOSE i \in I : \A j \in I : i <= j
LastOf(I) == CHOOSE i \in I : \A j \in I : i >= j

\* One tool takes the caps of the command line and the last phase of each name.
RejudgedPower(ps) ==
  LET result(name) == ps[LastOf(Find(ps, name))].result
      names == {<<"baseline", 0>>, <<"recovered", 0>>} \cup {<<"cap", w>> : w \in req.caps}
  IN  IF \E name \in names : Find(ps, name) = {} THEN "incomplete"
      ELSE JudgePower(result(<<"baseline", 0>>),
                      [i \in 1..Size |-> result(<<"cap", Caps[i]>>)],
                      result(<<"recovered", 0>>), Caps, req.clock)

\* The other takes the locked phases there are, in their order, and the first
\* phase of the other names.
RejudgedClock(ps) ==
  LET locked == {i \in DOMAIN ps : ps[i].name[1] = "locked"}
      nth(k) == ps[Ranked([i \in locked |-> i], k)]
      result(name) == ps[FirstOf(Find(ps, name))].result
  IN  IF {} \in {locked, Find(ps, <<"baseline", 0>>), Find(ps, <<"recovered", 0>>)} THEN "incomplete"
      ELSE JudgeClock(result(<<"baseline", 0>>),
                      [k \in 1..Cardinality(locked) |-> nth(k).result],
                      result(<<"recovered", 0>>),
                      [k \in 1..Cardinality(locked) |-> nth(k).name[2]])

Rejudged(ps) == IF Power THEN RejudgedPower(ps) ELSE RejudgedClock(ps)

-----------------------------------------------------------------------------
PhaseName == {"baseline", "recovered", "cap", "locked"} \X Nat

Labels == {"args", "range", "next", "build", "arm", "lock", "cap", "measure", "restore", "close",
           "kept", "escape", "judge", "hooks", "done"}
Exceptions == {"none", "guard", "restore", "other", "interrupt"}
Codes == {Unknown, 0, 1, 2, 3, 130}
Artifacts == {"none", "NOT RUN", "INCONCLUSIVE", "RESTORE FAILED", "RESTORE UNVERIFIED",
              "LOCK IS A NO-OP", "CAP IS A NO-OP", "REFUSED BY DEVICE", "PARTIAL",
              "LOCK WORKS", "CAP WORKS"}

TypeOK ==
  /\ req \in Requests /\ {dev, found} \subseteq Setting
  /\ obeys \in [lock: BOOLEAN, cap: BOOLEAN]
  /\ claim \in {"none", "ours", "other"} /\ default \in BOOLEAN
  /\ Len(phases) <= Final /\ phases \in Seq([name: PhaseName, result: Phase])
  /\ \A i \in DOMAIN phases : phases[i].name = Name(i)
  /\ taken = NoPhase \/ taken \in [name: {Name(Index)}, result: Phase]
  /\ pc \in Labels
  /\ exc \in Exceptions
  /\ snap \in Nat /\ touched \subseteq {"lock", "cap"} /\ open \in BOOLEAN
  /\ artifact \in Artifacts
  /\ code \in Codes
  /\ faults \in 0..MaxFaults

Judged == exc = "none" /\ code \in {0, 1, 3}

\* The cap the card was found with does not let it run at that clock.
Slowed(clock) == obeys.cap /\ Draw(clock) > found.cap

\* The clocks at which it runs under that cap without a lock, over which it drifts.
Unlocked == {IF Slowed(b) THEN Top(found.cap) ELSE b : b \in Boosts}

\* A card that only drifts meets each of those targets, as distinctly as a lock would.
MetByDrift(I, targets) ==
  \E met \in [I -> Unlocked] :
    /\ \A i \in I : Within(met[i], targets[i], Tolerance)
    /\ \A i, j \in I : i # j => ~Within(met[i], met[j], Tolerance)

\* Where no failed restore is reported, none is: a verdict of the power tool
\* other than a failed or unverified restore means that the cap is what it was,
\* whatever the driver only claimed to do, and LOCK WORKS that a card that obeys
\* locks has none left, if the greatest target, the last to be locked, could be
\* told from the unlocked clock and reached.
RestoreAccounted ==
  /\ Power /\ Judged /\ code # 3 => dev.cap = found.cap
  /\ artifact = "LOCK WORKS" /\ obeys.lock /\ Size \in Testable(phases[1].result, Targets)
       => dev.lock = 0 \/ Slowed(dev.lock)

\* What is said of the card is true of it, however far it drifts without a lock.
\* Caps that work are obeyed, unless the card ignores locks too and drifts to the
\* clock that was asked for, which the control check cannot tell from a lock.
\* Locks that work are obeyed, unless the drift alone meets every target.  Caps
\* without effect are ignored.  Locks without effect are too, unless the cap the
\* card was found with kept it from every target.
CardAsTold ==
  /\ artifact = "CAP WORKS" =>
       \/ obeys.cap
       \/ ~obeys.lock /\ \E b \in Boosts : Within(b, req.clock, ClockMargin)
  /\ artifact = "CAP IS A NO-OP" => ~obeys.cap
  /\ artifact = "LOCK WORKS" =>
       obeys.lock \/ MetByDrift(Testable(phases[1].result, Targets), Targets)
  /\ artifact = "LOCK IS A NO-OP" =>
       ~obeys.lock \/ \A i \in Testable(phases[1].result, Targets) : Slowed(Targets[i])

\* A guard that owes a restore keeps NVML open for its exit hook.
DebtPayable ==
  /\ TypeOK
  /\ touched # {} => open

\* Judging the file of a run once more gives the verdict of the run, or says
\* that the run was not complete.
RejudgeAgrees == artifact # "none" => Rejudged(phases) \in {"incomplete", artifact}

\* A failed restore is only found when something was left on the card.
FailureIsReal == Power /\ Judged /\ artifact = "RESTORE FAILED" => dev # found
=============================================================================
