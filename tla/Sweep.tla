------------------------------- MODULE Sweep --------------------------------
(***************************************************************************)
(* sweep.main, SweepRunner and benchmark.main: one command after another   *)
(* in processes of their own, over one device, one state file and one      *)
(* output directory.                                                       *)
(*                                                                         *)
(*   benchmark:  calibrate -> calibrated -> (sweep) -> render -> hooks     *)
(*   sweep:      args -> open -> sampler -> warm -> (run) -> final ->      *)
(*               close -> write                                            *)
(*   run:        next -> build -> arm -> clock -> power -> settle ->       *)
(*               load -> (unwind, leave) -> (restore) -> flag -> next ...  *)
(*               abort                                                     *)
(*   restore:    restore -> release -> wherever it was called from         *)
(*                                                                         *)
(* A guard is what its caller sees of it: arm refuses or claims, a writer  *)
(* changes the device or raises, restore puts the device back and then     *)
(* gives the claim up, or raises; GpuGuard has its insides.  The device is *)
(* the set of its settings that are not stock, a point of the grid the set *)
(* of settings it asks for.                                                *)
(***************************************************************************)
EXTENDS FiniteSets, Integers, Sequences

CONSTANTS Commands,        \* command lines the operator gives
          Repeats,         \* --repeats and --calibrate-repeats
          MaxInvocations,  \* bound on the commands given
          MaxFaults,       \* bound on failing calls and on Ctrl-C
          InterruptedAt,   \* labels at which Ctrl-C may arrive
          Shared           \* invocations during which others may take the card

Settings == {"clock", "power"}
Stock == {}

Command == [kind: {"sweep", "benchmark", "calibrate"}, clocks: BOOLEAN, powers: BOOLEAN,
            low: BOOLEAN, allowed: BOOLEAN, slo: BOOLEAN, fresh: BOOLEAN]

Labels == {"args", "open", "sampler", "warm", "next", "build", "arm", "clock", "power", "settle",
           "load", "unwind", "leave", "restore", "release", "flag", "abort", "final", "close",
           "write", "calibrated", "render", "hooks", "exit"}

ASSUME SweepAssumption ==
  /\ Commands \subseteq Command
  /\ Repeats \in Nat \ {0}
  /\ MaxInvocations \in Nat /\ MaxFaults \in Nat
  /\ InterruptedAt \subseteq Labels
  /\ Shared \subseteq 1..MaxInvocations

VARIABLES dev,      \* settings of the device that are not stock
          claim,    \* whose record is outstanding: an invocation, or Free
          json,     \* sweep.json in the output directory
          inv,      \* the current or last invocation
          cmd,      \* its command line
          pc,       \* where it is
          back,     \* where restore() returns to
          stage,    \* which SweepRunner runs: "calibrate" or "sweep"
          runs,     \* the runner's runs: the device each was measured on
          taken,    \* the measurement of a guarded point, until it is kept
          guard,    \* the guard in use, the execution it was built for, or 0
          armed,    \* the last guard that armed: its handlers are installed
          owing,    \* guards that owe a restore
          open,     \* guards whose controller has NVML open
          wrote,    \* _point_writes
          hw,       \* hardware_may_be_modified
          reason,   \* abort_reason, NoReason while not aborted
          exc,      \* the exception under way
          sampler,  \* "none", "idle", "live" while its thread polls, or "late" when
                    \* it was told to stop and may be there still
          p99,      \* has a stock run of the runner produced a p99
          slo,      \* the budget: "none", "given", or how it was calibrated
          shown,    \* whose sweep.json benchmark has printed
          faults    \* failures so far

outsideVars == <<dev, claim, json>>
commandVars == <<inv, cmd, stage, slo, shown>>
guardVars == <<guard, armed, owing, open, wrote>>
runVars == <<runs, taken, p99>>
abortVars == <<hw, reason>>
vars == <<outsideVars, commandVars, guardVars, runVars, abortVars, pc, back, exc, sampler, faults>>

Free == 0
Neighbour == MaxInvocations + 1
NoReason == "none"
Reasons == {NoReason, "refused: nothing written", "refused: restored", "guard: modified",
            "guard", "sweep", "failed: modified", "failed: restored", "failed", "unexpected"}
NoJson == [by |-> Free, runs |-> <<>>, hw |-> FALSE, reason |-> NoReason, best |-> FALSE,
           wrote |-> {}]

Failing == faults < MaxFaults /\ faults' = faults + 1
Succeeds == UNCHANGED faults

\* build_grid, for one clock and one cap: stock leads, and is there once.
Grid(c) ==
  LET clocks == IF c.clocks THEN {"clock"} ELSE Stock
  IN  <<Stock>> \o (IF c.clocks THEN <<clocks>> ELSE <<>>)
                \o (IF c.powers THEN <<clocks \cup {"power"}>> ELSE <<>>)

Writes(c) == \E i \in DOMAIN Grid(c) : Grid(c)[i] # Stock

\* The runner's points: a calibration measures stock only.
Points == IF stage = "calibrate" THEN <<Stock>> ELSE Grid(cmd)

Executions == Repeats * Len(Points)

\* Rounds over all points.
PointAt(k) == Points[((k - 1) % Len(Points)) + 1]
Current == PointAt(Len(runs) + 1)

Running == pc # "idle"

-----------------------------------------------------------------------------
TypeOK ==
  /\ dev \in SUBSET Settings
  /\ claim \in 0..Neighbour
  /\ json \in [by: 0..MaxInvocations, runs: Seq(SUBSET Settings), hw: BOOLEAN,
               reason: Reasons, best: BOOLEAN, wrote: SUBSET Settings]
  /\ inv \in 0..MaxInvocations
  /\ cmd \in Commands
  /\ {pc, back} \subseteq Labels \cup {"idle"}
  /\ stage \in {"calibrate", "sweep"}
  /\ runs \in Seq(SUBSET Settings) /\ Len(runs) <= Executions
  /\ taken \in Seq(SUBSET Settings) /\ Len(taken) <= 1
  /\ {guard, armed} \cup owing \cup open \subseteq 0..Executions
  /\ wrote \in SUBSET Settings
  /\ hw \in BOOLEAN /\ reason \in Reasons
  /\ exc \in {"none", "refusal", "guard", "sweep", "other", "interrupt"}
  /\ sampler \in {"none", "idle", "live", "late"}
  /\ p99 \in BOOLEAN
  /\ slo \in {"none", "given", "stock", "modified"}
  /\ shown \in 0..MaxInvocations
  /\ faults \in 0..MaxFaults

NewRunner(s) == /\ stage' = s
                /\ runs' = <<>> /\ taken' = <<>> /\ p99' = FALSE
                /\ hw' = FALSE /\ reason' = NoReason
                /\ wrote' = {}

\* A process ends, whatever it had in memory.
Ends == /\ pc' = "idle" /\ back' = "idle"
        /\ NewRunner("sweep")
        /\ guard' = 0 /\ armed' = 0 /\ owing' = {} /\ open' = {}
        /\ exc' = "none" /\ sampler' = "none"
        /\ slo' = "none" /\ shown' = Free

Init == /\ dev = Stock /\ claim = Free /\ json = NoJson
        /\ inv = 0 /\ cmd \in Commands
        /\ pc = "idle" /\ back = "idle" /\ stage = "sweep"
        /\ runs = <<>> /\ taken = <<>> /\ p99 = FALSE
        /\ hw = FALSE /\ reason = NoReason /\ wrote = {}
        /\ guard = 0 /\ armed = 0 /\ owing = {} /\ open = {}
        /\ exc = "none" /\ sampler = "none" /\ slo = "none" /\ shown = Free
        /\ faults = 0

At(l) == pc = l
Goto(l) == pc' = l

\* Only pc moves, and what the action names besides.
Raise(e, l) == exc' = e /\ Goto(l)
Calm == UNCHANGED exc

\* sweep.main returns; benchmark goes on to render what is in its directory.
Returns == Goto(IF cmd.kind = "benchmark" THEN "render" ELSE "hooks")

-----------------------------------------------------------------------------
(* The command line *)

\* Refusals that depend on the arguments and the caller only.
SweepRefuses(c) == (Writes(c) /\ ~c.allowed) \/ (c.clocks /\ c.low)
BenchmarkRefuses(c) == c.kind = "benchmark" /\ ~c.allowed

\* A command is given.  Without --out the output directory is a new one.
Invoke ==
  /\ At("idle")
  /\ inv < MaxInvocations
  /\ inv' = inv + 1
  /\ cmd' \in Commands
  /\ ~BenchmarkRefuses(cmd')
  /\ json' = IF cmd'.fresh THEN NoJson ELSE json
  /\ slo' = IF cmd'.slo THEN "given" ELSE "none"
  /\ LET calibrates == cmd'.kind # "sweep" /\ ~cmd'.slo
     IN  /\ NewRunner(IF calibrates THEN "calibrate" ELSE "sweep")
         /\ Goto(IF calibrates THEN "warm" ELSE IF cmd'.kind = "calibrate" THEN "hooks" ELSE "args")
  /\ UNCHANGED <<dev, claim, shown, guard, armed, owing, open, back, exc, sampler, faults>>

CheckArguments ==
  /\ At("args")
  /\ IF SweepRefuses(cmd) THEN Returns ELSE Goto("open")
  /\ UNCHANGED <<outsideVars, commandVars, guardVars, runVars, abortVars, back, exc, sampler,
                 faults>>

\* Mutant: the preflight looks at the device only.
StaleIgnoresRecord == "power" \in dev

\* check_stale_state: a cap can be read from the device, a lock cannot, only a
\* record says so.
Stale == claim # Free \/ "power" \in dev

\* The probe controller and the preflight, for a sweep that writes.
OpenDevice ==
  /\ At("open")
  /\ \/ ~Writes(cmd) /\ Succeeds /\ Goto("sampler")
     \/ Writes(cmd) /\ Succeeds /\ IF Stale THEN Returns ELSE Goto("sampler")
     \/ Writes(cmd) /\ Failing /\ Returns
  /\ UNCHANGED <<outsideVars, commandVars, guardVars, runVars, abortVars, back, exc, sampler>>

\* A sweep that writes is not run without a sampler.
OpenSampler ==
  /\ At("sampler")
  /\ \/ Succeeds /\ sampler' = "idle" /\ Goto("warm")
     \/ Failing /\ UNCHANGED sampler /\ IF Writes(cmd) THEN Returns ELSE Goto("warm")
  /\ UNCHANGED <<outsideVars, commandVars, guardVars, runVars, abortVars, back, exc>>

-----------------------------------------------------------------------------
(* SweepRunner.run *)

WarmUp ==
  /\ At("warm")
  /\ \/ Succeeds /\ Calm /\ Goto("next")
     \/ Failing /\ Raise("other", "abort")
  /\ UNCHANGED <<outsideVars, commandVars, guardVars, runVars, abortVars, back, sampler>>

\* The next execution, if there is one.
NextPoint ==
  /\ At("next")
  /\ Goto(IF Len(runs) = Executions
            THEN IF stage = "calibrate" THEN "calibrated" ELSE "final"
          ELSE IF Current = Stock THEN "settle" ELSE "build")
  /\ UNCHANGED <<outsideVars, commandVars, guardVars, runVars, abortVars, back, exc, sampler,
                 faults>>

\* guard_factory: a controller of its own; _point_writes starts anew after it.
BuildGuard ==
  /\ At("build")
  /\ \/ /\ Succeeds /\ Calm /\ Goto("arm")
        /\ guard' = Len(runs) + 1
        /\ open' = open \cup {guard'}
        /\ wrote' = {}
     \/ Failing /\ Raise("other", "abort") /\ UNCHANGED <<guard, open, wrote>>
  /\ UNCHANGED <<outsideVars, commandVars, armed, owing, runVars, abortVars, back, sampler>>

\* __enter__: refused over any outstanding record; the handlers are installed
\* even if the claim then cannot be published.
Arm ==
  /\ At("arm")
  /\ \/ /\ claim # Free /\ Succeeds
        /\ Raise("refusal", "flag")
        /\ UNCHANGED <<claim, armed>>
     \/ /\ claim = Free /\ Succeeds /\ Calm
        /\ claim' = inv /\ armed' = guard
        /\ Goto(IF "clock" \in Current THEN "clock" ELSE "power")
     \/ /\ claim = Free /\ Failing
        /\ armed' = guard
        /\ Raise("other", "flag")
        /\ UNCHANGED claim
  /\ UNCHANGED <<dev, json, commandVars, guard, owing, open, wrote, runVars, abortVars, back,
                 sampler>>

\* lock_clocks and set_power_limit_mw: the guard owes a restore from before the
\* call on, which the driver may refuse or fail, with or without effect.  A cap
\* outside the device's range is refused before that.
Write(s, next) ==
  /\ At(s)
  /\ \/ /\ Succeeds /\ Calm /\ Goto(next)
        /\ owing' = owing \cup {guard}
        /\ dev' = dev \cup {s}
        /\ wrote' = wrote \cup {s}
        /\ UNCHANGED back
     \/ /\ Failing
        /\ \E e \in {"refusal", "other"} : Raise(e, "restore")
        /\ owing' = owing \cup {guard}
        /\ dev' \in {dev, dev \cup {s}}
        /\ back' = "flag"
        /\ UNCHANGED wrote
     \/ /\ s = "power" /\ Failing
        /\ Raise("guard", "restore")
        /\ back' = "flag"
        /\ UNCHANGED <<dev, owing, wrote>>
  /\ UNCHANGED <<claim, json, commandVars, guard, armed, open, runVars, abortVars, sampler>>

WriteClock == Write("clock", IF "power" \in Current THEN "power" ELSE "settle")
WritePower == Write("power", "settle")

\* The settling time is over: the sampler's thread starts and the load runs.  A
\* thread still there looks at the new stop event, and polls with the new one.
Settle ==
  /\ At("settle") /\ Goto("load")
  /\ sampler' = IF sampler = "none" THEN "none" ELSE "live"
  /\ UNCHANGED <<outsideVars, commandVars, guardVars, runVars, abortVars, back, exc, faults>>

\* Mutant: the sampler is stopped after the load, not in a finally clause.
StopSamplerNot == UNCHANGED sampler
\* stop() waits five seconds for the thread; one in a driver call outlives that.
StopSampler == sampler' \in IF sampler = "none" THEN {"none"} ELSE {"idle", "late"}

\* Out of _measure: a guarded point leaves the with statement.
LeavePoint(l) ==
  IF Current = Stock THEN Goto(l) /\ UNCHANGED back ELSE Goto("restore") /\ back' = "flag"

\* The load generator returns, or raises; the digest of its schedule may differ.
EndLoad ==
  /\ At("load")
  /\ StopSampler
  /\ \/ /\ Succeeds /\ Calm
        /\ LeavePoint("next")
        /\ p99' \in IF Current = Stock THEN {p99, TRUE} ELSE {p99}
        /\ IF Current = Stock THEN runs' = Append(runs, dev) /\ UNCHANGED taken
                              ELSE taken' = Append(taken, dev) /\ UNCHANGED runs
     \/ /\ Failing
        /\ exc' \in {"other", "sweep"}
        /\ LeavePoint("abort")
        /\ UNCHANGED runVars
  /\ UNCHANGED <<outsideVars, commandVars, guardVars, abortVars>>

\* An interrupted load: its finally clause ...
Unwind ==
  /\ At("unwind") /\ Goto("leave")
  /\ StopSampler
  /\ UNCHANGED <<outsideVars, commandVars, guardVars, runVars, abortVars, back, exc, faults>>

\* ... and then, or from anywhere else in the point, the with statement's.
Leave ==
  /\ At("leave")
  /\ LeavePoint("abort")
  /\ UNCHANGED <<outsideVars, commandVars, guardVars, runVars, abortVars, exc, sampler, faults>>

-----------------------------------------------------------------------------
(* GpuGuard.restore, of the last guard that armed: from __exit__ (to flag),  *)
(* from the signal handler (to where the exception lands, or to exit) and    *)
(* from the exit hooks.                                                      *)

RestoreRaises == IF back = "flag" THEN exc' = "guard" ELSE UNCHANGED exc

\* Mutant: the claim is given up whether or not the restore succeeded.
GivesUpAnyway == Goto("release")
GivesUp == Goto(back)

\* The device is put back through the guard's own controller.
Restore ==
  /\ At("restore")
  /\ \/ /\ armed \notin owing /\ Succeeds
        /\ Goto("release")
        /\ UNCHANGED <<dev, owing, exc>>
     \/ /\ armed \in owing \cap open /\ Succeeds
        /\ dev' = Stock
        /\ owing' = owing \ {armed}
        /\ Goto("release") /\ Calm
     \/ /\ armed \in owing
        /\ \/ armed \in open /\ Failing /\ dev' \in SUBSET dev
           \/ armed \notin open /\ Succeeds /\ UNCHANGED dev
        /\ GivesUp /\ RestoreRaises
        /\ UNCHANGED owing
  /\ UNCHANGED <<claim, json, commandVars, guard, armed, open, wrote, runVars, abortVars, back,
                 sampler>>

\* A release that cannot be written is left for the next restore.
Release ==
  /\ At("release")
  /\ \/ Succeeds /\ claim' = IF claim = inv THEN Free ELSE claim
     \/ claim = inv /\ Failing /\ UNCHANGED claim
  /\ Goto(back)
  /\ UNCHANGED <<dev, json, commandVars, guardVars, runVars, abortVars, back, exc, sampler>>

-----------------------------------------------------------------------------
(* After a point, after the run *)

\* Mutant: what the guard owes is not looked at.
StillOwesNot == FALSE
StillOwes == guard \in owing

Discard == taken' = <<>>

\* The finally clause of _run_point.
Flag ==
  /\ At("flag")
  /\ hw' = (hw \/ StillOwes)
  /\ Discard
  /\ IF exc = "none" THEN runs' = runs \o taken /\ Goto("next")
                     ELSE UNCHANGED runs /\ Goto("abort")
  /\ UNCHANGED <<outsideVars, commandVars, guardVars, p99, reason, back, exc, sampler, faults>>

Verdict ==
  CASE exc = "refusal" -> IF wrote = {} THEN "refused: nothing written" ELSE "refused: restored"
    [] exc = "guard" -> IF hw THEN "guard: modified" ELSE "guard"
    [] exc = "sweep" -> "sweep"
    [] OTHER -> IF hw THEN "failed: modified"
                ELSE IF wrote # {} THEN "failed: restored" ELSE "failed"

\* The except clauses of run; Ctrl-C passes them.
Abort ==
  /\ At("abort")
  /\ IF exc = "interrupt"
       THEN /\ Goto(IF stage = "calibrate" THEN "hooks" ELSE "final")
            /\ UNCHANGED <<reason, exc>>
       ELSE /\ Goto(IF stage = "calibrate" THEN "calibrated" ELSE "final")
            /\ reason' = Verdict
            /\ exc' = "none"
  /\ UNCHANGED <<outsideVars, commandVars, guardVars, runVars, hw, back, sampler, faults>>

\* calibrate_slo's verdict; benchmark then parses the grid and sweeps.
Calibrated ==
  /\ At("calibrated")
  /\ LET budget == IF \E i \in DOMAIN runs : runs[i] # Stock THEN "modified" ELSE "stock"
     IN  IF reason # NoReason \/ ~p99
           THEN Succeeds /\ Goto("hooks") /\ UNCHANGED <<slo, stage, runVars, abortVars, wrote>>
         ELSE IF cmd.kind = "calibrate"
           THEN /\ Succeeds /\ Goto("hooks") /\ slo' = budget
                /\ UNCHANGED <<stage, runVars, abortVars, wrote>>
         ELSE /\ slo' = budget
              /\ \/ Succeeds /\ Goto("args") /\ NewRunner("sweep")
                 \/ Failing /\ Goto("hooks") /\ UNCHANGED <<stage, runVars, abortVars, wrote>>
  /\ UNCHANGED <<outsideVars, inv, cmd, shown, guard, armed, owing, open, back, exc, sampler>>

CloseSampler ==
  /\ At("final") /\ Goto("close")
  /\ sampler' \in IF sampler \in {"live", "late"} THEN {"none", "late"} ELSE {"none"}
  /\ UNCHANGED <<outsideVars, commandVars, guardVars, runVars, abortVars, back, exc, faults>>

\* Mutant: NVML is shut down whatever the guards owe.
MayCloseAlways == TRUE
MayClose == ~hw

CloseControllers ==
  /\ At("close") /\ Goto("write")
  /\ open' = IF MayClose THEN {} ELSE open
  /\ UNCHANGED <<outsideVars, commandVars, guard, armed, owing, wrote, runVars, abortVars, back,
                 exc, sampler, faults>>

Why == IF exc = "interrupt" THEN "unexpected" ELSE reason

\* The report of the run, partial or not; pick_best chooses among the points of
\* a sweep that was not aborted.
WriteOutputs ==
  /\ At("write")
  /\ \/ /\ Succeeds
        /\ \E b \in IF Why = NoReason THEN BOOLEAN ELSE {FALSE} :
             json' = [by |-> inv, runs |-> runs, hw |-> hw, reason |-> Why, best |-> b,
                      wrote |-> wrote]
     \/ Failing /\ json' \in {json, NoJson}
  /\ IF exc = "interrupt" THEN Goto("hooks") ELSE Returns
  /\ UNCHANGED <<dev, claim, commandVars, guardVars, runVars, abortVars, back, exc, sampler>>

\* benchmark prints the sweep.json it finds.
Render ==
  /\ At("render") /\ Goto("hooks")
  /\ shown' = json.by
  /\ UNCHANGED <<outsideVars, inv, cmd, stage, slo, guardVars, runVars, abortVars, back, exc,
                 sampler, faults>>

\* Exit hooks: the last guard's retries; the others owe nothing (DebtHeld).
ExitHooks ==
  /\ At("hooks")
  /\ IF armed = 0 THEN Goto("exit") /\ UNCHANGED back ELSE Goto("restore") /\ back' = "exit"
  /\ UNCHANGED <<outsideVars, commandVars, guardVars, runVars, abortVars, exc, sampler, faults>>

-----------------------------------------------------------------------------
(* Signals and death *)

\* Where KeyboardInterrupt is caught next, by where it was raised.  The sampler is
\* started before the try statement whose finally clause stops it, and Ctrl-C may
\* come between the two, or in stop() itself: nothing stops it then.
Landing(l) ==
  CASE l = "load" -> {"unwind", "leave"}
    [] l \in {"clock", "power", "settle", "unwind", "leave"} -> {"leave"}
    [] l \in {"arm", "restore", "release"} -> {"flag"}
    [] l \in {"warm", "next", "build", "flag", "abort"} -> {"abort"}
    [] OTHER -> {"hooks"}

\* An armed guard's handler restores before it raises.
Interrupt ==
  /\ pc \in InterruptedAt
  /\ pc \in {"restore", "release"} => back = "flag"
  /\ Failing
  /\ exc' = "interrupt"
  /\ \E l \in Landing(pc) : IF armed = 0 THEN Goto(l) /\ UNCHANGED back
                                         ELSE Goto("restore") /\ back' = l
  /\ UNCHANGED <<outsideVars, commandVars, guardVars, runVars, abortVars, sampler>>

\* SIGTERM: the handler restores, and the process dies of the signal.
Terminate ==
  /\ Running /\ back # "exit" /\ pc # "exit"
  /\ IF armed = 0 THEN Goto("exit") /\ UNCHANGED back ELSE Goto("restore") /\ back' = "exit"
  /\ UNCHANGED <<outsideVars, commandVars, guardVars, runVars, abortVars, exc, sampler, faults>>

Exit == At("exit") /\ Ends /\ UNCHANGED <<outsideVars, inv, cmd, faults>>

\* SIGKILL, a crash.
Kill == Running /\ Ends /\ UNCHANGED <<outsideVars, inv, cmd, faults>>

-----------------------------------------------------------------------------
(* Outside *)

processVars == <<commandVars, guardVars, runVars, abortVars, pc, back, exc, sampler, faults>>

\* The operator runs recovery over the record of a dead process.
Recover ==
  /\ claim \in 1..inv /\ (claim = inv => ~Running)
  /\ IF dev # Stock THEN dev' = Stock /\ UNCHANGED claim ELSE claim' = Free /\ UNCHANGED dev
  /\ UNCHANGED <<json, processVars>>

\* Another program with a guard of its own.
NeighbourActs ==
  /\ \/ inv \in Shared /\ claim = Free /\ claim' = Neighbour /\ UNCHANGED dev
     \/ claim = Neighbour /\ dev' \in {Stock, {"clock"}} /\ UNCHANGED claim
     \/ claim = Neighbour /\ dev = Stock /\ claim' = Free /\ UNCHANGED dev
  /\ UNCHANGED <<json, processVars>>

-----------------------------------------------------------------------------
SweepStep == \/ CheckArguments \/ OpenDevice \/ OpenSampler
             \/ WarmUp \/ NextPoint \/ BuildGuard \/ Arm \/ WriteClock \/ WritePower
             \/ Settle \/ EndLoad \/ Unwind \/ Leave \/ Restore \/ Release \/ Flag \/ Abort
             \/ Calibrated \/ CloseSampler \/ CloseControllers \/ WriteOutputs
             \/ Render \/ ExitHooks \/ Exit

Next == Invoke \/ SweepStep \/ Interrupt \/ Terminate \/ Kill \/ Recover \/ NeighbourActs

Spec == Init /\ [][Next]_vars

-----------------------------------------------------------------------------
\* What was published is true, now and after its process is gone: a report that
\* does not warn is that of a sweep that left nothing on the device, and one
\* that names a best point is of complete rounds and of no failure.
ReportTruthful ==
  /\ json.by # Free /\ ~json.hw => ~(claim = json.by /\ dev # Stock)
  /\ json.best /\ json.by = inv =>
       Len(json.runs) = Executions /\ json.reason = NoReason /\ ~json.hw

\* What is reported under a point's name was measured with that point's
\* settings: always for a point with a guard, and for a stock point of a sweep
\* that made sure of the card, unless another program came in meanwhile.
MeasuredAsNamed ==
  stage = "sweep" =>
    \A i \in DOMAIN runs :
      PointAt(i) # Stock \/ (Writes(cmd) /\ inv \notin Shared) => runs[i] = PointAt(i)

\* A guard that owes a restore is the one whose signal handler is installed,
\* it has the record outstanding, and NVML is open for it.
DebtHeld ==
  /\ TypeOK
  /\ owing # {} => owing = {armed} /\ claim = inv /\ armed \in open

\* Signals are blocked in one thread only, so the sampler's must not run when a
\* guard writes or restores.  It is never polling when a guard writes, and when
\* one restores on leaving its with statement only if Ctrl-C is what leaves it:
\* no failure of the load or of a write lets it run on.  (Told to stop, it may be
\* in its last call still.)
QuietRestore ==
  sampler = "live" => /\ pc \notin {"clock", "power"}
                      /\ pc \in {"restore", "release"} /\ back = "flag" => exc = "interrupt"

\* No thread of the sampler is there when a guard restores at the end of a point.
NoSamplerLeft ==
  pc \in {"restore", "release"} /\ back = "flag" => sampler \in {"none", "idle"}

\* The sweeps and their neighbours keep the contract of the record.
Contract == INSTANCE Custody WITH Holders <- 1..Neighbour, Nobody <- Free,
                                  holder <- claim, modified <- dev # Stock
CustodyKept == Contract!Spec
=============================================================================
