# joule-agent in TLA+

joule-agent measures the energy of LLM serving on a GPU and changes the GPU's
clock and power settings to do so.  One module of it, `joule_agent/gpu_guard.py`,
is the only code that changes hardware state, and its contract is the point of
the project: *whatever happens -- clean exit, exception, SIGINT, SIGTERM or a
hard kill -- the GPU returns to stock*.  The driver cannot be asked whether a
clock lock is applied, so the state file a guard writes is the only evidence of
one.  This directory models that machinery, checks it with TLC and proves its
safety with TLAPS.  Around it, it models what uses the guard and what reports on
the measurements: the sweep and the benchmark, the two gates that ask whether
settings work at all, the load generator, the telemetry recorder, the figures and
the verdict of a sweep, and the conversation of an operator with the status and
recovery commands on a machine with several cards.

File names without a directory are under `src/joule_agent/`; `tools/` is
`src/tools/`.

## 1. The system

| part | source | state it keeps | operations | what is hard |
|---|---|---|---|---|
| GPU write guard | `gpu_guard.py` `GpuGuard` | `state` (the record), `_armed`, `_published`, `_restored`, snapshot, handlers | `arm`, `lock_clocks`, `set_power_limit_mw`, `restore`, `_signal_restore`, `_atexit_restore` | the handler runs `restore()` between any two steps of another method; kills; failing driver calls and file writes |
| state file | `gpu_guard.py` `_write_state`, `_load_state` | one record, published by `os.replace` | publish, read as absent / ok / unreadable | it outlives its process; three schemas; damage |
| recovery command | `gpu_guard.py` `restore_from_state_file` | the record it read, its errors | reset, power, holder check, publish | runs beside live guards; stale reads; retried after failure; another card's record |
| status command | `gpu_guard.py` `check_stale_state` | none | report, recommend | two tiers: verified power, asserted clocks; its exit 0 is a promise about every card |
| NVML controllers | `gpu_guard.py` `NvmlGpuController`, `FakeGpuController` | the handle, who claims it, closed | set, reset, snapshot, close | writes after `close()`; privilege |
| sweep | `sweep.py` `main`, `SweepRunner` | measured runs, `_point_writes`, `hardware_may_be_modified` | preflight, warm-up, rounds x points, abort, report | failure in the middle of a point; NVML shutdown over a debt; what an abort reports |
| sweep result | `sweep.py` `SweepResult` | runs by point | SLO, drift, `pick_best`, warnings | missing figures, ties, partial sweeps |
| benchmark | `benchmark.py` | the frozen SLO | calibrate, sweep, report | freezing a threshold without data; whose `sweep.json` it prints |
| telemetry | `telemetry.py` `TelemetryRecorder` | cursors, writers, loss events | start, drain thread, stop | ring overwrite between drains; stop racing the thread |
| load generator | `loadgen.py` `LoadGenerator` | results, lateness, threads | dispatch, fire, poll, join with timeout, finalise | late threads; a server that never answers |
| workload fingerprint | `workload.py` | none | parse and difference `/metrics` | counters that start anew |
| power-cap and clock-lock gates | `tools/verify_power_cap.py`, `tools/verify_clock_lock.py` | the phases | phases under guards, judge, `--rejudge` | order of judgement, boundaries; a restore that is only claimed |
| idle oracle, capture and analysis scripts | `tools/*.py`, `tools/*.sh` | none | one-shot analysis | arithmetic only |

How they interact: the sweep, the benchmark and the gates reach the device
through `with gpu_guard(...)` only.  Several such processes share the device and
the state file; nothing else connects them, and there is deliberately no lock
between processes (`gpu_guard.py:19-48`).  The operator runs `gpu_guard restore`
after a hard kill and may set a power cap with another tool while no guard is
about.  Within a process, signals interrupt the main thread, the load generator,
the recorder and the sweep's sampler run helper threads, and `atexit` runs
`restore()` one last time.

What makes each part correct:

* guard and state file: while the device differs from what the operator left, an
  outstanding record says so, names every change and is enough to undo it; an
  armed guard owns the record; nobody takes another's settings for stock.
* recovery and status: they destroy no evidence that is still owed, replay no
  settled cap, never settle one card's debt on another, and what they tell the
  operator to do ends with the debt paid.
* sweep and benchmark: every point is measured on the settings it is named after,
  a report is true of the card it leaves behind, NVML stays open over a debt.
* gates: what they say of the card is true of it, and no verdict passes over a
  restore that had no effect.
* telemetry: every sample is written once and in order, or a loss is recorded.
* load generator: a summary counts each request once, the schedule is offered
  whatever the server does; the best point is the best of what truly was measured.

`PROJECT.json` lists the components with their status and, under `hazards`,
where each of these can go wrong.

## 2. Modules

| module | models | extends |
|---|---|---|
| `GuardState` | the device and the state file that all processes share; the record and its assignments; the success or failure of a call | |
| `GpuGuard` | the guard object in each process: `arm`, the two writers, `restore` in two frames, signals, exit, kill | `GuardState` |
| `Recovery` | `restore_from_state_file`, one run at a time | `GpuGuard` |
| `GuardSystem` | guards, recovery, operator and file damage together; the properties; the refinement of `Custody` | `Recovery` |
| `Custody` | the abstract contract: who has custody, may the device be modified | |
| `Cards` | one state file on a machine with several cards: whose record is it, what `status` and `restore` say, an operator who does it | |
| `Sweep` | `sweep.main`, `SweepRunner`, `benchmark.main`: one command after another; refines `Custody` too | |
| `Ranks` | the m-th of some values in their order | |
| `SweepResult` | the figures of a run, `SweepResult.finalise`, the printed verdict | `Ranks` |
| `Judges` | the judges of the two gates, as operators | |
| `Verification` | a run of either gate, and `--rejudge` | `Judges`, `Ranks` |
| `LoadGen` | `LoadGenerator.run`, its request threads, its queue poller | |
| `TelemetryRecorder` | the driver's sample rings, the recorder, its drain thread and `stop()` | |
| `GuardInvariant` | the inductive invariant behind the guard's safety | `GuardSystem` |
| `SweepInvariant`, `CardsInvariant`, `RecorderInvariant`, `LoadInvariant`, `VerificationInvariant` | the inductive invariants behind the safety of `Sweep`, `Cards`, `TelemetryRecorder`, `LoadGen`, `Verification` | the module each is about |
| `GuardSystem_proofs` | type correctness; the inductive invariant, the safety properties and the refinement | `GuardInvariant`, `TLAPS` |
| `Sweep_proofs`, `Cards_proofs`, `TelemetryRecorder_proofs`, `LoadGen_proofs` | the same for the other components: invariant, safety, and for `Sweep` the refinement | the invariant's module, `TLAPS` |
| `SweepResult_proofs` | the invariant at the end of `SweepResult`, and its properties | `SweepResult`, `FiniteSums` |
| `FiniteSums` | lemmas on sums over finite sets and on ranks, for `LoadGen`, `SweepResult` and `Verification` | `Ranks`, `TLAPS` |
| `Verification_proofs` | what the verdicts mean, for all margins and measurements; the invariant of a run, and its properties | `VerificationInvariant`, `FiniteSums` |
| `MCGuardSystem`, `MCCards`, `MCSweep`, `MCSweepResult`, `MCVerification`, `MCLoadGen`, `MCTelemetryRecorder` | constants for TLC | |

### The guard

`dev` is the device (is a clock lock applied; which cap), `file` the state file
with its record, `aside` a quarantined copy.  `opCap` is the one ghost: the cap
the operator wants, from which `Modified` is defined.  Of the record the model
keeps `pid`, `clocks` (`clocks_locked`), `power` (`power_limit_written_mw is not
None`), `snap` (what `restore()` and recovery derive from the snapshot: the limit,
else the default limit, else nothing), `restored` and `failed`.  Frequencies, time
stamps and messages are left out.

Per guard process, `armed`, `published`, `owing` (= `not _restored`) and
`installed` are sets of processes, `st[p]` is `self.state`, `err` the errors
`restore()` has collected.  `pc[p]` has two labels, because two activations of
the guard's methods can be on the stack: `"main"`, the caller's, and `"hand"`,
the signal handler's.  The handler may start between any two steps of main
except where the code blocks signals, and main does not move while it runs.
A step of the model is what the code does between two points at which a signal
or another process can tell the difference: what runs under `_deferred_signals`
is one step (the writers' mark and NVML call are two, since a kill can fall
between them, and no handler starts there).  Each action's comment names its
method; `PROJECT.json` `map` gives the lines.

The end of the handler follows `_signal_restore`: an ignored signal lets the
frame resume, SIGINT raises `KeyboardInterrupt` in it, SIGTERM ends the process
without `atexit`.  Every driver call and file write may fail: it raises and
changes nothing (`_write_state` publishes by `os.replace`).

`GuardSystem` has two specifications.  `Spec` is everything.  `SerialSpec` adds
`Serial`: at most one process is between its busy check and the publish of its
claim, no process is there while recovery runs, no guard dies while recovery
runs, and `--force-power-default` is not given under an armed guard.  The first
is the race the source documents and accepts (`gpu_guard.py:19-31`, `501-508`),
the others the windows of recovery; `RecoveryOverDeath` shows what happens in one
of them.

### Cards

`enum` is the enumeration order (`--gpu i-1` is `enum[i]`), `reads` the cards whose
UUID can be read, `hw` what each card is set to, `file` the record with the index
and the UUID it names, `about` the card the guard really held.  `told` is the last
piece of advice `status` or `restore` gave; the operator does that next: `check`
(run status), `restore` on an index, `quarantine`, `read` (reload the driver until
the UUID can be read, or lift the cap by force), `find` (list the cards by UUID),
`pick` ("pass one of those indices"), `stop` (stop the holder).  `Mismatch` is
`_device_mismatch`, `Stale` and `Recommended` are `check_stale_state`, `Recover` is
`restore_from_state_file` as one step with an outcome, `Elsewhere` the sentence
about a record that is not this card's.  `asked` and `untracked` are history: the
limit the operator set, and whether evidence was lost outside the package or an
index without a UUID misled.

### Sweep and benchmark

A guard is here what its caller sees of it: `arm` refuses or claims, a writer
changes the device or raises (with or without effect), `restore` puts the device
back and then gives the claim up, or raises.  The device is the set of its settings
that are not stock, a point of the grid the set of settings it asks for.  `pc` walks
through `main` and `run`; `back` is where a `restore()` returns to, since `__exit__`,
the signal handler and the exit hooks all call it.  `open` says which guards'
controllers still have NVML open, `owing` which guards owe a restore, `hw` is
`hardware_may_be_modified`, `json` the `sweep.json` in the output directory, which
outlives the process and which a benchmark run later with the same `--out` finds.
A command line is drawn from `Commands`, processes follow one another, and a
neighbour with a guard of its own may use the card during the invocations in
`Shared`.  `sampler` is the thread that polls during a load: `stop()` waits five
seconds for it, so that it may be `"late"`, on the way out of its last call; and a
Ctrl-C between its start and the `try` that stops it, or in `stop()` itself, leaves it
polling (from `unwind` to `leave`).

### SweepResult

A run reads each counter before and after the load; the readings are those of a load
`Loads` allows over a counter that held one of `Warms`, and a read may fail or the
counter may start anew at any moment between.  `outran` marks a run in which one did
under a load that counts as much as it had held: that restart the code cannot see.
Means are exact fractions (the code uses floats), the standard deviation is compared by
its square.  The figures of a point are a function of the runs that have one (`Jpts`,
`P99s`, `Clocks`), so that means, medians and the order of the points are said by sums
and cardinalities, of which the provers know more than of sorted lists.  `true` is the
figure the run would have with perfect readings.

### The gates

`Verification` runs either tool: `args`, `range` (power only), then for every phase
`build`, `arm`, `lock`, `cap`, `measure`, `restore`, `close`, and the judge over the
phases.  The card is one of `Cards`: it may ignore locks, or caps (`obeys`).  Without a
lock it drifts over `Boosts`, farther than the tools' margins.  A reset may be accepted
without effect.  `Under` gives the clock and the peak power of a loaded card under a
lock and a cap.  `Tested` are the caps, deduplicated and the greatest first, or the
targets in their order: phase `i + 1` is under the `i`-th of them.  `Rejudged` is
`--rejudge`, an operator over the phases in the file: one tool asks for each cap by its
name and takes the last phase of that name, the other takes the locked phases as they
come.  `Judges` has the judges with all their margins as constants, in the order the
code asks its questions.

### Load generator

`thread[r]` is a request's thread in an open loop and a worker in a closed one; the
counters are updated under the lock, so each update is a step.  The server may
answer in any order, fail or never answer: a thread may stay in its call for good.
The `endpoint` may lack its scheme: then `urllib` raises where the request is put
together, outside the `try`, and the thread is `"lost"` with a request that was counted
as sent.
Joins may give up on a thread at any time.

### Telemetry recorder

A sample is its number in its stream (the driver's time stamp), the driver's ring of
a stream the last `Capacity` of them, the energy counter the clock.  `cursor`,
`counts`, `energy`, `stopping` are the fields of the class; `lossy` says whether
`loss_events` holds an event that makes `integrity.clean` false, `unread` whether
`poll_errors` counted an unread energy counter; `rows` is what a stream's file was
given, one set per drain.  `seed` and `asked` are ghosts: where the streams were at
`start()`, what there was when `stop()` was called, and whether its join gave up.
`unwritten` are the files with rows still in their buffer after a failed flush,
`dropped` those whose `close()` then failed too, which is passed over.
The worker and the main thread run the same four steps of `_drain_once` over the
same fields, a driver call and what is done with its result being two steps, since
the other thread runs between them.  A driver call, a flush or a close may fail: the
first is caught for the stream, the second ends the thread, the third is ignored.

## 3. Properties and runs

| property | says |
|---|---|
| `GuardSystem!TypeOK`, `IInv` | types; the invariant of section 5 |
| `Evidence` | a modified device has an outstanding record, or an unreadable file in place or set aside |
| `IntentNamed` | the outstanding record names the lock, the cap, or both: recovery undoes only a cap that is named (this and the next two until a damaged record was set aside) |
| `Recoverable` | the limit it would put back is the operator's |
| `SnapshotIsStock` | no guard holds another's setting as its stock setting |
| `ArmedMeansHeld` | an armed guard's own unrestored record is in the file, hence one armed guard at a time |
| `UnreadableKept` | a file that cannot be read is only ever moved aside |
| `CustodyKept` | the guards (and, in `Sweep`, the commands and their neighbours) implement `Custody`, with the record's pid as holder |
| `AbandonedRecovers` | a dead guard's device comes back and its record is cleared |
| `RestoreEnds` | a restore, a handler and an exit that began end; a handler always, main's restore unless ignored signals interrupt it for ever |
| `DebtTraceable` | a card that is still changed is the one an unrestored record is about |
| `CleanIsClean` | when `status` exits 0, on whatever GPU, no card of the machine is left changed |
| `OwnLimit` | recovery never puts one card's limit on another |
| `RetiredMeansBack` | a record with a UUID is retired only when its card is back or gone |
| `AdviceEnds` | an operator who does what `status` and `restore` say gets an abandoned debt settled, while the recorded index exists |
| `ReportTruthful` | a `sweep.json` without the warning is that of a sweep that left nothing on the card, now and after its process is gone; one with a best point is of a complete sweep |
| `MeasuredAsNamed` | what is reported under a point's name was measured with its settings |
| `DebtHeld` | the guard that owes a restore has the handlers, the record, and NVML open |
| `QuietRestore` | the sampler never polls while a guard writes, and while one restores on leaving its `with` only if Ctrl-C is what leaves it: no failure of the load or of a write lets it run on |
| `FiguresAreTrue` | unread or restarted counters leave a hole in the figures, never a wrong one, except where the load counted as much as the restarted counter had held |
| `PartialNamesNothing` | an aborted sweep has no best point and `benchmark` reports none |
| `SuggestionSaves` | the suggested clock takes less energy than stock, or stock is too slow for the budget |
| `RelaxingHelps` | a larger budget never makes the best point dearer, nor leaves none |
| `DebtPayable` | a gate's guard that owes a restore keeps NVML open for its exit hook |
| `RestoreAccounted` | no verdict other than a failed or unverified restore is given over a cap that did not come back; LOCK WORKS is not said over a lock left on, if the card obeys locks and could reach the greatest target under the cap it was found with |
| `CardAsTold` | WORKS and IS A NO-OP are true of the card, however far it drifts, except where the drift alone meets what was asked for, or the cap the card was found with kept a lock from showing |
| `RejudgeAgrees` | `--rejudge` gives the run's verdict, or says that the run was incomplete |
| `Accounted` | every request sent is completed, failed or on its way, exactly once, or lost with its thread; none is lost if the endpoint is a URL, and otherwise none is counted as failed |
| `ReportAccounts` | a report's counts agree and are complete, unless a join gave up or the endpoint is no URL; the time spent waiting is no longer than from the first sample to the last |
| `OfferedRegardless`, `RunEnds` | an open loop offers its schedule to a server that never answers; `run()` ends |
| `RowsAscend` | a stream's file holds each sample once, in order, none from before `start()`, unless the join gave up |
| `CleanMeansComplete` | metadata that says clean stands beside files with every sample up to the call of `stop()`, except a file whose flush and then whose `close()` failed |
| `MetaTrue` | the counts of the metadata are those of the files, its energy reaches past the call of `stop()` or the failed reading was counted |
| `StopEnds` | `stop()` returns or raises |

| run | instance | distinct states | shows |
|---|---|---|---|
| `Serial` | 2 guards, either killed at any point, 1 fault, recovery | 317 880 | the guard's safety, `IInv`, the refinement |
| `Solo` | 1 guard, signals, kills, an operator, recovery with all switches, an unreadable limit, another card's record, a reused pid, damage, 2 faults | 913 746 | a restore that fails twice, a recovery that fails, is killed and runs again, no evidence lost to damage, and `IInv` |
| `Live` | 1 guard that ignores SIGINT, 1 fault, `FairSpec` | 75 152 | liveness, also of frames that resume after a handler |
| `Enumerating` | 2 cards, 2 guards, 1 reload, 1 fault, `FairSpec` | 453 551 | cards and their records, and that the advice ends |
| `Sweeping` | 2 commands, 3 faults or Ctrl-C, a neighbour | 1 516 818 | sweep and benchmark |
| `Reporting` | 2 rounds over 3 points, 1 fault, counters that held little or much | 177 126 | figures and verdict |
| `Verifying` | 15 command lines of both gates, 2 faults, cards that obey all, some or none and drift | 1 190 920 | the gates |
| `Loading` | both loops, 2 requests, an endpoint with and without a scheme, `FairSpec` | 749 066 | the load generator |
| `Recording` | 1 stream, 2 faults, a join that may give up, `FairSpec` | 775 547 | the recorder |
| `ResumedRestore` | 2 guards, SIGINT ignored | | `Evidence` violated |
| `HealthyCard` | the power gate, a card that obeys everything, no fault | | `FailureIsReal` violated |
| `LostIndex` | 2 cards, 1 reload, no fault, `FairSpec` | | `AdviceAlwaysEnds` violated |

Twelve more configurations are kept to be run by hand.  `SerialSignals`
(`MCGuardSystem`) is `Serial` with signals, damage and quarantine as well, passes with 2
456 134 states and takes several minutes; in the listed runs these are `Solo`'s, where
no second guard comes after the quarantine. `SweepInduction` (`MCSweep`),
`CardsInduction` (`MCCards`), `RecorderInduction` (`MCTelemetryRecorder`),
`LoadInduction` (`MCLoadGen`), `ResultInduction` (`MCSweepResult`) and
`VerificationInduction` (`MCVerification`) check the inductive invariants of section 5
on the instances of `Sweeping`, `Enumerating`, `Recording`, `Loading`, `Reporting` and
`Verifying`, and pass; the runs check what follows from them.  The other five are
violated, as section 4 describes: `ResumedWriter` (`MCGuardSystem`, `IntentNamed`),
`RecoveryOverDeath` (`MCGuardSystem`, `Evidence`), `LateWorker` (`MCTelemetryRecorder`,
`Ascending`), `LeftRunning` (`MCLoadGen`, `NoThreadLeft`), `LeftPolling` (`MCSweep`,
`NoSamplerLeft`).

Deadlock is checked in `Serial`, `Solo` and `Live`, where the environment can
always go on.  The other systems come to an end (a report is printed, a process
has exited, a bound on commands is reached), so it is not checked there.

### Bounds

Two guards: every hazard is about a guard and the one that comes after it or
beside it, a third adds no new relation to the one record.  Two caps, the
factory's and another: the properties only compare caps.  `MaxFaults`: one failing
call reaches every error path once, two reach an error while handling an error;
the count is bounded because retries would otherwise make the state space
infinite, and `AbandonedRecovers` would be false.  A handler is not interrupted by
a second handler (each delivery ends in the same idempotent `restore()`).  One
recovery run at a time, run again any number of times.  `DefaultSignal` is possible
only while a first `arm` is under way: elsewhere an unarmed process has nothing to
lose.

`Cards`: two cards are enough for a record of another card, an index that moved, one
that is gone and a card that came; one reload between any two steps; two guards, so that
one arms over what another left.  `Sweep`: a grid of stock, a clock, and a clock with a
cap has both writers, the stock branch and a point after a guarded point; two commands,
so that one finds what the other left; three failures, so that a write, its restore and
the retry at exit can all fail.  `Repeats` is 1: a second round repeats the same points
over the same state (`PointAt` and `Executions` are for any number). `SweepResult`: two
rounds are what drift, ties and the standard deviation need, loads lie on both sides of
the noise floor and of the budgets; a counter that held 1 can be outrun by a load, one
that held 300 cannot.  `Verification`: clocks in 10 MHz, margins as the tools' defaults
in proportion: two unlocked clocks, 60 MHz apart as the source has seen them, against a
margin of 45 (here 4); an operator's cap of 110 W that slows the card; requests are in
and out of order, near the boost clock, near each other, twice the same, below the
floor, out of range, unable to bind.  `LoadGen`: two requests, one due later, over two
units of time: late, on time, one answered before or after the other, or never.
`TelemetryRecorder`: a ring of two samples and a clock of three make a ring overflow
before the first drain, between two drains and before the last; two failures, so that a
flush and the `close()` after it can both fail; the profile may be taken of a ring that
is not full.  With two streams (`MCOrder`) the recorder's invariants hold as well, which
takes longer; streams share nothing but the thread.

### Fairness

`GuardSystem!FairSpec` assumes that a method that was called goes on to its end, that
a recovery that was started goes on, and that an operator who sees an outstanding
record runs recovery.  Nothing makes a program call the guard, or a signal or a kill
arrive.  The guards' fairness is strong because `Serial` makes a dying guard wait
while recovery runs, and recovery may be run again and again.  In `Cards` a hold ends,
an exiting process exits, and an operator who was told what to do does it; reloads
and damage are bounded, so the world stops moving under him.  In `LoadGen` `run()`
goes on and time passes; nothing is assumed of the server, hence nothing of the
threads that wait for it.  In `TelemetryRecorder` `stop()` goes on; nothing is
assumed of the worker, which may hang in a driver call.

## 4. Disagreements between the code and what it says

Three are runs that expect a violation.

* `ResumedRestore`.  `_mark_touched` refuses a writer that resumes after an
  ignored signal's handler has surrendered its claim; `restore()` has no such
  check.  A `restore()` interrupted after `if self._restored` resumes, resets the
  clocks and publishes its record over the claim of a guard that armed since.
* `HealthyCard`.  The power gate compares the clock of the recovered phase, which
  is not locked, with that of the baseline, which was.  A card that obeys everything
  and is restored in full is reported as RESTORE FAILED with exit status 3.
* `LostIndex`.  "One sentence that terminates" is only said when the record's index
  is the one that was opened.  Where that index is gone, `restore` sends the operator
  back to it from every other one.

Five more have a configuration to run by hand.

* `ResumedWriter`.  The writers assign their intent before they block signals.
  When the handler's restore runs there and its last write fails, the guard stays
  armed with `clocks_locked` reset; the writer then publishes and locks.
* `RecoveryOverDeath`.  Recovery's clock reset does not wait for the holder
  check.  A guard that writes after it and is killed leaves a record equal to the
  one recovery read and no live holder, so recovery publishes it as restored.
* `LateWorker`.  `stop()` gives up on the worker after its timeout and drains over
  the same cursors.  A worker that had read before the timeout stores the same
  samples again, and sets the cursor back.
* `LeftPolling`.  `sweep.py:375-381` says that the sampler must not outlive its
  measurement, so that no thread but the main one is there to take a signal while a
  guard restores.  `stop()` gives up after five seconds, a Ctrl-C in it leaves the
  thread polling, and so does one between the start and the `try`
  (`sweep.py:382-384`).  `QuietRestore` is what does hold.
* `LeftRunning`.  `sweep.py:375-381` wants no thread alive through a guard's
  restore; a load generator left by an exception leaves its poller and its request
  threads behind (`loadgen.py:506-537` has no `finally`).  They do not write to the
  card; signals delivered to them do run the handler.

Seen while modelling and kept out of the runs by an assumption, or without a
property of their own:

* Recovery compares the record with the one it read and then replaces the file, so a
  claim published in between is lost (`RecoversAlone` excludes it).
* `--quarantine-unreadable` lets arming go on (`gpu_guard.py:856-863`), but the limit
  the lost record was about is still on the card, unless recovery is told to force the
  default: the next guard takes it for stock and `status` comes clean.  Only the copy
  tells.  A first form of `Recoverable` did not say so and held in `Solo` for want of a
  second guard; the proof found it.
* A Ctrl-C between a guard's `__exit__` and the line that sets
  `hardware_may_be_modified` (`sweep.py:548-552`), or on the way out of `main` past
  it, lets NVML be shut down over a debt: the retry at exit then has no NVML.
  `Everywhere` in `MCSweep` leaves these labels out.
* `_point_writes` is cleared after the guard was built and not on the stock branch, so
  an abort there reports the writes of the previous point (`sweep.py:526-534`).
* With `--out` reused, `benchmark` prints the `sweep.json` of an earlier command when
  its own sweep refused to start.
* `benchmark` parses the clocks only after the calibration has been measured.
* A late sampler thread can be revived by a replaced stop event (`sweep.py:1082-1094`).
* The recorder's test for a full ring needs the profile's capacity: without a
  profile, or with one taken of an empty ring, overwritten samples leave no event and
  the metadata says clean (`Depths` excludes it).
* A counter that starts anew and passes its old value within one run is not noticed,
  and the figure is wrong: the exception of `FiguresAreTrue`, which `Reporting` reaches.
* With `--endpoint` given without a scheme and `--model` given, every request dies with
  its thread and is neither completed nor failed in the report (`loadgen.py:445-450`).
* The control check of the power gate refuses an unlocked baseline only where it is
  farther than the margin from the clock asked for.  The tool's own comments put the
  drift of an unlocked card beyond that margin (`verify_power_cap.py:95-98`,
  `486-490`), so that a card which ignores both settings, and is at the clock asked for
  when the baseline is measured and below it under each cap, can be told CAP WORKS.
* A flush that fails kills the drain thread with rows in the buffer; a `close()` that
  then fails loses them beside metadata that says clean (`telemetry.py:690-692`).
* The drift warning compares the first and the last run that have a figure, whatever
  their rounds.
* A restore that fails after the baseline phase of the power gate, which held a
  lock, ends in the refusal status and not in the one that says so; an exception in
  the recovered phase ends in status 1 without a file.
* A reading of the limit that fails while the default limit can be read
  (`SnapshotReads` containing `"default"`) makes the guard restore the factory limit,
  whatever the operator's was.  The source chooses this (`gpu_guard.py:1297-1302`);
  the runs leave it out, since `Evidence` measures against the operator's cap.

## 5. Proofs

TLAPS proves, for every value of the constants that the modules' assumptions allow
(any sets of guards, cards, points, requests and streams, any bounds on faults and
time, any margins and measurements):

| theorem | module | establishes |
|---|---|---|
| `TypeCorrect` | `GuardSystem_proofs` | `Spec => []TypeOK` |
| `SerialTypeCorrect` | `GuardSystem_proofs` | `SerialSpec => []TypeOK` |
| `Inductive` | `GuardSystem_proofs` | under `Premises`, `SerialSpec => []IInv` |
| `EvidenceHolds`, `IntentNamedHolds`, `RecoverableHolds`, `ArmedMeansHeldHolds`, `SnapshotIsStockHolds` | `GuardSystem_proofs` | under `Premises`, the five safety properties of `SerialSpec` |
| `CustodyHolds` | `GuardSystem_proofs` | under `Premises` and `~Corruptible`, `SerialSpec => CustodyKept`, the refinement |
| `UnreadableKeptHolds` | `GuardSystem_proofs` | under `Premises`, `SerialSpec => UnreadableKept`, an action property |
| `LockWorksMonotone` | `Verification_proofs` | LOCK WORKS implies that the clocks rise with requests further apart than the tolerance, which the judge computes and does not use |
| `PinnedCardIsNoticed` | `Verification_proofs` | a card left at a testable target is never LOCK WORKS |
| `LimitComesFirst` | `Verification_proofs` | a limit that differs or was not read gives a failed or unverified restore, whatever was measured |
| `CapWorksOrdered` | `Verification_proofs` | under CAP WORKS every cap that could bind did, neighbour by neighbour |
| `SweepInductive` | `Sweep_proofs` | under its `Premises`, `Spec => []IInv` |
| `SweepDebtHeld`, `SweepQuiet`, `SweepTruthful`, `SweepMeasured` | `Sweep_proofs` | under `Premises`, `DebtHeld`, `QuietRestore`, `ReportTruthful` and `MeasuredAsNamed` |
| `SweepCustody` | `Sweep_proofs` | under `Premises`, `Spec => CustodyKept`, the refinement |
| `CardsInductive` | `Cards_proofs` | `Spec => []CardInv` |
| `DebtIsTraceable`, `CleanMeansClean`, `LimitsAreOwn` | `Cards_proofs` | `DebtTraceable`, `CleanIsClean`, `OwnLimit` |
| `RetiredOnlyBack` | `Cards_proofs` | `Spec => RetiredMeansBack`, an action property |
| `RecorderInductive` | `TelemetryRecorder_proofs` | `Spec => []RecorderInv` |
| `FilesAscend`, `MetadataTrue` | `TelemetryRecorder_proofs` | `RowsAscend`, `MetaTrue` |
| `CleanIsComplete` | `TelemetryRecorder_proofs` | if `0 \notin Depths`, `CleanMeansComplete` |
| `LoadInductive` | `LoadGen_proofs` | `Spec => []LoadInv` |
| `EveryRequestCounted`, `ReportsAccount` | `LoadGen_proofs` | `Accounted`, `ReportAccounts` |
| `ResultInductive` | `SweepResult_proofs` | `SweepResult!Spec => []IInv` |
| `FiguresTrue`, `PartialIsNameless`, `SuggestionsSave`, `RelaxingNeverHurts` | `SweepResult_proofs` | `FiguresAreTrue`, `PartialNamesNothing`, `SuggestionSaves` and `RelaxingHelps` |
| `GateInductive` | `Verification_proofs` | `Verification!Spec => []VInv` |
| `DebtStaysPayable`, `RejudgedAlike` | `Verification_proofs` | `DebtPayable`, `RejudgeAgrees` |
| `RestoreIsAccounted` | `Verification_proofs` | `RestoreAccounted` |
| `ToldIsTrue` | `Verification_proofs` | if `EnforceMargin <= BindMargin`, `CardAsTold` |

The assumptions are those the modules name: `NoPid` is no guard, `NoCap` no cap,
the default is a cap, the switches, reads, probes and labels are among those the
code distinguishes, and margins, times and bounds are natural numbers.  Where a
theorem needs more, its row says so; each such premise holds in the run that checks
the same property.

### The guard

The safety properties of the guard are not inductive.  `GuardInvariant` states what
they rest on: what an armed guard remembers agrees with its record and with the
device; what a disarmed guard remembers cannot reach the file any more (it owes
nothing and, if published, its state is restored); while a guard arms the file is
free; a frame past its first look at the guard is armed, and each label of
`restore()` says how far the device has come; a recovery that may still publish
holds the record of a guard that was dead when it began.  `IInv` is their
conjunction.  It needs `Premises`: no signal was ignored at arm time (else section
4), and the snapshot reads the limit or nothing.  The file may be damaged: who holds
the device, arms or may publish is known all the same, and what was done to the device
until a damaged record is set aside (`Clear`, and the conjuncts that say `~aside`).
So a file that cannot be read is nobody's (`UnreadableIsNobodys`), which gives
`UnreadableKept`: a frame of a disarmed guard is at no label that writes.  TLC checks
`IInv` in `Serial`, `Solo` and `SerialSignals`, and `GuardSystem_proofs` proves it
inductive.

The argument has three layers.  First, who may act: an armed guard's record is
outstanding, hence it is the only armed guard, nobody arms and recovery is not
about to publish (`OneHolder`); while a guard arms, nobody is armed and recovery
does not run (`OneArming`).  Second, what a step may do to the device and the
file: the holder writes a record that names what it did (`HolderWrites`), writes
a settled one over a device put back (`HolderSettles`) or changes the device in
ways its record names (`HolderTouches`).  Third, one lemma per action of a
process shows that it is one of these, or leaves the shared state alone
(`StepKeeps`), and every other process is untouched (`OthersUntouched`) and keeps
its part (`OthersKeepInv`).  Recovery only mends the device, except where it
forces the factory limit, which `ForcedAlone` confines to a moment when nobody
holds it; the record of a dead holder has not changed since the run began, so
what recovery publishes is settled.  `Serial` is used where a window would open:
`ArmsAlone` in `OneArming`, `RecoversAlone` in `ClearedKeeps`, `ForcedAlone` in
`PowerKeeps`, `NobodyDies` in `DeathKeeps`.

The refinement needs three facts of a step beside the invariant: an outstanding
record stays its owner's, it is settled only over a device put back, and it is
made only over one (`CustodyStep`).

### Sweep and benchmark

None of the four properties is inductive: `DebtHeld` does not know that the debt is
the current point's, `ReportTruthful` does not know why a report without a warning
was written.  `SweepInvariant` adds, by the place in `main` and `run` where the
process is, or will be once the `restore()` it is in returns (`Onward`): which
exceptions and verdicts there can be, and that a point that is not over means rounds
that are not (`PlaceInv`); that a calibration has no guards (`CalibrateInv`); that
who owes a restore is the claimant of the record and has NVML open (`DebtInv`); that
a debt without `hardware_may_be_modified` is the current point's (`FlagInv`); that a
process which reaches `write` without a reason has run every point and owes nothing
(`ReportInv`); that after a load the sampler polls only where Ctrl-C has led
(`SamplerInv`); what the device is set to at each step of a point (`MeasuredInv`).
`Premises` is that Ctrl-C does not arrive between a guard's exit and the flag, nor
while the process exits: section 4 has what happens there, and TLC finds `DebtHeld`
violated when `Everywhere` includes those labels.

The proof has one lemma for each part of `IInv`, and in it one step for each action
that can disturb that part.  For the refinement, `StepContract` shows that a step
changes the device only while it has the claim, and gives the claim up only over a
device that is stock.

### Cards

`CardInv` adds to the properties what each rests on: that the UUID in a record is the
card's that the guard held, and that this card keeps its place while the guard lives
(`RecordInv`); that a card which left the machine lost its settings (`AwayInv`); that
a change is in the record of its card, a cap with the promise to lift it
(`TraceInv`); that the snapshot of a record is its own card's limit (`LimitInv`).
`RetiredMeansBack` is a property of steps and follows from the invariant before the
step, action by action.

### Telemetry recorder

What is proved of a file that has been read and written by two threads needs a
description of a drain half done: `FetchInv` says of a thread between the driver call
and the write that what it holds is a run of samples, that the run begins where the
file ends or else fills the ring (then a loss event will be recorded), and that it
lies above the cursor.  `ControlInv` says that this is true of one thread at a time
unless the join gave up; every ordering claim is made under `~asked.late` for that
reason, as is `RowsAscend`.  `CoverInv` (up to the cursor the file is complete, or a
loss is recorded) is what `CleanMeansComplete` becomes when it is made inductive, and
holds without `~asked.late`: the worker left behind may store twice, never lose.
`CleanIsComplete` assumes that each ring held a sample when it was profiled, which is
what `Depths` says in the run: without a capacity the code cannot tell a loss.

### Load generator

`LoadInv` counts requests by where their thread is, those lost with their thread among
them, and says what a join without a timeout has established (`JoinInv`) and that the
samples are in the order of their times (`ClockInv`).  The last part of
`ReportAccounts`, that the time summed up as spent waiting is no longer than from the
first sample to the last, is about a fold.  The library's induction theorems take an
operator, which the provers cannot instantiate, so the induction is done as a smallest
counterexample over the subsets of a finite set (`LeastNatural`): a sum of naturals is
the number of units of time under its summands (`OneMore`, `SumIsCells` in
`FiniteSums`), and those of samples in order are disjoint parts of the time between the
first and the last (`WaitedBound`).

### Sweep result

`IInv` of `SweepResult` says that a result is what `finalise` makes of the runs there
are, and a report what is printed of that result; the properties are then about the
operators.  What they rest on is that each `CHOOSE` has something to choose: a first
least point exists in every set of points with figures (`FirstLeast`, from the order of
fractions, `LETransitive`), and so does a figure at each place of their order
(`RankedIs`); a mean is a fraction of naturals because a sum is (`FiniteSums`).
`FiguresTrue` covers every counter and every load: what a counter held is any natural
number, and the restart that no subtraction can show is the one exception.
`RelaxingNeverHurts` follows from the order: more points meet a larger budget, and the
least of more is no greater.

### The gates

`VInv` of `Verification` connects a verdict to the card it is about.  `PhaseInv` says at
which step there can be how many phases and whether an exception is under way, `OwingInv`
who owes a restore, `ForceInv` that the lock and the cap of a phase are in force while it
is measured, `MeasuredInv` that each phase kept is a measurement of the settings of its
place, and `VerdictInv` that a file says what the judge makes of its phases or that some
are missing.  `LeftInv` says that a lock left on the card is the last that was asked for,
`CapInv` that nothing touches the cap before a cap is tested.

From there on the judges' own theorems do the work: a limit that was read twice and is
the same is the card's (`LimitComesFirst`), and a card that still holds the greatest
target does not run at its unlocked clock (`PinnedCardIsNoticed`).  How far an unlocked
card drifts, and what the cap it was found with does to it, are not assumed: the
properties name what the tools cannot tell apart.  `Unlocked` are the clocks of a card
under that cap without a lock; `MetByDrift` says that those meet all targets as
distinctly as locks would, which is the one way to LOCK WORKS of a card that has none;
`Slowed` says that the found cap keeps the card from a clock, under which a lock at that
clock, or its being left on, makes no difference.  `CAP WORKS` of a card that ignores
caps takes one that ignores its lock as well and drifts to the clock asked for
(`CapTold`).  The premise of `ToldIsTrue` is about two options of the command line: were
`--enforce-margin-w` the larger, the baseline's own draw could count as held by a cap
that could bind.  The defaults (2 W and 5 W) meet it.

`RejudgedAlike` needs no premise.  The caps of a command line are distinct, so each name is
that of one phase (`FoundOnce`); targets may repeat, and the tool takes the locked phases in
their order (`RankedInterval`).

### What the proofs found

Two definitions of the model turned out to leave values open: `Landing` in `Sweep` and
`Reply` in `Cards` were `CASE`s whose guards overlap, for which TLA+ fixes no result
while TLC takes the first.  Their guards are exclusive now, in the order of the code.
`CountsMatch` in `TelemetryRecorder` counts the samples in the file, as the metadata's
reader would.  The figures of `SweepResult` were sorted and filtered sequences, of which
the provers know nothing; restating them over functions brought two warnings back to the
source, which compares rounded means of the clocks with each other and takes a clock for
another only from a difference of 1 MHz.  In the same way `Rejudged` of `Verification`
came to tell the two tools apart, which look their phases up differently where a target
is given twice.  The premise of `CleanIsComplete` was an unstated property of the run's
constants.

### What stays with TLC

Model-checked only: liveness (`AbandonedRecovers`, `RestoreEnds`, `AdviceEnds`,
`OfferedRegardless`, `RunEnds`, `StopEnds`), which is out of the prover's reach; the
guard under ignored signals, of which one alone keeps its evidence (`Live`) and two do not
(`ResumedRestore`).

## 6. Not modelled, and why

Of `gpu_guard.py`: nested `with` and two guards armed at once in one process (the
code refuses the second, and `Sweep` has them one after another), the owner-thread
check, the decoding of the three schemas and the temporary files (data, covered by
its tests), a controller's claim by one owner, two recoveries at once, `EPERM` from
the liveness probe (a recovery that may not signal the guard may not write to NVML
either).  Of the recorder: a second start, the timing of the probe,
`verify_energy_agreement`, the events that do not touch `integrity.clean`.  Of the
load generator: the arrival processes, whose schedule is a constant, and percentiles.
Of the workload: the parsing of the exposition format and of histograms.  Of the
tools: the transition and freshness scripts, the idle oracle, the capture and
analysis scripts compute over long series of floating-point values, keep no state
and have no concurrency; nothing of them fits a model checker.  The entry point
dispatches to the subcommands.

`IInv` is an invariant only under `Premises`: where a signal was ignored, a frame that
resumes after the handler writes what it remembers over what came since, and each of
the five safety properties is violated on the instance of `ResumedRestore`.
