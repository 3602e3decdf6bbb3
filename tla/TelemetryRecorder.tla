------------------------- MODULE TelemetryRecorder --------------------------
(***************************************************************************)
(* class TelemetryRecorder over one GpuReader.                             *)
(*                                                                         *)
(* The driver keeps the last Capacity samples of each stream in a ring and *)
(* overwrites older ones without an error.  A worker thread drains the     *)
(* rings into files; stop() waits for it, drains once more in the main     *)
(* thread, writes the metadata and closes the files.  Both threads run     *)
(* _drain_once over the same cursors:                                      *)
(*                                                                         *)
(*   drain once:  read -> store -> read ... -> log                         *)
(*   worker:  none -> check -> (drain) -> wait -> check ... -> ended       *)
(*   main:    new -> profiled -> running -> join -> (drain) -> meta ->     *)
(*            close -> done                                                *)
(*                                                                         *)
(* A sample is its number in its stream, a file the sequence of the sets   *)
(* of samples stored at a time, and the energy counter is the clock.  A    *)
(* thread in which an exception ends has raised.  Bound: a recorder is     *)
(* started once and with a profile, as _cmd_record does.                   *)
(***************************************************************************)
EXTENDS FiniteSetsExt, Functions, Sequences

CONSTANTS Order,          \* the streams, in the order they are drained
          Capacity,       \* samples a ring holds
          Depths,         \* samples a stream may have had before the recorder
          JoinTimesOut,   \* may stop() give up waiting for the worker
          MaxNow,         \* bound on the clock
          MaxFaults       \* bound on failing calls of driver and file system

Streams == Range(Order)

ASSUME RecorderAssumption ==
  /\ Order \in Seq(Streams) /\ IsInjective(Order)
  /\ Capacity \in Nat \ {0}
  /\ Depths \subseteq Nat
  /\ JoinTimesOut \in BOOLEAN
  /\ MaxNow \in Nat /\ MaxFaults \in Nat

VARIABLES now,       \* the clock
          newest,    \* the last sample of each stream
          known,     \* the profile's ring capacity, 0 if it has none
          cursor,    \* _cursors
          rows,      \* what each file has been given
          counts,    \* sample_counts
          lossy,     \* has loss_events a loss or a drain error
          unwritten, \* files with rows left in their buffer by a failed flush
          dropped,   \* files whose close() failed on such rows
          energy,    \* _energy_first and _energy_last
          unread,    \* has poll_errors counted an unread energy counter
          stopping,  \* the stop event
          closed,    \* have the files been closed
          meta,      \* what was written to meta.json
          pc,        \* label of each thread
          todo,      \* streams the thread's drain has not reached
          got,       \* what its last driver call returned
          faults,    \* calls that have failed so far
          seed,      \* ghost: the samples there were at start()
          asked      \* ghost: samples and clock when stop() was called, and
                     \* has it given the worker up

deviceVars == <<now, newest>>
driverVars == <<deviceVars, known, faults>>
fileVars == <<cursor, rows, counts, lossy, unwritten, dropped>>
energyVars == <<energy, unread>>
endVars == <<stopping, closed, meta, seed, asked>>
vars == <<driverVars, fileVars, energyVars, endVars, pc, todo, got>>

Threads == {"main", "worker"}
Labels == {"none", "new", "profiled", "running", "check", "read", "store", "log",
           "wait", "join", "meta", "close", "ended", "done", "raised"}

\* A reading that failed, and a counter not read yet.
NoReading == MaxNow + 1
NoMeta == [clean |-> FALSE, counts |-> <<>>, energy |-> <<>>, unread |-> FALSE]

Samples == Nat

TypeOK ==
  /\ now \in 0..MaxNow
  /\ newest \in [Streams -> Nat]
  /\ known \in [Streams -> 0..Capacity]
  /\ cursor \in [Streams -> Nat]
  /\ rows \in [Streams -> Seq(SUBSET Samples)]
  /\ counts \in [Streams -> Nat]
  /\ lossy \in BOOLEAN
  /\ unwritten \subseteq Streams /\ dropped \subseteq Streams
  /\ energy \in [{"first", "last"} -> 0..NoReading]
  /\ unread \in BOOLEAN
  /\ stopping \in BOOLEAN /\ closed \in BOOLEAN
  /\ pc \in [Threads -> Labels]
  /\ todo \in [Threads -> Seq(Streams)]
  /\ got \in [Threads -> SUBSET Samples]
  /\ faults \in 0..MaxFaults
  /\ seed \in [Streams -> Nat]
  /\ asked \in [newest: [Streams -> Nat], now: 0..MaxNow, late: BOOLEAN]
  /\ meta # NoMeta => meta.counts \in [Streams -> Nat]

Init ==
  /\ now = 0
  /\ newest \in [Streams -> Depths]
  /\ known = [s \in Streams |-> 0]
  /\ cursor = [s \in Streams |-> 0]
  /\ rows = [s \in Streams |-> <<>>]
  /\ counts = [s \in Streams |-> 0]
  /\ lossy = FALSE
  /\ unwritten = {} /\ dropped = {}
  /\ energy = [e \in {"first", "last"} |-> NoReading]
  /\ unread = FALSE
  /\ stopping = FALSE /\ closed = FALSE
  /\ meta = NoMeta
  /\ pc = [t \in Threads |-> IF t = "main" THEN "new" ELSE "none"]
  /\ todo = [t \in Threads |-> <<>>]
  /\ got = [t \in Threads |-> {}]
  /\ faults = 0
  /\ seed = [s \in Streams |-> 0]
  /\ asked = [newest |-> [s \in Streams |-> 0], now |-> 0, late |-> FALSE]

-----------------------------------------------------------------------------
Succeeds == UNCHANGED faults

Fails == /\ faults < MaxFaults
         /\ faults' = faults + 1

Goto(t, l) == pc' = [pc EXCEPT ![t] = l]

\* The driver's ring: the last samples only.
Ring(s) == {k \in 1..newest[s] : k + Capacity > newest[s]}

\* drain(stream, cursor)
Newer(s, c) == {k \in Ring(s) : k > c}

\* Time passes, and some streams, at least one, get a sample.
Emit(S) ==
  /\ now < MaxNow
  /\ now' = now + 1
  /\ newest' = [s \in Streams |-> IF s \in S THEN newest[s] + 1 ELSE newest[s]]
  /\ UNCHANGED <<known, faults, fileVars, energyVars, endVars, pc, todo, got>>

\* characterize_sensors: the capacity is what the ring holds at the time; an
\* empty ring has none.
Characterize ==
  /\ pc["main"] = "new"
  /\ known' = [s \in Streams |-> Cardinality(Ring(s))]
  /\ Goto("main", "profiled")
  /\ UNCHANGED <<deviceVars, faults, fileVars, energyVars, endVars, todo, got>>

\* start(): cursors are seeded with the newest sample of each ring.
Start ==
  /\ pc["main"] = "profiled"
  /\ \/ /\ Succeeds
        /\ cursor' = newest
        /\ seed' = newest
        /\ pc' = [t \in Threads |-> IF t = "main" THEN "running" ELSE "check"]
     \/ /\ Fails
        /\ Goto("main", "raised")
        /\ UNCHANGED <<cursor, seed>>
  /\ UNCHANGED <<deviceVars, known, rows, counts, lossy, unwritten, dropped, energyVars,
                 stopping, closed, meta, asked, todo, got>>

-----------------------------------------------------------------------------
(* _drain_once, in either thread *)

BeginDrain(t) == /\ Goto(t, "read")
                 /\ todo' = [todo EXCEPT ![t] = Order]

\* The driver call.  An error is a loss event and ends this stream's turn; no
\* new samples end it without one.
ReadStream(t) ==
  /\ pc[t] = "read"
  /\ todo[t] # <<>>
  /\ LET s == Head(todo[t])
         new == Newer(s, cursor[s])
     IN  \/ /\ Succeeds
            /\ new # {}
            /\ got' = [got EXCEPT ![t] = new]
            /\ Goto(t, "store")
            /\ UNCHANGED <<todo, lossy>>
         \/ /\ Succeeds /\ new = {} /\ UNCHANGED lossy
            /\ todo' = [todo EXCEPT ![t] = Tail(@)]
            /\ UNCHANGED <<pc, got>>
         \/ /\ Fails /\ lossy' = TRUE
            /\ todo' = [todo EXCEPT ![t] = Tail(@)]
            /\ UNCHANGED <<pc, got>>
  /\ UNCHANGED <<deviceVars, known, cursor, rows, counts, unwritten, dropped, energyVars,
                 endVars>>

\* Mutant: only more samples than the ring holds are taken for a full ring.
FullOverflow(s, new) == known[s] # 0 /\ Cardinality(new) > known[s]

\* A full ring, if its capacity is known.
Full(s, new) == known[s] # 0 /\ Cardinality(new) >= known[s]

\* Mutant: the cursor is set to the first of the new samples.
AdvanceToFirst(s, new) == cursor' = [cursor EXCEPT ![s] = Min(new)]

Advance(s, new) == cursor' = [cursor EXCEPT ![s] = Max(new)]

\* Mutant: drains are counted, not samples.
CountDrains(s, new) == counts' = [counts EXCEPT ![s] = @ + 1]

Count(s, new) == counts' = [counts EXCEPT ![s] = @ + Cardinality(new)]

\* The rows, the cursor, the count and the flush, which may raise: what it
\* could not write stays in the file's buffer until a later flush, or close().
\* The writer of a closed file is not there any more.
StoreSamples(t) ==
  /\ pc[t] = "store"
  /\ LET s == Head(todo[t])
         new == got[t]
     IN  /\ lossy' = (lossy \/ Full(s, new))
         /\ \/ /\ ~closed
               /\ rows' = [rows EXCEPT ![s] = Append(@, new)]
               /\ Advance(s, new)
               /\ Count(s, new)
               /\ \/ Succeeds /\ Goto(t, "read") /\ unwritten' = unwritten \ {s}
                  \/ Fails /\ Goto(t, "raised") /\ unwritten' = unwritten \cup {s}
            \/ /\ closed
               /\ Goto(t, "raised")
               /\ UNCHANGED <<faults, cursor, rows, counts, unwritten>>
  /\ todo' = [todo EXCEPT ![t] = Tail(@)]
  /\ got' = [got EXCEPT ![t] = {}]
  /\ UNCHANGED <<deviceVars, known, dropped, energyVars, endVars>>

\* poll(): a counter that cannot be read is no exception.
PollDevice(t) ==
  /\ pc[t] = "read"
  /\ todo[t] = <<>>
  /\ \/ Succeeds /\ got' = [got EXCEPT ![t] = {now}]
     \/ Fails /\ got' = [got EXCEPT ![t] = {}]
  /\ Goto(t, "log")
  /\ UNCHANGED <<deviceVars, known, fileVars, energyVars, endVars, todo>>

\* The first and the last reading of the counter.
RecordEnergy(e) ==
  energy' = [energy EXCEPT !["first"] = IF @ = NoReading THEN e ELSE @,
                           !["last"] = e]

LogPoll(t) ==
  /\ pc[t] = "log"
  /\ \/ got[t] = {} /\ unread' = TRUE /\ UNCHANGED energy
     \/ \E e \in got[t] : RecordEnergy(e) /\ UNCHANGED unread
  /\ \/ /\ ~closed /\ Succeeds
        /\ Goto(t, IF t = "main" THEN "meta" ELSE "wait")
     \/ ~closed /\ Fails /\ Goto(t, "raised")
     \/ closed /\ Goto(t, "raised") /\ UNCHANGED faults
  /\ got' = [got EXCEPT ![t] = {}]
  /\ UNCHANGED <<deviceVars, known, fileVars, endVars, todo>>

-----------------------------------------------------------------------------
(* _run *)

CheckStop ==
  /\ pc["worker"] = "check"
  /\ \/ stopping /\ Goto("worker", "ended") /\ UNCHANGED todo
     \/ ~stopping /\ BeginDrain("worker")
  /\ UNCHANGED <<driverVars, fileVars, energyVars, endVars, got>>

\* The wait until the next deadline, or a short one when the drain was late.
Wait ==
  /\ pc["worker"] = "wait"
  /\ Goto("worker", IF stopping THEN "ended" ELSE "check")
  /\ UNCHANGED <<driverVars, fileVars, energyVars, endVars, todo, got>>

-----------------------------------------------------------------------------
(* stop() *)

Stop ==
  /\ pc["main"] = "running"
  /\ stopping' = TRUE
  /\ asked' = [newest |-> newest, now |-> now, late |-> FALSE]
  /\ Goto("main", "join")
  /\ UNCHANGED <<driverVars, fileVars, energyVars, closed, meta, seed, todo, got>>

Ended == pc["worker"] \in {"ended", "raised"}

JoinEnds ==
  /\ pc["main"] = "join"
  /\ Ended \/ JoinTimesOut
  /\ asked' = [asked EXCEPT !.late = ~Ended]
  /\ UNCHANGED <<driverVars, fileVars, energyVars, stopping, closed, meta, seed, got>>

\* Mutant: join without a timeout.
JoinWaits == JoinEnds /\ Ended /\ BeginDrain("main")

\* The worker has ended, or is left to itself; then what landed after its last
\* tick is drained.
Join == JoinEnds /\ BeginDrain("main")

WriteMeta ==
  /\ pc["main"] = "meta"
  /\ \/ /\ Succeeds
        /\ meta' = [clean |-> ~lossy, counts |-> counts, energy |-> energy,
                    unread |-> unread]
        /\ Goto("main", "close")
     \/ /\ Fails
        /\ Goto("main", "raised")
        /\ UNCHANGED meta
  /\ UNCHANGED <<deviceVars, known, fileVars, energyVars, stopping, closed, seed, asked,
                 todo, got>>

\* A close() that fails loses what is in the buffer, and is passed over.
CloseFiles ==
  /\ pc["main"] = "close"
  /\ closed' = TRUE
  /\ \/ Succeeds /\ UNCHANGED dropped
     \/ Fails /\ \E S \in SUBSET unwritten : dropped' = S
  /\ Goto("main", "done")
  /\ UNCHANGED <<deviceVars, known, cursor, rows, counts, lossy, unwritten, energyVars,
                 stopping, meta, seed, asked, todo, got>>

-----------------------------------------------------------------------------
DrainStep(t) == ReadStream(t) \/ StoreSamples(t) \/ PollDevice(t) \/ LogPoll(t)

WorkerStep == CheckStop \/ Wait \/ DrainStep("worker")

StopStep == Join \/ WriteMeta \/ CloseFiles \/ DrainStep("main")

Next == \/ \E S \in SUBSET Streams \ {{}} : Emit(S)
        \/ Characterize \/ Start \/ Stop
        \/ StopStep
        \/ WorkerStep

Spec == Init /\ [][Next]_vars

\* stop() goes on; the worker may hang in a driver call for good.
FairSpec == Spec /\ WF_vars(StopStep)

-----------------------------------------------------------------------------
Stored(s) == UNION Range(rows[s])

\* A stream's file holds each sample once, in the driver's order, and none
\* from before the recording.
Ascending ==
  \A s \in Streams :
    /\ \A k \in Stored(s) : k > seed[s]
    /\ \A i, j \in DOMAIN rows[s] :
         i < j => \A k \in rows[s][i], m \in rows[s][j] : k < m

\* So it is unless stop() has left a worker to itself: then two threads drain
\* over the same cursors.
RowsAscend == asked.late \/ Ascending

\* Metadata that calls a recording clean stands beside files that hold every
\* sample from start() to the call of stop(), whatever was overwritten in the
\* rings, and whether or not the worker died.  The exception is a file whose
\* flush failed, which killed the worker, and whose close() failed as well: both
\* pass unnoted.
CleanMeansComplete ==
  meta # NoMeta /\ meta.clean =>
    \A s \in Streams \ dropped : (seed[s] + 1)..asked.newest[s] \subseteq Stored(s)

\* The counts in the metadata are the numbers of samples the files were given,
\* which no worker left to itself goes on to write.
CountsMatch ==
  meta # NoMeta /\ ~asked.late =>
    \A s \in Streams :
      meta.counts[s] = Cardinality(Stored(s))

\* The energy of the metadata reaches from a reading after start() to one
\* after the call of stop(), unless a reading failed and was counted, or a
\* worker left to itself read the counter before and logs it after.
EnergyCovers ==
  meta # NoMeta /\ ~meta.unread /\ ~asked.late =>
    /\ meta.energy["last"] \in asked.now..MaxNow
    /\ meta.energy["first"] <= meta.energy["last"]

\* The metadata agrees with the files: its counts are those of the rows, and its
\* energy spans the recording.
MetaTrue == TypeOK /\ CountsMatch /\ EnergyCovers

\* stop() returns or raises, whether or not the worker ever does.
StopEnds == pc["main"] = "join" ~> pc["main"] \in {"done", "raised"}
=============================================================================
