------------------------- MODULE RecorderInvariant --------------------------
(***************************************************************************)
(* The inductive invariant behind the safety of TelemetryRecorder.         *)
(***************************************************************************)
EXTENDS TelemetryRecorder

Draining(t) == pc[t] \in {"read", "store", "log"}

\* Who is where: one thread drains at a time, unless stop() gave up waiting.
ControlInv ==
  /\ pc["worker"] \in {"none", "check", "read", "store", "log", "wait", "ended", "raised"}
  /\ pc["main"] \in {"new", "profiled", "running", "join", "read", "store", "log", "meta",
                     "close", "done", "raised"}
  /\ pc["main"] \in {"new", "profiled"} => pc["worker"] = "none"
  /\ \A t \in Threads : pc[t] = "store" => todo[t] # <<>>
  /\ pc["main"] \in {"log", "meta", "close", "done"} => todo["main"] = <<>>
  /\ asked.late => pc["main"] \notin {"new", "profiled", "running", "join"}
  /\ ~asked.late /\ pc["main"] \in {"read", "store", "log", "meta", "close", "done"} => Ended
  /\ meta # NoMeta => pc["main"] \in {"close", "done"}

\* Nothing is recorded before start().
StartInv ==
  pc["main"] \in {"new", "profiled"} =>
    \A s \in Streams : rows[s] = <<>> /\ counts[s] = 0 /\ cursor[s] = 0 /\ seed[s] = 0

\* The rings: what they were profiled to hold, what they have been given.
RingInv ==
  /\ 0 \notin Depths => \A s \in Streams : newest[s] > 0 /\ (pc["main"] # "new" => known[s] > 0)
  /\ \A s \in Streams : asked.newest[s] <= newest[s]
  /\ asked.now <= now

\* Every sample up to n is in the file.
Complete(s, n) == (seed[s] + 1)..n \subseteq Stored(s)

\* A loss that could have gone unnoticed is of a ring with no known capacity.
Noted(s) == lossy \/ known[s] = 0

\* Files grow by samples behind the cursor.
OrderInv ==
  asked.late \/ /\ Ascending
                /\ \A s \in Streams :
                     /\ seed[s] <= cursor[s] /\ cursor[s] <= newest[s]
                     /\ \A k \in Stored(s) : k <= cursor[s]

CoverInv == \A s \in Streams : Noted(s) \/ Complete(s, cursor[s])

\* A drain that is going to store has a run of samples up to m, which begins
\* where the file ends or fills the ring.
Fetched(t, s, lo, m) ==
  /\ got[t] = (lo + 1)..m /\ lo < m /\ m <= newest[s]
  /\ known[s] # 0 => Full(s, got[t]) \/ lossy \/ Complete(s, lo)
  /\ asked.late \/ cursor[s] <= lo
  /\ t = "main" => asked.newest[s] <= m

FetchInv ==
  \A t \in Threads : pc[t] = "store" =>
    \E s \in Streams : /\ s = Head(todo[t])
                        /\ \E lo, m \in 0..newest[s] : Fetched(t, s, lo, m)

\* The last drain leaves behind complete files.
LastDrainInv ==
  /\ pc["main"] \in {"read", "store", "log", "meta"} =>
       \A s \in Streams \ Range(todo["main"]) : Noted(s) \/ Complete(s, asked.newest[s])
  /\ meta # NoMeta /\ meta.clean =>
       \A s \in Streams : known[s] = 0 \/ Complete(s, asked.newest[s])

\* The counts are of the samples in the files, now and in the metadata.
CountInv ==
  /\ asked.late \/ \A s \in Streams : counts[s] = Cardinality(Stored(s))
  /\ CountsMatch

\* The readings of the energy counter are in its order.
EnergyInv ==
  /\ asked.late \/ energy["first"] <= energy["last"]
  /\ energy["first"] = NoReading <=> energy["last"] = NoReading
  /\ energy["last"] # NoReading => energy["last"] <= now
  /\ \A t \in Threads : pc[t] = "log" /\ got[t] # {} =>
       \E e \in 0..now : /\ got[t] = {e}
                         /\ asked.late \/ energy["last"] \in {NoReading} \cup 0..e
                         /\ t = "main" => asked.now <= e
  /\ pc["main"] = "meta" /\ ~asked.late => unread \/ energy["last"] \in asked.now..MaxNow
  /\ EnergyCovers

RecorderInv ==
  /\ TypeOK /\ ControlInv /\ StartInv /\ RingInv
  /\ OrderInv /\ CoverInv /\ FetchInv /\ LastDrainInv
  /\ CountInv /\ EnergyInv
=============================================================================
