------------------------ MODULE TelemetryRecorder_proofs ---------------------
(***************************************************************************)
(* The safety of TelemetryRecorder, for any streams, rings and bounds.     *)
(***************************************************************************)
EXTENDS RecorderInvariant, FiniteSetTheorems, TLAPS

-----------------------------------------------------------------------------
(* Rings, runs of samples and files *)

\* What a drain finds is a run of samples up to the newest, which begins after
\* the cursor unless the ring was overwritten.
LEMMA RingRun ==
  ASSUME TypeOK, NEW s \in Streams, NEW c \in Nat, Newer(s, c) # {}
  PROVE  \E lo \in Nat : /\ Newer(s, c) = (lo + 1)..newest[s]
                         /\ c <= lo /\ lo < newest[s]
                         /\ lo = c \/ newest[s] - lo = Capacity
<1> DEFINE n == newest[s]
<1>1. n \in Nat /\ Capacity \in Nat \ {0}
  BY RecorderAssumption DEF TypeOK
<1>2. Newer(s, c) = {k \in 1..n : k + Capacity > n /\ k > c}
  BY DEF Newer, Ring
<1> HIDE DEF n
<1>3. c < n
  BY <1>1, <1>2
<1>4. CASE c + Capacity >= n
  <2>1. Newer(s, c) = (c + 1)..n
    BY <1>1, <1>2, <1>4
  <2> QED BY <1>1, <1>3, <2>1 DEF n
<1>5. CASE c + Capacity < n
  <2>1. n - Capacity \in Nat /\ c <= n - Capacity /\ n - Capacity < n
    BY <1>1, <1>5
  <2>2. Newer(s, c) = ((n - Capacity) + 1)..n
    BY <1>1, <1>2, <1>5
  <2>3. n - (n - Capacity) = Capacity
    BY <1>1
  <2> QED BY <2>1, <2>2, <2>3 DEF n
<1> QED BY <1>1, <1>4, <1>5

\* A cursor behind which there is nothing is that of the newest sample.
LEMMA RingEmpty ==
  ASSUME TypeOK, NEW s \in Streams, NEW c \in Nat, Newer(s, c) = {}
  PROVE  newest[s] <= c
<1>1. newest[s] \in Nat /\ Capacity \in Nat \ {0}
  BY RecorderAssumption DEF TypeOK
<1>2. CASE c < newest[s]
  <2>1. newest[s] \in Newer(s, c)
    BY <1>1, <1>2 DEF Newer, Ring
  <2> QED BY <2>1
<1> QED BY <1>1, <1>2

LEMMA RingSize ==
  ASSUME TypeOK, NEW s \in Streams
  PROVE  /\ Cardinality(Ring(s)) \in 0..Capacity
         /\ newest[s] > 0 => Cardinality(Ring(s)) > 0
<1> DEFINE n == newest[s]
<1>1. n \in Nat /\ Capacity \in Nat \ {0}
  BY RecorderAssumption DEF TypeOK
<1>2. Ring(s) = {k \in 1..n : k + Capacity > n}
  BY DEF Ring
<1> HIDE DEF n
<1>3. CASE Capacity >= n
  <2>1. Ring(s) = 1..n
    BY <1>1, <1>2, <1>3
  <2>2. Cardinality(1..n) = IF 1 > n THEN 0 ELSE n - 1 + 1
    BY <1>1, FS_Interval
  <2> QED BY <1>1, <1>3, <2>1, <2>2 DEF n
<1>4. CASE Capacity < n
  <2>1. Ring(s) = (n - Capacity + 1)..n
    BY <1>1, <1>2, <1>4
  <2>2. Cardinality((n - Capacity + 1)..n) = n - (n - Capacity + 1) + 1
    BY <1>1, <1>4, FS_Interval
  <2> QED BY <1>1, <1>4, <2>1, <2>2 DEF n
<1> QED BY <1>1, <1>3, <1>4

LEMMA RunTop ==
  ASSUME NEW lo \in Nat, NEW m \in Nat, lo < m
  PROVE  /\ Max((lo + 1)..m) = m
         /\ Cardinality((lo + 1)..m) = m - lo
         /\ IsFiniteSet((lo + 1)..m)
<1>1. m \in (lo + 1)..m /\ \A k \in (lo + 1)..m : k <= m
  OBVIOUS
<1>2. Max((lo + 1)..m) = m
  BY <1>1 DEF Max
<1>3. IsFiniteSet((lo + 1)..m) /\ Cardinality((lo + 1)..m) = m - (lo + 1) + 1
  BY FS_Interval
<1> QED BY <1>2, <1>3

\* A file that has been given one more set of samples.
LEMMA Appended ==
  ASSUME NEW q \in Seq(SUBSET Samples), NEW new \in SUBSET Samples
  PROVE  UNION Range(Append(q, new)) = (UNION Range(q)) \cup new
<1>1. \A j \in 1..Len(q) : Append(q, new)[j] = q[j]
  OBVIOUS
<1>2. DOMAIN q = 1..Len(q) /\ Len(q) \in Nat
  OBVIOUS
<1>3. /\ DOMAIN Append(q, new) = 1..(Len(q) + 1)
      /\ Append(q, new)[Len(q) + 1] = new
  OBVIOUS
<1>4. Range(Append(q, new)) = Range(q) \cup {new}
  BY <1>1, <1>2, <1>3 DEF Range
<1> QED BY <1>4

\* What is left of a drain when its first stream is done.
LEMMA Rest ==
  ASSUME NEW q \in Seq(Streams), q # <<>>
  PROVE  /\ Head(q) \in Streams /\ Tail(q) \in Seq(Streams)
         /\ Range(q) \subseteq Range(Tail(q)) \cup {Head(q)}
<1>1. Head(q) \in Streams /\ Tail(q) \in Seq(Streams)
  OBVIOUS
<1>2. ASSUME NEW i \in 1..Len(q)
      PROVE  q[i] \in Range(Tail(q)) \cup {Head(q)}
  <2>1. CASE i = 1
    BY <2>1
  <2>2. CASE i # 1
    <3>1. i - 1 \in DOMAIN Tail(q) /\ Tail(q)[i - 1] = q[i]
      BY <1>2, <2>2
    <3> QED BY <3>1 DEF Range
  <2> QED BY <2>1, <2>2
<1> QED BY <1>1, <1>2 DEF Range

LEMMA FilesSame == ASSUME UNCHANGED rows PROVE \A s : Stored(s)' = Stored(s)
BY DEF Stored

\* A file is a set of natural numbers.
LEMMA StoredNumbers ==
  ASSUME TypeOK, NEW s \in Streams
  PROVE  Stored(s) \subseteq Nat /\ \A i \in DOMAIN rows[s] : rows[s][i] \subseteq Stored(s)
<1>1. rows[s] \in Seq(SUBSET Nat)
  BY DEF TypeOK, Samples
<1>2. \A i \in DOMAIN rows[s] : rows[s][i] \in SUBSET Nat
  BY <1>1
<1> QED BY <1>2 DEF Stored, Range

-----------------------------------------------------------------------------
(* Steps that leave a part of the state alone *)

LEMMA Moved ==
  ASSUME TypeOK, NEW t \in Threads, NEW l, Goto(t, l)
  PROVE  pc'[t] = l /\ \A u \in Threads : u # t => pc'[u] = pc[u]
BY DEF TypeOK, Goto

LEMMA Still ==
  ASSUME TypeOK, UNCHANGED deviceVars
  PROVE  /\ now \in Nat /\ now' = now /\ now <= now' /\ newest' = newest
         /\ \A s \in Streams : newest[s] \in Nat /\ newest[s] <= newest'[s]
<1>1. now \in Nat /\ \A s \in Streams : newest[s] \in Nat
  BY RecorderAssumption DEF TypeOK
<1> QED BY <1>1 DEF deviceVars

LEMMA FilesKept ==
  ASSUME TypeOK, TypeOK', UNCHANGED <<rows, counts, cursor, seed, known, meta>>,
         \A s \in Streams : newest[s] <= newest'[s],
         lossy => lossy', asked.late => asked'.late,
         OrderInv, CoverInv, CountInv
  PROVE  OrderInv' /\ CoverInv' /\ CountInv'
<1>1. OrderInv'
  <2>1. \A s \in Streams : newest[s] \in Nat /\ newest'[s] \in Nat /\ cursor[s] \in Nat
    BY DEF TypeOK
  <2> QED BY FilesSame, <2>1 DEF OrderInv, Ascending
<1>2. CoverInv'
  BY FilesSame DEF CoverInv, Noted, Complete
<1>3. CountInv'
  BY FilesSame DEF CountInv, CountsMatch
<1> QED BY <1>1, <1>2, <1>3

LEMMA FetchKept ==
  ASSUME TypeOK, TypeOK', UNCHANGED <<seed, known>>,
         \A s \in Streams : Stored(s) \subseteq Stored(s)',
         asked'.late \/ cursor' = cursor,
         \A s \in Streams : newest[s] <= newest'[s],
         lossy => lossy', asked.late => asked'.late,
         \A t \in Threads : pc'[t] = "store" =>
           /\ pc[t] = "store" /\ got'[t] = got[t] /\ todo'[t] = todo[t]
           /\ t = "main" => asked'.newest = asked.newest,
         \A t \in Threads : pc[t] = "store" => todo[t] # <<>>,
         FetchInv
  PROVE  FetchInv'
<1> SUFFICES ASSUME NEW t \in Threads, pc'[t] = "store"
             PROVE  \E s \in Streams : /\ s = Head(todo'[t])
                                        /\ \E lo, m \in 0..newest'[s] : Fetched(t, s, lo, m)'
  BY DEF FetchInv
<1>1. pc[t] = "store" /\ got'[t] = got[t] /\ todo'[t] = todo[t] /\ todo[t] # <<>>
  OBVIOUS
<1>2. PICK s \in Streams : s = Head(todo[t]) /\ \E lo, m \in 0..newest[s] : Fetched(t, s, lo, m)
  BY <1>1 DEF FetchInv
<1>3. PICK lo, m \in 0..newest[s] : Fetched(t, s, lo, m)
  BY <1>2
<1>4. newest[s] \in Nat /\ newest'[s] \in Nat /\ newest[s] <= newest'[s]
  BY DEF TypeOK
<1>5. m <= newest'[s] /\ lo \in 0..newest'[s] /\ m \in 0..newest'[s]
  BY <1>4
<1>6. /\ known'[s] # 0 => Full(s, got[t])' \/ lossy' \/ Complete(s, lo)'
      /\ asked'.late \/ cursor'[s] <= lo
      /\ got'[t] = (lo + 1)..m /\ lo < m
      /\ t = "main" => asked'.newest[s] <= m
  <2>1. known'[s] # 0 => Full(s, got[t])' \/ lossy' \/ Complete(s, lo)'
    BY <1>1, <1>3 DEF Fetched, Full, Complete
  <2> QED BY <1>1, <1>3, <2>1 DEF Fetched
<1>7. Fetched(t, s, lo, m)'
  BY <1>5, <1>6 DEF Fetched
<1> QED BY <1>1, <1>2, <1>5, <1>7

LEMMA LastDrainKept ==
  ASSUME TypeOK, TypeOK', UNCHANGED <<seed, meta>>,
                                      \A s \in Streams : Stored(s) \subseteq Stored(s)',
         \A s \in Streams : known'[s] = known[s] \/ known'[s] = 0,
         lossy => lossy',
         pc'["main"] \in {"read", "store", "log", "meta"} =>
           /\ pc["main"] \in {"read", "store", "log", "meta"}
           /\ todo'["main"] = todo["main"] /\ asked'.newest = asked.newest,
         meta # NoMeta => asked'.newest = asked.newest,
         LastDrainInv
  PROVE  LastDrainInv'
BY DEF LastDrainInv, Noted, Complete

LEMMA EnergyKept ==
  ASSUME TypeOK, TypeOK', UNCHANGED <<energy, meta>>, unread => unread', now <= now',
         asked.late => asked'.late,
         \A t \in Threads : pc'[t] = "log" => /\ pc[t] = "log" /\ got'[t] = got[t]
                                              /\ t = "main" => asked'.now = asked.now,
         pc'["main"] = "meta" => pc["main"] = "meta" /\ asked'.now = asked.now,
         meta # NoMeta => asked'.now = asked.now,
         EnergyInv
  PROVE  EnergyInv'
<1>1. now \in Nat /\ now' \in Nat /\ energy["last"] \in Int
  BY RecorderAssumption DEF TypeOK, NoReading
<1>2. ASSUME NEW t \in Threads, pc'[t] = "log", got'[t] # {}
      PROVE  \E e \in 0..now' :
               /\ got'[t] = {e}
               /\ asked'.late \/ energy'["last"] \in {NoReading} \cup 0..e
               /\ t = "main" => asked'.now <= e
  <2>1. pc[t] = "log" /\ got'[t] = got[t] /\ (t = "main" => asked'.now = asked.now)
    BY <1>2
  <2>2. PICK e \in 0..now : /\ got[t] = {e}
                            /\ asked.late \/ energy["last"] \in {NoReading} \cup 0..e
                            /\ t = "main" => asked.now <= e
    BY <1>2, <2>1 DEF EnergyInv
  <2>3. e \in 0..now'
    BY <1>1
  <2> QED BY <2>1, <2>2, <2>3
<1>3. EnergyCovers'
  BY DEF EnergyInv, EnergyCovers
<1>4. /\ asked'.late \/ energy'["first"] <= energy'["last"]
      /\ energy'["first"] = NoReading <=> energy'["last"] = NoReading
      /\ energy'["last"] # NoReading => energy'["last"] <= now'
      /\ pc'["main"] = "meta" /\ ~asked'.late => unread' \/ energy'["last"] \in asked'.now..MaxNow
  BY <1>1 DEF EnergyInv
<1> QED BY <1>2, <1>3, <1>4 DEF EnergyInv

-----------------------------------------------------------------------------
(* Types *)

RingsOK == /\ now \in 0..MaxNow /\ newest \in [Streams -> Nat]
           /\ known \in [Streams -> 0..Capacity] /\ seed \in [Streams -> Nat]
           /\ faults \in 0..MaxFaults
FilesOK == /\ rows \in [Streams -> Seq(SUBSET Samples)]
           /\ cursor \in [Streams -> Nat] /\ counts \in [Streams -> Nat]
           /\ unwritten \subseteq Streams /\ dropped \subseteq Streams
FlagsOK == /\ lossy \in BOOLEAN /\ unread \in BOOLEAN
           /\ stopping \in BOOLEAN /\ closed \in BOOLEAN
ThreadsOK == /\ pc \in [Threads -> Labels] /\ todo \in [Threads -> Seq(Streams)]
             /\ got \in [Threads -> SUBSET Samples]
EndOK == /\ energy \in [{"first", "last"} -> 0..NoReading]
         /\ asked \in [newest: [Streams -> Nat], now: 0..MaxNow, late: BOOLEAN]
         /\ meta # NoMeta => meta.counts \in [Streams -> Nat]

LEMMA FaultsKept ==
  ASSUME TypeOK, Succeeds \/ Fails
  PROVE  faults' \in 0..MaxFaults
BY RecorderAssumption DEF TypeOK, Succeeds, Fails


LEMMA EmitType ==
  ASSUME TypeOK, NEW S \in SUBSET Streams, Emit(S)
  PROVE  TypeOK'
<1>1. RingsOK'
  <2>1. now' \in 0..MaxNow /\ UNCHANGED <<known, seed, faults>>
    BY RecorderAssumption DEF TypeOK, Emit, endVars
  <2>2. newest' \in [Streams -> Nat]
    BY DEF TypeOK, Emit
  <2> QED BY <2>1, <2>2 DEF TypeOK, RingsOK
<1>2. FilesOK'
  BY RecorderAssumption DEF TypeOK, FilesOK, Emit, deviceVars, driverVars, fileVars, energyVars,
     endVars
<1>3. FlagsOK'
  BY RecorderAssumption DEF TypeOK, FlagsOK, Emit, deviceVars, driverVars, fileVars, energyVars,
     endVars
<1>4. ThreadsOK'
  BY RecorderAssumption DEF TypeOK, ThreadsOK, Threads, Labels, Samples, Emit, deviceVars,
     driverVars, fileVars, energyVars, endVars
<1>5. EndOK'
  BY RecorderAssumption DEF TypeOK, EndOK, NoReading, Emit, deviceVars, driverVars, fileVars,
     energyVars, endVars
<1> QED BY <1>1, <1>2, <1>3, <1>4, <1>5 DEF TypeOK, RingsOK, FilesOK, FlagsOK, ThreadsOK, EndOK

LEMMA CharacterizeType ==
  ASSUME TypeOK, Characterize
  PROVE  TypeOK'
<1>1. RingsOK'
  <2>1. known' \in [Streams -> 0..Capacity]
    BY RingSize DEF Characterize
  <2> QED BY <2>1 DEF TypeOK, RingsOK, Characterize, endVars, deviceVars
<1>2. FilesOK'
  BY RecorderAssumption DEF TypeOK, FilesOK, Characterize, Goto, deviceVars, driverVars, fileVars,
     energyVars, endVars
<1>3. FlagsOK'
  BY RecorderAssumption DEF TypeOK, FlagsOK, Characterize, Goto, deviceVars, driverVars, fileVars,
     energyVars, endVars
<1>4. ThreadsOK'
  BY RecorderAssumption DEF TypeOK, ThreadsOK, Threads, Labels, Samples, Characterize, Goto,
     deviceVars, driverVars, fileVars, energyVars, endVars
<1>5. EndOK'
  BY RecorderAssumption DEF TypeOK, EndOK, NoReading, Characterize, Goto, deviceVars, driverVars,
     fileVars, energyVars, endVars
<1> QED BY <1>1, <1>2, <1>3, <1>4, <1>5 DEF TypeOK, RingsOK, FilesOK, FlagsOK, ThreadsOK, EndOK

LEMMA StartType ==
  ASSUME TypeOK, Start
  PROVE  TypeOK'
<1>1. RingsOK'
  <2>1. faults' \in 0..MaxFaults
    BY FaultsKept DEF Start
  <2>2. seed' \in [Streams -> Nat]
    BY DEF Start, TypeOK
  <2> QED BY <2>1, <2>2 DEF TypeOK, RingsOK, Start, deviceVars
<1>2. FilesOK'
  BY RecorderAssumption DEF TypeOK, FilesOK, Start, Succeeds, Fails, Goto, deviceVars, driverVars,
     fileVars, energyVars, endVars
<1>3. FlagsOK'
  BY RecorderAssumption DEF TypeOK, FlagsOK, Start, Succeeds, Fails, Goto, deviceVars, driverVars,
     fileVars, energyVars, endVars
<1>4. ThreadsOK'
  BY RecorderAssumption DEF TypeOK, ThreadsOK, Threads, Labels, Samples, Start, Succeeds, Fails,
     Goto, deviceVars, driverVars, fileVars, energyVars, endVars
<1>5. EndOK'
  BY RecorderAssumption DEF TypeOK, EndOK, NoReading, Start, Succeeds, Fails, Goto, deviceVars,
     driverVars, fileVars, energyVars, endVars
<1> QED BY <1>1, <1>2, <1>3, <1>4, <1>5 DEF TypeOK, RingsOK, FilesOK, FlagsOK, ThreadsOK, EndOK

LEMMA ReadStreamType ==
  ASSUME TypeOK, NEW t \in Threads, ReadStream(t)
  PROVE  TypeOK'
<1>1. RingsOK'
  BY FaultsKept DEF TypeOK, RingsOK, ReadStream, endVars, deviceVars
<1>2. FilesOK'
  BY RecorderAssumption DEF TypeOK, FilesOK, ReadStream, Succeeds, Fails, Goto, deviceVars,
     driverVars, fileVars, energyVars, endVars
<1>3. FlagsOK'
  BY RecorderAssumption DEF TypeOK, FlagsOK, ReadStream, Succeeds, Fails, Goto, deviceVars,
     driverVars, fileVars, energyVars, endVars
<1>4. ThreadsOK'
  <2>1. todo[t] \in Seq(Streams) /\ todo[t] # <<>> /\ Head(todo[t]) \in Streams
    BY DEF TypeOK, ReadStream
  <2>2. Tail(todo[t]) \in Seq(Streams)
    BY <2>1
  <2>3. Newer(Head(todo[t]), cursor[Head(todo[t])]) \in SUBSET Samples
    BY DEF Newer, Ring, Samples
  <2>4. pc' \in [Threads -> Labels]
    BY DEF TypeOK, ReadStream, Goto, Labels
  <2>5. todo' \in [Threads -> Seq(Streams)]
    BY <2>2 DEF TypeOK, ReadStream
  <2>6. got' \in [Threads -> SUBSET Samples]
    BY <2>3 DEF TypeOK, ReadStream
  <2> QED BY <2>4, <2>5, <2>6 DEF ThreadsOK
<1>5. EndOK'
  BY RecorderAssumption DEF TypeOK, EndOK, NoReading, ReadStream, Succeeds, Fails, Goto,
     deviceVars, driverVars, fileVars, energyVars, endVars
<1> QED BY <1>1, <1>2, <1>3, <1>4, <1>5 DEF TypeOK, RingsOK, FilesOK, FlagsOK, ThreadsOK, EndOK

LEMMA StoreSamplesType ==
  ASSUME TypeOK, FetchInv, ControlInv, NEW t \in Threads, StoreSamples(t)
  PROVE  TypeOK'
<1>1. RingsOK'
  <2>1. faults' \in 0..MaxFaults
    BY FaultsKept DEF StoreSamples, TypeOK
  <2> QED BY <2>1 DEF TypeOK, RingsOK, StoreSamples, endVars, deviceVars
<1>2. FilesOK'
  <2>1. PICK s \in Streams, lo \in Nat, m \in Nat : s = Head(todo[t]) /\ got[t] = (lo + 1)..m /\ lo < m
    BY DEF StoreSamples, FetchInv, Fetched, TypeOK
  <2>2. Max(got[t]) = m /\ Cardinality(got[t]) \in Nat
    BY <2>1, RunTop
  <2>3. got[t] \in SUBSET Samples /\ rows[s] \in Seq(SUBSET Samples)
    BY DEF TypeOK
  <2>4. CASE closed
    BY <2>4 DEF StoreSamples, TypeOK, FilesOK
  <2>5. CASE ~closed
    <3>1. /\ rows' = [rows EXCEPT ![s] = Append(@, got[t])]
          /\ cursor' = [cursor EXCEPT ![s] = m]
          /\ counts' = [counts EXCEPT ![s] = @ + Cardinality(got[t])]
      BY <2>1, <2>2, <2>5 DEF StoreSamples, Advance, Count
    <3>2. Append(rows[s], got[t]) \in Seq(SUBSET Samples)
      BY <2>3
    <3>3. rows' \in [Streams -> Seq(SUBSET Samples)]
      BY <3>1, <3>2 DEF TypeOK
    <3>4. cursor' \in [Streams -> Nat]
      BY <3>1 DEF TypeOK
    <3>5. counts' \in [Streams -> Nat]
      <4>1. counts[s] \in Nat
        BY DEF TypeOK
      <4>2. counts[s] + Cardinality(got[t]) \in Nat
        BY <2>2, <4>1
      <4> QED BY <3>1, <4>2 DEF TypeOK
    <3>6. unwritten' \subseteq Streams /\ dropped' \subseteq Streams
      <4>1. s \in Streams
        BY <2>1 DEF TypeOK, ControlInv, StoreSamples
      <4>2. /\ unwritten' \in {unwritten \ {s}, unwritten \cup {s}}
            /\ UNCHANGED dropped
        BY <2>1, <2>5 DEF StoreSamples
      <4> QED BY <4>1, <4>2 DEF TypeOK
    <3> QED BY <3>3, <3>4, <3>5, <3>6 DEF FilesOK
  <2> QED BY <2>4, <2>5
<1>3. FlagsOK'
  BY DEF TypeOK, FlagsOK, StoreSamples, Full, energyVars, endVars
<1>4. ThreadsOK'
  <2>1. Tail(todo[t]) \in Seq(Streams)
    BY DEF TypeOK, ControlInv, StoreSamples
  <2> QED BY <2>1 DEF TypeOK, ThreadsOK, StoreSamples, Goto, Labels
<1>5. EndOK'
  BY RecorderAssumption DEF TypeOK, EndOK, NoReading, StoreSamples, Succeeds, Fails, Goto,
     deviceVars, driverVars, fileVars, energyVars, endVars
<1> QED BY <1>1, <1>2, <1>3, <1>4, <1>5 DEF TypeOK, RingsOK, FilesOK, FlagsOK, ThreadsOK, EndOK

LEMMA PollDeviceType ==
  ASSUME TypeOK, NEW t \in Threads, PollDevice(t)
  PROVE  TypeOK'
<1>1. RingsOK'
  BY RecorderAssumption DEF TypeOK, RingsOK, PollDevice, Succeeds, Fails, Goto, deviceVars,
     driverVars, fileVars, energyVars, endVars
<1>2. FilesOK'
  BY RecorderAssumption DEF TypeOK, FilesOK, PollDevice, Succeeds, Fails, Goto, deviceVars,
     driverVars, fileVars, energyVars, endVars
<1>3. FlagsOK'
  BY RecorderAssumption DEF TypeOK, FlagsOK, PollDevice, Succeeds, Fails, Goto, deviceVars,
     driverVars, fileVars, energyVars, endVars
<1>4. ThreadsOK'
  <2>1. got' \in [Threads -> SUBSET Samples]
    <3>1. {now} \in SUBSET Samples /\ {} \in SUBSET Samples
      BY RecorderAssumption DEF TypeOK, Samples
    <3> QED BY <3>1 DEF TypeOK, PollDevice
  <2> QED BY <2>1 DEF TypeOK, ThreadsOK, PollDevice, Goto, Labels
<1>5. EndOK'
  BY RecorderAssumption DEF TypeOK, EndOK, NoReading, PollDevice, Succeeds, Fails, Goto,
     deviceVars, driverVars, fileVars, energyVars, endVars
<1> QED BY <1>1, <1>2, <1>3, <1>4, <1>5 DEF TypeOK, RingsOK, FilesOK, FlagsOK, ThreadsOK, EndOK

LEMMA LogPollType ==
  ASSUME TypeOK, EnergyInv, NEW t \in Threads, LogPoll(t)
  PROVE  TypeOK'
<1>1. RingsOK'
  <2>1. faults' \in 0..MaxFaults
    BY FaultsKept DEF LogPoll, Succeeds, TypeOK
  <2> QED BY <2>1 DEF TypeOK, RingsOK, LogPoll, endVars, deviceVars
<1>2. FilesOK'
  BY RecorderAssumption DEF TypeOK, FilesOK, LogPoll, Succeeds, Fails, Goto, deviceVars,
     driverVars, fileVars, energyVars, endVars
<1>3. FlagsOK'
  BY RecorderAssumption DEF TypeOK, FlagsOK, LogPoll, Succeeds, Fails, Goto, deviceVars,
     driverVars, fileVars, energyVars, endVars
<1>4. ThreadsOK'
  BY RecorderAssumption DEF TypeOK, ThreadsOK, Threads, Labels, Samples, LogPoll, Succeeds, Fails,
     Goto, deviceVars, driverVars, fileVars, energyVars, endVars
<1>5. EndOK'
  <2>1. \A e \in got[t] : e \in 0..NoReading
    <3>1. SUFFICES ASSUME got[t] # {} PROVE \A e \in got[t] : e \in 0..NoReading
      OBVIOUS
    <3>2. pc[t] = "log"
      BY DEF LogPoll
    <3>3. PICK e \in 0..now : got[t] = {e}
      BY <3>1, <3>2 DEF EnergyInv
    <3> QED BY <3>3, RecorderAssumption DEF TypeOK, NoReading
  <2>2. energy' \in [{"first", "last"} -> 0..NoReading]
    BY <2>1 DEF TypeOK, LogPoll, RecordEnergy
  <2> QED BY <2>2 DEF TypeOK, EndOK, LogPoll, endVars
<1> QED BY <1>1, <1>2, <1>3, <1>4, <1>5 DEF TypeOK, RingsOK, FilesOK, FlagsOK, ThreadsOK, EndOK

LEMMA CheckStopType ==
  ASSUME TypeOK, CheckStop
  PROVE  TypeOK'
<1>1. RingsOK'
  BY RecorderAssumption DEF TypeOK, RingsOK, CheckStop, Goto, BeginDrain, deviceVars, driverVars,
     fileVars, energyVars, endVars
<1>2. FilesOK'
  BY RecorderAssumption DEF TypeOK, FilesOK, CheckStop, Goto, BeginDrain, deviceVars, driverVars,
     fileVars, energyVars, endVars
<1>3. FlagsOK'
  BY RecorderAssumption DEF TypeOK, FlagsOK, CheckStop, Goto, BeginDrain, deviceVars, driverVars,
     fileVars, energyVars, endVars
<1>4. ThreadsOK'
  <2>1. pc' \in [Threads -> Labels]
    BY DEF TypeOK, CheckStop, BeginDrain, Goto, Labels
  <2>2. todo' \in [Threads -> Seq(Streams)]
    BY RecorderAssumption DEF TypeOK, CheckStop, BeginDrain
  <2> QED BY <2>1, <2>2 DEF TypeOK, ThreadsOK, CheckStop
<1>5. EndOK'
  BY RecorderAssumption DEF TypeOK, EndOK, NoReading, CheckStop, Goto, BeginDrain, deviceVars,
     driverVars, fileVars, energyVars, endVars
<1> QED BY <1>1, <1>2, <1>3, <1>4, <1>5 DEF TypeOK, RingsOK, FilesOK, FlagsOK, ThreadsOK, EndOK

LEMMA WaitType ==
  ASSUME TypeOK, Wait
  PROVE  TypeOK'
<1>1. RingsOK'
  BY RecorderAssumption DEF TypeOK, RingsOK, Wait, Goto, deviceVars, driverVars, fileVars,
     energyVars, endVars
<1>2. FilesOK'
  BY RecorderAssumption DEF TypeOK, FilesOK, Wait, Goto, deviceVars, driverVars, fileVars,
     energyVars, endVars
<1>3. FlagsOK'
  BY RecorderAssumption DEF TypeOK, FlagsOK, Wait, Goto, deviceVars, driverVars, fileVars,
     energyVars, endVars
<1>4. ThreadsOK'
  BY RecorderAssumption DEF TypeOK, ThreadsOK, Threads, Labels, Samples, Wait, Goto, deviceVars,
     driverVars, fileVars, energyVars, endVars
<1>5. EndOK'
  BY RecorderAssumption DEF TypeOK, EndOK, NoReading, Wait, Goto, deviceVars, driverVars,
     fileVars, energyVars, endVars
<1> QED BY <1>1, <1>2, <1>3, <1>4, <1>5 DEF TypeOK, RingsOK, FilesOK, FlagsOK, ThreadsOK, EndOK

LEMMA StopType ==
  ASSUME TypeOK, Stop
  PROVE  TypeOK'
<1>1. RingsOK'
  BY RecorderAssumption DEF TypeOK, RingsOK, Stop, Goto, deviceVars, driverVars, fileVars,
     energyVars, endVars
<1>2. FilesOK'
  BY RecorderAssumption DEF TypeOK, FilesOK, Stop, Goto, deviceVars, driverVars, fileVars,
     energyVars, endVars
<1>3. FlagsOK'
  BY RecorderAssumption DEF TypeOK, FlagsOK, Stop, Goto, deviceVars, driverVars, fileVars,
     energyVars, endVars
<1>4. ThreadsOK'
  BY RecorderAssumption DEF TypeOK, ThreadsOK, Threads, Labels, Samples, Stop, Goto, deviceVars,
     driverVars, fileVars, energyVars, endVars
<1>5. EndOK'
  BY RecorderAssumption DEF TypeOK, EndOK, NoReading, Stop, Goto, deviceVars, driverVars,
     fileVars, energyVars, endVars
<1> QED BY <1>1, <1>2, <1>3, <1>4, <1>5 DEF TypeOK, RingsOK, FilesOK, FlagsOK, ThreadsOK, EndOK

LEMMA JoinType ==
  ASSUME TypeOK, Join
  PROVE  TypeOK'
<1>1. RingsOK'
  BY RecorderAssumption DEF TypeOK, RingsOK, Join, JoinEnds, Ended, BeginDrain, Goto, deviceVars,
     driverVars, fileVars, energyVars, endVars
<1>2. FilesOK'
  BY RecorderAssumption DEF TypeOK, FilesOK, Join, JoinEnds, Ended, BeginDrain, Goto, deviceVars,
     driverVars, fileVars, energyVars, endVars
<1>3. FlagsOK'
  BY RecorderAssumption DEF TypeOK, FlagsOK, Join, JoinEnds, Ended, BeginDrain, Goto, deviceVars,
     driverVars, fileVars, energyVars, endVars
<1>4. ThreadsOK'
  BY RecorderAssumption DEF TypeOK, ThreadsOK, Threads, Labels, Samples, Join, JoinEnds, Ended,
     BeginDrain, Goto, deviceVars, driverVars, fileVars, energyVars, endVars
<1>5. EndOK'
  BY RecorderAssumption DEF TypeOK, EndOK, NoReading, Join, JoinEnds, Ended, BeginDrain, Goto,
     deviceVars, driverVars, fileVars, energyVars, endVars
<1> QED BY <1>1, <1>2, <1>3, <1>4, <1>5 DEF TypeOK, RingsOK, FilesOK, FlagsOK, ThreadsOK, EndOK

LEMMA WriteMetaType ==
  ASSUME TypeOK, WriteMeta
  PROVE  TypeOK'
<1>1. RingsOK'
  BY RecorderAssumption DEF TypeOK, RingsOK, WriteMeta, Succeeds, Fails, Goto, deviceVars,
     driverVars, fileVars, energyVars, endVars
<1>2. FilesOK'
  BY RecorderAssumption DEF TypeOK, FilesOK, WriteMeta, Succeeds, Fails, Goto, deviceVars,
     driverVars, fileVars, energyVars, endVars
<1>3. FlagsOK'
  BY RecorderAssumption DEF TypeOK, FlagsOK, WriteMeta, Succeeds, Fails, Goto, deviceVars,
     driverVars, fileVars, energyVars, endVars
<1>4. ThreadsOK'
  BY RecorderAssumption DEF TypeOK, ThreadsOK, Threads, Labels, Samples, WriteMeta, Succeeds,
     Fails, Goto, deviceVars, driverVars, fileVars, energyVars, endVars
<1>5. EndOK'
  BY RecorderAssumption DEF TypeOK, EndOK, NoReading, WriteMeta, Succeeds, Fails, Goto,
     deviceVars, driverVars, fileVars, energyVars, endVars
<1> QED BY <1>1, <1>2, <1>3, <1>4, <1>5 DEF TypeOK, RingsOK, FilesOK, FlagsOK, ThreadsOK, EndOK

LEMMA CloseFilesType ==
  ASSUME TypeOK, CloseFiles
  PROVE  TypeOK'
<1>1. RingsOK'
  BY FaultsKept DEF TypeOK, RingsOK, CloseFiles, deviceVars
<1>2. FilesOK'
  BY RecorderAssumption DEF TypeOK, FilesOK, CloseFiles, Goto, deviceVars, driverVars, fileVars,
     energyVars, endVars
<1>3. FlagsOK'
  BY RecorderAssumption DEF TypeOK, FlagsOK, CloseFiles, Goto, deviceVars, driverVars, fileVars,
     energyVars, endVars
<1>4. ThreadsOK'
  BY RecorderAssumption DEF TypeOK, ThreadsOK, Threads, Labels, Samples, CloseFiles, Goto,
     deviceVars, driverVars, fileVars, energyVars, endVars
<1>5. EndOK'
  BY RecorderAssumption DEF TypeOK, EndOK, NoReading, CloseFiles, Goto, deviceVars, driverVars,
     fileVars, energyVars, endVars
<1> QED BY <1>1, <1>2, <1>3, <1>4, <1>5 DEF TypeOK, RingsOK, FilesOK, FlagsOK, ThreadsOK, EndOK

-----------------------------------------------------------------------------
(* Every step keeps the invariant *)

LEMMA EmitKeeps ==
  ASSUME RecorderInv, NEW S \in SUBSET Streams, Emit(S)
  PROVE  RecorderInv'
<1>1. /\ UNCHANGED <<known, fileVars, energyVars, endVars, pc, todo, got>>
      /\ TypeOK
  BY DEF Emit, RecorderInv
<1>2. TypeOK'
  BY <1>1, EmitType
<1>3. now <= now' /\ \A s \in Streams : newest[s] \in Nat /\ newest'[s] \in Nat /\ newest[s] <= newest'[s]
  <2>1. now \in Nat /\ now' = now + 1
    BY <1>1, RecorderAssumption DEF Emit, TypeOK
  <2>2. \A s \in Streams : newest[s] \in Nat /\ (newest'[s] = newest[s] \/ newest'[s] = newest[s] + 1)
    BY <1>1 DEF Emit, TypeOK
  <2> QED BY <2>1, <2>2
<1>4. ControlInv' /\ StartInv'
  BY <1>1 DEF RecorderInv, ControlInv, StartInv, Ended, endVars, fileVars
<1>5. RingInv'
  <2>1. asked' = asked /\ known' = known /\ pc' = pc
    BY <1>1 DEF endVars
  <2>2. asked.now \in Nat /\ asked.now <= now /\ now \in Nat /\ now' \in Nat
    BY <1>1, <1>2, RecorderAssumption DEF RecorderInv, RingInv, TypeOK
  <2>3. \A s \in Streams : asked.newest[s] \in Nat /\ asked.newest[s] <= newest[s]
    BY <1>1 DEF RecorderInv, RingInv, TypeOK
  <2>4. asked'.now <= now' /\ \A s \in Streams : asked'.newest[s] <= newest'[s]
    BY <1>3, <2>1, <2>2, <2>3
  <2>5. 0 \notin Depths => \A s \in Streams : newest'[s] > 0 /\ (pc'["main"] # "new" => known'[s] > 0)
    BY <1>3, <2>1 DEF RecorderInv, RingInv
  <2> QED BY <2>4, <2>5 DEF RingInv
<1>6. OrderInv' /\ CoverInv' /\ CountInv'
  BY <1>1, <1>2, <1>3, FilesKept DEF RecorderInv, fileVars, endVars
<1>7. FetchInv'
  BY <1>1, <1>2, <1>3, FetchKept, FilesSame DEF RecorderInv, fileVars, endVars, ControlInv
<1>8. LastDrainInv'
  BY <1>1, <1>2, LastDrainKept, FilesSame DEF RecorderInv, fileVars, endVars
<1>9. EnergyInv'
  BY <1>1, <1>2, <1>3, EnergyKept DEF RecorderInv, energyVars, endVars
<1> QED BY <1>2, <1>4, <1>5, <1>6, <1>7, <1>8, <1>9 DEF RecorderInv

LEMMA CharacterizeKeeps ==
  ASSUME RecorderInv, Characterize
  PROVE  RecorderInv'
<1>1. /\ UNCHANGED <<deviceVars, fileVars, energyVars, endVars, todo, got>>
      /\ TypeOK /\ ControlInv /\ pc["main"] = "new" /\ pc["worker"] = "none"
  BY DEF Characterize, RecorderInv, ControlInv
<1>2. TypeOK'
  BY <1>1, CharacterizeType
<1>3. pc'["main"] = "profiled" /\ pc'["worker"] = "none"
  BY <1>1, Moved DEF Characterize, Threads
<1>4. ControlInv' /\ StartInv'
  BY <1>1, <1>3 DEF RecorderInv, ControlInv, StartInv, Ended, endVars, fileVars, Threads
<1>5. RingInv'
  <2>1. \A s \in Streams : newest[s] > 0 => known'[s] > 0
    BY <1>1, RingSize DEF Characterize
  <2> QED BY <1>1, <2>1 DEF RecorderInv, RingInv, endVars, deviceVars
<1>6. \A s \in Streams : rows[s] = <<>> /\ counts[s] = 0 /\ cursor[s] = 0 /\ seed[s] = 0
  BY <1>1 DEF RecorderInv, StartInv
<1>7. CoverInv'
  BY <1>1, <1>6 DEF CoverInv, Complete, fileVars, endVars
<1>8. OrderInv'
  BY <1>1, FilesSame DEF RecorderInv, OrderInv, Ascending, fileVars, endVars, deviceVars
<1>9. CountInv'
  BY <1>1, FilesSame DEF RecorderInv, CountInv, CountsMatch, fileVars, endVars
<1>10. FetchInv'
  BY <1>3 DEF FetchInv, Threads
<1>11. LastDrainInv'
  BY <1>1, <1>3 DEF ControlInv, LastDrainInv, endVars
<1>12. EnergyInv'
  BY <1>1, <1>2, <1>3, Still, EnergyKept DEF RecorderInv, energyVars, endVars, Threads
<1> QED BY <1>2, <1>4, <1>5, <1>7, <1>8, <1>9, <1>10, <1>11, <1>12 DEF RecorderInv

LEMMA StartKeeps ==
  ASSUME RecorderInv, Start
  PROVE  RecorderInv'
<1>1. /\ UNCHANGED <<deviceVars, known, rows, counts, lossy, energyVars, stopping, closed, meta,
                     asked, todo, got>>
      /\ TypeOK /\ ControlInv /\ pc["main"] = "profiled" /\ pc["worker"] = "none"
      /\ meta = NoMeta /\ ~asked.late
  BY DEF Start, RecorderInv, ControlInv
<1>2. TypeOK'
  BY <1>1, StartType
<1>3. \/ /\ cursor' = newest /\ seed' = newest
         /\ pc'["main"] = "running" /\ pc'["worker"] = "check"
      \/ /\ UNCHANGED <<cursor, seed>>
         /\ pc'["main"] = "raised" /\ pc'["worker"] = "none"
  BY <1>1, Moved DEF Start, Threads
<1>4. ControlInv' /\ StartInv'
  BY <1>1, <1>3 DEF ControlInv, StartInv, Ended, Threads
<1>5. RingInv'
  BY <1>1, <1>3 DEF RecorderInv, RingInv, deviceVars
<1>6. \A s \in Streams : rows[s] = <<>> /\ counts[s] = 0 /\ cursor[s] = 0 /\ seed[s] = 0
  BY <1>1 DEF RecorderInv, StartInv
<1>7. \A s \in Streams : Stored(s) = {} /\ Stored(s)' = {} /\ rows'[s] = <<>>
  <2>1. \A s \in Streams : rows[s] = <<>> /\ rows'[s] = <<>>
    BY <1>1, <1>6
  <2>2. UNION Range(<<>>) = {}
    BY DEF Range
  <2> QED BY <2>1, <2>2 DEF Stored
<1>8. \A s \in Streams : /\ newest[s] \in Nat
                         /\ cursor'[s] = seed'[s] /\ seed'[s] <= newest'[s] /\ seed'[s] \in Nat
  BY <1>1, <1>3, <1>6 DEF TypeOK, deviceVars
<1>9. CoverInv'
  BY <1>8 DEF CoverInv, Complete
<1>10. OrderInv'
  BY <1>7, <1>8 DEF OrderInv, Ascending
<1>11. CountInv'
  BY <1>1, FilesSame DEF RecorderInv, CountInv, CountsMatch
<1>12. FetchInv'
  BY <1>3 DEF FetchInv, Threads
<1>13. LastDrainInv'
  BY <1>1, <1>3 DEF LastDrainInv
<1>14. EnergyInv'
  BY <1>1, <1>2, <1>3, Still, EnergyKept DEF RecorderInv, energyVars, Threads
<1> QED BY <1>2, <1>4, <1>5, <1>9, <1>10, <1>11, <1>12, <1>13, <1>14 DEF RecorderInv

-----------------------------------------------------------------------------
(* A drain *)

\* A thread that drains does so after start().
LEMMA Started ==
  ASSUME RecorderInv, NEW t \in Threads, pc[t] \in {"check", "read", "store", "log", "wait"},
         pc' = pc \/ \E l \in Labels \ {"new", "profiled"} : Goto(t, l),
         UNCHANGED <<deviceVars, known, asked>>
  PROVE  StartInv' /\ RingInv'
<1>1. pc["main"] \notin {"new", "profiled"} /\ TypeOK
  BY DEF RecorderInv, ControlInv, Threads
<1>2. pc'["main"] \notin {"new", "profiled"}
  BY <1>1, Moved DEF Threads
<1>3. RingInv'
  BY <1>1, <1>2 DEF RecorderInv, RingInv, deviceVars
<1> QED BY <1>2, <1>3 DEF StartInv

LEMMA ReadStreamKeeps ==
  ASSUME RecorderInv, NEW t \in Threads, ReadStream(t)
  PROVE  RecorderInv'
<1>1. /\ UNCHANGED <<deviceVars, known, cursor, rows, counts, energyVars, endVars>>
      /\ TypeOK /\ ControlInv /\ pc[t] = "read" /\ todo[t] # <<>>
  BY DEF ReadStream, RecorderInv
<1>2. TypeOK'
  BY <1>1, ReadStreamType
<1>3. PICK s \in Streams : /\ s = Head(todo[t])
                           /\ Range(todo[t]) \subseteq Range(Tail(todo[t])) \cup {s}
  BY <1>1, Rest DEF TypeOK
<1>4. cursor[s] \in Nat /\ newest[s] \in Nat
  BY <1>1 DEF TypeOK
<1>5. PICK new : new = Newer(s, cursor[s])
  OBVIOUS
<1>6. \/ /\ new # {} /\ UNCHANGED <<todo, lossy>>
         /\ got' = [got EXCEPT ![t] = new] /\ Goto(t, "store")
      \/ /\ new = {} \/ lossy' = TRUE
         /\ lossy => lossy'
         /\ UNCHANGED <<pc, got>>
         /\ todo' = [todo EXCEPT ![t] = Tail(@)]
  BY <1>3, <1>5 DEF ReadStream
<1>7. \A u \in Threads : u # t => pc'[u] = pc[u] /\ got'[u] = got[u] /\ todo'[u] = todo[u]
  BY <1>1, <1>6, Moved DEF TypeOK
<1>8. \/ new # {} /\ pc'[t] = "store" /\ got'[t] = new /\ todo'[t] = todo[t] /\ lossy' = lossy
      \/ /\ pc'[t] = "read" /\ got'[t] = got[t] /\ todo'[t] = Tail(todo[t])
         /\ new = {} \/ lossy'
         /\ lossy => lossy'
  BY <1>1, <1>6, Moved DEF TypeOK
<1>9. ControlInv'
  BY <1>1, <1>7, <1>8 DEF ControlInv, Ended, endVars, Threads
<1>10. StartInv' /\ RingInv'
  BY <1>1, <1>6, Started DEF endVars, Labels
<1>11. OrderInv' /\ CoverInv' /\ CountInv'
  BY <1>1, <1>2, <1>8, Still, FilesKept DEF RecorderInv, endVars
<1>12. FetchInv'
  <2>1. CASE new # {} /\ pc'[t] = "store" /\ got'[t] = new /\ todo'[t] = todo[t] /\ lossy' = lossy
    <3>1. PICK lo \in Nat : /\ new = (lo + 1)..newest[s]
                            /\ cursor[s] <= lo /\ lo < newest[s]
                            /\ lo = cursor[s] \/ newest[s] - lo = Capacity
      BY <1>1, <1>3, <1>4, <2>1, RingRun, <1>4, <1>5
    <3>2. known[s] # 0 => Full(s, new) \/ lossy \/ Complete(s, lo)
      <4>1. CASE lo = cursor[s]
        BY <1>3, <1>4, <4>1 DEF RecorderInv, CoverInv, Noted
      <4>2. CASE newest[s] - lo = Capacity
        <5>1. Cardinality(new) = Capacity
          BY <1>3, <1>4, <3>1, <4>2, RunTop
        <5>2. known[s] \in 0..Capacity /\ Capacity \in Nat
          BY <1>1, RecorderAssumption DEF TypeOK
        <5> QED BY <5>1, <5>2 DEF Full
      <4> QED BY <3>1, <4>1, <4>2
    <3>3. t = "main" => asked.newest[s] <= newest[s]
      BY <1>3 DEF RecorderInv, RingInv
    <3>4. PICK m \in Nat : m = newest[s] /\ m = newest'[s]
      BY <1>1, <1>4 DEF deviceVars
    <3>5. Fetched(t, s, lo, m)' /\ lo \in 0..newest'[s] /\ m \in 0..newest'[s]
      <4>1. /\ UNCHANGED <<known, rows, seed, asked, cursor>>
            /\ lossy' = lossy /\ got'[t] = new /\ known' = known
        BY <1>1, <2>1 DEF endVars
      <4>2. lo < m /\ m <= newest'[s] /\ cursor'[s] <= lo /\ got'[t] = (lo + 1)..m
        <5>1. cursor'[s] = cursor[s] /\ got'[t] = new
          BY <4>1
        <5>2. lo < m /\ m <= newest'[s]
          BY <3>1, <3>4
        <5> QED BY <3>1, <3>4, <5>1, <5>2
      <4>3. known'[s] # 0 => Full(s, got[t])' \/ lossy' \/ Complete(s, lo)'
        BY <3>2, <4>1, FilesSame DEF Full, Complete
      <4>4. t = "main" => asked'.newest[s] <= m
        BY <3>3, <3>4, <4>1
      <4> QED BY <3>4, <4>2, <4>3, <4>4 DEF Fetched
    <3>6. s = Head(todo'[t])
      BY <1>3, <1>4, <2>1
    <3>7. ASSUME NEW u \in Threads, u # t, pc'[u] = "store"
          PROVE  \E r \in Streams : r = Head(todo'[u]) /\ \E a, b \in 0..newest'[r] : Fetched(u, r, a, b)'
      <4>1. PICK r \in Streams : r = Head(todo[u]) /\ \E a, b \in 0..newest[r] : Fetched(u, r, a, b)
        BY <1>7, <3>7 DEF RecorderInv, FetchInv
      <4>2. PICK a, b \in 0..newest[r] : Fetched(u, r, a, b)
        BY <4>1
      <4>3. Fetched(u, r, a, b)'
        BY <1>1, <1>7, <2>1, <3>7, <4>2, FilesSame
           DEF Fetched, Full, Complete, deviceVars, endVars
      <4> QED BY <1>1, <1>7, <3>7, <4>1, <4>3 DEF deviceVars
    <3>8. \E r \in Streams : r = Head(todo'[t]) /\ \E a, b \in 0..newest'[r] : Fetched(t, r, a, b)'
      BY <1>3, <1>4, <3>5, <3>6
    <3> QED BY <3>7, <3>8 DEF FetchInv
  <2>2. CASE pc'[t] = "read" /\ (lossy => lossy')
    <3>1. \A u \in Threads : pc'[u] = "store" =>
            pc[u] = "store" /\ got'[u] = got[u] /\ todo'[u] = todo[u]
      BY <1>7, <2>2
    <3> QED
      BY <1>1, <1>2, <2>2, <3>1, Still, FetchKept, FilesSame DEF RecorderInv, ControlInv, endVars
  <2> QED BY <1>8, <2>1, <2>2
<1>13. LastDrainInv'
  <2>1. CASE t # "main" \/ todo'[t] = todo[t]
    <3>1. todo'["main"] = todo["main"]
      BY <1>7, <2>1 DEF Threads
    <3>2. pc'["main"] \in {"read", "store", "log", "meta"} =>
            pc["main"] \in {"read", "store", "log", "meta"}
      BY <1>1, <1>7 DEF Threads
    <3> QED
      BY <1>1, <1>2, <1>8, <3>1, <3>2, LastDrainKept, FilesSame DEF RecorderInv, endVars
  <2>2. CASE t = "main" /\ todo'[t] = Tail(todo[t]) /\ (new = {} \/ lossy') /\ (lossy => lossy')
    <3>1. ASSUME NEW r \in Streams \ Range(todo'["main"]), ~Noted(r)'
          PROVE  Complete(r, asked.newest[r])
      <4>1. r \notin Range(Tail(todo[t])) /\ ~lossy /\ known[r] # 0 /\ new = {}
        BY <1>1, <2>2, <3>1 DEF Noted
      <4>2. CASE r \notin Range(todo["main"])
        BY <1>1, <2>2, <4>1, <4>2 DEF RecorderInv, LastDrainInv, Noted
      <4>3. CASE r = s
        <5>1. newest[s] <= cursor[s] /\ asked.newest[s] <= newest[s] /\ asked.newest[s] \in Nat
          BY <1>1, <1>3, <1>4, <4>1, <1>4, <1>5, RingEmpty DEF RecorderInv, RingInv, TypeOK
        <5>2. Complete(s, cursor[s])
          BY <1>3, <1>4, <4>1, <4>3 DEF RecorderInv, CoverInv, Noted
        <5>3. seed[s] \in Nat
          BY <1>1, <1>3 DEF TypeOK
        <5> QED BY <1>3, <1>4, <4>3, <5>1, <5>2, <5>3 DEF Complete
      <4> QED BY <1>3, <1>4, <2>2, <4>1, <4>2, <4>3
    <3>2. \A r \in Streams \ Range(todo'["main"]) :
            Noted(r)' \/ (seed'[r] + 1)..asked'.newest[r] \subseteq Stored(r)'
      BY <1>1, <3>1, FilesSame DEF Complete, endVars
    <3>3. meta' # NoMeta /\ meta'.clean =>
            \A r \in Streams : known'[r] = 0 \/ (seed'[r] + 1)..asked'.newest[r] \subseteq Stored(r)'
      BY <1>1, FilesSame DEF RecorderInv, LastDrainInv, Complete, endVars
    <3> QED BY <3>2, <3>3 DEF LastDrainInv, Complete
  <2> QED BY <1>8, <2>1, <2>2
<1>14. EnergyInv'
  BY <1>1, <1>2, <1>7, <1>8, Still, EnergyKept DEF RecorderInv, energyVars, endVars, Threads
<1> QED BY <1>2, <1>9, <1>10, <1>11, <1>12, <1>13, <1>14 DEF RecorderInv

\* A file given the samples that were fetched, and its cursor.
Given(s, lo, m) ==
  /\ rows' = [rows EXCEPT ![s] = Append(@, (lo + 1)..m)]
  /\ cursor' = [cursor EXCEPT ![s] = m]
  /\ counts' = [counts EXCEPT ![s] = @ + (m - lo)]

LEMMA GivenFiles ==
  ASSUME TypeOK, NEW s \in Streams, NEW lo \in Nat, NEW m \in Nat, lo < m, Given(s, lo, m)
  PROVE  /\ Stored(s)' = Stored(s) \cup (lo + 1)..m
         /\ \A r \in Streams : r # s => /\ rows'[r] = rows[r] /\ Stored(r)' = Stored(r)
                                        /\ cursor'[r] = cursor[r] /\ counts'[r] = counts[r]
         /\ rows'[s] = Append(rows[s], (lo + 1)..m)
         /\ cursor'[s] = m /\ counts'[s] = counts[s] + (m - lo)
<1>1. rows[s] \in Seq(SUBSET Samples) /\ (lo + 1)..m \in SUBSET Samples
  BY DEF TypeOK, Samples
<1>2. /\ rows'[s] = Append(rows[s], (lo + 1)..m)
      /\ \A r \in Streams : r # s => rows'[r] = rows[r]
  BY DEF TypeOK, Given
<1>3. /\ cursor'[s] = m /\ counts'[s] = counts[s] + (m - lo)
      /\ \A r \in Streams : r # s => cursor'[r] = cursor[r] /\ counts'[r] = counts[r]
  BY DEF TypeOK, Given
<1>4. Stored(s)' = Stored(s) \cup (lo + 1)..m
  BY <1>1, <1>2, Appended DEF Stored
<1> QED BY <1>2, <1>3, <1>4 DEF Stored

\* Samples behind the cursor keep the file in the driver's order.
LEMMA GivenOrder ==
  ASSUME TypeOK, OrderInv, ~asked.late, NEW s \in Streams, NEW lo \in Nat, NEW m \in Nat,
         lo < m, cursor[s] <= lo, m <= newest[s], Given(s, lo, m),
         UNCHANGED <<seed, newest>>
  PROVE  OrderInv'
<1>1. /\ Stored(s)' = Stored(s) \cup (lo + 1)..m
      /\ \A r \in Streams : r # s => /\ rows'[r] = rows[r] /\ Stored(r)' = Stored(r)
                                     /\ cursor'[r] = cursor[r]
      /\ rows'[s] = Append(rows[s], (lo + 1)..m)
      /\ cursor'[s] = m
  BY GivenFiles
<1>2. /\ Ascending
      /\ \A r \in Streams : /\ seed[r] <= cursor[r] /\ cursor[r] <= newest[r]
                            /\ \A k \in Stored(r) : k <= cursor[r]
  BY DEF OrderInv
<1>3. /\ seed[s] \in Nat /\ cursor[s] \in Nat /\ newest[s] \in Nat
      /\ rows[s] \in Seq(SUBSET Nat)
  BY DEF TypeOK, Samples
<1>4. \A r \in Streams : /\ seed'[r] <= cursor'[r] /\ cursor'[r] <= newest'[r]
                         /\ \A k \in Stored(r)' : k <= cursor'[r]
  <2>1. seed'[s] <= cursor'[s] /\ cursor'[s] <= newest'[s]
    BY <1>1, <1>2, <1>3
  <2>2. ASSUME NEW k \in Stored(s)' PROVE k <= cursor'[s]
    <3>1. CASE k \in Stored(s)
      <4>1. k \in Nat /\ k <= cursor[s]
        BY <1>2, <3>1, StoredNumbers
      <4> QED BY <1>1, <1>3, <4>1
    <3>2. CASE k \in (lo + 1)..m
      BY <1>1, <3>2
    <3> QED BY <1>1, <3>1, <3>2
  <2> QED BY <1>1, <1>2, <2>1, <2>2
<1>5. ASSUME NEW r \in Streams, NEW k \in Stored(r)' PROVE k > seed'[r]
  <2>1. CASE k \in Stored(r)
    BY <1>2, <2>1 DEF Ascending
  <2>2. CASE r = s /\ k \in (lo + 1)..m
    BY <1>2, <1>3, <2>2
  <2> QED BY <1>1, <2>1, <2>2
<1>6. ASSUME NEW r \in Streams, NEW i \in DOMAIN rows'[r], NEW j \in DOMAIN rows'[r], i < j,
             NEW k \in rows'[r][i], NEW n \in rows'[r][j]
      PROVE  k < n
  <2>1. CASE r # s
    BY <1>1, <1>2, <1>6, <2>1 DEF Ascending
  <2>2. CASE r = s
    <3>1. /\ DOMAIN rows'[s] = 1..(Len(rows[s]) + 1) /\ Len(rows[s]) \in Nat
          /\ DOMAIN rows[s] = 1..Len(rows[s])
          /\ rows'[s][Len(rows[s]) + 1] = (lo + 1)..m
          /\ \A h \in 1..Len(rows[s]) : rows'[s][h] = rows[s][h]
      BY <1>1, <1>3
    <3>2. i \in 1..Len(rows[s]) /\ k \in rows[s][i]
      BY <1>6, <2>2, <3>1
    <3>3. CASE j \in 1..Len(rows[s])
      BY <1>2, <1>6, <2>2, <3>1, <3>2, <3>3 DEF Ascending
    <3>4. CASE j = Len(rows[s]) + 1
      <4>1. k \in Stored(s) /\ k \in Nat
        BY <3>1, <3>2, StoredNumbers
      <4>2. k <= cursor[s]
        BY <1>2, <4>1
      <4>3. n \in (lo + 1)..m
        BY <1>6, <2>2, <3>1, <3>4
      <4> QED BY <1>3, <4>1, <4>2, <4>3
    <3> QED BY <2>2, <3>1, <3>3, <3>4
  <2> QED BY <2>1, <2>2
<1>7. Ascending'
  BY <1>5, <1>6 DEF Ascending
<1> QED BY <1>4, <1>7 DEF OrderInv

\* They are counted.
LEMMA GivenCount ==
  ASSUME TypeOK, OrderInv, ~asked.late, NEW s \in Streams, NEW lo \in Nat, NEW m \in Nat,
         lo < m, cursor[s] <= lo, Given(s, lo, m),
         \A r \in Streams : counts[r] = Cardinality(Stored(r))
  PROVE  \A r \in Streams : counts'[r] = Cardinality(Stored(r)')
<1>1. /\ Stored(s)' = Stored(s) \cup (lo + 1)..m
      /\ \A r \in Streams : r # s => Stored(r)' = Stored(r) /\ counts'[r] = counts[r]
      /\ counts'[s] = counts[s] + (m - lo)
  BY GivenFiles
<1>2. Stored(s) \subseteq Nat /\ cursor[s] \in Nat /\ \A k \in Stored(s) : k <= cursor[s]
  BY StoredNumbers DEF OrderInv, TypeOK
<1>3. IsFiniteSet(Stored(s))
  <2>1. Stored(s) \in SUBSET (0..cursor[s])
    BY <1>2
  <2>2. IsFiniteSet(0..cursor[s])
    <3>1. 0 \in Int /\ cursor[s] \in Int
      BY <1>2
    <3> QED BY <3>1, FS_Interval
  <2> QED BY <2>1, <2>2, FS_Subset
<1>4. IsFiniteSet((lo + 1)..m) /\ Cardinality((lo + 1)..m) = m - lo
  BY RunTop
<1>5. Stored(s) \cap (lo + 1)..m = {}
  BY <1>2
<1>6. Cardinality(Stored(s) \cup (lo + 1)..m) =
        Cardinality(Stored(s)) + Cardinality((lo + 1)..m) - Cardinality(Stored(s) \cap (lo + 1)..m)
  BY <1>3, <1>4, FS_Union
<1>7. Cardinality(Stored(s) \cap (lo + 1)..m) = 0 /\ Cardinality(Stored(s)) \in Nat
  BY <1>3, <1>5, FS_EmptySet, FS_CardinalityType
<1>8. counts'[s] = Cardinality(Stored(s)')
  BY <1>1, <1>4, <1>6, <1>7
<1> QED BY <1>1, <1>8

LEMMA StoreSamplesKeeps ==
  ASSUME RecorderInv, NEW t \in Threads, StoreSamples(t)
  PROVE  RecorderInv'
<1>1. /\ UNCHANGED <<deviceVars, known, energyVars, endVars>>
      /\ TypeOK /\ ControlInv /\ pc[t] = "store" /\ todo[t] # <<>>
      /\ todo' = [todo EXCEPT ![t] = Tail(@)] /\ got' = [got EXCEPT ![t] = {}]
  BY DEF StoreSamples, RecorderInv, ControlInv
<1>2. TypeOK'
  BY <1>1, StoreSamplesType DEF RecorderInv
<1>3. PICK s \in Streams : s = Head(todo[t]) /\ \E lo, m \in 0..newest[s] : Fetched(t, s, lo, m)
  BY <1>1 DEF RecorderInv, FetchInv
<1>4. PICK lo, m \in 0..newest[s] : Fetched(t, s, lo, m)
  BY <1>3
<1>5. /\ lo \in Nat /\ m \in Nat /\ lo < m /\ m <= newest[s] /\ newest[s] \in Nat
      /\ got[t] = (lo + 1)..m
  BY <1>1, <1>4 DEF Fetched, TypeOK
<1>6. Max(got[t]) = m /\ Cardinality(got[t]) = m - lo
  BY <1>5, RunTop
<1>7. \/ Given(s, lo, m)
      \/ UNCHANGED <<rows, cursor, counts>> /\ \A u \in Threads : pc'[u] \in {pc[u], "raised"}
  <2>1. CASE ~closed
    BY <1>3, <1>5, <1>6, <2>1 DEF StoreSamples, Given, Advance, Count
  <2>2. CASE closed
    BY <1>1, <2>2, Moved DEF StoreSamples
  <2> QED BY <2>1, <2>2
<1>8. /\ pc'[t] \in {"read", "raised"} /\ got'[t] = {} /\ todo'[t] = Tail(todo[t])
      /\ \A u \in Threads : u # t => pc'[u] = pc[u] /\ got'[u] = got[u] /\ todo'[u] = todo[u]
      /\ pc'[t] = "raised" \/ Given(s, lo, m)
  <2>1. \A u \in Threads : u # t => pc'[u] = pc[u]
    BY <1>1, Moved DEF StoreSamples
  <2>2. pc'[t] \in {"read", "raised"}
    BY <1>1, Moved DEF StoreSamples
  <2>3. pc'[t] = "raised" \/ Given(s, lo, m)
    BY <1>1, <1>7, <2>2
  <2> QED BY <1>1, <2>1, <2>2, <2>3 DEF TypeOK
<1>9. (lossy => lossy') /\ (lossy' \/ ~Full(s, got[t]))
  BY <1>3 DEF StoreSamples
<1>10. \A r \in Streams : Stored(r) \subseteq Stored(r)'
  BY <1>1, <1>5, <1>7, GivenFiles, FilesSame
<1>11. ControlInv'
  BY <1>1, <1>8 DEF ControlInv, Ended, endVars, Threads
<1>12. StartInv' /\ RingInv'
  <2>1. Goto(t, "read") \/ Goto(t, "raised")
    BY DEF StoreSamples
  <2> QED BY <1>1, <2>1, Started DEF endVars, Labels
<1>13. OrderInv'
  <2>1. CASE Given(s, lo, m) /\ ~asked.late
    BY <1>1, <1>4, <1>5, <2>1, GivenOrder DEF RecorderInv, Fetched, endVars, deviceVars
  <2>2. CASE asked.late
    BY <1>1, <2>2 DEF OrderInv, endVars
  <2>3. CASE UNCHANGED <<rows, cursor, counts>>
    BY <1>1, <1>2, <1>9, <2>3, Still, FilesKept DEF RecorderInv, endVars
  <2> QED BY <1>7, <2>1, <2>2, <2>3
<1>14. CoverInv'
  <2>1. CASE Given(s, lo, m)
    <3>1. ASSUME ~Noted(s)'
          PROVE  Complete(s, cursor[s])'
      <4>1. Complete(s, lo)
        BY <1>1, <1>4, <1>9, <3>1 DEF Fetched, Noted
      <4>2. cursor'[s] = m /\ Stored(s)' = Stored(s) \cup (lo + 1)..m /\ seed' = seed /\ seed[s] \in Nat
        <5>1. cursor'[s] = m /\ Stored(s)' = Stored(s) \cup (lo + 1)..m
          BY <1>1, <1>5, <2>1, GivenFiles
        <5> QED BY <1>1, <5>1 DEF endVars, TypeOK
      <4> QED BY <1>5, <4>1, <4>2 DEF Complete
    <3>2. \A r \in Streams : r # s => Noted(r)' \/ Complete(r, cursor[r])'
      BY <1>1, <1>5, <1>9, <2>1, GivenFiles DEF RecorderInv, CoverInv, Noted, Complete, endVars
    <3> QED BY <3>1, <3>2 DEF CoverInv
  <2>2. CASE UNCHANGED <<rows, cursor, counts>>
    BY <1>1, <1>2, <1>9, <2>2, Still, FilesKept DEF RecorderInv, endVars
  <2> QED BY <1>7, <2>1, <2>2
<1>15. CountInv'
  <2>1. CountsMatch'
    <3>1. meta = NoMeta \/ asked.late
      BY <1>1 DEF ControlInv, Ended, Threads
    <3> QED BY <1>1, <3>1 DEF CountsMatch, endVars
  <2>2. CASE Given(s, lo, m) /\ ~asked.late
    <3>1. \A r \in Streams : counts'[r] = Cardinality(Stored(r)')
      BY <1>1, <1>4, <1>5, <2>2, GivenCount DEF RecorderInv, Fetched, CountInv
    <3> QED BY <2>1, <3>1 DEF CountInv
  <2>3. CASE asked.late
    BY <1>1, <2>1, <2>3 DEF CountInv, endVars
  <2>4. CASE UNCHANGED <<rows, cursor, counts>>
    BY <1>1, <1>2, <1>9, <2>4, Still, FilesKept DEF RecorderInv, endVars
  <2> QED BY <1>7, <2>2, <2>3, <2>4
<1>16. FetchInv'
  <2>1. \A u \in Threads : pc'[u] = "store" =>
          u # t /\ pc[u] = "store" /\ got'[u] = got[u] /\ todo'[u] = todo[u]
    BY <1>8
  <2>2. CASE \E u \in Threads : pc'[u] = "store"
    <3>1. asked.late
      BY <1>1, <2>1, <2>2 DEF ControlInv, Ended, Threads
    <3> QED
      BY <1>1, <1>2, <1>9, <1>10, <2>1, <3>1, Still, FetchKept DEF RecorderInv, ControlInv, endVars
  <2>3. CASE ~\E u \in Threads : pc'[u] = "store"
    BY <2>3 DEF FetchInv
  <2> QED BY <2>2, <2>3
<1>17. LastDrainInv'
  <2>1. CASE t = "worker" \/ pc'[t] = "raised"
    <3>1. pc'["main"] \in {"read", "store", "log", "meta"} =>
            pc["main"] \in {"read", "store", "log", "meta"} /\ todo'["main"] = todo["main"]
      BY <1>8, <2>1 DEF Threads
    <3> QED BY <1>1, <1>2, <1>9, <1>10, <3>1, LastDrainKept DEF RecorderInv, endVars
  <2>2. CASE t = "main" /\ Given(s, lo, m)
    <3>1. meta' = NoMeta
      BY <1>1, <2>2 DEF ControlInv, endVars
    <3>2. ASSUME NEW r \in Streams \ Range(todo'["main"]), ~Noted(r)'
          PROVE  (seed'[r] + 1)..asked'.newest[r] \subseteq Stored(r)'
      <4>1. r \notin Range(Tail(todo["main"])) /\ ~lossy /\ known[r] # 0
        BY <1>1, <1>8, <1>9, <2>2, <3>2 DEF Noted
      <4>2. CASE r \notin Range(todo["main"])
        <5>1. Complete(r, asked.newest[r])
          BY <1>1, <2>2, <4>1, <4>2 DEF RecorderInv, LastDrainInv, Noted
        <5> QED BY <1>1, <1>10, <5>1 DEF Complete, endVars
      <4>3. CASE r = s
        <5>1. Complete(s, m)'
          <6>1. cursor'[s] = m
            BY <1>1, <1>5, <2>2, GivenFiles
          <6> QED BY <1>14, <3>2, <4>3, <6>1 DEF CoverInv, Complete
        <5>2. asked.newest[s] <= m /\ asked.newest[s] \in Nat /\ asked' = asked
          BY <1>1, <1>4, <2>2 DEF Fetched, TypeOK, endVars
        <5>3. seed'[s] \in Nat
          BY <1>2 DEF TypeOK
        <5> QED BY <1>5, <4>3, <5>1, <5>2, <5>3 DEF Complete
      <4>4. Range(todo["main"]) \subseteq Range(Tail(todo["main"])) \cup {s}
        BY <1>1, <1>3, <2>2, Rest DEF TypeOK
      <4> QED BY <4>1, <4>2, <4>3, <4>4
    <3> QED BY <3>1, <3>2 DEF LastDrainInv, Complete
  <2> QED BY <1>8, <2>1, <2>2 DEF Threads
<1>18. EnergyInv'
  BY <1>1, <1>2, <1>8, Still, EnergyKept DEF RecorderInv, energyVars, endVars, Threads
<1> QED BY <1>2, <1>11, <1>12, <1>13, <1>14, <1>15, <1>16, <1>17, <1>18 DEF RecorderInv

\* The readings and clocks are numbers.
LEMMA Clocks ==
  ASSUME TypeOK
  PROVE  /\ MaxNow \in Nat /\ NoReading \in Nat /\ now \in Nat /\ now <= MaxNow
         /\ energy["first"] \in Nat /\ energy["last"] \in Nat /\ asked.now \in Nat
<1>1. MaxNow \in Nat /\ NoReading \in Nat
  BY RecorderAssumption DEF NoReading
<1>2. now \in 0..MaxNow /\ asked.now \in 0..MaxNow
  BY DEF TypeOK
<1>3. energy["first"] \in 0..NoReading /\ energy["last"] \in 0..NoReading
  BY DEF TypeOK
<1> QED BY <1>1, <1>2, <1>3

LEMMA PollDeviceKeeps ==
  ASSUME RecorderInv, NEW t \in Threads, PollDevice(t)
  PROVE  RecorderInv'
<1>1. /\ UNCHANGED <<deviceVars, known, fileVars, energyVars, endVars, todo>>
      /\ TypeOK /\ ControlInv /\ pc[t] = "read" /\ todo[t] = <<>> /\ Goto(t, "log")
      /\ got' = [got EXCEPT ![t] = {now}] \/ got' = [got EXCEPT ![t] = {}]
  BY DEF PollDevice, RecorderInv
<1>2. TypeOK'
  BY <1>1, PollDeviceType
<1>3. /\ pc'[t] = "log" /\ got'[t] \in {{now}, {}}
      /\ \A u \in Threads : u # t => pc'[u] = pc[u] /\ got'[u] = got[u]
  BY <1>1, Moved DEF TypeOK
<1>4. ControlInv'
  BY <1>1, <1>3 DEF ControlInv, Ended, endVars, Threads
<1>5. StartInv' /\ RingInv'
  BY <1>1, Started DEF endVars, Labels
<1>6. OrderInv' /\ CoverInv' /\ CountInv'
  BY <1>1, <1>2, Still, FilesKept DEF RecorderInv, fileVars, endVars
<1>7. FetchInv'
  BY <1>1, <1>2, <1>3, Still, FetchKept, FilesSame DEF RecorderInv, ControlInv, fileVars, endVars
<1>8. LastDrainInv'
  BY <1>1, <1>2, <1>3, LastDrainKept, FilesSame DEF RecorderInv, fileVars, endVars, Threads
<1>9. EnergyInv'
  <2>1. /\ now \in Nat /\ now' = now /\ asked' = asked /\ energy' = energy /\ unread' = unread
        /\ meta' = meta /\ energy["last"] \in Nat
    BY <1>1, Still, Clocks DEF energyVars, endVars
  <2>2. ASSUME got'[t] # {}
        PROVE  /\ got'[t] = {now} /\ now \in 0..now'
               /\ asked'.late \/ energy'["last"] \in {NoReading} \cup 0..now
               /\ t = "main" => asked'.now <= now
    <3>1. energy["last"] # NoReading => energy["last"] <= now /\ energy["last"] \in Nat
      BY <2>1 DEF RecorderInv, EnergyInv
    <3>2. asked.now <= now
      BY DEF RecorderInv, RingInv
    <3> QED BY <1>3, <2>1, <2>2, <3>1, <3>2
  <2>3. ASSUME NEW u \in Threads, u # t, pc'[u] = "log", got'[u] # {}
        PROVE  \E e \in 0..now' : /\ got'[u] = {e}
                                  /\ asked'.late \/ energy'["last"] \in {NoReading} \cup 0..e
                                  /\ u = "main" => asked'.now <= e
    BY <1>3, <2>1, <2>3 DEF RecorderInv, EnergyInv
  <2>4. /\ asked'.late \/ energy'["first"] <= energy'["last"]
        /\ energy'["first"] = NoReading <=> energy'["last"] = NoReading
        /\ energy'["last"] # NoReading => energy'["last"] <= now'
    BY <2>1 DEF RecorderInv, EnergyInv
  <2>5. EnergyCovers'
    BY <2>1 DEF RecorderInv, EnergyInv, EnergyCovers
  <2>6. pc'["main"] = "meta" => pc["main"] = "meta"
    BY <1>3 DEF Threads
  <2>7. pc'["main"] = "meta" /\ ~asked'.late => unread' \/ energy'["last"] \in asked'.now..MaxNow
    BY <2>1, <2>6 DEF RecorderInv, EnergyInv
  <2>8. \A u \in Threads : pc'[u] = "log" /\ got'[u] # {} =>
          \E e \in 0..now' : /\ got'[u] = {e}
                             /\ asked'.late \/ energy'["last"] \in {NoReading} \cup 0..e
                             /\ u = "main" => asked'.now <= e
    BY <2>2, <2>3
  <2> QED BY <2>4, <2>5, <2>7, <2>8 DEF EnergyInv
<1> QED BY <1>2, <1>4, <1>5, <1>6, <1>7, <1>8, <1>9 DEF RecorderInv

LEMMA LogPollKeeps ==
  ASSUME RecorderInv, NEW t \in Threads, LogPoll(t)
  PROVE  RecorderInv'
<1>1. /\ UNCHANGED <<deviceVars, known, fileVars, endVars, todo>>
      /\ TypeOK /\ ControlInv /\ pc[t] = "log" /\ got' = [got EXCEPT ![t] = {}]
      /\ \/ got[t] = {} /\ unread' = TRUE /\ UNCHANGED energy
         \/ \E e \in got[t] : RecordEnergy(e) /\ UNCHANGED unread
  BY DEF LogPoll, RecorderInv
<1>2. TypeOK'
  BY <1>1, LogPollType DEF RecorderInv
<1>3. /\ pc'[t] \in {IF t = "main" THEN "meta" ELSE "wait", "raised"} /\ got'[t] = {}
      /\ \A u \in Threads : u # t => pc'[u] = pc[u] /\ got'[u] = got[u]
  BY <1>1, Moved DEF LogPoll, TypeOK
<1>4. ControlInv'
  BY <1>1, <1>3 DEF ControlInv, Ended, endVars, Threads
<1>5. StartInv' /\ RingInv'
  <2>1. \E l \in Labels \ {"new", "profiled"} : Goto(t, l)
    BY DEF LogPoll, Labels
  <2> QED BY <1>1, <2>1, Started DEF endVars
<1>6. OrderInv' /\ CoverInv' /\ CountInv'
  BY <1>1, <1>2, Still, FilesKept DEF RecorderInv, fileVars, endVars
<1>7. FetchInv'
  BY <1>1, <1>2, <1>3, Still, FetchKept, FilesSame DEF RecorderInv, ControlInv, fileVars, endVars
<1>8. LastDrainInv'
  BY <1>1, <1>2, <1>3, LastDrainKept, FilesSame DEF RecorderInv, fileVars, endVars, Threads
<1>9. EnergyInv'
  <2>1. /\ now \in Nat /\ now' = now /\ asked' = asked /\ meta' = meta
        /\ energy["last"] \in Nat /\ energy["first"] \in Nat /\ now <= MaxNow /\ MaxNow \in Nat
        /\ asked.now \in Nat
    BY <1>1, Still, Clocks DEF endVars
  <2>2. EnergyCovers'
    BY <2>1 DEF RecorderInv, EnergyInv, EnergyCovers
  <2>3. CASE got[t] = {} /\ unread' = TRUE /\ UNCHANGED energy
    <3>1. \A u \in Threads : pc'[u] = "log" /\ got'[u] # {} =>
            \E e \in 0..now' : /\ got'[u] = {e}
                               /\ asked'.late \/ energy'["last"] \in {NoReading} \cup 0..e
                               /\ u = "main" => asked'.now <= e
      BY <1>3, <2>1, <2>3 DEF RecorderInv, EnergyInv
    <3>2. /\ asked'.late \/ energy'["first"] <= energy'["last"]
          /\ energy'["first"] = NoReading <=> energy'["last"] = NoReading
          /\ energy'["last"] # NoReading => energy'["last"] <= now'
      BY <2>1, <2>3 DEF RecorderInv, EnergyInv
    <3> QED BY <2>2, <2>3, <3>1, <3>2 DEF EnergyInv
  <2>4. CASE \E e \in got[t] : RecordEnergy(e) /\ UNCHANGED unread
    <3>1. PICK e \in 0..now :
            /\ got[t] = {e}
            /\ asked.late \/ energy["last"] \in {NoReading} \cup 0..e
            /\ t = "main" => asked.now <= e
      BY <1>1, <2>4 DEF RecorderInv, EnergyInv
    <3>2. /\ energy'["last"] = e /\ unread' = unread
          /\ energy'["first"] = IF energy["first"] = NoReading THEN e ELSE energy["first"]
      BY <1>1, <2>4, <3>1 DEF RecordEnergy, TypeOK
    <3>3. NoReading = MaxNow + 1 /\ e \in Nat /\ e <= now
      BY <2>1 DEF NoReading
    <3>4. /\ asked.late \/ energy["first"] <= energy["last"]
          /\ energy["first"] = NoReading <=> energy["last"] = NoReading
      BY DEF RecorderInv, EnergyInv
    <3>5. asked.late \/ energy'["first"] <= energy'["last"]
      BY <2>1, <3>1, <3>2, <3>3, <3>4
    <3>6. energy'["first"] # NoReading /\ energy'["last"] # NoReading /\ energy'["last"] <= now'
      BY <2>1, <3>2, <3>3
    <3>7. ASSUME NEW u \in Threads, pc'[u] = "log", got'[u] # {}
          PROVE  \E d \in 0..now' : /\ got'[u] = {d}
                                    /\ asked'.late \/ energy'["last"] \in {NoReading} \cup 0..d
                                    /\ u = "main" => asked'.now <= d
      <4>1. u # t /\ pc[u] = "log" /\ got'[u] = got[u]
        BY <1>3, <3>7
      <4>2. asked.late
        BY <1>1, <4>1 DEF ControlInv, Ended, Threads
      <4>3. PICK d \in 0..now : got[u] = {d} /\ (u = "main" => asked.now <= d)
        BY <3>7, <4>1 DEF RecorderInv, EnergyInv
      <4> QED BY <2>1, <4>1, <4>2, <4>3
    <3>8. pc'["main"] = "meta" /\ ~asked'.late => unread' \/ energy'["last"] \in asked'.now..MaxNow
      <4>1. CASE t = "main"
        BY <2>1, <3>1, <3>2, <3>3, <4>1
      <4>2. CASE t # "main"
        <5>1. pc'["main"] = pc["main"] /\ t = "worker"
          BY <1>3, <4>2 DEF Threads
        <5>2. pc["main"] = "meta" => asked.late
          BY <1>1, <4>2, <5>1 DEF ControlInv, Ended
        <5> QED BY <2>1, <5>1, <5>2
      <4> QED BY <4>1, <4>2
    <3> QED BY <2>1, <2>2, <3>5, <3>6, <3>7, <3>8 DEF EnergyInv
  <2> QED BY <1>1, <2>3, <2>4
<1> QED BY <1>2, <1>4, <1>5, <1>6, <1>7, <1>8, <1>9 DEF RecorderInv

-----------------------------------------------------------------------------
(* The worker's loop, and stop() *)

\* A step that only moves threads on leaves the files and the readings alone.
LEMMA OnlyMoves ==
  ASSUME RecorderInv, TypeOK',
         UNCHANGED <<deviceVars, known, cursor, rows, counts, lossy, energyVars, seed, got, meta>>,
         asked.late => asked'.late,
         meta # NoMeta => asked' = asked,
         pc'["main"] \in {"store", "log", "meta"} => asked' = asked,
         pc'["main"] = "meta" => pc["main"] = "meta",
         \A t \in Threads : pc'[t] \in {"store", "log"} => pc[t] = pc'[t] /\ todo'[t] = todo[t]
  PROVE  OrderInv' /\ CoverInv' /\ CountInv' /\ FetchInv' /\ EnergyInv'
<1>1. TypeOK /\ \A t \in Threads : pc[t] = "store" => todo[t] # <<>>
  BY DEF RecorderInv, ControlInv
<1>2. OrderInv' /\ CoverInv' /\ CountInv'
  BY <1>1, Still, FilesKept DEF RecorderInv
<1>3. FetchInv'
  <2>1. \A t \in Threads : pc'[t] = "store" =>
          /\ pc[t] = "store" /\ got'[t] = got[t] /\ todo'[t] = todo[t]
          /\ t = "main" => asked'.newest = asked.newest
    OBVIOUS
  <2> QED BY <1>1, <2>1, Still, FetchKept, FilesSame DEF RecorderInv
<1>4. EnergyInv'
  <2>1. \A t \in Threads : pc'[t] = "log" => /\ pc[t] = "log" /\ got'[t] = got[t]
                                             /\ t = "main" => asked'.now = asked.now
    OBVIOUS
  <2> QED BY <1>1, <2>1, Still, EnergyKept DEF RecorderInv, energyVars
<1> QED BY <1>2, <1>3, <1>4

LEMMA CheckStopKeeps ==
  ASSUME RecorderInv, CheckStop
  PROVE  RecorderInv'
<1>1. /\ UNCHANGED <<driverVars, fileVars, energyVars, endVars, got>>
      /\ TypeOK /\ ControlInv /\ pc["worker"] = "check"
  BY DEF CheckStop, RecorderInv
<1>2. TypeOK'
  BY <1>1, CheckStopType
<1>3. /\ pc'["worker"] \in {"ended", "read"} /\ pc'["main"] = pc["main"]
      /\ todo'["main"] = todo["main"]
  BY <1>1, Moved DEF CheckStop, BeginDrain, Threads, TypeOK
<1>4. ControlInv'
  BY <1>1, <1>3 DEF ControlInv, Ended, endVars, Threads
<1>5. StartInv' /\ RingInv'
  <2>1. \E l \in Labels \ {"new", "profiled"} : Goto("worker", l)
    BY DEF CheckStop, BeginDrain, Labels
  <2> QED BY <1>1, <2>1, Started DEF endVars, driverVars, Threads
<1>6. OrderInv' /\ CoverInv' /\ CountInv' /\ FetchInv' /\ EnergyInv'
  BY <1>1, <1>2, <1>3, OnlyMoves DEF endVars, driverVars, fileVars, energyVars, Threads
<1>7. LastDrainInv'
  BY <1>1, <1>2, <1>3, LastDrainKept, FilesSame DEF RecorderInv, fileVars, endVars, driverVars
<1> QED BY <1>2, <1>4, <1>5, <1>6, <1>7 DEF RecorderInv

LEMMA WaitKeeps ==
  ASSUME RecorderInv, Wait
  PROVE  RecorderInv'
<1>1. /\ UNCHANGED <<driverVars, fileVars, energyVars, endVars, todo, got>>
      /\ TypeOK /\ ControlInv /\ pc["worker"] = "wait"
  BY DEF Wait, RecorderInv
<1>2. TypeOK'
  BY <1>1, WaitType
<1>3. pc'["worker"] \in {"ended", "check"} /\ pc'["main"] = pc["main"]
  BY <1>1, Moved DEF Wait, Threads
<1>4. ControlInv'
  BY <1>1, <1>3 DEF ControlInv, Ended, endVars, Threads
<1>5. StartInv' /\ RingInv'
  <2>1. \E l \in Labels \ {"new", "profiled"} : Goto("worker", l)
    BY DEF Wait, Labels
  <2> QED BY <1>1, <2>1, Started DEF endVars, driverVars, Threads
<1>6. OrderInv' /\ CoverInv' /\ CountInv' /\ FetchInv' /\ EnergyInv'
  BY <1>1, <1>2, <1>3, OnlyMoves DEF endVars, driverVars, fileVars, energyVars, Threads
<1>7. LastDrainInv'
  BY <1>1, <1>2, <1>3, LastDrainKept, FilesSame DEF RecorderInv, fileVars, endVars, driverVars
<1> QED BY <1>2, <1>4, <1>5, <1>6, <1>7 DEF RecorderInv

LEMMA StopKeeps ==
  ASSUME RecorderInv, Stop
  PROVE  RecorderInv'
<1>1. /\ UNCHANGED <<driverVars, fileVars, energyVars, closed, meta, seed, todo, got>>
      /\ TypeOK /\ ControlInv /\ pc["main"] = "running" /\ Goto("main", "join")
      /\ asked' = [newest |-> newest, now |-> now, late |-> FALSE]
  BY DEF Stop, RecorderInv
<1>2. TypeOK'
  BY <1>1, StopType
<1>3. pc'["main"] = "join" /\ pc'["worker"] = pc["worker"]
  BY <1>1, Moved DEF Threads
<1>4. meta = NoMeta /\ ~asked.late
  BY <1>1 DEF ControlInv
<1>5. ControlInv' /\ StartInv'
  BY <1>1, <1>3, <1>4 DEF ControlInv, StartInv, Ended, Threads
<1>6. RingInv'
  <2>1. \A s \in Streams : newest[s] \in Nat /\ newest'[s] = newest[s]
    BY <1>1, Still DEF driverVars
  <2>2. now \in Nat /\ now' = now
    BY <1>1, Still DEF driverVars
  <2> QED BY <1>1, <2>1, <2>2 DEF RecorderInv, RingInv, driverVars
<1>7. OrderInv' /\ CoverInv' /\ CountInv' /\ FetchInv' /\ EnergyInv'
  BY <1>1, <1>2, <1>3, <1>4, OnlyMoves DEF driverVars, fileVars, energyVars, Threads
<1>8. LastDrainInv'
  BY <1>1, <1>3, <1>4 DEF LastDrainInv
<1> QED BY <1>2, <1>5, <1>6, <1>7, <1>8 DEF RecorderInv

LEMMA JoinKeeps ==
  ASSUME RecorderInv, Join
  PROVE  RecorderInv'
<1>1. /\ UNCHANGED <<driverVars, fileVars, energyVars, closed, meta, seed, got>>
      /\ TypeOK /\ ControlInv /\ pc["main"] = "join" /\ Goto("main", "read")
      /\ todo' = [todo EXCEPT !["main"] = Order]
      /\ asked' = [asked EXCEPT !.late = ~Ended]
  BY DEF Join, JoinEnds, BeginDrain, RecorderInv
<1>2. TypeOK'
  BY <1>1, JoinType
<1>3. /\ pc'["main"] = "read" /\ pc'["worker"] = pc["worker"]
      /\ todo'["main"] = Order /\ todo'["worker"] = todo["worker"]
  BY <1>1, Moved DEF Threads, TypeOK
<1>4. /\ meta = NoMeta /\ ~asked.late
      /\ asked'.newest = asked.newest /\ asked'.now = asked.now /\ asked'.late = ~Ended
  BY <1>1 DEF ControlInv, TypeOK
<1>5. ControlInv' /\ StartInv'
  BY <1>1, <1>3, <1>4 DEF ControlInv, StartInv, Ended, Threads
<1>6. RingInv'
  BY <1>1, <1>3, <1>4 DEF RecorderInv, RingInv, driverVars, deviceVars
<1>7. OrderInv' /\ CoverInv' /\ CountInv' /\ FetchInv' /\ EnergyInv'
  BY <1>1, <1>2, <1>3, <1>4, OnlyMoves DEF driverVars, fileVars, energyVars, Threads
<1>8. LastDrainInv'
  BY <1>1, <1>3, <1>4 DEF LastDrainInv, Streams
<1> QED BY <1>2, <1>5, <1>6, <1>7, <1>8 DEF RecorderInv

\* What the metadata says, said of the state it is written in.
LEMMA WriteMetaKeeps ==
  ASSUME RecorderInv, WriteMeta
  PROVE  RecorderInv'
<1>1. /\ UNCHANGED <<deviceVars, known, fileVars, energyVars, stopping, closed, seed, asked,
                     todo, got>>
      /\ TypeOK /\ ControlInv /\ pc["main"] = "meta" /\ todo["main"] = <<>> /\ meta = NoMeta
  BY DEF WriteMeta, RecorderInv, ControlInv
<1>2. TypeOK'
  BY <1>1, WriteMetaType
<1>3. CASE pc'["main"] = "raised" /\ meta' = meta /\ pc'["worker"] = pc["worker"]
  <2>1. ControlInv' /\ StartInv' /\ RingInv'
    BY <1>1, <1>3 DEF RecorderInv, ControlInv, StartInv, RingInv, Ended, deviceVars, Threads
  <2>2. OrderInv' /\ CoverInv' /\ CountInv' /\ FetchInv' /\ EnergyInv'
    BY <1>1, <1>2, <1>3, OnlyMoves DEF fileVars, Threads
  <2>3. LastDrainInv'
    BY <1>1, <1>3 DEF LastDrainInv
  <2> QED BY <1>2, <2>1, <2>2, <2>3 DEF RecorderInv
<1>4. CASE /\ pc'["main"] = "close" /\ pc'["worker"] = pc["worker"]
           /\ meta' = [clean |-> ~lossy, counts |-> counts, energy |-> energy, unread |-> unread]
  <2>1. ControlInv' /\ StartInv' /\ RingInv'
    BY <1>1, <1>4 DEF RecorderInv, ControlInv, StartInv, RingInv, Ended, deviceVars, Threads
  <2>2. /\ meta'.clean = ~lossy /\ meta'.counts = counts
        /\ meta'.energy = energy /\ meta'.unread = unread
    BY <1>4
  <2>3. OrderInv'
    BY <1>1, FilesSame DEF RecorderInv, OrderInv, Ascending, deviceVars, fileVars
  <2>4. CoverInv'
    BY <1>1, FilesSame DEF RecorderInv, CoverInv, Noted, Complete, fileVars
  <2>5. CountInv'
    BY <1>1, <2>2, FilesSame DEF RecorderInv, CountInv, CountsMatch, fileVars
  <2>6. FetchInv'
    BY <1>1, <1>2, <1>4, Still, FetchKept, FilesSame DEF RecorderInv, ControlInv, fileVars, Threads
  <2>7. LastDrainInv'
    <3>1. Range(<<>>) = {}
      BY DEF Range
    <3>2. \A s \in Streams : Noted(s) \/ Complete(s, asked.newest[s])
      BY <1>1, <3>1 DEF RecorderInv, LastDrainInv
    <3>3. ~lossy => \A s \in Streams : known'[s] = 0 \/ (seed'[s] + 1)..asked'.newest[s] \subseteq Stored(s)'
      BY <1>1, <3>2, FilesSame DEF Noted, Complete, fileVars
    <3> QED BY <1>4, <2>2, <3>3 DEF LastDrainInv, Complete
  <2>8. EnergyInv'
    <3>1. now' = now /\ MaxNow \in Nat /\ energy["last"] \in Nat /\ asked.now \in Nat
      BY <1>1, Clocks, Still
    <3>2. EnergyCovers'
      <4>1. ASSUME ~unread, ~asked.late
            PROVE  energy["last"] \in asked.now..MaxNow /\ energy["first"] <= energy["last"]
        BY <1>1, <4>1 DEF RecorderInv, EnergyInv
      <4> QED BY <1>1, <2>2, <4>1 DEF EnergyCovers
    <3>3. \A t \in Threads : pc'[t] = "log" => pc[t] = "log" /\ got'[t] = got[t]
      BY <1>1, <1>4 DEF Threads
    <3>4. \A t \in Threads : pc'[t] = "log" /\ got'[t] # {} =>
            \E e \in 0..now' : /\ got'[t] = {e}
                               /\ asked'.late \/ energy'["last"] \in {NoReading} \cup 0..e
                               /\ t = "main" => asked'.now <= e
      BY <1>1, <3>1, <3>3 DEF RecorderInv, EnergyInv, energyVars
    <3>5. /\ asked'.late \/ energy'["first"] <= energy'["last"]
          /\ energy'["first"] = NoReading <=> energy'["last"] = NoReading
          /\ energy'["last"] # NoReading => energy'["last"] <= now'
      BY <1>1, <3>1 DEF RecorderInv, EnergyInv, energyVars
    <3> QED BY <1>4, <3>2, <3>4, <3>5 DEF EnergyInv
  <2> QED BY <1>2, <2>1, <2>3, <2>4, <2>5, <2>6, <2>7, <2>8 DEF RecorderInv
<1> QED BY <1>1, <1>3, <1>4, Moved DEF WriteMeta, Threads

LEMMA CloseFilesKeeps ==
  ASSUME RecorderInv, CloseFiles
  PROVE  RecorderInv'
<1>1. /\ UNCHANGED <<deviceVars, known, cursor, rows, counts, lossy, energyVars, stopping, meta,
                     seed, asked, todo, got>>
      /\ TypeOK /\ ControlInv /\ pc["main"] = "close" /\ Goto("main", "done")
  BY DEF CloseFiles, RecorderInv
<1>2. TypeOK'
  BY <1>1, CloseFilesType
<1>3. pc'["main"] = "done" /\ pc'["worker"] = pc["worker"]
  BY <1>1, Moved DEF Threads
<1>4. ControlInv' /\ StartInv' /\ RingInv'
  BY <1>1, <1>3 DEF RecorderInv, ControlInv, StartInv, RingInv, Ended, deviceVars, Threads
<1>5. OrderInv' /\ CoverInv' /\ CountInv' /\ FetchInv' /\ EnergyInv'
  BY <1>1, <1>2, <1>3, OnlyMoves DEF energyVars, Threads
<1>6. LastDrainInv'
  BY <1>1, <1>2, <1>3, LastDrainKept, FilesSame DEF RecorderInv
<1> QED BY <1>2, <1>4, <1>5, <1>6 DEF RecorderInv

-----------------------------------------------------------------------------
(* The theorems *)

LEMMA RecorderInit == Init => RecorderInv
<1> SUFFICES ASSUME Init PROVE RecorderInv
  OBVIOUS
<1>1. /\ \A s \in Streams : /\ rows[s] = <<>> /\ counts[s] = 0 /\ cursor[s] = 0 /\ seed[s] = 0
                            /\ known[s] = 0 /\ asked.newest[s] = 0
                            /\ newest[s] \in Depths /\ newest[s] \in Nat
      /\ now = 0 /\ asked.now = 0 /\ asked.late = FALSE /\ meta = NoMeta
      /\ pc["main"] = "new" /\ pc["worker"] = "none" /\ todo["main"] = <<>>
      /\ energy["first"] = NoReading /\ energy["last"] = NoReading
  BY RecorderAssumption DEF Init, Threads
<1>2. \A s \in Streams : Stored(s) = {}
  <2>1. UNION Range(<<>>) = {}
    BY DEF Range
  <2> QED BY <1>1, <2>1 DEF Stored
<1>3. TypeOK
  <2>1. MaxNow \in Nat /\ MaxFaults \in Nat /\ Capacity \in Nat /\ NoReading \in Nat
    BY RecorderAssumption DEF NoReading
  <2>2. now \in 0..MaxNow /\ faults \in 0..MaxFaults /\ newest \in [Streams -> Nat]
    <3>1. now \in 0..MaxNow /\ faults \in 0..MaxFaults
      BY <2>1 DEF Init
    <3>2. newest \in [Streams -> Depths] /\ Depths \subseteq Nat
      BY RecorderAssumption DEF Init
    <3>3. newest \in [Streams -> Nat]
      BY <3>2
    <3> QED BY <3>1, <3>3
  <2>3. /\ known \in [Streams -> 0..Capacity] /\ cursor \in [Streams -> Nat]
        /\ counts \in [Streams -> Nat] /\ seed \in [Streams -> Nat]
        /\ energy \in [{"first", "last"} -> 0..NoReading]
    BY <2>1 DEF Init
  <2>4. rows \in [Streams -> Seq(SUBSET Samples)]
    <3>1. <<>> \in Seq(SUBSET Samples)
      OBVIOUS
    <3> QED BY <3>1 DEF Init
  <2>5. pc \in [Threads -> Labels]
    BY DEF Init, Labels
  <2>6. todo \in [Threads -> Seq(Streams)] /\ got \in [Threads -> SUBSET Samples]
    <3>1. <<>> \in Seq(Streams)
      OBVIOUS
    <3> QED BY <3>1 DEF Init
  <2>7. asked \in [newest: [Streams -> Nat], now: 0..MaxNow, late: BOOLEAN]
    BY <2>1 DEF Init
  <2>8. /\ lossy \in BOOLEAN /\ unread \in BOOLEAN /\ stopping \in BOOLEAN /\ closed \in BOOLEAN
        /\ unwritten \subseteq Streams /\ dropped \subseteq Streams
    BY DEF Init
  <2> QED BY <1>1, <2>2, <2>3, <2>4, <2>5, <2>6, <2>7, <2>8 DEF TypeOK
<1>4. ControlInv /\ StartInv
  BY <1>1 DEF ControlInv, StartInv, Threads
<1>5. RingInv
  BY <1>1 DEF RingInv
<1>6. OrderInv
  BY <1>1, <1>2 DEF OrderInv, Ascending
<1>7. CoverInv
  BY <1>1 DEF CoverInv, Complete
<1>8. FetchInv
  BY <1>1 DEF FetchInv, Threads
<1>9. LastDrainInv
  BY <1>1 DEF LastDrainInv
<1>10. CountInv
  BY <1>1, <1>2, FS_EmptySet DEF CountInv, CountsMatch
<1>11. EnergyInv
  <2>1. energy["first"] <= energy["last"]
    BY <1>1, RecorderAssumption DEF NoReading
  <2> QED BY <1>1, <2>1 DEF EnergyInv, EnergyCovers, Threads
<1> QED BY <1>3, <1>4, <1>5, <1>6, <1>7, <1>8, <1>9, <1>10, <1>11 DEF RecorderInv

LEMMA DrainStepKeeps ==
  ASSUME RecorderInv, NEW t \in Threads, DrainStep(t)
  PROVE  RecorderInv'
BY ReadStreamKeeps, StoreSamplesKeeps, PollDeviceKeeps, LogPollKeeps DEF DrainStep

LEMMA RecorderStep ==
  ASSUME RecorderInv, [Next]_vars
  PROVE  RecorderInv'
<1>1. ASSUME NEW S \in SUBSET Streams \ {{}}, Emit(S) PROVE RecorderInv'
  BY <1>1, EmitKeeps
<1>2. CASE Characterize \/ Start \/ Stop
  BY <1>2, CharacterizeKeeps, StartKeeps, StopKeeps
<1>3. CASE StopStep
  BY <1>3, JoinKeeps, WriteMetaKeeps, CloseFilesKeeps, DrainStepKeeps DEF StopStep, Threads
<1>4. CASE WorkerStep
  BY <1>4, CheckStopKeeps, WaitKeeps, DrainStepKeeps DEF WorkerStep, Threads
<1>5. CASE UNCHANGED vars
  <2>1. UNCHANGED <<deviceVars, known, cursor, rows, counts, lossy, unwritten, dropped, energyVars,
                    endVars, pc, todo, got, faults>>
    BY <1>5 DEF vars, driverVars, fileVars
  <2>2. TypeOK'
    BY <2>1 DEF RecorderInv, TypeOK, deviceVars, energyVars, endVars
  <2>3. OrderInv' /\ CoverInv' /\ CountInv' /\ FetchInv' /\ EnergyInv'
    BY <2>1, <2>2, OnlyMoves DEF endVars, RecorderInv
  <2>4. ControlInv' /\ StartInv' /\ RingInv'
    BY <2>1 DEF RecorderInv, ControlInv, StartInv, RingInv, Ended, deviceVars, endVars
  <2>5. LastDrainInv'
    BY <2>1, <2>2, LastDrainKept, FilesSame DEF RecorderInv, endVars
  <2> QED BY <2>2, <2>3, <2>4, <2>5 DEF RecorderInv
<1> QED BY <1>1, <1>2, <1>3, <1>4, <1>5 DEF Next

\* The invariant of the recorder is inductive: whatever the interleaving of the
\* worker, stop() and the driver, and whichever calls fail.
THEOREM RecorderInductive == Spec => []RecorderInv
<1>1. Init => RecorderInv
  BY RecorderInit
<1>2. RecorderInv /\ [Next]_vars => RecorderInv'
  BY RecorderStep
<1> QED BY <1>1, <1>2, PTL DEF Spec

\* Files hold each sample once, in the driver's order, and none from before the
\* recording, unless stop() has left a worker to itself.
THEOREM FilesAscend == Spec => []RowsAscend
<1>1. RecorderInv => RowsAscend
  BY DEF RecorderInv, OrderInv, RowsAscend
<1> QED BY <1>1, RecorderInductive, PTL

\* The metadata agrees with the files and its energy spans the recording.
THEOREM MetadataTrue == Spec => []MetaTrue
<1>1. RecorderInv => MetaTrue
  BY DEF RecorderInv, CountInv, EnergyInv, MetaTrue
<1> QED BY <1>1, RecorderInductive, PTL

\* A recording that is called clean is complete, where each ring held a sample
\* when it was characterised: an empty ring has no capacity, and its losses
\* cannot be told.  A file whose close() lost what a failed flush had left is
\* not spoken of: that is passed over in silence.
THEOREM CleanIsComplete ==
  ASSUME 0 \notin Depths
  PROVE  Spec => []CleanMeansComplete
<1>1. RecorderInv => CleanMeansComplete
  <2> SUFFICES ASSUME RecorderInv, meta # NoMeta, meta.clean, NEW s \in Streams \ dropped
               PROVE  (seed[s] + 1)..asked.newest[s] \subseteq Stored(s)
    BY DEF CleanMeansComplete
  <2>1. pc["main"] # "new"
    BY DEF RecorderInv, ControlInv
  <2>2. known[s] > 0 /\ known[s] \in Nat
    BY <2>1 DEF RecorderInv, RingInv, TypeOK
  <2> QED BY <2>2 DEF RecorderInv, LastDrainInv, Complete
<1> QED BY <1>1, RecorderInductive, PTL
=============================================================================
