---------------------------- MODULE LoadGen_proofs ---------------------------
(***************************************************************************)
(* The safety of LoadGen, for any schedule, load and bounds.               *)
(***************************************************************************)
EXTENDS LoadInvariant, FiniteSums

-----------------------------------------------------------------------------
(* The time spent waiting *)

\* Samples in the order of their times wait no longer than from the first to the last.
LEMMA WaitedBound ==
  ASSUME TypeOK, ClockInv
  PROVE  /\ Waited \in Nat
         /\ Waited > 0 => /\ \E i \in 1..(Len(samples) - 1) : Queued(i)
                          /\ Waited <= samples[Len(samples)].at - samples[1].at
<1> DEFINE S == {i \in 1..(Len(samples) - 1) : Queued(i)}
           v == [i \in S |-> Interval(i)]
<1>1. /\ Len(samples) \in Nat /\ DOMAIN samples = 1..Len(samples)
      /\ \A i \in 1..Len(samples) : samples[i].at \in Nat
      /\ scraped \in Nat /\ now \in Nat
  <2>1. samples \in Seq([at : 0..MaxNow, waiting : BOOLEAN])
    BY DEF TypeOK
  <2>2. {MaxNow} \subseteq Nat
    BY LoadAssumption
  <2>3. Len(samples) \in Nat /\ DOMAIN samples = 1..Len(samples)
    BY <2>1
  <2>4. \A i \in 1..Len(samples) : samples[i].at \in 0..MaxNow
    <3>1. \A X : samples \in Seq(X) => \A i \in 1..Len(samples) : samples[i] \in X
      OBVIOUS
    <3>2. \A i \in 1..Len(samples) : samples[i] \in [at : 0..MaxNow, waiting : BOOLEAN]
      BY <2>1, <3>1
    <3> QED BY <3>2
  <2>5. {began, scraped} \subseteq 0..MaxNow /\ now \in 0..MaxNow
    BY DEF TypeOK
  <2> QED BY <2>2, <2>3, <2>4, <2>5
<1>0. \A i, j \in 1..Len(samples) : i < j => samples[i].at <= samples[j].at
  BY <1>1 DEF ClockInv
<1>2. IsFiniteSet(S)
  <2>1. 1 \in Int /\ Len(samples) - 1 \in Int
    BY <1>1
  <2>2. IsFiniteSet(1..(Len(samples) - 1))
    BY <2>1, FS_Interval
  <2>3. S \in SUBSET (1..(Len(samples) - 1))
    OBVIOUS
  <2> QED BY <2>2, <2>3, FS_Subset
<1>3. \A i \in S : /\ i \in 1..Len(samples) /\ i + 1 \in 1..Len(samples)
                   /\ Interval(i) = samples[i + 1].at - samples[i].at
                   /\ Interval(i) \in Nat
  <2> SUFFICES ASSUME NEW i \in S
               PROVE  /\ i \in 1..Len(samples) /\ i + 1 \in 1..Len(samples)
                      /\ Interval(i) = samples[i + 1].at - samples[i].at
                      /\ Interval(i) \in Nat
    OBVIOUS
  <2>1. i \in 1..Len(samples) /\ i + 1 \in 1..Len(samples) /\ i < i + 1
    BY <1>1
  <2>2. samples[i].at <= samples[i + 1].at
    BY <1>1, <2>1 DEF ClockInv
  <2>3. samples[i].at \in Nat /\ samples[i + 1].at \in Nat
    BY <1>1, <2>1
  <2> QED BY <2>1, <2>2, <2>3 DEF Interval
<1>4. v \in [S -> Nat] /\ \A i \in S : v[i] = Interval(i)
  BY <1>3
<1>5. Waited = Cardinality(Cells(S, v)) /\ IsFiniteSet(Cells(S, v))
  <2> DEFINE IsWait(h) ==
        h = [s \in SUBSET S |-> IF s = {} THEN 0
               ELSE Interval(CHOOSE x \in s : TRUE) + h[s \ {CHOOSE x \in s : TRUE}]]
  <2>1. PICK g : Waited = g[S] /\ g = CHOOSE h : IsWait(h)
    BY DEF Waited, MapThenSumSet, MapThenFoldSet
  <2> HIDE DEF S, v
  <2>2. ASSUME NEW h
        PROVE  IsSum(h, S, v) <=> IsWait(h)
    <3>1. ASSUME NEW s \in SUBSET S, s # {}
          PROVE  v[CHOOSE x \in s : TRUE] = Interval(CHOOSE x \in s : TRUE)
      <4>1. (CHOOSE x \in s : TRUE) \in S
        BY <3>1
      <4> QED BY <1>4, <4>1
    <3>2. [s \in SUBSET S |-> IF s = {} THEN 0
             ELSE v[CHOOSE x \in s : TRUE] + h[s \ {CHOOSE x \in s : TRUE}]]
          = [s \in SUBSET S |-> IF s = {} THEN 0
               ELSE Interval(CHOOSE x \in s : TRUE) + h[s \ {CHOOSE x \in s : TRUE}]]
      BY <3>1
    <3> QED BY <3>2 DEF IsSum
  <2>3. IsSum(g, S, v)
    <3> HIDE DEF IsWait
    <3>1. \E h : IsWait(h)
      BY <1>2, <1>4, <2>2, SumExists
    <3> QED BY <2>1, <2>2, <3>1
  <2> QED BY <1>2, <1>4, <2>1, <2>3, SumIsCells, CellsFinite
<1>6. Waited \in Nat
  BY <1>5, FS_CardinalityType
<1>7. Waited > 0 => S # {}
  <2>1. S = {} => Cells(S, v) = {}
    BY DEF Cells
  <2> QED BY <1>5, <2>1, FS_EmptySet
<1>8. ASSUME Waited > 0
      PROVE  Waited <= samples[Len(samples)].at - samples[1].at
  <2> DEFINE first == samples[1].at
             span == samples[Len(samples)].at - samples[1].at
             f == [c \in Cells(S, v) |-> samples[c[1]].at + c[2] - first]
  <2> SUFFICES ASSUME ~(Waited <= span) PROVE FALSE
    OBVIOUS
  <2>0. /\ first \in Nat /\ span \in Nat
        /\ \A i \in 1..Len(samples) : first <= samples[i].at /\ samples[i].at <= first + span
    <3>1. 1 \in 1..Len(samples) /\ Len(samples) \in 1..Len(samples)
      <4>1. PICK i \in S : TRUE
        BY <1>7, <1>8
      <4>2. i \in 1..Len(samples)
        BY <1>3, <4>1
      <4> QED BY <1>1, <4>2
    <3>2. samples[1].at \in Nat /\ samples[Len(samples)].at \in Nat
      BY <1>1, <3>1
    <3>3. ASSUME NEW i \in 1..Len(samples)
          PROVE  samples[1].at <= samples[i].at /\ samples[i].at <= samples[Len(samples)].at
      <4>1. samples[i].at \in Nat
        BY <1>1
      <4>2. i = 1 \/ 1 < i
        BY <1>1
      <4>3. i = Len(samples) \/ i < Len(samples)
        <5>1. PICK n \in Nat : n = Len(samples)
          BY <1>1
        <5>2. i \in 1..n
          BY <5>1
        <5>3. i = n \/ i < n
          BY <5>2
        <5> QED BY <5>1, <5>3
      <4>4. samples[1].at <= samples[i].at
        BY <1>0, <3>1, <3>2, <4>1, <4>2
      <4>5. samples[i].at <= samples[Len(samples)].at
        BY <1>0, <3>1, <3>2, <4>1, <4>3
      <4> QED BY <4>4, <4>5
    <3> QED BY <1>1, <3>1, <3>2, <3>3
  <2>1. ASSUME NEW c \in Cells(S, v)
        PROVE  /\ c = <<c[1], c[2]>> /\ c[1] \in S /\ c[2] \in Nat \ {0}
               /\ samples[c[1]].at < first + f[c] /\ first + f[c] <= samples[c[1] + 1].at
               /\ f[c] \in 1..span
    <3>1. c = <<c[1], c[2]>> /\ c[1] \in S /\ c[2] \in Nat \ {0} /\ c[2] <= v[c[1]]
      BY DEF Cells
    <3>2. c[2] <= samples[c[1] + 1].at - samples[c[1]].at
      BY <1>3, <1>4, <3>1
    <3>3. samples[c[1]].at \in Nat /\ samples[c[1] + 1].at \in Nat
      BY <1>1, <1>3, <3>1
    <3>4. first <= samples[c[1]].at /\ samples[c[1] + 1].at <= first + span
      BY <1>3, <2>0, <3>1
    <3>5. f[c] = samples[c[1]].at + c[2] - first
      OBVIOUS
    <3> HIDE DEF f, first, span, S, v
    <3>0. first \in Nat /\ span \in Nat
      BY <2>0
    <3>6. c[2] \in Nat /\ c[2] > 0
      BY <3>1
    <3>7. /\ samples[c[1]].at < first + f[c] /\ first + f[c] <= samples[c[1] + 1].at
          /\ f[c] \in Nat /\ f[c] > 0
      BY <3>0, <3>2, <3>3, <3>4, <3>5, <3>6
    <3>8. f[c] <= span
      BY <3>0, <3>3, <3>4, <3>7
    <3> QED BY <2>0, <3>1, <3>7, <3>8
  <2> HIDE DEF first, span
  <2>2. f \in [Cells(S, v) -> 1..span]
    BY <2>1
  <2>3. IsFiniteSet(1..span) /\ Cardinality(1..span) = span
    <3>1. 1 \in Int /\ span \in Int
      BY <2>0
    <3>2. Cardinality(1..span) = IF 1 > span THEN 0 ELSE span - 1 + 1
      BY <3>1, FS_Interval
    <3> QED BY <2>0, <3>1, <3>2, FS_Interval
  <2>4. PICK c, d \in Cells(S, v) : c # d /\ f[c] = f[d]
    <3>1. Cardinality(1..span) < Cardinality(Cells(S, v))
      BY <2>0, <1>5, <1>6, <2>3
    <3> HIDE DEF f
    <3> QED BY <1>5, <2>2, <2>3, <3>1, FS_PigeonHole
  <2>5. ASSUME NEW a \in Cells(S, v), NEW b \in Cells(S, v), f[a] = f[b]
        PROVE  ~(a[1] < b[1])
    <3> HIDE DEF f, v
    <3>1. SUFFICES ASSUME a[1] < b[1] PROVE FALSE
      OBVIOUS
    <3>2. a[1] + 1 <= b[1] /\ a[1] + 1 \in 1..Len(samples) /\ b[1] \in 1..Len(samples)
      BY <1>1, <1>3, <2>1, <3>1
    <3>3. samples[a[1] + 1].at <= samples[b[1]].at
      <4>1. CASE a[1] + 1 = b[1]
        BY <1>1, <3>2, <4>1
      <4>2. CASE a[1] + 1 < b[1]
        BY <1>1, <3>2, <4>2 DEF ClockInv
      <4> QED BY <1>1, <3>2, <4>1, <4>2
    <3>4. samples[a[1] + 1].at \in Nat /\ samples[b[1]].at \in Nat
      BY <1>1, <3>2
    <3>5. /\ first + f[a] <= samples[a[1] + 1].at /\ samples[b[1]].at < first + f[b]
          /\ f[a] \in Nat /\ first \in Nat
      <4>1. first \in Nat /\ span \in Nat
        BY <2>0
      <4>2. f[a] \in 1..span
        BY <2>1
      <4>3. f[a] \in Nat
        BY <4>1, <4>2
      <4> QED BY <2>1, <4>1, <4>3
    <3> QED BY <2>5, <3>3, <3>4, <3>5
  <2>6. c[1] = d[1]
    <3>1. ~(c[1] < d[1]) /\ ~(d[1] < c[1])
      BY <2>4, <2>5
    <3>2. c[1] \in Nat /\ d[1] \in Nat
      <4>1. c[1] \in 1..Len(samples) /\ d[1] \in 1..Len(samples)
        BY <1>3, <2>1
      <4> QED BY <1>1, <4>1
    <3> QED BY <3>1, <3>2
  <2>7. c[2] = d[2]
    <3>1. samples[c[1]].at + c[2] - first = samples[c[1]].at + d[2] - first
      BY <2>4, <2>6
    <3>2. samples[c[1]].at \in Nat /\ c[2] \in Nat /\ d[2] \in Nat /\ first \in Nat
      <4>1. c[1] \in 1..Len(samples)
        BY <1>3, <2>1
      <4> QED BY <1>1, <2>0, <2>1, <4>1
    <3> QED BY <3>1, <3>2
  <2>8. c = d
    BY <2>1, <2>6, <2>7
  <2> QED BY <2>4, <2>8
<1> QED BY <1>6, <1>7, <1>8

-----------------------------------------------------------------------------
(* Types, in parts *)

RunOK == /\ mode \in Modes /\ endpoint \in Endpoints /\ now \in 0..MaxNow
         /\ pc \in {"start", "clock", "dispatch", "spawn", "join", "poller", "finalise", "done",
                    "raised"}
         /\ next \in 1..(Scheduled + 1)
         /\ stop \in BOOLEAN /\ timedOut \in BOOLEAN
PollOK == /\ began \in 0..MaxNow /\ scraped \in 0..MaxNow
          /\ poller \in {"none", "test", "scrape", "wait", "over"}
SamplesOK == samples \in Seq([at : 0..MaxNow, waiting : BOOLEAN])
ThreadOK == thread \in [Requests -> {"none", "test", "send", "call", "over", "lost"}]
CountOK == /\ sent \in Nat /\ completed \in Nat /\ failed \in Nat /\ latencies \in Nat
           /\ late \in Nat
ReportOK == report \in [sent : Nat, completed : Nat, failed : Nat, latencies : Nat,
                        achieved : BOOLEAN, waited : Nat, elapsed : Nat, saturated : BOOLEAN]

LEMMA TypeParts == TypeOK <=> RunOK /\ PollOK /\ SamplesOK /\ ThreadOK /\ CountOK /\ ReportOK
BY DEF TypeOK, RunOK, PollOK, SamplesOK, ThreadOK, CountOK, ReportOK

LEMMA TypePartsNext ==
  ASSUME RunOK', PollOK', SamplesOK', ThreadOK', CountOK', ReportOK'
  PROVE  TypeOK'
BY DEF TypeOK, RunOK, PollOK, SamplesOK, ThreadOK, CountOK, ReportOK

LEMMA Bounds ==
  /\ Scheduled \in Nat /\ Requests = 1..Scheduled /\ IsFiniteSet(Requests)
  /\ \A r \in Requests : Arrival[r] \in Nat
  /\ Duration \in Nat /\ Tolerance \in Nat /\ MaxNow \in Nat /\ MaxSent \in Nat
<1>1. Arrival \in Seq(Nat) /\ {Duration, Tolerance, MaxNow, MaxSent} \subseteq Nat
  BY LoadAssumption
<1>2. Scheduled \in Nat /\ Requests = 1..Scheduled /\ \A r \in Requests : Arrival[r] \in Nat
  BY <1>1 DEF Scheduled, Requests
<1>3. IsFiniteSet(1..Scheduled)
  <2>1. 1 \in Int /\ Scheduled \in Int
    BY <1>2
  <2> QED BY <2>1, FS_Interval
<1> QED BY <1>1, <1>2, <1>3

LEMMA FlightSize == IsFiniteSet(InFlight) /\ Cardinality(InFlight) \in Nat
<1>1. InFlight \in SUBSET Requests
  BY DEF InFlight
<1> QED BY <1>1, Bounds, FS_Subset, FS_CardinalityType

\* A thread that moves into its call or out of it.
LEMMA Flight ==
  ASSUME ThreadOK, NEW r \in Requests, NEW l, thread' = [thread EXCEPT ![r] = l]
  PROVE  /\ Cardinality(InFlight) \in Nat
         /\ thread[r] # "call" /\ l = "call" => Cardinality(InFlight') = Cardinality(InFlight) + 1
         /\ thread[r] = "call" /\ l # "call" =>
              Cardinality(InFlight') = Cardinality(InFlight) - 1 /\ Cardinality(InFlight) > 0
         /\ thread[r] # "call" /\ l # "call" => InFlight' = InFlight
<1>1. IsFiniteSet(InFlight) /\ Cardinality(InFlight) \in Nat
  BY FlightSize
<1>2. thread'[r] = l /\ \A q \in Requests : q # r => thread'[q] = thread[q]
  BY DEF ThreadOK
<1>3. CASE thread[r] # "call" /\ l = "call"
  <2>1. InFlight' = InFlight \cup {r} /\ r \notin InFlight
    BY <1>2, <1>3 DEF InFlight
  <2> QED BY <1>1, <1>3, <2>1, FS_AddElement
<1>4. CASE thread[r] = "call" /\ l # "call"
  <2>1. InFlight' = InFlight \ {r} /\ r \in InFlight
    BY <1>2, <1>4 DEF InFlight
  <2>2. Cardinality(InFlight \ {r}) = Cardinality(InFlight) - 1
    BY <1>1, <2>1, FS_RemoveElement
  <2>3. Cardinality(InFlight) # 0
    BY <1>1, <2>1, FS_EmptySet
  <2> QED BY <1>1, <1>4, <2>1, <2>2, <2>3
<1>5. CASE thread[r] # "call" /\ l # "call"
  BY <1>1, <1>2, <1>5 DEF InFlight
<1> QED BY <1>1, <1>3, <1>4, <1>5

LEMMA InFlightSame == ASSUME UNCHANGED thread PROVE InFlight' = InFlight /\ Lost' = Lost
BY DEF InFlight, Lost

LEMMA LostSize == IsFiniteSet(Lost) /\ Cardinality(Lost) \in Nat
<1>1. Lost \in SUBSET Requests
  BY DEF Lost
<1> QED BY <1>1, Bounds, FS_Subset, FS_CardinalityType

\* A thread that dies with its request, or does not.
LEMMA LostMoves ==
  ASSUME ThreadOK, NEW r \in Requests, NEW l, thread[r] # "lost",
         thread' = [thread EXCEPT ![r] = l]
  PROVE  /\ Cardinality(Lost) \in Nat
         /\ l = "lost" => Cardinality(Lost') = Cardinality(Lost) + 1
         /\ l # "lost" => Lost' = Lost
<1>1. thread'[r] = l /\ \A q \in Requests : q # r => thread'[q] = thread[q]
  BY DEF ThreadOK
<1>2. l = "lost" => Lost' = Lost \cup {r} /\ r \notin Lost
  BY <1>1 DEF Lost
<1>3. l # "lost" => Lost' = Lost
  BY <1>1 DEF Lost
<1> QED BY <1>2, <1>3, LostSize, FS_AddElement

-----------------------------------------------------------------------------
(* Steps that leave a part of the state alone *)

LEMMA CountsKept ==
  ASSUME Accounted, TypeOK', UNCHANGED <<endpoint, countVars, thread>>,
         pc' # "raised" => pc # "raised" /\ InHand' = InHand
  PROVE  Accounted'
BY InFlightSame DEF Accounted, countVars

LEMMA ClockKept ==
  ASSUME TypeOK, TypeOK', ClockInv, now <= now', UNCHANGED <<began, scraped, samples>>
  PROVE  ClockInv'
<1>1. /\ now \in Nat /\ now' \in Nat /\ began \in Nat /\ scraped \in Nat
      /\ began <= now /\ scraped <= now
  BY TypeParts, Bounds DEF RunOK, PollOK, TypeOK, ClockInv
<1> QED BY <1>1 DEF ClockInv

LEMMA ReportKept ==
  ASSUME ReportInv, pc' = "done" => pc = "done", UNCHANGED <<mode, endpoint, began, timedOut,
                                                             report, samples>>
  PROVE  ReportInv'
BY DEF ReportInv, Queued

-----------------------------------------------------------------------------
(* Every step keeps the invariant *)

\* A step of run() that only moves it on.
LEMMA MovesOn ==
  ASSUME LoadInv,
         UNCHANGED <<now, mode, endpoint, began, late, report, countVars, scraped, samples,
                     thread>>,
         RunOK', PollOK', InHand' = InHand \/ pc' = "raised", pc' # "done",
         pc = "raised" => pc' = "raised"
  PROVE  Accounted' /\ ClockInv' /\ ReportInv'
<1>1. TypeOK /\ Accounted /\ ClockInv
  BY DEF LoadInv, Accounted
<1>2. TypeOK'
  <2>1. SamplesOK' /\ ThreadOK' /\ CountOK' /\ ReportOK'
    BY <1>1, TypeParts DEF SamplesOK, ThreadOK, CountOK, ReportOK, countVars
  <2> QED BY <2>1, TypePartsNext
<1>3. Accounted'
  BY <1>1, <1>2, CountsKept
<1>4. ClockInv'
  <2>1. now \in Nat
    BY <1>1, Bounds DEF TypeOK
  <2> QED BY <1>1, <1>2, <2>1, ClockKept
<1>5. ReportInv'
  BY DEF ReportInv
<1> QED BY <1>3, <1>4, <1>5

LEMMA StartPollerKeeps == ASSUME LoadInv, StartPoller PROVE LoadInv'
<1>1. TypeOK /\ ThreadsInv /\ OfferInv
  BY DEF LoadInv, Accounted
<1>2. RunOK' /\ PollOK' /\ InHand' = InHand
  BY <1>1, TypeParts DEF StartPoller, RunOK, PollOK, Goto, InHand
<1>3. Accounted' /\ ClockInv' /\ ReportInv'
  BY <1>2, MovesOn DEF StartPoller, Goto
<1>4. ThreadsInv' /\ OfferInv' /\ JoinInv'
  BY <1>1, <1>2 DEF StartPoller, ThreadsInv, OfferInv, JoinInv, Over, Goto, countVars
<1> QED BY <1>3, <1>4 DEF LoadInv

LEMMA StartClockKeeps == ASSUME LoadInv, StartClock PROVE LoadInv'
<1>1. TypeOK /\ Accounted /\ ThreadsInv /\ OfferInv /\ ClockInv
  BY DEF LoadInv, Accounted
<1>2. TypeOK'
  <2>1. RunOK' /\ PollOK'
    BY <1>1, TypeParts DEF StartClock, RunOK, PollOK, Goto, pollVars
  <2>2. SamplesOK' /\ ThreadOK' /\ CountOK' /\ ReportOK'
    BY <1>1, TypeParts DEF StartClock, SamplesOK, ThreadOK, CountOK, ReportOK, countVars, pollVars
  <2> QED BY <2>1, <2>2, TypePartsNext
<1>3. Accounted'
  BY <1>1, <1>2, CountsKept DEF StartClock, Goto, InHand
<1>4. ClockInv'
  <2>1. now \in Nat
    BY <1>1, Bounds DEF TypeOK
  <2> QED BY <1>1, <2>1 DEF StartClock, ClockInv, pollVars
<1>5. ThreadsInv' /\ OfferInv' /\ JoinInv' /\ ReportInv'
  BY <1>1 DEF StartClock, ThreadsInv, OfferInv, JoinInv, Over, ReportInv, Goto, countVars, InHand
<1> QED BY <1>3, <1>4, <1>5 DEF LoadInv

LEMMA DispatchKeeps == ASSUME LoadInv, Dispatch PROVE LoadInv'
<1>1. TypeOK /\ Accounted /\ ThreadsInv /\ OfferInv /\ ClockInv
  BY DEF LoadInv, Accounted
<1>2. /\ pc = "dispatch" /\ pc' = "spawn" /\ mode = "open" /\ next \in Requests
      /\ sent' = sent + 1 /\ late' \in {late, late + 1}
      /\ UNCHANGED <<now, mode, endpoint, next, began, stop, timedOut, report, completed, failed,
                     latencies, pollVars, thread>>
  <2>1. late \in Nat
    BY <1>1, TypeParts DEF CountOK
  <2> QED BY <2>1 DEF Dispatch, Goto
<1>3. TypeOK'
  <2>1. RunOK' /\ PollOK' /\ SamplesOK'
    BY <1>1, <1>2, TypeParts DEF RunOK, PollOK, SamplesOK, pollVars
  <2>2. ThreadOK' /\ ReportOK'
    BY <1>1, <1>2, TypeParts DEF ThreadOK, ReportOK
  <2>3. CountOK'
    BY <1>1, <1>2, TypeParts DEF CountOK
  <2> QED BY <2>1, <2>2, <2>3, TypePartsNext
<1>4. /\ sent \in Nat /\ completed \in Nat /\ failed \in Nat
      /\ Cardinality(InFlight) \in Nat /\ Cardinality(Lost) \in Nat
  BY <1>1, <1>2, TypeParts, FlightSize, LostSize DEF CountOK
<1>5. Accounted'
  <2>1. sent = completed + failed + Cardinality(InFlight) + Cardinality(Lost) + 0
    BY <1>1, <1>2 DEF Accounted, InHand
  <2>2. InFlight' = InFlight /\ Lost' = Lost
    BY <1>2, InFlightSame
  <2>3. sent' = completed' + failed' + Cardinality(InFlight') + Cardinality(Lost') + InHand'
    BY <1>2, <1>4, <2>1, <2>2 DEF InHand
  <2> QED BY <1>1, <1>2, <1>3, <2>2, <2>3 DEF Accounted
<1>6. ClockInv'
  <2>1. now \in Nat
    BY <1>1, Bounds DEF TypeOK
  <2> QED BY <1>1, <1>2, <1>3, <2>1, ClockKept DEF pollVars
<1>7. OfferInv'
  <2>1. sent = next - 1 + 0 /\ next \in Nat
    BY <1>1, <1>2, Bounds DEF OfferInv, InHand
  <2> QED BY <1>2, <2>1 DEF OfferInv, InHand
<1>8. ThreadsInv' /\ JoinInv' /\ ReportInv'
  BY <1>1, <1>2 DEF ThreadsInv, JoinInv, Over, ReportInv
<1> QED BY <1>5, <1>6, <1>7, <1>8 DEF LoadInv

LEMMA SpawnKeeps == ASSUME LoadInv, Spawn PROVE LoadInv'
<1>1. TypeOK /\ Accounted /\ ThreadsInv /\ OfferInv /\ ClockInv
  BY DEF LoadInv, Accounted
<1>2. /\ pc = "spawn" /\ pc' = "dispatch" /\ mode = "open" /\ next \in Requests
      /\ thread' = [thread EXCEPT ![next] = "call"] /\ next' = next + 1
      /\ UNCHANGED <<now, mode, endpoint, began, late, stop, timedOut, report, countVars, pollVars>>
  BY <1>1 DEF Spawn, ThreadsInv, Goto
<1>3. next \in Nat /\ next >= 1 /\ next <= Scheduled /\ Scheduled \in Nat
  BY <1>2, Bounds
<1>4. /\ thread'[next] = "call" /\ thread[next] = "none"
      /\ \A r \in Requests : r # next => thread'[r] = thread[r]
  <2>1. next >= next
    BY <1>3
  <2> QED BY <1>1, <1>2, <2>1, TypeParts DEF ThreadOK, ThreadsInv
<1>5. TypeOK'
  <2>1. RunOK' /\ PollOK' /\ SamplesOK'
    BY <1>1, <1>2, <1>3, TypeParts DEF RunOK, PollOK, SamplesOK, pollVars
  <2>2. ThreadOK' /\ ReportOK' /\ CountOK'
    BY <1>1, <1>2, TypeParts DEF ThreadOK, ReportOK, CountOK, countVars
  <2> QED BY <2>1, <2>2, TypePartsNext
<1>6. Accounted'
  <2>1. ThreadOK
    BY <1>1, TypeParts
  <2>2. /\ Cardinality(InFlight') = Cardinality(InFlight) + 1 /\ Cardinality(InFlight) \in Nat
        /\ Lost' = Lost /\ Cardinality(Lost) \in Nat
    BY <1>2, <1>4, <2>1, Flight, LostMoves
  <2>3. sent = completed + failed + Cardinality(InFlight) + Cardinality(Lost) + 1
    BY <1>1, <1>2 DEF Accounted, InHand
  <2>4. sent \in Nat /\ completed \in Nat /\ failed \in Nat
    BY <1>1, TypeParts DEF CountOK
  <2>5. sent = completed + failed + Cardinality(InFlight') + Cardinality(Lost') + 0
    BY <2>2, <2>3, <2>4
  <2> QED BY <1>1, <1>2, <1>5, <2>2, <2>5 DEF Accounted, InHand, countVars
<1>7. ClockInv'
  <2>1. now \in Nat
    BY <1>1, Bounds DEF TypeOK
  <2> QED BY <1>1, <1>2, <1>5, <2>1, ClockKept DEF pollVars
<1>8. OfferInv'
  <2>1. sent = next - 1 + 1
    BY <1>1, <1>2 DEF OfferInv, InHand
  <2> QED BY <1>2, <1>3, <2>1 DEF OfferInv, InHand, countVars
<1>9. ThreadsInv'
  <2>1. \A r \in Requests : r \in Nat /\ (r >= next' => r >= next /\ r # next)
    BY <1>2, <1>3, Bounds
  <2> QED BY <1>1, <1>2, <1>4, <2>1 DEF ThreadsInv
<1>10. JoinInv' /\ ReportInv'
  BY <1>2 DEF JoinInv, Over, ReportInv
<1> QED BY <1>6, <1>7, <1>8, <1>9, <1>10 DEF LoadInv

LEMMA StartWorkerKeeps == ASSUME LoadInv, StartWorker PROVE LoadInv'
<1>1. TypeOK /\ Accounted /\ ThreadsInv /\ OfferInv /\ ClockInv
  BY DEF LoadInv, Accounted
<1>2. /\ pc = "dispatch" /\ pc' = "dispatch" /\ mode = "closed" /\ next \in Requests
      /\ thread' = [thread EXCEPT ![next] = "test"] /\ next' = next + 1
      /\ UNCHANGED <<now, mode, endpoint, began, late, stop, timedOut, report, countVars, pollVars>>
  BY <1>1 DEF StartWorker
<1>3. next \in Nat /\ next >= 1 /\ next <= Scheduled /\ Scheduled \in Nat
  BY <1>2, Bounds
<1>4. /\ thread'[next] = "test" /\ thread[next] = "none"
      /\ \A r \in Requests : r # next => thread'[r] = thread[r]
  <2>1. next >= next
    BY <1>3
  <2> QED BY <1>1, <1>2, <2>1, TypeParts DEF ThreadOK, ThreadsInv
<1>5. TypeOK'
  <2>1. RunOK' /\ PollOK' /\ SamplesOK'
    BY <1>1, <1>2, <1>3, TypeParts DEF RunOK, PollOK, SamplesOK, pollVars
  <2>2. ThreadOK' /\ ReportOK' /\ CountOK'
    BY <1>1, <1>2, TypeParts DEF ThreadOK, ReportOK, CountOK, countVars
  <2> QED BY <2>1, <2>2, TypePartsNext
<1>6. Accounted'
  <2>1. ThreadOK
    BY <1>1, TypeParts
  <2>2. InFlight' = InFlight /\ Lost' = Lost
    BY <1>2, <1>4, <2>1, Flight, LostMoves
  <2> QED BY <1>1, <1>2, <1>5, <2>2 DEF Accounted, InHand, countVars
<1>7. ClockInv'
  <2>1. now \in Nat
    BY <1>1, Bounds DEF TypeOK
  <2> QED BY <1>1, <1>2, <1>5, <2>1, ClockKept DEF pollVars
<1>8. ThreadsInv'
  <2>1. \A r \in Requests : r \in Nat /\ (r >= next' => r >= next /\ r # next)
    BY <1>2, <1>3, Bounds
  <2> QED BY <1>1, <1>2, <1>4, <2>1 DEF ThreadsInv
<1>9. OfferInv' /\ JoinInv' /\ ReportInv'
  BY <1>2 DEF OfferInv, JoinInv, Over, ReportInv
<1> QED BY <1>6, <1>7, <1>8, <1>9 DEF LoadInv

LEMMA DispatchedKeeps == ASSUME LoadInv, Dispatched PROVE LoadInv'
<1>1. TypeOK /\ ThreadsInv /\ OfferInv
  BY DEF LoadInv, Accounted
<1>2. /\ pc = "dispatch" /\ pc' = "join" /\ next \notin Requests /\ next' = 1
      /\ UNCHANGED <<now, mode, endpoint, began, late, stop, timedOut, report, countVars,
                     pollVars, thread>>
  BY DEF Dispatched, Goto
<1>3. RunOK' /\ PollOK' /\ InHand' = InHand
  BY <1>1, <1>2, TypeParts, Bounds DEF RunOK, PollOK, InHand, pollVars
<1>4. Accounted' /\ ClockInv' /\ ReportInv'
  BY <1>2, <1>3, MovesOn DEF pollVars
<1>5. OfferInv'
  <2>1. next = Scheduled + 1
    BY <1>1, <1>2, Bounds DEF TypeOK
  <2>2. mode = "open" => sent = next - 1 + 0
    BY <1>1, <1>2 DEF OfferInv, InHand
  <2> QED BY <1>2, <2>1, <2>2, Bounds DEF OfferInv, countVars
<1>6. ThreadsInv' /\ JoinInv'
  BY <1>1, <1>2, Bounds DEF ThreadsInv, JoinInv, Over
<1> QED BY <1>4, <1>5, <1>6 DEF LoadInv

LEMMA JoinKeeps == ASSUME LoadInv, Join PROVE LoadInv'
<1>1. TypeOK /\ ThreadsInv /\ OfferInv /\ JoinInv
  BY DEF LoadInv, Accounted
<1>2. /\ pc = "join" /\ pc' = "join" /\ next \in Requests /\ next' = next + 1
      /\ \/ Over(next) /\ timedOut' = timedOut
         \/ timedOut' = TRUE
      /\ UNCHANGED <<now, mode, endpoint, began, late, stop, report, countVars, pollVars, thread>>
  BY DEF Join
<1>3. next \in Nat /\ next >= 1 /\ next <= Scheduled /\ Scheduled \in Nat
  BY <1>2, Bounds
<1>4. RunOK' /\ PollOK' /\ InHand' = InHand
  <2>1. next' \in 1..(Scheduled + 1)
    BY <1>2, <1>3
  <2>2. timedOut' \in BOOLEAN
    BY <1>1, <1>2, TypeParts DEF RunOK
  <2> QED BY <1>1, <1>2, <2>1, <2>2, TypeParts DEF RunOK, PollOK, InHand, pollVars
<1>5. Accounted' /\ ClockInv' /\ ReportInv'
  BY <1>2, <1>4, MovesOn DEF pollVars
<1>6. JoinInv'
  <2>1. \A r \in Requests : r \in Nat /\ (r < next' => r < next \/ r = next)
    BY <1>2, <1>3, Bounds
  <2> QED BY <1>1, <1>2, <2>1 DEF JoinInv, Over
<1>7. ThreadsInv' /\ OfferInv'
  BY <1>1, <1>2 DEF ThreadsInv, OfferInv, countVars
<1> QED BY <1>5, <1>6, <1>7 DEF LoadInv

LEMMA JoinedKeeps == ASSUME LoadInv, Joined PROVE LoadInv'
<1>1. TypeOK /\ ThreadsInv /\ OfferInv /\ JoinInv
  BY DEF LoadInv, Accounted
<1>2. /\ pc = "join" /\ pc' = "poller" /\ next \notin Requests /\ stop' = TRUE
      /\ UNCHANGED <<now, mode, endpoint, next, began, late, timedOut, report, countVars,
                     pollVars, thread>>
  BY DEF Joined, Goto
<1>3. RunOK' /\ PollOK' /\ InHand' = InHand
  BY <1>1, <1>2, TypeParts DEF RunOK, PollOK, InHand, pollVars
<1>4. Accounted' /\ ClockInv' /\ ReportInv'
  BY <1>2, <1>3, MovesOn DEF pollVars
<1>5. JoinInv'
  <2>1. \A r \in Requests : r < next
    BY <1>1, <1>2, Bounds DEF TypeOK
  <2> QED BY <1>1, <1>2, <2>1 DEF JoinInv, Over
<1>6. ThreadsInv' /\ OfferInv'
  BY <1>1, <1>2 DEF ThreadsInv, OfferInv, countVars
<1> QED BY <1>4, <1>5, <1>6 DEF LoadInv

LEMMA JoinPollerKeeps == ASSUME LoadInv, JoinPoller PROVE LoadInv'
<1>1. TypeOK /\ ThreadsInv /\ OfferInv /\ JoinInv
  BY DEF LoadInv, Accounted
<1>2. /\ pc = "poller" /\ pc' = "finalise"
      /\ \/ poller = "over" /\ timedOut' = timedOut
         \/ timedOut' = TRUE
      /\ UNCHANGED <<now, mode, endpoint, next, began, late, stop, report, countVars, pollVars,
                     thread>>
  BY DEF JoinPoller, Goto
<1>3. RunOK' /\ PollOK' /\ InHand' = InHand
  BY <1>1, <1>2, TypeParts DEF RunOK, PollOK, InHand, pollVars
<1>4. Accounted' /\ ClockInv' /\ ReportInv'
  BY <1>2, <1>3, MovesOn DEF pollVars
<1>5. ThreadsInv' /\ OfferInv' /\ JoinInv'
  BY <1>1, <1>2 DEF ThreadsInv, OfferInv, JoinInv, Over, countVars, pollVars
<1> QED BY <1>4, <1>5 DEF LoadInv

LEMMA RaiseKeeps == ASSUME LoadInv, Raise PROVE LoadInv'
<1>1. TypeOK /\ ThreadsInv
  BY DEF LoadInv, Accounted
<1>2. /\ pc' = "raised"
      /\ UNCHANGED <<now, mode, endpoint, next, began, late, stop, timedOut, report, countVars,
                     pollVars, thread>>
  BY DEF Raise, Goto
<1>3. RunOK' /\ PollOK'
  BY <1>1, <1>2, TypeParts DEF RunOK, PollOK, pollVars
<1>4. Accounted' /\ ClockInv' /\ ReportInv'
  BY <1>2, <1>3, MovesOn DEF pollVars
<1>5. ThreadsInv' /\ OfferInv' /\ JoinInv'
  BY <1>1, <1>2 DEF ThreadsInv, OfferInv, JoinInv, Over
<1> QED BY <1>4, <1>5 DEF LoadInv

LEMMA FinaliseKeeps == ASSUME LoadInv, Finalise PROVE LoadInv'
<1>1. TypeOK /\ Accounted /\ ThreadsInv /\ OfferInv /\ JoinInv /\ ClockInv
  BY DEF LoadInv, Accounted
<1>2. /\ pc = "finalise" /\ pc' = "done"
      /\ report' = [sent |-> sent, completed |-> completed, failed |-> failed,
                    latencies |-> latencies, achieved |-> late = 0, waited |-> Waited,
                    elapsed |-> now - began,
                    saturated |-> \E i \in DOMAIN samples : samples[i].waiting]
      /\ UNCHANGED <<now, mode, endpoint, next, began, late, stop, timedOut, countVars, pollVars,
                     thread>>
  BY DEF Finalise, Goto
<1>3. /\ now \in Nat /\ began \in Nat /\ began <= now /\ now - began \in Nat
      /\ sent \in Nat /\ completed \in Nat /\ failed \in Nat /\ latencies \in Nat
      /\ Cardinality(InFlight) \in Nat /\ Cardinality(Lost) \in Nat
  <2>1. now \in Nat /\ began \in Nat /\ began <= now
    BY <1>1, TypeParts, Bounds DEF RunOK, PollOK, ClockInv
  <2> QED BY <1>1, <2>1, TypeParts, FlightSize, LostSize DEF CountOK
<1>4. /\ Waited \in Nat
      /\ Waited > 0 => /\ \E i \in 1..(Len(samples) - 1) : Queued(i)
                       /\ Waited <= samples[Len(samples)].at - samples[1].at
  BY <1>1, WaitedBound
<1>5. TypeOK'
  <2>1. RunOK' /\ PollOK' /\ SamplesOK' /\ ThreadOK' /\ CountOK'
    BY <1>1, <1>2, TypeParts DEF RunOK, PollOK, SamplesOK, ThreadOK, CountOK, countVars, pollVars
  <2>2. ReportOK'
    <3>1. (late = 0) \in BOOLEAN /\ (\E i \in DOMAIN samples : samples[i].waiting) \in BOOLEAN
      OBVIOUS
    <3> HIDE DEF Waited
    <3> QED BY <1>2, <1>3, <1>4, <3>1 DEF ReportOK
  <2> QED BY <2>1, <2>2, TypePartsNext
<1>6. Accounted'
  BY <1>1, <1>2, <1>5, CountsKept DEF InHand
<1>7. ClockInv'
  BY <1>1, <1>2, <1>3, <1>5, ClockKept DEF pollVars
<1>8. ThreadsInv' /\ OfferInv' /\ JoinInv'
  BY <1>1, <1>2 DEF ThreadsInv, OfferInv, JoinInv, Over, countVars, pollVars
<1>9. ReportInv'
  <2>1. /\ sent = completed + failed + Cardinality(InFlight) + Cardinality(Lost) + 0
        /\ latencies = completed
        /\ endpoint = "url" => Lost = {}
    BY <1>1, <1>2 DEF Accounted, InHand
  <2>2. /\ report'.sent = sent /\ report'.completed = completed /\ report'.failed = failed
        /\ report'.latencies = latencies /\ report'.waited = Waited
    BY <1>2
  <2>3. ~timedOut => Cardinality(InFlight) = 0
    <3>1. ~timedOut => InFlight = {}
      BY <1>1, <1>2 DEF JoinInv, InFlight, Over
    <3> QED BY <3>1, FS_EmptySet
  <2>4. endpoint = "url" => Cardinality(Lost) = 0
    BY <2>1, FS_EmptySet
  <2>5. report'.completed + report'.failed <= report'.sent
    BY <1>3, <2>1, <2>2
  <2>6. ~timedOut /\ endpoint = "url" => report'.completed + report'.failed = report'.sent
    BY <1>3, <2>1, <2>2, <2>3, <2>4
  <2>7. mode = "open" => report'.sent = Scheduled
    BY <1>1, <1>2, <2>2 DEF OfferInv
  <2>8. report'.waited > 0 => /\ \E i \in 1..(Len(samples) - 1) : Queued(i)
                              /\ report'.waited <= samples[Len(samples)].at - samples[1].at
    BY <1>4, <2>2
  <2>9. mode' = mode /\ endpoint' = endpoint /\ timedOut' = timedOut /\ samples' = samples
    BY <1>2 DEF pollVars
  <2> QED BY <2>1, <2>2, <2>5, <2>6, <2>7, <2>8, <2>9 DEF ReportInv, Queued
<1> QED BY <1>6, <1>7, <1>8, <1>9 DEF LoadInv

-----------------------------------------------------------------------------
(* The threads *)

\* A step of a request's thread.
LEMMA ThreadMoves ==
  ASSUME LoadInv, UNCHANGED threadFixed, NEW r \in Requests, 
         NEW l \in {"test", "send", "call", "over", "lost"}, thread[r] \in {"test", "send", "call"},
         thread' = [thread EXCEPT ![r] = l], mode = "open" => l \in {"call", "over", "lost"}
  PROVE  /\ RunOK' /\ PollOK' /\ SamplesOK' /\ ThreadOK' /\ ReportOK' /\ now \in Nat
         /\ ThreadsInv' /\ JoinInv' /\ ReportInv'
<1>1. TypeOK /\ Accounted /\ ThreadsInv /\ JoinInv
  BY DEF LoadInv, Accounted
<1>2. UNCHANGED <<now, mode, endpoint, pc, next, began, late, stop, timedOut, report, poller,
                  scraped, samples>>
  BY DEF threadFixed, runVars, pollVars
<1>3. RunOK' /\ PollOK' /\ SamplesOK' /\ ThreadOK' /\ ReportOK'
  BY <1>1, <1>2, TypeParts DEF RunOK, PollOK, SamplesOK, ThreadOK, ReportOK
<1>4. thread'[r] = l /\ \A q \in Requests : q # r => thread'[q] = thread[q]
  BY <1>1, TypeParts DEF ThreadOK
<1>5. ThreadsInv'
  BY <1>1, <1>2, <1>4 DEF ThreadsInv
<1>6. JoinInv'
  BY <1>1, <1>2, <1>4 DEF JoinInv, Over
<1>7. ReportInv'
  BY <1>2, ReportKept DEF LoadInv
<1>8. now \in Nat
  BY <1>1, Bounds DEF TypeOK
<1> QED BY <1>3, <1>5, <1>6, <1>7, <1>8

LEMMA TestKeeps == ASSUME LoadInv, NEW r \in Requests, Test(r) PROVE LoadInv'
<1>1. PICK l \in {"send", "over"} : thread' = [thread EXCEPT ![r] = l]
  BY DEF Test
<1>2. /\ TypeOK /\ Accounted /\ ThreadsInv /\ thread[r] = "test"
      /\ UNCHANGED threadFixed /\ UNCHANGED countVars
  BY DEF LoadInv, Accounted, Test
<1>3. mode # "open"
  BY <1>2 DEF ThreadsInv
<1>4. /\ RunOK' /\ PollOK' /\ SamplesOK' /\ ThreadOK' /\ ReportOK' /\ now \in Nat
      /\ ThreadsInv' /\ JoinInv' /\ ReportInv'
  BY <1>1, <1>2, <1>3, ThreadMoves
<1>5. TypeOK'
  <2>1. CountOK'
    BY <1>2, TypeParts DEF CountOK, countVars, threadFixed, runVars
  <2> QED BY <1>4, <2>1, TypePartsNext
<1>6. Accounted'
  <2>1. InFlight' = InFlight /\ Lost' = Lost
    BY <1>1, <1>2, TypeParts, Flight, LostMoves
  <2> QED BY <1>2, <1>5, <2>1 DEF Accounted, InHand, countVars, threadFixed, runVars
<1>7. ClockInv' /\ OfferInv'
  BY <1>2, <1>3, <1>4, <1>5, ClockKept DEF LoadInv, OfferInv, threadFixed, runVars, pollVars
<1> QED BY <1>4, <1>6, <1>7 DEF LoadInv

LEMMA SendKeeps == ASSUME LoadInv, NEW r \in Requests, Send(r) PROVE LoadInv'
<1>1. /\ TypeOK /\ Accounted /\ ThreadsInv /\ thread[r] = "send" /\ UNCHANGED threadFixed
      /\ thread' = [thread EXCEPT ![r] = "call"] /\ sent' = sent + 1
      /\ UNCHANGED <<completed, failed, latencies>>
  BY DEF LoadInv, Accounted, Send
<1>2. mode # "open"
  BY <1>1 DEF ThreadsInv
<1>3. /\ RunOK' /\ PollOK' /\ SamplesOK' /\ ThreadOK' /\ ReportOK' /\ now \in Nat
      /\ ThreadsInv' /\ JoinInv' /\ ReportInv'
  BY <1>1, <1>2, ThreadMoves
<1>4. TypeOK'
  <2>1. CountOK'
    BY <1>1, TypeParts DEF CountOK, threadFixed, runVars
  <2> QED BY <1>3, <2>1, TypePartsNext
<1>5. Accounted'
  <2>0. ThreadOK /\ thread[r] # "call" /\ thread[r] # "lost"
    BY <1>1, TypeParts
  <2>1. /\ Cardinality(InFlight') = Cardinality(InFlight) + 1 /\ Cardinality(InFlight) \in Nat
        /\ Lost' = Lost /\ Cardinality(Lost) \in Nat
    <3>1. "call" # "lost" /\ thread' = [thread EXCEPT ![r] = "call"]
      BY <1>1
    <3> QED BY <2>0, <3>1, Flight, LostMoves
  <2>2. sent \in Nat /\ completed \in Nat /\ failed \in Nat
    BY <1>1, TypeParts DEF CountOK
  <2>3. InHand' = InHand /\ pc' = pc /\ InHand \in Nat
    BY <1>1 DEF InHand, threadFixed, runVars
  <2>4. pc # "raised" =>
          sent' = completed' + failed' + Cardinality(InFlight') + Cardinality(Lost') + InHand'
    BY <1>1, <2>1, <2>2, <2>3 DEF Accounted
  <2> QED BY <1>1, <1>4, <2>1, <2>3, <2>4 DEF Accounted, threadFixed, runVars
<1>6. ClockInv' /\ OfferInv'
  BY <1>1, <1>2, <1>3, <1>4, ClockKept DEF LoadInv, OfferInv, threadFixed, runVars, pollVars
<1> QED BY <1>3, <1>5, <1>6 DEF LoadInv

LEMMA FireKeeps == ASSUME LoadInv, NEW r \in Requests, Fire(r) PROVE LoadInv'
<1>1. PICK l \in {"test", "over", "lost"} :
        /\ thread' = [thread EXCEPT ![r] = l]
        /\ \/ /\ endpoint = "url" /\ l = AfterCall
              /\ \/ completed' = completed + 1 /\ latencies' = latencies + 1 /\ failed' = failed
                 \/ failed' = failed + 1 /\ completed' = completed /\ latencies' = latencies
           \/ /\ endpoint = "bare" /\ l = "lost"
              /\ UNCHANGED <<completed, failed, latencies>>
  BY DEF Fire, Failure, AfterCall
<1>2. /\ TypeOK /\ Accounted /\ thread[r] = "call" /\ UNCHANGED threadFixed /\ sent' = sent
  BY DEF LoadInv, Accounted, Fire
<1>3. mode = "open" => l \in {"over", "lost"}
  BY <1>1 DEF AfterCall
<1>4. /\ RunOK' /\ PollOK' /\ SamplesOK' /\ ThreadOK' /\ ReportOK' /\ now \in Nat
      /\ ThreadsInv' /\ JoinInv' /\ ReportInv'
  BY <1>1, <1>2, <1>3, ThreadMoves
<1>5. sent \in Nat /\ completed \in Nat /\ failed \in Nat /\ latencies \in Nat /\ late \in Nat
  BY <1>2, TypeParts DEF CountOK
<1>6. TypeOK'
  <2>1. CountOK'
    BY <1>1, <1>2, <1>5 DEF CountOK, threadFixed, runVars
  <2> QED BY <1>4, <2>1, TypePartsNext
<1>7. Accounted'
  <2>1. /\ Cardinality(InFlight') = Cardinality(InFlight) - 1 /\ Cardinality(InFlight) \in Nat
        /\ Cardinality(InFlight) > 0 /\ Cardinality(Lost) \in Nat
        /\ l = "lost" => Cardinality(Lost') = Cardinality(Lost) + 1
        /\ l # "lost" => Lost' = Lost
    BY <1>1, <1>2, TypeParts, Flight, LostMoves
  <2>2. InHand' = InHand /\ pc' = pc /\ endpoint' = endpoint /\ InHand \in Nat
    BY <1>2 DEF InHand, threadFixed, runVars
  <2>3. CASE endpoint = "url"
    <3>1. completed' + failed' = completed + failed + 1 /\ completed' \in Nat /\ failed' \in Nat
      BY <1>1, <1>5, <2>3
    <3>2. Lost' = Lost
      BY <1>1, <2>1, <2>3 DEF AfterCall
    <3>3. pc # "raised" =>
            sent' = completed' + failed' + Cardinality(InFlight') + Cardinality(Lost') + InHand'
      <4>1. pc # "raised" =>
              sent = completed + failed + Cardinality(InFlight) + Cardinality(Lost) + InHand
        BY <1>2 DEF Accounted
      <4>2. Cardinality(Lost') = Cardinality(Lost)
        BY <3>2
      <4>3. Cardinality(InFlight') \in Nat
        BY <2>1
      <4>4. PICK n \in Nat, n2 \in Nat, m \in Nat :
              /\ n = Cardinality(InFlight) /\ n2 = Cardinality(InFlight')
              /\ m = Cardinality(Lost) /\ n2 = n - 1
        BY <2>1, <4>3
      <4>5. PICK h \in Nat : h = InHand
        BY <2>2
      <4>6. completed + failed + n + m + h = completed' + failed' + n2 + m + h
        <5>1. PICK c \in Nat, f \in Nat, c2 \in Nat, f2 \in Nat :
                /\ c = completed /\ f = failed /\ c2 = completed' /\ f2 = failed'
                /\ c2 + f2 = c + f + 1
          BY <1>5, <3>1
        <5>2. n2 = n - 1
          BY <4>4
        <5>3. PICK x \in Nat : x = c + f
          BY <5>1
        <5>4. x + n = (x + 1) + n2
          BY <5>2, <5>3
        <5>5. (x + n) + m + h = ((x + 1) + n2) + m + h
          BY <5>4
        <5> QED BY <5>1, <5>3, <5>5
      <4>7. sent' = sent /\ InHand' = InHand
        BY <1>2, <2>2
      <4> QED BY <4>1, <4>2, <4>4, <4>5, <4>6, <4>7
    <3>4. latencies' = completed'
      BY <1>1, <1>2, <2>3 DEF Accounted
    <3> QED BY <1>2, <1>6, <2>2, <2>3, <3>2, <3>3, <3>4 DEF Accounted
  <2>4. CASE endpoint = "bare"
    <3>1. l = "lost" /\ completed' = completed /\ failed' = failed /\ latencies' = latencies
      BY <1>1, <2>4
    <3>3. Cardinality(InFlight') + Cardinality(Lost') = Cardinality(InFlight) + Cardinality(Lost)
      BY <2>1, <3>1
    <3>2. pc # "raised" =>
            sent' = completed' + failed' + Cardinality(InFlight') + Cardinality(Lost') + InHand'
      BY <1>2, <1>5, <2>1, <2>2, <3>1 DEF Accounted
    <3> QED BY <1>2, <1>6, <2>2, <2>4, <3>1, <3>2 DEF Accounted
  <2> QED BY <1>1, <2>3, <2>4
<1>8. ClockInv' /\ OfferInv'
  BY <1>2, <1>4, <1>6, ClockKept DEF LoadInv, OfferInv, InHand, threadFixed, runVars, pollVars
<1> QED BY <1>4, <1>7, <1>8 DEF LoadInv

\* A step of the poller.
LEMMA PollKeeps == ASSUME LoadInv, Poll PROVE LoadInv'
<1>1. /\ TypeOK /\ Accounted /\ ThreadsInv /\ OfferInv /\ JoinInv /\ ClockInv
      /\ UNCHANGED <<now, runVars, countVars, thread>>
      /\ poller \in {"test", "scrape", "wait"} /\ poller' \in {"over", "scrape", "wait", "test"}
  BY DEF LoadInv, Accounted, Poll, PollerTest, Scrape, PollerWait
<1>2. now \in Nat /\ scraped \in 0..now /\ scraped \in 0..MaxNow
  BY <1>1, TypeParts, Bounds DEF RunOK, PollOK, ClockInv
<1>3. RunOK' /\ ThreadOK' /\ CountOK' /\ ReportOK'
  BY <1>1, TypeParts DEF RunOK, ThreadOK, CountOK, ReportOK, runVars, countVars
<1>4. \/ samples' = samples /\ scraped' \in {scraped, now}
      \/ /\ \E w \in BOOLEAN : samples' = Append(samples, [at |-> scraped, waiting |-> w])
         /\ scraped' = scraped
  BY DEF Poll, PollerTest, Scrape, PollerWait
<1>5. PollOK'
  <2>1. scraped' \in 0..MaxNow
    BY <1>1, <1>2, <1>4, TypeParts DEF RunOK
  <2> QED BY <1>1, <2>1, TypeParts DEF PollOK, runVars
<1>6. \A i \in DOMAIN samples : samples[i].at \in Nat
  <2>1. \A X : samples \in Seq(X) => \A i \in DOMAIN samples : samples[i] \in X
    OBVIOUS
  <2>2. \A i \in DOMAIN samples : samples[i] \in [at : 0..MaxNow, waiting : BOOLEAN]
    BY <1>1, <2>1, TypeParts DEF SamplesOK
  <2> QED BY <2>2, Bounds
<1>7. SamplesOK' /\ ClockInv' /\ (ReportInv => ReportInv')
  <2>1. CASE samples' = samples /\ scraped' \in {scraped, now}
    <3>1. SamplesOK'
      BY <1>1, <2>1, TypeParts DEF SamplesOK
    <3>2. \A i \in DOMAIN samples : samples[i].at <= now
      BY <1>1, <1>2, <1>6 DEF ClockInv
    <3>3. ClockInv'
      BY <1>1, <1>2, <2>1, <3>2 DEF ClockInv, runVars
    <3> QED BY <1>1, <2>1, <3>1, <3>3, ReportKept DEF runVars
  <2>2. CASE /\ \E w \in BOOLEAN : samples' = Append(samples, [at |-> scraped, waiting |-> w])
             /\ scraped' = scraped
    <3>1. PICK s \in [at : 0..MaxNow, waiting : BOOLEAN] :
            samples' = Append(samples, s) /\ s.at = scraped
      BY <1>2, <2>2
    <3>2. \A X : \A q \in Seq(X), x \in X :
            /\ Append(q, x) \in Seq(X) /\ Len(q) \in Nat /\ DOMAIN q = 1..Len(q)
            /\ Len(Append(q, x)) = Len(q) + 1 /\ DOMAIN Append(q, x) = 1..(Len(q) + 1)
            /\ Append(q, x)[Len(q) + 1] = x /\ \A i \in 1..Len(q) : Append(q, x)[i] = q[i]
      OBVIOUS
    <3>3. /\ samples' \in Seq([at : 0..MaxNow, waiting : BOOLEAN])
          /\ Len(samples) \in Nat /\ DOMAIN samples = 1..Len(samples)
          /\ Len(samples') = Len(samples) + 1 /\ DOMAIN samples' = 1..(Len(samples) + 1)
          /\ samples'[Len(samples) + 1] = s
          /\ \A i \in 1..Len(samples) : samples'[i] = samples[i]
      BY <1>1, <3>1, <3>2, TypeParts DEF SamplesOK
    <3>4. ClockInv'
      <4>1. \A i \in DOMAIN samples' : samples'[i].at <= scraped'
        BY <1>1, <1>2, <2>2, <3>1, <3>3 DEF ClockInv
      <4>2. ASSUME NEW i \in DOMAIN samples', NEW j \in DOMAIN samples', i < j
            PROVE  samples'[i].at <= samples'[j].at
        <5>1. i \in 1..Len(samples)
          BY <3>3, <4>2
        <5>2. CASE j \in 1..Len(samples)
          BY <1>1, <3>3, <4>2, <5>1, <5>2 DEF ClockInv
        <5>3. CASE j = Len(samples) + 1
          BY <2>2, <3>1, <3>3, <4>1, <5>3
        <5> QED BY <3>3, <5>2, <5>3
      <4>3. began' <= now' /\ scraped' <= now'
        BY <1>1, <1>2, <2>2 DEF ClockInv, runVars
      <4> QED BY <4>1, <4>2, <4>3 DEF ClockInv
    <3>5. ReportInv => ReportInv'
      <4>1. (\E i \in 1..(Len(samples) - 1) : Queued(i)) =>
               \E i \in 1..(Len(samples') - 1) : samples'[i].waiting /\ samples'[i + 1].waiting
        <5> SUFFICES ASSUME NEW i \in 1..(Len(samples) - 1), Queued(i)
                     PROVE  \E k \in 1..(Len(samples') - 1) :
                              samples'[k].waiting /\ samples'[k + 1].waiting
          OBVIOUS
        <5>1. i \in 1..Len(samples) /\ i + 1 \in 1..Len(samples) /\ i \in 1..(Len(samples') - 1)
          BY <3>3
        <5> QED BY <3>3, <5>1 DEF Queued
      <4>2. Len(samples) > 0 =>
              /\ samples'[1] = samples[1]
              /\ samples[Len(samples)].at - samples[1].at
                   <= samples'[Len(samples')].at - samples'[1].at
        <5> SUFFICES ASSUME Len(samples) > 0
                     PROVE  /\ samples'[1] = samples[1]
                            /\ samples[Len(samples)].at - samples[1].at
                                 <= samples'[Len(samples')].at - samples'[1].at
          OBVIOUS
        <5>1. 1 \in 1..Len(samples) /\ Len(samples) \in 1..Len(samples)
          BY <3>3
        <5>2. samples[Len(samples)].at <= scraped /\ samples'[Len(samples')].at = scraped
          BY <1>1, <3>1, <3>3, <5>1 DEF ClockInv
        <5>3. samples[1].at \in Nat /\ samples[Len(samples)].at \in Nat
          BY <1>6, <3>3, <5>1
        <5> QED BY <1>2, <3>3, <5>1, <5>2, <5>3
      <4>3. (\E i \in 1..(Len(samples) - 1) : Queued(i)) => Len(samples) > 0
        BY <3>3
      <4>4. ASSUME ReportInv, pc' = "done", report.waited > 0
            PROVE  report.waited <= samples'[Len(samples')].at - samples'[1].at
        <5>1. /\ report.waited <= samples[Len(samples)].at - samples[1].at
              /\ Len(samples) > 0 /\ report.waited \in Nat
          BY <1>1, <4>3, <4>4, TypeParts DEF ReportInv, ReportOK, runVars
        <5>2. /\ samples[Len(samples)].at \in Nat /\ samples[1].at \in Nat
              /\ samples'[Len(samples')].at \in Nat
          BY <1>2, <1>6, <3>1, <3>3, <5>1
        <5> QED BY <4>2, <5>1, <5>2
      <4> QED BY <1>1, <4>1, <4>4 DEF ReportInv, Queued, runVars
    <3> QED BY <3>3, <3>4, <3>5 DEF SamplesOK
  <2> QED BY <1>4, <2>1, <2>2
<1>8. TypeOK'
  BY <1>3, <1>5, <1>7, TypePartsNext
<1>9. Accounted'
  BY <1>1, <1>8, CountsKept DEF InHand, runVars
<1>10. ThreadsInv' /\ OfferInv'
  BY <1>1 DEF ThreadsInv, OfferInv, InHand, runVars, countVars
<1>11. JoinInv'
  BY <1>1 DEF JoinInv, Over, runVars
<1> QED BY <1>7, <1>9, <1>10, <1>11 DEF LoadInv

LEMMA TickKeeps == ASSUME LoadInv, Tick PROVE LoadInv'
<1>1. /\ TypeOK /\ Accounted /\ ClockInv /\ ThreadsInv /\ OfferInv /\ JoinInv
      /\ UNCHANGED <<runVars, countVars, pollVars, thread>>
  BY DEF LoadInv, Accounted, Tick
<1>2. now \in Nat /\ now' = now + 1 /\ now' \in 0..MaxNow
  <2>1. now \in 0..MaxNow /\ MaxNow \in Nat /\ Duration \in Nat
    BY <1>1, Bounds DEF TypeOK
  <2> QED BY <2>1 DEF Tick
<1>3. TypeOK'
  <2>1. RunOK' /\ PollOK' /\ SamplesOK'
    BY <1>1, <1>2, TypeParts DEF RunOK, PollOK, SamplesOK, runVars, pollVars
  <2>2. ThreadOK' /\ CountOK' /\ ReportOK'
    BY <1>1, TypeParts DEF ThreadOK, CountOK, ReportOK, runVars, countVars
  <2> QED BY <2>1, <2>2, TypePartsNext
<1>4. Accounted'
  BY <1>1, <1>3, CountsKept DEF InHand, runVars
<1>5. ClockInv' /\ ReportInv'
  <2>1. ClockInv'
    BY <1>1, <1>2, <1>3, ClockKept DEF runVars, pollVars
  <2>2. ReportInv'
    BY <1>1, ReportKept DEF LoadInv, runVars, pollVars
  <2> QED BY <2>1, <2>2
<1>6. ThreadsInv' /\ OfferInv' /\ JoinInv'
  BY <1>1 DEF ThreadsInv, OfferInv, JoinInv, Over, InHand, runVars, countVars, pollVars
<1> QED BY <1>4, <1>5, <1>6 DEF LoadInv

-----------------------------------------------------------------------------
(* The theorems *)

LEMMA LoadInit == Init => LoadInv
<1> SUFFICES ASSUME Init PROVE LoadInv
  OBVIOUS
<1>1. RunOK /\ PollOK /\ ThreadOK /\ CountOK
  <2>1. 0 \in 0..MaxNow /\ 1 \in 1..(Scheduled + 1)
    BY Bounds
  <2>2. RunOK
    BY <2>1 DEF Init, RunOK
  <2>3. PollOK /\ ThreadOK /\ CountOK
    BY <2>1 DEF Init, PollOK, ThreadOK, CountOK
  <2> QED BY <2>2, <2>3
<1>2. SamplesOK
  <2>1. \A X : <<>> \in Seq(X)
    OBVIOUS
  <2> QED BY <2>1 DEF Init, SamplesOK
<1>3. ReportOK
  BY DEF Init, ReportOK, NoReport
<1>4. InFlight = {} /\ Lost = {}
  BY DEF Init, InFlight, Lost
<1>5. Accounted
  BY <1>1, <1>2, <1>3, <1>4, TypeParts, FS_EmptySet DEF Accounted, Init, InHand
<1>6. ThreadsInv /\ OfferInv /\ JoinInv /\ ReportInv
  BY DEF Init, ThreadsInv, OfferInv, JoinInv, Over, ReportInv, InHand
<1>7. ClockInv
  BY DEF Init, ClockInv
<1> QED BY <1>5, <1>6, <1>7 DEF LoadInv

LEMMA LoadStep ==
  ASSUME LoadInv, [Next]_vars
  PROVE  LoadInv'
<1>1. CASE Run
  BY <1>1, StartPollerKeeps, StartClockKeeps, DispatchKeeps, SpawnKeeps, StartWorkerKeeps,
     DispatchedKeeps, JoinKeeps, JoinedKeeps, JoinPollerKeeps, FinaliseKeeps DEF Run
<1>2. CASE Raise
  BY <1>2, RaiseKeeps
<1>3. CASE Poll
  BY <1>3, PollKeeps
<1>4. CASE Tick
  BY <1>4, TickKeeps
<1>5. ASSUME NEW r \in Requests, Test(r) \/ Send(r) \/ Fire(r) PROVE LoadInv'
  BY <1>5, TestKeeps, SendKeeps, FireKeeps
<1>6. CASE UNCHANGED vars
  <2>1. UNCHANGED <<now, runVars, countVars, pollVars, thread>>
    BY <1>6 DEF vars
  <2>2. TypeOK'
    BY <2>1 DEF LoadInv, Accounted, TypeOK, runVars, countVars, pollVars
  <2>3. Accounted'
    BY <2>1, <2>2, CountsKept DEF LoadInv, InHand, runVars
  <2>4. ThreadsInv' /\ OfferInv' /\ JoinInv'
    BY <2>1 DEF LoadInv, ThreadsInv, OfferInv, JoinInv, Over, InHand, runVars, countVars, pollVars
  <2>5. ClockInv'
    BY <2>1 DEF LoadInv, ClockInv, runVars, pollVars
  <2>6. ReportInv'
    BY <2>1, ReportKept DEF LoadInv, runVars, pollVars
  <2> QED BY <2>3, <2>4, <2>5, <2>6 DEF LoadInv
<1> QED BY <1>1, <1>2, <1>3, <1>4, <1>5, <1>6 DEF Next

\* The invariant of the load generator is inductive, whatever the server does.
THEOREM LoadInductive == Spec => []LoadInv
<1>1. Init => LoadInv
  BY LoadInit
<1>2. LoadInv /\ [Next]_vars => LoadInv'
  BY LoadStep
<1> QED BY <1>1, <1>2, PTL DEF Spec

\* Every request sent is completed, failed, on its way or lost with its thread,
\* exactly once, and none is lost to an endpoint that is a URL.
THEOREM EveryRequestCounted == Spec => []Accounted
<1>1. LoadInv => Accounted
  BY DEF LoadInv
<1> QED BY <1>1, LoadInductive, PTL

\* The numbers of a report agree with each other, with the schedule and with
\* the samples it was made from.
THEOREM ReportsAccount == Spec => []ReportAccounts
<1>1. LoadInv => ReportAccounts
  <2> SUFFICES ASSUME LoadInv, pc = "done"
               PROVE  /\ report.latencies = report.completed
                      /\ report.completed + report.failed <= report.sent
                      /\ ~timedOut =>
                           /\ endpoint = "url" => report.completed + report.failed = report.sent
                           /\ poller = "over" /\ \A r \in Requests : Over(r)
                      /\ mode = "open" => report.sent = Scheduled
                      /\ report.waited > 0 =>
                           /\ Cardinality({i \in DOMAIN samples : samples[i].waiting}) > 1
                           /\ report.waited <= samples[Len(samples)].at - samples[1].at
    BY DEF ReportAccounts
  <2>1. ReportInv /\ JoinInv /\ TypeOK
    BY DEF LoadInv, Accounted
  <2>2. ASSUME report.waited > 0
        PROVE  Cardinality({i \in DOMAIN samples : samples[i].waiting}) > 1
    <3> DEFINE W == {i \in DOMAIN samples : samples[i].waiting}
    <3>1. Len(samples) \in Nat /\ DOMAIN samples = 1..Len(samples)
      BY <2>1, TypeParts DEF SamplesOK
    <3>2. PICK i \in 1..(Len(samples) - 1) : Queued(i)
      BY <2>1, <2>2 DEF ReportInv
    <3>3. i \in W /\ i + 1 \in W /\ i # i + 1
      BY <3>1, <3>2 DEF Queued
    <3>4. IsFiniteSet(W)
      <4>1. 1 \in Int /\ Len(samples) \in Int
        BY <3>1
      <4>2. IsFiniteSet(1..Len(samples)) /\ W \in SUBSET (1..Len(samples))
        BY <3>1, <4>1, FS_Interval
      <4> QED BY <4>2, FS_Subset
    <3> HIDE DEF W
    <3>5. Cardinality({i, i + 1}) = 2 /\ Cardinality({i, i + 1}) <= Cardinality(W)
      <4>1. PICK j : j = i + 1
        OBVIOUS
      <4>2. IsFiniteSet({i}) /\ Cardinality({i}) = 1 /\ j \notin {i}
        BY <3>3, <4>1, FS_Singleton
      <4>3. Cardinality({i} \cup {j}) = Cardinality({i}) + 1
        BY <4>2, FS_AddElement
      <4>4. {i} \cup {j} \in SUBSET W /\ {i} \cup {j} = {i, i + 1}
        BY <3>3, <4>1
      <4>5. Cardinality({i} \cup {j}) <= Cardinality(W)
        BY <3>4, <4>4, FS_Subset
      <4>6. Cardinality({i} \cup {j}) = 2
        <5>1. PICK c : c = Cardinality({i})
          OBVIOUS
        <5>2. c = 1 /\ Cardinality({i} \cup {j}) = c + 1
          BY <4>2, <4>3, <5>1
        <5> QED BY <5>2
      <4> QED BY <4>4, <4>5, <4>6
    <3>6. Cardinality(W) \in Nat
      BY <3>4, FS_CardinalityType
    <3>7. Cardinality(W) > 1
      BY <3>5, <3>6
    <3> QED BY <3>7 DEF W
  <2> QED BY <2>1, <2>2 DEF ReportInv, JoinInv, Over
<1> QED BY <1>1, LoadInductive, PTL
=============================================================================
