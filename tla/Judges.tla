------------------------------- MODULE Judges -------------------------------
(***************************************************************************)
(* What the two efficacy gates conclude from the phases they measured:     *)
(* judge of verify_clock_lock and judge_power of verify_power_cap.         *)
(*                                                                         *)
(* A phase is [loaded, mhz, peak, ring, limit]: was the card busy, its     *)
(* median clock, its peak power, did the power come from the driver's ring *)
(* alone, and the power limit read back after it, or Unknown.              *)
(***************************************************************************)
EXTENDS FiniteSets, Integers, Sequences

CONSTANTS Tolerance,       \* --tolerance-mhz
          BaselineMargin,  \* --baseline-margin-mhz
          ClockMargin,     \* --clock-margin-mhz
          BindMargin,      \* --bind-margin-w
          EnforceMargin    \* --enforce-margin-w

ASSUME MarginAssumption ==
  {Tolerance, BaselineMargin, ClockMargin, BindMargin, EnforceMargin} \subseteq Nat

Unknown == -1

Phase == [loaded: BOOLEAN, mhz: Int, peak: Int, ring: BOOLEAN, limit: Int]

Within(a, b, margin) == a - b <= margin /\ b - a <= margin

-----------------------------------------------------------------------------
(* The clock lock: targets[i] was asked for in phase locked[i] *)

\* A target too near the unlocked clock cannot be told from no lock at all.
Testable(base, targets) ==
  {i \in DOMAIN targets : ~Within(targets[i], base.mhz, BaselineMargin)}

Near(locked, targets, i) == Within(locked[i].mhz, targets[i], Tolerance)
Changed(base, locked, i) == ~Within(locked[i].mhz, base.mhz, BaselineMargin)

\* Distinct requests gave distinct clocks.
Separated(locked, I) ==
  \A i, j \in I : i # j => ~Within(locked[i].mhz, locked[j].mhz, Tolerance)

\* achieved_monotonic_in_request, which decides nothing.
Monotone(locked, I) == \A i, j \in I : i < j => locked[i].mhz <= locked[j].mhz

CameBack(base, rec) == Within(rec.mhz, base.mhz, BaselineMargin)

JudgeClock(base, locked, rec, targets) ==
  LET testable == Testable(base, targets)
      loaded == base.loaded /\ rec.loaded /\ \A i \in DOMAIN locked : locked[i].loaded
  IN  IF ~loaded THEN "INCONCLUSIVE"
      ELSE IF ~CameBack(base, rec) THEN "RESTORE FAILED"
      ELSE IF testable = {} THEN "INCONCLUSIVE"
      ELSE IF \A i \in testable : ~Changed(base, locked, i) THEN "LOCK IS A NO-OP"
      ELSE IF \E i \in testable : ~Near(locked, targets, i) THEN "PARTIAL"
      ELSE IF ~Separated(locked, testable) THEN "PARTIAL"
      ELSE "LOCK WORKS"

-----------------------------------------------------------------------------
(* The power cap: caps, the greatest first, in force in phase capped[i] *)

\* Mutant: an unreadable limit is not compared.
LimitVerdictLenient(base, rec) ==
  IF Unknown \notin {base.limit, rec.limit} /\ rec.limit # base.limit THEN "RESTORE FAILED"
  ELSE "fine"

\* The limit is back where it was when the run began.
LimitVerdict(base, rec) ==
  IF Unknown \in {base.limit, rec.limit} THEN "RESTORE UNVERIFIED"
  ELSE IF rec.limit # base.limit THEN "RESTORE FAILED" ELSE "fine"

\* Every phase was loaded, with power from the driver's ring.
Measured(base, capped, rec) ==
  LET phases == {base, rec} \cup {capped[i] : i \in DOMAIN capped}
  IN  \A p \in phases : p.loaded /\ p.ring

\* The clock was held in the baseline and is what it was afterwards.
ControlVerdict(base, rec, clock) ==
  IF ~Within(base.mhz, clock, ClockMargin) THEN "INCONCLUSIVE"
  ELSE IF ~Within(rec.mhz, base.mhz, ClockMargin) THEN "RESTORE FAILED" ELSE "fine"

Stored(capped, caps, i) == capped[i].limit = caps[i]

\* Mutant: every cap counts.
CanBindAll(base, caps) == DOMAIN caps

\* Only a cap well below what the card drew can act.
CanBind(base, caps) == {i \in DOMAIN caps : caps[i] < base.peak - BindMargin}

Responded(base, capped, caps, i) ==
  \/ base.mhz - capped[i].mhz > ClockMargin
  \/ capped[i].peak <= caps[i] + EnforceMargin

\* A tighter cap gives no higher clock and no higher peak, neighbour by
\* neighbour.
ResponseMonotone(capped, I) ==
  \A i, j \in I :
    i < j /\ (\A k \in I : ~(i < k /\ k < j)) =>
      /\ capped[j].mhz <= capped[i].mhz + ClockMargin
      /\ capped[j].peak <= capped[i].peak + EnforceMargin

Efficacy(base, capped, caps) ==
  LET bind == CanBind(base, caps)
      idle == {i \in bind : ~Responded(base, capped, caps, i)}
  IN  IF \E i \in DOMAIN caps : ~Stored(capped, caps, i) THEN "REFUSED BY DEVICE"
      ELSE IF bind = {} THEN "INCONCLUSIVE"
      ELSE IF idle = bind THEN "CAP IS A NO-OP"
      ELSE IF idle # {} \/ Cardinality(bind) = 1 \/ ~ResponseMonotone(capped, bind)
        THEN "PARTIAL"
      ELSE "CAP WORKS"

\* In this order: the limit is a fact about the device and needs no load.
JudgePower(base, capped, rec, caps, clock) ==
  IF LimitVerdict(base, rec) # "fine" THEN LimitVerdict(base, rec)
  ELSE IF ~Measured(base, capped, rec) THEN "INCONCLUSIVE"
  ELSE IF ControlVerdict(base, rec, clock) # "fine" THEN ControlVerdict(base, rec, clock)
  ELSE Efficacy(base, capped, caps)
=============================================================================
