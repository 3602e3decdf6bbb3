------------------------- MODULE Verification_proofs -------------------------
(***************************************************************************)
(* What the verdicts of the two gates mean, for every margin and every     *)
(* measurement; and that, in every run of a gate, they are true of the     *)
(* card.                                                                   *)
(***************************************************************************)
EXTENDS VerificationInvariant, FiniteSums, TLAPS

-----------------------------------------------------------------------------
(* The judges *)

\* LOCK WORKS is said only of phases that were loaded, of a clock that came
\* back, and of testable targets that were held and told apart.
LEMMA LockWorksMeans ==
  ASSUME NEW base, NEW locked, NEW rec, NEW targets,
         JudgeClock(base, locked, rec, targets) = "LOCK WORKS"
  PROVE  /\ CameBack(base, rec)
         /\ \A i \in Testable(base, targets) : Near(locked, targets, i)
         /\ Separated(locked, Testable(base, targets))
  <1> DEFINE T == Testable(base, targets)
             loaded == base.loaded /\ rec.loaded /\ \A i \in DOMAIN locked : locked[i].loaded
             noop == \A i \in T : ~Changed(base, locked, i)
             off == \E i \in T : ~Near(locked, targets, i)
  <1>1. JudgeClock(base, locked, rec, targets) =
          IF ~loaded THEN "INCONCLUSIVE"
          ELSE IF ~CameBack(base, rec) THEN "RESTORE FAILED"
          ELSE IF T = {} THEN "INCONCLUSIVE"
          ELSE IF noop THEN "LOCK IS A NO-OP"
          ELSE IF off THEN "PARTIAL"
          ELSE IF ~Separated(locked, T) THEN "PARTIAL"
          ELSE "LOCK WORKS"
    BY DEF JudgeClock
  <1> HIDE DEF T, loaded, noop, off
  <1>2. CameBack(base, rec) /\ ~off /\ Separated(locked, T)
    BY <1>1
  <1> QED BY <1>2 DEF T, off

\* For the two indices below, whose targets are ordered.
LEMMA LessDiffers ==
  ASSUME NEW i \in Int, NEW j \in Int, i < j
  PROVE  i # j
  OBVIOUS

\* Two clocks within the tolerance of requests further apart than it, and not
\* within the tolerance of each other, are in the order of the requests.
LEMMA ApartStaysOrdered ==
  ASSUME NEW a \in Int, NEW b \in Int, NEW s \in Int, NEW t \in Int,
         Within(a, s, Tolerance), Within(b, t, Tolerance),
         ~Within(a, b, Tolerance), t - s > Tolerance
  PROVE  a <= b
  <1>1. Tolerance \in Nat
    BY MarginAssumption
  <1> QED BY <1>1 DEF Within

\* judge computes whether the achieved clocks rise with the requests and does
\* not use it.  It need not, where the requests lie further apart than the
\* tolerance: then LOCK WORKS implies it.
THEOREM LockWorksMonotone ==
  ASSUME NEW base, NEW locked, NEW rec, NEW targets,
         JudgeClock(base, locked, rec, targets) = "LOCK WORKS",
         \A i \in Testable(base, targets) : targets[i] \in Int /\ locked[i].mhz \in Int,
         Testable(base, targets) \subseteq Int,
         \A i, j \in Testable(base, targets) : i < j => targets[j] - targets[i] > Tolerance
  PROVE  Monotone(locked, Testable(base, targets))
  <1>1. SUFFICES ASSUME NEW i \in Testable(base, targets), NEW j \in Testable(base, targets),
                        i < j
                 PROVE  locked[i].mhz <= locked[j].mhz
    BY DEF Monotone
  <1>2. Near(locked, targets, i) /\ Near(locked, targets, j)
    BY LockWorksMeans
  <1>3. i # j
    <2>1. i \in Int /\ j \in Int
      OBVIOUS
    <2>2. i < j
      BY <1>1
    <2> QED BY <2>1, <2>2, LessDiffers
  <1>4. ~Within(locked[i].mhz, locked[j].mhz, Tolerance)
    BY <1>3, LockWorksMeans DEF Separated
  <1>5. targets[j] - targets[i] > Tolerance
    BY <1>1
  <1>6. /\ targets[i] \in Int /\ targets[j] \in Int
        /\ locked[i].mhz \in Int /\ locked[j].mhz \in Int
    OBVIOUS
  <1> QED BY <1>2, <1>4, <1>5, <1>6, ApartStaysOrdered DEF Near

\* A card left locked at a target that could be tested is never reported as
\* LOCK WORKS: its clock after the restore is not the unlocked clock.
THEOREM PinnedCardIsNoticed ==
  ASSUME NEW base, NEW locked, NEW rec, NEW targets, NEW i \in Testable(base, targets),
         rec.mhz = targets[i]
  PROVE  JudgeClock(base, locked, rec, targets) # "LOCK WORKS"
  <1>1. ~Within(targets[i], base.mhz, BaselineMargin)
    BY DEF Testable
  <1>2. ~CameBack(base, rec)
    BY <1>1 DEF CameBack
  <1> QED BY <1>2, LockWorksMeans

\* JudgePower reaches a verdict on the caps only when the limit was read twice
\* and was the same, and then two caps at least could act and did.
LEMMA CapWorksMeans ==
  ASSUME NEW base, NEW capped, NEW rec, NEW caps, NEW clock,
         JudgePower(base, capped, rec, caps, clock) = "CAP WORKS"
  PROVE  /\ rec.limit = base.limit /\ base.limit # Unknown
         /\ Measured(base, capped, rec)
         /\ \A i \in DOMAIN caps : Stored(capped, caps, i)
         /\ CanBind(base, caps) # {} /\ Cardinality(CanBind(base, caps)) # 1
         /\ \A i \in CanBind(base, caps) : Responded(base, capped, caps, i)
         /\ ResponseMonotone(capped, CanBind(base, caps))
  <1> DEFINE bind == CanBind(base, caps)
             idle == {i \in bind : ~Responded(base, capped, caps, i)}
             stored == \A i \in DOMAIN caps : Stored(capped, caps, i)
             one == Cardinality(bind) = 1
  <1>1. Efficacy(base, capped, caps) =
          IF ~stored THEN "REFUSED BY DEVICE"
          ELSE IF bind = {} THEN "INCONCLUSIVE"
          ELSE IF idle = bind THEN "CAP IS A NO-OP"
          ELSE IF idle # {} \/ one \/ ~ResponseMonotone(capped, bind) THEN "PARTIAL"
          ELSE "CAP WORKS"
    BY DEF Efficacy
  <1>2. LimitVerdict(base, rec) \in {"RESTORE UNVERIFIED", "RESTORE FAILED", "fine"}
    BY DEF LimitVerdict
  <1>3. ControlVerdict(base, rec, clock) \in {"INCONCLUSIVE", "RESTORE FAILED", "fine"}
    BY DEF ControlVerdict
  <1>4. /\ LimitVerdict(base, rec) = "fine"
        /\ Measured(base, capped, rec)
        /\ Efficacy(base, capped, caps) = "CAP WORKS"
    BY <1>2, <1>3 DEF JudgePower
  <1>5. rec.limit = base.limit /\ base.limit # Unknown
    BY <1>4 DEF LimitVerdict
  <1> HIDE DEF bind, idle, stored, one
  <1>6. stored /\ bind # {} /\ idle = {} /\ ~one /\ ResponseMonotone(capped, bind)
    BY <1>1, <1>4
  <1> QED BY <1>4, <1>5, <1>6 DEF bind, idle, stored, one

\* No verdict of the power gate other than a failed or unverified restore is
\* given while the limit differs from what it was, or was not read: the limit
\* is looked at before the load.
THEOREM LimitComesFirst ==
  ASSUME NEW base, NEW capped, NEW rec, NEW caps, NEW clock,
         rec.limit # base.limit \/ Unknown \in {base.limit, rec.limit}
  PROVE  JudgePower(base, capped, rec, caps, clock) \in {"RESTORE FAILED", "RESTORE UNVERIFIED"}
  <1>1. LimitVerdict(base, rec) \in {"RESTORE FAILED", "RESTORE UNVERIFIED"}
    BY DEF LimitVerdict
  <1> QED BY <1>1 DEF JudgePower

\* Under the verdict CAP WORKS every cap that could bind did something, and of
\* two neighbours the tighter shows neither a higher clock nor a higher peak than
\* the margins allow.
THEOREM CapWorksOrdered ==
  ASSUME NEW base, NEW capped, NEW rec, NEW caps, NEW clock,
         JudgePower(base, capped, rec, caps, clock) = "CAP WORKS",
         NEW i \in CanBind(base, caps), NEW j \in CanBind(base, caps), i < j,
         \A k \in CanBind(base, caps) : ~(i < k /\ k < j)
  PROVE  /\ capped[j].mhz <= capped[i].mhz + ClockMargin
         /\ capped[j].peak <= capped[i].peak + EnforceMargin
         /\ Responded(base, capped, caps, i) /\ Responded(base, capped, caps, j)
  BY CapWorksMeans DEF ResponseMonotone

-----------------------------------------------------------------------------
(* The plan of a run *)

LEMMA Arguments ==
  ASSUME req \in Requests
  PROVE  /\ req.tool \in Tools /\ req.clock \in Nat /\ req.caps \in SUBSET Nat
         /\ IsFiniteSet(req.caps) /\ req.targets \in Seq(Nat)
         /\ Len(req.targets) \in Nat /\ Cardinality(req.caps) \in Nat
         /\ DOMAIN req.targets = 1..Len(req.targets)
         /\ \A i \in 1..Len(req.targets) : req.targets[i] \in Nat
<1>1. req \in Request /\ IsFiniteSet(req.caps)
  BY RequestAssumption
<1>2. /\ req.tool \in Tools /\ req.clock \in Nat /\ req.caps \in SUBSET Nat
      /\ req.targets \in Seq(Nat)
  BY <1>1 DEF Request
<1>3. /\ Len(req.targets) \in Nat /\ DOMAIN req.targets = 1..Len(req.targets)
      /\ \A i \in 1..Len(req.targets) : req.targets[i] \in Nat
  BY <1>2
<1> QED BY <1>1, <1>2, <1>3, FS_CardinalityType

\* The caps tested are those of the command line, each once.
LEMMA CapsAre ==
  ASSUME req \in Requests
  PROVE  /\ DOMAIN Caps = 1..Cardinality(req.caps)
         /\ Caps = [i \in 1..Cardinality(req.caps) |-> Caps[i]]
         /\ \A i \in 1..Cardinality(req.caps) : Caps[i] \in req.caps
         /\ \A i, j \in 1..Cardinality(req.caps) : i # j => Caps[i] # Caps[j]
<1> DEFINE n == Cardinality(req.caps)
           f == [w \in req.caps |-> w]
<1>1. req.caps \in SUBSET Nat /\ IsFiniteSet(req.caps) /\ n \in Nat
  BY Arguments
<1>2. Caps = [i \in 1..n |-> Ranked(f, n + 1 - i)]
  BY DEF Caps
<1>3. DOMAIN f = req.caps /\ f \in [DOMAIN f -> Nat] /\ \A w \in req.caps : f[w] = w
  BY <1>1
<1>4. \A i \in 1..n : n + 1 - i \in 1..n
  BY <1>1
<1>5. ASSUME NEW m \in 1..n PROVE Ranked(f, m) \in req.caps
  <2> HIDE DEF f
  <2>1. Ranked(f, m) \in {f[k] : k \in DOMAIN f}
    BY <1>1, <1>3, RankedIs
  <2> QED BY <1>3, <2>1
<1>6. ASSUME NEW i \in 1..n, NEW j \in 1..n, i # j PROVE Caps[i] # Caps[j]
  <2>1. n + 1 - i \in 1..n /\ n + 1 - j \in 1..n /\ i \in Int /\ j \in Int
    BY <1>1
  <2>2. CASE n + 1 - i < n + 1 - j
    <3>1. Ranked(f, n + 1 - i) # Ranked(f, n + 1 - j)
      BY <1>1, <2>1, <2>2, RankedDistinct
    <3> QED BY <1>2, <3>1
  <2>3. CASE n + 1 - j < n + 1 - i
    <3>1. Ranked(f, n + 1 - i) # Ranked(f, n + 1 - j)
      BY <1>1, <2>1, <2>3, RankedDistinct
    <3> QED BY <1>2, <3>1
  <2> HIDE DEF f
  <2> QED BY <1>1, <1>6, <2>2, <2>3
<1> QED BY <1>2, <1>4, <1>5, <1>6

\* The targets tested are those of the command line.
LEMMA TargetsAre ==
  ASSUME req \in Requests
  PROVE  /\ DOMAIN Targets = 1..Len(req.targets)
         /\ Targets = [i \in 1..Len(req.targets) |-> Targets[i]]
         /\ \A i \in 1..Len(req.targets) :
              /\ Targets[i] \in Nat
              /\ \E k \in DOMAIN req.targets : Targets[i] = req.targets[k]
<1> DEFINE t == req.targets
           n == Len(t)
<1>1. n \in Nat /\ DOMAIN t = 1..n /\ \A i \in 1..n : t[i] \in Nat
  BY Arguments
<1>2. t \in [DOMAIN t -> Nat]
  <2>1. t \in Seq(Nat)
    BY Arguments
  <2> HIDE DEF t
  <2> QED BY <2>1
<1>3. IsFiniteSet(1..n) /\ Cardinality(1..n) = n
  <2>1. 1 \in Int /\ n \in Int
    BY <1>1
  <2>2. Cardinality(1..n) = IF 1 > n THEN 0 ELSE n - 1 + 1
    BY <2>1, FS_Interval
  <2> QED BY <1>1, <2>1, <2>2, FS_Interval
<1>4. \A i \in 1..n : Ranked(t, i) \in {t[k] : k \in DOMAIN t} /\ Ranked(t, i) \in Nat
  <2> HIDE DEF t
  <2> QED BY <1>1, <1>2, <1>3, RankedIs
<1>5. Targets = [i \in 1..n |-> Ranked(t, i)]
  BY DEF Targets
<1> QED BY <1>4, <1>5

LEMMA PlanIs ==
  ASSUME req \in Requests
  PROVE  /\ Size \in Nat /\ DOMAIN Tested = 1..Size /\ Tested = [i \in 1..Size |-> Tested[i]]
         /\ \A i \in 1..Size : Tested[i] \in Nat
         /\ Power => \A i \in 1..Size : Tested[i] \in req.caps /\ Tested[i] \in Limits
         /\ ~Power => \A i \in 1..Size : Tested[i] \in Clocks
         /\ req.clock \in Clocks /\ req.clock \in Nat
<1>1. /\ req.caps \in SUBSET Nat /\ req.clock \in Nat
      /\ Len(req.targets) \in Nat /\ Cardinality(req.caps) \in Nat
  BY Arguments
<1>2. req.clock \in Clocks
  BY DEF Clocks
<1>3. CASE Power
  <2>1. Size = Cardinality(req.caps) /\ Tested = Caps
    BY <1>3 DEF Size, Tested
  <2>2. \A w \in req.caps : w \in Limits
    BY DEF Limits
  <2> QED BY <1>1, <1>2, <1>3, <2>1, <2>2, CapsAre
<1>4. CASE ~Power
  <2>1. Size = Len(req.targets) /\ Tested = Targets
    BY <1>4 DEF Size, Tested
  <2>2. \A k \in DOMAIN req.targets : req.targets[k] \in Clocks
    BY DEF Clocks
  <2> QED BY <1>1, <1>2, <1>4, <2>1, <2>2, TargetsAre
<1> QED BY <1>3, <1>4

\* A step leaves the plan as it is.
LEMMA PlanStays ==
  ASSUME [Next]_vars
  PROVE  /\ req' = req /\ found' = found /\ obeys' = obeys
         /\ Power' = Power /\ Size' = Size /\ Tested' = Tested
         /\ Final' = Final /\ Caps' = Caps
<1>1. req' = req /\ found' = found /\ obeys' = obeys
  BY DEF Next, vars, runVars, CheckArguments, CheckRange, NextPhase, Build, Arm, LockClocks,
         SetPowerLimit, Measure, Interrupt, Restore, Close, Keep, Escape, Judge, ExitHook
<1> QED BY <1>1 DEF Power, Size, Tested, Caps, Targets, Final

LEMMA AskedIs ==
  ASSUME req \in Requests, Len(phases) \in Nat, Guarded
  PROVE  /\ LockAsked \in Nat /\ LockAsked \in Clocks
         /\ Power /\ Between(Index) => CapAsked \in Nat /\ CapAsked \in Limits
<1>1. Between(Index) => Index - 1 \in 1..Size
  BY PlanIs DEF Between, Index
<1>2. ~Power => Between(Index)
  BY DEF Guarded
<1> QED BY <1>1, <1>2, PlanIs DEF LockAsked, CapAsked

LEMMA NameIs ==
  ASSUME req \in Requests, Len(phases) \in Nat, Index \in 1..Final
  PROVE  Name(Index) \in PhaseName
<1>1. Size \in Nat /\ Index \in Nat
  BY PlanIs DEF Index
<1>2. Index # 1 /\ Index # Final => Index - 1 \in 1..Size
  BY <1>1 DEF Final
<1>3. Index # 1 /\ Index # Final => Tested[Index - 1] \in Nat
  BY <1>2, PlanIs
<1>4. CASE Index = 1 \/ Index = Final
  BY <1>4 DEF Name, PhaseName
<1>5. CASE Index # 1 /\ Index # Final
  BY <1>3, <1>5 DEF Name, PhaseName
<1> QED BY <1>4, <1>5

LEMMA TypeFacts ==
  ASSUME TypeOK
  PROVE  /\ req \in Requests /\ dev \in Setting /\ found \in Setting /\ snap \in Nat
         /\ {dev.lock, dev.cap, found.lock, found.cap} \subseteq Nat
         /\ Len(phases) \in Nat /\ DOMAIN phases = 1..Len(phases) /\ Index \in Nat \ {0}
         /\ \A i \in DOMAIN phases : phases[i].name \in PhaseName /\ phases[i].result \in Phase
<1>1. req \in Requests /\ dev \in Setting /\ found \in Setting /\ snap \in Nat
  BY DEF TypeOK
<1>2. phases \in Seq([name: PhaseName, result: Phase])
  BY DEF TypeOK
<1>3. Len(phases) \in Nat /\ DOMAIN phases = 1..Len(phases)
  BY <1>2
<1>4. \A X : phases \in Seq(X) => \A i \in DOMAIN phases : phases[i] \in X
  OBVIOUS
<1>5. \A i \in DOMAIN phases : phases[i] \in [name: PhaseName, result: Phase]
  BY <1>2, <1>4
<1>6. {dev.lock, dev.cap, found.lock, found.cap} \subseteq Nat
  BY <1>1 DEF Setting
<1> QED BY <1>1, <1>3, <1>5, <1>6 DEF Index

\* A phase measures a clock and a power.
LEMMA PhaseIs ==
  ASSUME TypeOK, ValueInv, NEW p, PhaseOf(p)
  PROVE  /\ p \in Phase
         /\ p.limit \in {dev.cap, Unknown}
         /\ p.loaded => Under(dev.lock, dev.cap, p)
<1>1. dev.lock \in Nat /\ dev.cap \in Nat /\ dev.lock \in Clocks /\ dev.cap \in Limits
  BY DEF TypeOK, ValueInv, Setting
<1>2. Top(dev.cap) \in Int
  BY <1>1, RequestAssumption
<1>3. Boosts \subseteq Clocks /\ Boosts \subseteq Nat
  BY RequestAssumption DEF Clocks
<1>4. \A c \in Boosts \cup {dev.lock} : Draw(c) \in Int
  BY <1>1, <1>3, RequestAssumption
<1>5. CASE p \in Observed /\ Behaves(p)
  <2>1. /\ p = [loaded |-> p.loaded, mhz |-> p.mhz, peak |-> p.peak, ring |-> p.ring, limit |-> p.limit]
        /\ p.loaded = TRUE /\ p.ring \in BOOLEAN /\ p.limit \in {dev.cap, Unknown}
        /\ p.mhz \in Boosts \cup {dev.lock, Top(dev.cap)}
        /\ p.peak \in {Draw(c) : c \in Boosts \cup {dev.lock}} \cup {dev.cap}
    BY <1>5 DEF Observed
  <2>2. p.mhz \in Int
    BY <1>1, <1>2, <1>3, <2>1
  <2>3. p.peak \in Int
    BY <1>1, <1>4, <2>1
  <2>4. p.limit \in Int
    BY <1>1, <2>1 DEF Unknown
  <2>5. p \in Phase
    BY <2>1, <2>2, <2>3, <2>4 DEF Phase
  <2> QED BY <1>5, <2>1, <2>5 DEF Behaves
<1>6. CASE p \in {Idle(dev.cap), Idle(Unknown)}
  <2>1. PICK k \in {dev.cap, Unknown} : p = Idle(k)
    BY <1>6
  <2>2. k \in Int
    BY <1>1 DEF Unknown
  <2> QED BY <2>1, <2>2 DEF Idle, Phase
<1> QED BY <1>5, <1>6 DEF PhaseOf

Verdicts == {"INCONCLUSIVE", "RESTORE FAILED", "RESTORE UNVERIFIED", "LOCK IS A NO-OP",
             "CAP IS A NO-OP", "REFUSED BY DEVICE", "PARTIAL", "LOCK WORKS", "CAP WORKS"}

LEMMA VerdictIs ==
  ASSUME NEW ps
  PROVE  JudgePhases(ps) \in Verdicts
<1>1. ASSUME NEW b, NEW l, NEW r, NEW t PROVE JudgeClock(b, l, r, t) \in Verdicts
  BY DEF JudgeClock, Verdicts
<1>2. ASSUME NEW b, NEW c, NEW w PROVE Efficacy(b, c, w) \in Verdicts
  BY DEF Efficacy, Verdicts
<1>3. ASSUME NEW b, NEW r, NEW k
      PROVE  /\ LimitVerdict(b, r) \in Verdicts \cup {"fine"}
             /\ ControlVerdict(b, r, k) \in Verdicts \cup {"fine"}
  BY DEF LimitVerdict, ControlVerdict, Verdicts
<1>4. ASSUME NEW b, NEW c, NEW r, NEW w, NEW k PROVE JudgePower(b, c, r, w, k) \in Verdicts
  <2>1. "INCONCLUSIVE" \in Verdicts
    BY DEF Verdicts
  <2>2. /\ LimitVerdict(b, r) # "fine" => LimitVerdict(b, r) \in Verdicts
        /\ ControlVerdict(b, r, k) # "fine" => ControlVerdict(b, r, k) \in Verdicts
    BY <1>3
  <2> QED BY <1>2, <2>1, <2>2 DEF JudgePower
<1> QED BY <1>1, <1>4 DEF JudgePhases

-----------------------------------------------------------------------------
(* The inductive invariant *)

LEMMA InitEstablishes == Init => VInv
<1> SUFFICES ASSUME Init PROVE VInv
  OBVIOUS
<1>1. req \in Requests /\ Size \in Nat /\ phases = <<>> /\ Len(phases) = 0
  BY PlanIs DEF Init
<1>2. TypeOK
  <2>1. dev \in Setting /\ found \in Setting
    BY RequestAssumption DEF Init
  <2>2. <<>> \in Seq([name: PhaseName, result: Phase])
    OBVIOUS
  <2>3. 0 \in 0..MaxFaults
    BY RequestAssumption
  <2>4. /\ phases \in Seq([name: PhaseName, result: Phase]) /\ Len(phases) <= Final
        /\ \A i \in DOMAIN phases : phases[i].name = Name(i)
    BY <1>1, <2>2 DEF Final
  <2>5. /\ claim \in {"none", "ours", "other"} /\ default \in BOOLEAN
        /\ obeys \in [lock: BOOLEAN, cap: BOOLEAN] /\ taken = NoPhase
        /\ pc = "args" /\ exc = "none" /\ snap = 0 /\ touched = {} /\ open = FALSE
        /\ artifact = "none" /\ code = Unknown /\ faults = 0
    BY RequestAssumption DEF Init
  <2> QED BY <1>1, <2>1, <2>3, <2>4, <2>5 DEF TypeOK, Labels, Exceptions, Codes, Artifacts
<1>3. ValueInv
  BY DEF Init, ValueInv, Clocks, Limits
<1>4. PhaseInv /\ OwingInv /\ CapInv /\ ForceInv /\ LeftInv
  BY <1>1 DEF Init, PhaseInv, OwingInv, CapInv, ForceInv, LeftInv, Working, Final
<1>5. MeasuredInv /\ VerdictInv
  BY <1>1 DEF Init, MeasuredInv, VerdictInv
<1> QED BY <1>2, <1>3, <1>4, <1>5 DEF VInv

\* The two settings after a write and after a restore.
LEMMA WriteValues ==
  ASSUME dev \in Setting, dev.lock \in Clocks, dev.cap \in Limits,
         NEW v, (v \in Nat /\ v \in Clocks /\ Write("lock", v)) \/ (v \in Nat /\ v \in Limits /\ Write("cap", v))
  PROVE  dev' \in Setting /\ dev'.lock \in Clocks /\ dev'.cap \in Limits
  BY DEF Setting, Write

LEMMA RestoreValues ==
  ASSUME dev \in Setting, dev.lock \in Clocks, dev.cap \in Limits, snap \in Nat, snap \in Limits,
         NEW e, Restores(e)
  PROVE  dev' \in Setting /\ dev'.lock \in Clocks /\ dev'.cap \in Limits
<1>1. 0 \in Clocks
  BY DEF Clocks
<1>2. Reset \in Setting /\ Reset.lock \in Clocks /\ Reset.cap \in Limits
  BY <1>1 DEF Reset, Setting
<1> HIDE DEF Reset
<1> QED BY <1>2 DEF Restores, Setting

LEMMA ValueKept ==
  ASSUME TypeOK, ValueInv, PhaseInv, Next
  PROVE  ValueInv' /\ dev' \in Setting /\ snap' \in Nat
<1>1. /\ req \in Requests /\ Len(phases) \in Nat /\ dev \in Setting /\ snap \in Nat
      /\ dev.lock \in Clocks /\ dev.cap \in Limits /\ snap \in Limits /\ dev.cap \in Nat
  BY TypeFacts DEF ValueInv
<1>2. found' = found
  BY PlanStays
<1>3. SUFFICES /\ dev' \in Setting /\ dev'.lock \in Clocks /\ dev'.cap \in Limits
               /\ snap' \in Nat /\ snap' \in Limits
  BY <1>2 DEF ValueInv, Clocks, Limits
<1>4. CASE LockClocks
  <2>1. LockAsked \in Nat /\ LockAsked \in Clocks
    BY <1>1, <1>4, AskedIs DEF LockClocks, At, PhaseInv, Working
  <2>2. UNCHANGED snap
    BY <1>4 DEF LockClocks
  <2>3. UNCHANGED dev \/ Write("lock", LockAsked)
    BY <1>4 DEF LockClocks
  <2> QED BY <1>1, <2>1, <2>2, <2>3, WriteValues
<1>5. CASE SetPowerLimit
  <2>1. CapAsked \in Nat /\ CapAsked \in Limits
    BY <1>1, <1>5, AskedIs DEF SetPowerLimit, At, PhaseInv, Working
  <2>2. UNCHANGED snap /\ Write("cap", CapAsked)
    BY <1>5 DEF SetPowerLimit
  <2> QED BY <1>1, <2>1, <2>2, WriteValues
<1>6. CASE Restore
  <2>1. UNCHANGED snap /\ Restores("restore")
    BY <1>6 DEF Restore
  <2> QED BY <1>1, <2>1, RestoreValues
<1>7. CASE ExitHook
  <2>1. UNCHANGED snap /\ (UNCHANGED dev \/ Restores(exc))
    BY <1>7 DEF ExitHook
  <2> QED BY <1>1, <2>1, RestoreValues
<1>8. CASE Arm
  BY <1>1, <1>8 DEF Arm
<1>9. CASE \/ CheckArguments \/ CheckRange \/ NextPhase \/ Build \/ Measure \/ Interrupt
           \/ Close \/ Keep \/ Escape \/ Judge
  BY <1>1, <1>9 DEF CheckArguments, CheckRange, NextPhase, Build, Measure, Interrupt, Close,
                    Keep, Escape, Judge, guardVars
<1> QED BY <1>4, <1>5, <1>6, <1>7, <1>8, <1>9 DEF Next

\* What stays while no phase is added.
LEMMA PhasesStay ==
  ASSUME [Next]_vars, UNCHANGED phases
  PROVE  /\ Index' = Index /\ Guarded' = Guarded /\ Name(Index)' = Name(Index)
         /\ Between(Index)' = Between(Index)
         /\ LockAsked' = LockAsked /\ CapAsked' = CapAsked
<1>1. /\ req' = req /\ Power' = Power /\ Size' = Size /\ Tested' = Tested /\ Final' = Final
  BY PlanStays
<1>2. Index' = Index
  BY DEF Index
<1>3. Between(Index)' = Between(Index)
  BY <1>1, <1>2 DEF Between
<1>4. Guarded' = Guarded
  BY <1>1, <1>2, <1>3 DEF Guarded
<1>5. LockAsked' = LockAsked /\ CapAsked' = CapAsked
  BY <1>1, <1>2 DEF LockAsked, CapAsked
<1>6. Name(Index)' = Name(Index)
  BY <1>1, <1>2 DEF Name
<1> QED BY <1>2, <1>3, <1>4, <1>5, <1>6

LEMMA NamedIs ==
  ASSUME req \in Requests, Len(phases) \in Nat, Index \in 1..Final, NEW p
  PROVE  Named(p) # NoPhase
<1>1. Name(Index) # <<"none", 0>>
  BY NameIs DEF PhaseName
<1> QED BY <1>1 DEF Named, NoPhase

LEMMA SomethingTested ==
  ASSUME req \in Requests, ~ArgumentsRefused
  PROVE  Size # 0
<1>1. CASE Power
  <2>1. Cardinality(req.caps) # 0
    BY <1>1, Arguments, FS_EmptySet DEF ArgumentsRefused
  <2> QED BY <1>1, <2>1 DEF Size
<1>2. CASE ~Power
  <2>1. req.targets \in Seq(Nat) /\ req.targets # <<>>
    BY <1>2, Arguments DEF ArgumentsRefused
  <2>2. Len(req.targets) # 0
    BY <2>1
  <2> QED BY <1>2, <2>2 DEF Size
<1> QED BY <1>1, <1>2

LEMMA PhaseKept ==
  ASSUME TypeOK, PhaseInv, Next
  PROVE  PhaseInv'
<1>1. /\ req \in Requests /\ Len(phases) \in Nat /\ Index = Len(phases) + 1 /\ Size \in Nat
      /\ Final = Size + 2 /\ Len(phases) <= Final
  BY TypeFacts, PlanIs DEF TypeOK, Index, Final
<1>2. Power' = Power /\ Size' = Size /\ Final' = Final
  BY PlanStays
<1>3. UNCHANGED phases => /\ Guarded' = Guarded /\ Between(Index)' = Between(Index)
                          /\ Len(phases)' = Len(phases)
  BY PhasesStay
<1>4. CASE CheckArguments
  <2>1. UNCHANGED phases
    BY <1>4 DEF CheckArguments
  <2>2. pc' = "hooks" \/ Size # 0
    BY <1>1, <1>4, SomethingTested DEF CheckArguments, Goto
  <2> QED BY <1>1, <1>2, <1>3, <1>4, <2>1, <2>2 DEF CheckArguments, At, Goto, PhaseInv, Working
<1>5. CASE CheckRange
  <2>1. UNCHANGED phases
    BY <1>5 DEF CheckRange
  <2> QED BY <1>1, <1>2, <1>3, <1>5, <2>1
          DEF CheckRange, At, Goto, Conclude, NotRun, PhaseInv, Working
<1>6. CASE NextPhase
  <2>1. UNCHANGED phases
    BY <1>6 DEF NextPhase
  <2> QED BY <1>1, <1>2, <1>3, <1>6, <2>1 DEF NextPhase, At, Goto, PhaseInv, Working
<1>7. CASE Build
  BY <1>1, <1>2, <1>3, <1>7 DEF Build, At, Goto, Raise, PhaseInv, Working
<1>8. CASE Arm
  BY <1>1, <1>2, <1>3, <1>8 DEF Arm, At, Goto, Raise, PhaseInv, Working
<1>9. CASE LockClocks
  <2>1. exc = "none" /\ UNCHANGED <<phases, taken>>
    BY <1>9 DEF LockClocks, At, PhaseInv
  <2>2. \/ exc' # "none" /\ pc' = "restore"
        \/ exc' = "none" /\ pc' = IF Power /\ Between(Index) THEN "cap" ELSE "measure"
    BY <1>9, <2>1 DEF LockClocks, Goto, Raise
  <2> QED BY <1>1, <1>2, <1>3, <1>9, <2>1, <2>2 DEF LockClocks, At, PhaseInv, Working
<1>10. CASE SetPowerLimit
  <2>1. exc = "none" /\ UNCHANGED <<phases, taken>>
    BY <1>10 DEF SetPowerLimit, At, PhaseInv
  <2>2. \/ exc' # "none" /\ pc' = "restore"
        \/ exc' = "none" /\ pc' = "measure"
    BY <1>10, <2>1 DEF SetPowerLimit, Goto
  <2> QED BY <1>1, <1>2, <1>3, <1>10, <2>1, <2>2 DEF SetPowerLimit, At, PhaseInv, Working
<1>11. CASE Measure
  <2>1. exc = "none" /\ UNCHANGED phases /\ Len(phases) < Final /\ Size # 0
    BY <1>11 DEF Measure, At, PhaseInv
  <2>2. \/ exc' # "none" /\ pc' = IF Guarded THEN "restore" ELSE "escape"
        \/ exc' = "none" /\ pc' = (IF Guarded THEN "restore" ELSE "kept") /\ taken' # NoPhase
    <3>1. \A p : Named(p) # NoPhase
      BY <1>1, <2>1, NamedIs
    <3> QED BY <1>11, <2>1, <3>1 DEF Measure, Goto, Raise
  <2> QED BY <1>1, <1>2, <1>3, <2>1, <2>2 DEF PhaseInv, Working
<1>12. CASE Interrupt
  BY <1>1, <1>2, <1>3, <1>12 DEF Interrupt, Goto, Raise, PhaseInv, Working
<1>13. CASE Restore
  <2>1. UNCHANGED <<phases, taken>> /\ exc' \in {exc, "restore"} /\ pc = "restore" /\ pc' = "close"
    BY <1>13 DEF Restore, Restores, At, Goto
  <2> QED BY <1>1, <1>2, <1>3, <2>1 DEF PhaseInv, Working
<1>14. CASE Close
  BY <1>1, <1>2, <1>3, <1>14 DEF Close, At, Goto, PhaseInv, Working
<1>15. CASE Keep
  <2>1. /\ exc = "none" /\ exc' = exc /\ Len(phases) < Final /\ Size # 0 /\ pc = "kept"
        /\ taken' = NoPhase /\ pc' \in {"next", "hooks"}
        /\ pc' = "hooks" => Index = 1
    BY <1>15 DEF Keep, At, PhaseInv, Forget, NotRun, Conclude, Goto
  <2>2. Len(phases') = Len(phases) + 1
    <3>1. phases \in Seq([name: PhaseName, result: Phase]) /\ phases' = Append(phases, taken)
      BY <1>15 DEF Keep, TypeOK
    <3> QED BY <3>1
  <2> QED BY <1>1, <1>2, <2>1, <2>2 DEF PhaseInv, Working
<1>16. CASE Escape
  <2>1. pc' = "hooks" /\ UNCHANGED phases /\ Len(phases) < Final
    BY <1>16 DEF Escape, At, PhaseInv, Caught, NotRun, Conclude, Goto
  <2> QED BY <1>1, <1>2, <1>3, <2>1 DEF PhaseInv, Working
<1>17. CASE Judge
  <2>1. pc' = "hooks" /\ UNCHANGED <<phases, exc>> /\ pc = "judge"
    BY <1>17 DEF Judge, At, Conclude, Goto
  <2> QED BY <1>1, <1>2, <1>3, <2>1 DEF PhaseInv, Working
<1>18. CASE ExitHook
  <2>1. pc' = "done" /\ UNCHANGED <<phases, exc>> /\ pc = "hooks"
    BY <1>18 DEF ExitHook, At, Goto, Restores
  <2> QED BY <1>1, <1>2, <1>3, <2>1 DEF PhaseInv, Working
<1> QED BY <1>4, <1>5, <1>6, <1>7, <1>8, <1>9, <1>10, <1>11, <1>12, <1>13, <1>14, <1>15,
           <1>16, <1>17, <1>18 DEF Next

LEMMA OwingKept ==
  ASSUME TypeOK, PhaseInv, OwingInv, Next
  PROVE  OwingInv'
<1>1. /\ Len(phases) \in Nat /\ Index = Len(phases) + 1 /\ Size \in Nat /\ Final = Size + 2
      /\ Between(Index) => Len(phases) <= Size
      /\ Guarded /\ Len(phases) < Final => Len(phases) <= Size
  BY TypeFacts, PlanIs DEF Index, Final, Between, Guarded
<1>2. Power' = Power /\ Size' = Size /\ Final' = Final
  BY PlanStays
<1>3. UNCHANGED phases => Guarded' = Guarded /\ Len(phases)' = Len(phases)
  BY PhasesStay
<1>4. CASE CheckArguments \/ CheckRange \/ NextPhase
  <2>1. /\ UNCHANGED <<phases, exc, touched, claim, open>> /\ touched = {}
        /\ pc' \in {"range", "next", "hooks", "judge", "build", "measure"}
        /\ pc' = "measure" => ~Guarded
    BY <1>4 DEF CheckArguments, CheckRange, NextPhase, At, Goto, Conclude, NotRun, OwingInv,
                guardVars
  <2> QED BY <1>1, <1>2, <1>3, <2>1 DEF OwingInv
<1>5. CASE Build
  BY <1>1, <1>2, <1>3, <1>5 DEF Build, At, Goto, Raise, OwingInv
<1>6. CASE Arm
  BY <1>1, <1>2, <1>3, <1>6 DEF Arm, At, Goto, Raise, OwingInv
<1>7. CASE LockClocks
  <2>1. /\ exc = "none" /\ UNCHANGED <<phases, claim, open>> /\ open /\ claim = "ours"
        /\ pc' \in {"restore", "cap", "measure"} /\ Guarded /\ Len(phases) < Final
    BY <1>7 DEF LockClocks, At, Goto, Raise, PhaseInv, OwingInv, Working
  <2> QED BY <1>1, <1>2, <1>3, <2>1 DEF OwingInv
<1>8. CASE SetPowerLimit
  <2>1. /\ exc = "none" /\ UNCHANGED <<phases, claim, open>> /\ open /\ claim = "ours"
        /\ pc' \in {"restore", "measure"} /\ Guarded /\ Len(phases) < Final
    BY <1>8 DEF SetPowerLimit, At, Goto, PhaseInv, OwingInv, Working
  <2> QED BY <1>1, <1>2, <1>3, <2>1 DEF OwingInv
<1>9. CASE Measure
  BY <1>1, <1>2, <1>3, <1>9 DEF Measure, At, Goto, Raise, PhaseInv, OwingInv, guardVars
<1>10. CASE Interrupt
  BY <1>1, <1>2, <1>3, <1>10 DEF Interrupt, Goto, Raise, PhaseInv, OwingInv, guardVars, Working
<1>11. CASE Restore
  <2>1. /\ pc = "restore" /\ pc' = "close" /\ UNCHANGED <<phases, open>> /\ open
        /\ claim = "ours" /\ Guarded /\ Len(phases) < Final
        /\ \/ touched' = {} /\ claim' = "none"
           \/ exc' = "restore" /\ UNCHANGED <<touched, claim>>
    BY <1>11 DEF Restore, Restores, At, Goto, OwingInv, PhaseInv, Working
  <2> QED BY <1>1, <1>2, <1>3, <2>1 DEF OwingInv
<1>12. CASE Close
  <2>1. /\ pc = "close" /\ pc' \in {"kept", "escape"} /\ UNCHANGED <<phases, claim, touched, exc>>
        /\ open' = (touched # {} /\ claim = "ours")
        /\ exc = "none" => touched = {}
        /\ pc' = "kept" => exc = "none"
    BY <1>12 DEF Close, At, Goto, StaysOpen, OwingInv
  <2> QED BY <1>1, <1>2, <1>3, <2>1 DEF OwingInv
<1>13. CASE Keep
  <2>1. /\ pc = "kept" /\ pc' \in {"next", "hooks"} /\ UNCHANGED <<claim, touched, exc, open>>
        /\ touched = {}
    BY <1>13 DEF Keep, At, Goto, NotRun, Conclude, OwingInv, guardVars
  <2> QED BY <1>2, <2>1 DEF OwingInv
<1>14. CASE Escape
  <2>1. /\ pc = "escape" /\ exc # "none" /\ pc' = "hooks"
        /\ UNCHANGED <<claim, touched, exc, open, phases>>
    BY <1>14 DEF Escape, Caught, At, Goto, NotRun, Conclude, OwingInv, PhaseInv, guardVars
  <2> QED BY <1>2, <1>3, <2>1 DEF OwingInv
<1>15. CASE Judge
  <2>1. pc = "judge" /\ touched = {} /\ pc' = "hooks" /\ UNCHANGED <<claim, touched, exc, open,
                                                                     phases>>
    BY <1>15 DEF Judge, At, Goto, Conclude, OwingInv, guardVars
  <2> QED BY <1>2, <1>3, <2>1 DEF OwingInv
<1>16. CASE ExitHook
  <2>1. /\ pc = "hooks" /\ pc' = "done" /\ UNCHANGED <<open, phases>>
        /\ \/ UNCHANGED <<touched, claim, exc>>
           \/ touched' = {} /\ UNCHANGED exc
    BY <1>16 DEF ExitHook, Restores, At, Goto
  <2> QED BY <1>2, <1>3, <2>1 DEF OwingInv
<1> QED BY <1>4, <1>5, <1>6, <1>7, <1>8, <1>9, <1>10, <1>11, <1>12, <1>13, <1>14, <1>15,
           <1>16 DEF Next

LEMMA CapKept ==
  ASSUME TypeOK, PhaseInv, OwingInv, CapInv, Next
  PROVE  CapInv'
<1> SUFFICES ASSUME (~Power \/ phases = <<>>)' PROVE dev'.cap = found.cap /\ "cap" \notin touched'
  BY PlanStays DEF CapInv
<1>1. dev \in Setting /\ Len(phases) \in Nat /\ Index = Len(phases) + 1
  BY TypeFacts DEF Index
<1>2. Power' = Power
  BY PlanStays
<1>3. ~Power \/ phases = <<>>
  <2>1. CASE Keep
    <3>1. phases \in Seq([name: PhaseName, result: Phase]) /\ phases' = Append(phases, taken)
      BY <2>1 DEF Keep, TypeOK
    <3>2. phases' # <<>>
      BY <3>1
    <3> QED BY <1>2, <3>2
  <2>2. CASE ~Keep
    <3>1. UNCHANGED phases
      BY <2>2 DEF Next, CheckArguments, CheckRange, NextPhase, Build, Arm, LockClocks,
         SetPowerLimit, Measure, Interrupt, Restore, Close, Escape, Judge, ExitHook
    <3> QED BY <1>2, <3>1
  <2> QED BY <2>1, <2>2
<1>4. dev.cap = found.cap /\ "cap" \notin touched
  BY <1>3 DEF CapInv
<1>5. ASSUME NEW e, Restores(e) PROVE dev'.cap = dev.cap /\ touched' \subseteq touched
  <2>1. Reset.cap = dev.cap
    BY <1>4 DEF Reset
  <2>2. [Reset EXCEPT !.cap = dev.cap].cap = dev.cap /\ [Reset EXCEPT !.lock = dev.lock].cap = dev.cap
    BY <2>1 DEF Reset
  <2> HIDE DEF Reset
  <2> QED BY <1>5, <2>1, <2>2 DEF Restores
<1>6. CASE LockClocks
  BY <1>1, <1>4, <1>6 DEF LockClocks, Write, Setting
<1>7. CASE SetPowerLimit
  <2>1. Len(<<>>) = 0
    OBVIOUS
  <2>2. Power /\ Len(phases) # 0
    BY <1>1, <1>7, PlanIs, TypeFacts DEF SetPowerLimit, At, PhaseInv, Between
  <2> QED BY <1>3, <2>1, <2>2
<1>8. CASE Restore
  BY <1>4, <1>5, <1>8 DEF Restore
<1>9. CASE ExitHook
  BY <1>4, <1>5, <1>9 DEF ExitHook
<1>10. CASE \/ CheckArguments \/ CheckRange \/ NextPhase \/ Build \/ Arm \/ Measure \/ Interrupt
            \/ Close \/ Keep \/ Escape \/ Judge
  BY <1>4, <1>10 DEF CheckArguments, CheckRange, NextPhase, Build, Arm, Measure, Interrupt, Close,
                    Keep, Escape, Judge, guardVars
<1> QED BY <1>6, <1>7, <1>8, <1>9, <1>10 DEF Next

LEMMA RestoreLocks ==
  ASSUME dev \in Setting, NEW e, Restores(e)
  PROVE  dev'.lock \in {0, dev.lock}
<1>1. Reset.lock \in {0, dev.lock} /\ Reset.cap = Reset.cap
  BY DEF Reset
<1>2. /\ [Reset EXCEPT !.cap = dev.cap].lock \in {0, dev.lock}
      /\ [Reset EXCEPT !.lock = dev.lock].lock \in {0, dev.lock}
  BY DEF Reset
<1> HIDE DEF Reset
<1> QED BY <1>1, <1>2 DEF Restores

LEMMA ForceKept ==
  ASSUME TypeOK, ValueInv, PhaseInv, ForceInv, Next
  PROVE  ForceInv'
<1>1. dev \in Setting /\ Power' = Power
  BY TypeFacts, PlanStays
<1>2. UNCHANGED phases => /\ Guarded' = Guarded /\ Between(Index)' = Between(Index)
                          /\ LockAsked' = LockAsked /\ CapAsked' = CapAsked
  BY PhasesStay
<1>3. CASE pc' \notin {"cap", "measure", "restore", "close", "kept"}
  BY <1>3 DEF ForceInv
<1>4. CASE NextPhase /\ pc' = "measure"
  <2>1. UNCHANGED phases /\ ~Guarded
    BY <1>4 DEF NextPhase, At, Goto
  <2> QED BY <1>2, <2>1 DEF ForceInv
<1>5. CASE Arm
  BY <1>1, <1>2, <1>5 DEF Arm, Goto, Raise, ForceInv
<1>6. CASE LockClocks
  <2>1. UNCHANGED phases /\ exc = "none"
    BY <1>6 DEF LockClocks, At, PhaseInv
  <2>2. \/ exc' # "none"
        \/ /\ dev' = [dev EXCEPT !.lock = LockAsked]
           /\ pc' = IF Power /\ Between(Index) THEN "cap" ELSE "measure"
    BY <1>6, <2>1 DEF LockClocks, Write, Goto, Raise
  <2>3. exc' # "none" \/ (dev'.lock = LockAsked /\ dev'.lock # 0)
    <3>1. exc' # "none" \/ ~(LockAsked < Floor)
      BY <1>6 DEF LockClocks, Raise
    <3>2. Floor \in Nat \ {0}
      BY RequestAssumption
    <3> QED BY <1>1, <2>2, <3>1, <3>2 DEF Setting
  <2> QED BY <1>1, <1>2, <2>1, <2>2, <2>3 DEF ForceInv
<1>7. CASE SetPowerLimit
  <2>1. UNCHANGED phases /\ exc = "none" /\ (Guarded => dev.lock = LockAsked /\ dev.lock # 0)
    BY <1>7 DEF SetPowerLimit, At, PhaseInv, ForceInv
  <2>2. exc' # "none" \/ (dev' = [dev EXCEPT !.cap = CapAsked] /\ pc' = "measure")
    BY <1>7, <2>1 DEF SetPowerLimit, Write, Goto
  <2>3. exc' # "none" \/ (dev'.cap = CapAsked /\ dev'.lock = dev.lock)
    BY <1>1, <2>2 DEF Setting
  <2> QED BY <1>1, <1>2, <2>1, <2>2, <2>3 DEF ForceInv
<1>8. CASE Measure
  BY <1>2, <1>8 DEF Measure, At, Goto, Raise, ForceInv, PhaseInv
<1>9. CASE Interrupt
  BY <1>9 DEF Interrupt, Raise, ForceInv
<1>10. CASE Restore
  <2>1. UNCHANGED phases /\ pc = "restore" /\ pc' = "close" /\ exc' \in {exc, "restore"}
    BY <1>10 DEF Restore, Restores, At, Goto
  <2>2. dev'.lock \in {0, dev.lock}
    BY <1>1, <1>10, RestoreLocks DEF Restore
  <2> QED BY <1>1, <1>2, <2>1, <2>2 DEF ForceInv
<1>11. CASE Close
  BY <1>1, <1>2, <1>11 DEF Close, At, Goto, ForceInv
<1>12. CASE pc' \in {"cap", "measure", "restore", "close", "kept"} /\ ~(NextPhase \/ Arm \/ LockClocks
              \/ SetPowerLimit \/ Measure \/ Interrupt \/ Restore \/ Close)
  BY <1>12 DEF Next, CheckArguments, CheckRange, Build, Keep, Escape, Judge, ExitHook,
               Goto, Raise, Conclude, NotRun, Caught
<1>13. NextPhase => pc' \in {"judge", "build", "measure"}
  BY DEF NextPhase, Goto
<1> QED BY <1>3, <1>4, <1>5, <1>6, <1>7, <1>8, <1>9, <1>10, <1>11, <1>12, <1>13

\* Once the last setting has been tested the card is left alone.
LEMMA DevStays ==
  ASSUME TypeOK, PhaseInv, OwingInv, Next, Len(phases) > Size
  PROVE  UNCHANGED dev
<1>1. Len(phases) \in Nat /\ Index = Len(phases) + 1 /\ Size \in Nat /\ Final = Size + 2
  BY TypeFacts, PlanIs DEF Index, Final
<1>2. Len(phases) < Final => ~Guarded
  BY <1>1 DEF Guarded, Between
<1>3. pc \notin Working
  BY <1>2 DEF PhaseInv, Working
<1>4. touched = {}
  BY DEF OwingInv
<1> QED BY <1>3, <1>4 DEF Next, CheckArguments, CheckRange, NextPhase, Build, Arm, LockClocks,
       SetPowerLimit, Measure, Interrupt, Restore, Close, Keep, Escape, Judge, ExitHook, At, Working

LEMMA LeftKept ==
  ASSUME TypeOK, PhaseInv, OwingInv, ForceInv, LeftInv, Next
  PROVE  LeftInv'
<1> SUFFICES ASSUME ~Power, Len(phases') > Size PROVE dev'.lock \in {0, Tested[Size]}
  BY PlanStays DEF LeftInv
<1>1. Len(phases) \in Nat /\ Index = Len(phases) + 1 /\ Size \in Nat /\ Final = Size + 2
  BY TypeFacts, PlanIs DEF Index, Final
<1>2. CASE Keep
  <2>1. phases \in Seq([name: PhaseName, result: Phase]) /\ phases' = Append(phases, taken)
    BY <1>2 DEF Keep, TypeOK
  <2>2. Len(phases') = Len(phases) + 1
    BY <2>1
  <2>3. pc = "kept" /\ exc = "none" /\ dev' = dev /\ Size # 0
    BY <1>2 DEF Keep, At, PhaseInv
  <2>4. CASE Len(phases) > Size
    BY <2>3, <2>4 DEF LeftInv
  <2>5. CASE Len(phases) = Size
    <3>1. Between(Index) /\ Index - 1 = Size
      BY <1>1, <2>3, <2>5 DEF Between
    <3>2. Guarded
      BY <3>1 DEF Guarded
    <3> QED BY <2>3, <3>1, <3>2 DEF ForceInv, LockAsked
  <2> QED BY <1>1, <2>2, <2>4, <2>5
<1>3. CASE ~Keep
  <2>1. UNCHANGED phases
    BY <1>3 DEF Next, CheckArguments, CheckRange, NextPhase, Build, Arm, LockClocks,
       SetPowerLimit, Measure, Interrupt, Restore, Close, Escape, Judge, ExitHook
  <2>2. UNCHANGED dev
    BY <2>1, DevStays
  <2> QED BY <2>1, <2>2 DEF LeftInv
<1> QED BY <1>2, <1>3

LEMMA MeasuredStays ==
  ASSUME [Next]_vars, NEW i, NEW p, Measured1(i, p), i # Final \/ UNCHANGED dev
  PROVE  Measured1(i, p)'
<1>1. /\ req' = req /\ found' = found /\ obeys' = obeys /\ Power' = Power /\ Size' = Size
      /\ Tested' = Tested /\ Final' = Final
  BY PlanStays
<1>2. Between(i)' = Between(i)
  BY <1>1 DEF Between
<1>3. ASSUME p.loaded
      PROVE  \E lock \in Clocks, cap \in Limits :
               /\ Under(lock, cap, p)'
               /\ Power /\ i # Final => lock = req.clock /\ lock # 0
               /\ Power /\ Between(i) => cap = Tested[i - 1]
               /\ ~Power /\ Between(i) => lock = Tested[i - 1] /\ lock # 0
               /\ ~Power => cap = found.cap
               /\ ~Power /\ i = Final => lock = dev'.lock
  <2>1. PICK lock \in Clocks, cap \in Limits :
               /\ Under(lock, cap, p)
               /\ Power /\ i # Final => lock = req.clock /\ lock # 0
               /\ Power /\ Between(i) => cap = Tested[i - 1]
               /\ ~Power /\ Between(i) => lock = Tested[i - 1] /\ lock # 0
               /\ ~Power => cap = found.cap
               /\ ~Power /\ i = Final => lock = dev.lock
    BY <1>3 DEF Measured1
  <2>2. Under(lock, cap, p)'
    BY <1>1, <2>1 DEF Under
  <2> QED BY <2>1, <2>2
<1>4. /\ Power /\ i = 1 => p.limit \in {found.cap, Unknown}
      /\ Power /\ i = Final => p.limit \in {dev'.cap, Unknown}
  BY DEF Measured1
<1> QED BY <1>1, <1>2, <1>3, <1>4 DEF Measured1

\* What is measured now is of the settings asked for.
LEMMA MeasuredNow ==
  ASSUME TypeOK, ValueInv, PhaseInv, CapInv, ForceInv, pc = "measure", NEW p, PhaseOf(p)
  PROVE  Measured1(Index, p)
<1>1. /\ Len(phases) \in Nat /\ Index = Len(phases) + 1 /\ Size \in Nat /\ Final = Size + 2
      /\ dev.lock \in Clocks /\ dev.cap \in Limits
  BY TypeFacts, PlanIs DEF Index, Final, ValueInv
<1>2. exc = "none"
  BY DEF PhaseInv
<1>3. p.limit \in {dev.cap, Unknown} /\ (p.loaded => Under(dev.lock, dev.cap, p))
  BY PhaseIs
<1>4. Between(Index) => Index # Final
  BY <1>1 DEF Between
<1>5. Power /\ Index # Final => dev.lock = req.clock /\ dev.lock # 0
  BY <1>2 DEF Guarded, ForceInv, LockAsked
<1>6. Power /\ Between(Index) => dev.cap = Tested[Index - 1]
  BY <1>2, <1>4 DEF Guarded, ForceInv, CapAsked
<1>7. ~Power /\ Between(Index) => dev.lock = Tested[Index - 1] /\ dev.lock # 0
  BY <1>2 DEF Guarded, ForceInv, LockAsked
<1>8. ~Power => dev.cap = found.cap
  BY DEF CapInv
<1>9. Power /\ Index = 1 => dev.cap = found.cap
  <2>1. Index = 1 => phases = <<>>
    <3>1. phases \in Seq([name: PhaseName, result: Phase])
      BY DEF TypeOK
    <3> QED BY <1>1, <3>1
  <2> QED BY <2>1 DEF CapInv
<1> QED BY <1>1, <1>3, <1>5, <1>6, <1>7, <1>8, <1>9 DEF Measured1

LEMMA MeasuredKept ==
  ASSUME TypeOK, ValueInv, PhaseInv, OwingInv, CapInv, ForceInv, MeasuredInv, Next
  PROVE  MeasuredInv'
<1>1. /\ Len(phases) \in Nat /\ DOMAIN phases = 1..Len(phases) /\ Index = Len(phases) + 1
      /\ Size \in Nat /\ Final = Size + 2
  BY TypeFacts, PlanIs DEF Index, Final
<1>2. ASSUME NEW i \in DOMAIN phases, NEW p, p = phases[i].result
      PROVE  Measured1(i, p)'
  <2>1. Measured1(i, p)
    BY <1>2 DEF MeasuredInv
  <2>2. i # Final \/ UNCHANGED dev
    BY <1>1, DevStays
  <2> QED BY <2>1, <2>2, MeasuredStays
<1>3. ASSUME taken # NoPhase, NEW i, i = Index, NEW p, p = taken.result
      PROVE  Measured1(i, p)'
  <2>1. Measured1(i, p)
    BY <1>3 DEF MeasuredInv
  <2>2. i # Final \/ UNCHANGED dev
    BY <1>1, <1>3, DevStays
  <2> QED BY <2>1, <2>2, MeasuredStays
<1>4. CASE Keep
  <2>1. phases \in Seq([name: PhaseName, result: Phase]) /\ phases' = Append(phases, taken)
    BY <1>4 DEF Keep, TypeOK
  <2>2. taken' = NoPhase /\ taken # NoPhase
    BY <1>4 DEF Keep, Forget, At, PhaseInv
  <2>3. /\ DOMAIN phases' = DOMAIN phases \cup {Index} /\ phases'[Index] = taken
        /\ \A i \in DOMAIN phases : phases'[i] = phases[i]
    BY <1>1, <2>1
  <2>4. ASSUME NEW i \in DOMAIN phases', NEW p, p = phases'[i].result
        PROVE  Measured1(i, p)'
    <3>1. CASE i \in DOMAIN phases
      BY <1>2, <2>3, <2>4, <3>1
    <3>2. CASE i = Index
      BY <1>3, <2>2, <2>3, <2>4, <3>2
    <3> QED BY <2>3, <3>1, <3>2
  <2> QED BY <2>2, <2>4 DEF MeasuredInv
<1>5. CASE ~Keep
  <2>1. UNCHANGED phases
    BY <1>5 DEF Next, CheckArguments, CheckRange, NextPhase, Build, Arm, LockClocks,
       SetPowerLimit, Measure, Interrupt, Restore, Close, Escape, Judge, ExitHook
  <2>2. Index' = Index
    BY <2>1 DEF Index
  <2>3. ASSUME taken' # NoPhase, NEW i, i = Index, NEW p, p = taken'.result
        PROVE  Measured1(i, p)'
    <3>1. CASE UNCHANGED taken
      BY <1>3, <2>3, <3>1
    <3>2. CASE Measure /\ ~UNCHANGED taken
      <4>1. PhaseOf(p) /\ pc = "measure" /\ UNCHANGED dev
        BY <2>3, <3>2 DEF Measure, At, Named
      <4>2. Measured1(i, p)
        BY <2>3, <4>1, MeasuredNow
      <4> QED BY <4>1, <4>2, MeasuredStays
    <3>3. ~UNCHANGED taken => Measure
      BY <1>5 DEF Next, CheckArguments, CheckRange, NextPhase, Build, Arm, LockClocks,
       SetPowerLimit, Interrupt, Restore, Close, Escape, Judge, ExitHook
    <3> QED BY <3>1, <3>2, <3>3
  <2> QED BY <1>2, <2>1, <2>2, <2>3 DEF MeasuredInv
<1> QED BY <1>4, <1>5

LEMMA TypeKept ==
  ASSUME TypeOK, ValueInv, PhaseInv, Next
  PROVE  TypeOK'
<1>1. req' = req /\ obeys' = obeys /\ found' = found /\ Final' = Final
  BY PlanStays
<1>2. dev' \in Setting /\ snap' \in Nat
  BY ValueKept
<1>3. /\ Len(phases) \in Nat /\ Index = Len(phases) + 1 /\ DOMAIN phases = 1..Len(phases)
      /\ Len(phases) <= Final /\ Size \in Nat /\ Final = Size + 2 /\ req \in Requests
  BY TypeFacts, PlanIs DEF Index, TypeOK, Final
<1>4. \A i : Name(i)' = Name(i)
  BY PlanStays DEF Name
<1>5. Measure \/ Keep \/ UNCHANGED <<phases, taken>>
  BY DEF Next, CheckArguments, CheckRange, NextPhase, Build, Arm, LockClocks,
     SetPowerLimit, Interrupt, Restore, Close, Escape, Judge, ExitHook
<1>6. /\ phases \in Seq([name: PhaseName, result: Phase])
      /\ \A i \in DOMAIN phases : phases[i].name = Name(i)
      /\ taken \in [name: {Name(Index)}, result: Phase] \cup {NoPhase}
  BY DEF TypeOK
<1>7. /\ Len(phases') <= Final /\ phases' \in Seq([name: PhaseName, result: Phase])
      /\ \A i \in DOMAIN phases' : phases'[i].name = Name(i)
      /\ taken' \in [name: {Name(Index)'}, result: Phase] \cup {NoPhase}
  <2>1. CASE UNCHANGED <<phases, taken>>
    <3>1. Name(Index)' = Name(Index)
      BY <2>1, PhasesStay
    <3> QED BY <1>3, <1>6, <2>1, <3>1
  <2>2. CASE Measure
    <3>1. Name(Index)' = Name(Index) /\ UNCHANGED phases
      BY <2>2, PhasesStay DEF Measure
    <3>2. taken' = taken \/ \E p : PhaseOf(p) /\ taken' = Named(p)
      BY <2>2 DEF Measure
    <3>3. \A p : PhaseOf(p) => p \in Phase
      BY PhaseIs
    <3>4. taken' = taken \/ taken' \in [name: {Name(Index)}, result: Phase]
      BY <3>2, <3>3 DEF Named
    <3> QED BY <1>3, <1>6, <3>1, <3>4
  <2>3. CASE Keep
    <3>1. phases' = Append(phases, taken) /\ taken' = NoPhase /\ taken # NoPhase /\ Len(phases) < Final
      BY <2>3 DEF Keep, Forget, At, PhaseInv
    <3>2. Name(Index) \in PhaseName
      BY <1>3, <3>1, NameIs
    <3>3. taken \in [name: PhaseName, result: Phase]
      BY <1>6, <3>1, <3>2
    <3>4. /\ phases' \in Seq([name: PhaseName, result: Phase]) /\ Len(phases') = Len(phases) + 1
          /\ DOMAIN phases' = DOMAIN phases \cup {Index} /\ phases'[Index] = taken
          /\ \A i \in DOMAIN phases : phases'[i] = phases[i]
      BY <1>3, <1>6, <3>1, <3>3
    <3> QED BY <1>3, <1>6, <3>1, <3>4
  <2> QED BY <1>5, <2>1, <2>2, <2>3
<1>8. claim' \in {"none", "ours", "other"} /\ default' \in BOOLEAN
  <2>1. claim \in {"none", "ours", "other"} /\ default \in BOOLEAN
    BY DEF TypeOK
  <2>2. claim' \in {claim, "none", "ours"} /\ default' \in {default, FALSE}
    BY DEF Next, CheckArguments, CheckRange, NextPhase, Build, Arm, LockClocks, SetPowerLimit,
       Measure, Interrupt, Restore, Restores, Close, Keep, Escape, Judge, ExitHook, guardVars, runVars
  <2> QED BY <2>1, <2>2
<1>9. /\ touched' \subseteq {"lock", "cap"} /\ open' \in BOOLEAN
      /\ exc' \in Exceptions
  <2>1. /\ touched \subseteq {"lock", "cap"} /\ open \in BOOLEAN
        /\ exc \in Exceptions
    BY DEF TypeOK
  <2>2. touched' \subseteq touched \cup {"lock", "cap"}
    BY DEF Next, CheckArguments, CheckRange, NextPhase, Build, Arm, LockClocks, SetPowerLimit,
       Measure, Interrupt, Restore, Restores, Close, Keep, Escape, Judge, ExitHook, guardVars, Write
  <2>3. exc' \in {exc, "guard", "restore", "other", "interrupt"}
    BY DEF Next, CheckArguments, CheckRange, NextPhase, Build, Arm, LockClocks, SetPowerLimit,
       Measure, Interrupt, Restore, Restores, Close, Keep, Escape, Judge, ExitHook, Write, Raise
  <2>4. open' \in {open, TRUE, StaysOpen}
    BY DEF Next, CheckArguments, CheckRange, NextPhase, Build, Arm, LockClocks, SetPowerLimit,
       Measure, Interrupt, Restore, Close, Keep, Escape, Judge, ExitHook, guardVars
  <2> QED BY <2>1, <2>2, <2>3, <2>4 DEF StaysOpen, Exceptions
<1>10. pc' \in Labels
  BY DEF Next, CheckArguments, CheckRange, NextPhase, Build, Arm, LockClocks, SetPowerLimit,
     Measure, Interrupt, Restore, Close, Keep, Escape, Caught, Judge, ExitHook, Goto, Raise,
     Conclude, NotRun, Labels
<1>11. artifact' \in {artifact, "NOT RUN", "RESTORE FAILED"} \cup Verdicts
       /\ code' \in {code, 0, 1, 2, 3, 130}
  <2>1. \A r : ExitCode(r) \in {0, 1, 3}
    BY DEF ExitCode
  <2>2. CASE Judge
    BY <2>1, <2>2, VerdictIs DEF Judge, Conclude
  <2>3. CASE ~Judge
    BY <2>3 DEF Next, CheckArguments, CheckRange, NextPhase, Build, Arm, LockClocks, SetPowerLimit,
       Measure, Interrupt, Restore, Close, Keep, Escape, Caught, ExitHook, Conclude, NotRun, endVars
  <2> QED BY <2>2, <2>3
<1>12. faults' \in 0..MaxFaults
  <2>1. faults \in 0..MaxFaults /\ MaxFaults \in Nat
    BY RequestAssumption DEF TypeOK
  <2>2. Failing \/ UNCHANGED faults
    BY DEF Next, CheckArguments, CheckRange, NextPhase, Build, Arm, LockClocks, SetPowerLimit,
       Measure, PhaseOf, Interrupt, Restore, Restores, Close, Keep, Escape, Judge, ExitHook,
       Succeeds, Write
  <2> QED BY <2>1, <2>2 DEF Failing
<1>13. /\ req \in Requests /\ found \in Setting /\ obeys \in [lock: BOOLEAN, cap: BOOLEAN]
       /\ artifact \in Artifacts
       /\ code \in Codes
  BY DEF TypeOK
<1>14. /\ artifact' \in Artifacts
       /\ code' \in Codes
  <2>1. code' \in Codes
    BY <1>11, <1>13 DEF Codes
  <2>2. artifact' \in {artifact, "NOT RUN", "RESTORE FAILED"} \/ artifact' \in Verdicts
    BY <1>11
  <2> QED BY <1>13, <2>1, <2>2 DEF Verdicts, Artifacts
<1> QED BY <1>1, <1>2, <1>4, <1>7, <1>8, <1>9, <1>10, <1>12, <1>13, <1>14 DEF TypeOK

LEMMA VerdictKept ==
  ASSUME TypeOK, PhaseInv, VerdictInv, Next
  PROVE  VerdictInv'
<1>1. /\ Power' = Power /\ Size' = Size /\ Final' = Final /\ Tested' = Tested /\ req' = req
  BY PlanStays
<1>2. /\ Len(phases) \in Nat /\ Size \in Nat /\ Final = Size + 2
  BY TypeFacts, PlanIs DEF Final
<1>3. UNCHANGED phases => JudgePhases(phases)' = JudgePhases(phases)
  BY <1>1 DEF JudgePhases
<1>4. ExitCode(artifact)' = ExitCode(artifact')
  BY <1>1 DEF ExitCode
<1>5. pc \notin {"hooks", "done"} => artifact = "none" /\ code = Unknown
  BY DEF VerdictInv
<1>6. CASE UNCHANGED endVars /\ pc \notin {"hooks", "done"}
  <2>1. artifact' = "none" /\ code' = Unknown
    BY <1>5, <1>6 DEF endVars
  <2> QED BY <2>1 DEF VerdictInv
<1>7. CASE CheckArguments /\ ~UNCHANGED endVars
  BY <1>5, <1>7 DEF CheckArguments, At, Goto, endVars, VerdictInv
<1>8. CASE CheckRange /\ ~UNCHANGED endVars
  <2>1. /\ artifact' = "NOT RUN" /\ code' = 2 /\ pc' = "hooks" /\ UNCHANGED phases /\ phases = <<>>
    BY <1>8 DEF CheckRange, NotRun, Conclude, Goto, PhaseInv, At, endVars
  <2>2. Len(<<>>) = 0 /\ phases' = <<>>
    BY <2>1
  <2>3. Len(phases') < Final'
    BY <1>1, <1>2, <2>2
  <2> QED BY <2>1, <2>3 DEF VerdictInv
<1>9. CASE Keep /\ ~UNCHANGED endVars
  <2>1. /\ artifact' = "NOT RUN" /\ code' = 2 /\ pc' = "hooks" /\ Index = 1 /\ pc = "kept"
    BY <1>9 DEF Keep, NotRun, Conclude, Goto, At, endVars
  <2>2. phases \in Seq([name: PhaseName, result: Phase]) /\ phases' = Append(phases, taken)
    BY <1>9 DEF Keep, TypeOK
  <2>3. Len(phases') = Len(phases) + 1
    BY <2>2
  <2>4. Size # 0 /\ Len(phases) = 0
    <3>1. Size # 0
      BY <2>1 DEF PhaseInv
    <3>2. Len(phases) + 1 = 1
      BY <2>1 DEF Index
    <3> QED BY <1>2, <3>1, <3>2
  <2>5. Len(phases') < Final'
    BY <1>1, <1>2, <2>3, <2>4
  <2> QED BY <2>1, <2>5 DEF VerdictInv
<1>10. CASE Escape
  <2>1. /\ UNCHANGED <<phases, exc>> /\ Len(phases) < Final /\ exc # "none" /\ pc = "escape"
        /\ pc' = "hooks"
        /\ \/ artifact' = "NOT RUN" /\ code' = 2
           \/ artifact' = "RESTORE FAILED"
           \/ artifact' = artifact
    BY <1>10 DEF Escape, Caught, NotRun, Conclude, Goto, PhaseInv, At
  <2> QED BY <1>1, <1>5, <2>1 DEF VerdictInv
<1>11. CASE Judge
  <2>1. /\ UNCHANGED phases /\ Len(phases) = Final /\ pc' = "hooks"
        /\ artifact' = JudgePhases(phases) /\ code' = ExitCode(JudgePhases(phases))
    BY <1>11 DEF Judge, Conclude, Goto, PhaseInv, At
  <2> QED BY <1>1, <1>3, <1>4, <2>1 DEF VerdictInv
<1>12. CASE ExitHook
  <2>1. UNCHANGED <<phases, exc, artifact, code>> /\ pc' = "done"
    BY <1>12 DEF ExitHook, Restores, endVars, Goto
  <2> QED BY <1>1, <1>3, <1>4, <2>1 DEF VerdictInv
<1>13. CASE UNCHANGED endVars /\ pc \in {"hooks", "done"} /\ ~ExitHook
  BY <1>13 DEF Next, CheckArguments, CheckRange, NextPhase, Build, Arm, LockClocks, SetPowerLimit,
     Measure, Interrupt, Restore, Close, Keep, Escape, Judge, At
<1>14. UNCHANGED endVars \/ CheckArguments \/ CheckRange \/ Keep \/ Escape \/ Judge \/ ExitHook
  BY DEF Next, NextPhase, Build, Arm, LockClocks, SetPowerLimit, Measure, Interrupt, Restore, Close
<1> QED BY <1>6, <1>7, <1>8, <1>9, <1>10, <1>11, <1>12, <1>13, <1>14

\* The invariant of a run of a gate: what was measured was measured under the
\* settings of its phase, and a file says what the phases say.
THEOREM GateInductive == Spec => []VInv
<1>1. VInv /\ [Next]_vars => VInv'
  <2> SUFFICES ASSUME VInv, [Next]_vars PROVE VInv'
    OBVIOUS
  <2>1. CASE Next
    <3>1. /\ TypeOK /\ ValueInv /\ PhaseInv /\ OwingInv /\ CapInv /\ ForceInv /\ LeftInv
          /\ MeasuredInv /\ VerdictInv
      BY DEF VInv
    <3>2. TypeOK' /\ ValueInv' /\ PhaseInv'
      BY <2>1, <3>1, TypeKept, ValueKept, PhaseKept
    <3>3. OwingInv' /\ CapInv' /\ ForceInv' /\ LeftInv'
      BY <2>1, <3>1, OwingKept, CapKept, ForceKept, LeftKept
    <3>4. MeasuredInv' /\ VerdictInv'
      BY <2>1, <3>1, MeasuredKept, VerdictKept
    <3> QED BY <3>2, <3>3, <3>4 DEF VInv
  <2>2. CASE UNCHANGED vars
    <3>1. /\ UNCHANGED <<req, dev, found, obeys, claim, default, phases, taken, pc, exc, snap>>
          /\ UNCHANGED <<touched, open, artifact, code, faults>>
      BY <2>2 DEF vars, runVars, guardVars, endVars
    <3>2. /\ Index' = Index /\ Guarded' = Guarded /\ Between(Index)' = Between(Index)
          /\ LockAsked' = LockAsked /\ CapAsked' = CapAsked
          /\ Name(Index)' = Name(Index)
      BY <3>1, PhasesStay
    <3>3. Power' = Power /\ Size' = Size /\ Tested' = Tested /\ Final' = Final
      BY PlanStays
    <3>4. \A i : Name(i)' = Name(i)
      BY <3>3 DEF Name
    <3>5. TypeOK'
      <4>1. TypeOK
        BY DEF VInv
      <4>2. /\ taken' \in [name: {Name(Index)'}, result: Phase] \cup {NoPhase}
            /\ \A i \in DOMAIN phases' : phases'[i].name = Name(i)'
            /\ Len(phases') <= Final' /\ phases' \in Seq([name: PhaseName, result: Phase])
        BY <3>1, <3>2, <3>3, <3>4, <4>1 DEF TypeOK
      <4>3. /\ req' \in Requests /\ {dev', found'} \subseteq Setting
            /\ obeys' \in [lock: BOOLEAN, cap: BOOLEAN]
            /\ claim' \in {"none", "ours", "other"} /\ default' \in BOOLEAN
            /\ snap' \in Nat /\ touched' \subseteq {"lock", "cap"} /\ open' \in BOOLEAN
            /\ faults' \in 0..MaxFaults
        BY <3>1, <4>1 DEF TypeOK
      <4>4. /\ pc' \in Labels
            /\ exc' \in Exceptions
            /\ artifact' \in Artifacts
            /\ code' \in Codes
        BY <3>1, <4>1 DEF TypeOK
      <4> QED BY <4>2, <4>3, <4>4 DEF TypeOK
    <3>8. ValueInv'
      BY <3>1 DEF VInv, ValueInv
    <3>6. PhaseInv' /\ OwingInv' /\ CapInv' /\ ForceInv' /\ LeftInv'
      BY <3>1, <3>2, <3>3 DEF VInv, PhaseInv, OwingInv, CapInv, ForceInv, LeftInv
    <3>7. MeasuredInv'
      <4>1. MeasuredInv
        BY DEF VInv
      <4>2. ASSUME NEW i, NEW p, Measured1(i, p) PROVE Measured1(i, p)'
        BY <3>1, <4>2, MeasuredStays
      <4>3. ASSUME NEW i \in DOMAIN phases', NEW p, p = phases'[i].result PROVE Measured1(i, p)'
        BY <3>1, <4>1, <4>2, <4>3 DEF MeasuredInv
      <4>4. ASSUME taken' # NoPhase, NEW i, i = Index', NEW p, p = taken'.result PROVE Measured1(i, p)'
        BY <3>1, <3>2, <4>1, <4>2, <4>4 DEF MeasuredInv
      <4> QED BY <4>3, <4>4 DEF MeasuredInv
    <3>9. VerdictInv'
      <4>1. JudgePhases(phases)' = JudgePhases(phases) /\ ExitCode(artifact)' = ExitCode(artifact)
        BY <3>1, <3>3 DEF JudgePhases, ExitCode
      <4> QED BY <3>1, <3>3, <4>1 DEF VInv, VerdictInv
    <3> QED BY <3>5, <3>6, <3>7, <3>8, <3>9 DEF VInv
  <2> QED BY <2>1, <2>2
<1> QED BY InitEstablishes, <1>1, PTL DEF Spec

-----------------------------------------------------------------------------
(* The card *)

\* What the verdicts other than LOCK WORKS and CAP WORKS rest on.
LEMMA LockVerdictMeans ==
  ASSUME NEW base, NEW locked, NEW rec, NEW targets
  PROVE  /\ JudgeClock(base, locked, rec, targets) \notin {"CAP WORKS", "CAP IS A NO-OP", "NOT RUN", "none"}
         /\ JudgeClock(base, locked, rec, targets) \in {"LOCK WORKS", "LOCK IS A NO-OP"} =>
              base.loaded /\ rec.loaded /\ \A i \in DOMAIN locked : locked[i].loaded
         /\ JudgeClock(base, locked, rec, targets) = "LOCK WORKS" =>
              \E i \in Testable(base, targets) : Changed(base, locked, i)
         /\ JudgeClock(base, locked, rec, targets) = "LOCK IS A NO-OP" =>
              /\ Testable(base, targets) # {}
              /\ \A i \in Testable(base, targets) : ~Changed(base, locked, i)
<1> DEFINE v == JudgeClock(base, locked, rec, targets)
           T == Testable(base, targets)
           loaded == base.loaded /\ rec.loaded /\ \A i \in DOMAIN locked : locked[i].loaded
<1>1. \/ v = "INCONCLUSIVE"
      \/ v = "RESTORE FAILED"
      \/ loaded /\ T # {} /\ (\A i \in T : ~Changed(base, locked, i)) /\ v = "LOCK IS A NO-OP"
      \/ v = "PARTIAL"
      \/ loaded /\ ~(\A i \in T : ~Changed(base, locked, i)) /\ v = "LOCK WORKS"
  BY DEF JudgeClock
<1> HIDE DEF v, T, loaded
<1>2. /\ v \notin {"CAP WORKS", "CAP IS A NO-OP", "NOT RUN", "none"}
      /\ v \in {"LOCK WORKS", "LOCK IS A NO-OP"} => loaded
      /\ v = "LOCK WORKS" => \E i \in T : Changed(base, locked, i)
      /\ v = "LOCK IS A NO-OP" => T # {} /\ \A i \in T : ~Changed(base, locked, i)
  BY <1>1
<1> QED BY <1>2 DEF v, T, loaded

LEMMA CapVerdictMeans ==
  ASSUME NEW base, NEW capped, NEW rec, NEW caps, NEW clock
  PROVE  LET v == JudgePower(base, capped, rec, caps, clock)
             bind == CanBind(base, caps)
         IN  /\ v \notin {"LOCK WORKS", "LOCK IS A NO-OP", "NOT RUN", "none"}
             /\ v \in {"CAP WORKS", "CAP IS A NO-OP"} => bind # {} /\ Measured(base, capped, rec)
             /\ v = "CAP WORKS" => /\ Within(base.mhz, clock, ClockMargin)
                                   /\ \A i \in bind : Responded(base, capped, caps, i)
             /\ v = "CAP IS A NO-OP" => \A i \in bind : ~Responded(base, capped, caps, i)
<1> DEFINE v == JudgePower(base, capped, rec, caps, clock)
           e == Efficacy(base, capped, caps)
           bind == CanBind(base, caps)
           idle == {i \in bind : ~Responded(base, capped, caps, i)}
<1>1. \/ e = "REFUSED BY DEVICE"
      \/ e = "INCONCLUSIVE"
      \/ bind # {} /\ idle = bind /\ e = "CAP IS A NO-OP"
      \/ e = "PARTIAL"
      \/ bind # {} /\ idle = {} /\ e = "CAP WORKS"
  BY DEF Efficacy
<1>2. \/ v \in {"INCONCLUSIVE", "RESTORE FAILED", "RESTORE UNVERIFIED"}
      \/ Measured(base, capped, rec) /\ Within(base.mhz, clock, ClockMargin) /\ v = e
  <2>1. /\ LimitVerdict(base, rec) \in {"RESTORE FAILED", "RESTORE UNVERIFIED", "fine"}
        /\ ControlVerdict(base, rec, clock) \in {"RESTORE FAILED", "INCONCLUSIVE", "fine"}
        /\ ControlVerdict(base, rec, clock) = "fine" => Within(base.mhz, clock, ClockMargin)
    BY DEF LimitVerdict, ControlVerdict
  <2> HIDE DEF e
  <2>2. \/ LimitVerdict(base, rec) # "fine" /\ v = LimitVerdict(base, rec)
        \/ v = "INCONCLUSIVE"
        \/ ControlVerdict(base, rec, clock) # "fine" /\ v = ControlVerdict(base, rec, clock)
        \/ ControlVerdict(base, rec, clock) = "fine" /\ Measured(base, capped, rec) /\ v = e
    BY DEF JudgePower, e
  <2> HIDE DEF v
  <2> QED BY <2>1, <2>2
<1>3. /\ idle = bind => \A i \in bind : ~Responded(base, capped, caps, i)
      /\ idle = {} => \A i \in bind : Responded(base, capped, caps, i)
  OBVIOUS
<1> HIDE DEF v, e, bind, idle
<1>4. /\ v \notin {"LOCK WORKS", "LOCK IS A NO-OP", "NOT RUN", "none"}
      /\ v \in {"CAP WORKS", "CAP IS A NO-OP"} => bind # {} /\ Measured(base, capped, rec)
      /\ v = "CAP WORKS" => /\ Within(base.mhz, clock, ClockMargin)
                            /\ \A i \in bind : Responded(base, capped, caps, i)
      /\ v = "CAP IS A NO-OP" => \A i \in bind : ~Responded(base, capped, caps, i)
  BY <1>1, <1>2, <1>3
<1> QED BY <1>4 DEF v, bind

\* A complete run: its phases and what they were measured under.
LEMMA Complete ==
  ASSUME VInv, Len(phases) = Final
  PROVE  /\ Size \in Nat /\ Final = Size + 2
         /\ \A i \in 1..Final : /\ phases[i].name = Name(i) /\ phases[i].result \in Phase
                                /\ Measured1(i, phases[i].result)
         /\ \A i \in 1..Size : i + 1 \in 1..Final /\ Between(i + 1) /\ i + 1 # Final /\ i + 1 # 1
         /\ 1 \in 1..Final /\ Final \in 1..Final /\ Final # 1
         /\ ~Between(1) /\ ~Between(Final)
<1>1. TypeOK /\ MeasuredInv
  BY DEF VInv
<1>2. /\ Size \in Nat /\ Final = Size + 2 /\ DOMAIN phases = 1..Final
      /\ \A i \in DOMAIN phases : phases[i].result \in Phase
  BY <1>1, TypeFacts, PlanIs DEF Final
<1>3. \A i \in DOMAIN phases : phases[i].name = Name(i)
  BY <1>1 DEF TypeOK
<1>4. \A i \in DOMAIN phases : Measured1(i, phases[i].result)
  BY <1>1 DEF MeasuredInv
<1> QED BY <1>2, <1>3, <1>4 DEF Between

\* What the loaded phases of a complete run were measured under.
LEMMA MeasuredUnder ==
  ASSUME VInv, Len(phases) = Final
  PROVE  /\ \A i \in 1..Size : phases[i + 1].result.loaded =>
              \E lock \in Clocks, cap \in Limits :
                /\ Under(lock, cap, phases[i + 1].result)
                /\ Power => lock = req.clock /\ lock # 0 /\ cap = Tested[i]
                /\ ~Power => cap = found.cap /\ lock = Tested[i] /\ lock # 0
         /\ phases[1].result.loaded =>
              \E lock \in Clocks, cap \in Limits :
                /\ Under(lock, cap, phases[1].result)
                /\ Power => lock = req.clock /\ lock # 0
                /\ ~Power => cap = found.cap
         /\ phases[Final].result.loaded =>
              \E lock \in Clocks, cap \in Limits :
                /\ Under(lock, cap, phases[Final].result)
                /\ ~Power => cap = found.cap /\ lock = dev.lock
<1>1. ASSUME NEW i \in 1..Size, phases[i + 1].result.loaded
      PROVE  \E lock \in Clocks, cap \in Limits :
               /\ Under(lock, cap, phases[i + 1].result)
               /\ Power => lock = req.clock /\ lock # 0 /\ cap = Tested[i]
               /\ ~Power => cap = found.cap /\ lock = Tested[i] /\ lock # 0
  <2>1. PICK j \in 1..Final : j = i + 1 /\ Between(j) /\ j # Final /\ j # 1
    BY Complete
  <2>2. Measured1(j, phases[j].result) /\ j - 1 = i /\ phases[j].result.loaded
    BY <1>1, <2>1, Complete
  <2>3. \E lock \in Clocks, cap \in Limits :
          /\ Under(lock, cap, phases[j].result)
          /\ Power => lock = req.clock /\ lock # 0 /\ cap = Tested[j - 1]
          /\ ~Power => cap = found.cap /\ lock = Tested[j - 1] /\ lock # 0
    BY <2>1, <2>2 DEF Measured1
  <2> QED BY <2>1, <2>2, <2>3
<1>2. Measured1(1, phases[1].result) /\ Measured1(Final, phases[Final].result) /\ Final # 1
  BY Complete
<1>3. phases[1].result.loaded =>
        \E lock \in Clocks, cap \in Limits :
          /\ Under(lock, cap, phases[1].result)
          /\ Power => lock = req.clock /\ lock # 0
          /\ ~Power => cap = found.cap
  BY <1>2 DEF Measured1
<1>4. phases[Final].result.loaded =>
        \E lock \in Clocks, cap \in Limits :
          /\ Under(lock, cap, phases[Final].result)
          /\ ~Power => cap = found.cap /\ lock = dev.lock
  BY <1>2 DEF Measured1
<1> QED BY <1>1, <1>3, <1>4

\* A verdict on the card is the judge's.
LEMMA Concluded ==
  ASSUME VInv, artifact \in Verdicts, artifact # "RESTORE FAILED" \/ exc = "none"
  PROVE  Len(phases) = Final /\ artifact = JudgePhases(phases) /\ code = ExitCode(artifact)
  BY DEF VInv, VerdictInv, Verdicts

\* Without a lock that it obeys, the card drifts.
LEMMA Drifts ==
  ASSUME NEW lock, NEW p, Under(lock, found.cap, p), ~(obeys.lock /\ lock # 0)
  PROVE  p.mhz \in Unlocked
<1>1. PICK boost \in Boosts :
        p.mhz = IF obeys.cap /\ Draw(boost) > found.cap THEN Top(found.cap) ELSE boost
  BY DEF Under
<1> QED BY <1>1 DEF Unlocked, Slowed

\* A lock that is obeyed is held where the cap allows it.
LEMMA HeldClock ==
  ASSUME obeys.lock, NEW lock, lock # 0, NEW p, Under(lock, found.cap, p), ~Slowed(lock)
  PROVE  p.mhz = lock
<1>1. PICK boost \in Boosts :
        LET free == IF obeys.lock /\ lock # 0 THEN lock ELSE boost
            held == obeys.cap /\ Draw(free) > found.cap
        IN  p.mhz = IF held THEN Top(found.cap) ELSE free
  BY DEF Under
<1> QED BY <1>1 DEF Slowed

\* Where the lock is not obeyed, the targets were met by the drift.
LEMMA LockTold ==
  ASSUME VInv
  PROVE  /\ artifact = "LOCK WORKS" =>
              obeys.lock \/ MetByDrift(Testable(phases[1].result, Targets), Targets)
         /\ artifact = "LOCK IS A NO-OP" =>
              ~obeys.lock \/ \A i \in Testable(phases[1].result, Targets) : Slowed(Targets[i])
<1> SUFFICES ASSUME artifact \in {"LOCK WORKS", "LOCK IS A NO-OP"}
             PROVE  /\ artifact = "LOCK WORKS" =>
                         obeys.lock \/ MetByDrift(Testable(phases[1].result, Targets), Targets)
                    /\ artifact = "LOCK IS A NO-OP" =>
                         ~obeys.lock
                           \/ \A i \in Testable(phases[1].result, Targets) : Slowed(Targets[i])
  OBVIOUS
<1> DEFINE base == phases[1].result
           middle == [i \in 1..Size |-> phases[i + 1].result]
           rec == phases[Final].result
           T == Testable(base, Targets)
<1>1. Len(phases) = Final /\ artifact = JudgePhases(phases)
  BY Concluded DEF Verdicts
<1>2. ~Power
  BY <1>1, CapVerdictMeans DEF JudgePhases
<1>3. artifact = JudgeClock(base, middle, rec, Targets) /\ Tested = Targets
  BY <1>1, <1>2 DEF JudgePhases, Tested
<1>4. T \subseteq 1..Size
  <2>1. TypeOK
    BY DEF VInv
  <2>2. DOMAIN Targets = 1..Size
    BY <1>3, <2>1, PlanIs DEF TypeOK
  <2> QED BY <2>2 DEF Testable
<1>5. ASSUME NEW i \in T
      PROVE  /\ Under(Targets[i], found.cap, middle[i]) /\ Targets[i] # 0
             /\ middle[i].mhz = phases[i + 1].result.mhz
  <2>1. i \in 1..Size /\ i \in DOMAIN middle
    BY <1>4
  <2>2. middle[i].loaded
    <3> HIDE DEF base, middle, rec
    <3> QED BY <1>3, <2>1, LockVerdictMeans
  <2>3. phases[i + 1].result.loaded
    BY <2>1, <2>2
  <2>4. PICK lock \in Clocks, cap \in Limits :
          /\ Under(lock, cap, phases[i + 1].result) /\ cap = found.cap
          /\ lock = Tested[i] /\ lock # 0
    BY <1>1, <1>2, <2>1, <2>3, MeasuredUnder
  <2> QED BY <1>3, <2>1, <2>4
<1>6. ASSUME artifact = "LOCK WORKS", ~obeys.lock PROVE MetByDrift(T, Targets)
  <2> DEFINE met == [i \in T |-> middle[i].mhz]
  <2>1. \A i \in T : middle[i].mhz \in Unlocked
    <3> HIDE DEF middle, T
    <3> QED BY <1>5, <1>6, Drifts
  <2>2. met \in [T -> Unlocked]
    BY <2>1
  <2>3. (\A i \in T : Near(middle, Targets, i)) /\ Separated(middle, T)
    <3> HIDE DEF base, middle, rec
    <3> QED BY <1>3, <1>6, LockWorksMeans
  <2>4. \A i \in T : Within(met[i], Targets[i], Tolerance)
    <3> HIDE DEF middle, T
    <3> QED BY <2>3 DEF Near
  <2>5. \A i, j \in T : i # j => ~Within(met[i], met[j], Tolerance)
    <3> HIDE DEF middle, T
    <3> QED BY <2>3 DEF Separated
  <2> HIDE DEF met, T
  <2> QED BY <2>2, <2>4, <2>5 DEF MetByDrift
<1>7. ASSUME artifact = "LOCK IS A NO-OP", obeys.lock, NEW i \in T, ~Slowed(Targets[i])
      PROVE  FALSE
  <2>1. ~Changed(base, middle, i)
    <3> HIDE DEF base, middle, rec
    <3> QED BY <1>3, <1>7, LockVerdictMeans DEF T
  <2>2. middle[i].mhz = Targets[i]
    <3> HIDE DEF middle, T
    <3> QED BY <1>5, <1>7, HeldClock
  <2> HIDE DEF base, middle
  <2> QED BY <1>7, <2>1, <2>2 DEF Changed, T, Testable
<1> QED BY <1>6, <1>7

\* Under a cap that is obeyed, no more is drawn.
LEMMA CapHolds ==
  ASSUME NEW lock \in Clocks, NEW cap \in Nat, NEW p, Under(lock, cap, p), obeys.cap
  PROVE  p.peak <= cap
<1>1. PICK boost \in Boosts :
        LET free == IF obeys.lock /\ lock # 0 THEN lock ELSE boost
            held == obeys.cap /\ Draw(free) > cap
        IN  p.peak = IF held THEN cap ELSE Draw(free)
  BY DEF Under
<1>2. boost \in Clocks
  BY DEF Clocks
<1>3. Draw(lock) \in Int /\ Draw(boost) \in Int
  BY <1>2, RequestAssumption
<1> QED BY <1>1, <1>3

\* Where caps are not obeyed, phases under one lock that is obeyed are alike.
LEMMA CapIgnored ==
  ASSUME EnforceMargin <= BindMargin, NEW lock \in Clocks, lock \in Nat, NEW cap, NEW other,
         NEW p, NEW q, Under(lock, cap, p), Under(lock, other, q),
         ~obeys.cap, obeys.lock, lock # 0
  PROVE  ~(p.mhz - q.mhz > ClockMargin) /\ ~(p.peak - q.peak > BindMargin - EnforceMargin)
<1>1. /\ p.mhz = lock /\ p.peak = Draw(lock)
      /\ q.mhz = lock /\ q.peak = Draw(lock)
  BY DEF Under
<1>2. ClockMargin \in Nat /\ BindMargin \in Nat /\ EnforceMargin \in Nat /\ Draw(lock) \in Int
  BY MarginAssumption, RequestAssumption
<1>3. ~(lock - lock > ClockMargin) /\ ~(Draw(lock) - Draw(lock) > BindMargin - EnforceMargin)
  BY <1>2
<1> QED BY <1>1, <1>3

\* Where neither is, the card drifts.
LEMMA NothingHeld ==
  ASSUME NEW lock, NEW cap, NEW p, Under(lock, cap, p), ~obeys.cap, ~obeys.lock
  PROVE  p.mhz \in Boosts
BY DEF Under

\* What it takes to respond: a cap that can bind needs more than the spread of
\* the unlocked card.
LEMMA RespondsWhen ==
  ASSUME NEW base \in Phase, NEW capped, NEW caps, NEW i \in CanBind(base, caps),
         capped[i] \in Phase, caps[i] \in Nat
  PROVE  /\ capped[i].peak <= caps[i] => Responded(base, capped, caps, i)
         /\ Responded(base, capped, caps, i) =>
              \/ base.mhz - capped[i].mhz > ClockMargin
              \/ base.peak - capped[i].peak > BindMargin - EnforceMargin
<1> DEFINE w == caps[i]
           p == capped[i].peak
           m == base.mhz - capped[i].mhz
<1>1. p \in Int /\ base.peak \in Int /\ BindMargin \in Nat /\ EnforceMargin \in Nat
  BY MarginAssumption DEF Phase
<1>2. w \in Nat /\ w < base.peak - BindMargin
  BY DEF CanBind
<1>3. Responded(base, capped, caps, i) <=> (m > ClockMargin \/ p <= w + EnforceMargin)
  BY DEF Responded
<1> HIDE DEF w, p, m
<1>4. p <= w => p <= w + EnforceMargin
  BY <1>1, <1>2
<1>5. p <= w + EnforceMargin => base.peak - p > BindMargin - EnforceMargin
  BY <1>1, <1>2
<1>6. /\ p <= w => Responded(base, capped, caps, i)
      /\ Responded(base, capped, caps, i) =>
           m > ClockMargin \/ base.peak - p > BindMargin - EnforceMargin
  BY <1>3, <1>4, <1>5
<1> QED BY <1>6 DEF w, p, m

LEMMA CapTold ==
  ASSUME EnforceMargin <= BindMargin, VInv
  PROVE  /\ artifact = "CAP WORKS" =>
              \/ obeys.cap
              \/ ~obeys.lock /\ \E b \in Boosts : Within(b, req.clock, ClockMargin)
         /\ artifact = "CAP IS A NO-OP" => ~obeys.cap
<1> SUFFICES ASSUME artifact \in {"CAP WORKS", "CAP IS A NO-OP"}
             PROVE  /\ artifact = "CAP WORKS" =>
                         \/ obeys.cap
                         \/ ~obeys.lock /\ \E b \in Boosts : Within(b, req.clock, ClockMargin)
                    /\ artifact = "CAP IS A NO-OP" => ~obeys.cap
  OBVIOUS
<1> DEFINE base == phases[1].result
           middle == [i \in 1..Size |-> phases[i + 1].result]
           rec == phases[Final].result
<1>1. Len(phases) = Final /\ artifact = JudgePhases(phases)
  BY Concluded DEF Verdicts
<1>2. Power
  BY <1>1, LockVerdictMeans DEF JudgePhases
<1>3. artifact = JudgePower(base, middle, rec, Tested, req.clock)
  BY <1>1, <1>2 DEF JudgePhases
<1>4. ValueInv /\ TypeOK
  BY DEF VInv
<1>5. DOMAIN Tested = 1..Size /\ \A i \in 1..Size : Tested[i] \in Nat
  BY <1>4, PlanIs DEF TypeOK
<1>6. base \in Phase /\ \A i \in 1..Size : middle[i] \in Phase
  BY <1>1, Complete
<1>7. PICK b \in CanBind(base, Tested) :
        /\ Measured(base, middle, rec)
        /\ artifact = "CAP WORKS" => /\ Responded(base, middle, Tested, b)
                                     /\ Within(base.mhz, req.clock, ClockMargin)
        /\ artifact = "CAP IS A NO-OP" => ~Responded(base, middle, Tested, b)
  <2> HIDE DEF base, middle, rec
  <2> QED BY <1>3, CapVerdictMeans
<1>8. b \in 1..Size /\ Tested[b] \in Nat /\ Tested[b] < base.peak - BindMargin
  BY <1>5, <1>7 DEF CanBind
<1>9. base.loaded /\ middle[b].loaded
  <2>1. b \in DOMAIN middle
    BY <1>8
  <2> HIDE DEF base, middle, rec
  <2> QED BY <1>7, <2>1 DEF Measured
<1>10. ASSUME artifact = "CAP IS A NO-OP" PROVE ~(middle[b].peak <= Tested[b])
  <2>1. base \in Phase /\ middle[b] \in Phase
    BY <1>6, <1>8
  <2> HIDE DEF base, middle, rec
  <2> QED BY <1>7, <1>8, <1>10, <2>1, RespondsWhen
<1>11. ASSUME artifact = "CAP WORKS"
       PROVE  \/ base.mhz - middle[b].mhz > ClockMargin
              \/ base.peak - middle[b].peak > BindMargin - EnforceMargin
  <2>1. base \in Phase /\ middle[b] \in Phase
    BY <1>6, <1>8
  <2> HIDE DEF base, middle, rec
  <2> QED BY <1>7, <1>8, <1>11, <2>1, RespondsWhen
<1>12. /\ Under(req.clock, Tested[b], middle[b])
       /\ req.clock \in Clocks /\ req.clock \in Nat /\ req.clock # 0
  <2>1. phases[b + 1].result.loaded
    BY <1>8, <1>9
  <2>2. PICK lock \in Clocks, cap \in Limits :
          /\ Under(lock, cap, phases[b + 1].result)
          /\ lock = req.clock /\ lock # 0 /\ cap = Tested[b]
    BY <1>1, <1>2, <1>8, <2>1, MeasuredUnder
  <2>3. req.clock \in Nat
    BY <1>4, PlanIs DEF TypeOK
  <2> QED BY <1>8, <2>2, <2>3
<1>13. PICK cap \in Limits : Under(req.clock, cap, base)
  BY <1>1, <1>2, <1>9, MeasuredUnder
<1>14. ASSUME artifact = "CAP WORKS", ~obeys.cap, obeys.lock PROVE FALSE
  <2>1. /\ ~(base.mhz - middle[b].mhz > ClockMargin)
        /\ ~(base.peak - middle[b].peak > BindMargin - EnforceMargin)
    BY <1>12, <1>13, <1>14, CapIgnored
  <2> HIDE DEF base, middle, rec
  <2> QED BY <1>11, <1>14, <2>1
<1>16. ASSUME artifact = "CAP WORKS", ~obeys.cap, ~obeys.lock
       PROVE  \E boost \in Boosts : Within(boost, req.clock, ClockMargin)
  <2> HIDE DEF base, middle, rec
  <2>1. base.mhz \in Boosts
    BY <1>13, <1>16, NothingHeld
  <2> QED BY <1>7, <1>16, <2>1
<1>15. ASSUME artifact = "CAP IS A NO-OP", obeys.cap PROVE FALSE
  BY <1>8, <1>10, <1>12, <1>15, CapHolds
<1> QED BY <1>14, <1>15, <1>16

\* What is said of the card is true of it, for any clocks it drifts over, any power
\* it draws and any cap it was found with.
THEOREM ToldIsTrue == ASSUME EnforceMargin <= BindMargin PROVE Spec => []CardAsTold
<1>1. VInv => CardAsTold
  BY LockTold, CapTold DEF CardAsTold
<1> QED BY <1>1, GateInductive, PTL

-----------------------------------------------------------------------------
(* The end of a run *)

\* Whoever owes a restore keeps NVML open, so that the exit hook can pay.
THEOREM DebtStaysPayable == Spec => []DebtPayable
<1>1. VInv => DebtPayable
  BY DEF VInv, OwingInv, DebtPayable
<1> QED BY <1>1, GateInductive, PTL

\* The limit read twice and found equal is that of the card.
LEMMA CapIsBack ==
  ASSUME VInv, Power, Judged, code # 3
  PROVE  dev.cap = found.cap
<1> DEFINE base == phases[1].result
           middle == [i \in 1..Size |-> phases[i + 1].result]
           rec == phases[Final].result
<1>1. artifact = JudgePhases(phases) /\ code = ExitCode(artifact) /\ Len(phases) = Final
  <2>1. code # 2 /\ code # Unknown /\ exc = "none"
    BY DEF Judged, Unknown
  <2>2. VerdictInv
    BY DEF VInv
  <2> QED BY <2>1, <2>2 DEF VerdictInv
<1>2. artifact = JudgePower(base, middle, rec, Tested, req.clock)
  BY <1>1 DEF JudgePhases
<1>3. artifact \notin {"RESTORE FAILED", "RESTORE UNVERIFIED"}
  BY <1>1 DEF ExitCode
<1>4. rec.limit = base.limit /\ Unknown \notin {base.limit, rec.limit}
  <2> HIDE DEF base, middle, rec
  <2> QED BY <1>2, <1>3, LimitComesFirst
<1>5. base.limit \in {found.cap, Unknown} /\ rec.limit \in {dev.cap, Unknown}
  <2>1. Measured1(1, base) /\ Measured1(Final, rec)
    BY <1>1, Complete
  <2> HIDE DEF base, rec
  <2> QED BY <2>1 DEF Measured1
<1> QED BY <1>4, <1>5

LEMMA LockLeft ==
  ASSUME VInv, ~Power, Len(phases) = Final
  PROVE  dev.lock \in {0, Tested[Size]}
<1>1. Size \in Nat /\ Len(phases) = Size + 2
  BY Complete
<1> QED BY <1>1 DEF VInv, LeftInv

\* The lock left on the card is the greatest target, which would have been seen.
LEMMA LockIsGone ==
  ASSUME VInv, artifact = "LOCK WORKS", obeys.lock
  PROVE  Size \in Testable(phases[1].result, Targets) => dev.lock = 0 \/ Slowed(dev.lock)
<1> DEFINE base == phases[1].result
           middle == [i \in 1..Size |-> phases[i + 1].result]
           rec == phases[Final].result
<1>1. Len(phases) = Final /\ artifact = JudgePhases(phases)
  BY Concluded DEF Verdicts
<1>2. ~Power
  BY <1>1, CapVerdictMeans DEF JudgePhases
<1>3. artifact = JudgeClock(base, middle, rec, Tested) /\ Tested = Targets
  BY <1>1, <1>2 DEF JudgePhases, Tested
<1>4. rec.loaded
  <2> HIDE DEF base, middle, rec
  <2> QED BY <1>3, LockVerdictMeans
<1>5. ValueInv /\ dev.lock \in {0, Tested[Size]}
  BY <1>1, <1>2, LockLeft DEF VInv
<1>6. dev.lock \in Clocks /\ Under(dev.lock, found.cap, rec)
  BY <1>1, <1>2, <1>4, MeasuredUnder
<1>7. ASSUME Size \in Testable(base, Targets), dev.lock # 0, ~Slowed(dev.lock) PROVE FALSE
  <2>1. rec.mhz = Tested[Size]
    <3> HIDE DEF rec
    <3> QED BY <1>4, <1>5, <1>6, <1>7, HeldClock
  <2> HIDE DEF middle, rec
  <2> QED BY <1>3, <1>7, <2>1, PinnedCardIsNoticed
<1> QED BY <1>7

\* Where no failed restore is reported, the settings are back.
THEOREM RestoreIsAccounted == Spec => []RestoreAccounted
<1>1. VInv => RestoreAccounted
  BY CapIsBack, LockIsGone DEF RestoreAccounted
<1> QED BY <1>1, GateInductive, PTL

-----------------------------------------------------------------------------
(* Judging once more *)

LEMMA OneOnly ==
  ASSUME NEW i \in Nat
  PROVE  FirstOf({i}) = i /\ LastOf({i}) = i
  BY DEF FirstOf, LastOf

\* In an interval, values are ranked as they stand.
LEMMA RankedInterval ==
  ASSUME NEW n \in Nat
  PROVE  /\ Cardinality(2..n + 1) = n
         /\ \A k \in 1..n : Ranked([i \in 2..n + 1 |-> i], k) = k + 1
<1> DEFINE S == 2..n + 1
           f == [i \in S |-> i]
<1>1. \A a \in Int : /\ IsFiniteSet(2..a)
                     /\ a >= 1 => Cardinality(2..a) = a - 1
  <2>1. ASSUME NEW a \in Int PROVE IsFiniteSet(2..a) /\ Cardinality(2..a) = IF 2 > a THEN 0 ELSE a - 2 + 1
    <3>1. 2 \in Int /\ a \in Int
      OBVIOUS
    <3> QED BY <3>1, FS_Interval
  <2> QED BY <2>1
<1>2. IsFiniteSet(S) /\ Cardinality(S) = n
  <2>1. n + 1 \in Int /\ n + 1 >= 1 /\ n + 1 - 1 = n
    OBVIOUS
  <2> QED BY <1>1, <2>1
<1>3. DOMAIN f = S /\ f \in [DOMAIN f -> Nat] /\ \A i \in S : f[i] = i
  OBVIOUS
<1>4. ASSUME NEW k \in 1..n PROVE Ranked(f, k) = k + 1
  <2> DEFINE v == Ranked(f, k)
  <2>1. /\ v \in S /\ Cardinality({j \in S : f[j] < v}) < k
        /\ k <= Cardinality({j \in S : f[j] <= v})
    <3> HIDE DEF S, f
    <3>1. v \in {f[j] : j \in DOMAIN f}
      BY <1>2, <1>3, RankedIs
    <3> QED BY <1>2, <1>3, <3>1, RankedIs
  <2> HIDE DEF f, v
  <2>2. {j \in S : f[j] < v} = 2..(v - 1) /\ {j \in S : f[j] <= v} = 2..v
    BY <1>3, <2>1
  <2>3. v \in Int /\ v >= 2 /\ v - 1 >= 1 /\ v - 1 \in Int
    BY <2>1
  <2>4. Cardinality(2..(v - 1)) = v - 2 /\ Cardinality(2..v) = v - 1
    <3>1. Cardinality(2..(v - 1)) = v - 1 - 1 /\ Cardinality(2..v) = v - 1
      BY <1>1, <2>3
    <3> QED BY <2>3, <3>1
  <2>5. v - 2 < k /\ k <= v - 1
    BY <2>1, <2>2, <2>4
  <2>6. v = k + 1
    BY <2>3, <2>5
  <2> QED BY <2>6 DEF v
<1> QED BY <1>2, <1>4

\* A run that was cut short has no last phase.
LEMMA CutShort ==
  ASSUME VInv, Len(phases) < Final
  PROVE  Rejudged(phases) = "incomplete"
<1>1. /\ TypeOK /\ Size \in Nat /\ Final = Size + 2
      /\ Len(phases) \in Nat /\ DOMAIN phases = 1..Len(phases)
  <2>1. TypeOK
    BY DEF VInv
  <2> QED BY <2>1, TypeFacts, PlanIs DEF Final
<1>2. Find(phases, <<"recovered", 0>>) = {}
  <2>1. ASSUME NEW i \in DOMAIN phases PROVE phases[i].name # <<"recovered", 0>>
    <3>1. i # Final
      BY <1>1
    <3>2. phases[i].name = Name(i)
      BY <1>1 DEF TypeOK
    <3> QED BY <3>1, <3>2 DEF Name
  <2> QED BY <2>1 DEF Find
<1>3. RejudgedPower(phases) = "incomplete" /\ RejudgedClock(phases) = "incomplete"
  BY <1>2 DEF RejudgedPower, RejudgedClock
<1> QED BY <1>3 DEF Rejudged

\* The phases of a complete run by their names.
LEMMA FoundOnce ==
  ASSUME VInv, Len(phases) = Final
  PROVE  /\ Find(phases, <<"baseline", 0>>) = {1}
         /\ Find(phases, <<"recovered", 0>>) = {Final}
         /\ Power => \A i \in 1..Size : Find(phases, <<"cap", Caps[i]>>) = {i + 1}
         /\ ~Power => {i \in DOMAIN phases : phases[i].name[1] = "locked"} = 2..Size + 1
         /\ ~Power => \A i \in 1..Size : phases[i + 1].name[2] = Tested[i]
<1>1. /\ Size \in Nat /\ Final = Size + 2 /\ DOMAIN phases = 1..Final
      /\ \A i \in 1..Final : phases[i].name = Name(i)
  <2>1. TypeOK
    BY DEF VInv
  <2> QED BY <2>1, Complete, TypeFacts
<1>2. /\ Name(1) = <<"baseline", 0>> /\ Name(Final) = <<"recovered", 0>>
      /\ \A i \in 2..Size + 1 :
           Name(i) = <<IF Power THEN "cap" ELSE "locked", Tested[i - 1]>>
  BY <1>1 DEF Name
<1>3. \A i \in 1..Final : i = 1 \/ i = Final \/ i \in 2..Size + 1
  BY <1>1
<1>4. 1 \in 1..Final /\ Final \in 1..Final /\ Final # 1
  BY <1>1
<1>5. Find(phases, <<"baseline", 0>>) = {1} /\ Find(phases, <<"recovered", 0>>) = {Final}
  BY <1>1, <1>2, <1>3, <1>4 DEF Find
<1>6. ASSUME Power, NEW i \in 1..Size PROVE Find(phases, <<"cap", Caps[i]>>) = {i + 1}
  <2>1. Tested = Caps /\ Size = Cardinality(req.caps) /\ req \in Requests
    BY <1>6 DEF Tested, Size, VInv, TypeOK
  <2>2. i + 1 \in 2..Size + 1 /\ i + 1 \in 1..Final /\ i + 1 - 1 = i
    BY <1>1
  <2>3. phases[i + 1].name = <<"cap", Caps[i]>>
    BY <1>1, <1>2, <1>6, <2>1, <2>2
  <2>4. ASSUME NEW j \in 1..Final, phases[j].name = <<"cap", Caps[i]>> PROVE j = i + 1
    <3>1. j \in 2..Size + 1
      BY <1>1, <1>2, <1>3, <2>4
    <3>2. j - 1 \in 1..Size /\ Caps[j - 1] = Caps[i]
      BY <1>1, <1>2, <1>6, <2>1, <2>4, <3>1
    <3>3. j - 1 = i
      BY <2>1, <3>2, CapsAre
    <3> QED BY <3>1, <3>3
  <2> QED BY <1>1, <2>2, <2>3, <2>4 DEF Find
<1>7. ASSUME ~Power PROVE {i \in DOMAIN phases : phases[i].name[1] = "locked"} = 2..Size + 1
  <2>1. \A i \in 2..Size + 1 : i \in 1..Final /\ phases[i].name[1] = "locked"
    BY <1>1, <1>2, <1>7
  <2>2. phases[1].name[1] # "locked" /\ phases[Final].name[1] # "locked"
    BY <1>1, <1>2, <1>4
  <2> QED BY <1>1, <1>3, <2>1, <2>2
<1>8. ASSUME ~Power, NEW i \in 1..Size PROVE phases[i + 1].name[2] = Tested[i]
  <2>1. i + 1 \in 2..Size + 1 /\ i + 1 \in 1..Final /\ i + 1 - 1 = i
    BY <1>1
  <2> QED BY <1>1, <1>2, <1>8, <2>1
<1> QED BY <1>5, <1>6, <1>7, <1>8

\* The phases of a complete run, taken by their names, are judged as they were.
LEMMA JudgedAgain ==
  ASSUME VInv, Len(phases) = Final
  PROVE  Rejudged(phases) \in {"incomplete", JudgePhases(phases)}
<1> DEFINE base == phases[1].result
           middle == [i \in 1..Size |-> phases[i + 1].result]
           rec == phases[Final].result
<1>1. Size \in Nat /\ Final \in Nat /\ Final = Size + 2 /\ req \in Requests
  <2>1. req \in Requests
    BY DEF VInv, TypeOK
  <2> QED BY <2>1, Complete
<1>2. \A i \in 1..Size : i + 1 \in Nat
  BY <1>1
<1>3. CASE Power
  <2> DEFINE again == [i \in 1..Size |-> phases[LastOf(Find(phases, <<"cap", Caps[i]>>))].result]
  <2>1. again = middle
    BY <1>2, <1>3, FoundOnce, OneOnly
  <2>2. /\ phases[LastOf(Find(phases, <<"baseline", 0>>))].result = base
        /\ phases[LastOf(Find(phases, <<"recovered", 0>>))].result = rec
    BY <1>1, FoundOnce, OneOnly
  <2>3. JudgePhases(phases) = JudgePower(base, again, rec, Caps, req.clock)
    BY <1>3, <2>1 DEF JudgePhases, Tested
  <2>4. RejudgedPower(phases) \in
          {"incomplete",
           JudgePower(phases[LastOf(Find(phases, <<"baseline", 0>>))].result, again,
                      phases[LastOf(Find(phases, <<"recovered", 0>>))].result, Caps, req.clock)}
    BY DEF RejudgedPower
  <2> HIDE DEF again, base, rec
  <2> QED BY <1>3, <2>2, <2>3, <2>4 DEF Rejudged
<1>4. CASE ~Power
  <2> DEFINE locked == {i \in DOMAIN phases : phases[i].name[1] = "locked"}
             nth(k) == phases[Ranked([i \in locked |-> i], k)]
             again == [k \in 1..Cardinality(locked) |-> nth(k).result]
             asked == [k \in 1..Cardinality(locked) |-> nth(k).name[2]]
  <2>1. locked = 2..Size + 1
    BY <1>4, FoundOnce
  <2>2. /\ Cardinality(locked) = Size
        /\ \A k \in 1..Size : Ranked([i \in locked |-> i], k) = k + 1
    <3> HIDE DEF locked
    <3>1. /\ Cardinality(2..Size + 1) = Size
          /\ \A k \in 1..Size : Ranked([i \in 2..Size + 1 |-> i], k) = k + 1
      <4>1. \A n \in Nat : /\ Cardinality(2..n + 1) = n
                            /\ \A k \in 1..n : Ranked([i \in 2..n + 1 |-> i], k) = k + 1
        BY RankedInterval
      <4> QED BY <1>1, <4>1
    <3> QED BY <2>1, <3>1
  <2>3. again = middle
    <3> HIDE DEF locked
    <3> QED BY <2>2
  <2>4. asked = Tested
    <3>1. Tested = [i \in 1..Size |-> Tested[i]]
      BY <1>1, PlanIs
    <3>2. \A k \in 1..Size : nth(k).name[2] = Tested[k]
      <4>1. \A k \in 1..Size : nth(k) = phases[k + 1]
        <5> HIDE DEF locked
        <5> QED BY <2>2
      <4> HIDE DEF nth
      <4> QED BY <1>4, <4>1, FoundOnce
    <3> HIDE DEF locked, nth
    <3> QED BY <2>2, <3>1, <3>2
  <2>5. /\ phases[FirstOf(Find(phases, <<"baseline", 0>>))].result = base
        /\ phases[FirstOf(Find(phases, <<"recovered", 0>>))].result = rec
    BY <1>1, FoundOnce, OneOnly
  <2>6. JudgePhases(phases) = JudgeClock(base, again, rec, asked)
    <3> HIDE DEF again, asked
    <3> QED BY <1>4, <2>3, <2>4 DEF JudgePhases
  <2>7. RejudgedClock(phases) \in
          {"incomplete",
           JudgeClock(phases[FirstOf(Find(phases, <<"baseline", 0>>))].result, again,
                      phases[FirstOf(Find(phases, <<"recovered", 0>>))].result, asked)}
    BY DEF RejudgedClock
  <2> HIDE DEF again, asked, base, rec
  <2> QED BY <1>4, <2>5, <2>6, <2>7 DEF Rejudged
<1> QED BY <1>3, <1>4

\* Judging the file of a run once more gives the verdict of the run, or says that
\* the run was not complete.
THEOREM RejudgedAlike == Spec => []RejudgeAgrees
<1>1. ASSUME VInv PROVE RejudgeAgrees
  <2>1. VerdictInv
    BY <1>1 DEF VInv
  <2>2. \/ artifact = "none"
        \/ Len(phases) < Final
        \/ Len(phases) = Final /\ artifact = JudgePhases(phases)
    BY <2>1 DEF VerdictInv
  <2>3. CASE Len(phases) < Final
    BY <1>1, <2>3, CutShort DEF RejudgeAgrees
  <2>4. CASE Len(phases) = Final /\ artifact = JudgePhases(phases)
    BY <1>1, <2>4, JudgedAgain DEF RejudgeAgrees
  <2> QED BY <2>2, <2>3, <2>4 DEF RejudgeAgrees
<1> QED BY <1>1, GateInductive, PTL
=============================================================================
