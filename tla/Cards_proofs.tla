---------------------------- MODULE Cards_proofs ----------------------------
(***************************************************************************)
(* The safety of Cards, for any cards, limits and bounds.                  *)
(***************************************************************************)
EXTENDS CardsInvariant, FiniteSetTheorems, TLAPS

-----------------------------------------------------------------------------
(* Records and settings *)

\* What the state file holds is told apart by its kind.
LEMMA FileKinds ==
  ASSUME TypeOK
  PROVE  /\ IsRecord => file \in Record
         /\ file \in Record => IsRecord
         /\ file.kind \in {"record", "absent", "unreadable"}
         /\ file.kind = "absent" <=> file = Absent
         /\ file.kind = "unreadable" <=> file = Unreadable
  BY DEF TypeOK, IsRecord, Record, Absent, Unreadable

LEMMA SettledFields ==
  ASSUME TypeOK, IsRecord
  PROVE  /\ Settled \in Record /\ Settled.restored
         /\ Settled.uuid = file.uuid /\ Settled.about = file.about
  BY FileKinds DEF Settled, Record

\* A GPU's card is one of the machine's.
LEMMA CardOf ==
  ASSUME TypeOK, GpuInv, NEW i \in Gpus
  PROVE  i \in Nat \ {0} /\ enum[i] \in Present /\ enum[i] \in Cards
<1>1. enum[i] \in Present
  BY DEF Present, Range, Gpus
<1>2. i \in Nat \ {0}
  BY DEF GpuInv, Gpus
<1> QED BY <1>1, <1>2 DEF TypeOK

\* What a restore of card c, to limit w or to none, leaves of the settings: it
\* unlocks unless that call fails, and lifts the cap if there is a limit to set
\* and that call does not fail.
Restoring(c, w, limit, fail) ==
  /\ hw' \in [Cards -> Setting]
  /\ \A d \in Cards : d # c => hw'[d] = hw[d]
  /\ \A d \in Cards : /\ hw'[d].locked => hw[d].locked
                      /\ hw'[d].capped => hw[d].capped
  /\ hw'[c].locked => fail = "clocks"
  /\ hw'[c].capped => limit = {} \/ fail = "power"
  /\ \/ hw'[c].power = hw[c].power /\ hw'[c].capped = hw[c].capped
     \/ hw'[c].power = w /\ limit = {w}

LEMMA RestoringOne ==
  ASSUME TypeOK, NEW c \in Cards, NEW w \in Watts, NEW limit \in {{}, {w}}, NEW fail,
         hw' = [hw EXCEPT ![c] = Restored(c, limit, fail)]
  PROVE  Restoring(c, w, limit, fail)
<1>1. PICK s : s = Restored(c, limit, fail)
  OBVIOUS
<1>2. hw[c] \in Setting /\ hw \in [Cards -> Setting]
  BY DEF TypeOK
<1>3. hw'[c] = s /\ \A d \in Cards : d # c => hw'[d] = hw[d]
  BY <1>1, <1>2
<1>4. limit = {w} => (CHOOSE x \in limit : TRUE) = w
  OBVIOUS
<1>5. /\ s.locked = (fail = "clocks" /\ hw[c].locked)
      /\ s.power = IF limit = {} \/ fail = "power" THEN hw[c].power ELSE CHOOSE x \in limit : TRUE
      /\ s.capped = ((limit = {} \/ fail = "power") /\ hw[c].capped)
  BY <1>1 DEF Restored
<1>6. hw[c].power \in Watts /\ hw[c].locked \in BOOLEAN /\ hw[c].capped \in BOOLEAN
  BY <1>2 DEF Setting
<1>7. s.power \in Watts
  BY <1>4, <1>5, <1>6
<1>8. s = [locked |-> s.locked, power |-> s.power, capped |-> s.capped]
  BY <1>1 DEF Restored
<1>9. s.locked \in BOOLEAN /\ s.capped \in BOOLEAN
  BY <1>5, Zenon
<1>10. s \in Setting
  BY <1>7, <1>8, <1>9 DEF Setting
<1>11. hw' \in [Cards -> Setting]
  BY <1>1, <1>2, <1>10
<1>12. /\ s.locked => hw[c].locked /\ fail = "clocks"
       /\ s.capped => hw[c].capped /\ (limit = {} \/ fail = "power")
  BY <1>5
<1>13. \/ s.power = hw[c].power /\ s.capped = hw[c].capped
       \/ s.power = w /\ limit = {w}
  <2>1. CASE limit = {} \/ fail = "power"
    <3>1. s.capped = hw[c].capped
      BY <1>5, <1>6, <2>1, Zenon
    <3> QED BY <1>5, <2>1, <3>1
  <2>2. CASE ~(limit = {} \/ fail = "power")
    BY <1>4, <1>5, <2>2
  <2> QED BY <2>1, <2>2
<1>14. \A d \in Cards : /\ hw'[d].locked => hw[d].locked
                        /\ hw'[d].capped => hw[d].capped
  BY <1>3, <1>12
<1> QED BY <1>3, <1>11, <1>12, <1>13, <1>14 DEF Restoring

\* The limit of a record that announces a cap, or none.
LEMMA TargetOf ==
  ASSUME TypeOK
  PROVE  /\ Owing => file.snap \in Watts /\ Target \in {{}, {file.snap}}
         /\ Target # {} <=> Owing /\ file.wrote
BY FileKinds DEF Target, Owing, Record

\* The card at hand is that of the record, as far as a UUID tells.
LEMMA MismatchMeans ==
  ASSUME TypeOK, GpuInv, IsRecord, NEW i \in Gpus
  PROVE  /\ Mismatch(i) \in {"none", "reenumerated", "other", "unverifiable"}
         /\ Mismatch(i) = "none" => file.uuid \in {NoCard, enum[i]}
         /\ Mismatch(i) = "reenumerated" => file.uuid \in Cards
<1>1. file.uuid \in Cards \cup {NoCard}
  BY FileKinds DEF Record
<1>2. enum[i] \in Cards
  BY CardOf
<1>3. PICK u : u = Identity(i)
  OBVIOUS
<1>4. u = NoCard \/ u = enum[i]
  BY <1>3 DEF Identity
<1>5. CASE u # NoCard /\ u = file.uuid
  BY <1>3, <1>4, <1>5 DEF Mismatch
<1>6. CASE u # NoCard /\ file.uuid \notin {u, NoCard}
  BY <1>1, <1>3, <1>6 DEF Mismatch
<1>7. CASE u = NoCard /\ file.uuid # NoCard
  BY <1>3, <1>7 DEF Mismatch
<1>8. CASE file.uuid = NoCard
  BY <1>3, <1>8 DEF Mismatch
<1> QED BY <1>1, <1>5, <1>6, <1>7, <1>8

\* What the messages advise is advice, and names a card to be searched for.
LEMMA SayAdvice ==
  ASSUME NEW what \in {"done", "check", "restore", "quarantine", "read", "stop", "pick"},
         NEW i \in Nat
  PROVE  Say(what, i) \in Advice /\ Say(what, i).kind = what
BY DEF Say, Advice

LEMMA FindAdvice ==
  ASSUME NEW c \in Cards
  PROVE  Find(c) \in Advice /\ Find(c).card = c
BY DEF Find, Advice

Sound(advice) == advice \in Advice /\ (advice.kind = "find" => advice.card \in Cards)

LEMMA ElsewhereSound ==
  ASSUME TypeOK, GpuInv, IsRecord, NEW i \in Gpus, Mismatch(i) # "none"
  PROVE  Sound(Elsewhere(Mismatch(i), i))
<1>1. file.gpu \in Nat /\ i \in Nat
  BY FileKinds, CardOf DEF Record
<1>2. CASE Mismatch(i) = "reenumerated"
  <2>1. Elsewhere(Mismatch(i), i) = Find(file.uuid)
    BY <1>2 DEF Elsewhere, WayTo
  <2> QED BY <1>2, <2>1, MismatchMeans, FindAdvice DEF Sound
<1>3. CASE Mismatch(i) = "unverifiable"
  <2>1. Elsewhere(Mismatch(i), i) = Say("read", i)
    BY <1>3 DEF Elsewhere, WayTo
  <2> QED BY <1>1, <2>1, SayAdvice DEF Sound
<1>4. CASE Mismatch(i) = "other"
  <2>1. Elsewhere(Mismatch(i), i) = Say("restore", file.gpu)
    BY <1>4 DEF Elsewhere, WayTo
  <2> QED BY <1>1, <2>1, SayAdvice DEF Sound
<1> QED BY <1>2, <1>3, <1>4, MismatchMeans

LEMMA RecommendedSound ==
  ASSUME TypeOK, GpuInv, NEW i \in Gpus
  PROVE  Sound(Recommended(i))
<1>1. i \in Nat /\ (IsRecord => file.gpu \in Nat)
  BY FileKinds, CardOf DEF Record
<1>2. CASE ~Stale(i)
  BY <1>2, SayAdvice DEF Recommended, Done, Sound, Stale
<1>3. CASE Stale(i) /\ Owing /\ Mismatch(i) # "none"
  BY <1>3, ElsewhereSound DEF Recommended, Owing
<1>4. CASE Stale(i) /\ Owing /\ Mismatch(i) = "none" /\ Live
  BY <1>1, <1>4, SayAdvice DEF Recommended, Sound
<1>5. CASE Stale(i) /\ ~(Owing /\ Mismatch(i) # "none") /\ ~(Owing /\ Mismatch(i) = "none" /\ Live)
  <2>1. Recommended(i) = Say("restore", IF IsRecord THEN file.gpu ELSE i)
    BY <1>5 DEF Recommended
  <2> QED BY <1>1, <2>1, SayAdvice DEF Sound
<1> QED BY <1>2, <1>3, <1>4, <1>5

LEMMA ReplySound ==
  ASSUME TypeOK, GpuInv, NEW i \in Gpus, NEW held, held = (IsRecord /\ Mismatch(i) = "none"),
         NEW aside \in BOOLEAN, aside => ~IsRecord, NEW fail,
         told.kind \in {"restore", "quarantine", "read"}
  PROVE  Sound(Reply(i, held, aside, fail))
<1> DEFINE r == Reply(i, held, aside, fail)
<1>1. i \in Nat
  BY CardOf
<1>2. \/ r = Elsewhere(Mismatch(i), i) /\ IsRecord /\ Mismatch(i) # "none"
      \/ r \in {Say("quarantine", i), Say("stop", i), Say(told.kind, i), Say("check", i)}
  <2>1. CASE file.kind = "unreadable" /\ ~aside
    <3>1. ~IsRecord BY <2>1 DEF IsRecord
    <3> QED BY <2>1, <3>1 DEF Reply, Absent
  <2>2. CASE IsRecord /\ ~held
    <3>1. file.kind # "unreadable" BY <2>2 DEF IsRecord
    <3>2. file # Absent BY <2>2 DEF IsRecord, Absent
    <3> QED BY <2>2, <3>1, <3>2 DEF Reply
  <2>3. CASE ~(file.kind = "unreadable" /\ ~aside) /\ ~(IsRecord /\ ~held)
    BY <2>3 DEF Reply
  <2> QED BY <2>1, <2>2, <2>3
<1>3. CASE r = Elsewhere(Mismatch(i), i) /\ IsRecord /\ Mismatch(i) # "none"
  BY <1>3, ElsewhereSound
<1>4. CASE r \in {Say("quarantine", i), Say("stop", i), Say(told.kind, i), Say("check", i)}
  <2>1. /\ Sound(Say("quarantine", i)) /\ Sound(Say("stop", i))
        /\ Sound(Say(told.kind, i)) /\ Sound(Say("check", i))
    BY <1>1, SayAdvice DEF Sound
  <2> QED BY <1>4, <2>1
<1> QED BY <1>2, <1>3, <1>4

-----------------------------------------------------------------------------
(* What the commands do *)

\* GpuGuard.restore, while the guard holds its card.
LEMMA GuardRestoring ==
  ASSUME CardInv, Live, NEW fail, GuardRestores(fail)
  PROVE  /\ Owing /\ file.about \in Cards
         /\ Restoring(file.about, file.snap, Target, fail)
         /\ file' = IF fail = "ok" THEN Settled ELSE file
<1>1. Owing /\ file.about = enum[guard.gpu] /\ guard.gpu \in Gpus
  BY DEF CardInv, TypeOK, RecordInv, Owing
<1>2. file.about \in Cards
  BY <1>1, CardOf DEF CardInv
<1>3. file.snap \in Watts /\ Target \in {{}, {file.snap}}
  BY <1>1, TargetOf DEF CardInv
<1>4. hw' = [hw EXCEPT ![file.about] = Restored(file.about, Target, fail)]
  BY <1>1 DEF GuardRestores
<1>5. Restoring(file.about, file.snap, Target, fail)
  BY <1>2, <1>3, <1>4, RestoringOne DEF CardInv
<1> QED BY <1>1, <1>2, <1>5 DEF GuardRestores

\* restore_from_state_file: what it sets, what it writes.
Recovers(i, held, aside, w, limit, fail) ==
  /\ held = (IsRecord /\ Mismatch(i) = "none")
  /\ aside = (told.kind = "quarantine" /\ file.kind = "unreadable")
  /\ limit \in {{}, {w}}
  /\ held /\ Owing /\ file.wrote => limit # {}
  /\ limit # {} => w = Default \/ (held /\ Owing /\ w = file.snap)
  /\ Restoring(enum[i], w, limit, fail)
  /\ \/ held /\ ~Live /\ fail = "ok" /\ file' = Settled
     \/ aside /\ file' = Absent
     \/ file' = file
  /\ untracked' = (untracked \/ (held /\ file.uuid = NoCard /\ enum[i] # file.about))
  /\ told' = Reply(i, held, aside, fail)
  /\ faults' \in {faults, faults + 1} /\ (faults' # faults => faults < MaxFaults)

LEMMA RecoveryRestoring ==
  ASSUME CardInv, NEW i \in Gpus, NEW force \in BOOLEAN, Recover(i, force)
  PROVE  \E held \in BOOLEAN, aside \in BOOLEAN, w \in Watts, limit \in SUBSET Watts,
            fail \in Outcomes : Recovers(i, held, aside, w, limit, fail)
<1> DEFINE held == IsRecord /\ Mismatch(i) = "none"
           aside == told.kind = "quarantine" /\ file.kind = "unreadable"
           limit == IF held /\ Target # {} THEN Target ELSE IF force THEN {Default} ELSE {}
           w == IF held /\ Target # {} THEN file.snap ELSE Default
<1>1. PICK fail \in Outcomes :
        /\ Costs(fail)
        /\ hw' = [hw EXCEPT ![enum[i]] = Restored(enum[i], limit, fail)]
        /\ file' = CASE Cleared(held, fail) -> Settled
                     [] aside /\ fail # "file" -> Absent
                     [] OTHER -> file
        /\ untracked' = (untracked \/ (held /\ file.uuid = NoCard /\ enum[i] # file.about))
        /\ told' = Reply(i, held, aside, fail)
  BY DEF Recover
<1>2. enum[i] \in Cards /\ Default \in Watts
  BY CardOf, CardsAssumption DEF CardInv
<1>3. /\ w \in Watts /\ limit \in {{}, {w}} /\ limit \in SUBSET Watts
      /\ held /\ Owing /\ file.wrote => limit # {}
      /\ limit # {} => w = Default \/ (held /\ Owing /\ w = file.snap)
  <2>1. CASE held /\ Target # {}
    BY <2>1, TargetOf DEF CardInv
  <2>2. CASE ~(held /\ Target # {})
    BY <1>2, <2>2, TargetOf DEF CardInv
  <2> QED BY <2>1, <2>2
<1>4. Restoring(enum[i], w, limit, fail)
  <2> HIDE DEF w, limit
  <2> QED BY <1>1, <1>2, <1>3, RestoringOne DEF CardInv
<1>5. \/ held /\ ~Live /\ fail = "ok" /\ file' = Settled
      \/ aside /\ file' = Absent
      \/ file' = file
  <2> HIDE DEF held, aside
  <2>1. CASE Cleared(held, fail)
    <3>1. ~aside
      BY <2>1 DEF Cleared, held, aside, IsRecord
    <3> QED BY <1>1, <2>1, <3>1 DEF Cleared
  <2>2. CASE ~Cleared(held, fail)
    BY <1>1, <2>2
  <2> QED BY <2>1, <2>2
<1>6. faults' \in {faults, faults + 1} /\ (faults' # faults => faults < MaxFaults)
  BY <1>1 DEF Costs, Failing
<1>7. held \in BOOLEAN /\ aside \in BOOLEAN
  OBVIOUS
<1> HIDE DEF held, aside, w, limit
<1>8. Recovers(i, held, aside, w, limit, fail)
  <2>1. held = (IsRecord /\ Mismatch(i) = "none")
    BY DEF held
  <2>2. aside = (told.kind = "quarantine" /\ file.kind = "unreadable")
    BY DEF aside
  <2> QED BY <1>1, <1>3, <1>4, <1>5, <1>6, <2>1, <2>2 DEF Recovers
<1> QED BY <1>3, <1>7, <1>8

-----------------------------------------------------------------------------
(* Every step keeps the invariant *)

BoundsOK == runs \in 0..MaxRuns /\ moves \in 0..MaxMoves /\ faults \in 0..MaxFaults
CardsOK == IsInjective(enum) /\ Present \subseteq Cards /\ Present # {} /\ reads \subseteq Cards
HolderOK == Live => guard.gpu \in Gpus /\ Owing

LEMMA TypeParts ==
  TypeOK <=> /\ CardsOK /\ HolderOK /\ BoundsOK
             /\ hw \in [Cards -> Setting] /\ file \in Record \cup {Absent, Unreadable}
             /\ guard \in Guard /\ told \in Advice
             /\ asked \in [Cards -> Watts] /\ untracked \in BOOLEAN
BY DEF TypeOK, CardsOK, HolderOK, BoundsOK

LEMMA BoundsKept ==
  ASSUME TypeOK
  PROVE  /\ UNCHANGED bounds => BoundsOK'
         /\ UNCHANGED <<runs, moves>> /\ Failing => BoundsOK'
         /\ UNCHANGED <<runs, moves>> /\ faults' \in {faults, faults + 1}
              /\ (faults' # faults => faults < MaxFaults) => BoundsOK'
         /\ UNCHANGED <<runs, faults>> /\ moves < MaxMoves /\ moves' = moves + 1 => BoundsOK'
         /\ UNCHANGED <<moves, faults>> /\ runs < MaxRuns /\ runs' = runs + 1 => BoundsOK'
BY CardsAssumption DEF TypeOK, BoundsOK, bounds, Failing

\* What the operator is told changes nothing on the machine.
LEMMA SameMachine ==
  ASSUME CardInv, UNCHANGED <<enum, hw, file, guard, asked, untracked>>,
         reads' \subseteq Cards, Sound(told'), BoundsOK'
  PROVE  CardInv'
<1>1. Present' = Present /\ Gpus' = Gpus /\ IsRecord' = IsRecord /\ Owing' = Owing /\ Live' = Live
  BY DEF Present, Gpus, IsRecord, Owing, Live
<1>2. TypeOK'
  <2>1. CardsOK' BY <1>1, TypeParts DEF CardInv, CardsOK
  <2>2. HolderOK' BY <1>1, TypeParts DEF CardInv, HolderOK
  <2> QED BY <2>1, <2>2 DEF CardInv, Sound, TypeOK, CardsOK, HolderOK, BoundsOK
<1>3. GpuInv' /\ RecordInv'
  BY <1>1 DEF CardInv, GpuInv, RecordInv
<1>4. AwayInv'
  BY <1>1 DEF CardInv, AwayInv, Changed
<1>5. AdviceInv'
  BY DEF Sound, AdviceInv
<1>6. TraceInv'
  BY <1>1 DEF CardInv, TraceInv, Traced, Changed
<1>7. LimitInv'
  BY <1>1 DEF CardInv, LimitInv, OwnSnap, OwnPower
<1> QED BY <1>2, <1>3, <1>4, <1>5, <1>6, <1>7 DEF CardInv

LEMMA Talking ==
  ASSUME CardInv, Status \/ FixRead \/ Pick \/ Stopped \/ LoseRead
  PROVE  CardInv'
<1>1. told.gpu \in Nat /\ Sound(told) /\ TypeOK /\ GpuInv /\ reads \subseteq Cards
  BY DEF CardInv, TypeOK, Sound, AdviceInv, Advice
<1>2. CASE Status
  <2>1. Sound(told')
    <3>1. \A i \in Gpus : Sound(Recommended(i))
      BY <1>1, RecommendedSound
    <3>2. Sound(Say("pick", 0))
      BY SayAdvice DEF Sound
    <3> QED BY <1>2, <3>1, <3>2 DEF Status
  <2> QED BY <1>1, <1>2, <2>1, SameMachine, BoundsKept DEF Status, cardVars, history
<1>3. CASE FixRead
  <2>1. Sound(told')
    BY <1>1, <1>3, SayAdvice DEF FixRead, Sound
  <2>2. reads' \subseteq Cards
    BY <1>1, <1>3, CardOf DEF FixRead
  <2> QED BY <1>1, <1>3, <2>1, <2>2, SameMachine, BoundsKept DEF FixRead, history
<1>4. CASE Pick
  <2>1. Sound(told')
    BY <1>1, <1>4, SayAdvice, CardOf DEF Pick, Sound
  <2> QED BY <1>1, <1>4, <2>1, SameMachine, BoundsKept DEF Pick, cardVars, history
<1>5. CASE Stopped
  <2>1. Sound(told')
    BY <1>1, <1>5, SayAdvice DEF Stopped, Sound
  <2> QED BY <1>1, <1>5, <2>1, SameMachine, BoundsKept DEF Stopped, cardVars, history
<1>6. CASE LoseRead
  BY <1>1, <1>6, SameMachine, BoundsKept DEF LoseRead, history
<1> QED BY <1>2, <1>3, <1>4, <1>5, <1>6

LEMMA ArmKeeps ==
  ASSUME CardInv, NEW i \in Gpus, Arm(i)
  PROVE  CardInv'
<1> DEFINE c == enum[i]
<1>1. TypeOK /\ GpuInv /\ i \in Nat \ {0} /\ c \in Present /\ c \in Cards
  BY CardOf DEF CardInv
<1>2. /\ UNCHANGED <<enum, reads, hw, told, asked, untracked>>
      /\ guard' = [phase |-> "armed", gpu |-> i]
      /\ file' = [kind |-> "record", gpu |-> i, uuid |-> Identity(i), about |-> c,
                  snap |-> hw[c].power, wrote |-> FALSE, restored |-> FALSE]
      /\ ~Owing
  BY DEF Arm, cardVars, history, Busy
<1>3. Identity(i) \in {NoCard, c} /\ hw[c].power \in Watts
  BY <1>1 DEF Identity, TypeOK, Setting
<1>4. Owing' /\ IsRecord' /\ Live' /\ Gpus' = Gpus /\ Present' = Present
  BY <1>2 DEF Owing, IsRecord, Live, Gpus, Present
<1> HIDE DEF c
<1>5. TypeOK'
  <2>1. file' \in Record
    BY <1>1, <1>2, <1>3 DEF Record
  <2>2. guard' \in Guard
    BY <1>1, <1>2 DEF Guard
  <2>3. HolderOK'
    BY <1>2, <1>4 DEF HolderOK
  <2>4. BoundsOK'
    BY <1>1, BoundsKept DEF Arm
  <2>5. CardsOK'
    BY <1>1, <1>2, <1>4, TypeParts DEF CardsOK
  <2> QED BY <1>1, <1>2, <2>1, <2>2, <2>3, <2>4, <2>5
     DEF TypeOK, CardsOK, HolderOK, BoundsOK
<1>6. GpuInv' /\ AdviceInv'
  BY <1>2 DEF CardInv, GpuInv, AdviceInv
<1>7. RecordInv'
  BY <1>2, <1>3 DEF RecordInv, c
<1>8. AwayInv'
  BY <1>2, <1>4 DEF CardInv, AwayInv, Changed
<1>9. untracked \/ \A d \in Cards : ~Changed(d)
  BY <1>2 DEF CardInv, TraceInv, Traced
<1>10. TraceInv'
  BY <1>2, <1>9 DEF TraceInv, Changed
<1>11. LimitInv'
  <2>1. ASSUME ~untracked
        PROVE  OwnSnap' /\ \A d \in Cards : OwnPower(d)'
    <3>1. \A d \in Cards : hw[d].power \in {asked[d], Default}
      BY <1>9, <2>1 DEF CardInv, LimitInv, OwnPower, Changed
    <3> QED BY <1>1, <1>2, <3>1 DEF OwnSnap, OwnPower
  <2> QED BY <1>2, <2>1 DEF LimitInv
<1> QED BY <1>5, <1>6, <1>7, <1>8, <1>10, <1>11 DEF CardInv

\* A write on the card of the record.
LEMMA HoldingKeeps ==
  ASSUME CardInv, Holding
  PROVE  CardInv'
<1>1. Live /\ Owing /\ file.about = enum[guard.gpu] /\ guard.gpu \in Gpus
  BY DEF CardInv, TypeOK, RecordInv, Owing, Holding, LockClocks, SetPowerLimit, Announced, Kill,
         Live
<1>2. TypeOK /\ GpuInv /\ file.about \in Present /\ file.about \in Cards
  BY <1>1, CardOf DEF CardInv
<1>3. /\ UNCHANGED <<enum, reads, told, asked, untracked>> /\ BoundsOK'
      /\ guard' = guard \/ guard' = Nobody
  <2>1. UNCHANGED <<enum, reads, told, asked, untracked>> /\ UNCHANGED bounds
    BY DEF Holding, LockClocks, SetPowerLimit, Announced, Kill, cardVars, history
  <2>2. guard' = guard \/ guard' = Nobody
    BY DEF Holding, LockClocks, SetPowerLimit, Announced, Kill
  <2> QED BY <1>2, <2>1, <2>2, BoundsKept
<1>4. /\ file' = file \/ file' = [file EXCEPT !.wrote = TRUE]
      /\ file \in Record /\ file' \in Record /\ file'.about = file.about
      /\ file'.snap = file.snap /\ file'.uuid = file.uuid /\ file'.restored = FALSE
      /\ file.wrote => file'.wrote
  <2>1. file' = file \/ file' = [file EXCEPT !.wrote = TRUE]
    BY DEF Holding, LockClocks, SetPowerLimit, Announced, Kill
  <2>2. file \in Record /\ file.restored = FALSE
    BY <1>1, <1>2, FileKinds DEF Owing, Record
  <2> QED BY <2>1, <2>2 DEF Record
<1>5. Owing' /\ IsRecord' /\ Gpus' = Gpus /\ Present' = Present
  BY <1>3, <1>4 DEF Owing, IsRecord, Gpus, Present, Record
<1>6. /\ hw' \in [Cards -> Setting]
      /\ \A d \in Cards : d # file.about => hw'[d] = hw[d]
      /\ hw'[file.about].capped => hw[file.about].capped \/ file'.wrote
      /\ hw'[file.about].capped \/ hw'[file.about].power = hw[file.about].power
      /\ hw[file.about].capped => hw'[file.about].capped
  <2>1. hw \in [Cards -> Setting] /\ hw[file.about] \in Setting
    BY <1>2 DEF TypeOK
  <2>2. CASE hw' = hw
    BY <2>1, <2>2
  <2>3. CASE hw' = [hw EXCEPT ![file.about] = [hw[file.about] EXCEPT !.locked = TRUE]]
    BY <1>2, <2>1, <2>3 DEF Setting
  <2>4. ASSUME NEW w \in Watts, SetPowerLimit(w), hw' # hw
        PROVE  /\ hw' = [hw EXCEPT ![file.about] = [@ EXCEPT !.power = w, !.capped = TRUE]]
               /\ file'.wrote
    BY <1>1, <1>2, <1>4, <2>4, FileKinds DEF SetPowerLimit, Announced, Owing, Record
  <2>5. CASE \E w \in Watts : SetPowerLimit(w) /\ hw' # hw
    <3>1. PICK w \in Watts :
            /\ hw' = [hw EXCEPT ![file.about] = [@ EXCEPT !.power = w, !.capped = TRUE]]
            /\ file'.wrote
      BY <2>4, <2>5
    <3> QED BY <1>2, <2>1, <3>1 DEF Setting
  <2>6. hw' = hw \/ LockClocks \/ \E w \in Watts : SetPowerLimit(w)
    BY DEF Holding, Kill
  <2>7. CASE LockClocks
    BY <1>1, <2>2, <2>3, <2>7 DEF LockClocks, Announced
  <2> QED BY <2>2, <2>5, <2>6, <2>7
<1>7. TypeOK'
  <2>1. guard' \in Guard /\ HolderOK'
    <3>1. guard \in Guard
      BY <1>2 DEF TypeOK
    <3>2. CASE guard' = guard
      BY <1>1, <1>5, <3>1, <3>2 DEF HolderOK
    <3>3. CASE guard' = Nobody
      BY <3>3 DEF HolderOK, Live, Nobody, Guard
    <3> QED BY <1>3, <3>2, <3>3
  <2>2. CardsOK'
    BY <1>2, <1>3, <1>5, TypeParts DEF CardsOK
  <2> QED BY <1>2, <1>3, <1>4, <1>6, <2>1, <2>2
     DEF TypeOK, CardsOK, HolderOK, BoundsOK
<1>8. GpuInv' /\ AdviceInv'
  BY <1>3 DEF CardInv, GpuInv, AdviceInv
<1>9. RecordInv'
  <2>1. file'.uuid \in {NoCard, file'.about}
    BY <1>1, <1>4 DEF CardInv, RecordInv, Owing
  <2>2. Live' => guard' = guard
    BY <1>3 DEF Live, Nobody
  <2> QED BY <1>1, <1>3, <1>4, <2>1, <2>2 DEF RecordInv
<1>10. AwayInv'
  BY <1>2, <1>5, <1>6 DEF CardInv, AwayInv, Changed
<1>11. TraceInv'
  <2>1. ASSUME ~untracked, NEW d \in Cards, Changed(d)'
        PROVE  Traced(d)'
    <3>1. CASE d = file.about
      <4>1. hw'[d].capped => file'.wrote
        BY <1>4, <1>6, <2>1, <3>1 DEF CardInv, TraceInv, Traced, Changed
      <4> QED BY <1>4, <1>5, <3>1, <4>1 DEF Traced
    <3>2. CASE d # file.about
      BY <1>6, <2>1, <3>2 DEF CardInv, TraceInv, Traced, Changed
    <3> QED BY <3>1, <3>2
  <2> QED BY <1>3, <2>1 DEF TraceInv
<1>12. LimitInv'
  <2>1. ASSUME ~untracked
        PROVE  OwnSnap' /\ \A d \in Cards : OwnPower(d)'
    <3>1. OwnSnap'
      BY <1>1, <1>3, <1>4, <2>1 DEF CardInv, LimitInv, OwnSnap
    <3>2. \A d \in Cards : OwnPower(d)'
      BY <1>2, <1>3, <1>6, <2>1 DEF CardInv, LimitInv, OwnPower
    <3> QED BY <3>1, <3>2
  <2> QED BY <1>3, <2>1 DEF LimitInv
<1> QED BY <1>7, <1>8, <1>9, <1>10, <1>11, <1>12 DEF CardInv

\* A restore changes no card, and gives its own a limit of its operator's.
LEMMA RestoringKeeps ==
  ASSUME CardInv, NEW c \in Cards, NEW w, NEW limit, NEW fail, Restoring(c, w, limit, fail),
         limit # {} => w = Default \/ untracked' \/ w = asked[c],
         UNCHANGED <<enum, asked>>, untracked => untracked'
  PROVE  /\ AwayInv'
         /\ \A d \in Cards : Changed(d)' => Changed(d)
         /\ \A d \in Cards : hw'[d].capped => hw[d].capped
         /\ untracked' \/ \A d \in Cards : OwnPower(d)'
         /\ fail = "ok" /\ limit # {} => ~Changed(c)'
<1>1. \A d \in Cards : /\ Changed(d)' => Changed(d)
                       /\ hw'[d].capped => hw[d].capped
  BY DEF Restoring, Changed
<1>2. AwayInv'
  BY <1>1 DEF CardInv, AwayInv, Present
<1>3. fail = "ok" /\ limit # {} => ~Changed(c)'
  BY DEF Restoring, Changed
<1>4. ASSUME ~untracked', NEW d \in Cards
      PROVE  OwnPower(d)'
  <2>1. OwnPower(d)
    BY <1>4 DEF CardInv, LimitInv
  <2>2. CASE d = c
    BY <2>1, <2>2, <1>4 DEF Restoring, OwnPower
  <2>3. CASE d # c
    BY <2>1, <2>3 DEF Restoring, OwnPower
  <2> QED BY <2>2, <2>3
<1> QED BY <1>1, <1>2, <1>3, <1>4

\* What is left of a record that is settled, or moved aside, or neither.
LEMMA FileAfter ==
  ASSUME CardInv, \/ IsRecord /\ file' = Settled
                  \/ ~IsRecord /\ file' = Absent
                  \/ file' = file
  PROVE  /\ file' \in Record \cup {Absent, Unreadable}
         /\ IsRecord' = IsRecord
         /\ IsRecord => file'.about = file.about /\ file'.uuid = file.uuid
         /\ Owing' => file' = file
<1>1. TypeOK
  BY DEF CardInv
<1>2. CASE IsRecord /\ file' = Settled
  BY <1>1, <1>2, SettledFields DEF Record, IsRecord, Owing
<1>3. CASE ~IsRecord /\ file' = Absent
  BY <1>3 DEF Absent, IsRecord, Owing
<1>4. CASE file' = file
  BY <1>1, <1>4 DEF TypeOK, IsRecord, Owing
<1> QED BY <1>2, <1>3, <1>4

\* A debt that is settled is paid: the restore put the card of the record back.
Paying(c, limit, fail) ==
  Owing /\ ~Owing' => fail = "ok" /\ c = file.about /\ (file.wrote => limit # {})

LEMMA RestoreKeeps ==
  ASSUME CardInv, NEW c \in Cards, NEW w, NEW limit, NEW fail, Restoring(c, w, limit, fail),
         limit # {} => w = Default \/ untracked' \/ w = asked[c],
         UNCHANGED <<cardVars, asked>>, untracked' \in BOOLEAN, untracked => untracked',
         \/ IsRecord /\ file' = Settled
         \/ ~IsRecord /\ file' = Absent
         \/ file' = file,
         untracked' \/ Paying(c, limit, fail),
         guard' \in Guard, Live' => Live /\ guard'.gpu = guard.gpu /\ Owing',
         Sound(told'), BoundsOK'
  PROVE  CardInv'
<1>1. Gpus' = Gpus /\ Present' = Present /\ UNCHANGED <<enum, reads>> /\ TypeOK /\ GpuInv
  BY DEF Gpus, Present, cardVars, CardInv
<1>2. /\ AwayInv'
      /\ \A d \in Cards : Changed(d)' => Changed(d)
      /\ \A d \in Cards : hw'[d].capped => hw[d].capped
      /\ untracked' \/ \A d \in Cards : OwnPower(d)'
      /\ fail = "ok" /\ limit # {} => ~Changed(c)'
  BY <1>1, RestoringKeeps
<1>3. /\ file' \in Record \cup {Absent, Unreadable}
      /\ IsRecord' = IsRecord
      /\ IsRecord => file'.about = file.about /\ file'.uuid = file.uuid
      /\ Owing' => file' = file
  BY FileAfter
<1>4. TypeOK'
  <2>1. HolderOK'
    BY <1>1, TypeParts DEF HolderOK
  <2>2. CardsOK'
    BY <1>1, TypeParts DEF CardsOK
  <2>3. hw' \in [Cards -> Setting]
    BY DEF Restoring
  <2> QED BY <1>1, <1>3, <2>1, <2>2, <2>3
     DEF TypeOK, CardsOK, HolderOK, BoundsOK, Sound
<1>5. GpuInv' /\ AdviceInv'
  BY <1>1 DEF GpuInv, AdviceInv, Sound
<1>6. RecordInv'
  BY <1>1, <1>3 DEF CardInv, RecordInv
<1>7. TraceInv'
  <2>1. ASSUME ~untracked', NEW d \in Cards, Changed(d)'
        PROVE  Traced(d)'
    <3>1. Traced(d) /\ Changed(d) /\ Owing /\ file.about = d
      BY <1>2, <2>1 DEF CardInv, TraceInv, Traced
    <3>2. CASE Owing'
      BY <1>2, <1>3, <3>1, <3>2 DEF Traced
    <3>3. CASE ~Owing'
      <4>1. fail = "ok" /\ c = d /\ (file.wrote => limit # {})
        BY <2>1, <3>1, <3>3 DEF Paying
      <4>2. limit = {}
        BY <1>2, <2>1, <4>1
      <4>3. ~hw[d].capped
        BY <3>1, <4>1, <4>2 DEF Traced
      <4>4. ~hw'[d].locked /\ ~hw'[d].capped
        BY <1>2, <4>1, <4>3 DEF Restoring
      <4> QED BY <2>1, <4>4 DEF Changed
    <3> QED BY <3>2, <3>3
  <2> QED BY <2>1 DEF TraceInv
<1>8. LimitInv'
  <2>1. Owing' /\ ~untracked => OwnSnap'
    BY <1>3 DEF CardInv, LimitInv, OwnSnap, Owing, IsRecord
  <2>2. ~Owing' => OwnSnap'
    BY DEF OwnSnap
  <2> QED BY <1>2, <2>1, <2>2 DEF LimitInv
<1> QED BY <1>2, <1>4, <1>5, <1>6, <1>7, <1>8 DEF CardInv

LEMMA OwnLimitSet ==
  ASSUME CardInv, Owing
  PROVE  file.snap = Default \/ untracked \/ file.snap = asked[file.about]
BY DEF CardInv, LimitInv, OwnSnap

\* A guard that lets go: __exit__, and the exit hook after a failure.
LEMMA EndingKeeps ==
  ASSUME CardInv, Ending
  PROVE  CardInv'
<1>1. Live /\ TypeOK /\ UNCHANGED <<cardVars, told, asked, untracked, runs, moves>>
  BY DEF Ending, Leave, ExitHook, Live, history, CardInv
<1>2. PICK fail \in Outcomes :
        /\ Costs(fail) /\ GuardRestores(fail)
        /\ \/ guard' = Nobody
           \/ fail # "ok" /\ guard' = [guard EXCEPT !.phase = "exiting"]
  BY DEF Ending, Leave, ExitHook
<1>3. /\ Owing /\ file.about \in Cards
      /\ Restoring(file.about, file.snap, Target, fail)
      /\ file' = IF fail = "ok" THEN Settled ELSE file
  BY <1>1, <1>2, GuardRestoring
<1>4. IsRecord
  BY <1>3 DEF Owing
<1>5. Paying(file.about, Target, fail)
  <2>1. fail # "ok" => Owing'
    BY <1>3 DEF Owing, IsRecord
  <2> QED BY <1>1, <2>1, TargetOf DEF Paying
<1>6. guard' \in Guard /\ (Live' => Live /\ guard'.gpu = guard.gpu /\ Owing')
  <2>1. guard \in Guard
    BY <1>1 DEF TypeOK
  <2>2. CASE guard' = Nobody
    BY <2>2 DEF Nobody, Live, Guard
  <2>3. CASE fail # "ok" /\ guard' = [guard EXCEPT !.phase = "exiting"]
    BY <1>1, <1>3, <2>1, <2>3 DEF Guard, Live, Owing, IsRecord
  <2> QED BY <1>2, <2>2, <2>3
<1>7. Sound(told')
  BY <1>1 DEF Sound, CardInv, TypeOK, AdviceInv
<1>8. BoundsOK'
  BY <1>1, <1>2, BoundsKept DEF Costs, bounds
<1>9. file.snap = Default \/ untracked \/ file.snap = asked[file.about]
  BY <1>3, OwnLimitSet
<1> QED BY <1>1, <1>3, <1>4, <1>5, <1>6, <1>7, <1>8, <1>9, RestoreKeeps DEF CardInv, TypeOK

LEMMA RecoverKeeps ==
  ASSUME CardInv, NEW i \in Gpus, NEW force \in BOOLEAN, Recover(i, force),
         told.kind \in {"restore", "quarantine", "read"},
         UNCHANGED <<cardVars, guard, asked, runs, moves>>
  PROVE  CardInv'
<1>1. PICK held \in BOOLEAN, aside \in BOOLEAN, w \in Watts, limit \in SUBSET Watts,
           fail \in Outcomes : Recovers(i, held, aside, w, limit, fail)
  BY RecoveryRestoring
<1>2. TypeOK /\ GpuInv /\ enum[i] \in Cards
  BY CardOf DEF CardInv
<1>3. ~untracked' /\ held => enum[i] = file.about
  <2>1. held => file.uuid \in {NoCard, enum[i]} /\ file.uuid \in {NoCard, file.about}
    BY <1>1, <1>2, MismatchMeans DEF Recovers, CardInv, RecordInv
  <2> QED BY <1>1, <1>2, <2>1, CardsAssumption DEF Recovers
<1>4. limit # {} => w = Default \/ untracked' \/ w = asked[enum[i]]
  BY <1>1, <1>3, OwnLimitSet DEF Recovers
<1>5. untracked' \in BOOLEAN /\ (untracked => untracked')
  BY <1>1, <1>2 DEF Recovers, TypeOK
<1>6. \/ IsRecord /\ file' = Settled
      \/ ~IsRecord /\ file' = Absent
      \/ file' = file
  BY <1>1 DEF Recovers, IsRecord
<1>7. untracked' \/ Paying(enum[i], limit, fail)
  <2>1. Owing /\ ~Owing' => held /\ fail = "ok"
    BY <1>1 DEF Recovers, Owing, IsRecord
  <2> QED BY <1>1, <1>3, <2>1 DEF Paying, Recovers
<1>8. guard' \in Guard /\ (Live' => Live /\ guard'.gpu = guard.gpu /\ Owing')
  <2>1. guard' = guard /\ Live' = Live /\ guard \in Guard /\ (Live => Owing)
    BY <1>2 DEF Live, TypeOK
  <2>2. Live /\ Owing => Owing'
    BY <1>1 DEF Recovers, Owing, IsRecord
  <2> QED BY <2>1, <2>2
<1>9. Sound(told')
  <2>1. aside => ~IsRecord
    BY <1>1 DEF Recovers, IsRecord
  <2>2. held = (IsRecord /\ Mismatch(i) = "none") /\ told' = Reply(i, held, aside, fail)
    BY <1>1 DEF Recovers
  <2>3. Sound(Reply(i, held, aside, fail))
    BY <1>2, <2>1, <2>2, ReplySound
  <2> QED BY <2>2, <2>3
<1>10. BoundsOK'
  BY <1>1, <1>2, BoundsKept DEF Recovers
<1>11. Restoring(enum[i], w, limit, fail)
  BY <1>1 DEF Recovers
<1> QED BY <1>2, <1>4, <1>5, <1>6, <1>7, <1>8, <1>9, <1>10, <1>11, RestoreKeeps

LEMMA RecoveryKeeps ==
  ASSUME CardInv, RunRestore \/ LiftCap
  PROVE  CardInv'
<1>1. CASE RunRestore /\ told.gpu \in Gpus
  BY <1>1, RecoverKeeps DEF RunRestore
<1>2. CASE RunRestore /\ told.gpu \notin Gpus
  <2>1. TypeOK /\ reads \subseteq Cards
    BY DEF CardInv, TypeOK
  <2>2. /\ UNCHANGED <<enum, reads, hw, file, guard, asked, untracked, runs, moves, faults>>
        /\ told' = Say("pick", 0)
    BY <1>2 DEF RunRestore, cardVars
  <2>3. Sound(told')
    BY <2>2, SayAdvice DEF Sound
  <2>4. BoundsOK'
    BY <2>1, <2>2, BoundsKept DEF bounds
  <2> QED BY <2>1, <2>2, <2>3, <2>4, SameMachine
<1>3. CASE LiftCap
  BY <1>3, RecoverKeeps DEF LiftCap
<1> QED BY <1>1, <1>2, <1>3

\* The recorded card is searched for; where it is gone, the file is moved aside.
LEMMA FindKeeps ==
  ASSUME CardInv, FindCard
  PROVE  CardInv'
<1>1. /\ UNCHANGED <<enum, reads, hw, guard, asked, untracked>>
      /\ UNCHANGED bounds
      /\ TypeOK /\ GpuInv /\ reads \subseteq Cards
  BY DEF FindCard, cardVars, history, CardInv, TypeOK
<1>2. BoundsOK'
  BY <1>1, BoundsKept
<1>3. Sound(told')
  <2>1. \A j \in Gpus : Sound(Say("restore", j)) /\ Sound(Say("read", j))
    BY <1>1, SayAdvice, CardOf DEF Sound
  <2>2. Sound(Done)
    BY SayAdvice DEF Sound, Done
  <2> QED BY <2>1, <2>2 DEF FindCard
<1>4. CASE UNCHANGED file
  BY <1>1, <1>2, <1>3, <1>4, SameMachine
<1>5. CASE /\ IsRecord /\ file.uuid = told.card /\ told.card \notin Present
           /\ ~Live /\ file' = Absent /\ told.kind = "find"
  <2>1. told.card \in Cards /\ file.about = told.card
    BY <1>5, CardsAssumption DEF CardInv, AdviceInv, RecordInv
  <2>2. \A d \in Cards : Changed(d) => untracked
    BY <1>5, <2>1 DEF CardInv, AwayInv, TraceInv, Traced
  <2>3. ~IsRecord' /\ ~Owing' /\ ~Live' /\ Gpus' = Gpus /\ Present' = Present
    BY <1>1, <1>5 DEF IsRecord, Owing, Live, Gpus, Present, Absent
  <2>4. TypeOK'
    BY <1>1, <1>2, <1>3, <1>5, <2>3 DEF TypeOK, Sound, BoundsOK
  <2>5. GpuInv' /\ RecordInv' /\ AdviceInv'
    BY <1>1, <1>3, <2>3 DEF GpuInv, RecordInv, AdviceInv, Sound
  <2>6. AwayInv' /\ TraceInv'
    BY <1>1, <2>2, <2>3 DEF CardInv, AwayInv, TraceInv, Changed
  <2>7. LimitInv'
    BY <1>1, <2>3 DEF CardInv, LimitInv, OwnSnap, OwnPower
  <2> QED BY <2>4, <2>5, <2>6, <2>7 DEF CardInv
<1> QED BY <1>4, <1>5 DEF FindCard

LEMMA OperatorKeeps ==
  ASSUME CardInv, OperatorSetsCap
  PROVE  CardInv'
<1>1. PICK c \in Present, w \in Watts \ {Default} :
        /\ hw' = [hw EXCEPT ![c].power = w]
        /\ asked' = [asked EXCEPT ![c] = w]
  BY DEF OperatorSetsCap
<1>2. /\ UNCHANGED <<enum, reads, file, guard, told, untracked, bounds>>
      /\ ~Owing /\ ~Live /\ TypeOK /\ c \in Cards
  BY DEF OperatorSetsCap, cardVars, CardInv, TypeOK
<1>3. /\ hw' \in [Cards -> Setting] /\ asked' \in [Cards -> Watts]
      /\ \A d \in Cards : /\ hw'[d].locked = hw[d].locked /\ hw'[d].capped = hw[d].capped
                          /\ d # c => hw'[d].power = hw[d].power /\ asked'[d] = asked[d]
      /\ hw'[c].power = w /\ asked'[c] = w
  BY <1>1, <1>2 DEF TypeOK, Setting
<1>4. Gpus' = Gpus /\ Present' = Present /\ ~Owing' /\ ~Live' /\ IsRecord' = IsRecord
  BY <1>2 DEF Gpus, Present, Owing, Live, IsRecord
<1>5. TypeOK'
  <2>1. BoundsOK'
    BY <1>2, BoundsKept
  <2> QED BY <1>2, <1>3, <1>4, <2>1 DEF TypeOK, BoundsOK
<1>6. GpuInv' /\ RecordInv' /\ AdviceInv'
  BY <1>2, <1>4 DEF CardInv, GpuInv, RecordInv, AdviceInv
<1>7. AwayInv' /\ TraceInv'
  BY <1>2, <1>3, <1>4 DEF CardInv, AwayInv, TraceInv, Traced, Changed
<1>8. LimitInv'
  BY <1>2, <1>3, <1>4 DEF CardInv, LimitInv, OwnSnap, OwnPower
<1> QED BY <1>5, <1>6, <1>7, <1>8 DEF CardInv

LEMMA DamageKeeps ==
  ASSUME CardInv, Damage
  PROVE  CardInv'
<1>1. /\ UNCHANGED <<enum, reads, hw, guard, told, asked>> /\ untracked' = TRUE
      /\ file' = Unreadable /\ ~Live /\ TypeOK
  BY DEF Damage, cardVars, CardInv
<1>2. Gpus' = Gpus /\ Present' = Present /\ ~IsRecord' /\ ~Live'
  BY <1>1 DEF Gpus, Present, Live, IsRecord, Unreadable
<1>3. TypeOK'
  <2>1. BoundsOK'
    BY <1>1, BoundsKept DEF Damage
  <2> QED BY <1>1, <1>2, <2>1 DEF TypeOK, BoundsOK
<1>4. GpuInv' /\ RecordInv' /\ AdviceInv' /\ TraceInv' /\ LimitInv'
  BY <1>1, <1>2 DEF CardInv, GpuInv, RecordInv, AdviceInv, TraceInv, LimitInv
<1>5. AwayInv'
  BY <1>1, <1>2 DEF CardInv, AwayInv, Changed
<1> QED BY <1>3, <1>4, <1>5 DEF CardInv

LEMMA ReloadKeeps ==
  ASSUME CardInv, Reload
  PROVE  CardInv'
<1>1. PICK keeps \in BOOLEAN :
        hw' = [c \in Cards |-> IF keeps /\ c \in Range(enum') THEN hw[c] ELSE Stock]
  BY DEF Reload
<1>2. /\ UNCHANGED <<reads, file, guard, told, asked, untracked>>
      /\ ~Live /\ TypeOK
  BY DEF Reload, history, CardInv
<1>3. PICK n \in 1 .. Cardinality(Cards) : enum' \in [1 .. n -> Cards] /\ IsInjective(enum')
  BY DEF Reload
<1>4. enum' \in Seq(Cards) /\ n \in Nat /\ 1 \in 1..n
  BY <1>3, CardsAssumption, FS_CardinalityType
<1>5. CardsOK'
  <2>1. Present' = {enum'[k] : k \in 1..n}
    BY <1>3 DEF Present, Range
  <2>2. enum'[1] \in Present' /\ Present' \subseteq Cards
    BY <1>3, <1>4, <2>1
  <2> QED BY <1>2, <1>3, <2>2 DEF CardsOK, TypeOK
<1>6. \A c \in Cards : \/ hw'[c] = hw[c]
                       \/ hw'[c] = Stock
  BY <1>1
<1>7. \A c \in Cards \ Present' : hw'[c] = Stock
  BY <1>1 DEF Present
<1>8. /\ Stock \in Setting /\ Stock.power = Default
      /\ ~Stock.locked /\ ~Stock.capped
  BY CardsAssumption DEF Stock, Setting
<1>9. hw' \in [Cards -> Setting]
  BY <1>1, <1>2, <1>8 DEF TypeOK
<1>10. ~Live' /\ Owing' = Owing /\ IsRecord' = IsRecord
  BY <1>2 DEF Live, Owing, IsRecord
<1>11. TypeOK'
  <2>1. BoundsOK'
    BY <1>2, BoundsKept DEF Reload
  <2> QED BY <1>2, <1>5, <1>9, <1>10, <2>1 DEF TypeOK, CardsOK, BoundsOK
<1>12. GpuInv' /\ RecordInv' /\ AdviceInv'
  BY <1>2, <1>4, <1>10 DEF CardInv, GpuInv, RecordInv, AdviceInv
<1>13. AwayInv'
  BY <1>7, <1>8 DEF AwayInv, Changed
<1>14. TraceInv'
  BY <1>2, <1>6, <1>8, <1>10 DEF CardInv, TraceInv, Traced, Changed
<1>15. LimitInv'
  BY <1>2, <1>6, <1>8, <1>10 DEF CardInv, LimitInv, OwnSnap, OwnPower
<1> QED BY <1>11, <1>12, <1>13, <1>14, <1>15 DEF CardInv

LEMMA CardsInit == Init => CardInv
<1> SUFFICES ASSUME Init PROVE CardInv
  OBVIOUS
<1>1. enum \in Seq(Cards) /\ enum # <<>> /\ IsInjective(enum)
  BY CardsAssumption DEF Init
<1>2. PICK n \in Nat : enum \in [1..n -> Cards] /\ DOMAIN enum = 1..n
  BY <1>1
<1>3. n >= 1
  <2>1. CASE n = 0
    BY <1>1, <1>2, <2>1
  <2> QED BY <2>1
<1>4. CardsOK
  <2>1. Present = {enum[k] : k \in 1..n}
    BY <1>2 DEF Present, Range
  <2>2. enum[1] \in Present /\ Present \subseteq Cards
    BY <1>2, <1>3, <2>1
  <2>3. reads \subseteq Present
    BY DEF Init, Present
  <2> QED BY <1>1, <2>2, <2>3 DEF CardsOK
<1>5. \A c \in Cards : ~Changed(c) /\ hw[c] \in Setting /\ hw[c].power = Default
  BY CardsAssumption DEF Init, Stock, Changed, Setting
<1>6. ~IsRecord /\ ~Live /\ ~Owing
  BY DEF Init, Absent, IsRecord, Live, Nobody, Owing
<1>7. TypeOK
  <2>1. hw \in [Cards -> Setting]
    BY <1>5 DEF Init
  <2>2. asked \in [Cards -> Watts] /\ untracked \in BOOLEAN
    BY CardsAssumption DEF Init
  <2>3. guard \in Guard /\ told \in Advice
    BY SayAdvice DEF Init, Nobody, Guard, Done
  <2>4. BoundsOK
    BY CardsAssumption DEF Init, BoundsOK
  <2>5. file \in {Absent}
    BY DEF Init
  <2> QED BY <1>4, <1>6, <2>1, <2>2, <2>3, <2>4, <2>5 DEF TypeOK, CardsOK, BoundsOK
<1>8. GpuInv /\ RecordInv /\ AdviceInv
  BY <1>1, <1>6, SayAdvice DEF Init, GpuInv, RecordInv, AdviceInv, Done
<1>9. AwayInv /\ TraceInv /\ LimitInv
  BY <1>5, <1>6 DEF AwayInv, TraceInv, LimitInv, OwnSnap, OwnPower
<1> QED BY <1>7, <1>8, <1>9 DEF CardInv

LEMMA CardsStep == ASSUME CardInv, [Next]_vars PROVE CardInv'
<1>1. CASE \E i \in Gpus : Arm(i)
  BY <1>1, ArmKeeps
<1>2. CASE Holding
  BY <1>2, HoldingKeeps
<1>3. CASE Ending
  BY <1>3, EndingKeeps
<1>4. CASE Status \/ FixRead \/ Pick \/ Stopped \/ LoseRead
  BY <1>4, Talking
<1>5. CASE RunRestore \/ LiftCap
  BY <1>5, RecoveryKeeps
<1>6. CASE FindCard
  BY <1>6, FindKeeps
<1>7. CASE OperatorSetsCap
  BY <1>7, OperatorKeeps
<1>8. CASE Reload
  BY <1>8, ReloadKeeps
<1>9. CASE Damage
  BY <1>9, DamageKeeps
<1>10. CASE UNCHANGED vars
  BY <1>10 DEF vars, cardVars, history, bounds, CardInv, TypeOK, GpuInv, RecordInv, AwayInv,
     AdviceInv, TraceInv, LimitInv, Traced, OwnSnap, OwnPower, Changed, Owing, IsRecord, Live,
     Gpus, Present
<1> QED
  BY <1>1, <1>2, <1>3, <1>4, <1>5, <1>6, <1>7, <1>8, <1>9, <1>10
     DEF Next, Follows, Environment

-----------------------------------------------------------------------------
(* What the module promises *)

\* The invariant is inductive: whatever the order of guards, kills, reloads,
\* unread UUIDs, failing calls and recoveries.
THEOREM CardsInductive == Spec => []CardInv
<1>1. QED BY CardsInit, CardsStep, PTL DEF Spec

\* A card that is still changed is the one an unrestored record is about
\* (_check_not_busy refuses over any other card's record).
THEOREM DebtIsTraceable == Spec => []DebtTraceable
<1>1. CardInv => DebtTraceable
  BY DEF CardInv, TraceInv, Traced, DebtTraceable
<1>2. QED BY <1>1, CardsInductive, PTL

\* Where `status` exits 0, on any GPU of the machine, no card is left changed.
THEOREM CleanMeansClean == Spec => []CleanIsClean
<1>1. CardInv => CleanIsClean
  BY DEF CardInv, TraceInv, Traced, CleanIsClean, Stale
<1>2. QED BY <1>1, CardsInductive, PTL

\* A card no guard has capped has its own operator's limit, or the default.
THEOREM LimitsAreOwn == Spec => []OwnLimit
<1>1. CardInv => OwnLimit
  BY DEF CardInv, LimitInv, OwnPower, OwnLimit
<1>2. QED BY <1>1, CardsInductive, PTL

\* What a restore leaves of the card of a record, if no call failed and the
\* limit, where the record promises one, was set.
LEMMA PaidCard ==
  ASSUME CardInv, ~untracked, Owing, file.about \in Cards,
         NEW w, NEW limit, Restoring(file.about, w, limit, "ok"), file.wrote => limit # {}
  PROVE  ~hw'[file.about].locked /\ ~hw'[file.about].capped
<1>1. hw[file.about].capped => file.wrote
  BY DEF CardInv, TraceInv, Traced, Changed
<1> QED BY <1>1 DEF Restoring

LEMMA Retiring ==
  ASSUME CardInv, [Next]_vars, ~untracked, Owing, file.uuid # NoCard, ~Owing'
  PROVE  \/ file'.kind = "unreadable"
         \/ ~hw'[file.about].locked /\ ~hw'[file.about].capped
<1>1. TypeOK /\ GpuInv /\ IsRecord /\ file.uuid = file.about /\ file.about \in Cards
  BY FileKinds DEF CardInv, RecordInv, Owing, Record
<1>2. file' # file
  BY DEF Owing, IsRecord
<1>3. CASE Ending
  <2>1. Live
    BY <1>3 DEF Ending, Leave, ExitHook, Live
  <2>2. PICK fail \in Outcomes : GuardRestores(fail)
    BY <1>3 DEF Ending, Leave, ExitHook
  <2>3. Restoring(file.about, file.snap, Target, fail) /\ fail = "ok"
    BY <1>2, <2>1, <2>2, GuardRestoring
  <2> QED BY <1>1, <2>3, PaidCard, TargetOf
<1>4. CASE RunRestore \/ LiftCap
  <2>1. \E i \in Gpus, force \in BOOLEAN : Recover(i, force)
    BY <1>2, <1>4 DEF RunRestore, LiftCap
  <2>2. PICK i \in Gpus, force \in BOOLEAN : Recover(i, force)
    BY <2>1
  <2>3. PICK held \in BOOLEAN, aside \in BOOLEAN, w \in Watts, limit \in SUBSET Watts,
             fail \in Outcomes : Recovers(i, held, aside, w, limit, fail)
    BY <2>2, RecoveryRestoring
  <2>4. held /\ fail = "ok"
    BY <1>1, <1>2, <2>3 DEF Recovers, IsRecord
  <2>5. enum[i] = file.about
    BY <1>1, <2>3, <2>4, MismatchMeans DEF Recovers
  <2>6. Restoring(file.about, w, limit, "ok") /\ (file.wrote => limit # {})
    BY <2>3, <2>4, <2>5 DEF Recovers
  <2> QED BY <1>1, <2>6, PaidCard
<1>5. CASE FindCard
  <2>1. file.uuid \notin Present /\ hw' = hw
    BY <1>2, <1>5 DEF FindCard
  <2> QED BY <1>1, <2>1 DEF CardInv, AwayInv, Changed
<1>6. CASE Damage
  BY <1>6 DEF Damage, Unreadable
<1>7. CASE Holding
  <2>1. file' = [file EXCEPT !.wrote = TRUE]
    BY <1>1, <1>2, <1>7 DEF Holding, LockClocks, SetPowerLimit, Announced, Kill
  <2> QED BY <1>1, <2>1, FileKinds DEF Owing, IsRecord, Record
<1>8. CASE \E i \in Gpus : Arm(i)
  BY <1>8 DEF Arm, Busy
<1> QED
  BY <1>2, <1>3, <1>4, <1>5, <1>6, <1>7, <1>8
     DEF Next, Follows, Environment, Status, FixRead, Pick, Stopped, OperatorSetsCap, Reload,
         LoseRead, vars

\* A record with a UUID is retired only over its own card put back, or gone:
\* neither recovery on another card nor a search that fails clears it.
THEOREM RetiredOnlyBack == Spec => RetiredMeansBack
<1>1. CardInv /\ [Next]_vars =>
        [~untracked /\ Owing /\ file.uuid # NoCard /\ ~(IsRecord /\ ~file.restored)'
           => \/ file'.kind = "unreadable"
              \/ ~hw'[file.about].locked /\ ~hw'[file.about].capped]_vars
  BY Retiring DEF Owing
<1>2. QED BY <1>1, CardsInductive, PTL DEF Spec, RetiredMeansBack
=============================================================================
