-------------------------------- MODULE Cards --------------------------------
(***************************************************************************)
(* One state file and a machine with several cards: whose record is it?    *)
(*                                                                         *)
(* A record names the card it is about by index and, where it could be     *)
(* read, by UUID.  Indexes are an enumeration order and may move.  The     *)
(* operator runs the status command and the recovery command, and does     *)
(* next what they say: told is the last thing said to him.                 *)
(*                                                                         *)
(* GPU i of the model is --gpu (i - 1).  The steps of a guard and of the   *)
(* recovery command are those of GpuGuard and Recovery, seen from afar.    *)
(***************************************************************************)
EXTENDS Naturals, Sequences, FiniteSets, Functions

CONSTANTS Cards,      \* the cards, as their UUIDs
          NoCard,     \* a UUID that was not read
          Order,      \* the first enumeration of the cards
          Watts,      \* power limits
          Default,    \* the factory limit
          MaxRuns,    \* bound on guards
          MaxMoves,   \* bound on driver reloads and reboots
          MaxFaults   \* bound on failing calls, on unread UUIDs, on damage

ASSUME CardsAssumption ==
  /\ NoCard \notin Cards /\ IsFiniteSet(Cards)
  /\ Order \in Seq(Cards) /\ Order # <<>> /\ IsInjective(Order)
  /\ Watts \subseteq Nat /\ Default \in Watts
  /\ {MaxRuns, MaxMoves, MaxFaults} \subseteq Nat

VARIABLES enum,       \* enum[i]: the card that is GPU i
          reads,      \* the cards whose UUID can be read
          hw,         \* what each card is set to
          file,       \* the state file
          guard,      \* the process that holds a card
          told,       \* what the operator does next
          asked,      \* history: the limit the operator set on each card
          untracked,  \* history: has evidence been lost, or an index alone misled
          runs, moves, faults

cardVars == <<enum, reads>>
bounds == <<runs, moves, faults>>
history == <<asked, untracked>>
vars == <<cardVars, hw, file, guard, told, history, bounds>>

\* capped: the limit is one a guard has written.
Setting == [locked: BOOLEAN, power: Watts, capped: BOOLEAN]
Stock == [locked |-> FALSE, power |-> Default, capped |-> FALSE]

\* about is the card the guard held, whatever the record can say of it.
Record == [kind: {"record"}, gpu: Nat \ {0}, uuid: Cards \cup {NoCard}, about: Cards,
           snap: Watts, wrote: BOOLEAN, restored: BOOLEAN]
Absent == [kind |-> "absent"]
Unreadable == [kind |-> "unreadable"]

Nobody == [phase |-> "none", gpu |-> 0]
Guard == [phase: {"none", "armed", "exiting"}, gpu: Nat]

Say(what, i) == [kind |-> what, gpu |-> i, card |-> NoCard]
Done == Say("done", 0)
Find(c) == [kind |-> "find", gpu |-> 0, card |-> c]
Advice == [kind: {"done", "check", "restore", "quarantine", "read", "find", "stop", "pick"},
           gpu: Nat, card: Cards \cup {NoCard}]

Gpus == DOMAIN enum
Present == Range(enum)
IsRecord == file.kind = "record"
Owing == IsRecord /\ ~file.restored
Live == guard.phase # "none"

Failing == faults < MaxFaults /\ faults' = faults + 1

\* The calls of a restore, any of which may fail.
Outcomes == {"ok", "clocks", "power", "file"}
Costs(fail) == IF fail = "ok" THEN UNCHANGED faults ELSE Failing

-----------------------------------------------------------------------------
Init == /\ enum = Order
        /\ reads \in SUBSET Range(Order)
        /\ hw = [c \in Cards |-> Stock]
        /\ file = Absent
        /\ guard = Nobody
        /\ told = Done
        /\ asked = [c \in Cards |-> Default]
        /\ untracked = FALSE
        /\ runs = 0 /\ moves = 0 /\ faults = 0

\* _controller_identity.
Identity(i) == IF enum[i] \in reads THEN enum[i] ELSE NoCard

\* Mutant: a UUID that cannot be read is passed over, and the index decides.
MismatchByIndex(i) ==
  LET u == Identity(i)
  IN IF u # NoCard /\ file.uuid # NoCard
       THEN IF u = file.uuid THEN "none"
            ELSE IF file.gpu = i THEN "reenumerated" ELSE "other"
     ELSE IF file.gpu = i THEN "none" ELSE "other"

\* _device_mismatch.
Mismatch(i) ==
  LET u == Identity(i)
  IN CASE u # NoCard /\ u = file.uuid -> "none"
       [] u # NoCard /\ file.uuid \notin {u, NoCard} ->
            IF file.gpu = i THEN "reenumerated" ELSE "other"
       [] u = NoCard /\ file.uuid # NoCard -> "unverifiable"
       [] file.uuid = NoCard -> IF file.gpu = i THEN "none" ELSE "other"

\* Mutant: the recorded index is advised even when it has just been refused.
WayToLoops(why) ==
  CASE why = "unverifiable" -> "read"
    [] why \in {"reenumerated", "other"} -> "restore"

\* What a mismatch makes of the recorded index.
WayTo(why) ==
  CASE why = "reenumerated" -> "find"
    [] why = "unverifiable" -> "read"
    [] why = "other" -> "restore"

Elsewhere(why, i) ==
  LET way == WayTo(why)
  IN CASE way = "find" -> Find(file.uuid)
       [] way = "read" -> Say(way, i)
       [] way = "restore" -> Say(way, file.gpu)

\* Mutant: a record of another card is not this card's business.
StaleHere(i) == \/ file.kind = "unreadable"
                \/ hw[enum[i]].power # Default
                \/ Owing /\ Mismatch(i) = "none"

\* check_stale_state: the limit is read from the card, a lock only asserted.
Stale(i) == \/ file.kind = "unreadable"
            \/ hw[enum[i]].power # Default
            \/ Owing

\* The recommendation.
Recommended(i) ==
  CASE ~Stale(i) -> Done
    [] Owing /\ Mismatch(i) # "none" -> Elsewhere(Mismatch(i), i)
    [] Owing /\ Mismatch(i) = "none" /\ Live -> Say("stop", i)
    [] OTHER -> Say("restore", IF IsRecord THEN file.gpu ELSE i)

-----------------------------------------------------------------------------
\* Mutant: a record about another card does not keep a guard from arming.
BusyOnThisCard(i) == file.kind = "unreadable" \/ (Owing /\ Mismatch(i) = "none")

\* _check_not_busy: not gated on the identity of the card.
Busy(i) == file.kind = "unreadable" \/ Owing

\* arm: the claim is published with what the card says of itself.
Arm(i) ==
  /\ runs < MaxRuns
  /\ ~Live /\ ~Busy(i)
  /\ guard' = [phase |-> "armed", gpu |-> i]
  /\ file' = [kind |-> "record", gpu |-> i, uuid |-> Identity(i), about |-> enum[i],
              snap |-> hw[enum[i]].power, wrote |-> FALSE, restored |-> FALSE]
  /\ runs' = runs + 1
  /\ UNCHANGED <<cardVars, hw, told, history, moves, faults>>

\* A write the record announces first; the process may be killed between.
Announced(card, setting, record) ==
  /\ guard.phase = "armed"
  /\ file' = record
  /\ \/ hw' = [hw EXCEPT ![card] = setting] /\ UNCHANGED guard
     \/ guard' = Nobody /\ UNCHANGED hw
  /\ UNCHANGED <<cardVars, told, history, bounds>>

LockClocks == LET c == enum[guard.gpu]
              IN Announced(c, [hw[c] EXCEPT !.locked = TRUE], file)

SetPowerLimit(w) ==
  LET c == enum[guard.gpu]
  IN Announced(c, [hw[c] EXCEPT !.power = w, !.capped = TRUE],
               IF IsRecord THEN [file EXCEPT !.wrote = TRUE] ELSE file)

\* A card after a restore: the clocks, then the limit, if there is one to set.
Restored(card, limit, fail) ==
  [locked |-> fail = "clocks" /\ hw[card].locked,
   power |-> IF limit = {} \/ fail = "power" THEN hw[card].power ELSE CHOOSE w \in limit : TRUE,
   capped |-> (limit = {} \/ fail = "power") /\ hw[card].capped]

Settled == [file EXCEPT !.restored = TRUE]
Target == IF Owing /\ file.wrote THEN {file.snap} ELSE {}

\* GpuGuard.restore.
GuardRestores(fail) ==
  LET c == enum[guard.gpu]
  IN /\ hw' = [hw EXCEPT ![c] = Restored(c, Target, fail)]
     /\ file' = IF fail = "ok" THEN Settled ELSE file

\* The hold ends, or the process is told to stop: __exit__ restores.  After a
\* failure NVML stays open and the exit hook tries again.
Leave ==
  /\ guard.phase = "armed"
  /\ \E fail \in Outcomes :
       /\ Costs(fail) /\ GuardRestores(fail)
       /\ guard' = IF fail = "ok" THEN Nobody ELSE [guard EXCEPT !.phase = "exiting"]
  /\ UNCHANGED <<cardVars, told, history, runs, moves>>

ExitHook ==
  /\ guard.phase = "exiting"
  /\ \E fail \in Outcomes : Costs(fail) /\ GuardRestores(fail)
  /\ guard' = Nobody
  /\ UNCHANGED <<cardVars, told, history, runs, moves>>

Kill == /\ Live
        /\ guard' = Nobody
        /\ UNCHANGED <<cardVars, hw, file, told, history, bounds>>

-----------------------------------------------------------------------------
\* `status`, on the GPU the operator thinks of or the one he is to look at
\* again.  A GPU that does not exist cannot be opened.
Status ==
  /\ \/ told.kind = "done" /\ \E i \in Gpus : told' = Recommended(i)
     \/ /\ told.kind = "check"
        /\ told' = IF told.gpu \in Gpus THEN Recommended(told.gpu) ELSE Say("pick", 0)
  /\ UNCHANGED <<cardVars, hw, file, guard, history, bounds>>

\* What the command says when it is done.
Reply(i, held, aside, fail) ==
  CASE file.kind = "unreadable" /\ ~aside -> Say("quarantine", i)
    [] IsRecord /\ ~held -> Elsewhere(Mismatch(i), i)
    [] held /\ Live -> Say("stop", i)
    [] (aside \/ (held /\ ~Live) \/ file = Absent) /\ fail # "ok" -> Say(told.kind, i)
    [] OTHER -> Say("check", i)

\* Mutant: the record is cleared although a call failed.
ClearedUnpaid(held, fail) == held /\ ~Live

Cleared(held, fail) == held /\ ~Live /\ fail = "ok"

\* restore_from_state_file: a record of another card is neither applied nor
\* cleared, nor is a live guard's cleared.
Recover(i, force) ==
  \E fail \in Outcomes :
    LET c == enum[i]
        held == IsRecord /\ Mismatch(i) = "none"
        aside == told.kind = "quarantine" /\ file.kind = "unreadable"
        limit == IF held /\ Target # {} THEN Target
                 ELSE IF force THEN {Default} ELSE {}
    IN /\ Costs(fail)
       /\ hw' = [hw EXCEPT ![c] = Restored(c, limit, fail)]
       /\ file' = CASE Cleared(held, fail) -> Settled
                    [] aside /\ fail # "file" -> Absent
                    [] OTHER -> file
       /\ untracked' = (untracked \/ (held /\ file.uuid = NoCard /\ c # file.about))
       /\ told' = Reply(i, held, aside, fail)

RunRestore ==
  /\ told.kind \in {"restore", "quarantine"}
  /\ IF told.gpu \in Gpus
       THEN Recover(told.gpu, FALSE)
       ELSE told' = Say("pick", 0) /\ UNCHANGED <<hw, file, untracked, faults>>
  /\ UNCHANGED <<cardVars, guard, asked, runs, moves>>

\* --force-power-default, offered while nothing can say whose the record is.
LiftCap ==
  /\ told.kind = "read" /\ told.gpu \in Gpus
  /\ hw[enum[told.gpu]].power # Default
  /\ Recover(told.gpu, TRUE)
  /\ UNCHANGED <<cardVars, guard, asked, runs, moves>>

\* A driver reload gives the UUID back.
FixRead ==
  /\ told.kind = "read"
  /\ reads' = IF told.gpu \in Gpus THEN reads \cup {enum[told.gpu]} ELSE reads
  /\ told' = Say("check", told.gpu)
  /\ UNCHANGED <<enum, hw, file, guard, history, bounds>>

\* _find_the_recorded_card: where it is now, or the file is moved aside.
FindCard ==
  /\ told.kind = "find"
  /\ LET gone == IsRecord /\ file.uuid = told.card /\ told.card \notin Present
     IN \/ /\ \E j \in Gpus :
                /\ enum[j] = told.card
                /\ told' = Say(IF enum[j] \in reads THEN "restore" ELSE "read", j)
           /\ UNCHANGED file
        \/ gone /\ ~Live /\ file' = Absent /\ told' = Done
        \/ told.card \notin Present /\ (Live \/ ~gone) /\ told' = Done /\ UNCHANGED file
  /\ UNCHANGED <<cardVars, hw, guard, history, bounds>>

\* "List the devices and pass one of those indices."
Pick == /\ told.kind = "pick"
        /\ \E j \in Gpus : told' = Say("restore", j)
        /\ UNCHANGED <<cardVars, hw, file, guard, history, bounds>>

\* The guard's process has been stopped.
Stopped == /\ told.kind = "stop"
           /\ ~Live
           /\ told' = Say("check", told.gpu)
           /\ UNCHANGED <<cardVars, hw, file, guard, history, bounds>>

-----------------------------------------------------------------------------
\* The operator sets a limit by other means, on a card nothing is owed on.
OperatorSetsCap ==
  /\ ~Live /\ ~Owing
  /\ \E c \in Present, w \in Watts \ {Default} :
       /\ ~hw[c].capped
       /\ hw' = [hw EXCEPT ![c].power = w]
       /\ asked' = [asked EXCEPT ![c] = w]
  /\ UNCHANGED <<cardVars, file, guard, told, untracked, bounds>>

\* A reboot or a driver reload: cards are enumerated anew, one may be gone and
\* one may have come; settings may be lost, and are with a card that is gone.
Reload ==
  /\ moves < MaxMoves /\ moves' = moves + 1
  /\ ~Live
  /\ enum' \in UNION {{e \in [1 .. n -> Cards] : IsInjective(e)} : n \in 1 .. Cardinality(Cards)}
  /\ \E keeps \in BOOLEAN :
       hw' = [c \in Cards |-> IF keeps /\ c \in Range(enum') THEN hw[c] ELSE Stock]
  /\ UNCHANGED <<reads, file, guard, told, history, runs, faults>>

\* The UUID of a card can no longer be read.
LoseRead ==
  /\ Failing
  /\ \E c \in reads : reads' = reads \ {c}
  /\ UNCHANGED <<enum, hw, file, guard, told, history, runs, moves>>

\* Not this package's doing: a full disk, a hand edit, another version.
Damage ==
  /\ Failing
  /\ ~Live /\ IsRecord
  /\ file' = Unreadable
  /\ untracked' = TRUE
  /\ UNCHANGED <<cardVars, hw, guard, told, asked, runs, moves>>

-----------------------------------------------------------------------------
Holding == LockClocks \/ (\E w \in Watts : SetPowerLimit(w)) \/ Kill
Ending == Leave \/ ExitHook
Follows == Status \/ RunRestore \/ LiftCap \/ FixRead \/ FindCard \/ Pick \/ Stopped
Environment == OperatorSetsCap \/ Reload \/ LoseRead \/ Damage

Next == \/ \E i \in Gpus : Arm(i)
        \/ Holding
        \/ Ending
        \/ Follows
        \/ Environment

Spec == Init /\ [][Next]_vars

\* A hold ends, a process that is exiting exits, and an operator who has been
\* told what to do does it.
FairSpec == Spec /\ WF_vars(Ending) /\ WF_vars(Follows)

-----------------------------------------------------------------------------
TypeOK ==
  /\ IsInjective(enum) /\ Present \subseteq Cards /\ Present # {}
  /\ reads \subseteq Cards
  /\ hw \in [Cards -> Setting]
  /\ file \in Record \cup {Absent, Unreadable}
  /\ guard \in Guard /\ told \in Advice
  /\ asked \in [Cards -> Watts] /\ untracked \in BOOLEAN
  /\ runs \in 0 .. MaxRuns /\ moves \in 0 .. MaxMoves /\ faults \in 0 .. MaxFaults
  /\ Live => guard.gpu \in Gpus /\ Owing

Changed(c) == hw[c].locked \/ hw[c].capped

\* One state file, one card: whatever the order of guards, crashes, reloads
\* and recoveries, a card that is still changed is the one an unrestored
\* record is about (_check_not_busy refuses over any other card's record).
DebtTraceable ==
  /\ TypeOK
  /\ untracked \/ \A c \in Cards : Changed(c) => Owing /\ file.about = c

\* The module's promise to whoever reads `status`: when it exits 0, on any GPU
\* of the machine, no card is left changed, not even another one.
CleanIsClean ==
  ~untracked => \A i \in Gpus : ~Stale(i) => \A c \in Cards : ~Changed(c)

\* A card no guard has capped is at the limit its operator set, or at the
\* default: recovery never puts one card's limit on another ("mis-caps the
\* wrong card").
OwnLimit ==
  untracked \/ \A c \in Cards : hw[c].capped \/ hw[c].power \in {asked[c], Default}

\* A record that names its card by UUID is retired only once that card is back
\* as it was, or gone: recovery run on another card, or on one that cannot be
\* told from another, leaves it ("clears the right card's evidence").
RetiredMeansBack ==
  [][~untracked /\ Owing /\ file.uuid # NoCard /\ ~(IsRecord /\ ~file.restored)'
       => \/ file'.kind = "unreadable"
          \/ ~hw'[file.about].locked /\ ~hw'[file.about].capped]_vars

\* A debt nobody is there to pay is settled by an operator who does what
\* `status` and `restore` tell him, wherever he starts and however the indexes
\* have moved, if the index in the record still exists: the advice ends.
Outstanding == file.kind = "unreadable" \/ (Owing /\ ~Live)
IndexExists == Owing => file.gpu \in Gpus
AdviceEnds == []IndexExists => (Outstanding ~> ~Outstanding)

\* "One sentence that terminates, for both the present and absent cases": the
\* same of any record with a UUID.  It is not so once its index is not there.
AdviceAlwaysEnds == (Owing /\ ~Live /\ file.uuid # NoCard) ~> ~Outstanding
=============================================================================
