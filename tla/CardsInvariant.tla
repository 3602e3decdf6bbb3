--------------------------- MODULE CardsInvariant ---------------------------
(***************************************************************************)
(* The inductive invariant behind the safety of Cards.                     *)
(***************************************************************************)
EXTENDS Cards

\* The GPUs are numbered from 1.
GpuInv == enum \in Seq(Cards)

\* A UUID in a record is that of the card the guard held, and while the guard
\* lives that card is where it was.
RecordInv ==
  /\ IsRecord => file.uuid \in {NoCard, file.about}
  /\ Live => file.about = enum[guard.gpu]

\* A card that is gone has lost its settings.
AwayInv == \A c \in Cards \ Present : ~Changed(c)

\* Only a card that has a UUID is searched for.
AdviceInv == told.kind = "find" => told.card \in Cards

\* A change is in the record of its card, a cap with the promise to lift it.
Traced(c) == Owing /\ file.about = c /\ (hw[c].capped => file.wrote)
TraceInv == untracked \/ \A c \in Cards : Changed(c) => Traced(c)

\* A limit that is put back is the operator's.
OwnSnap == Owing => file.snap \in {asked[file.about], Default}
OwnPower(c) == hw[c].capped \/ hw[c].power \in {asked[c], Default}
LimitInv == untracked \/ (OwnSnap /\ \A c \in Cards : OwnPower(c))

CardInv == TypeOK /\ GpuInv /\ RecordInv /\ AwayInv /\ AdviceInv /\ TraceInv /\ LimitInv
=============================================================================
