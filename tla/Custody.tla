------------------------------ MODULE Custody -------------------------------
(***************************************************************************)
(* What the state file promises about the device.  At most one party has   *)
(* custody; only while somebody has it may the device differ from what the *)
(* operator left; and custody ends only over a device that has been put    *)
(* back.  Custody outlives the party: a dead holder still holds.           *)
(***************************************************************************)
CONSTANTS Holders,   \* the parties
          Nobody     \* not one of them

VARIABLES holder, modified

TypeOK == /\ holder \in Holders \cup {Nobody}
          /\ modified \in BOOLEAN

Init == holder = Nobody /\ modified = FALSE

\* Custody passes from nobody, never from one holder to another.
Claim == /\ holder = Nobody
         /\ holder' \in Holders
         /\ UNCHANGED modified

\* The device is changed, or put back, while somebody has custody.
Touch == /\ holder \in Holders
         /\ modified' \in BOOLEAN
         /\ UNCHANGED holder

\* Custody ends with the device as the operator left it.
Release == /\ holder \in Holders
           /\ ~modified
           /\ holder' = Nobody
           /\ UNCHANGED modified

Next == Claim \/ Touch \/ Release

Spec == Init /\ [][Next]_<<holder, modified>>
=============================================================================
