------------------------------- MODULE MCCards -------------------------------
(***************************************************************************)
(* Instances of Cards for TLC.                                             *)
(***************************************************************************)
EXTENDS CardsInvariant

CONSTANTS c1, c2, c3

TwoCards == <<c1, c2>>
ThreeCards == <<c1, c2, c3>>
=============================================================================
