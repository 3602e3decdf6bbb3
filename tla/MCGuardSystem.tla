---------------------------- MODULE MCGuardSystem ---------------------------
(***************************************************************************)
(* Instances of GuardSystem for TLC: two guard processes, two caps.        *)
(***************************************************************************)
EXTENDS GuardInvariant

CONSTANTS p1, p2, factory, capped

NoSwitch == {{}}
NoForce == SUBSET {"quarantine"}
AllSwitches == SUBSET {"force", "quarantine"}
NoRecovery == {}
=============================================================================
