----------------------------- MODULE MCLoadGen ------------------------------
(***************************************************************************)
(* Two requests, one due later; two workers in a closed loop; an endpoint   *)
(* with and without a scheme.                                              *)
(***************************************************************************)
EXTENDS LoadInvariant

MCArrival == <<0, 1>>
BothModes == {"open", "closed"}
AnyEndpoint == {"url", "bare"}
=============================================================================
