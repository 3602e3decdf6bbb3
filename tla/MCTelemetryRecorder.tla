------------------------ MODULE MCTelemetryRecorder -------------------------
(***************************************************************************)
(* Two streams over rings of two samples.                                  *)
(***************************************************************************)
EXTENDS RecorderInvariant

MCOrder == <<"power", "gpu_util">>
MCOneStream == <<"power">>
=============================================================================
