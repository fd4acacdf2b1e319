-------------------------- MODULE MCDetectPipeline ---------------------------
(***************************************************************************)
(* DetectPipeline for model checking: cameras and workers are model values *)
(* and the capacities numbers, given in Detect.cfg.                        *)
(***************************************************************************)
EXTENDS DetectPipeline

=============================================================================
