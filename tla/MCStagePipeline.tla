-------------------------- MODULE MCStagePipeline ---------------------------
(* Instances of StagePipeline for TLC.  The stages, splits and labels are  *)
(* those of the code; only the commands and the crashes are bounded.       *)
EXTENDS StagePipeline, TLC
=============================================================================
