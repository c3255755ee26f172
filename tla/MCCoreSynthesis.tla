-------------------------- MODULE MCCoreSynthesis ----------------------------
(* Instances of CoreSynthesis for TLC.                                     *)
EXTENDS CoreSynthesis, TLC
=============================================================================
