--------------------------- MODULE MCMediaPipeline ---------------------------
(* Instances of MediaPipeline for TLC.                                     *)
EXTENDS MediaPipeline

CONSTANTS m1, m2, m3
=============================================================================
