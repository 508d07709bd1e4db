--------------------------- MODULE MCAudioReceiver ---------------------------
(* Instances of AudioReceiver for TLC.                                     *)
EXTENDS AudioReceiver

CONSTANTS s1, s2
=============================================================================
