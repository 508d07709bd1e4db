------------------------ MODULE MCSharedConfiguration ------------------------
(* Instances of SharedConfiguration for TLC.                               *)
EXTENDS SharedConfiguration

CONSTANTS s1, s2, c1
=============================================================================
