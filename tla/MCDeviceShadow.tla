---------------------------- MODULE MCDeviceShadow ----------------------------
(* Instances of DeviceShadow for TLC.                                      *)
EXTENDS DeviceShadow

CONSTANTS pan, tilt, zoom

\* The angles that clamp: below 0, which unsigned int takes for a large one,
\* within the range, above it.
SomeNumbers == {-1, 90}
=============================================================================
