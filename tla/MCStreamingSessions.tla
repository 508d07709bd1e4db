------------------------ MODULE MCStreamingSessions ------------------------
(* Instances of StreamingSessions for TLC.                                 *)
EXTENDS StreamingSessions, TLC

CONSTANTS c1, c2, h1, h2

DistinctHash  == (c1 :> h1) @@ (c2 :> h2)
CollidingHash == (c1 :> h1) @@ (c2 :> h1)

MemorySymmetry ==
  Permutations(Sessions) \cup Permutations(Queues) \cup Permutations(Timers)

\* The two clients change places and their hashes with them, which DistinctHash
\* does not notice.
SwapClients == (c1 :> c2) @@ (c2 :> c1) @@ (h1 :> h2) @@ (h2 :> h1)

Symmetry == MemorySymmetry \cup {SwapClients}
=============================================================================
