SPECIFICATION FairSpec
CONSTANTS
  s1 = s1
  s2 = s2
  Sessions = {s1, s2}
  Faults = {"codec", "pipeline"}
CHECK_DEADLOCK FALSE
INVARIANTS
  SessionOutlivesReceiver
  FrameFindsSource
PROPERTY FreeEnds
