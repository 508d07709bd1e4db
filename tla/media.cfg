SPECIFICATION FairSpec
CONSTANTS
  m1 = m1
  m2 = m2
  m3 = m3
  Sessions = {m1, m2, m3}
  NoSession = NoSession
  MaxThreads = 3
  Faults = {"pipeline"}
CHECK_DEADLOCK FALSE
INVARIANTS
  OneMediaSender
  FramesToLiveSessions
  NoSenderAfterFree
PROPERTY MediaSenderJoined
