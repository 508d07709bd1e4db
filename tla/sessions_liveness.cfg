SPECIFICATION FairSpec
CONSTANTS
  c1 = c1
  c2 = c2
  h1 = h1
  h2 = h2
  Clients = {c1, c2}
  Hashes = {h1, h2}
  Hash <- DistinctHash
  Sessions = {m1, m2}
  NoSession = NoSession
  MaxSessions = 2
  Queues = {q1}
  PendingExpiry = 1
  Timers = {t1}
  NoTimer = NoTimer
  Workers = 1
  MaxCandidates = 2
  Faults = {"create"}
CHECK_DEADLOCK FALSE
INVARIANTS
  EverySessionReachable
  NoCandidateSkipped
PROPERTIES
  TerminatedIsFreed
  PendingQueueGoes
  InterruptCloses
