SPECIFICATION Spec
CONSTANTS
  c1 = c1
  c2 = c2
  h1 = h1
  h2 = h2
  Clients = {c1, c2}
  Hashes = {h1, h2}
  Hash <- DistinctHash
  Sessions = {m1, m2}
  NoSession = NoSession
  MaxSessions = 2
  Queues = {q1, q2}
  PendingExpiry = 0
  Timers = {t1, t2}
  NoTimer = NoTimer
  Workers = 2
  MaxCandidates = 2
  Faults = {"create", "offer", "candidate"}
SYMMETRY Symmetry
CHECK_DEADLOCK FALSE
INVARIANTS
  TypeOK
  SessionListSound
  PeerTableSound
  OnePendingQueue
  CandidatesOnceInTurn
  KnownTimerInQueue
PROPERTIES
  FreedOnlyWhenTerminated
  ImplementsPool
