SPECIFICATION FairSpec
CONSTANTS
  s1 = s1
  s2 = s2
  c1 = c1
  Sessions = {s1, s2}
  NoSession = NoSession
  Clients = {c1}
  NoClient = NoClient
  MaxErrors = 1
  Faults = {"create"}
CHECK_DEADLOCK FALSE
INVARIANTS
  OneOwner
  OneClient
  HandlerUsesLiveClient
  OneAnswer
  AnsweredWhenGathered
  StatsReadAllocated
  NothingAfterFree
  NoCircularWait
PROPERTIES
  LockGivenUp
  ErrorRecovered
  ExitCompletes
