-------------------------- MODULE SessionPool_proofs --------------------------
(***************************************************************************)
(* The registry implements SessionPool: under the mapping Phase every step *)
(* of the registry starts, ends or releases one session, closes the pool,  *)
(* or changes nothing the pool knows.                                      *)
(*                                                                         *)
(* The registry counts its list where the pool counts its sessions, so     *)
(* that an offer is a Start needs the list to be exact and no session to   *)
(* be in the middle of its free: then the count is the number of sessions  *)
(* allocated.  That a free is under way only while the main thread holds   *)
(* the lock is FreeHoldsLock.                                              *)
(***************************************************************************)
EXTENDS StreamingSessions_proofs, FiniteSetTheorems

\* The step of the abstract pool that a step of the registry is.
PoolStep == [Pool!Next]_(Pool!vars)

\* A session is in the middle of its free only while the main thread has the
\* lock, in its scan or at the exit, so that no handler runs.
FreeHoldsLock == freed # NoSession => pc \in {"scan", "emptying"}

LEMMA FreeHoldsLockStep == FreeHoldsLock /\ [Next]_vars => FreeHoldsLock'
<1> SUFFICES ASSUME FreeHoldsLock, [Next]_vars PROVE FreeHoldsLock'
  OBVIOUS
<1> USE DEF loop, join
<1>1. ASSUME UNCHANGED <<pc, freed>> PROVE FreeHoldsLock'
  BY <1>1 DEF FreeHoldsLock
<1>2. CASE \/ \E c \in Clients : SignalingMessageReceived(c)
           \/ StartStatsTimer \/ Tick \/ ReceiverEnds \/ SkipSession
           \/ UNCHANGED vars
  BY <1>1, <1>2
  DEF SignalingMessageReceived, OfferAtCapacity, OfferCreateFails,
      OfferHandlingFails, OfferAccepted, OfferDrainFails, QueueCandidate,
      SubmitCandidate, Handle, StartStatsTimer, Tick, ReceiverEnds, SkipSession,
      vars
<1>3. CASE \/ \E s \in Sessions, newState \in PeerConnectionStates :
                ConnectionStateChange(s, newState)
           \/ SigintHandler
  BY <1>3 DEF ConnectionStateChange, SigintHandler, Woken, FreeHoldsLock
<1>4. CASE JoinMediaSender \/ CleanupLoop
  BY <1>1, <1>2, <1>4
  DEF JoinMediaSender, CleanupLoop, LockConfiguration, CleanupSession,
      JoinReceiver, FinishPass, WaitTimeout, LeaveLoop, FreeSignalingClient,
      FreeConfiguration, FreeListedSession, ConfigurationFreed, FreeHoldsLock
<1> QED
  BY <1>2, <1>3, <1>4 DEF Next

LEMMA FreeHoldsLockCorrect == Spec => []FreeHoldsLock
<1>1. Init => FreeHoldsLock
  BY DEF Init, FreeHoldsLock
<1> QED
  BY <1>1, FreeHoldsLockStep, PTL DEF Spec

\* Which sessions are busy is which are allocated.
LEMMA BusyIsAllocated ==
  ASSUME TypeOK
  PROVE  Pool!Busy = DOMAIN session
  BY DEF TypeOK, Pool!Busy, Phase

\* The list has as many entries as there are sessions, while no session is being
\* freed.
LEMMA CountIsCardinality ==
  ASSUME TypeOK, SessionListSound, FirstListed = 0, freed = NoSession
  PROVE  Cardinality(DOMAIN session) = sessionCount
<1>0. /\ DOMAIN session = {sessionList[i] : i \in 0 .. sessionCount - 1}
      /\ \A i, j \in 0 .. sessionCount - 1 : sessionList[i] = sessionList[j] => i = j
  BY DEF SessionListSound, Listed
<1> DEFINE Entry == [i \in 1 .. sessionCount |-> sessionList[i - 1]]
<1>1. sessionCount \in Nat
  BY SessionsAssumption DEF TypeOK
<1>2. \A i \in 1 .. sessionCount : i - 1 \in 0 .. sessionCount - 1
  BY <1>1
<1>3. \A i \in 0 .. sessionCount - 1 : i + 1 \in 1 .. sessionCount /\ (i + 1) - 1 = i
  BY <1>1
<1>4. Entry \in [1 .. sessionCount -> DOMAIN session]
  BY <1>0, <1>2
<1>5. \A t \in DOMAIN session : \E i \in 1 .. sessionCount : Entry[i] = t
  <2> TAKE t \in DOMAIN session
  <2>1. PICK i \in 0 .. sessionCount - 1 : sessionList[i] = t
    BY <1>0
  <2>2. i + 1 \in 1 .. sessionCount /\ Entry[i + 1] = t
    BY <1>3, <2>1
  <2> QED
    BY <2>2
<1>6. \A i, j \in 1 .. sessionCount : Entry[i] = Entry[j] => i = j
  BY <1>0, <1>1, <1>2
<1> HIDE DEF Entry
<1>7. Entry \in Bijection(1 .. sessionCount, DOMAIN session)
  BY <1>4, <1>5, <1>6 DEF Bijection, Injection, Surjection, IsInjective
<1>8. IsFiniteSet(1 .. sessionCount) /\ Cardinality(1 .. sessionCount) = sessionCount
  BY <1>1, FS_Interval
<1> QED
  BY <1>7, <1>8, FS_Bijection DEF ExistsBijection

\* A session an offer adds is a Start: there is room for it.
LEMMA NewSessionStarts ==
  ASSUME RegistryInv, FreeHoldsLock, HandlerRuns, UNCHANGED pc,
         NEW s, NEW c, NEW handed,
         sessionCount < MaxSessions, NewSession(s, c, handed)
  PROVE  Pool!Start(s) /\ s \in Sessions
<1>1. /\ TypeOK /\ SessionListSound
      /\ FirstListed = 0 /\ freed = NoSession /\ pc # "closed"
      /\ s \in Sessions \ DOMAIN session
  BY DEF RegistryInv, HandlerRuns, FirstListed, FreeHoldsLock, NewSession
<1>2. Pool!Cardinality(Pool!Busy) < MaxSessions
  <2>1. Pool!Cardinality(Pool!Busy) = Cardinality(Pool!Busy)
    BY DEF Pool!Cardinality, Cardinality
  <2> QED
    BY <1>1, <2>1, BusyIsAllocated, CountIsCardinality
<1>3. Phase[s] = "free"
  BY <1>1 DEF Phase
<1>4. /\ DOMAIN session' = DOMAIN session \cup {s}
      /\ \A t \in DOMAIN session : session'[t] = session[t]
      /\ session'[s].terminateFlag = FALSE
  BY <1>1 DEF NewSession
<1>5. Phase' = [Phase EXCEPT ![s] = "streaming"]
  BY <1>1, <1>4 DEF Phase
<1>6. (pc # "closed")' = (pc # "closed")
  OBVIOUS
<1> HIDE DEF Phase
<1>7. Pool!Start(s)
  BY <1>1, <1>2, <1>3, <1>5, <1>6 DEF Pool!Start
<1> QED
  BY <1>1, <1>7

\* What neither allocates, frees nor terminates is not seen by the pool.
LEMMA SameSessionsStutter ==
  ASSUME (pc = "closed") <=> (pc' = "closed"),
         DOMAIN session' = DOMAIN session,
         \A s \in DOMAIN session :
           session'[s].terminateFlag = session[s].terminateFlag
  PROVE  UNCHANGED Pool!vars
<1>1. Phase' = Phase
  BY DEF Phase
<1> QED
  BY <1>1 DEF Pool!vars

LEMMA StartIsStep == ASSUME NEW s \in Sessions, Pool!Start(s) PROVE PoolStep
  BY DEF PoolStep, Pool!Next

LEMMA OfferIsPoolStep ==
  ASSUME RegistryInv, FreeHoldsLock, NEW c \in Clients,
         \/ OfferAtCapacity(c)
         \/ OfferCreateFails(c)
         \/ OfferHandlingFails(c)
         \/ OfferAccepted(c)
         \/ OfferDrainFails(c)
  PROVE  PoolStep
<1> USE DEF registry, stats, loop, join
<1>1. CASE OfferAtCapacity(c) \/ OfferCreateFails(c)
  BY <1>1, SameSessionsStutter DEF OfferAtCapacity, OfferCreateFails, PoolStep
<1>2. CASE OfferHandlingFails(c)
  <2>1. PICK s : NewSession(s, c, <<>>)
    BY <1>2 DEF OfferHandlingFails
  <2> QED
    BY <1>2, <2>1, NewSessionStarts, StartIsStep DEF OfferHandlingFails
<1>3. CASE OfferAccepted(c)
  <2>1. PICK s, handed : NewSession(s, c, handed)
    BY <1>3 DEF OfferAccepted
  <2> QED
    BY <1>3, <2>1, NewSessionStarts, StartIsStep DEF OfferAccepted
<1>4. CASE OfferDrainFails(c)
  <2>1. PICK s, handed : NewSession(s, c, handed)
    BY <1>4 DEF OfferDrainFails
  <2> QED
    BY <1>4, <2>1, NewSessionStarts, StartIsStep DEF OfferDrainFails
<1> QED
  BY <1>1, <1>2, <1>3, <1>4

\* A change of state ends the session if it sets the flag for the first time.
LEMMA ConnectionStateChangeEnds ==
  ASSUME RegistryInv, NEW s \in Sessions, NEW newState \in PeerConnectionStates,
         ConnectionStateChange(s, newState)
  PROVE  PoolStep
<1>1. /\ s \in DOMAIN session
      /\ session \in [DOMAIN session -> Session]
      /\ session[s].terminateFlag \in BOOLEAN
      /\ DOMAIN session' = DOMAIN session
      /\ \A t \in DOMAIN session \ {s} : session'[t] = session[t]
      /\ session'[s].terminateFlag = FlagAfter(session[s].terminateFlag, newState)
  BY DEF ConnectionStateChange, RegistryInv, TypeOK, Session
<1>2. pc # "closed" /\ pc' # "closed"
  BY DEF ConnectionStateChange, Woken
<1>3. CASE session'[s].terminateFlag = session[s].terminateFlag
  BY <1>1, <1>2, <1>3, SameSessionsStutter DEF PoolStep
<1>4. CASE session'[s].terminateFlag # session[s].terminateFlag
  <2>1. ~session[s].terminateFlag /\ session'[s].terminateFlag
    BY <1>1, <1>4 DEF FlagAfter, PeerConnectionStates
  <2>2. Phase[s] = "streaming"
    BY <1>1, <2>1 DEF Phase
  <2>3. Phase' = [Phase EXCEPT ![s] = "ended"]
    BY <1>1, <2>1 DEF Phase
  <2> QED
    BY <1>2, <2>2, <2>3 DEF PoolStep, Pool!Next, Pool!End
<1> QED
  BY <1>3, <1>4

\* The beginning of a free ends the session, unless it had ended before.
LEMMA BeginFreeEnds ==
  ASSUME RegistryInv, NEW s \in DOMAIN session, BeginFree(s),
         pc # "closed", UNCHANGED pc
  PROVE  PoolStep
<1>1. /\ s \in Sessions
      /\ session[s].terminateFlag \in BOOLEAN
      /\ DOMAIN session' = DOMAIN session
      /\ session'[s].terminateFlag
      /\ \A t \in DOMAIN session \ {s} : session'[t] = session[t]
  BY BeginFreeSession DEF RegistryInv, TypeOK, Session
<1>2. CASE session[s].terminateFlag
  <2>1. \A t \in DOMAIN session :
          session'[t].terminateFlag = session[t].terminateFlag
    BY <1>1, <1>2, BeginFreeSession DEF RegistryInv, TypeOK, Session
  <2> QED
    BY <1>1, <2>1, SameSessionsStutter DEF PoolStep
<1>3. CASE ~session[s].terminateFlag
  <2>1. Phase[s] = "streaming" /\ Phase' = [Phase EXCEPT ![s] = "ended"]
    BY <1>1, <1>3 DEF Phase
  <2> QED
    BY <1>1, <2>1 DEF PoolStep, Pool!Next, Pool!End
<1> QED
  BY <1>2, <1>3

\* The end of a free releases the session, which had ended when its free began.
LEMMA JoinReceiverReleases ==
  ASSUME RegistryInv, FreeHoldsLock, JoinReceiver
  PROVE  PoolStep
<1>1. /\ freed \in DOMAIN session /\ freed \in Sessions
      /\ session[freed].terminateFlag
      /\ pc # "closed" /\ UNCHANGED pc
      /\ DOMAIN session' = DOMAIN session \ {freed}
      /\ \A t \in DOMAIN session' : session'[t] = session[t]
  BY JoinReceiverInv
  DEF JoinReceiver, RegistryInv, TypeOK, SessionListSound, FreeInv, FreeHoldsLock
<1>2. Phase[freed] = "ended"
  BY <1>1 DEF Phase
<1>3. Phase' = [Phase EXCEPT ![freed] = "free"]
  BY <1>1 DEF Phase
<1> QED
  BY <1>1, <1>2, <1>3 DEF PoolStep, Pool!Next, Pool!Release

\* When the index has passed the list, nothing is allocated: the pool closes.
LEMMA ConfigurationFreedCloses ==
  ASSUME RegistryInv, ConfigurationFreed
  PROVE  PoolStep
<1>1. /\ pc = "emptying" /\ pc' = "closed" /\ UNCHANGED session
      /\ freed = NoSession /\ scan = sessionCount /\ sessionCount \in Nat
  BY DEF ConfigurationFreed, registry, RegistryInv, TypeOK
<1>2. scan .. sessionCount - 1 = {} /\ FirstListed = scan
  BY <1>1 DEF FirstListed
<1>3. DOMAIN session = {}
  BY <1>1, <1>2 DEF RegistryInv, SessionListSound, Listed
<1>4. Pool!Busy = {} /\ Phase' = Phase
  BY <1>1, <1>3, BusyIsAllocated DEF RegistryInv, Phase
<1> QED
  BY <1>1, <1>4 DEF PoolStep, Pool!Next, Pool!Close

LEMMA StepIsPoolStep == RegistryInv /\ FreeHoldsLock /\ [Next]_vars => PoolStep
<1> SUFFICES ASSUME RegistryInv, FreeHoldsLock, [Next]_vars PROVE PoolStep
  OBVIOUS
<1> USE DEF registry, stats, loop, join, vars
<1>1. ASSUME NEW c \in Clients, SignalingMessageReceived(c)
      PROVE  PoolStep
  <2>1. CASE QueueCandidate(c)
    BY <2>1, SameSessionsStutter DEF QueueCandidate, PoolStep
  <2>2. CASE SubmitCandidate(c)
    <3>1. /\ DOMAIN session' = DOMAIN session
          /\ \A s \in DOMAIN session :
               session'[s].terminateFlag = session[s].terminateFlag
      BY <2>2 DEF SubmitCandidate, RegistryInv, TypeOK, Session
    <3> QED
      BY <2>2, <3>1, SameSessionsStutter DEF SubmitCandidate, PoolStep
  <2> QED
    BY <1>1, <2>1, <2>2, OfferIsPoolStep DEF SignalingMessageReceived
<1>2. ASSUME NEW s \in Sessions, NEW newState \in PeerConnectionStates,
             ConnectionStateChange(s, newState)
      PROVE  PoolStep
  BY <1>2, ConnectionStateChangeEnds
<1>3. CASE \/ StartStatsTimer \/ SigintHandler \/ Tick
           \/ ReceiverEnds \/ JoinMediaSender \/ UNCHANGED vars
  BY <1>3, SameSessionsStutter
  DEF StartStatsTimer, SigintHandler, Tick, ReceiverEnds, JoinMediaSender, Woken,
      PoolStep
<1>4. CASE CleanupLoop
  <2>1. CASE CleanupSession \/ FreeListedSession
    <3>1. sessionList[scan] \in DOMAIN session
      BY <2>1, CleanupSessionInv, FreeListedSessionInv
      DEF RegistryInv, SessionListSound
    <3> QED
      BY <2>1, <3>1, BeginFreeEnds DEF CleanupSession, FreeListedSession
  <2>2. CASE JoinReceiver
    BY <2>2, JoinReceiverReleases
  <2>3. CASE ConfigurationFreed
    BY <2>3, ConfigurationFreedCloses
  <2>4. CASE \/ LockConfiguration \/ SkipSession \/ FinishPass \/ WaitTimeout
             \/ LeaveLoop \/ FreeSignalingClient \/ FreeConfiguration
    BY <2>4, SameSessionsStutter
    DEF LockConfiguration, SkipSession, FinishPass, WaitTimeout, LeaveLoop,
        FreeSignalingClient, FreeConfiguration, PoolStep
  <2> QED
    BY <1>4, <2>1, <2>2, <2>3, <2>4 DEF CleanupLoop
<1> QED
  BY <1>1, <1>2, <1>3, <1>4 DEF Next

\* Every behaviour of the registry is one of the pool: whatever the handlers,
\* the callbacks and the scan do, at most MaxSessions sessions stream, a session's
\* memory goes from free to streaming to ended to free, and nothing is left when
\* the configuration is freed.  That a join returns is no part of it.
THEOREM RegistryImplementsPool == Spec => ImplementsPool
<1>1. Init => Pool!Init
  BY DEF Init, Pool!Init, Phase, Nothing
<1>2. PoolStep <=> [Pool!Next]_(Pool!vars)
  BY DEF PoolStep
<1>3. Spec => Pool!Spec
  BY <1>1, <1>2, StepIsPoolStep, RegistryCorrect, FreeHoldsLockCorrect, PTL
  DEF Spec, Pool!Spec
<1> QED
  BY <1>3 DEF ImplementsPool
=============================================================================
