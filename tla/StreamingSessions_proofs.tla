----------------------- MODULE StreamingSessions_proofs -----------------------
(***************************************************************************)
(* Proofs about StreamingSessions, for every number of clients, sessions,  *)
(* queues, timers and threads.                                             *)
(***************************************************************************)
EXTENDS StreamingSessions, SequenceTheorems, TLAPS

(***************************************************************************)
(* Typing.                                                                 *)
(***************************************************************************)

\* A new session keeps the list and the sessions well typed, and the count in
\* the array, when the guard of the offer (a slot is free) holds.
LEMMA NewSessionType ==
  ASSUME TypeOK, NEW s, NEW c \in Clients, NEW handed \in Seq(Candidate),
         sessionCount < MaxSessions, NewSession(s, c, handed)
  PROVE  /\ sessionList' \in [Slots -> Sessions \cup {NoSession}]
         /\ sessionCount' \in 0 .. MaxSessions
         /\ DOMAIN session' \in SUBSET Sessions
         /\ session' \in [DOMAIN session' -> Session]
  BY SessionsAssumption DEF TypeOK, NewSession, Session, Slots

\* Cancelling the stats timer keeps its id and the timer queue well typed.
LEMMA CancelStatsTimerType ==
  ASSUME TypeOK, NEW n, CancelStatsTimer(n)
  PROVE  /\ timers' \in SUBSET Timers
         /\ statsTimerId' \in Timers \cup {NoTimer}
  BY DEF TypeOK, CancelStatsTimer

\* Taking a queue out of the pending ones keeps the others well typed.
LEMMA WithoutPendingType ==
  ASSUME TypeOK, NEW q, pending' = Without(pending, q)
  PROVE  /\ DOMAIN pending' \in SUBSET Queues
         /\ pending' \in [DOMAIN pending' -> Queue]
  BY DEF TypeOK, Without

\* The first candidates of a pending queue are a sequence of candidates.
LEMMA DrainedType ==
  ASSUME TypeOK, NEW q \in DOMAIN pending,
         NEW n \in 1 .. Len(pending[q].messages)
  PROVE  SubSeq(pending[q].messages, 1, n) \in Seq(Candidate)
<1>1. pending[q].messages \in Seq(Candidate)
  BY DEF TypeOK, Queue
<1> QED
  BY <1>1, SubSeqProperties

\* Nothing allocated is well typed, whatever it is an allocation of.
LEMMA NothingType ==
  ASSUME NEW S, NEW T
  PROVE  DOMAIN Nothing \in SUBSET S /\ Nothing \in [DOMAIN Nothing -> T]
<1>1. DOMAIN Nothing = {}
  BY DEF Nothing
<1> QED
  BY <1>1 DEF Nothing

\* The beginning of a free sets the flag of its session and nothing else of any
\* session.
LEMMA BeginFreeSession ==
  ASSUME TypeOK, NEW s \in DOMAIN session, BeginFree(s)
  PROVE  /\ freed' = s /\ s \in Sessions
         /\ receiver' \in {"ended", "told", "untold"}
         /\ DOMAIN session' = DOMAIN session
         /\ session' \in [DOMAIN session' -> Session]
         /\ session'[s].terminateFlag
         /\ \A t \in DOMAIN session :
              /\ session'[t].peer = session[t].peer
              /\ session'[t].candidates = session[t].candidates
              /\ t # s => session'[t] = session[t]
<1>1. session \in [DOMAIN session -> Session] /\ s \in Sessions
  BY DEF TypeOK
<1>2. session' = [session EXCEPT ![s].terminateFlag = TRUE]
  BY DEF BeginFree
<1> DEFINE new == [session[s] EXCEPT !.terminateFlag = TRUE]
<1>3. /\ new \in Session /\ new.terminateFlag
      /\ new.peer = session[s].peer /\ new.candidates = session[s].candidates
  BY <1>1 DEF Session
<1>4. session' = [session EXCEPT ![s] = new]
  BY <1>2
<1> HIDE DEF new
<1>5. /\ DOMAIN session' = DOMAIN session
      /\ \A t \in DOMAIN session :
           session'[t] = IF t = s THEN new ELSE session[t]
  BY <1>4
<1>6. session' \in [DOMAIN session' -> Session]
  BY <1>1, <1>3, <1>4
<1> QED
  BY <1>1, <1>3, <1>5, <1>6 DEF BeginFree

LEMMA TypeInit == Init => TypeOK
<1> SUFFICES ASSUME Init PROVE TypeOK
  OBVIOUS
<1>1. /\ DOMAIN session \in SUBSET Sessions
      /\ session \in [DOMAIN session -> Session]
      /\ DOMAIN pending \in SUBSET Queues
      /\ pending \in [DOMAIN pending -> Queue]
  BY NothingType DEF Init
<1>2. /\ sessionList \in [Slots -> Sessions \cup {NoSession}]
      /\ peerTable \in [Hashes -> Sessions \cup {NoSession}]
      /\ handled \in [Clients -> 0 .. MaxCandidates]
  BY SessionsAssumption DEF Init
<1>3. 0 \in 0 .. MaxSessions /\ 0 \in 0 .. Workers
  BY SessionsAssumption
<1> QED
  BY <1>1, <1>2, <1>3 DEF Init, TypeOK

LEMMA OfferType ==
  ASSUME TypeOK, NEW c \in Clients,
         \/ OfferAtCapacity(c)
         \/ OfferCreateFails(c)
         \/ OfferHandlingFails(c)
         \/ OfferAccepted(c)
         \/ OfferDrainFails(c)
  PROVE  TypeOK'
<1> USE SessionsAssumption DEF registry, stats, loop, join, vars
<1>1. Hash[c] \in Hashes
  OBVIOUS
<1>2. CASE OfferAtCapacity(c)
  BY <1>2, WithoutPendingType DEF OfferAtCapacity, TypeOK
<1>3. CASE OfferCreateFails(c)
  BY <1>3, CancelStatsTimerType DEF OfferCreateFails, TypeOK
<1>4. CASE OfferHandlingFails(c)
  <2>1. <<>> \in Seq(Candidate)
    OBVIOUS
  <2> QED
    BY <1>4, <2>1, NewSessionType DEF OfferHandlingFails, TypeOK
<1>5. CASE OfferAccepted(c)
  <2>1. PICK s \in Sessions :
          /\ peerTable' = [peerTable EXCEPT ![Hash[c]] = s]
          /\ \/ /\ NewSession(s, c, <<>>)
                /\ UNCHANGED pending
             \/ \E q \in PendingFor(Hash[c]) :
                  /\ NewSession(s, c, pending[q].messages)
                  /\ pending' = Without(pending, q)
    BY <1>5 DEF OfferAccepted, SubmittedCandidates
  <2>2. /\ sessionList' \in [Slots -> Sessions \cup {NoSession}]
        /\ sessionCount' \in 0 .. MaxSessions
        /\ DOMAIN session' \in SUBSET Sessions
        /\ session' \in [DOMAIN session' -> Session]
        /\ DOMAIN pending' \in SUBSET Queues
        /\ pending' \in [DOMAIN pending' -> Queue]
    <3>1. sessionCount < MaxSessions
      BY <1>5 DEF OfferAccepted
    <3>2. CASE NewSession(s, c, <<>>) /\ UNCHANGED pending
      <4>1. <<>> \in Seq(Candidate)
        OBVIOUS
      <4> QED
        BY <3>1, <3>2, <4>1, NewSessionType DEF TypeOK
    <3>3. ASSUME NEW q \in PendingFor(Hash[c]),
                 NewSession(s, c, pending[q].messages),
                 pending' = Without(pending, q)
          PROVE  <2>2
      <4>1. pending[q].messages \in Seq(Candidate)
        BY DEF TypeOK, Queue, PendingFor
      <4> QED
        BY <3>1, <3>3, <4>1, NewSessionType, WithoutPendingType
    <3> QED
      BY <2>1, <3>2, <3>3
  <2>3. startingStats' \in 0 .. Workers
    BY <1>5 DEF OfferAccepted, HandlerRuns, TypeOK
  <2> QED
    BY <1>1, <1>5, <2>1, <2>2, <2>3 DEF OfferAccepted, TypeOK
<1>6. CASE OfferDrainFails(c)
  <2>0. PICK s \in Sessions, q \in PendingFor(Hash[c]) :
          \E n \in 1 .. Len(pending[q].messages) :
            /\ NewSession(s, c, SubSeq(pending[q].messages, 1, n))
            /\ peerTable' = [peerTable EXCEPT ![Hash[c]] = s]
            /\ pending' = Without(pending, q)
    BY <1>6 DEF OfferDrainFails, SubmittedCandidates
  <2>1. PICK n \in 1 .. Len(pending[q].messages) :
          /\ NewSession(s, c, SubSeq(pending[q].messages, 1, n))
          /\ peerTable' = [peerTable EXCEPT ![Hash[c]] = s]
          /\ pending' = Without(pending, q)
    BY <2>0
  <2>2. SubSeq(pending[q].messages, 1, n) \in Seq(Candidate)
    BY DrainedType DEF PendingFor
  <2>3. sessionCount < MaxSessions
    BY <1>6 DEF OfferDrainFails
  <2> QED
    BY <1>1, <1>6, <2>1, <2>2, <2>3, NewSessionType, WithoutPendingType
    DEF OfferDrainFails, TypeOK
<1> QED
  BY <1>2, <1>3, <1>4, <1>5, <1>6

LEMMA HandlerType ==
  ASSUME TypeOK,
         \/ StartStatsTimer
         \/ \E c \in Clients : QueueCandidate(c) \/ SubmitCandidate(c)
  PROVE  TypeOK'
<1> USE SessionsAssumption DEF registry, stats, loop, join, vars
<1>1. CASE StartStatsTimer
  BY <1>1 DEF StartStatsTimer, TypeOK
<1>2. ASSUME NEW c \in Clients, Handle(c)
      PROVE  /\ handled' \in [Clients -> 0 .. MaxCandidates]
             /\ NextCandidate(c) \in Candidate
  BY <1>2 DEF Handle, NextCandidate, Candidate, TypeOK
<1>3. ASSUME NEW c \in Clients, QueueCandidate(c)
      PROVE  TypeOK'
  <2>1. /\ handled' \in [Clients -> 0 .. MaxCandidates]
        /\ NextCandidate(c) \in Candidate
    BY <1>2, <1>3 DEF QueueCandidate
  <2>2. ASSUME NEW q \in PendingFor(Hash[c]),
               pending' = [pending EXCEPT ![q].messages = Append(@, NextCandidate(c))]
        PROVE  /\ DOMAIN pending' \in SUBSET Queues
               /\ pending' \in [DOMAIN pending' -> Queue]
    <3>1. pending[q] \in Queue
      BY DEF TypeOK, PendingFor
    <3>2. Append(pending[q].messages, NextCandidate(c)) \in Seq(Candidate)
      BY <2>1, <3>1 DEF Queue
    <3>3. [pending[q] EXCEPT !.messages = Append(@, NextCandidate(c))] \in Queue
      BY <3>1, <3>2 DEF Queue
    <3> QED
      BY <2>2, <3>3 DEF TypeOK, PendingFor
  <2>3. ASSUME NEW q \in Queues \ DOMAIN pending,
               pending' = [r \in DOMAIN pending \cup {q} |->
                             IF r = q THEN [hash |-> Hash[c], age |-> 0,
                                            messages |-> <<NextCandidate(c)>>]
                                      ELSE pending[r]]
        PROVE  /\ DOMAIN pending' \in SUBSET Queues
               /\ pending' \in [DOMAIN pending' -> Queue]
    <3>1. [hash |-> Hash[c], age |-> 0, messages |-> <<NextCandidate(c)>>] \in Queue
      BY <2>1 DEF Queue
    <3> QED
      BY <2>3, <3>1 DEF TypeOK
  <2>4. /\ DOMAIN pending' \in SUBSET Queues
        /\ pending' \in [DOMAIN pending' -> Queue]
    BY <1>3, <2>2, <2>3 DEF QueueCandidate, NewQueue
  <2> QED
    BY <1>3, <2>1, <2>4 DEF QueueCandidate, TypeOK
<1>4. ASSUME NEW c \in Clients, SubmitCandidate(c)
      PROVE  TypeOK'
  <2>1. /\ handled' \in [Clients -> 0 .. MaxCandidates]
        /\ NextCandidate(c) \in Candidate
    BY <1>2, <1>4 DEF SubmitCandidate
  <2>2. /\ DOMAIN session' \in SUBSET Sessions
        /\ session' \in [DOMAIN session' -> Session]
    <3> DEFINE s == peerTable[Hash[c]]
    <3>1. session' = [session EXCEPT
            ![s].candidates = Append(@, NextCandidate(c))]
      BY <1>4 DEF SubmitCandidate
    <3>2. CASE s \notin DOMAIN session
      BY <3>1, <3>2 DEF TypeOK
    <3>3. CASE s \in DOMAIN session
      <4>1. session[s] \in Session
        BY <3>3 DEF TypeOK
      <4>2. Append(session[s].candidates, NextCandidate(c)) \in Seq(Candidate)
        BY <2>1, <4>1 DEF Session
      <4>3. [session[s] EXCEPT !.candidates = Append(@, NextCandidate(c))] \in Session
        BY <4>1, <4>2 DEF Session
      <4> QED
        BY <3>1, <3>3, <4>3 DEF TypeOK
    <3> QED
      BY <3>2, <3>3
  <2> QED
    BY <1>4, <2>1, <2>2 DEF SubmitCandidate, TypeOK
<1> QED
  BY <1>1, <1>3, <1>4

LEMMA CallbackType ==
  ASSUME TypeOK,
         \/ \E s \in Sessions, newState \in PeerConnectionStates :
              ConnectionStateChange(s, newState)
         \/ SigintHandler
         \/ Tick
         \/ ReceiverEnds
         \/ JoinMediaSender
  PROVE  TypeOK'
<1> USE SessionsAssumption DEF registry, stats, loop, join, vars
<1>1. ASSUME NEW s \in Sessions, NEW newState \in PeerConnectionStates,
             ConnectionStateChange(s, newState)
      PROVE  TypeOK'
  <2>1. /\ DOMAIN session' \in SUBSET Sessions
        /\ session' \in [DOMAIN session' -> Session]
    <3>1. session[s] \in Session
      BY <1>1 DEF ConnectionStateChange, TypeOK
    <3> DEFINE flag == \/ session[s].terminateFlag
                       \/ newState \in {"failed", "closed", "disconnected"}
    <3>2. flag \in BOOLEAN
      OBVIOUS
    <3>3. session' = [session EXCEPT ![s].terminateFlag = flag]
      BY <1>1 DEF ConnectionStateChange, FlagAfter
    <3> HIDE DEF flag
    <3>4. [session[s] EXCEPT !.terminateFlag = flag] \in Session
      BY <3>1, <3>2 DEF Session
    <3> DEFINE new == [session[s] EXCEPT !.terminateFlag = flag]
    <3>5. session' = [session EXCEPT ![s] = new]
      BY <3>3
    <3> HIDE DEF new
    <3>6. new \in Session
      BY <3>4 DEF new
    <3> QED
      BY <3>5, <3>6 DEF TypeOK
  <2> QED
    BY <1>1, <2>1 DEF ConnectionStateChange, TypeOK, Woken
<1>2. CASE SigintHandler
  BY <1>2 DEF SigintHandler, TypeOK, Woken
<1>3. CASE Tick
  <2>1. ASSUME NEW q \in DOMAIN pending
        PROVE  [pending[q] EXCEPT !.age = IF @ > PendingExpiry THEN @ ELSE @ + 1]
                 \in Queue
    <3>1. pending[q] \in Queue
      BY DEF TypeOK
    <3>2. (IF pending[q].age > PendingExpiry THEN pending[q].age
                                             ELSE pending[q].age + 1)
            \in 0 .. PendingExpiry + 1
      BY <3>1 DEF Queue
    <3> QED
      BY <3>1, <3>2 DEF Queue
  <2>2. /\ DOMAIN pending' \in SUBSET Queues
        /\ pending' \in [DOMAIN pending' -> Queue]
    BY <1>3, <2>1 DEF Tick, TypeOK
  <2> QED
    BY <1>3, <2>2 DEF Tick, TypeOK
<1>4. CASE ReceiverEnds \/ JoinMediaSender
  BY <1>4 DEF ReceiverEnds, JoinMediaSender, TypeOK
<1> QED
  BY <1>1, <1>2, <1>3, <1>4

\* The session a free begins with is one that is allocated; SessionListSound
\* says so.
LEMMA CleanupType ==
  ASSUME TypeOK, SessionListSound, CleanupLoop
  PROVE  TypeOK'
<1> USE SessionsAssumption DEF registry, stats, loop, join, vars
<1>1. CASE LockConfiguration
  BY <1>1 DEF LockConfiguration, TypeOK
<1>2. CASE SkipSession
  BY <1>2 DEF SkipSession, TypeOK
<1>3. CASE CleanupSession
  <2>1. /\ sessionCount' \in 0 .. MaxSessions
        /\ scan' \in 0 .. MaxSessions
        /\ sessionList' \in [Slots -> Sessions \cup {NoSession}]
    BY <1>3 DEF CleanupSession, SwappedList, TypeOK, Slots
  <2>2. peerTable' \in [Hashes -> Sessions \cup {NoSession}]
    BY <1>3 DEF CleanupSession, EntryRemoved, TypeOK
  <2>3. BeginFree(sessionList[scan]) /\ sessionList[scan] \in DOMAIN session
    <3>1. FirstListed = 0 /\ scan \in 0 .. sessionCount - 1
      BY <1>3 DEF CleanupSession, FirstListed, TypeOK
    <3> QED
      BY <1>3, <3>1 DEF CleanupSession, SessionListSound, Listed
  <2> HIDE DEF join
  <2>4. DOMAIN session' \in SUBSET Sessions
    BY <2>3, BeginFreeSession DEF TypeOK
  <2> QED
    BY <1>3, <2>1, <2>2, <2>3, <2>4, BeginFreeSession DEF CleanupSession, TypeOK
<1>4. CASE FinishPass
  BY <1>4 DEF FinishPass, Unexpired, TypeOK
<1>5. CASE WaitTimeout \/ LeaveLoop \/ FreeSignalingClient \/ ConfigurationFreed
  BY <1>5 DEF WaitTimeout, LeaveLoop, FreeSignalingClient, ConfigurationFreed,
              TypeOK
<1>6. CASE FreeConfiguration
  BY <1>6, NothingType DEF FreeConfiguration, TypeOK
<1>7. CASE FreeListedSession
  <2>1. scan' \in 0 .. MaxSessions
    BY <1>7 DEF FreeListedSession, TypeOK
  <2>2. BeginFree(sessionList[scan]) /\ sessionList[scan] \in DOMAIN session
    <3>1. FirstListed = scan /\ scan \in scan .. sessionCount - 1
      BY <1>7 DEF FreeListedSession, FirstListed, TypeOK
    <3> QED
      BY <1>7, <3>1 DEF FreeListedSession, SessionListSound, Listed
  <2>3. DOMAIN session' \in SUBSET Sessions
    BY <2>2, BeginFreeSession DEF TypeOK
  <2> QED
    BY <1>7, <2>1, <2>2, <2>3, BeginFreeSession DEF FreeListedSession, TypeOK
<1>8. CASE JoinReceiver
  <2>1. /\ DOMAIN session' \in SUBSET Sessions
        /\ session' \in [DOMAIN session' -> Session]
    BY <1>8 DEF JoinReceiver, TypeOK, Without
  <2>2. /\ timers' \in SUBSET Timers
        /\ statsTimerId' \in Timers \cup {NoTimer}
    BY <1>8, CancelStatsTimerType DEF JoinReceiver
  <2> QED
    BY <1>8, <2>1, <2>2 DEF JoinReceiver, TypeOK
<1> QED
  BY <1>1, <1>2, <1>3, <1>4, <1>5, <1>6, <1>7, <1>8 DEF CleanupLoop

LEMMA TypeStep == TypeOK /\ SessionListSound /\ [Next]_vars => TypeOK'
<1> SUFFICES ASSUME TypeOK, SessionListSound, [Next]_vars
             PROVE  TypeOK'
  OBVIOUS
<1>1. CASE Next
  BY <1>1, OfferType, HandlerType, CallbackType, CleanupType
  DEF Next, SignalingMessageReceived
<1>2. CASE UNCHANGED vars
  BY <1>2 DEF vars, registry, stats, loop, join, TypeOK
<1> QED
  BY <1>1, <1>2

(***************************************************************************)
(* The list, the table and the allocations agree.                          *)
(*                                                                         *)
(* Neither SessionListSound nor PeerTableSound is enough alone: the scan   *)
(* frees the session its index finds in the list, which must be one that   *)
(* is allocated, and clears the table's entry of that session's hash,      *)
(* which must be the only entry that could hold the session.               *)
(***************************************************************************)

\* What is being freed has its flag, and nothing finds a session once the table
\* was freed.
FreeInv ==
  /\ freed # NoSession => session[freed].terminateFlag
  /\ pc \in {"emptying", "closed"} => \A h \in Hashes : peerTable[h] = NoSession

RegistryInv == TypeOK /\ SessionListSound /\ PeerTableSound /\ FreeInv

\* A new session is appended: the list stays exact, and no other session
\* changes.
LEMMA NewSessionExact ==
  ASSUME TypeOK, SessionListSound, NEW s, NEW c, NEW handed,
         FirstListed = 0, FirstListed' = 0, UNCHANGED freed,
         sessionCount < MaxSessions, NewSession(s, c, handed)
  PROVE  /\ SessionListSound'
         /\ Listed' = Listed \cup {s} /\ s \notin Listed
         /\ s \in DOMAIN session' /\ session'[s].peer = c
         /\ \A t \in DOMAIN session : t \in DOMAIN session' /\ session'[t] = session[t]
<1>1. /\ sessionCount \in Nat
      /\ sessionCount \in Slots
      /\ sessionCount' = sessionCount + 1
      /\ s \in Sessions \ DOMAIN session
      /\ DOMAIN session' = DOMAIN session \cup {s}
      /\ sessionList' = [sessionList EXCEPT ![sessionCount] = s]
      /\ sessionList \in [Slots -> Sessions \cup {NoSession}]
  BY SessionsAssumption DEF NewSession, TypeOK, Slots
<1>2. /\ \A i, j \in 0 .. sessionCount - 1 : sessionList[i] = sessionList[j] => i = j
      /\ Listed = {sessionList[i] : i \in 0 .. sessionCount - 1}
      /\ freed \notin Listed
      /\ DOMAIN session = Listed \cup ({freed} \ {NoSession})
  BY DEF SessionListSound, Listed
<1>3. /\ sessionList'[sessionCount] = s
      /\ \A i \in 0 .. sessionCount - 1 :
           sessionList'[i] = sessionList[i] /\ sessionList[i] # s
  BY <1>1, <1>2, SessionsAssumption DEF Slots
<1>4. \A i, j \in 0 .. sessionCount : sessionList'[i] = sessionList'[j] => i = j
  BY <1>1, <1>2, <1>3
<1>5. sessionCount' - 1 = sessionCount
  BY <1>1
<1>6. Listed' = {sessionList'[i] : i \in 0 .. sessionCount}
  BY <1>5 DEF Listed
<1>7. Listed' = Listed \cup {s}
  BY <1>1, <1>2, <1>3, <1>6
<1>8. s # freed
  BY <1>1, <1>2, SessionsAssumption
<1>9. SessionListSound'
  BY <1>1, <1>2, <1>4, <1>5, <1>7, <1>8 DEF SessionListSound
<1>10. /\ session'[s].peer = c
       /\ \A t \in DOMAIN session : t \in DOMAIN session' /\ session'[t] = session[t]
  BY DEF NewSession
<1> QED
  BY <1>1, <1>2, <1>7, <1>9, <1>10

\* A new session may take the table's entry of its own hash, or none.
LEMMA NewSessionInv ==
  ASSUME RegistryInv, pc \in {"run", "waiting", "exited", "joined"}, NEW s,
         NEW c \in Clients, NEW handed, UNCHANGED <<pc, freed>>,
         sessionCount < MaxSessions, NewSession(s, c, handed),
         \/ UNCHANGED peerTable
         \/ peerTable' = [peerTable EXCEPT ![Hash[c]] = s]
  PROVE  SessionListSound' /\ PeerTableSound' /\ FreeInv'
<1>1. FirstListed = 0 /\ FirstListed' = 0
  BY DEF FirstListed
<1>2. /\ SessionListSound'
      /\ Listed' = Listed \cup {s}
      /\ s \in DOMAIN session' /\ session'[s].peer = c
      /\ \A t \in DOMAIN session : t \in DOMAIN session' /\ session'[t] = session[t]
  BY <1>1, NewSessionExact DEF RegistryInv
<1>3. FreeInv'
  BY <1>2 DEF RegistryInv, FreeInv, SessionListSound
<1>4. peerTable \in [Hashes -> Sessions \cup {NoSession}] /\ Hash[c] \in Hashes
  BY SessionsAssumption DEF RegistryInv, TypeOK
<1>5. ASSUME NEW h \in Hashes, peerTable'[h] # NoSession
      PROVE  /\ peerTable'[h] \in Listed'
             /\ Hash[session'[peerTable'[h]].peer] = h
  <2>1. CASE peerTable'[h] = peerTable[h]
    <3>1. peerTable[h] \in Listed /\ peerTable[h] \in DOMAIN session
      BY <1>5, <2>1 DEF RegistryInv, PeerTableSound, SessionListSound
    <3> QED
      BY <1>2, <1>5, <2>1, <3>1 DEF RegistryInv, PeerTableSound
  <2>2. CASE peerTable'[h] # peerTable[h]
    <3>1. h = Hash[c] /\ peerTable'[h] = s
      BY <1>4, <2>2
    <3> QED
      BY <1>2, <3>1
  <2> QED
    BY <2>1, <2>2
<1> QED
  BY <1>2, <1>3, <1>5 DEF PeerTableSound

LEMMA RegistryInit == Init => RegistryInv
<1> SUFFICES ASSUME Init PROVE RegistryInv
  OBVIOUS
<1>1. TypeOK
  BY TypeInit
<1>2. DOMAIN session = {} /\ 0 .. sessionCount - 1 = {} /\ FirstListed = 0
  BY DEF Init, Nothing, FirstListed
<1>3. Listed = {}
  BY <1>2 DEF Listed
<1>4. SessionListSound
  BY <1>2, <1>3 DEF SessionListSound, Init
<1>5. PeerTableSound /\ FreeInv
  BY DEF Init, PeerTableSound, FreeInv
<1> QED
  BY <1>1, <1>4, <1>5 DEF RegistryInv

\* An offer adds one session at most, with its own table entry or with none.
LEMMA OfferInv ==
  ASSUME RegistryInv, NEW c \in Clients,
         \/ OfferAtCapacity(c)
         \/ OfferCreateFails(c)
         \/ OfferHandlingFails(c)
         \/ OfferAccepted(c)
         \/ OfferDrainFails(c)
  PROVE  SessionListSound' /\ PeerTableSound' /\ FreeInv'
<1>1. CASE OfferAtCapacity(c) \/ OfferCreateFails(c)
  BY <1>1 DEF OfferAtCapacity, OfferCreateFails, RegistryInv, SessionListSound,
              PeerTableSound, FreeInv, Listed, FirstListed, registry, loop, join
<1>2. /\ HandlerRuns => pc \in {"run", "waiting", "exited", "joined"}
      /\ UNCHANGED loop => UNCHANGED <<pc, freed>>
  BY DEF HandlerRuns, loop, join
<1>3. CASE OfferHandlingFails(c)
  BY <1>2, <1>3, NewSessionInv DEF OfferHandlingFails
<1>4. CASE OfferAccepted(c)
  <2>1. PICK s \in Sessions :
          /\ peerTable' = [peerTable EXCEPT ![Hash[c]] = s]
          /\ \E handed : NewSession(s, c, handed)
    BY <1>4 DEF OfferAccepted
  <2> QED
    BY <1>2, <1>4, <2>1, NewSessionInv DEF OfferAccepted
<1>5. CASE OfferDrainFails(c)
  <2>1. PICK s \in Sessions :
          /\ peerTable' = [peerTable EXCEPT ![Hash[c]] = s]
          /\ \E handed : NewSession(s, c, handed)
    BY <1>5 DEF OfferDrainFails
  <2> QED
    BY <1>2, <1>5, <2>1, NewSessionInv DEF OfferDrainFails
<1> QED
  BY <1>1, <1>3, <1>4, <1>5

\* Steps that leave the list, the table and the session that is freed alone, and
\* of a session its peer, and take no flag back, keep the invariant.
LEMMA SamePeersInv ==
  ASSUME RegistryInv,
         UNCHANGED <<sessionList, sessionCount, peerTable, freed, FirstListed>>,
         pc' \in {"emptying", "closed"} => pc \in {"emptying", "closed"},
         DOMAIN session' = DOMAIN session,
         \A s \in DOMAIN session :
           /\ session'[s].peer = session[s].peer
           /\ session[s].terminateFlag => session'[s].terminateFlag
  PROVE  SessionListSound' /\ PeerTableSound' /\ FreeInv'
<1>1. Listed' = Listed
  BY DEF Listed
<1>2. SessionListSound'
  BY <1>1 DEF RegistryInv, SessionListSound
<1>3. PeerTableSound'
  BY <1>1 DEF RegistryInv, PeerTableSound, SessionListSound
<1>4. FreeInv'
  BY DEF RegistryInv, FreeInv, SessionListSound
<1> QED
  BY <1>2, <1>3, <1>4

\* The session at the scan's index is swapped out of the list, its hash's
\* entry cleared and its free begins: what is left is exact again.
LEMMA CleanupSessionInv ==
  ASSUME RegistryInv, CleanupSession
  PROVE  /\ SessionListSound' /\ PeerTableSound' /\ FreeInv'
         /\ sessionList[scan] \in Listed
         /\ Listed' = Listed \ {sessionList[scan]}
<1> DEFINE s == sessionList[scan]
           last == sessionCount - 1
<1>1. /\ sessionCount \in Nat /\ scan \in Nat /\ scan < sessionCount
      /\ last \in Nat /\ last \in Slots /\ scan \in Slots
      /\ sessionList \in [Slots -> Sessions \cup {NoSession}]
      /\ \A i \in 0 .. last : i \in Slots
  BY SessionsAssumption DEF RegistryInv, TypeOK, CleanupSession, Slots
<1>2. /\ sessionCount' = last
      /\ sessionList' = [sessionList EXCEPT ![scan] = sessionList[last]]
      /\ peerTable' = [peerTable EXCEPT ![Hash[session[s].peer]] = NoSession]
      /\ BeginFree(s)
      /\ FirstListed = 0 /\ FirstListed' = 0
      /\ pc = "scan" /\ pc' = "scan" /\ freed = NoSession
  BY DEF CleanupSession, SwappedList, EntryRemoved, FirstListed
<1>3. /\ \A i, j \in 0 .. last : sessionList[i] = sessionList[j] => i = j
      /\ Listed = {sessionList[i] : i \in 0 .. last}
      /\ DOMAIN session = Listed
  BY <1>2 DEF RegistryInv, SessionListSound, Listed
<1>4. s \in DOMAIN session
  BY <1>1, <1>3
<1>5. /\ freed' = s /\ s \in Sessions
      /\ DOMAIN session' = DOMAIN session
      /\ session'[s].terminateFlag
      /\ \A t \in DOMAIN session : t # s => session'[t] = session[t]
  BY <1>2, <1>4, BeginFreeSession DEF RegistryInv
<1>6. \A i \in 0 .. last - 1 :
        sessionList'[i] = IF i = scan THEN sessionList[last] ELSE sessionList[i]
  BY <1>1, <1>2
<1>7. \A i, j \in 0 .. last - 1 : sessionList'[i] = sessionList'[j] => i = j
  BY <1>1, <1>3, <1>6
<1>8. Listed' = Listed \ {s}
  <2>1. \A i \in 0 .. last - 1 : sessionList'[i] \in Listed \ {s}
    BY <1>1, <1>3, <1>6
  <2>2. ASSUME NEW t \in Listed \ {s}
        PROVE  \E i \in 0 .. last - 1 : sessionList'[i] = t
    <3>1. PICK i \in 0 .. last : sessionList[i] = t /\ i # scan
      BY <1>3, <2>2
    <3>2. CASE i = last
      BY <1>1, <1>6, <3>1, <3>2
    <3>3. CASE i # last
      BY <1>1, <1>6, <3>1, <3>3
    <3> QED
      BY <3>2, <3>3
  <2>3. Listed' = {sessionList'[i] : i \in 0 .. last - 1}
    BY <1>2 DEF Listed
  <2> QED
    BY <2>1, <2>2, <2>3
<1>9. SessionListSound'
  BY <1>2, <1>3, <1>4, <1>5, <1>7, <1>8, SessionsAssumption DEF SessionListSound
<1>10. PeerTableSound'
  <2>1. peerTable \in [Hashes -> Sessions \cup {NoSession}]
    BY DEF RegistryInv, TypeOK
  <2>2. ASSUME NEW h \in Hashes, peerTable'[h] # NoSession
        PROVE  /\ peerTable'[h] \in Listed'
               /\ Hash[session'[peerTable'[h]].peer] = h
    <3>1. h # Hash[session[s].peer] /\ peerTable'[h] = peerTable[h]
      BY <1>2, <2>1, <2>2
    <3>2. peerTable[h] \in Listed /\ Hash[session[peerTable[h]].peer] = h
      BY <2>2, <3>1 DEF RegistryInv, PeerTableSound
    <3>3. peerTable[h] # s
      BY <3>1, <3>2
    <3> QED
      BY <1>3, <1>5, <1>8, <3>1, <3>2, <3>3
  <2> QED
    BY <2>2 DEF PeerTableSound
<1>11. FreeInv'
  BY <1>2, <1>5 DEF FreeInv
<1> QED
  BY <1>1, <1>3, <1>8, <1>9, <1>10, <1>11

\* The end of a free takes the session out of memory; the list had lost it when
\* the free began.
LEMMA JoinReceiverInv ==
  ASSUME RegistryInv, JoinReceiver
  PROVE  /\ SessionListSound' /\ PeerTableSound' /\ FreeInv'
         /\ Listed' = Listed
         /\ DOMAIN session' = DOMAIN session \ {freed}
         /\ \A t \in DOMAIN session' : session'[t] = session[t]
<1>1. /\ session' = Without(session, freed)
      /\ freed # NoSession /\ freed' = NoSession
      /\ UNCHANGED <<sessionList, sessionCount, peerTable, pc, scan>>
  BY DEF JoinReceiver
<1>2. /\ DOMAIN session' = DOMAIN session \ {freed}
      /\ \A t \in DOMAIN session' : session'[t] = session[t]
  BY <1>1 DEF Without
<1>3. FirstListed' = FirstListed /\ Listed' = Listed
  BY <1>1 DEF FirstListed, Listed
<1>4. freed \notin Listed /\ DOMAIN session = Listed \cup {freed}
  BY <1>1 DEF RegistryInv, SessionListSound
<1>5. NoSession \notin Listed
  BY <1>4, SessionsAssumption DEF RegistryInv, TypeOK
<1>6. SessionListSound'
  BY <1>1, <1>2, <1>3, <1>4, <1>5 DEF RegistryInv, SessionListSound
<1>7. PeerTableSound'
  BY <1>1, <1>2, <1>3, <1>4 DEF RegistryInv, PeerTableSound
<1>8. FreeInv'
  BY <1>1 DEF RegistryInv, FreeInv
<1> QED
  BY <1>2, <1>3, <1>6, <1>7, <1>8

\* At exit the free of the session at the index takes it off what is listed.
LEMMA FreeListedSessionInv ==
  ASSUME RegistryInv, FreeListedSession
  PROVE  /\ SessionListSound' /\ PeerTableSound' /\ FreeInv'
         /\ sessionList[scan] \in Listed
         /\ Listed' = Listed \ {sessionList[scan]}
<1> DEFINE s == sessionList[scan]
<1>1. /\ sessionCount \in Nat /\ scan \in Nat /\ scan < sessionCount
      /\ UNCHANGED <<sessionList, sessionCount, peerTable, pc>>
      /\ pc = "emptying" /\ freed = NoSession
      /\ FirstListed = scan /\ FirstListed' = scan + 1
      /\ BeginFree(s)
  BY DEF FreeListedSession, FirstListed, RegistryInv, TypeOK
<1>2. /\ \A i, j \in scan .. sessionCount - 1 :
           sessionList[i] = sessionList[j] => i = j
      /\ Listed = {sessionList[i] : i \in scan .. sessionCount - 1}
      /\ DOMAIN session = Listed
  BY <1>1 DEF RegistryInv, SessionListSound, Listed
<1>3. Listed' = {sessionList[i] : i \in scan + 1 .. sessionCount - 1}
  BY <1>1 DEF Listed
<1>4. s \in Listed /\ Listed' = Listed \ {s}
  BY <1>1, <1>2, <1>3
<1>5. /\ freed' = s /\ s \in Sessions
      /\ DOMAIN session' = DOMAIN session
      /\ session'[s].terminateFlag
  BY <1>1, <1>2, <1>4, BeginFreeSession DEF RegistryInv
<1>6. \A i, j \in scan + 1 .. sessionCount - 1 :
        sessionList[i] = sessionList[j] => i = j
  BY <1>1, <1>2
<1>7. SessionListSound'
  BY <1>1, <1>2, <1>4, <1>5, <1>6, SessionsAssumption DEF SessionListSound
<1>8. PeerTableSound' /\ FreeInv'
  BY <1>1, <1>5 DEF RegistryInv, FreeInv, PeerTableSound
<1> QED
  BY <1>4, <1>7, <1>8

LEMMA RegistryStep == RegistryInv /\ [Next]_vars => RegistryInv'
<1> SUFFICES ASSUME RegistryInv, [Next]_vars
             PROVE  SessionListSound' /\ PeerTableSound' /\ FreeInv'
  BY TypeStep DEF RegistryInv
<1> USE DEF registry, stats, loop, join, vars, FirstListed
<1>1. ASSUME NEW c \in Clients, SignalingMessageReceived(c)
      PROVE  SessionListSound' /\ PeerTableSound' /\ FreeInv'
  <2>1. CASE QueueCandidate(c)
    BY <2>1, SamePeersInv DEF QueueCandidate
  <2>2. CASE SubmitCandidate(c)
    <3>1. /\ DOMAIN session' = DOMAIN session
          /\ \A s \in DOMAIN session :
               /\ session'[s].peer = session[s].peer
               /\ session'[s].terminateFlag = session[s].terminateFlag
      BY <2>2 DEF SubmitCandidate, RegistryInv, TypeOK, Session
    <3> QED
      BY <2>2, <3>1, SamePeersInv DEF SubmitCandidate
  <2> QED
    BY <1>1, <2>1, <2>2, OfferInv DEF SignalingMessageReceived
<1>2. CASE StartStatsTimer
  BY <1>2, SamePeersInv DEF StartStatsTimer
<1>3. ASSUME NEW s \in Sessions, NEW newState \in PeerConnectionStates,
             ConnectionStateChange(s, newState)
      PROVE  SessionListSound' /\ PeerTableSound' /\ FreeInv'
  <2> DEFINE flag == FlagAfter(session[s].terminateFlag, newState)
  <2>1. /\ session' = [session EXCEPT ![s].terminateFlag = flag]
        /\ session[s] \in Session
        /\ session[s].terminateFlag => flag
    BY <1>3 DEF ConnectionStateChange, RegistryInv, TypeOK, FlagAfter
  <2> HIDE DEF flag
  <2>2. /\ DOMAIN session' = DOMAIN session
        /\ \A t \in DOMAIN session :
             /\ session'[t].peer = session[t].peer
             /\ session[t].terminateFlag => session'[t].terminateFlag
    BY <2>1 DEF Session
  <2> QED
    BY <1>3, <2>2, SamePeersInv DEF ConnectionStateChange, Woken
<1>4. CASE SigintHandler \/ Tick \/ ReceiverEnds \/ JoinMediaSender
  BY <1>4, SamePeersInv
     DEF SigintHandler, Tick, ReceiverEnds, JoinMediaSender, Woken
<1>5. CASE CleanupLoop
  <2>1. CASE CleanupSession \/ JoinReceiver \/ FreeListedSession
    BY <2>1, CleanupSessionInv, JoinReceiverInv, FreeListedSessionInv
  <2>2. CASE FreeConfiguration
    <3>1. /\ UNCHANGED <<sessionList, sessionCount, session, freed>>
          /\ FirstListed = 0 /\ FirstListed' = 0
          /\ \A h \in Hashes : peerTable'[h] = NoSession
      BY <2>2 DEF FreeConfiguration
    <3>2. Listed' = Listed
      BY <3>1 DEF Listed
    <3> QED
      BY <3>1, <3>2 DEF RegistryInv, SessionListSound, PeerTableSound, FreeInv
  <2>3. CASE \/ LockConfiguration \/ SkipSession \/ FinishPass
             \/ WaitTimeout \/ LeaveLoop \/ FreeSignalingClient
             \/ ConfigurationFreed
    BY <2>3, SamePeersInv DEF LockConfiguration, SkipSession, FinishPass,
       WaitTimeout, LeaveLoop, FreeSignalingClient, ConfigurationFreed
  <2> QED
    BY <1>5, <2>1, <2>2, <2>3 DEF CleanupLoop
<1>6. CASE UNCHANGED vars
  BY <1>6, SamePeersInv
<1> QED
  BY <1>1, <1>2, <1>3, <1>4, <1>5, <1>6 DEF Next

LEMMA RegistryCorrect == Spec => []RegistryInv
  BY RegistryInit, RegistryStep, PTL DEF Spec

\* The declarations of SampleConfiguration, of a session and of a pending
\* queue hold in every state; in particular the count of sessions never passes
\* the array, and the scan never leaves it.
THEOREM TypeCorrect == Spec => []TypeOK
<1>1. RegistryInv => TypeOK
  BY DEF RegistryInv
<1> QED
  BY <1>1, RegistryCorrect, PTL

\* The list is exactly what is allocated, in every state of every instance:
\* no session leaks out of the list and no freed session stays in it.
THEOREM SessionListCorrect == Spec => []SessionListSound
<1>1. RegistryInv => SessionListSound
  BY DEF RegistryInv
<1> QED
  BY <1>1, RegistryCorrect, PTL

\* What the table finds for a hash is allocated and of a client of that hash.
THEOREM PeerTableCorrect == Spec => []PeerTableSound
<1>1. RegistryInv => PeerTableSound
  BY DEF RegistryInv
<1> QED
  BY <1>1, RegistryCorrect, PTL

(***************************************************************************)
(* What a step may do to a session.                                        *)
(***************************************************************************)
\* A handler that adds a session leaves every other one as it is.
LEMMA NewSessionKeepsOthers ==
  ASSUME NEW s, NEW c, NEW handed, NewSession(s, c, handed), UNCHANGED freed
  PROVE  NeverFreedEarly
  BY DEF NewSession, NeverFreedEarly

\* The beginning of a free takes no flag back; what begins is a session that had
\* its flag, or any at exit.
LEMMA BeginFreeNotEarly ==
  ASSUME TypeOK, NEW s \in DOMAIN session, BeginFree(s),
         session[s].terminateFlag \/ pc = "emptying"
  PROVE  NeverFreedEarly
<1>1. /\ freed' = s
      /\ DOMAIN session' = DOMAIN session
      /\ session'[s].terminateFlag
      /\ \A t \in DOMAIN session : t # s => session'[t] = session[t]
  BY BeginFreeSession
<1> QED
  BY <1>1 DEF NeverFreedEarly

LEMMA StepNeverFreesEarly == RegistryInv /\ [Next]_vars => NeverFreedEarly
<1> SUFFICES ASSUME RegistryInv, [Next]_vars
             PROVE  NeverFreedEarly
  OBVIOUS
<1> USE DEF loop, join
<1>1. CASE UNCHANGED <<session, freed>>
  BY <1>1 DEF NeverFreedEarly
<1>2. ASSUME NEW c \in Clients,
             OfferHandlingFails(c) \/ OfferAccepted(c) \/ OfferDrainFails(c)
      PROVE  NeverFreedEarly
  <2>1. (\E s, handed : NewSession(s, c, handed)) /\ UNCHANGED freed
    BY <1>2 DEF OfferHandlingFails, OfferAccepted, OfferDrainFails
  <2> QED
    BY <2>1, NewSessionKeepsOthers
<1>3. ASSUME NEW c \in Clients, SubmitCandidate(c)
      PROVE  NeverFreedEarly
  <2>1. /\ DOMAIN session' = DOMAIN session /\ UNCHANGED freed
        /\ \A s \in DOMAIN session :
             session'[s].terminateFlag = session[s].terminateFlag
    BY <1>3 DEF SubmitCandidate, RegistryInv, TypeOK, Session
  <2> QED
    BY <2>1 DEF NeverFreedEarly
<1>4. ASSUME NEW s \in Sessions, NEW newState \in PeerConnectionStates,
             ConnectionStateChange(s, newState)
      PROVE  NeverFreedEarly
  <2>1. /\ session[s] \in Session
        /\ session' = [session EXCEPT ![s].terminateFlag =
                         FlagAfter(session[s].terminateFlag, newState)]
        /\ UNCHANGED freed
    BY <1>4 DEF ConnectionStateChange, RegistryInv, TypeOK
  <2>2. session[s].terminateFlag => FlagAfter(session[s].terminateFlag, newState)
    BY DEF FlagAfter
  <2>3. /\ DOMAIN session' = DOMAIN session
        /\ session'[s].terminateFlag = FlagAfter(session[s].terminateFlag, newState)
        /\ \A t \in DOMAIN session : t # s => session'[t] = session[t]
    BY <1>4, <2>1 DEF ConnectionStateChange, Session
  <2> QED
    BY <2>1, <2>2, <2>3 DEF NeverFreedEarly
<1>5. CASE CleanupSession \/ FreeListedSession
  <2>1. sessionList[scan] \in DOMAIN session
    BY <1>5, CleanupSessionInv, FreeListedSessionInv DEF RegistryInv, SessionListSound
  <2> QED
    BY <1>5, <2>1, BeginFreeNotEarly
    DEF CleanupSession, FreeListedSession, RegistryInv
<1>6. CASE JoinReceiver
  <2>1. /\ freed' = NoSession
        /\ DOMAIN session' = DOMAIN session \ {freed}
        /\ \A s \in DOMAIN session' : session'[s] = session[s]
        /\ session[freed].terminateFlag
    BY <1>6, JoinReceiverInv DEF JoinReceiver, RegistryInv, FreeInv
  <2> QED
    BY <2>1 DEF NeverFreedEarly
<1>7. CASE \/ \E c \in Clients : \/ OfferAtCapacity(c) \/ OfferCreateFails(c)
                                 \/ QueueCandidate(c)
           \/ StartStatsTimer \/ SigintHandler \/ Tick
           \/ ReceiverEnds \/ JoinMediaSender
           \/ LockConfiguration \/ SkipSession \/ FinishPass
           \/ WaitTimeout \/ LeaveLoop \/ FreeSignalingClient
           \/ FreeConfiguration \/ ConfigurationFreed
           \/ UNCHANGED vars
  BY <1>1, <1>7
  DEF OfferAtCapacity, OfferCreateFails, QueueCandidate, StartStatsTimer,
      SigintHandler, Tick, ReceiverEnds, JoinMediaSender, LockConfiguration,
      SkipSession, FinishPass, WaitTimeout, LeaveLoop, FreeSignalingClient,
      FreeConfiguration, ConfigurationFreed, vars, registry
<1> QED
  BY <1>2, <1>3, <1>4, <1>5, <1>6, <1>7
  DEF Next, SignalingMessageReceived, CleanupLoop

\* No session is freed before its terminateFlag is set, except at exit, and no
\* flag is taken back: the cleanup loop never takes a stream from a viewer.
THEOREM FreedOnlyWhenTerminatedHolds == Spec => FreedOnlyWhenTerminated
<1>1. RegistryInv /\ [Next]_vars => [NeverFreedEarly]_vars
  BY StepNeverFreesEarly
<1> QED
  BY <1>1, RegistryCorrect, PTL DEF Spec, FreedOnlyWhenTerminated

(***************************************************************************)
(* Every session is found by its peer's hash, when no offer fails halfway. *)
(***************************************************************************)
ReachableInv == RegistryInv /\ EverySessionReachable

\* A new session that takes the free entry of its hash is found by it, and
\* takes it from no other session.
LEMMA NewSessionReachable ==
  ASSUME ReachableInv, HandlerRuns, UNCHANGED <<pc, freed>>,
         NEW s, NEW c \in Clients, NEW handed, sessionCount < MaxSessions,
         NewSession(s, c, handed), ~PeerConnectionFound(c),
         peerTable' = [peerTable EXCEPT ![Hash[c]] = s]
  PROVE  EverySessionReachable'
<1>1. /\ peerTable \in [Hashes -> Sessions \cup {NoSession}]
      /\ Hash \in [Clients -> Hashes]
      /\ NoSession \notin DOMAIN session
      /\ \A t \in DOMAIN session : session[t].peer \in Clients
  BY SessionsAssumption DEF ReachableInv, RegistryInv, TypeOK, Session
<1>2. FirstListed = 0 /\ FirstListed' = 0 /\ pc # "emptying"
  BY DEF HandlerRuns, FirstListed
<1>3. /\ Listed' = Listed \cup {s}
      /\ session'[s].peer = c
      /\ \A t \in DOMAIN session : session'[t] = session[t]
      /\ Listed \subseteq DOMAIN session
  BY <1>2, NewSessionExact DEF ReachableInv, RegistryInv, SessionListSound
<1>4. ASSUME NEW t \in Listed'
      PROVE  peerTable'[Hash[session'[t].peer]] = t
  <2>1. CASE t = s
    BY <1>1, <1>3, <2>1
  <2>2. CASE t # s
    <3>1. t \in Listed /\ t \in DOMAIN session /\ session'[t] = session[t]
      BY <1>3, <1>4, <2>2
    <3>2. peerTable[Hash[session[t].peer]] = t
      BY <1>2, <3>1 DEF ReachableInv, EverySessionReachable
    <3>3. Hash[session[t].peer] # Hash[c]
      BY <1>1, <3>1, <3>2 DEF PeerConnectionFound
    <3> QED
      BY <1>1, <3>1, <3>2, <3>3
  <2> QED
    BY <2>1, <2>2
<1> QED
  BY <1>4 DEF EverySessionReachable

\* The cleanup of a session clears its own entry, which is no other's.
LEMMA CleanupSessionReachable ==
  ASSUME ReachableInv, CleanupSession
  PROVE  EverySessionReachable'
<1> DEFINE s == sessionList[scan]
<1>1. /\ peerTable \in [Hashes -> Sessions \cup {NoSession}]
      /\ Hash \in [Clients -> Hashes]
      /\ \A t \in DOMAIN session : session[t].peer \in Clients
  BY SessionsAssumption DEF ReachableInv, RegistryInv, TypeOK, Session
<1>2. /\ pc # "emptying" /\ BeginFree(s)
      /\ peerTable' = [peerTable EXCEPT ![Hash[session[s].peer]] = NoSession]
  BY DEF CleanupSession, EntryRemoved
<1>3. /\ s \in Listed /\ Listed' = Listed \ {s}
      /\ Listed \subseteq DOMAIN session
  BY CleanupSessionInv DEF ReachableInv, RegistryInv, SessionListSound
<1>4. \A t \in DOMAIN session : t # s => session'[t] = session[t]
  BY <1>2, <1>3, BeginFreeSession DEF ReachableInv, RegistryInv
<1>5. ASSUME NEW t \in Listed'
      PROVE  peerTable'[Hash[session'[t].peer]] = t
  <2>1. t \in Listed /\ t \in DOMAIN session /\ t # s /\ session'[t] = session[t]
    BY <1>3, <1>4, <1>5
  <2>2. /\ peerTable[Hash[session[t].peer]] = t
        /\ peerTable[Hash[session[s].peer]] = s
    BY <1>2, <1>3, <2>1 DEF ReachableInv, EverySessionReachable
  <2>3. Hash[session[t].peer] # Hash[session[s].peer]
    BY <2>1, <2>2
  <2> QED
    BY <1>1, <1>2, <2>1, <2>2, <2>3
<1> QED
  BY <1>5 DEF EverySessionReachable

\* Where the list and the table stay, and the peers of what is listed, nothing is
\* lost.
LEMMA SamePeersReachable ==
  ASSUME ReachableInv, UNCHANGED <<peerTable, Listed>>,
         pc' # "emptying" => pc # "emptying",
         \A s \in Listed : session'[s].peer = session[s].peer
  PROVE  EverySessionReachable'
  BY DEF ReachableInv, EverySessionReachable

LEMMA ReachableStep ==
  ASSUME "offer" \notin Faults, ReachableInv, [Next]_vars
  PROVE  ReachableInv'
<1> SUFFICES EverySessionReachable'
  BY RegistryStep DEF ReachableInv
<1> USE DEF registry, stats, loop, join, vars
<1>1. ASSUME UNCHANGED <<sessionList, sessionCount, FirstListed>>
      PROVE  Listed' = Listed
  BY <1>1 DEF Listed
<1>2. ASSUME NEW c \in Clients, SignalingMessageReceived(c)
      PROVE  EverySessionReachable'
  <2>1. CASE OfferAtCapacity(c) \/ OfferCreateFails(c) \/ QueueCandidate(c)
    BY <1>1, <2>1, SamePeersReachable
    DEF OfferAtCapacity, OfferCreateFails, QueueCandidate, FirstListed
  <2>2. CASE OfferHandlingFails(c)
    BY <2>2 DEF OfferHandlingFails
  <2>3. CASE OfferAccepted(c) \/ OfferDrainFails(c)
    <3>1. \E s, handed : /\ NewSession(s, c, handed)
                         /\ peerTable' = [peerTable EXCEPT ![Hash[c]] = s]
      BY <2>3 DEF OfferAccepted, OfferDrainFails
    <3>2. /\ HandlerRuns /\ UNCHANGED <<pc, freed>>
          /\ ~PeerConnectionFound(c) /\ sessionCount < MaxSessions
      BY <2>3 DEF OfferAccepted, OfferDrainFails
    <3> QED
      BY <3>1, <3>2, NewSessionReachable
  <2>4. CASE SubmitCandidate(c)
    <3>1. \A s \in DOMAIN session : session'[s].peer = session[s].peer
      BY <2>4 DEF SubmitCandidate, ReachableInv, RegistryInv, TypeOK, Session
    <3>2. Listed' = Listed /\ Listed \subseteq DOMAIN session
      BY <1>1, <2>4
      DEF SubmitCandidate, FirstListed, ReachableInv, RegistryInv, SessionListSound
    <3> QED
      BY <2>4, <3>1, <3>2, SamePeersReachable DEF SubmitCandidate
  <2> QED
    BY <1>2, <2>1, <2>2, <2>3, <2>4 DEF SignalingMessageReceived
<1>3. CASE \/ StartStatsTimer \/ SigintHandler \/ Tick
           \/ ReceiverEnds \/ JoinMediaSender
  BY <1>1, <1>3, SamePeersReachable
  DEF StartStatsTimer, SigintHandler, Tick, ReceiverEnds, JoinMediaSender,
      FirstListed, Woken
<1>4. ASSUME NEW s \in Sessions, NEW newState \in PeerConnectionStates,
             ConnectionStateChange(s, newState)
      PROVE  EverySessionReachable'
  <2>1. \A t \in DOMAIN session : session'[t].peer = session[t].peer
    BY <1>4 DEF ConnectionStateChange, ReachableInv, RegistryInv, TypeOK, Session
  <2>2. Listed' = Listed /\ Listed \subseteq DOMAIN session
    BY <1>1, <1>4
    DEF ConnectionStateChange, Woken, FirstListed, ReachableInv, RegistryInv,
        SessionListSound
  <2> QED
    BY <1>4, <2>1, <2>2, SamePeersReachable DEF ConnectionStateChange, Woken
<1>5. CASE CleanupLoop
  <2>1. CASE CleanupSession
    BY <2>1, CleanupSessionReachable
  <2>2. CASE JoinReceiver
    <3>1. /\ Listed' = Listed
          /\ DOMAIN session' = DOMAIN session \ {freed}
          /\ \A t \in DOMAIN session' : session'[t] = session[t]
      BY <2>2, JoinReceiverInv DEF ReachableInv
    <3>2. freed \notin Listed /\ Listed \subseteq DOMAIN session
      BY DEF ReachableInv, RegistryInv, SessionListSound
    <3> QED
      BY <2>2, <3>1, <3>2, SamePeersReachable DEF JoinReceiver
  <2>3. CASE FreeConfiguration \/ FreeListedSession
    BY <2>3 DEF FreeConfiguration, FreeListedSession, EverySessionReachable
  <2>4. CASE ConfigurationFreed
    <3>1. FirstListed' = sessionCount' /\ sessionCount' \in Nat
      BY <2>4
      DEF ConfigurationFreed, FirstListed, ReachableInv, RegistryInv, TypeOK
    <3>2. \A n \in Nat : n .. n - 1 = {}
      OBVIOUS
    <3>3. Listed' = {}
      BY <3>1, <3>2 DEF Listed
    <3> QED
      BY <3>3 DEF EverySessionReachable
  <2>5. CASE \/ LockConfiguration \/ SkipSession \/ FinishPass
             \/ WaitTimeout \/ LeaveLoop \/ FreeSignalingClient
    BY <1>1, <2>5, SamePeersReachable
    DEF LockConfiguration, SkipSession, FinishPass, WaitTimeout, LeaveLoop,
        FreeSignalingClient, FirstListed
  <2> QED
    BY <1>5, <2>1, <2>2, <2>3, <2>4, <2>5 DEF CleanupLoop
<1>6. CASE UNCHANGED vars
  BY <1>1, <1>6, SamePeersReachable DEF FirstListed
<1> QED
  BY <1>2, <1>3, <1>4, <1>5, <1>6 DEF Next

\* If no offer fails between the list and the table, every session of the list is
\* the one its client's hash finds, until the exit frees the table: so no client
\* has two of them and candidates find them all.
THEOREM EverySessionReachableHolds ==
  ASSUME "offer" \notin Faults
  PROVE  Spec => []EverySessionReachable
<1>1. Init => ReachableInv
  <2> SUFFICES ASSUME Init PROVE Listed = {}
    BY RegistryInit DEF ReachableInv, EverySessionReachable
  <2>1. FirstListed .. sessionCount - 1 = {}
    BY DEF Init, FirstListed
  <2> QED
    BY <2>1 DEF Listed
<1>2. ReachableInv /\ [Next]_vars => ReachableInv'
  BY ReachableStep
<1>3. ReachableInv => EverySessionReachable
  BY DEF ReachableInv
<1> QED
  BY <1>1, <1>2, <1>3, PTL DEF Spec

(***************************************************************************)
(* The stats timer and the pending queues.                                 *)
(***************************************************************************)

LEMMA KnownTimerStep ==
  KnownTimerInQueue /\ [Next]_vars => KnownTimerInQueue'
<1> SUFFICES ASSUME KnownTimerInQueue, [Next]_vars PROVE KnownTimerInQueue'
  OBVIOUS
<1> USE DEF KnownTimerInQueue, registry, stats, loop, join
<1>1. ASSUME NEW n, CancelStatsTimer(n) PROVE KnownTimerInQueue'
  BY <1>1 DEF CancelStatsTimer
<1>2. ASSUME UNCHANGED <<statsTimerId, timers>> PROVE KnownTimerInQueue'
  BY <1>2
<1>3. ASSUME NEW c \in Clients, SignalingMessageReceived(c)
      PROVE  KnownTimerInQueue'
  BY <1>1, <1>2, <1>3 DEF SignalingMessageReceived, OfferAtCapacity,
     OfferCreateFails, OfferHandlingFails, OfferAccepted, OfferDrainFails,
     QueueCandidate, SubmitCandidate
<1>4. CASE StartStatsTimer
  BY <1>4 DEF StartStatsTimer
<1>5. ASSUME NEW s \in Sessions, NEW newState \in PeerConnectionStates,
             ConnectionStateChange(s, newState)
      PROVE  KnownTimerInQueue'
  BY <1>2, <1>5 DEF ConnectionStateChange
<1>6. CASE SigintHandler \/ Tick \/ ReceiverEnds \/ JoinMediaSender
  BY <1>2, <1>6 DEF SigintHandler, Tick, ReceiverEnds, JoinMediaSender
<1>7. CASE CleanupLoop
  <2>1. CASE FreeConfiguration
    BY <2>1 DEF FreeConfiguration
  <2>2. CASE JoinReceiver
    BY <1>1, <2>2 DEF JoinReceiver
  <2> QED
    BY <1>2, <1>7, <2>1, <2>2 DEF CleanupLoop, LockConfiguration, SkipSession,
       CleanupSession, FinishPass, WaitTimeout, LeaveLoop, FreeSignalingClient,
       FreeListedSession, ConfigurationFreed
<1>8. CASE UNCHANGED vars
  BY <1>2, <1>8 DEF vars
<1> QED
  BY <1>3, <1>4, <1>5, <1>6, <1>7, <1>8 DEF Next

\* The timer whose id the configuration knows is in the timer queue, also when
\* several handlers add one and a later id replaces an earlier.
THEOREM KnownTimerInQueueHolds == Spec => []KnownTimerInQueue
<1>1. Init => KnownTimerInQueue
  BY DEF Init, KnownTimerInQueue
<1> QED
  BY <1>1, KnownTimerStep, PTL DEF Spec

\* Two pending queues have two hashes, and neither is in the table.
PendingInv ==
  /\ \A q, r \in DOMAIN pending : pending[q].hash = pending[r].hash => q = r
  /\ \A q \in DOMAIN pending : peerTable[pending[q].hash] = NoSession

\* A step keeps this if it adds no queue, changes no hash and puts no hash of a
\* queue that stays into the table.
LEMMA NoNewQueue ==
  ASSUME PendingInv,
         DOMAIN pending' \subseteq DOMAIN pending,
         \A q \in DOMAIN pending' :
           /\ pending'[q].hash = pending[q].hash
           /\ peerTable'[pending[q].hash] = NoSession
  PROVE  PendingInv'
  BY DEF PendingInv

\* An offer takes its queue away and then its hash is in the table.
LEMMA OfferPending ==
  ASSUME TypeOK, PendingInv, NEW c \in Clients,
         \/ OfferAtCapacity(c)
         \/ OfferCreateFails(c)
         \/ OfferHandlingFails(c)
         \/ OfferAccepted(c)
         \/ OfferDrainFails(c)
  PROVE  PendingInv'
<1> USE DEF registry, Without, PendingFor
<1>1. CASE OfferAtCapacity(c) \/ OfferCreateFails(c) \/ OfferHandlingFails(c)
  BY <1>1, NoNewQueue
     DEF OfferAtCapacity, OfferCreateFails, OfferHandlingFails, PendingInv
<1>2. ASSUME NEW s \in Sessions,
             peerTable' = [peerTable EXCEPT ![Hash[c]] = s],
             NEW q \in PendingFor(Hash[c]), pending' = Without(pending, q)
      PROVE  PendingInv'
  <2>1. \A r \in DOMAIN pending' : pending[r].hash # Hash[c]
    BY <1>2 DEF PendingInv
  <2> QED
    BY <1>2, <2>1, NoNewQueue DEF PendingInv, TypeOK
<1>3. ASSUME NEW s \in Sessions,
             peerTable' = [peerTable EXCEPT ![Hash[c]] = s],
             PendingFor(Hash[c]) = {}, UNCHANGED pending
      PROVE  PendingInv'
  <2>1. \A r \in DOMAIN pending' : pending[r].hash # Hash[c]
    BY <1>3
  <2> QED
    BY <1>3, <2>1, NoNewQueue DEF PendingInv, TypeOK
<1>4. CASE OfferAccepted(c)
  BY <1>2, <1>3, <1>4 DEF OfferAccepted
<1>5. CASE OfferDrainFails(c)
  BY <1>2, <1>5 DEF OfferDrainFails
<1> QED
  BY <1>1, <1>4, <1>5

\* A candidate of a client without a session makes a queue only if none has its
\* hash.
LEMMA CandidatePending ==
  ASSUME TypeOK, PendingInv, NEW c \in Clients, QueueCandidate(c)
  PROVE  PendingInv'
<1> USE DEF registry, PendingFor
<1>1. peerTable[Hash[c]] = NoSession /\ UNCHANGED peerTable
  BY DEF QueueCandidate, PeerConnectionFound
<1>2. ASSUME NEW q \in PendingFor(Hash[c]),
             pending' =
               [pending EXCEPT ![q].messages = Append(@, NextCandidate(c))]
      PROVE  PendingInv'
  <2>1. \A r \in DOMAIN pending : pending[r] \in Queue
    BY DEF TypeOK
  <2>2. DOMAIN pending' = DOMAIN pending
    BY <1>2
  <2>3. \A r \in DOMAIN pending : pending'[r].hash = pending[r].hash
    BY <1>2, <2>1 DEF Queue
  <2> QED
    BY <1>1, <2>2, <2>3, NoNewQueue DEF PendingInv
<1>3. ASSUME PendingFor(Hash[c]) = {}, NEW q \in Queues \ DOMAIN pending,
             pending' = [r \in DOMAIN pending \cup {q} |->
                           IF r = q THEN NewQueue(Hash[c], NextCandidate(c))
                                    ELSE pending[r]]
      PROVE  PendingInv'
  <2>1. DOMAIN pending' = DOMAIN pending \cup {q}
    BY <1>3
  <2>2. \A r \in DOMAIN pending : pending'[r] = pending[r]
    BY <1>3
  <2>3. pending'[q].hash = Hash[c]
    BY <1>3 DEF NewQueue
  <2>4. \A r \in DOMAIN pending : pending[r].hash # Hash[c]
    BY <1>3
  <2> QED
    BY <1>1, <2>1, <2>2, <2>3, <2>4 DEF PendingInv
<1> QED
  BY <1>2, <1>3 DEF QueueCandidate

LEMMA PendingStep == TypeOK /\ PendingInv /\ [Next]_vars => PendingInv'
<1> SUFFICES ASSUME TypeOK, PendingInv, [Next]_vars PROVE PendingInv'
  OBVIOUS
<1> USE DEF registry, stats, loop, join
<1>1. ASSUME UNCHANGED <<pending, peerTable>> PROVE PendingInv'
  BY <1>1 DEF PendingInv
<1>2. ASSUME NEW c \in Clients, SignalingMessageReceived(c) PROVE PendingInv'
  BY <1>1, <1>2, OfferPending, CandidatePending
     DEF SignalingMessageReceived, SubmitCandidate
<1>3. CASE StartStatsTimer
  BY <1>1, <1>3 DEF StartStatsTimer
<1>4. ASSUME NEW s \in Sessions, NEW newState \in PeerConnectionStates,
             ConnectionStateChange(s, newState)
      PROVE  PendingInv'
  BY <1>1, <1>4 DEF ConnectionStateChange
<1>5. CASE SigintHandler \/ ReceiverEnds \/ JoinMediaSender
  BY <1>1, <1>5 DEF SigintHandler, ReceiverEnds, JoinMediaSender
<1>6. CASE Tick
  <2>1. \A q \in DOMAIN pending : pending[q] \in Queue
    BY DEF TypeOK
  <2>2. /\ DOMAIN pending' = DOMAIN pending
        /\ \A q \in DOMAIN pending : pending'[q].hash = pending[q].hash
    BY <1>6, <2>1 DEF Tick, Queue
  <2> QED
    BY <1>6, <2>2, NoNewQueue DEF Tick, PendingInv
<1>7. CASE CleanupLoop
  <2>1. CASE FinishPass
    BY <2>1, NoNewQueue DEF FinishPass, Unexpired, PendingInv
  <2>2. CASE CleanupSession
    <3>1. \A q \in DOMAIN pending : peerTable'[pending[q].hash] = NoSession
      BY <2>2 DEF CleanupSession, EntryRemoved, PendingInv, TypeOK, Queue
    <3> QED
      BY <2>2, <3>1, NoNewQueue DEF CleanupSession
  <2>3. CASE FreeConfiguration
    <3>1. DOMAIN pending' = {}
      BY <2>3 DEF FreeConfiguration, Nothing
    <3> QED
      BY <3>1 DEF PendingInv
  <2> QED
    BY <1>1, <1>7, <2>1, <2>2, <2>3 DEF CleanupLoop, LockConfiguration,
       SkipSession, JoinReceiver, WaitTimeout, LeaveLoop, FreeSignalingClient,
       FreeListedSession, ConfigurationFreed
<1>8. CASE UNCHANGED vars
  BY <1>1, <1>8 DEF vars
<1> QED
  BY <1>2, <1>3, <1>4, <1>5, <1>6, <1>7, <1>8 DEF Next

\* No two queues of a hash, and none of a hash in the table, in any state.
LEMMA PendingCorrect == Spec => []PendingInv
<1>1. Init => PendingInv
  <2> SUFFICES ASSUME Init PROVE DOMAIN pending = {}
    BY DEF PendingInv
  <2> QED
    BY DEF Init, Nothing
<1> QED
  BY <1>1, PendingStep, TypeCorrect, PTL DEF Spec

\* The candidates of a hash wait in one queue at most, and in none once the
\* table has its session.
THEOREM OnePendingQueueHolds == Spec => []OnePendingQueue
<1>1. PendingInv => OnePendingQueue
  BY DEF PendingInv, OnePendingQueue, PendingFor
<1> QED
  BY <1>1, PendingCorrect, PTL

=============================================================================
