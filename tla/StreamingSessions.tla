-------------------------- MODULE StreamingSessions --------------------------
(***************************************************************************)
(* The registry of streaming sessions a WebRTC master keeps: the list of   *)
(* sessions, the table that finds a peer's session by the hash of its      *)
(* client id, the queues of ICE candidates that came before their offer,   *)
(* the statistics timer, and the cleanup loop of the main thread.          *)
(*                                                                         *)
(* signalingMessageReceived runs on a pool of threads but holds            *)
(* sampleConfigurationObjLock from its first statement to the end of its   *)
(* switch, so a message is one atomic step, possible whenever the main     *)
(* thread does not hold the lock; the stats timer is added after the       *)
(* unlock and is a step of its own.  The main thread holds the lock over   *)
(* its scan and over each free, in which it joins the session's receiving  *)
(* thread; the SDK's callbacks, the clock and SIGINT do not take it: they  *)
(* interleave with both.                                                   *)
(***************************************************************************)
EXTENDS Naturals, Sequences

CONSTANTS
  Clients,        \* the viewers that send signaling messages
  Hashes,         \* the values of COMPUTE_CRC32
  Hash,           \* the hash of each client's id
  Sessions,       \* the blocks of memory a SampleStreamingSession may take
  NoSession,      \* the value of a slot or a table entry never filled
  MaxSessions,    \* DEFAULT_MAX_CONCURRENT_STREAMING_SESSION
  Queues,         \* the blocks of memory a PendingMessageQueue may take
  PendingExpiry,  \* SAMPLE_PENDING_MESSAGE_CLEANUP_DURATION, in clock ticks
  Timers,         \* the entries of the timer queue
  NoTimer,        \* MAX_UINT32, "no timer"
  Workers,        \* KVS_SIGNALING_THREADPOOL_MAX
  MaxCandidates,  \* bound: the candidates handled of a client in one behaviour
  Faults          \* the calls that may fail

ASSUME SessionsAssumption ==
  /\ Hash \in [Clients -> Hashes]
  /\ NoSession \notin Sessions
  /\ MaxSessions \in Nat \ {0}
  /\ NoTimer \notin Timers
  /\ PendingExpiry \in Nat
  /\ Workers \in Nat
  /\ MaxCandidates \in Nat
  /\ Faults \subseteq {"create", "offer", "candidate"}

VARIABLES
  sessionList,    \* sampleStreamingSessionList, stale past sessionCount
  sessionCount,   \* streamingSessionCount
  peerTable,      \* pRtcPeerConnectionForRemoteClient
  session,        \* the sessions allocated and not yet freed
  pending,        \* pPendingSignalingMessageForRemoteClient
  statsTimerId,   \* iceCandidatePairStatsTimerId
  timers,         \* the stats timers in the timer queue
  startingStats,  \* handlers past their unlock with startStats TRUE
  interrupted,    \* set by SIGINT
  pc,             \* where the cleanup loop, then the rest of main, stands
  scan,           \* i, the index in the list, of the loop and of the exit
  freed,          \* the session freeSampleStreamingSession is freeing
  receiver,       \* the receiving thread of that session
  handled         \* how many candidates of each client were handled

registry == <<sessionList, sessionCount, peerTable, session>>
stats    == <<statsTimerId, timers, startingStats>>
join     == <<freed, receiver>>
loop     == <<interrupted, pc, scan, join>>
vars     == <<registry, pending, stats, loop, handled>>

-----------------------------------------------------------------------------
Nothing   == [x \in {} |-> NoSession]
Slots     == 0 .. MaxSessions - 1
Candidate == [client : Clients, number : 1 .. MaxCandidates]
Session   == [peer : Clients, terminateFlag : BOOLEAN,
              candidates : Seq(Candidate)]
Queue     == [hash : Hashes, age : 0 .. PendingExpiry + 1,
              messages : Seq(Candidate)]

\* Type invariant: the declarations of SampleConfiguration, of a session and
\* of a pending queue; what is allocated is a function on what is in use.
TypeOK ==
  /\ sessionList \in [Slots -> Sessions \cup {NoSession}]
  /\ sessionCount \in 0 .. MaxSessions
  /\ peerTable \in [Hashes -> Sessions \cup {NoSession}]
  /\ DOMAIN session \in SUBSET Sessions
  /\ session \in [DOMAIN session -> Session]
  /\ DOMAIN pending \in SUBSET Queues
  /\ pending \in [DOMAIN pending -> Queue]
  /\ statsTimerId \in Timers \cup {NoTimer}
  /\ timers \in SUBSET Timers
  /\ startingStats \in 0 .. Workers
  /\ interrupted \in BOOLEAN
  /\ pc \in {"run", "scan", "waiting", "exited", "joined", "freeing",
            "emptying", "closed"}
  /\ scan \in 0 .. MaxSessions
  /\ freed \in Sessions \cup {NoSession}
  /\ receiver \in {"ended", "told", "untold"}
  /\ handled \in [Clients -> 0 .. MaxCandidates]

Init ==
  /\ sessionList = [i \in Slots |-> NoSession]
  /\ sessionCount = 0
  /\ peerTable = [h \in Hashes |-> NoSession]
  /\ session = Nothing
  /\ pending = Nothing
  /\ statsTimerId = NoTimer
  /\ timers = {}
  /\ startingStats = 0
  /\ interrupted = FALSE
  /\ pc = "run"
  /\ scan = 0
  /\ freed = NoSession
  /\ receiver = "ended"
  /\ handled = [c \in Clients |-> 0]

-----------------------------------------------------------------------------
(* Helpers.                                                                *)

\* Mutant: messages are handled by as many threads as there are messages.
HandlerRunsUnbounded == pc \in {"run", "waiting", "exited", "joined"}

\* A signaling message is handled while the signaling client exists, when a
\* thread of its pool is free and the main thread does not hold the lock.
HandlerRuns ==
  pc \in {"run", "waiting", "exited", "joined"} /\ startingStats < Workers

\* CVAR_BROADCAST: only a loop that waits is woken, nothing is remembered.
Woken == IF pc = "waiting" THEN "run" ELSE pc

Without(f, x) == [y \in DOMAIN f \ {x} |-> f[y]]

\* Is there a session for the client's hash?
\* Mutant: the result of the lookup is not used.
PeerConnectionNeverFound(c) == FALSE
PeerConnectionFound(c) == peerTable[Hash[c]] # NoSession

\* getPendingMessageQueueForHash: the queues it can find for a hash.
PendingFor(h) == {q \in DOMAIN pending : pending[q].hash = h}

\* submitPendingIceCandidate: what is submitted of a queue, in its order.
\* Mutants: the queue is popped as a stack; the loop stops one short.
PoppedCandidates(q) ==
  LET m == pending[q].messages IN [i \in DOMAIN m |-> m[Len(m) + 1 - i]]
AllButLastCandidate(q) ==
  LET m == pending[q].messages IN SubSeq(m, 1, Len(m) - 1)
SubmittedCandidates(q) == pending[q].messages

\* createMessageQueue, for the first candidate of a hash.
NewQueue(h, candidate) == [hash |-> h, age |-> 0, messages |-> <<candidate>>]

\* createSampleStreamingSession, and the store into the list after it: s is
\* the memory it takes, handed the candidates it is given before the unlock.
NewSession(s, c, handed) ==
  /\ s \in Sessions \ DOMAIN session
  /\ session' = [t \in DOMAIN session \cup {s} |->
                   IF t = s THEN [peer |-> c, terminateFlag |-> FALSE,
                                  candidates |-> handed]
                            ELSE session[t]]
  /\ sessionList' = [sessionList EXCEPT ![sessionCount] = s]
  /\ sessionCount' = sessionCount + 1

\* Mutant: the id is not reset to MAX_UINT32.
CancelStatsTimerKeepsId(n) ==
  /\ timers' = IF n = 0 THEN timers \ {statsTimerId} ELSE timers
  /\ UNCHANGED statsTimerId

\* The last part of freeSampleStreamingSession: with n sessions in the list,
\* none of them left, the stats timer whose id is known is cancelled.
CancelStatsTimer(n) ==
  IF statsTimerId # NoTimer /\ n = 0
    THEN /\ timers' = timers \ {statsTimerId}
         /\ statsTimerId' = NoTimer
    ELSE UNCHANGED <<timers, statsTimerId>>

-----------------------------------------------------------------------------
(* signalingMessageReceived, an offer.  An offer of a client whose hash is *)
(* in the table is refused and changes nothing.                            *)

OfferAtCapacity(c) ==
  /\ HandlerRuns
  /\ ~PeerConnectionFound(c)
  /\ sessionCount = MaxSessions
  /\ \E q \in PendingFor(Hash[c]) : pending' = Without(pending, q)
  /\ UNCHANGED <<registry, stats, loop, handled>>

\* createSampleStreamingSession frees what it had built.
OfferCreateFails(c) ==
  /\ HandlerRuns
  /\ "create" \in Faults
  /\ ~PeerConnectionFound(c)
  /\ sessionCount < MaxSessions
  /\ CancelStatsTimer(sessionCount)
  /\ UNCHANGED <<registry, pending, startingStats, loop, handled>>

\* handleOffer fails: the session stays in the list and is not in the table.
OfferHandlingFails(c) ==
  /\ HandlerRuns
  /\ "offer" \in Faults
  /\ ~PeerConnectionFound(c)
  /\ sessionCount < MaxSessions
  /\ \E s \in Sessions : NewSession(s, c, <<>>)
  /\ UNCHANGED <<peerTable, pending, stats, loop, handled>>

\* The candidates of the pending queue go to the session; the handler leaves
\* the lock owing a stats timer if none is known.
OfferAccepted(c) ==
  LET h == Hash[c] IN
  /\ HandlerRuns
  /\ ~PeerConnectionFound(c)
  /\ sessionCount < MaxSessions
  /\ \E s \in Sessions :
       /\ peerTable' = [peerTable EXCEPT ![h] = s]
       /\ \/ /\ PendingFor(h) = {}
             /\ NewSession(s, c, <<>>)
             /\ UNCHANGED pending
          \/ \E q \in PendingFor(h) :
               /\ NewSession(s, c, SubmittedCandidates(q))
               /\ pending' = Without(pending, q)
  /\ startingStats' = IF statsTimerId = NoTimer THEN startingStats + 1
                                                ELSE startingStats
  /\ UNCHANGED <<statsTimerId, timers, loop, handled>>

\* submitPendingIceCandidate stops at the first candidate that is refused; the
\* rest is freed with its queue, and the stats timer is not asked for.
OfferDrainFails(c) ==
  LET h == Hash[c] IN
  /\ HandlerRuns
  /\ "candidate" \in Faults
  /\ ~PeerConnectionFound(c)
  /\ sessionCount < MaxSessions
  /\ \E s \in Sessions, q \in PendingFor(h) :
       \E n \in 1 .. Len(SubmittedCandidates(q)) :
         /\ NewSession(s, c, SubSeq(SubmittedCandidates(q), 1, n))
         /\ peerTable' = [peerTable EXCEPT ![h] = s]
         /\ pending' = Without(pending, q)
  /\ UNCHANGED <<stats, loop, handled>>

\* timerQueueAddTimer, after the unlock; it fails when the queue is full.
StartStatsTimer ==
  /\ startingStats > 0
  /\ startingStats' = startingStats - 1
  /\ \/ \E t \in Timers \ timers :
          /\ timers' = timers \cup {t}
          /\ statsTimerId' = t
     \/ Timers \subseteq timers /\ UNCHANGED <<timers, statsTimerId>>
  /\ UNCHANGED <<registry, pending, loop, handled>>

-----------------------------------------------------------------------------
(* signalingMessageReceived, an ICE candidate.                             *)

\* The pool's threads race for the lock: in which order the candidates of a
\* client are handled is decided there, and need not be the order in which they
\* were sent.  So a candidate is named by its turn at the lock.
NextCandidate(c) == [client |-> c, number |-> handled[c] + 1]

Handle(c) ==
  /\ HandlerRuns
  /\ handled[c] < MaxCandidates
  /\ handled' = [handled EXCEPT ![c] = @ + 1]

\* No session yet: the candidate waits in its client's queue, made if needed.
QueueCandidate(c) ==
  LET h == Hash[c] IN
  /\ Handle(c)
  /\ ~PeerConnectionFound(c)
  /\ \/ \E q \in PendingFor(h) :
          pending' = [pending EXCEPT ![q].messages = Append(@, NextCandidate(c))]
     \/ /\ PendingFor(h) = {}
        /\ \E q \in Queues \ DOMAIN pending :
             pending' = [r \in DOMAIN pending \cup {q} |->
                           IF r = q THEN NewQueue(h, NextCandidate(c))
                                    ELSE pending[r]]
  /\ UNCHANGED <<registry, stats, loop>>

SubmitCandidate(c) ==
  LET s == peerTable[Hash[c]] IN
  /\ Handle(c)
  /\ PeerConnectionFound(c)
  /\ session' = [session EXCEPT ![s].candidates = Append(@, NextCandidate(c))]
  /\ UNCHANGED <<sessionList, sessionCount, peerTable, pending, stats, loop>>

-----------------------------------------------------------------------------
(* Steps that take no lock: the peer connections' callbacks, SIGINT, time. *)

PeerConnectionStates ==
  {"connecting", "connected", "failed", "closed", "disconnected"}

\* The terminateFlag after a change of state: once set it stays.
\* Mutant: the flag follows the state.
FlagFollowsState(flag, newState) ==
  newState \in {"failed", "closed", "disconnected"}
FlagAfter(flag, newState) ==
  flag \/ newState \in {"failed", "closed", "disconnected"}

\* onConnectionStateChange; the flag "connected" starts the media
\* threads and is in module MediaPipeline.
ConnectionStateChange(s, newState) ==
  /\ pc # "closed"
  /\ s \in DOMAIN session
  /\ session' = [session EXCEPT ![s].terminateFlag = FlagAfter(@, newState)]
  /\ pc' = Woken
  /\ UNCHANGED <<sessionList, sessionCount, peerTable, pending, stats,
                 interrupted, scan, join, handled>>

SigintHandler ==
  /\ pc # "closed"
  /\ interrupted' = TRUE
  /\ pc' = Woken
  /\ UNCHANGED <<registry, pending, stats, scan, join, handled>>

\* The clock; ages past expiry are all alike.
Tick ==
  /\ \E q \in DOMAIN pending : pending[q].age <= PendingExpiry
  /\ pending' = [q \in DOMAIN pending |->
       [pending[q] EXCEPT !.age = IF @ > PendingExpiry THEN @ ELSE @ + 1]]
  /\ UNCHANGED <<registry, stats, loop, handled>>

-----------------------------------------------------------------------------
(* freeSampleStreamingSession, with the lock held; module AudioReceiver    *)
(* has the receiving thread.                                               *)

\* The shutdown callback ends the thread ("told") only if the thread has
\* registered it by now.  "ended" stands for a thread that was not created too:
\* which of the three it is, is left open here.
BeginFree(s) ==
  /\ freed' = s
  /\ session' = [session EXCEPT ![s].terminateFlag = TRUE]
  /\ receiver' \in {"ended", "told", "untold"}

\* A thread that was not told may end too, by an error, or never.
ReceiverEnds ==
  /\ freed # NoSession
  /\ receiver # "ended"
  /\ receiver' = "ended"
  /\ UNCHANGED <<registry, pending, stats, interrupted, pc, scan, freed, handled>>

\* THREAD_JOIN returns; what is left of the free calls nobody who waits.
JoinReceiver ==
  /\ freed # NoSession
  /\ receiver = "ended"
  /\ session' = Without(session, freed)
  /\ CancelStatsTimer(sessionCount)
  /\ freed' = NoSession
  /\ UNCHANGED <<sessionList, sessionCount, peerTable, pending, startingStats,
                 interrupted, pc, scan, receiver, handled>>

-----------------------------------------------------------------------------
(* sessionCleanupWait, and the end of main.                                *)

\* The test of interrupted takes no lock, so a SIGINT between it and the lock
\* is seen a pass later, exactly as one that comes during the scan.
LockConfiguration ==
  /\ pc = "run"
  /\ ~interrupted
  /\ pc' = "scan"
  /\ scan' = 0
  /\ UNCHANGED <<registry, pending, stats, interrupted, join, handled>>

SkipSession ==
  /\ pc = "scan"
  /\ freed = NoSession
  /\ scan < sessionCount
  /\ ~session[sessionList[scan]].terminateFlag
  /\ scan' = scan + 1
  /\ UNCHANGED <<registry, pending, stats, interrupted, pc, join, handled>>

\* The list without its i-th session: swap with the last.
\* Mutant: the list is only shortened.
ShortenedList(i) == sessionList
SwappedList(i) == [sessionList EXCEPT ![i] = sessionList[sessionCount - 1]]

\* The table without the entry of a session's hash.
\* Mutant: the entry is left.
EntryLeft(s) == peerTable
EntryRemoved(s) == [peerTable EXCEPT ![Hash[session[s].peer]] = NoSession]

\* Out of the list and of the table, then its free begins; the scan goes on at
\* the next index and so passes over the session that was swapped in.
CleanupSession ==
  LET s == sessionList[scan] IN
  /\ pc = "scan"
  /\ freed = NoSession
  /\ scan < sessionCount
  /\ session[s].terminateFlag
  /\ sessionCount' = sessionCount - 1
  /\ sessionList' = SwappedList(scan)
  /\ peerTable' = EntryRemoved(s)
  /\ BeginFree(s)
  /\ scan' = scan + 1
  /\ UNCHANGED <<pending, stats, interrupted, pc, handled>>

\* removeExpiredMessageQueues: the queues it puts back.
\* Mutant: all of them.
AllKept == DOMAIN pending
Unexpired == {q \in DOMAIN pending : pending[q].age <= PendingExpiry}

\* The end of a pass: queues that expired are freed, then CVAR_WAIT gives the
\* lock up.
FinishPass ==
  /\ pc = "scan"
  /\ freed = NoSession
  /\ scan >= sessionCount
  /\ pending' = [q \in Unexpired |-> pending[q]]
  /\ pc' = "waiting"
  /\ UNCHANGED <<registry, stats, interrupted, scan, join, handled>>

\* SAMPLE_SESSION_CLEANUP_WAIT_PERIOD is over.
\* Mutant: the wait has no timeout.
WaitForBroadcast == FALSE
WaitTimeout ==
  /\ pc = "waiting"
  /\ pc' = "run"
  /\ UNCHANGED <<registry, pending, stats, interrupted, scan, join, handled>>

LeaveLoop ==
  /\ pc = "run"
  /\ interrupted
  /\ pc' = "exited"
  /\ UNCHANGED <<registry, pending, stats, interrupted, scan, join, handled>>

\* cleanUpKVSResources: it joins the media thread, module MediaPipeline, while
\* messages still come.
JoinMediaSender ==
  /\ pc = "exited"
  /\ pc' = "joined"
  /\ UNCHANGED <<registry, pending, stats, interrupted, scan, join, handled>>

\* Then freeSignalingClient stops the messages and waits for the handlers that
\* run.
FreeSignalingClient ==
  /\ pc = "joined"
  /\ pc' = "freeing"
  /\ UNCHANGED <<registry, pending, stats, interrupted, scan, join, handled>>

\* freeSampleConfiguration frees the timers, the queues and the table, and then,
\* with the lock, every session of the list, whatever its flag.
FreeConfiguration ==
  /\ pc = "freeing"
  /\ startingStats = 0
  /\ pc' = "emptying"
  /\ scan' = 0
  /\ statsTimerId' = NoTimer
  /\ timers' = {}
  /\ pending' = Nothing
  /\ peerTable' = [h \in Hashes |-> NoSession]
  /\ UNCHANGED <<sessionList, sessionCount, session, startingStats, interrupted,
                 join, handled>>

FreeListedSession ==
  /\ pc = "emptying"
  /\ freed = NoSession
  /\ scan < sessionCount
  /\ BeginFree(sessionList[scan])
  /\ scan' = scan + 1
  /\ UNCHANGED <<sessionList, sessionCount, peerTable, pending, stats,
                 interrupted, pc, handled>>

ConfigurationFreed ==
  /\ pc = "emptying"
  /\ freed = NoSession
  /\ scan = sessionCount
  /\ pc' = "closed"
  /\ UNCHANGED <<registry, pending, stats, interrupted, scan, join, handled>>

-----------------------------------------------------------------------------
SignalingMessageReceived(c) ==
  \/ OfferAtCapacity(c)
  \/ OfferCreateFails(c)
  \/ OfferHandlingFails(c)
  \/ OfferAccepted(c)
  \/ OfferDrainFails(c)
  \/ QueueCandidate(c)
  \/ SubmitCandidate(c)

CleanupLoop ==
  \/ LockConfiguration
  \/ SkipSession
  \/ CleanupSession
  \/ JoinReceiver
  \/ FinishPass
  \/ WaitTimeout
  \/ LeaveLoop
  \/ FreeSignalingClient
  \/ FreeConfiguration
  \/ FreeListedSession
  \/ ConfigurationFreed

Next ==
  \/ \E c \in Clients : SignalingMessageReceived(c)
  \/ StartStatsTimer
  \/ \E s \in Sessions, newState \in PeerConnectionStates :
       ConnectionStateChange(s, newState)
  \/ SigintHandler
  \/ Tick
  \/ ReceiverEnds
  \/ JoinMediaSender
  \/ CleanupLoop

\* The main thread runs, a handler that owes a timer goes on, time passes, and a
\* receiving thread whose stream was ended ends (AudioReceiver!FreeEnds).
\* Nothing makes a client send, a connection fail, a user interrupt, a thread
\* end that was not told to, or the media thread end.
Fairness ==
  /\ WF_vars(CleanupLoop)
  /\ WF_vars(StartStatsTimer)
  /\ WF_vars(Tick)
  /\ WF_vars(receiver = "told" /\ ReceiverEnds)

Spec == Init /\ [][Next]_vars
FairSpec == Spec /\ Fairness

-----------------------------------------------------------------------------
(* Safety.                                                                 *)

\* What of the list is in use: at exit the sessions before the index are freed
\* and stay in the array.
FirstListed == IF pc \in {"emptying", "closed"} THEN scan ELSE 0
Listed == {sessionList[i] : i \in FirstListed .. sessionCount - 1}

\* The list holds every session that is allocated, once each, but the one that
\* is being freed, and nothing that was freed: the swap with the last element
\* and the count of the cleanup loop keep step with the allocations of the
\* offers, so nothing leaks and no loop reads a freed session.
SessionListSound ==
  /\ \A i, j \in FirstListed .. sessionCount - 1 :
       sessionList[i] = sessionList[j] => i = j
  /\ freed \notin Listed
  /\ DOMAIN session = Listed \cup ({freed} \ {NoSession})

\* A hit in the table is a session of the list and belongs to a client of that
\* hash: a candidate is never handed to a session whose free began.
PeerTableSound ==
  \A h \in Hashes : peerTable[h] # NoSession =>
    /\ peerTable[h] \in Listed
    /\ Hash[session[peerTable[h]].peer] = h

\* The candidates of one hash wait in one queue at most, and in none once the
\* table has a session for it: else a later candidate would overtake, or wait
\* for an offer that is already answered.
OnePendingQueue ==
  \A q \in DOMAIN pending :
    /\ PendingFor(pending[q].hash) = {q}
    /\ peerTable[pending[q].hash] = NoSession

\* A session gets its candidates in the order in which the handlers had the
\* lock, whether they waited in a queue or not, and none reaches a session twice,
\* or two sessions.  The order in which they were sent is not kept.
CandidatesOnceInTurn ==
  \A s, t \in DOMAIN session :
    \A i \in DOMAIN session[s].candidates, j \in DOMAIN session[t].candidates :
      LET a == session[s].candidates[i]  b == session[t].candidates[j] IN
      a.client = b.client =>
        IF s = t THEN i < j => a.number < b.number
                 ELSE a.number # b.number

\* A session of the table has every candidate of its clients that was handled
\* since the first it was handed: the move from queue to session loses none in
\* between.
NoCandidateSkipped ==
  \A h \in Hashes, c \in Clients : peerTable[h] # NoSession /\ Hash[c] = h =>
    LET handed == session[peerTable[h]].candidates
        own    == {handed[i].number : i \in {j \in DOMAIN handed : handed[j].client = c}}
    IN  \A n \in own : n .. handled[c] \subseteq own

\* The id the configuration keeps is the id of a timer in the queue, so the
\* last session's cancel finds it.
KnownTimerInQueue == statsTimerId # NoTimer => statsTimerId \in timers

\* A session's free begins only after its terminateFlag was set, or at exit; what
\* is freed has the flag, and the flag of an allocated session is never taken
\* back.
NeverFreedEarly ==
  /\ freed' \notin {freed, NoSession} =>
       session[freed'].terminateFlag \/ pc = "emptying"
  /\ \A s \in DOMAIN session :
       IF s \in DOMAIN session'
         THEN session[s].terminateFlag => session'[s].terminateFlag
         ELSE session[s].terminateFlag

FreedOnlyWhenTerminated == [][NeverFreedEarly]_vars

\* Every session of the list is the one its client's hash finds, until the table
\* is freed.  It takes an offer whose handling fails to break it.
EverySessionReachable ==
  pc # "emptying" =>
    \A s \in Listed : peerTable[Hash[session[s].peer]] = s

\* "Check if we already have an ongoing master session with the same peer".
OneSessionPerPeer ==
  \A s, t \in DOMAIN session : session[s].peer = session[t].peer => s = t

\* "De-initialize the session stats timer if there are no active sessions".
NoStatsTimerWithoutSession ==
  pc = "waiting" /\ sessionCount = 0 /\ startingStats = 0 => timers = {}

-----------------------------------------------------------------------------
(* Liveness.                                                               *)

\* No join waits for ever: neither a free for a thread it did not tell to end,
\* which may happen (AudioReceiver, ShutdownCallbackCalled), nor the exit for the
\* media thread, which needs frames to end (MediaPipeline, MediaSenderJoined).
JoinsReturn == []<>(receiver # "untold") /\ []<>(pc # "exited")

\* Where the joins return, a terminated session is freed, though the loop skips
\* the session it swaps in and a broadcast may find nobody waiting: the timed
\* wait makes a later pass come.
TerminatedIsFreed ==
  JoinsReturn => \A s \in Sessions :
    (s \in DOMAIN session /\ session[s].terminateFlag)
      ~> (s \in DOMAIN session => ~session[s].terminateFlag)

\* Where the joins return, candidates without an offer do not stay: their queue
\* is taken or expires.
PendingQueueGoes ==
  JoinsReturn => \A q \in Queues : (q \in DOMAIN pending) ~> (q \notin DOMAIN pending)

\* Where the joins return, an interrupt ends the program and leaves nothing
\* allocated behind.
InterruptCloses ==
  JoinsReturn =>
    (interrupted ~> pc = "closed" /\ session = Nothing /\ pending = Nothing /\ timers = {})

-----------------------------------------------------------------------------
(* Refinement.                                                             *)

Phase == [s \in Sessions |->
            IF s \notin DOMAIN session THEN "free"
            ELSE IF session[s].terminateFlag THEN "ended" ELSE "streaming"]

Pool == INSTANCE SessionPool
          WITH Capacity <- MaxSessions, phase <- Phase, open <- pc # "closed"

\* The registry is a pool of at most MaxSessions sessions, which is closed when
\* all of them are released.
ImplementsPool == Pool!Spec

=============================================================================
