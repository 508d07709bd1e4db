------------------------- MODULE SharedConfiguration -------------------------
(***************************************************************************)
(* The parts that share sampleConfigurationObjLock together: the main      *)
(* thread, the signaling client with its recovery, offers and their        *)
(* answers, the timer thread, and the start and exit of it all.            *)
(***************************************************************************)
EXTENDS StartUp, AnswerExchange, TimerQueue

ASSUME PartiesAssumption == {"main", "timer"} \cap Sessions = {}

vars == <<lockVars, clientVars, exchangeVars, timerVars>>

\* Type invariant.
TypeOK == LockTypeOK /\ ClientTypeOK /\ ExchangeTypeOK /\ TimerTypeOK

Init == LockInit /\ ClientInit /\ ExchangeInit /\ TimerInit

-----------------------------------------------------------------------------
(* The handler of an offer.  One at a time owes a stats timer (bound; in   *)
(* StreamingSessions several do).                                          *)

ReceiveOffer(s) ==
  /\ ~startsStats
  /\ Offer(s)
  /\ UNCHANGED <<clientVars, timerVars>>

EndOffer ==
  /\ UnlockOffer
  /\ OweStatsTimer(step = "failed")
  /\ UNCHANGED clientVars

StartStatsTimer == AddStatsTimer /\ UNCHANGED <<lockVars, clientVars, exchangeVars>>

Handler(s) == HandleOffer(s) /\ UNCHANGED <<clientVars, timerVars>>

HandlerThread == (\E s \in Sessions : Handler(s)) \/ EndOffer \/ StartStatsTimer

AgentStep(s) == IceAgent(s) /\ UNCHANGED <<clientVars, timerVars>>

-----------------------------------------------------------------------------
(* The main thread.                                                        *)

FreeingStep == CancelStatsTimer /\ UNCHANGED <<clientVars, exchangeVars>>

ClosingStep ==
  /\ SessionFreed
  /\ ClosePeerConnections({freed})
  /\ UNCHANGED <<clientVars, timerVars>>

\* freeSignalingClient waits for the handlers that run.
ExitFreesClient ==
  /\ pc = "exited"
  /\ offered = NoSession
  /\ ~startsStats
  /\ FreeSignalingClient
  /\ GoTo("clientFreed")
  /\ UNCHANGED <<exchangeVars, timerVars>>

ExitFreesTimers == FreeTimerQueue /\ UNCHANGED <<clientVars, exchangeVars>>

\* freeSampleConfiguration locks, frees every session and unlocks.
ExitLocks ==
  /\ pc = "timersFreed"
  /\ LockFree
  /\ objLock' = "main"
  /\ pc' = "emptying"
  /\ UNCHANGED <<interrupted, listed, freeing, clientVars, exchangeVars, timerVars>>

ExitFreesSession ==
  /\ \E s \in Sessions : FreeListedSession(s)
  /\ UNCHANGED <<clientVars, exchangeVars, timerVars>>

ExitFreesConfiguration ==
  /\ pc = "emptying"
  /\ freeStep = "none"
  /\ listed = {}
  /\ objLock' = "nobody"
  /\ pc' = "closed"
  /\ UNCHANGED <<interrupted, listed, freeing, clientVars, exchangeVars, timerVars>>

\* The part of the loop that leaves sessions and timers alone.
LoopStep ==
  \/ /\ LockConfiguration \/ EndScan \/ \E s \in Sessions : RemoveSession(s)
     /\ UNCHANGED clientVars
  \/ Recovery

MainThread ==
  \/ (Start \/ LoopStep) /\ UNCHANGED <<exchangeVars, timerVars>>
  \/ FreeingStep
  \/ ClosingStep
  \/ ExitFreesClient
  \/ ExitFreesTimers
  \/ ExitLocks
  \/ ExitFreesSession
  \/ ExitFreesConfiguration

CallSucceeds ==
  (FetchSucceeds \/ ConnectSucceeds) /\ UNCHANGED <<exchangeVars, timerVars>>

TimerStep == TimerThread /\ UNCHANGED <<clientVars, exchangeVars>>

\* Both take as long as the thread that is joined.
JoinStep ==
  /\ JoinReceiver \/ LeaveLoop
  /\ UNCHANGED <<clientVars, exchangeVars, timerVars>>

Environment ==
  \/ SigintHandler /\ UNCHANGED <<clientVars, exchangeVars, timerVars>>
  \/ SignalingClientError /\ UNCHANGED <<lockVars, exchangeVars, timerVars>>
  \/ /\ Fire("cert") \/ Fire("stats")
     /\ UNCHANGED <<clientVars, exchangeVars>>

Next ==
  \/ MainThread
  \/ \E s \in Sessions : ReceiveOffer(s) \/ AgentStep(s)
  \/ HandlerThread
  \/ TimerStep
  \/ JoinStep
  \/ Environment

Spec == Init /\ [][Next]_vars

-----------------------------------------------------------------------------
\* The threads run; one that waits for a lock, or for the timer queue, gets it
\* though others take it too.  Nothing says that a thread ends that is joined.
\* A service that is asked again and again answers at last.
Fairness ==
  /\ SF_vars(MainThread)
  /\ SF_vars(CallSucceeds)
  /\ SF_vars(HandlerThread)
  /\ \A s \in Sessions : WF_vars(AgentStep(s))
  /\ WF_vars(TimerStep)

FairSpec == Spec /\ Fairness

-----------------------------------------------------------------------------
(* Safety.                                                                 *)

\* Each lock has one owner, and a thread is where it has to have the lock only
\* while it is the owner.
OneOwner ==
  /\ pc \in LockedPlaces <=> objLock = "main"
  /\ step # "none" <=> objLock = "handler"
  /\ callback # "idle" <=> objLock = "timer"
  /\ step = "sending" <=> sendLock = "handler"
  /\ \A s \in Sessions :
       ice[s] \in {"candidateSending", "answerSending"} <=> sendLock = s

\* A client that is allocated is the client of the handle: re-creation loses
\* none and makes no second one.
OneClient == \A c \in Clients : client[c] # "free" <=> c = handle

\* The client an offer's answer is being sent with is not freed: the handler
\* owns the lock under which the loop re-creates the client.
HandlerUsesLiveClient ==
  sendLock = "handler" => sendTo = handle /\ HandleValid

\* The service takes at most one answer for an offer, whoever sends it and
\* whenever the gathering ends.
OneAnswer == \A s \in Sessions : answers[s] <= 1

\* And it takes one: when the gathering is done and the handler has left, one of
\* them has answered, whether the viewer trickles or not, unless a call failed
\* that the answer needs.  No order of the two leaves the answer to the other.
AnsweredWhenGathered ==
  \A s \in Sessions : ice[s] = "done" /\ offered # s =>
    answers[s] = 1 \/ s \in gaveUp

\* The sessions whose statistics the timer thread has still to read exist: the
\* lock it tried keeps the loop from freeing them.
StatsReadAllocated == callback = "stats" => unread \subseteq Allocated

\* Nothing works on the configuration once it is freed: no callback of the
\* timer queue, no ICE agent, no handler, and no lock is held.
NothingAfterFree ==
  pc = "closed" =>
    /\ callback = "idle"
    /\ \A s \in Sessions : ice[s] = "off"
    /\ step = "none" /\ ~startsStats
    /\ objLock = "nobody" /\ sendLock = "nobody"

-----------------------------------------------------------------------------
(* Who waits for whom.                                                     *)

Parties == {"main", "handler", "timer"} \cup Sessions

\* Party a cannot go on before b has: one line for each lock, and for each call
\* that returns after a callback or a handler that runs.  The handler without a
\* message is the next one, which waits at the lock; a session is its agent.  The
\* threads the main thread joins take neither of the two locks.
WaitsFor(a, b) ==
  \/ a = "main" /\ pc \in {"run", "timersFreed"} /\ b = objLock
  \/ a = "main" /\ (freeStep = "joined" \/ pc = "clientFreed") /\ callback # "idle"
                /\ b = "timer"
  \/ a = "main" /\ freeStep = "closing" /\ b = freed /\ ice[b] \in InCallback
  \/ a = "main" /\ pc = "exited" /\ (offered # NoSession \/ startsStats) /\ b = "handler"
  \/ a = "handler" /\ step = "none" /\ ~startsStats /\ b = objLock
  \/ a = "handler" /\ startsStats /\ callback # "idle" /\ b = "timer"
  \/ a = "handler" /\ step = "checked" /\ b = sendLock
  \/ a \in Sessions /\ ice[a] \in {"candidate", "answer"} /\ b = sendLock

\* The order in which they take what others wait for; the timer thread waits for
\* nobody.
Rank(a) ==
  CASE a = "timer"   -> 0
    [] a = "main"    -> 4
    [] a = "handler" -> IF step = "sending" THEN 1
                        ELSE IF step # "none" \/ startsStats THEN 3 ELSE 5
    [] OTHER         -> IF ice[a] \in {"candidateSending", "answerSending"} THEN 1 ELSE 2

\* Two locks, the timer queue and the ends of callbacks and handlers are waited
\* for with locks held, but never in a circle: who is waited for is nearer to a
\* party that waits for nobody.
NoCircularWait == \A a, b \in Parties : WaitsFor(a, b) => Rank(b) < Rank(a)

-----------------------------------------------------------------------------
(* Liveness.                                                               *)

Ending == interrupted \/ pc \in ExitPlaces

\* No join waits for ever.  The free of a session may, for a receiving thread it
\* did not tell to end (AudioReceiver, FreeEnds and ShutdownCallbackCalled), and
\* the exit may, for a media thread without frames (MediaPipeline,
\* MediaSenderJoined).
ReceiverJoined == []<>(freeStep # "joining")
MediaJoined    == []<>~(pc = "run" /\ interrupted)
JoinsReturn    == ReceiverJoined /\ MediaJoined

\* Where the receiving threads end, no thread keeps the lock of the configuration,
\* though it waits for the timer queue, for ICE callbacks, for those threads or
\* for the other lock with it held.
LockGivenUp == ReceiverJoined => []<>LockFree

\* An error came after the fetch, and the reset of the flag forgets it.
ErrorMissed == pc = "reset" /\ ClientIs("down")

\* Where the joins return, there is a connected client again after a reported
\* error, unless the error came in the instant before the flag is reset, the
\* creation of the new client failed, or the program ends.
ErrorRecovered ==
  JoinsReturn =>
    (recreateSignalingClient ~>
       ClientIs("connected") \/ ErrorMissed \/ Ending \/ (pc = "run" /\ ~HandleValid))

\* Where the joins return, an interrupt ends the program, and so does a start that
\* fails.
ExitCompletes == JoinsReturn => (Ending ~> pc = "closed")

\* "We will force re-create the signaling client": a request to do so does not
\* stay unserved.
ForcedRecreation ==
  recreateSignalingClient ~> ~recreateSignalingClient \/ Ending

=============================================================================
