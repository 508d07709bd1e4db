---------------------- MODULE SharedConfiguration_proofs ----------------------
(***************************************************************************)
(* Proofs about SharedConfiguration: the safety properties of its runs,    *)
(* for every set of sessions and of clients.                               *)
(***************************************************************************)
EXTENDS SharedConfiguration, TLAPS

\* What the place of the main thread says about what it has freed.
MainInv ==
  /\ freeStep = "none" <=> freed = NoSession
  /\ freeStep # "none" => pc \in {"scan", "emptying"}
  /\ freed \notin listed
  /\ pc \in {"configuring", "configured", "create"} => ~HandleValid
  /\ pc = "configuring" => ~startsStats
  /\ pc \in {"clientFreed", "timersFreed", "emptying", "closed"} =>
       ~HandleValid /\ step = "none" /\ ~startsStats
  /\ ~QueueExists => callback = "idle"
  /\ pc = "closed" => listed = {}

\* The session whose offer is handled stays in the list, and there is a client.
HandlerInv ==
  /\ step = "none" <=> offered = NoSession
  /\ step # "none" => offered \in listed /\ HandleValid
  /\ sendLock = "handler" => sendTo = handle

\* Gathering begins when the handler is past "stored" and ends with the session.
GatheringInv ==
  /\ \A s \in Sessions \ Allocated : ice[s] = "off"
  /\ step \in {"created", "stored"} => ice[offered] = "off"
  /\ step \in {"described", "checked", "sending"} => ice[offered] # "off"

\* Whose the answer is: the handler's if the viewer trickles, the agent's if not.
OwnAnswerInv ==
  /\ step \in {"checked", "sending"} => remoteCanTrickleIce[offered]
  /\ \A s \in Sessions :
       ice[s] \in {"answer", "answerSending"} => ~remoteCanTrickleIce[s]

\* The one whose the answer is has not yet sent it, nor failed to.
AnswerDue(s) ==
  \/ ice[s] = "off"
  \/ /\ remoteCanTrickleIce[s]
     /\ offered = s
     /\ step \in {"described", "checked", "sending"}
  \/ ~remoteCanTrickleIce[s] /\ ice[s] # "done"

AnswersInv ==
  \A s \in Sessions :
    IF AnswerDue(s) THEN answers[s] = 0
    ELSE answers[s] = 1 \/ (answers[s] = 0 /\ s \in gaveUp)

StatsInv == callback = "stats" => unread \subseteq listed

Inv ==
  /\ TypeOK
  /\ OneOwner
  /\ OneClient
  /\ MainInv
  /\ HandlerInv
  /\ GatheringInv
  /\ OwnAnswerInv
  /\ AnswersInv
  /\ StatsInv

LEMMA InitInv == Init => Inv
<1> SUFFICES ASSUME Init PROVE Inv
  OBVIOUS
<1> USE NoSessionAssumption, ClientsAssumption, MaxErrorsAssumption,
        SendersAssumption
<1> USE DEF Init, LockInit, ClientInit, ExchangeInit, TimerInit
<1>1. TypeOK
  <2>1. LockTypeOK
    BY DEF LockTypeOK, Threads, Places, StartPlaces, FreeSteps
  <2>2. ClientTypeOK
    <3>1. client \in [Clients -> ClientStates]
      BY DEF ClientStates
    <3>2. errors \in 0 .. MaxErrors
      OBVIOUS
    <3> QED
      BY <3>1, <3>2 DEF ClientTypeOK
  <2>3. ExchangeTypeOK
    BY DEF ExchangeTypeOK, Steps, IceSteps, Senders
  <2>4. TimerTypeOK
    BY DEF TimerTypeOK, Callbacks
  <2> QED
    BY <2>1, <2>2, <2>3, <2>4 DEF TypeOK
<1>2. OneOwner /\ OneClient
  BY DEF OneOwner, OneClient, LockedPlaces
<1>3. MainInv /\ HandlerInv /\ StatsInv
  BY DEF MainInv, HandlerInv, StatsInv, HandleValid, QueueExists
<1>4. GatheringInv /\ OwnAnswerInv /\ AnswersInv
  BY DEF GatheringInv, OwnAnswerInv, AnswersInv, AnswerDue
<1> QED
  BY <1>1, <1>2, <1>3, <1>4 DEF Inv

-----------------------------------------------------------------------------
(* The main thread.                                                        *)

\* The steps of the loop that leave the client, the exchange and the timers as
\* they are.
LEMMA LoopInv ==
  ASSUME Inv, UNCHANGED <<clientVars, exchangeVars, timerVars>>,
         \/ LockConfiguration \/ LeaveLoop \/ EndScan \/ SigintHandler
         \/ JoinReceiver
         \/ \E s \in Sessions : RemoveSession(s) \/ FreeListedSession(s)
  PROVE  Inv'
<1> USE NoSessionAssumption, ClientsAssumption, SendersAssumption
<1> USE DEF Inv, TypeOK, LockTypeOK, ClientTypeOK, ExchangeTypeOK, TimerTypeOK,
            Threads, Places, StartPlaces, ExitPlaces, LockedPlaces, FreeSteps,
            Senders, OneOwner, OneClient, MainInv, HandlerInv, GatheringInv,
            OwnAnswerInv, AnswersInv, AnswerDue, StatsInv, HandleValid,
            QueueExists, Allocated, LockFree, GoTo, freeing, clientVars,
            exchangeVars, outcome, timerVars
<1>1. CASE LockConfiguration
  BY <1>1 DEF LockConfiguration
<1>2. CASE LeaveLoop
  BY <1>2 DEF LeaveLoop
<1>3. CASE EndScan
  BY <1>3 DEF EndScan
<1>4. CASE SigintHandler
  BY <1>4 DEF SigintHandler
<1>5. ASSUME NEW s \in Sessions, RemoveSession(s) \/ FreeListedSession(s)
      PROVE  Inv'
  BY <1>5 DEF RemoveSession, FreeListedSession, BeginFree
<1>6. CASE JoinReceiver
  BY <1>6 DEF JoinReceiver
<1> QED
  BY <1>1, <1>2, <1>3, <1>4, <1>5, <1>6

\* The start.
LEMMA StartInv ==
  ASSUME Inv, Start, UNCHANGED <<exchangeVars, timerVars>>
  PROVE  Inv'
<1> USE NoSessionAssumption, ClientsAssumption, SendersAssumption
<1> USE DEF Inv, TypeOK, LockTypeOK, ClientTypeOK, ExchangeTypeOK, TimerTypeOK,
            Threads, Places, StartPlaces, ExitPlaces, LockedPlaces, FreeSteps,
            ClientStates, Senders, OneOwner, OneClient, MainInv, HandlerInv,
            GatheringInv, OwnAnswerInv, AnswersInv, AnswerDue, StatsInv,
            HandleValid, QueueExists, Allocated, LockFree, GoTo, freeing,
            SetClient, clientVars, exchangeVars, outcome, timerVars
<1>1. CASE ConfigurationCreated \/ SignalingInitialized
  BY <1>1 DEF ConfigurationCreated, SignalingInitialized
<1>2. CASE ConfigurationFails \/ InitSignalingFails
  BY <1>2 DEF ConfigurationFails, InitSignalingFails
<1>3. CASE CreateFirst
  BY <1>3 DEF CreateFirst, CreateClient
<1>4. CASE FetchFirst \/ ConnectFirst
  BY <1>4 DEF FetchFirst, ConnectFirst
<1> QED
  BY <1>1, <1>2, <1>3, <1>4 DEF Start

\* The recovery of the signaling client.
LEMMA RecoveryInv ==
  ASSUME Inv, Recovery, UNCHANGED <<exchangeVars, timerVars>>
  PROVE  Inv'
<1> USE NoSessionAssumption, ClientsAssumption, SendersAssumption
<1> USE DEF Inv, TypeOK, LockTypeOK, ClientTypeOK, ExchangeTypeOK, TimerTypeOK,
            Threads, Places, StartPlaces, ExitPlaces, LockedPlaces, FreeSteps,
            ClientStates, Senders, OneOwner, OneClient, MainInv, HandlerInv,
            GatheringInv, OwnAnswerInv, AnswersInv, AnswerDue, StatsInv,
            HandleValid, QueueExists, Allocated, LockFree, GoTo, freeing,
            SetClient, ClientIs, PassEnds, clientVars, exchangeVars, outcome,
            timerVars
<1>1. CASE FetchSucceeds
  BY <1>1 DEF FetchSucceeds
<1>2. CASE FetchCallFails \/ FetchFails
  BY <1>2 DEF FetchCallFails, FetchFails
<1>3. CASE ResetFlag
  BY <1>3 DEF ResetFlag
<1>4. CASE RecreateFrees
  BY <1>4 DEF RecreateFrees, FreeSignalingClient
<1>5. CASE CreateSucceeds
  BY <1>5 DEF CreateSucceeds, CreateClient, FlagAfterCreate
<1>6. CASE CreateFails
  BY <1>6 DEF CreateFails
<1>7. CASE ConnectSucceeds
  BY <1>7 DEF ConnectSucceeds
<1>8. CASE ConnectFails \/ NoConnect
  BY <1>8 DEF ConnectFails, NoConnect
<1> QED
  BY <1>1, <1>2, <1>3, <1>4, <1>5, <1>6, <1>7, <1>8 DEF Recovery

\* The free of one session after the join.
LEMMA FreeSessionInv ==
  ASSUME Inv, FreeingStep \/ ClosingStep
  PROVE  Inv'
<1> USE NoSessionAssumption, ClientsAssumption, SendersAssumption
<1> USE DEF Inv, TypeOK, LockTypeOK, ClientTypeOK, ExchangeTypeOK, TimerTypeOK,
            Threads, Places, StartPlaces, ExitPlaces, LockedPlaces, FreeSteps,
            IceSteps, InCallback, Senders, OneOwner, OneClient, MainInv,
            HandlerInv, GatheringInv, OwnAnswerInv, AnswersInv, AnswerDue,
            StatsInv, HandleValid, QueueExists, Allocated, LockFree, GoTo,
            freeing, clientVars, exchangeVars, outcome, timerVars
<1>1. CASE FreeingStep
  BY <1>1 DEF FreeingStep, CancelStatsTimer
<1>2. CASE ClosingStep
  BY <1>2 DEF ClosingStep, SessionFreed, ClosePeerConnections
<1> QED
  BY <1>1, <1>2

\* The exit.
LEMMA ExitInv ==
  ASSUME Inv, \/ ExitFreesClient \/ ExitFreesTimers \/ ExitLocks
              \/ ExitFreesSession \/ ExitFreesConfiguration
  PROVE  Inv'
<1> USE NoSessionAssumption, ClientsAssumption, SendersAssumption
<1> USE DEF Inv, TypeOK, LockTypeOK, ClientTypeOK, ExchangeTypeOK, TimerTypeOK,
            Threads, Places, StartPlaces, ExitPlaces, LockedPlaces, FreeSteps,
            ClientStates, IceSteps, InCallback, Senders, OneOwner, OneClient,
            MainInv, HandlerInv, GatheringInv, OwnAnswerInv, AnswersInv,
            AnswerDue, StatsInv, HandleValid, QueueExists, Allocated, LockFree,
            GoTo, freeing, clientVars, exchangeVars, outcome, timerVars
<1>1. CASE ExitFreesClient
  BY <1>1 DEF ExitFreesClient, FreeSignalingClient
<1>2. CASE ExitFreesTimers
  BY <1>2 DEF ExitFreesTimers, FreeTimerQueue
<1>3. CASE ExitLocks
  BY <1>3 DEF ExitLocks
<1>4. CASE ExitFreesSession
  BY <1>4, LoopInv DEF ExitFreesSession
<1>5. CASE ExitFreesConfiguration
  BY <1>5 DEF ExitFreesConfiguration
<1> QED
  BY <1>1, <1>2, <1>3, <1>4, <1>5

-----------------------------------------------------------------------------
(* The other threads.                                                      *)

\* The handler of an offer, from the lock to the stats timer.
LEMMA HandlerThreadInv ==
  ASSUME Inv,
         HandlerThread \/ \E s \in Sessions : ReceiveOffer(s)
  PROVE  Inv'
<1> USE NoSessionAssumption, ClientsAssumption, SendersAssumption
<1> USE DEF Inv, TypeOK, LockTypeOK, ClientTypeOK, ExchangeTypeOK, TimerTypeOK,
            Threads, Places, StartPlaces, ExitPlaces, LockedPlaces, FreeSteps,
            Steps, IceSteps, Senders, OneOwner, OneClient, MainInv, HandlerInv,
            GatheringInv, OwnAnswerInv, AnswersInv, AnswerDue, StatsInv,
            HandleValid, QueueExists, Allocated, LockFree, freeing, Answered,
            GiveUp, TakeSendLock, GiveSendLock, lockVars, clientVars,
            exchangeVars, outcome, timerVars
<1>1. ASSUME NEW s \in Sessions, ReceiveOffer(s) PROVE Inv'
  BY <1>1 DEF ReceiveOffer, Offer, ClientIs
<1>2. ASSUME NEW s \in Sessions, Handler(s) PROVE Inv'
  <2> USE <1>2 DEF Handler, HandleOffer
  <2>1. CASE Describe(s) /\ UNCHANGED <<sendLock, sendTo>>
    BY <2>1 DEF Describe
  <2>2. CASE DescribeFails(s) /\ UNCHANGED <<sendLock, sendTo>>
    BY <2>2 DEF DescribeFails
  <2>3. CASE AnswerNow(s)
    BY <2>3 DEF AnswerNow
  <2>4. CASE AnswerLater(s)
    BY <2>4 DEF AnswerLater
  <2>5. CASE HandlerLocksSend
    BY <2>5 DEF HandlerLocksSend
  <2>6. CASE HandlerSent(s)
    BY <2>6 DEF HandlerSent
  <2> QED
    BY <2>1, <2>2, <2>3, <2>4, <2>5, <2>6
<1>3. CASE EndOffer
  BY <1>3 DEF EndOffer, UnlockOffer, OweStatsTimer, ReachesUnlock
<1>4. CASE StartStatsTimer
  <2> USE <1>4 DEF StartStatsTimer, AddStatsTimer
  <2>1. TypeOK'
    <3>1. LockTypeOK' /\ ClientTypeOK' /\ ExchangeTypeOK'
      OBVIOUS
    <3>2. TimerTypeOK'
      OBVIOUS
    <3> QED
      BY <3>1, <3>2
  <2>2. OneOwner' /\ OneClient' /\ MainInv' /\ HandlerInv' /\ StatsInv'
    OBVIOUS
  <2>3. GatheringInv' /\ OwnAnswerInv' /\ AnswersInv'
    OBVIOUS
  <2> QED
    BY <2>1, <2>2, <2>3
<1> QED
  BY <1>1, <1>2, <1>3, <1>4 DEF HandlerThread

\* A thread of the ICE agent.
LEMMA AgentInv ==
  ASSUME Inv, NEW s \in Sessions, AgentStep(s)
  PROVE  Inv'
<1> USE NoSessionAssumption, ClientsAssumption, SendersAssumption
<1> USE DEF Inv, TypeOK, LockTypeOK, ClientTypeOK, ExchangeTypeOK, TimerTypeOK,
            Threads, Places, StartPlaces, ExitPlaces, LockedPlaces, FreeSteps,
            IceSteps, Senders, OneOwner, OneClient, MainInv, HandlerInv,
            GatheringInv, OwnAnswerInv, AnswersInv, AnswerDue, StatsInv,
            HandleValid, QueueExists, Allocated, LockFree, freeing, Answered,
            GiveUp, TakeSendLock, GiveSendLock, Move, lockVars, clientVars,
            outcome, timerVars
<1> USE DEF AgentStep, IceAgent
<1>1. CASE LocalCandidate(s)
  BY <1>1 DEF LocalCandidate
<1>2. CASE GatheringDone(s)
  BY <1>2 DEF GatheringDone, AnswersWhenGathered
<1>3. CASE IceLocksSend(s)
  BY <1>3 DEF IceLocksSend
<1>4. CASE IceSent(s)
  <2>1. CASE ice[s] = "candidateSending"
    <3>1. /\ ice' = [ice EXCEPT ![s] = "gathered"]
          /\ UNCHANGED outcome
          /\ sendLock = s /\ sendLock' = "nobody" /\ sendTo' = NoClient
      BY <1>4, <2>1 DEF IceSent
    <3>2. TypeOK' /\ OneClient' /\ MainInv' /\ HandlerInv' /\ StatsInv'
      BY <3>1
    <3>3. OneOwner'
      BY <3>1
    <3>4. GatheringInv' /\ OwnAnswerInv' /\ AnswersInv'
      BY <2>1, <3>1
    <3> QED
      BY <3>2, <3>3, <3>4
  <2>2. CASE ice[s] = "answerSending" /\ Answered(s)
    BY <1>4, <2>2 DEF IceSent
  <2>3. CASE ice[s] = "answerSending" /\ GiveUp(s)
    BY <1>4, <2>3 DEF IceSent
  <2> QED
    BY <1>4, <2>1, <2>2, <2>3 DEF IceSent
<1> QED
  BY <1>1, <1>2, <1>3, <1>4

\* The timer thread, and an error the SDK reports.
LEMMA TimerInv ==
  ASSUME Inv, TimerStep \/ Environment
  PROVE  Inv'
<1> USE NoSessionAssumption, ClientsAssumption, SendersAssumption
<1> USE DEF Inv, TypeOK, LockTypeOK, ClientTypeOK, ExchangeTypeOK, TimerTypeOK,
            Threads, Places, StartPlaces, ExitPlaces, LockedPlaces, FreeSteps,
            ClientStates, Callbacks, Senders, OneOwner, OneClient, MainInv,
            HandlerInv, GatheringInv, OwnAnswerInv, AnswersInv, AnswerDue,
            StatsInv, HandleValid, QueueExists, Allocated, LockFree, freeing,
            ClientIs, lockVars, clientVars, exchangeVars, outcome, timerVars
<1>1. CASE TimerStep
  BY <1>1 DEF TimerStep, TimerThread, PregenerateCert, ReadStats, StatsRead,
              EndCallback
<1>2. ASSUME Fire("cert") \/ Fire("stats"),
             UNCHANGED <<clientVars, exchangeVars>>
      PROVE  Inv'
  BY <1>2 DEF Fire, TryLock
<1>3. ASSUME SignalingClientError, UNCHANGED <<lockVars, exchangeVars, timerVars>>
      PROVE  Inv'
  <2> USE <1>3, MaxErrorsAssumption DEF SignalingClientError
  <2>1. /\ client' \in [Clients -> ClientStates]
        /\ \A c \in Clients : client'[c] # "free" <=> client[c] # "free"
    OBVIOUS
  <2>2. TypeOK' /\ OneClient'
    BY <2>1
  <2> QED
    BY <2>2
<1>4. ASSUME SigintHandler, UNCHANGED <<clientVars, exchangeVars, timerVars>>
      PROVE  Inv'
  BY <1>4, LoopInv
<1> QED
  BY <1>1, <1>2, <1>3, <1>4 DEF Environment

LEMMA NextInv == Inv /\ [Next]_vars => Inv'
<1> SUFFICES ASSUME Inv, [Next]_vars PROVE Inv'
  OBVIOUS
<1>1. CASE MainThread
  <2>1. ASSUME Start \/ LoopStep, UNCHANGED <<exchangeVars, timerVars>>
        PROVE  Inv'
    BY <2>1, StartInv, LoopInv, RecoveryInv DEF LoopStep
  <2> QED
    BY <1>1, <2>1, FreeSessionInv, ExitInv DEF MainThread
<1>2. ASSUME NEW s \in Sessions, ReceiveOffer(s) PROVE Inv'
  BY <1>2, HandlerThreadInv
<1>3. ASSUME NEW s \in Sessions, AgentStep(s) PROVE Inv'
  BY <1>3, AgentInv
<1>4. CASE HandlerThread
  BY <1>4, HandlerThreadInv
<1>5. CASE TimerStep \/ Environment
  BY <1>5, TimerInv
<1>6. CASE JoinStep
  BY <1>6, LoopInv DEF JoinStep
<1>7. CASE UNCHANGED vars
  BY <1>7 DEF vars, lockVars, freeing, outcome, clientVars, exchangeVars,
              timerVars, Inv, TypeOK, LockTypeOK, ClientTypeOK, ExchangeTypeOK,
              TimerTypeOK, OneOwner, OneClient, MainInv, HandlerInv,
              GatheringInv, OwnAnswerInv, AnswersInv, AnswerDue, StatsInv,
              HandleValid, QueueExists, Allocated
<1> QED
  BY <1>1, <1>2, <1>3, <1>4, <1>5, <1>6, <1>7 DEF Next

-----------------------------------------------------------------------------
(* Theorems.                                                               *)

\* The invariant holds in every state.
THEOREM InvHolds == Spec => []Inv
  BY InitInv, NextInv, PTL DEF Spec

\* Each of the two locks has one owner, and a thread is at a place that needs a
\* lock only as its owner.
THEOREM OneOwnerHolds == Spec => []OneOwner
<1>1. Inv => OneOwner
  BY DEF Inv
<1> QED
  BY <1>1, InvHolds, PTL

\* The loop's re-creation loses no signaling client and makes no second one.
THEOREM OneClientHolds == Spec => []OneClient
<1>1. Inv => OneClient
  BY DEF Inv
<1> QED
  BY <1>1, InvHolds, PTL

\* The client with which a handler sends its answer is not freed under it.
THEOREM HandlerUsesLiveClientHolds == Spec => []HandlerUsesLiveClient
<1>1. Inv => HandlerUsesLiveClient
  BY DEF Inv, OneOwner, HandlerInv, HandlerUsesLiveClient
<1> QED
  BY <1>1, InvHolds, PTL

\* The service takes no two answers for an offer.
THEOREM OneAnswerHolds == Spec => []OneAnswer
<1>1. Inv => OneAnswer
  <2> SUFFICES ASSUME Inv, NEW s \in Sessions PROVE answers[s] <= 1
    BY DEF OneAnswer
  <2>1. answers[s] \in {0, 1}
    BY DEF Inv, AnswersInv
  <2> QED
    BY <2>1
<1> QED
  BY <1>1, InvHolds, PTL

\* When gathering is done and the handler has left, the offer was answered or a
\* call the answer needs failed: whichever of the two threads comes last, the
\* answer is not left to the other.
THEOREM AnsweredWhenGatheredHolds == Spec => []AnsweredWhenGathered
<1>1. Inv => AnsweredWhenGathered
  BY NoSessionAssumption
     DEF Inv, AnswersInv, AnswerDue, AnsweredWhenGathered
<1> QED
  BY <1>1, InvHolds, PTL

\* The timer thread reads the statistics of sessions that are not freed.
THEOREM StatsReadAllocatedHolds == Spec => []StatsReadAllocated
<1>1. Inv => StatsReadAllocated
  BY DEF Inv, StatsInv, StatsReadAllocated, Allocated
<1> QED
  BY <1>1, InvHolds, PTL

\* Nothing works on a configuration that is freed.
THEOREM NothingAfterFreeHolds == Spec => []NothingAfterFree
<1>1. Inv => NothingAfterFree
  <2> SUFFICES ASSUME Inv, pc = "closed" PROVE NothingAfterFree
    BY DEF NothingAfterFree
  <2> USE DEF Inv
  <2>1. callback = "idle" /\ step = "none" /\ ~startsStats
    BY DEF MainInv, QueueExists
  <2>2. objLock = "nobody"
    BY <2>1 DEF OneOwner, TypeOK, LockTypeOK, Threads, LockedPlaces
  <2>3. \A s \in Sessions : ice[s] = "off"
    BY NoSessionAssumption DEF MainInv, GatheringInv, Allocated
  <2>4. sendLock = "nobody"
    BY <2>1, <2>3 DEF OneOwner, TypeOK, ExchangeTypeOK, Senders
  <2> QED
    BY <2>1, <2>2, <2>3, <2>4 DEF NothingAfterFree
<1> QED
  BY <1>1, InvHolds, PTL

\* Nobody waits in a circle: a wait for a lock is for its owner, which OneOwner
\* places, and the loop owns the lock of the configuration while it waits for
\* callbacks, so that no handler can have the other one.
THEOREM NoCircularWaitHolds == Spec => []NoCircularWait
<1>1. Inv => NoCircularWait
  <2> SUFFICES ASSUME Inv, NEW a \in Parties, NEW b \in Parties, WaitsFor(a, b)
               PROVE  Rank(b) < Rank(a)
    BY DEF NoCircularWait
  <2> USE SendersAssumption, PartiesAssumption, NoSessionAssumption DEF Inv,
                                                                        OneOwner
  <2>1. /\ Rank("timer") = 0 /\ Rank("main") = 4
        /\ Rank("handler") = IF step = "sending" THEN 1
                             ELSE IF step # "none" \/ startsStats THEN 3 ELSE 5
        /\ \A s \in Sessions :
             Rank(s) = IF ice[s] \in {"candidateSending", "answerSending"} THEN 1 ELSE 2
    BY DEF Rank
  <2>2. CASE a = "main"
    <3>1. CASE pc \in {"run", "timersFreed"} /\ b = objLock
      BY <2>1, <2>2, <3>1 DEF Parties, TypeOK, LockTypeOK, Threads, LockedPlaces
    <3>2. CASE b = "timer"
      BY <2>1, <2>2, <3>2
    <3>3. CASE b \in Sessions
      BY <2>1, <2>2, <3>3
    <3>4. CASE pc = "exited" /\ (offered # NoSession \/ startsStats) /\ b = "handler"
      BY <2>1, <2>2, <3>4 DEF HandlerInv
    <3> QED
      BY <2>2, <3>1, <3>2, <3>3, <3>4 DEF WaitsFor, TypeOK, LockTypeOK, MainInv
  <2>3. CASE a = "handler"
    <3>1. CASE step = "none" /\ ~startsStats /\ b = objLock
      BY <2>1, <2>3, <3>1 DEF Parties, TypeOK, LockTypeOK, Threads
    <3>2. CASE startsStats /\ b = "timer"
      BY <2>1, <2>3, <3>2
    <3>3. CASE step = "checked" /\ b = sendLock
      BY <2>1, <2>3, <3>3 DEF Parties, TypeOK, ExchangeTypeOK, Senders
    <3> QED
      BY <2>3, <3>1, <3>2, <3>3 DEF WaitsFor
  <2>4. CASE a \in Sessions
    <3>1. ice[a] \in {"candidate", "answer"} /\ b = sendLock
      BY <2>4 DEF WaitsFor
    <3> QED
      BY <2>1, <2>4, <3>1 DEF Parties, TypeOK, ExchangeTypeOK, Senders
  <2>5. a # "timer"
    BY DEF WaitsFor
  <2> QED
    BY <2>2, <2>3, <2>4, <2>5 DEF Parties
<1> QED
  BY <1>1, InvHolds, PTL

=============================================================================
