-------------------------- MODULE ConfigurationLock --------------------------
(***************************************************************************)
(* sampleConfigurationObjLock of WebRtcCommon.cpp, the main thread that    *)
(* takes it in every pass of sessionCleanupWait, and the sessions that come *)
(* and go under it.  SignalingClient, AnswerExchange and TimerQueue add    *)
(* what else the lock protects; SharedConfiguration composes them.         *)
(***************************************************************************)
CONSTANTS Sessions,   \* blocks of memory for streaming sessions
          NoSession

ASSUME NoSessionAssumption == NoSession \notin Sessions

VARIABLES
  objLock,       \* the thread that owns sampleConfigurationObjLock
  pc,            \* the place of the main thread
  interrupted,   \* SIGINT came
  listed,        \* the sessions of sampleStreamingSessionList
  freed,         \* the session the main thread is freeing
  freeStep       \* how far its freeSampleStreamingSession has come

freeing  == <<freed, freeStep>>
lockVars == <<objLock, pc, interrupted, listed, freeing>>

Threads == {"nobody", "main", "handler", "timer"}

\* Where the main thread owns the lock.  At "run" it is between two passes, which
\* includes the wait on cvar.
LockedPlaces ==
  {"scan", "fetch", "reset", "recreate", "create", "state", "emptying"}
\* Before the signaling client is connected.
StartPlaces == {"configuring", "configured", "created", "fetched"}
ExitPlaces ==
  {"exited", "clientFreed", "timersFreed", "emptying", "closed"}
Places == LockedPlaces \cup StartPlaces \cup ExitPlaces \cup {"connected", "run"}

\* joining: the main thread joins the session's receiving thread; joined: it has;
\* closing: the stats timer is dealt with.
FreeSteps == {"none", "joining", "joined", "closing"}

LockTypeOK ==
  /\ objLock \in Threads
  /\ pc \in Places
  /\ interrupted \in BOOLEAN
  /\ listed \subseteq Sessions
  /\ freed \in Sessions \cup {NoSession}
  /\ freeStep \in FreeSteps

LockInit ==
  /\ objLock = "nobody"
  /\ pc = "configuring"
  /\ interrupted = FALSE
  /\ listed = {}
  /\ freed = NoSession
  /\ freeStep = "none"

LockFree == objLock = "nobody"

Allocated == listed \cup ({freed} \ {NoSession})

\* The main thread goes on at another place and nothing else changes here.
GoTo(place) ==
  /\ pc' = place
  /\ UNCHANGED <<objLock, interrupted, listed, freeing>>

-----------------------------------------------------------------------------
\* The flag is read between two passes only: a SIGINT that comes during a pass
\* is one that comes at its end.  Before the first pass gSampleConfiguration is
\* NULL, and a SIGINT changes nothing.
SigintHandler ==
  /\ pc = "run"
  /\ interrupted' = TRUE
  /\ UNCHANGED <<objLock, pc, listed, freeing>>

\* The wait is over, by a broadcast or SAMPLE_SESSION_CLEANUP_WAIT_PERIOD, and a
\* pass begins.
LockConfiguration ==
  /\ pc = "run"
  /\ ~interrupted
  /\ LockFree
  /\ objLock' = "main"
  /\ pc' = "scan"
  /\ UNCHANGED <<interrupted, listed, freeing>>

\* freeSampleStreamingSession calls the shutdown callback, if the receiving thread
\* has registered it, and joins the thread (module AudioReceiver).
BeginFree(s) ==
  /\ freeStep = "none"
  /\ s \in listed
  /\ listed' = listed \ {s}
  /\ freed' = s
  /\ freeStep' = "joining"
  /\ UNCHANGED <<objLock, pc, interrupted>>

\* The scan meets a session whose connection ended; that may be any session at
\* any time (module StreamingSessions has the flag).  It leaves the list and is
\* freed.
RemoveSession(s) == pc = "scan" /\ BeginFree(s)

\* freeSampleConfiguration frees every session.
FreeListedSession(s) == pc = "emptying" /\ BeginFree(s)

\* The receiving thread ends or there was none, and the main thread goes on.
JoinReceiver ==
  /\ freeStep = "joining"
  /\ freeStep' = "joined"
  /\ UNCHANGED <<objLock, pc, interrupted, listed, freed>>

SessionFreed ==
  /\ freeStep = "closing"
  /\ freed' = NoSession
  /\ freeStep' = "none"
  /\ UNCHANGED <<objLock, pc, interrupted, listed>>

\* CVAR_WAIT gives the lock up.
PassEnds ==
  /\ pc = "state"
  /\ objLock' = "nobody"
  /\ pc' = "run"
  /\ UNCHANGED <<interrupted, listed, freeing>>

\* The loop is left, and cleanUpKVSResources joins the media thread (module
\* MediaPipeline).  No offer came, hence there is none, if the start failed.
LeaveLoop == pc = "run" /\ interrupted /\ GoTo("exited")

=============================================================================
