----------------------------- MODULE TimerQueue ------------------------------
(***************************************************************************)
(* The thread of the timer queue and its two callbacks, which take         *)
(* sampleConfigurationObjLock: pregenerateCertTimerCallback adds to the    *)
(* pool of certificates, whose number is left out, and                     *)
(* getIceCandidatePairStatsCallback reads the statistics of every session. *)
(* The queue's own lock is held during a callback, so that adding,         *)
(* cancelling and freeing wait for it.                                     *)
(***************************************************************************)
EXTENDS ConfigurationLock

VARIABLES
  callback,       \* what the timer thread does
  statsTimer,     \* iceCandidatePairStatsTimerId is known
  startsStats,    \* a handler has still to add the stats timer
  unread          \* the sessions whose statistics are still to be read

timerVars == <<callback, statsTimer, startsStats, unread>>

\* cert and stats: with the lock of the configuration.
Callbacks == {"idle", "cert", "stats"}

TimerTypeOK ==
  /\ callback \in Callbacks
  /\ statsTimer \in BOOLEAN
  /\ startsStats \in BOOLEAN
  /\ unread \subseteq Sessions

TimerInit ==
  /\ callback = "idle"
  /\ statsTimer = FALSE
  /\ startsStats = FALSE
  /\ unread = {}

\* The queue and its timers exist until the main thread frees them.
\* Mutant: it does not.
QueueNeverFreed == TRUE
QueueExists == pc \notin {"timersFreed", "emptying", "closed"}

-----------------------------------------------------------------------------
\* A callback's MUTEX_TRYLOCK: without the lock the callback returns at once.
\* Mutants: it waits for the lock; it goes on without it.
WaitForLock(kind) ==
  \/ callback = "idle" /\ ~LockFree /\ callback' = "waiting" /\ UNCHANGED objLock
  \/ /\ callback \in {"idle", "waiting"}
     /\ LockFree
     /\ callback' = kind
     /\ objLock' = "timer"
GoOnUnlocked(kind) ==
  /\ callback = "idle"
  /\ callback' = kind
  /\ objLock' = IF LockFree THEN "timer" ELSE objLock
TryLock(kind) ==
  /\ callback = "idle"
  /\ LockFree
  /\ callback' = kind
  /\ objLock' = "timer"

\* A timer is due and its callback gets the lock.
Fire(kind) ==
  /\ QueueExists
  /\ kind = "stats" => statsTimer
  /\ TryLock(kind)
  /\ unread' = IF kind = "stats" THEN listed ELSE {}
  /\ UNCHANGED <<pc, interrupted, listed, freeing, statsTimer, startsStats>>

EndCallback ==
  /\ callback' = "idle"
  /\ objLock' = "nobody"
  /\ UNCHANGED <<pc, interrupted, listed, freeing, statsTimer, startsStats>>

\* If the pool is not full and making it does not fail, a certificate is added.
PregenerateCert ==
  /\ callback = "cert"
  /\ EndCallback
  /\ UNCHANGED unread

ReadStats(s) ==
  /\ callback = "stats"
  /\ s \in unread
  /\ unread' = unread \ {s}
  /\ UNCHANGED <<lockVars, callback, statsTimer, startsStats>>

StatsRead ==
  /\ callback = "stats"
  /\ unread = {}
  /\ EndCallback
  /\ UNCHANGED unread

TimerThread ==
  \/ PregenerateCert
  \/ \E s \in Sessions : ReadStats(s)
  \/ StatsRead

-----------------------------------------------------------------------------
(* What other threads do with the queue.                                   *)

\* A handler that did not fail leaves the lock owing a stats timer, if none is
\* known.
OweStatsTimer(failed) ==
  /\ startsStats' = (startsStats \/ (~failed /\ ~statsTimer))
  /\ UNCHANGED <<callback, statsTimer, unread>>

AddStatsTimer ==
  /\ startsStats
  /\ callback = "idle"
  /\ statsTimer' = TRUE
  /\ startsStats' = FALSE
  /\ UNCHANGED <<callback, unread>>

\* freeSampleStreamingSession, after its join and with the lock held: the last
\* session's free cancels the stats timer.
CancelStatsTimer ==
  /\ freeStep = "joined"
  /\ IF statsTimer /\ listed = {}
       THEN callback = "idle" /\ statsTimer' = FALSE
       ELSE UNCHANGED statsTimer
  /\ freeStep' = "closing"
  /\ UNCHANGED <<objLock, pc, interrupted, listed, freed>>
  /\ UNCHANGED <<callback, startsStats, unread>>

\* freeSampleConfiguration, before it takes the lock.
FreeTimerQueue ==
  /\ pc = "clientFreed"
  /\ callback = "idle"
  /\ statsTimer' = FALSE
  /\ GoTo("timersFreed")
  /\ UNCHANGED <<callback, startsStats, unread>>

=============================================================================
