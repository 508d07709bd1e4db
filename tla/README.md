# A verification development of the cloud controlled connected camera

TLA+ modules that model the two programs of this repository where they are
concurrent, the TLC configurations that check them on small instances, and
proofs, checked by TLAPS, of the properties that matter most. Source paths are
relative to the repository (here below `src/`); the abbreviations are WC for
`source/WebRtcCommon.cpp`, WS for `source/WebRtcSink.cpp` and DM for
`source/DeviceManager.cpp`.

## 1. The system

Two executables run on a Raspberry Pi with a camera on a stand that two servos
turn. `c3-camera-webrtc` streams to viewers with the Kinesis Video WebRTC SDK,
`c3-camera-producer` to a Kinesis video stream with a GStreamer sink. Both run,
in a second thread, a client of an AWS IoT device shadow through which an
application moves the stand.

| component | state it keeps | operations | hard behaviour |
|---|---|---|---|
| registry of streaming sessions (WC 1329-1755) | list and count of sessions, hash table from a client's hash to its session, queues of candidates that came before their offer, stats timer | an offer, a candidate, a change of connection state, a pass of the cleanup loop, SIGINT, the freeing of it all | handlers on a thread pool, SDK callbacks and a signal against a scanning loop; swap-removal during the scan; broadcasts that find nobody waiting; a timer added after the unlock; steps of an offer that fail after others took effect |
| media thread (WC 187-264, WS 21-131) | flags `connected`, `mediaThreadStarted`, `appTerminateFlag`, the thread's id | created by an offer, waits for a connection, runs a capture pipeline; every frame goes to every session | frames read the list while the clean-up changes it under another lock; the thread ends by itself and is made again; termination needs another frame |
| receiving thread (WS 366-469) | a pipeline, its appsrc, two callbacks that know it | built after the offer, fed by the SDK, ended by the free of its session | registration of the callback against the free that calls it; a join with the big lock held |
| device shadow (DM, `source/Servo.cpp`; the same code again in `source/C3CameraProducer.cpp`) | local values of the properties, servo positions; the shadow document is the service's | start, delta, echo, initial get, console input | duplicate, late and lost messages; restarts between a move and its report; two threads; echoes that erase; the exchange has to end |
| signaling client (WC 124-138, 1376-1403, 279-305, 905-994) | handle, `recreateSignalingClient` | error callback, fetch, re-creation, connection, send, free | re-creation under one lock, use under another; the flag is reset after the fetch; a creation that fails leaves no client |
| answers (WC 187-305, 347-388) | `remoteCanTrickleIce`, the ICE agent of each session | the handler answers at once, or a thread of the agent when gathering is done | exactly one answer, though gathering may end at once and both may answer |
| timer callbacks (WC 1021-1184) | pool of certificates, statistics, the timer queue's thread | fill the pool, collect statistics, add and cancel timers | a timer is cancelled with a lock held that its callback takes; the list is walked while sessions go |
| start-up (WC 797-994, `source/C3CameraWebrtc.cpp`) | the configuration under construction | create, connect, give up | callbacks and messages come before main is in its loop; a start that fails frees what was made so far |
| producer (`source/ProducerSink.cpp`) | a GStreamer pipeline | bus messages | an error ends the process from the bus thread |
| command line, logger | configuration | sequential | none |
| provisioning scripts | files that say what was already done | shell | interruption between a file and the call it stands for |

How they interact: `signalingMessageReceived` calls `handleOffer`, which makes
the media thread (if there is none) and the session's receiving thread. The
SDK calls `onConnectionStateChange`, which sets the session's `terminateFlag`
and the shared `connected`. The cleanup loop in `main` takes sessions with the
flag out of list and table and frees them, which ends and joins their receiving
threads. SIGINT ends the loop; `cleanUpKVSResources` then joins the media
thread, frees the signaling client and the configuration. The shadow thread
shares only the process with the rest.

Three locks tie the parts together. `sampleConfigurationObjLock` is held by a
handler over a whole message, by the loop over a whole pass (scan, expiry,
recovery of the signaling client) and, if it is free, by a timer callback.
`signalingSendMessageLock` is taken inside it by a handler that answers, and
without it by a thread of an ICE agent. The timer queue's lock is held while a
callback runs and taken inside the first lock to cancel a timer: this inverted
order is why the callbacks only try the first.

What makes each correct: the registry neither leaks nor uses a session after
its free, keeps one session and one pending queue per peer, hands each
candidate over once and in the order its handlers had the lock, and frees what
ended; the media thread is one at a time and its frames go to sessions that
exist; a receiving thread is gone before its session; desired and reported agree
and the servos stand as reported once the exchange is quiet, and it does become
quiet; there is one signaling client, a reported error leads to a new
connection, and a client in use is not freed; no offer is answered twice, and
one whose calls succeed is answered; nobody waits in a circle; nothing works on
the configuration when it is freed.

Whatever the main thread is to do eventually depends on two joins that need not
return: that of a receiving thread that was not told to end (WC 629-632), and
that of a media thread that gets no frame (WS 483-486). Section 3 says which
properties have their return as a condition.

## 2. The modules

| module | models |
|---|---|
| `StreamingSessions` | the registry and `sessionCleanupWait`, from `createSampleConfiguration` to `freeSampleConfiguration` |
| `SessionPool` | what the registry promises: a bounded pool in which only ended sessions are released, closed when it is empty; `StreamingSessions` implements it |
| `MediaPipeline` | the media thread, the frames, termination |
| `AudioReceiver` | the receiving threads and their join |
| `DeviceShadow` | the shadow thread, the servos, and as environment the shadow service, an application and the connection |
| `ConfigurationLock` | `sampleConfigurationObjLock`, the places of the main thread, the sessions that come and go under the lock |
| `SignalingClient` | on that lock: errors, fetch, re-creation, connection and free of the signaling client |
| `StartUp` | on that: the start of the main thread and its failures |
| `AnswerExchange` | on the client: an offer's handler, the ICE agents, who answers and with which client |
| `TimerQueue` | on the lock: the timer thread, its two callbacks, adding and cancelling a timer |
| `SharedConfiguration` | the four together, with the exit of the program |
| `MC...` | values of the constants for TLC |
| `..._proofs` | theorems and proofs about the module of that name |
| `CandidateOrder_proofs` | theorems and proofs about the candidates in `StreamingSessions` |

### StreamingSessions

`sessionList`, `sessionCount`, `peerTable`, `pending`, `statsTimerId` are the
fields of `SampleConfiguration`; `session` holds the allocated sessions, so
that `DOMAIN session` is the heap; `timers` is the timer queue; `pc` and `scan`
are the place of the main thread and its index `i`, in the scan of a pass and in
the loop that frees everything at the exit. `freed` is the session the main
thread is freeing and `receiver` what became of that session's receiving thread.
`handled` counts a client's candidates.

*The free of a session* is two steps. `BeginFree`, part of `CleanupSession` and
of `FreeListedSession`, sets the flag and calls the shutdown callback if there is
one; `JoinReceiver` is the return of THREAD_JOIN and the rest of the free. In
between the main thread holds the lock and no message is handled. The thread has
`ended`, or was `told` to end and does, or is `untold`: then `ReceiverEnds` may
happen or not (finding 3). `AudioReceiver` shows how it comes to each. The join of
the media thread at the exit is `JoinMediaSender`.

*Atomicity.* `signalingMessageReceived` holds `sampleConfigurationObjLock` from
WC 1480 to 1604, the cleanup loop from 1343 to its wait at 1409. A message is
therefore one action, enabled unless the loop scans or the exit frees. What does
not take the lock interleaves with the scan step by step: state changes, SIGINT,
the clock. `StartStatsTimer` is a step of its own because it comes after the
unlock; `startingStats` counts the handlers that owe it. The list is changed under
`streamingSessionListReadLock` as well; that lock matters to the media thread
and is modelled in `MediaPipeline`.

*Failures* are actions of their own, because the handler leaves at different
places with different things done: `OfferCreateFails`, `OfferHandlingFails`
(session in the list, not in the table), `OfferDrainFails` (a refused
candidate). The constant `Faults` says which happen in a run.

*Abstraction.* A client is a model value and has a hash, which need not be its
own; a candidate is its client and a number, so that order and duplication can
be told. The number is its turn at the lock: messages are delivered on three to
five threads of a pool (`source/WebRtcCommon.h` 58-62) that race for the lock at
WC 1480, so that two candidates of one client may be handled in another order
than they were sent. Nothing in the program restores that order, and no property
speaks of it. A queue's age counts clock ticks up to one past the expiry.

### MediaPipeline

One action for each lock-protected section of `mediaSenderRoutine` and for each
read and use of a session in `on_new_sample`: the session is read from the list
in one step and written to in the next, so that a removal could come between.
`handler` is the offer between the exchange of `mediaThreadStarted` and the
creation of the thread. A removed session is `removed` until it is freed.
The timed wait is left out as a step: it makes the test of the condition
repeat, and `LeaveWait` is that test.

### AudioReceiver

One session's thread as a sequence of steps (`receiver`), the free as three
(`freeing`): callback and flag, join, close. Only one free runs at a time,
as the lock makes it. `called` is a history variable.

### DeviceShadow

`desired` and `reported` are the document, `toCloud` and `toDevice` the two
directions, `local` is `currentShadowValue`, `console` the change the console
thread has made to a servo and has yet to publish. Every handler is one action,
as the SDK calls them one at a time; the console thread is split at its
publish. An exception nobody catches (`std::stoi` on a word, a promise kept
twice, a missing reported section) is `Terminate`.

Of the external service the module assumes that it takes updates in the order
they were published, echoes each, and sends the desired values that are not
reported whenever an accepted update leaves some. That an update *without*
properties also counts as such an update is what the code relies on when it
publishes one at the start (DM 423).

`processShadow` (DM 244, 402) is read without having been set if no property is
found: both outcomes are in the model.

### SharedConfiguration and its parts

The parts extend `ConfigurationLock` and share its variables; an action of a
part says what it does to the lock's and its own variables, and
`SharedConfiguration` adds that the other parts' stay as they are. Actions in
which two parts act at once are composed there: `EndOffer` unlocks and decides
on the stats timer, `ClosingStep` frees a session of the list and its agent.

Here the locks are variables (`objLock`, `sendLock`) and a thread that holds one
takes several steps, in contrast to `StreamingSessions`, where a message is one
action. The two views complement each other: `StreamingSessions` has lists,
tables, queues and flags, `SharedConfiguration` has what other threads may do
while the lock is held. `pc` is where main stands: the start, `run` (between two
passes, including the wait on the condition variable), the places of a pass, and
those of the exit: `exited` (the media thread is joined), `clientFreed`,
`timersFreed`, `emptying` (the sessions of the list are freed, with the lock),
`closed`. `freeStep` is the place in `freeSampleStreamingSession`, the same for a
pass and for the exit: `joining` the receiving thread, `joined`, `closing` the
peer connection. `JoinStep` has the two joins, and no fairness. `step` is the
place of the handler of the offer `offered`, `ice` that of each session's agent,
`callback` that of the timer thread.

*An offer's answer* may fail on its way, in the handler and in the agent's thread:
the offer cannot be parsed or set (WC 243, 244), the local description cannot be
set (249), `createAnswer` fails (256, 364), the answer does not serialize (319),
there is no client or the send fails (295). The session stays in the list and
nobody tries again. `gaveUp` is the history of these sessions; `answers` counts
what the service took.

*Abstraction.* The scan may remove any listed session at any time, which covers
every way in which `terminateFlag` may be set. A session gathers at most one
local candidate, and one handler at a time owes a stats timer. A SIGINT is
stored only at `run`: before it `gSampleConfiguration` is NULL and the handler
does nothing (WC 13), and during a pass the flag is not read, so that one that
comes then is one that comes at its end. A TRYLOCK that fails is no step, for
the callback returns at once with nothing changed. Whether a certificate was
added is left out, for nothing reads their number but the pool.

*External.* The timer queue runs one callback at a time and lets nobody add,
cancel or free a timer meanwhile. `freeSignalingClient` returns after the
handlers that run; `closePeerConnection` after the callback that runs. A client
is new, ready once it fetched, connected, or down after an error; messages and
errors come after the first fetch. A send, and any other call of the SDK,
succeeds or fails in finite time. An agent whose `setLocalDescription` failed does
not gather.

The code relies on `freeSignalingClient` in two ways. The exit frees everything
right after it, so it has to return after the handlers that run. The re-creation
calls it with the lock of the configuration held, so it must not wait for a
message that waits for that lock (hazard at WC 1388). The model gives each call
what it relies on; that the SDK does so is an assumption.

`WaitsFor` lists who waits for whom: the two locks, `timerQueueCancelTimer` and
`timerQueueFree` for a callback, `closePeerConnection` for a callback of the
agent, `freeSignalingClient` for a handler.

## 3. What the runs show

Every run is `tlc -config <cfg> <module>` with 2 workers.

| run | result | what it shows |
|---|---|---|
| `sessions_safety` | holds | list, table, queues and timer under every interleaving and fault; candidates once and in the order of the lock; no early free; the registry implements `SessionPool` |
| `sessions_liveness` | holds | if the joins return, ended sessions and stale queues go and an interrupt closes everything; without refused offers and candidates every session is reachable and no candidate is skipped |
| `sessions_same_peer` | violated | two sessions of one peer, after an offer whose handling failed |
| `sessions_stats` | violated | a stats timer without sessions |
| `receiver` | holds | the thread is gone before its session; a frame finds its appsrc; a free that called the callback ends |
| `receiver_callback` | violated | a session is freed without its shutdown callback |
| `media` | holds | one media thread; frames only to live sessions; no media thread runs after the free but one an offer made after the termination began; the join of the media thread returns if frames come |
| `shadow_safety` | holds | quiet means agreed, servos as reported, pulse widths of 0 to 180 degrees |
| `shadow_liveness` | holds | the exchange ends, the start ends, local values are not stale |
| `shadow_start` | violated | the console does not start with the value of the document |
| `configuration` | holds | one owner for each lock, one signaling client, a handler's client is not freed under it, no offer answered twice, and one answered unless a call it needs failed, statistics only of sessions that exist, no callback, agent or handler at work when the configuration is freed, nobody waiting in a circle; if the joins return, the lock is given up again and again, an error leads to a connected client, an interrupt or a failed start ends the program |
| `signaling_recreate` | violated | a request for re-creation stays unserved |

The five violations are disagreements between the code and what its comments
say; each is a shortest trace that can be replayed with the run.

1. *Two sessions of one peer* (WC 1524). The comment at WC 1495 says "Check if
   we already have an ongoing master session with the same peer". A session
   whose `handleOffer` failed is in the list but not in the table the check
   reads.
2. *A timer without sessions* (WC 1607). The comment at WC 634 says
   "De-initialize the session stats timer if there are no active sessions". The
   timer is added after the unlock, when the session may be gone.
3. *A free without callback* (WC 624). The comment at `source/WebRtcCommon.h`
   188 says "this is called when the SampleStreamingSession is being freed".
   The thread that registers it may not have come that far; then nothing ends
   its stream, and the free waits for the thread with the lock held.
4. *The initial value is lost* (DM 301). The comment at DM 469 says "Get the
   current shadow document so we start with the correct value". The echo of the
   update published on receipt of the document resets the value to "".
5. *A signaling client that is never made again* (WC 1389). The comment at WC
   130 says "We will force re-create the signaling client on the following
   errors". The status of the creation is ignored and the handle was already
   made invalid; from then on the fetch fails with another status, and the branch
   that creates a client is not reached again.

### Bounds

- *Sessions.* Two clients with hashes of their own, two blocks of memory and a
  capacity of two (`DEFAULT_MAX_CONCURRENT_STREAMING_SESSION` is larger): the
  capacity is reached, memory is reused, a swap-removal moves another session
  and a scan skips it. Two candidates for each client show order and a drain
  that stops half-way; two handler threads show two that owe a timer. With an
  expiry of 0 or 1 ticks queues are met before and after it. Colliding hashes
  are covered by the proofs, which leave `Hash` open (`CollidingHash` in
  `MCStreamingSessions` is there to explore them). Memory, queues and timers are
  interchangeable, and so are the two clients together with their hashes: a
  symmetry set in the safety run. The liveness run uses none.
- *Media.* Three sessions, so that a removal moves one that is neither first
  nor removed; `MaxThreads` = 3 media threads one after another.
- *Receiver.* Two sessions, which meet only in the lock.
- *Configuration.* Two sessions, so that one is freed while the other is
  offered, gathers or is read by the statistics; one block of memory for
  clients, which a re-creation has to free before it can make the next (the
  proofs allow any number); the creation of a client may fail. One error, at any
  place of the main thread, and as many as the SDK likes in the instant before the
  flag is reset: these meet the recovery from the first and are what it forgets
  (the proofs allow any number of errors). The violation needs one session and
  one error only.
- *Shadow.* The safety run has one managed and one unmanaged property, a
  negative number, one in range and a word; one request, one input, two
  starts, one fault: a value can be written before the first start, between the
  two, and during an exchange. The liveness run has two managed properties,
  no word, one start. `UnsignedRange` is 65536 in place of 2^32, which TLC
  cannot represent; only that it is larger than 360 matters.

`CHECK_DEADLOCK` is off throughout: the programs stop (`pc = "closed"`,
`main = "freed"`), and bounded environments run out of events.

### Fairness

- *Sessions:* weak fairness of the main thread, of a handler that owes a timer,
  of the clock, and of the end of a receiving thread that was told to end
  (`FreeEnds` of `AudioReceiver`). The waits are timed (WC 1409), hence
  `WaitTimeout` belongs to the main thread's fair steps; `JoinMediaSender` does
  not. No fairness of clients, connections, SIGINT, of a receiving thread that was
  not told, or of the media thread.
- *Media:* weak fairness of each existing thread, of main's look at the flag and
  of its join, which returns when the thread is done. `OnNewSample` is
  fair because a playing camera delivers frames: `MediaSenderJoined` relies on it
  (hazard at WS 485).
- *Configuration:* strong fairness of the main thread and of the handler, which
  wait for locks that others take again and again: the operating system lets a
  thread that waits have a lock in the end. Weak fairness of each ICE agent's
  thread and of the timer thread. Strong fairness of a fetch or a connection that
  succeeds: a service that is asked in pass after pass answers at last. No
  fairness of the joins, of timers coming due, offers, errors, SIGINT, or of a
  creation that succeeds.
- *Receiver:* the threads run, and a free that began goes on. `BeginFree` is not
  fair.
- *Shadow:* the service takes what was published, and the two threads take what
  they have. Application, console, faults, starts and crashes are not fair.

### What the passing properties leave out

- `TerminatedIsFreed`, `PendingQueueGoes`, `InterruptCloses`, `ErrorRecovered` and
  `ExitCompletes` have the condition `JoinsReturn`, and `LockGivenUp` has
  `ReceiverJoined`: the main thread does not wait for ever in a join. The code
  does not ensure this. A receiving thread that had not registered its callback
  when its session's free began may never end (finding 3); the main thread then
  waits at WC 629-632 with the lock of the configuration held: that session is
  never freed, no message is handled any more, no queue expires, no error is
  recovered from, and an interrupt does not end the program. At the exit the same
  holds of a media thread without frames (WS 483-486). What these properties add
  is that nothing else stops the loop: not the skipped session, the broadcast
  that finds nobody, the timer queue, an ICE callback or the other lock.
- `FreeEnds` and `MediaSenderJoined` are what is known of the joins themselves: a
  join of a thread whose callback was called returns, and that of the media thread
  does if the camera delivers frames.
- `CandidatesOnceInTurn` and `NoCandidateSkipped` are about the order in which the
  candidates' handlers had the lock. A client's sending order may be lost before
  (WC 1480, and see the abstraction of `StreamingSessions`).
- `EverySessionReachable` ends with the free of the table at the exit.
- `NoCandidateSkipped` and `EverySessionReachable` are checked without the
  faults `candidate` and `offer`: a refused candidate breaks the first and an
  offer whose handling fails the second (findings and hazards). The theorem
  shows that failing offers alone do not break the first.
- `NoSenderAfterFree` excludes media threads created by an offer that comes
  after the termination began (`late`): the signaling client still delivers
  offers until WS 492.
- `FrameFindsSource` ends with the stream: from then on appsrc is unreferenced
  while the callback still has it (hazard at WS 458).
- `NothingAfterFree` does not speak of the media thread, which is not part of
  `SharedConfiguration`: it is `NoSenderAfterFree`, with its exception.
- `ErrorRecovered` leaves out three cases: an error reported in the instant
  before the flag is reset (`ErrorMissed`), which is forgotten; a client that could not
  be made, which is finding 5; and a program that ends.
- `OneAnswer` and `AnsweredWhenGathered` count the answers the service takes.
  `AnsweredWhenGathered` excludes a session one of whose calls failed (`gaveUp`;
  WC 243-249, 256, 295, 319, 364): it stays in the list unanswered. What remains is
  that the handler and the agent never each leave the answer to the other.
- `HandlerUsesLiveClient` is about handlers. A thread of an ICE agent sends
  without the lock of the configuration, and a re-creation may free its client
  meanwhile; what happens then is decided inside the SDK (hazard at WC 1388).
- `LocalNotStale` is checked with duplicates and proved for duplicates and lost
  connections, both without reordering, in which an old echo comes last.
- `ServoAsReported` leaves out the property the console sets once it was used:
  the console thread moves a servo before it publishes, and a delta may come in
  between.
- `ExchangeEnds` and `StartCompletes` are checked with all properties managed
  and without reconnections; with an unmanaged property the uninitialized
  `processShadow` may keep the exchange going (hazard at DM 244), and after a
  lost reply the start waits forever (hazard at DM 473).

## 4. What is proved

Proofs are for every value of the constants, under the modules' `ASSUME`s:
any finite or infinite sets of clients, sessions, queues and timers, any hash
function, any faults.

*`StreamingSessions_proofs`.* `RegistryInv` has the types, `SessionListSound`,
`PeerTableSound` and `FreeInv`, and only the four together are inductive. The count
stays within the array because the offer tests it, but the clean-up and the exit
set a flag of what they read from the list: that this is allocated is
`SessionListSound`. It says that the entries in use are distinct and that they,
with the one session that is being freed, are exactly what is allocated; it holds
for any scan index, which a removal may leave above the count. `PeerTableSound`
builds on it: an entry is a session of the list of its hash, and a clean-up removes
the entry of the hash it frees. `FreeInv` says that the session whose free waits in its
join has its flag, and that no entry of the table is left once the exit empties the
list. `TypeCorrect`, `SessionListCorrect` and `PeerTableCorrect` follow;
`FreedOnlyWhenTerminatedHolds` is an action property proved from `RegistryInv`,
action by action. `EverySessionReachableHolds` assumes `"offer" \notin Faults`:
then every session of the list is the entry of its hash, so two sessions of one
hash cannot exist and a removal hits its own entry.

`KnownTimerInQueueHolds` needs no other invariant. `OnePendingQueueHolds` has its
own, `PendingInv`: a queue is made only for a hash that has neither a queue nor a
session, and an offer takes the queue when it fills the table's entry.

*`SessionPool_proofs`.* `RegistryImplementsPool` is the refinement,
`Spec => ImplementsPool`: under `Phase` every step of the registry is a `Start`, an
`End`, a `Release`, the `Close`, or a stutter. The beginning of a free is an `End`,
or a stutter if the connection had ended the session before; the return of its
join is the `Release`, however long it takes; the end of the exit is the `Close`.
Two steps need an argument. The offer tests `sessionCount` where the pool counts
sessions: `CountIsCardinality` shows that the two agree while the list is exact and
nothing is being freed, and `FreeHoldsLock` that nothing is being freed while a
message is handled.

*`CandidateOrder_proofs`.* What `CandidatesOnceInTurn` claims of the sessions'
candidates is not inductive: they come out of a pending queue, and the next
turn at the lock is new only if every number in use was handled. `QueueOrder`
and `SessionOrder` therefore say the same of queues, and of queues and sessions
together (`Apart`), and that all numbers were handled (`AlreadyHandled`); two queues
cannot share a client because no hash has two (`PendingInv`). An offer moves a
queue to a session that was empty. `NoCandidateSkippedHolds` assumes
`"candidate" \notin Faults` and adds `CompleteInv`: a queue, and the session in
the table's entry of a hash, has everything from a client's first candidate there
to the last one handled. A queue that expires, a session that is freed and an offer
that fails leave no gap in what is left: whatever comes next starts a new queue.

*`MediaPipeline_proofs`.* `Inv` consists of `ListInv` (the list is exact and what
it holds is live), `FrameInv` (what a thread that iterates knows about its index
and its target), `ActiveInv` (a thread that runs is the one whose id is kept, and
`mediaThreadStarted` is set) and `ExitInv` (what the termination has joined).
The three safety properties follow from it.

*`SharedConfiguration_proofs`.* `Inv` has the types, `OneOwner` and `OneClient`,
which are inductive only together with `MainInv` (what main has freed at each
place), `HandlerInv` (the session of the offer stays in the list and there is a
client while its handler runs, since only the owner of the lock takes either
away), `GatheringInv` (an agent runs only for an allocated session, and from
`described` on), `OwnAnswerInv`, `AnswersInv` and `StatsInv`. `AnswersInv` says at
each point of an offer's way whether somebody has still to answer it
(`AnswerDue`): the handler if the viewer trickles, else the agent. As long as one
has, there is no answer; when none has, there is one answer or a call failed
(`gaveUp`). The proof goes part by
part: one lemma for the loop, the start, the recovery, the free of a session with
its join, the exit, the handler, the agents and the timers. `NoCircularWaitHolds` gives
each party a rank in each state and shows that every wait is for a party of
lower rank: a loop that waits for an agent's callback owns the first lock, hence
no handler owns the second one, and its owner is an agent that sends. It is the
part of `LockGivenUp` that depends neither on fairness nor on the joins: the threads
that are joined take neither lock, so that they close no circle. The proof needs
the assumptions that the values that mean "no session", "no client", "nobody",
"handler", "main" and "timer" are none of the others.

*`AudioReceiver_proofs`.* `Inv` says what the thread owns at each of its steps;
`SessionOutlivesReceiver` is part of it and `FrameFindsSource` follows from it.

*`DeviceShadow_proofs`.* `TypeCorrect` includes the clamping of the angle: for
any integer an application writes, the pulse width is between 500 and 1500. The
other three properties are about a quiet device, so they need invariants of a
busy one, which say what is still on its way:

- `AgreeInv`, for `QuietMeansAgreedHolds`: as long as a managed property differs,
  an update is on its way to the service (which will bring a delta), a delta is
  on its way to the device (which will answer with an update), the console owes
  an update, or the device starts and has not been told that there is no shadow.
  It rests on `OwnInv`: only what the device manages is reported (nobody else
  writes the reported section, an assumption of `Init`), so the initial document
  has something the get handler finds, or is empty and ends the program.
  The branch in which `processShadow` is not initialized and nothing is published
  (DM 402) is therefore not taken with a difference left.
- `ServoInv`, for `ServoAsReportedHolds`: the last report of a servo on its way to
  the service shows its position; if there is none, the document does. With
  `ConsoleInv`, as an input that removes values is published without a move.
- `LocalInv`, for `LocalNotStaleHolds`: the last message on its way to the device
  that sets a local value sets it to the reported one or to none; if there is no
  such message, the local value is one of the two. It assumes
  `"reorder" \notin Faults`.

"The last message of a kind" is one operator, `LastIsGood`, with a lemma for each
thing that happens to a channel (`GoodConcat`, `GoodAppend`, `GoodTail`,
`GoodDuplicate`); `Has` ("some message of a kind") likewise. The cases of a
handler that returns are separated once from those that end the program
(`DeviceCases`), and the invariants are proved against these cases. TLC checked
the invariants on the run's instance before they were proved.

*Only model-checked:* liveness, which depends on fairness: `TerminatedIsFreed`,
`PendingQueueGoes`, `InterruptCloses`, `FreeEnds`, `MediaSenderJoined`,
`ExchangeEnds`, `StartCompletes`, `LockGivenUp`, `ErrorRecovered`, `ExitCompletes`. The prover does not do ENABLED.
Every safety invariant of a passing run is proved.

## 5. What is not modelled

- The viewer role: a master gets no answers (WC 1541-1566).
- Failures of memory allocation and of the SDK's containers (WC 1587), and
  statuses that end the cleanup loop from inside (CHK_STATUS).
- What `createSampleConfiguration` does before its first timer runs: there is one
  thread and nothing to interleave with.
- Media, SDP and JSON contents, GStreamer's inner life, logging.
- The stream producer: one pipeline and a bus loop that logs or ends the process;
  its state is GStreamer's. The shadow code it repeats is modelled once.
- The command line: a sequential parser without state that outlives it.
- The provisioning scripts and policies: outside the two programs, run by hand.
  That a certificate file exists is taken as a sign that everything after it was
  done, so an interrupted run is not completed by the next one; no text promises
  that it is.
- Two threads sharing a map without a lock (DM 494 against 301): the model takes
  each access as atomic.

## 6. Plan

1. `AudioReceiver` refined by the registry: `receiver`, which is left open when a
   free begins, would be the state of each session's thread, so that finding 3 is
   a trace from an offer to a program that an interrupt does not end.
2. The failures of connect and subscribe in the shadow thread, which end the
   program while the master streams.
3. An abstract specification of the exchange with the shadow, two registers that
   are brought to agree, and the refinement by `DeviceShadow`; the same for the
   media thread, a sender that exists once.
