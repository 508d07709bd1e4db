---------------------------- MODULE MediaPipeline ----------------------------
(***************************************************************************)
(* The threads that send media: mediaSenderRoutine, created by the first   *)
(* offer, waits until a session is connected, then starts the capture      *)
(* pipeline and joins it; the pipeline writes every frame to every session *)
(* in the list.  Main removes and frees sessions, and at exit joins the    *)
(* media thread before it frees what the thread uses.                      *)
(*                                                                         *)
(* sampleConfigurationObjLock makes an offer or a clean-up one step except *)
(* where a lock-free reader can come between: a session is removed under   *)
(* streamingSessionListReadLock, freed after it; the media thread is       *)
(* created after the exchange of its flag.                                 *)
(***************************************************************************)
EXTENDS Naturals, Sequences, FiniteSets

CONSTANTS
  Sessions,    \* the blocks of memory a session may take
  NoSession,   \* no pointer
  MaxThreads,  \* bound: the media threads created in one behaviour
  Faults       \* "pipeline": the capture pipeline may fail

ASSUME MediaAssumption ==
  /\ NoSession \notin Sessions
  /\ MaxThreads \in Nat
  /\ Faults \subseteq {"pipeline"}

Threads == 1 .. MaxThreads

VARIABLES
  list,                \* sampleStreamingSessionList[0 .. streamingSessionCount - 1]
  memory,              \* the state of each block of memory
  connected,           \* one flag for all sessions
  appTerminateFlag,
  mediaThreadStarted,
  mediaSenderTid,      \* the media thread known, 0 for INVALID_TID_VALUE
  handler,             \* whether an offer's handler has yet to create the thread
  sender,              \* how far each media thread has come
  video,               \* how far its capture pipeline has come
  index,               \* i of on_new_sample, 0 without the read lock
  target,              \* pSampleStreamingSession of on_new_sample
  main,                \* how far main has come
  joinee,              \* the thread main joins
  late                 \* history: a media thread was created after the flag

sessions == <<list, memory>>
flags    == <<connected, appTerminateFlag, mediaThreadStarted, mediaSenderTid>>
media    == <<sender, video, index, target>>
exit     == <<main, joinee>>
vars     == <<sessions, flags, handler, media, exit, late>>

Listed == {list[i] : i \in DOMAIN list}

\* Type invariant.
TypeOK ==
  /\ list \in Seq(Sessions)
  /\ memory \in [Sessions -> {"free", "live", "removed"}]
  /\ {connected, appTerminateFlag, mediaThreadStarted, handler, late} \subseteq BOOLEAN
  /\ mediaSenderTid \in 0 .. MaxThreads
  /\ sender \in [Threads -> {"none", "waiting", "streaming", "ending", "done"}]
  /\ video \in [Threads -> {"none", "playing", "done"}]
  /\ index \in [Threads -> Nat]
  /\ target \in [Threads -> Sessions \cup {NoSession}]
  /\ main \in {"running", "terminating", "joining", "joined", "closing", "freed"}
  /\ joinee \in 0 .. MaxThreads

Init ==
  /\ list = <<>>
  /\ memory = [s \in Sessions |-> "free"]
  /\ connected = FALSE
  /\ appTerminateFlag = FALSE
  /\ mediaThreadStarted = FALSE
  /\ mediaSenderTid = 0
  /\ handler = FALSE
  /\ sender = [t \in Threads |-> "none"]
  /\ video = [t \in Threads |-> "none"]
  /\ index = [t \in Threads |-> 0]
  /\ target = [t \in Threads |-> NoSession]
  /\ main = "running"
  /\ joinee = 0
  /\ late = FALSE

ReadLockFree == \A t \in Threads : index[t] = 0

\* A handler runs until the signaling client is freed, when no other does and
\* the clean-up does not hold the lock.
HandlerRuns ==
  /\ main \notin {"closing", "freed"}
  /\ ~handler
  /\ \A s \in Sessions : memory[s] # "removed"

-----------------------------------------------------------------------------
(* An offer, and the end of its handleOffer.                               *)

\* Mutant: the flag is set but not tested.
AlwaysCreates == TRUE
CreatesThread == ~mediaThreadStarted

Offer(s) ==
  /\ HandlerRuns
  /\ ReadLockFree
  /\ memory[s] = "free"
  /\ mediaSenderTid < MaxThreads
  /\ memory' = [memory EXCEPT ![s] = "live"]
  /\ list' = Append(list, s)
  /\ mediaThreadStarted' = TRUE
  /\ handler' = CreatesThread
  /\ UNCHANGED <<connected, appTerminateFlag, mediaSenderTid, media, exit, late>>

CreateMediaSender ==
  LET t == mediaSenderTid + 1 IN
  /\ handler
  /\ handler' = FALSE
  /\ mediaSenderTid' = t
  /\ sender' = [sender EXCEPT ![t] = "waiting"]
  /\ late' = (late \/ appTerminateFlag)
  /\ UNCHANGED <<sessions, connected, appTerminateFlag, mediaThreadStarted,
                 video, index, target, exit>>

\* onConnectionStateChange of any session sets or clears the one flag.
ConnectionStateChange(s, newState) ==
  /\ memory[s] = "live"
  /\ connected' = (newState = "connected")
  /\ UNCHANGED <<sessions, appTerminateFlag, mediaThreadStarted, mediaSenderTid,
                 handler, media, exit, late>>

-----------------------------------------------------------------------------
(* mediaSenderRoutine.                                                     *)

\* The timed wait makes the loop test its condition again and again.
LeaveWait(t) ==
  /\ sender[t] = "waiting"
  /\ \/ /\ appTerminateFlag
        /\ sender' = [sender EXCEPT ![t] = "ending"]
        /\ UNCHANGED video
     \/ /\ connected
        /\ ~appTerminateFlag
        /\ sender' = [sender EXCEPT ![t] = "streaming"]
        /\ video' = [video EXCEPT ![t] = "playing"]
  /\ UNCHANGED <<sessions, flags, handler, index, target, exit, late>>

JoinVideo(t) ==
  /\ sender[t] = "streaming"
  /\ video[t] = "done"
  /\ sender' = [sender EXCEPT ![t] = "ending"]
  /\ UNCHANGED <<sessions, flags, handler, video, index, target, exit, late>>

EndSender(t) ==
  /\ sender[t] = "ending"
  /\ sender' = [sender EXCEPT ![t] = "done"]
  /\ mediaThreadStarted' = FALSE
  /\ UNCHANGED <<sessions, connected, appTerminateFlag, mediaSenderTid, handler,
                 video, index, target, exit, late>>

MediaSenderRoutine(t) == LeaveWait(t) \/ JoinVideo(t) \/ EndSender(t)

-----------------------------------------------------------------------------
(* sendGstreamerAudioVideo, and on_new_sample for each frame.              *)

NewSample(t) ==
  /\ video[t] = "playing"
  /\ ReadLockFree
  /\ index' = [index EXCEPT ![t] = 1]
  /\ UNCHANGED <<sessions, flags, handler, sender, video, target, exit, late>>

TakeSession(t) ==
  /\ index[t] \in DOMAIN list
  /\ target[t] = NoSession
  /\ target' = [target EXCEPT ![t] = list[index[t]]]
  /\ UNCHANGED <<sessions, flags, handler, sender, video, index, exit, late>>

WriteFrame(t) ==
  /\ target[t] # NoSession
  /\ target' = [target EXCEPT ![t] = NoSession]
  /\ index' = [index EXCEPT ![t] = @ + 1]
  /\ UNCHANGED <<sessions, flags, handler, sender, video, exit, late>>

\* Mutant: the flag is not tested.
AlwaysGoesOn == "playing"
AfterSample == IF appTerminateFlag THEN "done" ELSE "playing"

\* GST_FLOW_EOS ends the pipeline.
EndSample(t) ==
  /\ index[t] > Len(list)
  /\ target[t] = NoSession
  /\ index' = [index EXCEPT ![t] = 0]
  /\ video' = [video EXCEPT ![t] = AfterSample]
  /\ UNCHANGED <<sessions, flags, handler, sender, target, exit, late>>

PipelineFails(t) ==
  /\ "pipeline" \in Faults
  /\ video[t] = "playing"
  /\ index[t] = 0
  /\ video' = [video EXCEPT ![t] = "done"]
  /\ UNCHANGED <<sessions, flags, handler, sender, index, target, exit, late>>

OnNewSample(t) ==
  NewSample(t) \/ TakeSession(t) \/ WriteFrame(t) \/ EndSample(t)

-----------------------------------------------------------------------------
(* The clean-up of a session, and cleanUpKVSResources.                     *)

\* The list without its i-th session: swap with the last.
Removed(i) ==
  LET n == Len(list) IN
  SubSeq([list EXCEPT ![i] = list[n]], 1, n - 1)

\* Mutant: without the read lock.
RemoveUnlocked(i) ==
  /\ list' = Removed(i)
  /\ memory' = [memory EXCEPT ![list[i]] = "removed"]
RemoveSession(i) ==
  /\ ReadLockFree
  /\ list' = Removed(i)
  /\ memory' = [memory EXCEPT ![list[i]] = "removed"]

CleanupSession ==
  /\ main = "running"
  /\ ~handler
  /\ \A s \in Sessions : memory[s] # "removed"
  /\ \E i \in DOMAIN list : RemoveSession(i)
  /\ UNCHANGED <<flags, handler, media, exit, late>>

FreeSession(s) ==
  /\ memory[s] = "removed"
  /\ memory' = [memory EXCEPT ![s] = "free"]
  /\ UNCHANGED <<list, flags, handler, media, exit, late>>

Terminate ==
  /\ main = "running"
  /\ \A s \in Sessions : memory[s] # "removed"
  /\ main' = "terminating"
  /\ appTerminateFlag' = TRUE
  /\ UNCHANGED <<sessions, connected, mediaThreadStarted, mediaSenderTid,
                 handler, media, joinee, late>>

CheckMediaSender ==
  /\ main = "terminating"
  /\ main' = IF mediaSenderTid = 0 THEN "joined" ELSE "joining"
  /\ joinee' = mediaSenderTid
  /\ UNCHANGED <<sessions, flags, handler, media, late>>

\* Mutant: the thread is not joined.
DetachMediaSender ==
  /\ main = "joining"
  /\ main' = "joined"
  /\ UNCHANGED <<sessions, flags, handler, media, joinee, late>>
JoinMediaSender ==
  /\ main = "joining"
  /\ sender[joinee] = "done"
  /\ main' = "joined"
  /\ UNCHANGED <<sessions, flags, handler, media, joinee, late>>

FreeSignalingClient ==
  /\ main = "joined"
  /\ ~handler
  /\ main' = "closing"
  /\ UNCHANGED <<sessions, flags, handler, media, joinee, late>>

FreeConfiguration ==
  /\ main = "closing"
  /\ main' = "freed"
  /\ list' = <<>>
  /\ memory' = [s \in Sessions |-> "free"]
  /\ UNCHANGED <<flags, handler, media, joinee, late>>

CleanUpKVSResources ==
  CheckMediaSender \/ JoinMediaSender \/ FreeSignalingClient \/ FreeConfiguration

-----------------------------------------------------------------------------
Next ==
  \/ \E s \in Sessions : Offer(s) \/ FreeSession(s)
  \/ \E s \in Sessions, newState \in {"connected", "other"} :
       ConnectionStateChange(s, newState)
  \/ CreateMediaSender
  \/ \E t \in Threads : MediaSenderRoutine(t) \/ OnNewSample(t) \/ PipelineFails(t)
  \/ CleanupSession
  \/ Terminate
  \/ CleanUpKVSResources

\* Media threads run, the camera delivers frames, and main goes on to the join and
\* leaves it.  That main frees a session, which joins a receiving thread, is not
\* assumed to end.
Fairness ==
  /\ \A t \in Threads : WF_vars(MediaSenderRoutine(t)) /\ WF_vars(OnNewSample(t))
  /\ WF_vars(CheckMediaSender \/ JoinMediaSender)

Spec == Init /\ [][Next]_vars
FairSpec == Spec /\ Fairness

-----------------------------------------------------------------------------
(* Properties.                                                             *)

\* One media thread at a time: a second would capture and send every frame
\* twice.
OneMediaSender ==
  Cardinality({t \in Threads : sender[t] \notin {"none", "done"}}) <= 1

\* A frame is written to a session that is not freed, nor about to be: who
\* iterates and who removes hold the read lock, and what is removed is freed
\* only after it was given up.
FramesToLiveSessions ==
  \A t \in Threads : target[t] # NoSession => memory[target[t]] = "live"

\* When the configuration is freed no media thread runs, unless an offer came
\* after the termination began, for the signaling client is freed after the
\* join and still takes offers meanwhile.
NoSenderAfterFree ==
  main = "freed" /\ ~late =>
    \A t \in Threads : sender[t] \in {"none", "done"} /\ video[t] # "playing"

\* Once the flag is set main gets past the join of the media thread as long as the
\* camera delivers frames: the pipeline looks at the flag after a frame only.
MediaSenderJoined ==
  appTerminateFlag ~> main \in {"joined", "closing", "freed"}

=============================================================================
