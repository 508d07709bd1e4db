---------------------------- MODULE AudioReceiver ----------------------------
(***************************************************************************)
(* The thread each session has for the audio it receives, from handleOffer *)
(* that creates it to freeSampleStreamingSession that joins it.  The       *)
(* thread builds a pipeline whose appsrc it hands to two callbacks: the    *)
(* SDK calls one with every frame, freeSampleStreamingSession the other to *)
(* end the stream.  Then it blocks on the pipeline's bus until the stream  *)
(* ends or fails, and frees pipeline and appsrc.                           *)
(***************************************************************************)
EXTENDS Naturals

CONSTANTS
  Sessions,  \* the streaming sessions
  Faults     \* "codec": a track no appsrc is made for; "pipeline": an error

ASSUME FaultsAssumption == Faults \subseteq {"codec", "pipeline"}

VARIABLES
  receiver,          \* how far the thread of each session has come
  shutdownCallback,  \* whether the session has one
  onFrame,           \* whether its transceiver has one
  appsrc,            \* the element both callbacks were given
  bus,               \* what gst_bus_timed_pop_filtered can take
  freeing,           \* how far freeSampleStreamingSession has come
  called             \* history: the shutdown callback was called

pipeline == <<appsrc, bus>>
vars == <<receiver, shutdownCallback, onFrame, pipeline, freeing, called>>

\* Type invariant.
TypeOK ==
  /\ receiver \in [Sessions -> {"none", "started", "built", "framed",
                                "registered", "playing", "exited"}]
  /\ shutdownCallback \in [Sessions -> BOOLEAN]
  /\ onFrame \in [Sessions -> BOOLEAN]
  /\ appsrc \in [Sessions -> {"none", "alive", "freed"}]
  /\ bus \in [Sessions -> {"empty", "eos", "error"}]
  /\ freeing \in [Sessions -> {"no", "joining", "closing", "freed"}]
  /\ called \in [Sessions -> BOOLEAN]

Init ==
  /\ receiver = [s \in Sessions |-> "none"]
  /\ shutdownCallback = [s \in Sessions |-> FALSE]
  /\ onFrame = [s \in Sessions |-> FALSE]
  /\ appsrc = [s \in Sessions |-> "none"]
  /\ bus = [s \in Sessions |-> "empty"]
  /\ freeing = [s \in Sessions |-> "no"]
  /\ called = [s \in Sessions |-> FALSE]

\* handleOffer and the cleanup loop hold sampleConfigurationObjLock, the latter
\* while it frees a session and joins its thread.
ObjLockFree == \A s \in Sessions : freeing[s] \in {"no", "freed"}

-----------------------------------------------------------------------------
(* The end of handleOffer, and receiveGstreamerAudioVideo.                 *)

HandleOffer(s) ==
  /\ ObjLockFree
  /\ freeing[s] = "no"
  /\ receiver[s] = "none"
  /\ receiver' = [receiver EXCEPT ![s] = "started"]
  /\ UNCHANGED <<shutdownCallback, onFrame, pipeline, freeing, called>>

\* A codec without a description makes a pipeline without appsrc, and the
\* thread returns.
\* Mutant: it goes on.
BuildUnchecked(s) ==
  /\ receiver[s] = "started"
  /\ receiver' = [receiver EXCEPT ![s] = "built"]
  /\ \E found \in IF "codec" \in Faults THEN {"alive", "none"} ELSE {"alive"} :
       appsrc' = [appsrc EXCEPT ![s] = found]
  /\ UNCHANGED <<shutdownCallback, onFrame, bus, freeing, called>>
BuildPipeline(s) ==
  /\ receiver[s] = "started"
  /\ \/ /\ receiver' = [receiver EXCEPT ![s] = "built"]
        /\ appsrc' = [appsrc EXCEPT ![s] = "alive"]
     \/ /\ "codec" \in Faults
        /\ receiver' = [receiver EXCEPT ![s] = "exited"]
        /\ UNCHANGED appsrc
  /\ UNCHANGED <<shutdownCallback, onFrame, bus, freeing, called>>

TransceiverOnFrame(s) ==
  /\ receiver[s] = "built"
  /\ receiver' = [receiver EXCEPT ![s] = "framed"]
  /\ onFrame' = [onFrame EXCEPT ![s] = TRUE]
  /\ UNCHANGED <<shutdownCallback, pipeline, freeing, called>>

StreamingSessionOnShutdown(s) ==
  /\ receiver[s] = "framed"
  /\ receiver' = [receiver EXCEPT ![s] = "registered"]
  /\ shutdownCallback' = [shutdownCallback EXCEPT ![s] = TRUE]
  /\ UNCHANGED <<onFrame, pipeline, freeing, called>>

Play(s) ==
  /\ receiver[s] = "registered"
  /\ receiver' = [receiver EXCEPT ![s] = "playing"]
  /\ UNCHANGED <<shutdownCallback, onFrame, pipeline, freeing, called>>

PipelineFails(s) ==
  /\ "pipeline" \in Faults
  /\ receiver[s] = "playing"
  /\ bus[s] = "empty"
  /\ bus' = [bus EXCEPT ![s] = "error"]
  /\ UNCHANGED <<receiver, shutdownCallback, onFrame, appsrc, freeing, called>>

\* Both an error and the end of the stream make the thread free what it built;
\* the callbacks keep the pointer.
\* Mutant: the thread waits for an error only.
PopError(s) ==
  /\ receiver[s] = "playing"
  /\ bus[s] = "error"
  /\ receiver' = [receiver EXCEPT ![s] = "exited"]
  /\ appsrc' = [appsrc EXCEPT ![s] = "freed"]
  /\ UNCHANGED <<shutdownCallback, onFrame, bus, freeing, called>>
PopBus(s) ==
  /\ receiver[s] = "playing"
  /\ bus[s] # "empty"
  /\ receiver' = [receiver EXCEPT ![s] = "exited"]
  /\ appsrc' = [appsrc EXCEPT ![s] = "freed"]
  /\ UNCHANGED <<shutdownCallback, onFrame, bus, freeing, called>>

-----------------------------------------------------------------------------
(* freeSampleStreamingSession.                                             *)

\* The callback, if there is one, ends the stream: appsrc queues the end until
\* the pipeline plays.
BeginFree(s) ==
  /\ ObjLockFree
  /\ freeing[s] = "no"
  /\ freeing' = [freeing EXCEPT ![s] = "joining"]
  /\ called' = [called EXCEPT ![s] = shutdownCallback[s]]
  /\ bus' = IF shutdownCallback[s] /\ bus[s] = "empty"
              THEN [bus EXCEPT ![s] = "eos"] ELSE bus
  /\ UNCHANGED <<receiver, shutdownCallback, onFrame, appsrc>>

\* THREAD_JOIN, of a thread that was created.
\* Mutant: the session is freed without it.
NoJoin(s) ==
  /\ freeing[s] = "joining"
  /\ freeing' = [freeing EXCEPT ![s] = "closing"]
  /\ UNCHANGED <<receiver, shutdownCallback, onFrame, pipeline, called>>
JoinReceiver(s) ==
  /\ freeing[s] = "joining"
  /\ receiver[s] \in {"none", "exited"}
  /\ freeing' = [freeing EXCEPT ![s] = "closing"]
  /\ UNCHANGED <<receiver, shutdownCallback, onFrame, pipeline, called>>

\* The peer connection is closed, which ends the frames, and all is freed.
CloseAndFree(s) ==
  /\ freeing[s] = "closing"
  /\ freeing' = [freeing EXCEPT ![s] = "freed"]
  /\ onFrame' = [onFrame EXCEPT ![s] = FALSE]
  /\ UNCHANGED <<receiver, shutdownCallback, pipeline, called>>

-----------------------------------------------------------------------------
ReceiveGstreamerAudioVideo(s) ==
  \/ BuildPipeline(s)
  \/ TransceiverOnFrame(s)
  \/ StreamingSessionOnShutdown(s)
  \/ Play(s)
  \/ PopBus(s)

FreeSampleStreamingSession(s) == BeginFree(s) \/ JoinReceiver(s) \/ CloseAndFree(s)

Next == \E s \in Sessions :
  \/ HandleOffer(s)
  \/ ReceiveGstreamerAudioVideo(s)
  \/ PipelineFails(s)
  \/ FreeSampleStreamingSession(s)

\* The threads run, and a free that began goes on.
Fairness == \A s \in Sessions :
  /\ WF_vars(ReceiveGstreamerAudioVideo(s))
  /\ WF_vars(JoinReceiver(s) \/ CloseAndFree(s))

Spec == Init /\ [][Next]_vars
FairSpec == Spec /\ Fairness

-----------------------------------------------------------------------------
(* Properties.                                                             *)

\* The thread works on its session's memory, so it must be gone when that is
\* freed, whatever ended it.
SessionOutlivesReceiver ==
  \A s \in Sessions : freeing[s] \in {"closing", "freed"} =>
    receiver[s] \in {"none", "exited"}

\* Until the session's free begins, or its pipeline fails, a frame finds the
\* appsrc it is pushed into.  After that it does not: the connection is closed
\* only once the thread has freed the appsrc.
FrameFindsSource ==
  \A s \in Sessions : onFrame[s] /\ freeing[s] = "no" /\ bus[s] = "empty" =>
    appsrc[s] = "alive"

\* A free that called the callback comes to its end, and with it the lock is
\* given up: the end of the stream, even queued before the pipeline plays,
\* unblocks the thread that is joined.
FreeEnds ==
  \A s \in Sessions : (freeing[s] = "joining" /\ called[s]) ~> freeing[s] = "freed"

\* "this is called when the SampleStreamingSession is being freed".
ShutdownCallbackCalled ==
  \A s \in Sessions : freeing[s] # "no" /\ shutdownCallback[s] => called[s]

=============================================================================
