------------------------- MODULE AudioReceiver_proofs -------------------------
(***************************************************************************)
(* Proofs about AudioReceiver: the thread ends before its session is freed *)
(* and, while nothing ends its stream, a frame finds its appsrc.           *)
(***************************************************************************)
EXTENDS AudioReceiver, TLAPS

\* What the thread has done, by how far it has come: it hands out its appsrc
\* only once it has one, and frees it only when its bus says so.
ReceiverInv ==
  \A s \in Sessions :
    /\ receiver[s] \in {"none", "started"} => ~onFrame[s]
    /\ receiver[s] \in {"built", "framed", "registered", "playing"} =>
         appsrc[s] = "alive"
    /\ receiver[s] = "exited" /\ onFrame[s] => bus[s] # "empty"

Inv == TypeOK /\ ReceiverInv /\ SessionOutlivesReceiver

LEMMA InitInv == Init => Inv
  BY DEF Init, Inv, TypeOK, ReceiverInv, SessionOutlivesReceiver

LEMMA NextInv == Inv /\ [Next]_vars => Inv'
<1> SUFFICES ASSUME Inv, [Next]_vars PROVE Inv'
  OBVIOUS
<1> USE DEF Inv, TypeOK, ReceiverInv, SessionOutlivesReceiver, pipeline
<1>1. ASSUME NEW s \in Sessions, HandleOffer(s) PROVE Inv'
  BY <1>1 DEF HandleOffer
<1>2. ASSUME NEW s \in Sessions, ReceiveGstreamerAudioVideo(s) PROVE Inv'
  <2>1. CASE BuildPipeline(s)
    BY <2>1 DEF BuildPipeline
  <2>2. CASE TransceiverOnFrame(s)
    BY <2>2 DEF TransceiverOnFrame
  <2>3. CASE StreamingSessionOnShutdown(s)
    BY <2>3 DEF StreamingSessionOnShutdown
  <2>4. CASE Play(s)
    BY <2>4 DEF Play
  <2>5. CASE PopBus(s)
    BY <2>5 DEF PopBus
  <2> QED
    BY <1>2, <2>1, <2>2, <2>3, <2>4, <2>5 DEF ReceiveGstreamerAudioVideo
<1>3. ASSUME NEW s \in Sessions, PipelineFails(s) PROVE Inv'
  BY <1>3 DEF PipelineFails
<1>4. ASSUME NEW s \in Sessions, FreeSampleStreamingSession(s) PROVE Inv'
  <2>1. CASE BeginFree(s)
    BY <2>1 DEF BeginFree
  <2>2. CASE JoinReceiver(s)
    BY <2>2 DEF JoinReceiver
  <2>3. CASE CloseAndFree(s)
    BY <2>3 DEF CloseAndFree
  <2> QED
    BY <1>4, <2>1, <2>2, <2>3 DEF FreeSampleStreamingSession
<1>5. CASE UNCHANGED vars
  BY <1>5 DEF vars
<1> QED
  BY <1>1, <1>2, <1>3, <1>4, <1>5 DEF Next

\* The invariant holds in every state.
THEOREM InvHolds == Spec => []Inv
  BY InitInv, NextInv, PTL DEF Spec

\* A session's memory is freed only after its receiving thread has ended.
THEOREM SessionOutlivesReceiverHolds == Spec => []SessionOutlivesReceiver
<1>1. Inv => SessionOutlivesReceiver
  BY DEF Inv
<1> QED
  BY <1>1, InvHolds, PTL

\* A frame finds its appsrc until the stream is ended.
THEOREM FrameFindsSourceHolds == Spec => []FrameFindsSource
<1>1. Inv => FrameFindsSource
  BY DEF Inv, TypeOK, ReceiverInv, FrameFindsSource
<1> QED
  BY <1>1, InvHolds, PTL

=============================================================================
