------------------------- MODULE MediaPipeline_proofs -------------------------
(***************************************************************************)
(* Proofs about MediaPipeline: one media thread at a time, frames only to  *)
(* sessions that exist, and no media thread after the free.                *)
(***************************************************************************)
EXTENDS MediaPipeline, FiniteSetTheorems, TLAPS

\* The list holds different sessions, all of them live.
ListInv ==
  /\ \A i \in DOMAIN list : memory[list[i]] = "live"
  /\ \A i, j \in DOMAIN list : list[i] = list[j] => i = j

\* A thread holds the read lock only within a frame, and the session it writes
\* to is the one its index says.
FrameInv ==
  \A t \in Threads :
    /\ video[t] = "playing" => sender[t] = "streaming"
    /\ index[t] # 0 => video[t] = "playing"
    /\ target[t] # NoSession => /\ index[t] \in DOMAIN list
                                /\ target[t] = list[index[t]]

Active(t) == sender[t] \notin {"none", "done"}

\* Only the thread created last can be active, and none is while a handler has
\* still to create one or the flag says so.
ActiveInv ==
  /\ \A t \in Threads : Active(t) => t = mediaSenderTid
  /\ \A t \in Threads : t > mediaSenderTid => sender[t] = "none"
  /\ handler => mediaThreadStarted /\ \A t \in Threads : ~Active(t)
  /\ ~mediaThreadStarted => \A t \in Threads : ~Active(t)
  /\ handler => mediaSenderTid < MaxThreads

Joined == {"joined", "closing", "freed"}

\* A thread that streams is the one main joins, for none begins to stream once
\* the flag is set; any other that is active came late.
ExitInv ==
  /\ appTerminateFlag <=> main # "running"
  /\ main = "joining" => joinee \in Threads
  /\ \A t \in Threads :
       /\ main = "joining" /\ sender[t] = "streaming" => t = joinee
       /\ main \in Joined => sender[t] # "streaming"
       /\ main \in Joined /\ Active(t) => late
  /\ main = "joining" /\ ~late => mediaSenderTid = joinee

Inv == TypeOK /\ ListInv /\ FrameInv /\ ActiveInv /\ ExitInv

LEMMA InitInv == Init => Inv
<1> SUFFICES ASSUME Init PROVE Inv
  OBVIOUS
<1> USE MediaAssumption DEF Init
<1>1. TypeOK
  <2>1. {connected, appTerminateFlag, mediaThreadStarted, handler, late}
          \subseteq BOOLEAN
    BY Zenon
  <2>2. mediaSenderTid \in 0 .. MaxThreads /\ joinee \in 0 .. MaxThreads
    OBVIOUS
  <2>3. list \in Seq(Sessions)
    OBVIOUS
  <2> QED
    BY <2>1, <2>2, <2>3 DEF TypeOK
<1>2. ListInv /\ FrameInv
  BY DEF ListInv, FrameInv
<1>3. ActiveInv /\ ExitInv
  BY DEF ActiveInv, ExitInv, Active, Joined, Threads
<1> QED
  BY <1>1, <1>2, <1>3 DEF Inv

\* What is left of the list when one of its sessions is removed.
LEMMA RemovedList ==
  ASSUME TypeOK, NEW i \in DOMAIN list
  PROVE  /\ Removed(i) \in Seq(Sessions)
         /\ Len(Removed(i)) = Len(list) - 1
         /\ \A j \in 1 .. Len(list) - 1 :
              Removed(i)[j] = IF j = i THEN list[Len(list)] ELSE list[j]
<1> DEFINE n == Len(list)
           swapped == [list EXCEPT ![i] = list[n]]
<1>1. n \in Nat \ {0} /\ n \in DOMAIN list /\ list[n] \in Sessions
  BY DEF TypeOK
<1>2. swapped \in Seq(Sessions) /\ Len(swapped) = n
  BY <1>1 DEF TypeOK
<1> HIDE DEF swapped
<1>3. /\ SubSeq(swapped, 1, n - 1) \in Seq(Sessions)
      /\ Len(SubSeq(swapped, 1, n - 1)) = n - 1
      /\ \A j \in 1 .. n - 1 : SubSeq(swapped, 1, n - 1)[j] = swapped[j]
  BY <1>1, <1>2
<1>4. \A j \in 1 .. n - 1 : swapped[j] = IF j = i THEN list[n] ELSE list[j]
  BY <1>1 DEF swapped, TypeOK
<1>5. Removed(i) = SubSeq(swapped, 1, n - 1)
  BY DEF Removed, swapped
<1> QED
  BY <1>1, <1>3, <1>4, <1>5

LEMMA NextInv == Inv /\ [Next]_vars => Inv'
<1> SUFFICES ASSUME Inv, [Next]_vars PROVE Inv'
  OBVIOUS
<1> USE MediaAssumption
<1> USE DEF Inv, TypeOK, ListInv, FrameInv, ActiveInv, ExitInv, Active, Joined,
            Threads, sessions, flags, media, exit, ReadLockFree
<1>1. ASSUME NEW s \in Sessions, Offer(s) PROVE Inv'
  BY <1>1 DEF Offer, HandlerRuns, CreatesThread
<1>2. ASSUME NEW s \in Sessions, FreeSession(s) PROVE Inv'
  BY <1>2 DEF FreeSession
<1>3. ASSUME NEW s \in Sessions, NEW newState \in {"connected", "other"},
             ConnectionStateChange(s, newState)
      PROVE  Inv'
  BY <1>3 DEF ConnectionStateChange
<1>4. CASE CreateMediaSender
  <2> USE <1>4 DEF CreateMediaSender
  <2>1. TypeOK' /\ ListInv'
    <3>1. {connected', appTerminateFlag', mediaThreadStarted', handler', late'}
            \subseteq BOOLEAN
      OBVIOUS
    <3>2. mediaSenderTid' \in 0 .. MaxThreads
      OBVIOUS
    <3> QED
      BY <3>1, <3>2
  <2>2. FrameInv'
    OBVIOUS
  <2>3. ActiveInv'
    OBVIOUS
  <2>4. ExitInv'
    OBVIOUS
  <2> QED
    BY <2>1, <2>2, <2>3, <2>4
<1>5. ASSUME NEW t \in Threads, MediaSenderRoutine(t) PROVE Inv'
  <2>1. CASE LeaveWait(t)
    <3> USE <2>1 DEF LeaveWait
    <3>1. TypeOK' /\ ListInv'
      <4>1. {connected', appTerminateFlag', mediaThreadStarted', handler', late'}
              \subseteq BOOLEAN
        OBVIOUS
      <4>2. sender' \in
              [Threads -> {"none", "waiting", "streaming", "ending", "done"}]
        OBVIOUS
      <4>3. video' \in [Threads -> {"none", "playing", "done"}]
        OBVIOUS
      <4> QED
        BY <4>1, <4>2, <4>3
    <3>2. FrameInv'
      OBVIOUS
    <3>3. ActiveInv'
      OBVIOUS
    <3>4. ExitInv'
      OBVIOUS
    <3> QED
      BY <3>1, <3>2, <3>3, <3>4
  <2>2. CASE JoinVideo(t)
    BY <2>2 DEF JoinVideo
  <2>3. CASE EndSender(t)
    <3> USE <2>3 DEF EndSender
    <3>1. TypeOK' /\ ListInv'
      <4>1. {connected', appTerminateFlag', mediaThreadStarted', handler', late'}
              \subseteq BOOLEAN
        OBVIOUS
      <4> QED
        BY <4>1
    <3>2. FrameInv'
      OBVIOUS
    <3>3. ActiveInv'
      OBVIOUS
    <3>4. ExitInv'
      OBVIOUS
    <3> QED
      BY <3>1, <3>2, <3>3, <3>4
  <2> QED
    BY <1>5, <2>1, <2>2, <2>3 DEF MediaSenderRoutine
<1>6. ASSUME NEW t \in Threads, OnNewSample(t) PROVE Inv'
  <2>1. CASE NewSample(t)
    BY <2>1 DEF NewSample
  <2>2. CASE TakeSession(t)
    BY <2>2 DEF TakeSession
  <2>3. CASE WriteFrame(t)
    BY <2>3 DEF WriteFrame
  <2>4. CASE EndSample(t)
    BY <2>4 DEF EndSample, AfterSample
  <2> QED
    BY <1>6, <2>1, <2>2, <2>3, <2>4 DEF OnNewSample
<1>7. ASSUME NEW t \in Threads, PipelineFails(t) PROVE Inv'
  BY <1>7 DEF PipelineFails
<1>8. CASE CleanupSession
  <2>1. PICK i \in DOMAIN list : RemoveSession(i)
    BY <1>8 DEF CleanupSession
  <2> DEFINE n == Len(list)
  <2>2. /\ list' \in Seq(Sessions)
        /\ Len(list') = n - 1
        /\ \A j \in 1 .. n - 1 : list'[j] = IF j = i THEN list[n] ELSE list[j]
    BY <2>1, RemovedList DEF RemoveSession
  <2>3. /\ DOMAIN list' = 1 .. n - 1
        /\ DOMAIN list = 1 .. n
        /\ n \in Nat
    BY <2>2
  <2>4. ASSUME NEW j \in DOMAIN list'
        PROVE  \E k \in DOMAIN list : /\ k # i /\ list'[j] = list[k]
                                      /\ k = IF j = i THEN n ELSE j
    <3>1. j \in 1 .. n - 1 /\ i \in 1 .. n
      BY <2>3
    <3>2. list'[j] = IF j = i THEN list[n] ELSE list[j]
      BY <2>2, <3>1
    <3>3. CASE j = i
      BY <2>3, <3>1, <3>2, <3>3
    <3>4. CASE j # i
      BY <2>3, <3>1, <3>2, <3>4
    <3> QED
      BY <3>3, <3>4
  <2>5. ListInv'
    <3>1. ASSUME NEW j \in DOMAIN list' PROVE memory'[list'[j]] = "live"
      <4>1. PICK k \in DOMAIN list : k # i /\ list'[j] = list[k]
        BY <2>4
      <4>2. list[k] # list[i] /\ list[k] \in Sessions
        BY <4>1
      <4> QED
        BY <2>1, <4>1, <4>2 DEF RemoveSession
    <3>2. ASSUME NEW j \in DOMAIN list', NEW k \in DOMAIN list',
                 list'[j] = list'[k]
          PROVE  j = k
      <4>1. (IF j = i THEN n ELSE j) = IF k = i THEN n ELSE k
        BY <2>4, <3>2
      <4> QED
        BY <2>3, <4>1
    <3> QED
      BY <3>1, <3>2
  <2>6. TypeOK'
    BY <1>8, <2>1, <2>2 DEF CleanupSession, RemoveSession
  <2>7. FrameInv' /\ ActiveInv' /\ ExitInv'
    BY <1>8, <2>1 DEF CleanupSession, RemoveSession
  <2> QED
    BY <2>5, <2>6, <2>7
<1>9. CASE Terminate
  BY <1>9 DEF Terminate
<1>10. CASE CleanUpKVSResources
  <2>1. CASE CheckMediaSender
    BY <2>1 DEF CheckMediaSender
  <2>2. CASE JoinMediaSender
    BY <2>2 DEF JoinMediaSender
  <2>3. CASE FreeSignalingClient
    BY <2>3 DEF FreeSignalingClient
  <2>4. CASE FreeConfiguration
    BY <2>4 DEF FreeConfiguration
  <2> QED
    BY <1>10, <2>1, <2>2, <2>3, <2>4 DEF CleanUpKVSResources
<1>11. CASE UNCHANGED vars
  BY <1>11 DEF vars
<1> HIDE DEF Inv
<1> QED
  BY <1>1, <1>2, <1>3, <1>4, <1>5, <1>6, <1>7, <1>8, <1>9, <1>10, <1>11 DEF Next

\* The invariant holds in every state.
THEOREM InvHolds == Spec => []Inv
  BY InitInv, NextInv, PTL DEF Spec

\* Two media threads never run at a time, however often the pipeline fails and
\* the next offer makes a new thread.
THEOREM OneMediaSenderHolds == Spec => []OneMediaSender
<1>1. Inv => OneMediaSender
  <2> SUFFICES ASSUME Inv PROVE OneMediaSender
    OBVIOUS
  <2>1. {t \in Threads : sender[t] \notin {"none", "done"}} \subseteq {mediaSenderTid}
    BY DEF Inv, ActiveInv, Active
  <2>2. IsFiniteSet({mediaSenderTid}) /\ Cardinality({mediaSenderTid}) = 1
    BY FS_Singleton
  <2>3. Cardinality({t \in Threads : sender[t] \notin {"none", "done"}})
          <= Cardinality({mediaSenderTid})
    BY <2>1, <2>2, FS_Subset
  <2> QED
    BY <2>2, <2>3 DEF OneMediaSender
<1> QED
  BY <1>1, InvHolds, PTL

\* A frame is written to a session that is not freed.
THEOREM FramesToLiveSessionsHolds == Spec => []FramesToLiveSessions
<1>1. Inv => FramesToLiveSessions
  BY DEF Inv, ListInv, FrameInv, FramesToLiveSessions
<1> QED
  BY <1>1, InvHolds, PTL

\* When the configuration is freed no media thread runs that was not created
\* after the termination began.
THEOREM NoSenderAfterFreeHolds == Spec => []NoSenderAfterFree
<1>1. Inv => NoSenderAfterFree
  BY DEF Inv, FrameInv, ExitInv, Active, Joined, NoSenderAfterFree
<1> QED
  BY <1>1, InvHolds, PTL

=============================================================================
