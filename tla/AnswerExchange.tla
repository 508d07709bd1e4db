--------------------------- MODULE AnswerExchange ----------------------------
(***************************************************************************)
(* The answer to an offer.  The handler of the offer owns the lock of the  *)
(* configuration and answers at once if the viewer trickles candidates; if *)
(* not, a thread of the ICE agent answers when gathering is done           *)
(* (onIceCandidateHandler).  Both send under signalingSendMessageLock.     *)
(***************************************************************************)
EXTENDS SignalingClient

ASSUME SendersAssumption == {"nobody", "handler"} \cap Sessions = {}

VARIABLES
  offered,               \* the session of the offer that is handled
  step,                  \* how far its handler is
  remoteCanTrickleIce,   \* the field of each session
  ice,                   \* what each session's ICE agent does
  answers,               \* how often each session was answered, up to twice
  gaveUp,                \* history: a call on the way to its answer failed
  sendLock,              \* the owner of signalingSendMessageLock
  sendTo                 \* the client the owner sends with

outcome == <<answers, gaveUp>>
exchangeVars ==
  <<offered, step, remoteCanTrickleIce, ice, outcome, sendLock, sendTo>>

Steps == {"none", "created", "stored", "described", "checked", "sending",
          "handled", "failed"}

\* candidate and answer: about to take the lock.  A session gathers one
\* candidate (bound); then it is gathered.
IceSteps == {"off", "gathering", "candidate", "candidateSending", "gathered",
             "answer", "answerSending", "done"}
InCallback == {"candidate", "candidateSending", "answer", "answerSending"}

Senders == {"nobody", "handler"} \cup Sessions

ExchangeTypeOK ==
  /\ offered \in Sessions \cup {NoSession}
  /\ step \in Steps
  /\ remoteCanTrickleIce \in [Sessions -> BOOLEAN]
  /\ ice \in [Sessions -> IceSteps]
  /\ answers \in [Sessions -> 0 .. 2]
  /\ gaveUp \subseteq Sessions
  /\ sendLock \in Senders
  /\ sendTo \in Clients \cup {NoClient}

ExchangeInit ==
  /\ offered = NoSession
  /\ step = "none"
  /\ remoteCanTrickleIce = [s \in Sessions |-> FALSE]
  /\ ice = [s \in Sessions |-> "off"]
  /\ answers = [s \in Sessions |-> 0]
  /\ gaveUp = {}
  /\ sendLock = "nobody"
  /\ sendTo = NoClient

\* The service takes the answer.
Answered(s) ==
  /\ answers' = [answers EXCEPT ![s] = IF @ = 2 THEN 2 ELSE @ + 1]
  /\ UNCHANGED gaveUp

\* A call fails without which there is no answer, and nobody repeats it.
GiveUp(s) == gaveUp' = gaveUp \cup {s} /\ UNCHANGED answers

\* sendSignalingMessage sends with the client of the handle at that time.
TakeSendLock(sender) ==
  /\ sendLock = "nobody"
  /\ sendLock' = sender
  /\ sendTo' = handle

GiveSendLock(sender) ==
  /\ sendLock = sender
  /\ sendLock' = "nobody"
  /\ sendTo' = NoClient

-----------------------------------------------------------------------------
(* signalingMessageReceived and handleOffer.                               *)

\* A new session, with the ICE servers the client knows.  No message comes before
\* the client was connected.
Offer(s) ==
  /\ LockFree
  /\ HandleValid
  /\ ~ClientIs("new")
  /\ pc \notin StartPlaces
  /\ s \notin Allocated
  /\ objLock' = "handler"
  /\ listed' = listed \cup {s}
  /\ offered' = s
  /\ step' = "created"
  /\ UNCHANGED <<pc, interrupted, freeing, remoteCanTrickleIce, ice, outcome,
                 sendLock, sendTo>>

\* remoteCanTrickleIce is stored before setLocalDescription starts the ICE
\* agent.
\* Mutant: after it.
DescribeEarly(s) ==
  \/ /\ step = "created"
     /\ step' = "stored"
     /\ ice' = [ice EXCEPT ![s] = "gathering"]
     /\ UNCHANGED <<remoteCanTrickleIce, outcome>>
  \/ /\ step = "stored"
     /\ step' = "described"
     /\ \E trickle \in BOOLEAN :
          remoteCanTrickleIce' = [remoteCanTrickleIce EXCEPT ![s] = trickle]
     /\ UNCHANGED <<ice, outcome>>
Describe(s) ==
  \/ /\ step = "created"
     /\ step' = "stored"
     /\ \E trickle \in BOOLEAN :
          remoteCanTrickleIce' = [remoteCanTrickleIce EXCEPT ![s] = trickle]
     /\ UNCHANGED <<ice, outcome>>
  \/ /\ step = "stored"
     /\ step' = "described"
     /\ ice' = [ice EXCEPT ![s] = "gathering"]
     /\ UNCHANGED <<remoteCanTrickleIce, outcome>>

\* The offer cannot be parsed, or setRemoteDescription or setLocalDescription
\* fails; the agent then does not run (external).
DescribeFails(s) ==
  /\ step \in {"created", "stored"}
  /\ step' = "failed"
  /\ GiveUp(s)
  /\ UNCHANGED <<remoteCanTrickleIce, ice>>

\* createAnswer and respondWithAnswer, up to the lock; both may fail, the latter
\* when the answer does not serialize or there is no client.
AnswerNow(s) ==
  /\ step = "described"
  /\ remoteCanTrickleIce[s]
  /\ \/ HandleValid /\ step' = "checked" /\ UNCHANGED outcome
     \/ step' = "failed" /\ GiveUp(s)
  /\ UNCHANGED <<remoteCanTrickleIce, ice, sendLock, sendTo>>

AnswerLater(s) ==
  /\ step = "described"
  /\ ~remoteCanTrickleIce[s]
  /\ step' = "handled"
  /\ UNCHANGED <<remoteCanTrickleIce, ice, outcome, sendLock, sendTo>>

HandlerLocksSend ==
  /\ step = "checked"
  /\ TakeSendLock("handler")
  /\ step' = "sending"
  /\ UNCHANGED <<remoteCanTrickleIce, ice, outcome>>

\* A send that fails ends the handler, and so does a failure of the metrics after
\* it; the session stays in the list.
\* Mutant: it leaves the lock taken.
FailsLocked(s) ==
  /\ step = "sending"
  /\ \/ GiveSendLock("handler") /\ step' = "handled" /\ Answered(s)
     \/ UNCHANGED <<sendLock, sendTo>> /\ step' = "failed" /\ GiveUp(s)
  /\ UNCHANGED <<remoteCanTrickleIce, ice>>
HandlerSent(s) ==
  /\ step = "sending"
  /\ GiveSendLock("handler")
  /\ \/ step' \in {"handled", "failed"} /\ Answered(s)
     \/ step' = "failed" /\ GiveUp(s)
  /\ UNCHANGED <<remoteCanTrickleIce, ice>>

HandleOffer(s) ==
  /\ objLock = "handler"
  /\ offered = s
  /\ \/ Describe(s) /\ UNCHANGED <<sendLock, sendTo>>
     \/ DescribeFails(s) /\ UNCHANGED <<sendLock, sendTo>>
     \/ AnswerNow(s)
     \/ AnswerLater(s)
     \/ HandlerLocksSend
     \/ HandlerSent(s)
  /\ UNCHANGED <<lockVars, offered>>

\* The CleanUp label unlocks too.
\* Mutant: only a handler that succeeds unlocks.
ReachesUnlockOnSuccess == step = "handled"
ReachesUnlock == step \in {"handled", "failed"}

UnlockOffer ==
  /\ objLock = "handler"
  /\ ReachesUnlock
  /\ objLock' = "nobody"
  /\ offered' = NoSession
  /\ step' = "none"
  /\ UNCHANGED <<pc, interrupted, listed, freeing, remoteCanTrickleIce, ice,
                 outcome, sendLock, sendTo>>

-----------------------------------------------------------------------------
(* onIceCandidateHandler and its sendSignalingMessage.                     *)

Move(s, next) == ice' = [ice EXCEPT ![s] = next]

\* A local candidate; without a valid handle it is dropped.
LocalCandidate(s) ==
  /\ ice[s] = "gathering"
  /\ remoteCanTrickleIce[s]
  /\ HandleValid
  /\ Move(s, "candidate")
  /\ UNCHANGED <<outcome, sendLock, sendTo>>

\* Whether the end of the gathering has to answer.
\* Mutant: by the configuration's trickleIce, which main sets.
AnswersByConfiguration(s) == FALSE
AnswersWhenGathered(s) == ~remoteCanTrickleIce[s]

\* Its createAnswer and respondWithAnswer may fail as the handler's may.
GatheringDone(s) ==
  /\ ice[s] \in {"gathering", "gathered"}
  /\ IF AnswersWhenGathered(s)
       THEN \/ HandleValid /\ Move(s, "answer") /\ UNCHANGED outcome
            \/ Move(s, "done") /\ GiveUp(s)
       ELSE Move(s, "done") /\ UNCHANGED outcome
  /\ UNCHANGED <<sendLock, sendTo>>

IceLocksSend(s) ==
  /\ \/ ice[s] = "candidate" /\ Move(s, "candidateSending")
     \/ ice[s] = "answer" /\ Move(s, "answerSending")
  /\ TakeSendLock(s)
  /\ UNCHANGED outcome

\* Whether the client sent it or not, the thread goes on.
IceSent(s) ==
  /\ \/ ice[s] = "candidateSending" /\ Move(s, "gathered") /\ UNCHANGED outcome
     \/ ice[s] = "answerSending" /\ Move(s, "done") /\ (Answered(s) \/ GiveUp(s))
  /\ GiveSendLock(s)

IceAgent(s) ==
  /\ \/ LocalCandidate(s)
     \/ GatheringDone(s)
     \/ IceLocksSend(s)
     \/ IceSent(s)
  /\ UNCHANGED <<lockVars, offered, step, remoteCanTrickleIce>>

-----------------------------------------------------------------------------
\* closePeerConnection waits for the callback that runs and ends the agent;
\* then the memory is freed.
ClosePeerConnections(sessions) ==
  /\ \A s \in sessions : ice[s] \notin InCallback
  /\ ice' = [s \in Sessions |-> IF s \in sessions THEN "off" ELSE ice[s]]
  /\ answers' = [s \in Sessions |-> IF s \in sessions THEN 0 ELSE answers[s]]
  /\ gaveUp' = gaveUp \ sessions
  /\ remoteCanTrickleIce' =
       [s \in Sessions |-> s \notin sessions /\ remoteCanTrickleIce[s]]
  /\ UNCHANGED <<offered, step, sendLock, sendTo>>

=============================================================================
