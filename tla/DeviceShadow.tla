----------------------------- MODULE DeviceShadow -----------------------------
(***************************************************************************)
(* The thread that controls the camera stand through an AWS IoT device     *)
(* shadow.  An application writes the desired section of the shadow; the   *)
(* device gets a delta, moves its servos and writes back both sections.    *)
(* The device also takes values from its console.  Updates the service     *)
(* accepts are echoed, and an echo rewrites the device's local values.     *)
(*                                                                         *)
(* The service and the application are external.  Of the service this      *)
(* module assumes what the handlers rely on: every accepted update is      *)
(* echoed on update/accepted and, when it leaves desired values that are   *)
(* not reported, followed by a delta with all of them.                     *)
(*                                                                         *)
(* C3CameraProducer.cpp holds a second copy of the same code.              *)
(***************************************************************************)
EXTENDS Integers, Sequences

CONSTANTS
  Properties,     \* the names an application writes in the shadow
  Managed,        \* vShadowProprty, of which each drives a servo
  First,          \* the managed property the console sets
  Numbers,        \* the values std::stoi converts, by their number
  Words,          \* the values it throws on
  Absent,         \* no value: JSON null, a missing member, a local ""
  UnsignedRange,  \* 2^32, the range of unsigned int
  MaxRequests,    \* bound: what the application does in one behaviour
  MaxInputs,      \* bound: changes made at the console
  MaxStarts,      \* bound: starts of the program
  Clear,          \* the input "clear_shadow"
  MaxFaults,      \* bound: faults of the connection
  Faults          \* which of them happen

Values == Numbers \cup Words

ASSUME ShadowAssumption ==
  /\ Managed \subseteq Properties
  /\ First \in Managed
  /\ Numbers \subseteq Int
  /\ Numbers \cap Words = {}
  /\ Absent \notin Values /\ Clear \notin Values \cup {Absent}
  /\ UnsignedRange \in Nat /\ UnsignedRange > 360
  /\ {MaxRequests, MaxInputs, MaxStarts, MaxFaults} \subseteq Nat
  /\ Faults \subseteq {"duplicate", "reorder", "reconnect"}

VARIABLES
  desired, reported,  \* the two sections of the shadow document
  toCloud,            \* what the device published and the service has to take
  toDevice,           \* what the service published to the device
  device,             \* "offline", "starting" (waits for the shadow), "ready"
  subscribed,         \* whether the service still knows the subscriptions
  local,              \* currentShadowValue
  servo,              \* the last pulse width sent to each servo
  console,            \* the change the console thread has yet to publish
  requests, inputs, starts, faults

document == <<desired, reported>>
network  == <<toCloud, toDevice>>
program  == <<device, subscribed, local, servo, console>>
bounds   == <<requests, inputs, starts, faults>>
vars     == <<document, network, program, bounds>>

-----------------------------------------------------------------------------
NoPulse == 0
Section == [Properties -> Values \cup {Absent}]
Change  == UNION {[D -> Values \cup {Absent}] : D \in SUBSET Properties}
Nothing == [p \in {} |-> Absent]

Upward   == [kind : {"update", "get"}, desired : Change, reported : Change]
Downward == [topic : {"delta", "update/accepted", "get/accepted", "get/rejected"},
             state : Change]

(* Servo: an angle as s_changeShadowValue computes it, in unsigned int, and *)
(* its pulse width in microseconds.                                         *)

\* Mutant: no upper limit.
UnlimitedAngle(n) == n % UnsignedRange
Angle(n) ==
  LET angle == n % UnsignedRange IN
  IF angle <= 0 THEN 0 ELSE IF angle >= 180 THEN 180 ELSE angle

AngleToPulsewidth(angle) == 500 + (angle * (2500 - 500)) \div 360

Pulse(n) == AngleToPulsewidth(Angle(n))

\* The pulse widths of 0 to 180 degrees.
PulseWidths == {NoPulse} \cup 500 .. 1500

\* Type invariant: no servo is sent a pulse width beyond its range.
TypeOK ==
  /\ desired \in Section
  /\ reported \in Section
  /\ toCloud \in Seq(Upward)
  /\ toDevice \in Seq(Downward)
  /\ device \in {"offline", "starting", "ready"}
  /\ subscribed \in BOOLEAN
  /\ local \in [Managed -> Values \cup {Absent}]
  /\ servo \in [Managed -> PulseWidths]
  /\ console \in Change
  /\ requests \in 0 .. MaxRequests
  /\ inputs \in 0 .. MaxInputs
  /\ starts \in 0 .. MaxStarts
  /\ faults \in 0 .. MaxFaults

Blank == [p \in Managed |-> Absent]
Still == [p \in Managed |-> NoPulse]

\* The application may have written the shadow before the program starts, and
\* an earlier run of the program may have reported what it manages.
Init ==
  /\ desired \in Section
  /\ reported \in {r \in Section : \A p \in Properties :
                     r[p] \in IF p \in Managed THEN Numbers \cup {Absent} ELSE {Absent}}
  /\ toCloud = <<>>
  /\ toDevice = <<>>
  /\ device = "offline"
  /\ subscribed = FALSE
  /\ local = Blank
  /\ servo = Still
  /\ console = Nothing
  /\ requests = 0 /\ inputs = 0 /\ starts = 0 /\ faults = 0

-----------------------------------------------------------------------------
(* The shadow service.                                                     *)

Merge(section, change) ==
  [p \in Properties |-> IF p \in DOMAIN change THEN change[p] ELSE section[p]]

Present(section) ==
  [p \in {q \in Properties : section[q] # Absent} |-> section[p]]

Difference(d, r) ==
  [p \in {q \in Properties : d[q] # Absent /\ d[q] # r[q]} |-> d[p]]

Delta(d, r) ==
  IF Difference(d, r) = Nothing THEN <<>>
  ELSE <<[topic |-> "delta", state |-> Difference(d, r)]>>

\* What the service publishes reaches the device while it is subscribed.
Publish(messages) ==
  toDevice' = IF subscribed THEN toDevice \o messages ELSE toDevice

\* An update is accepted; echo is its reported section.
Accept(newDesired, newReported, echo) ==
  /\ desired' = newDesired
  /\ reported' = newReported
  /\ Publish(<<[topic |-> "update/accepted", state |-> echo]>>
             \o Delta(newDesired, newReported))

AcceptUpdate ==
  /\ toCloud # <<>>
  /\ Head(toCloud).kind = "update"
  /\ LET update == Head(toCloud) IN
       Accept(Merge(desired, update.desired), Merge(reported, update.reported),
              update.reported)
  /\ toCloud' = Tail(toCloud)
  /\ UNCHANGED <<program, bounds>>

\* The reply to a get goes to everyone who subscribed.  A shadow without any
\* property may exist or not.
Replies ==
  {[topic |-> "get/accepted", state |-> Present(reported)]}
    \cup IF Present(desired) = Nothing /\ Present(reported) = Nothing
           THEN {[topic |-> "get/rejected", state |-> Nothing]} ELSE {}

AnswerGet ==
  /\ toCloud # <<>>
  /\ Head(toCloud).kind = "get"
  /\ \E reply \in Replies : Publish(<<reply>>)
  /\ toCloud' = Tail(toCloud)
  /\ UNCHANGED <<document, program, bounds>>

-----------------------------------------------------------------------------
(* The application.                                                        *)

Request(p, v) ==
  /\ requests < MaxRequests
  /\ requests' = requests + 1
  /\ Accept([desired EXCEPT ![p] = v], reported, Nothing)
  /\ UNCHANGED <<toCloud, program, inputs, starts, faults>>

\* A get of its own, on the topics the device is subscribed to.
RequestGet ==
  /\ requests < MaxRequests
  /\ requests' = requests + 1
  /\ \E reply \in Replies : Publish(<<reply>>)
  /\ UNCHANGED <<document, toCloud, program, inputs, starts, faults>>

-----------------------------------------------------------------------------
(* The device: starting and stopping.                                      *)

Subscribe ==
  /\ device' = "starting"
  /\ subscribed' = TRUE

AskForShadow ==
  toCloud' = Append(toCloud, [kind |-> "get", desired |-> Nothing, reported |-> Nothing])

\* Connected and subscribed to everything, the thread asks for the shadow and
\* waits on gotInitialShadowPromise.
Start ==
  /\ device = "offline"
  /\ starts < MaxStarts
  /\ starts' = starts + 1
  /\ Subscribe
  /\ AskForShadow
  /\ UNCHANGED <<document, toDevice, local, servo, console,
                 requests, inputs, faults>>

\* The program ends: "exit" at the console, a kill, or an exception nobody
\* catches.  Of published, some last messages may be lost on their way.
Terminate(published) ==
  /\ \E n \in 0 .. Len(published) : toCloud' = SubSeq(published, 1, n)
  /\ device' = "offline"
  /\ subscribed' = FALSE
  /\ local' = Blank
  /\ servo' = Still
  /\ console' = Nothing

Crash ==
  /\ device # "offline"
  /\ Terminate(toCloud)
  /\ toDevice' = <<>>
  /\ UNCHANGED <<document, bounds>>

-----------------------------------------------------------------------------
(* s_changeShadowValue.                                                    *)

\* std::stoi throws on a value that is not a number.
Throws(change) == \E p \in DOMAIN change : change[p] \in Words

\* Mutant: a servo is set once.
MoveServosOnce(change) ==
  servo' = [p \in Managed |->
              IF p \in DOMAIN change /\ change[p] \in Numbers /\ servo[p] = NoPulse
                THEN Pulse(change[p]) ELSE servo[p]]
MoveServos(change) ==
  servo' = [p \in Managed |->
              IF p \in DOMAIN change /\ change[p] \in Numbers
                THEN Pulse(change[p]) ELSE servo[p]]

\* The update that writes a change to both sections.
\* Mutant: it is only desired.
DesiredOnly(change) ==
  [kind |-> "update", desired |-> change, reported |-> Nothing]
Update(change) ==
  [kind |-> "update", desired |-> change, reported |-> change]

ChangeShadowValue(change) ==
  IF Throws(change) THEN Terminate(toCloud)
  ELSE /\ MoveServos(change)
       /\ toCloud' = Append(toCloud, Update(change))
       /\ UNCHANGED <<device, subscribed, local, console>>

-----------------------------------------------------------------------------
(* The device: the subscription handlers, which the SDK calls one by one.  *)

\* The properties a handler finds in a message.
Matched(message) == DOMAIN message.state \cap Managed

\* onDeltaUpdated.  With no property found processShadow is not initialized:
\* an update without properties is published, or nothing.
DeltaUpdated(message) ==
  /\ message.topic = "delta"
  /\ \/ ChangeShadowValue([p \in Matched(message) |-> message.state[p]])
     \/ Matched(message) = {} /\ UNCHANGED <<toCloud, program>>

\* onUpdateShadowAccepted: what the echo does not report becomes "".
\* Mutant: the echo is only logged.
EchoIgnored(message) == local
EchoedLocal(message) ==
  [p \in Managed |-> IF p \in Matched(message) THEN message.state[p] ELSE Absent]

UpdateShadowAccepted(message) ==
  /\ message.topic = "update/accepted"
  /\ local' = EchoedLocal(message)
  /\ UNCHANGED <<toCloud, device, subscribed, servo, console>>

\* onGetShadowAccepted and onGetShadowRejected end the wait; a second time,
\* the promise throws.
EndWait == device = "starting" /\ device' = "ready"

\* The handler publishes an update without properties and moves no servo; with
\* no property found processShadow is not initialized here either.
\* Mutant: it publishes nothing.
NothingPublished(message) == {toCloud}
PublishedAfterGet(message) ==
  {Append(toCloud, Update(Nothing))}
    \cup IF Matched(message) = {} THEN {toCloud} ELSE {}

\* The reported section is read without a test that there is one.
GetShadowAccepted(message) ==
  /\ message.topic = "get/accepted"
  /\ \/ message.state = Nothing /\ Terminate(toCloud)
     \/ /\ message.state # Nothing
        /\ \E published \in PublishedAfterGet(message) :
             \/ /\ EndWait
                /\ toCloud' = published
                /\ local' = [p \in Managed |-> IF p \in Matched(message)
                                                 THEN message.state[p] ELSE local[p]]
                /\ UNCHANGED <<subscribed, servo, console>>
             \/ device = "ready" /\ Terminate(published)

\* Mutant: the promise is not kept.
RejectionLogged(message) ==
  message.topic = "get/rejected" /\ UNCHANGED <<toCloud, program>>
GetShadowRejected(message) ==
  /\ message.topic = "get/rejected"
  /\ \/ EndWait /\ UNCHANGED <<toCloud, subscribed, local, servo, console>>
     \/ device = "ready" /\ Terminate(toCloud)

\* One message of the connection's event loop.
Receive ==
  /\ toDevice # <<>>
  /\ LET message == Head(toDevice) IN
       \/ DeltaUpdated(message)
       \/ UpdateShadowAccepted(message)
       \/ GetShadowAccepted(message)
       \/ GetShadowRejected(message)
  /\ toDevice' = IF device' = "offline" THEN <<>> ELSE Tail(toDevice)
  /\ UNCHANGED <<document, bounds>>

-----------------------------------------------------------------------------
(* The connection.                                                         *)

Fault(kind) ==
  /\ kind \in Faults
  /\ faults < MaxFaults
  /\ faults' = faults + 1
  /\ UNCHANGED <<document, toCloud, device, local, servo, console,
                 requests, inputs, starts>>

\* QoS 1: a message is delivered twice.
Duplicate ==
  /\ Fault("duplicate")
  /\ \E i \in 1 .. Len(toDevice) :
       toDevice' = SubSeq(toDevice, 1, i) \o SubSeq(toDevice, i, Len(toDevice))
  /\ UNCHANGED subscribed

Overtake ==
  /\ Fault("reorder")
  /\ \E i \in 2 .. Len(toDevice) :
       toDevice' = <<toDevice[i]>> \o SubSeq(toDevice, 1, i - 1)
                                  \o SubSeq(toDevice, i + 1, Len(toDevice))
  /\ UNCHANGED subscribed

\* The connection breaks and the SDK makes it anew.  The session is a clean
\* one and nothing subscribes again.
Reconnect ==
  /\ Fault("reconnect")
  /\ subscribed
  /\ subscribed' = FALSE
  /\ toDevice' = <<>>

-----------------------------------------------------------------------------
(* The device: the console loop, in a thread of its own.  A value equal to *)
(* the local one changes nothing.  "null" removes the property and         *)
(* "clear_shadow" everything; neither moves a servo.                       *)

ChangeOf(input) ==
  IF input = Clear THEN [p \in Properties |-> Absent]
                   ELSE [p \in {First} |-> input]

\* s_changeShadowValue up to its publish, which the other thread may overtake.
Input(input) ==
  /\ device = "ready"
  /\ console = Nothing
  /\ inputs < MaxInputs
  /\ input \in Values => input # local[First]
  /\ inputs' = inputs + 1
  /\ IF Throws(ChangeOf(input))
       THEN Terminate(toCloud) /\ toDevice' = <<>>
       ELSE /\ MoveServos(ChangeOf(input))
            /\ console' = ChangeOf(input)
            /\ UNCHANGED <<network, device, subscribed, local>>
  /\ UNCHANGED <<document, requests, starts, faults>>

PublishInput ==
  /\ console # Nothing
  /\ toCloud' = Append(toCloud, Update(console))
  /\ console' = Nothing
  /\ UNCHANGED <<document, toDevice, device, subscribed, local, servo, bounds>>

-----------------------------------------------------------------------------
Service == AcceptUpdate \/ AnswerGet

Application ==
  \/ \E p \in Properties, v \in Values \cup {Absent} : Request(p, v)
  \/ RequestGet

Device ==
  \/ Start
  \/ Crash
  \/ Receive
  \/ \E input \in Values \cup {Absent, Clear} : Input(input)
  \/ PublishInput

Next == Service \/ Application \/ Device \/ Duplicate \/ Overtake \/ Reconnect

\* The service answers, and the threads of a running program take what comes.
Fairness == WF_vars(Service) /\ WF_vars(Receive) /\ WF_vars(PublishInput)

Spec == Init /\ [][Next]_vars
FairSpec == Spec /\ Fairness

-----------------------------------------------------------------------------
(* Safety.                                                                 *)

Quiet == device = "ready" /\ subscribed /\ network = <<<<>>, <<>>>> /\ console = Nothing

\* When nothing is on its way to or from a running device, every desired value
\* of a managed property is reported: an old delta handled late, a message
\* handled twice, or a crash between a servo's move and its report leaves no
\* lasting difference, for the update published at the start brings the delta
\* again.
QuietMeansAgreed ==
  Quiet => \A p \in Managed : desired[p] \in {Absent, reported[p]}

\* ... and a servo this run has moved stands where the shadow says.  The console
\* thread moves a servo before it publishes and may be overtaken by a delta in
\* between, so its property is compared only while the console is not used.
ServoAsReported ==
  Quiet => \A p \in Managed :
    (servo[p] # NoPulse /\ reported[p] \in Numbers /\ (p = First => inputs = 0))
      => servo[p] = Pulse(reported[p])

\* ... and the value the console compares its input with is the reported one or
\* none, so no input that would change the shadow is turned down, provided
\* messages come in order.
LocalNotStale ==
  Quiet => \A p \in Managed : local[p] \in {Absent, reported[p]}

\* "Get the current shadow document so we start with the correct value".
StartsWithCorrectValue ==
  (Quiet /\ starts = 1 /\ requests = 0 /\ inputs = 0) => local[First] = reported[First]

-----------------------------------------------------------------------------
(* Liveness.                                                               *)

\* The device answers a delta with an update and the service an update with an
\* echo and perhaps a delta: the exchange comes to an end.
ExchangeEnds == <>[](network = <<<<>>, <<>>>>)

\* gotInitialShadowPromise is kept, or the program ends.
StartCompletes == (device = "starting") ~> (device # "starting")

=============================================================================
