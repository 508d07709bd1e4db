------------------------- MODULE DeviceShadow_proofs -------------------------
(***************************************************************************)
(* Proofs about DeviceShadow, for any properties, values and bounds: what  *)
(* the device and the shadow agree on once nothing is on its way.          *)
(*                                                                         *)
(* Each claim is about a quiet device, and each invariant says of a device *)
(* that is not quiet what is still on its way: an update or a delta that   *)
(* will settle a difference; the last report of a servo, in toCloud; the   *)
(* last message that sets a local value, in toDevice.                      *)
(***************************************************************************)
EXTENDS DeviceShadow, SequenceTheorems, TLAPS

\* Is one of the messages in the set?
Has(messages, M) == \E i \in DOMAIN messages : messages[i] \in M

\* Of the messages in the set M the last is in G; if there is none, the claim
\* about what they found holds.
LastIsGood(messages, M, G, otherwise) ==
  /\ \A i \in DOMAIN messages :
       /\ messages[i] \in M
       /\ \A j \in DOMAIN messages : i < j => messages[j] \notin M
       => messages[i] \in G
  /\ ~Has(messages, M) => otherwise

-----------------------------------------------------------------------------
(* The invariants.                                                         *)

\* The service publishes to nobody but a running device, and one that is not
\* running holds nothing.
ConnectionInv ==
  /\ device = "offline" =>
       ~subscribed /\ local = Blank /\ servo = Still /\ console = Nothing
  /\ ~subscribed => toDevice = <<>>

\* What the device does not manage is never reported, so a reported section
\* that has anything has something the get handler finds.
OwnOnly(change) == \A p \in DOMAIN change \ Managed : change[p] = Absent

Foreign == {u \in Upward : ~OwnOnly(u.reported)}

Unmatched == {m \in Downward : m.topic = "get/accepted" /\ ~(DOMAIN m.state \subseteq Managed)}

OwnInv ==
  /\ OwnOnly(reported)
  /\ OwnOnly(console)
  /\ ~Has(toCloud, Foreign)
  /\ ~Has(toDevice, Unmatched)

\* A difference is settled by an update that brings a new delta, or by a delta
\* the device answers with an update; a device that starts will publish an
\* update unless it is told there is no shadow.
Differs == \E p \in Managed : desired[p] \notin {Absent, reported[p]}

Updates    == {u \in Upward : u.kind = "update"}
Deltas     == {m \in Downward : m.topic = "delta" /\ Matched(m) # {}}
Rejections == {m \in Downward : m.topic = "get/rejected"}

Underway == Has(toCloud, Updates) \/ console # Nothing \/ Has(toDevice, Deltas)

AgreeInv ==
  subscribed /\ Differs =>
    Underway \/ (device = "starting" /\ ~Has(toDevice, Rejections))

\* The last report of a servo on its way is of the servo's position.
Shows(v, width) == v \in Numbers => Pulse(v) = width

Reporting(p)    == {u \in Upward : u.kind = "update" /\ p \in DOMAIN u.reported}
Showing(p, width) ==
  {u \in Upward : p \in DOMAIN u.reported => Shows(u.reported[p], width)}

ServoInv ==
  \A p \in Managed : servo[p] # NoPulse /\ (p = First => inputs = 0) =>
    LastIsGood(toCloud, Reporting(p), Showing(p, servo[p]),
               Shows(reported[p], servo[p]))

\* The console has no value but for its property.
ConsoleInv ==
  /\ \A p \in Managed \ {First} : p \in DOMAIN console => console[p] = Absent
  /\ inputs = 0 => console = Nothing

\* The last message that sets a local value brings the reported one or none.
Setting(p)  == {m \in Downward : \/ m.topic = "update/accepted"
                                 \/ m.topic = "get/accepted" /\ p \in DOMAIN m.state}
Fresh(p, v) == {m \in Downward : p \in DOMAIN m.state => m.state[p] \in {Absent, v}}

LocalInv ==
  subscribed => \A p \in Managed :
    LastIsGood(toDevice, Setting(p), Fresh(p, reported[p]),
               local[p] \in {Absent, reported[p]})

-----------------------------------------------------------------------------
(* What becomes of the messages in a channel.                              *)

LEMMA ConcatHas ==
  ASSUME NEW S, NEW s \in Seq(S), NEW t \in Seq(S), NEW M
  PROVE  Has(s \o t, M) <=> Has(s, M) \/ Has(t, M)
<1>1. /\ DOMAIN s = 1 .. Len(s) /\ Len(s) \in Nat
      /\ DOMAIN t = 1 .. Len(t) /\ Len(t) \in Nat
      /\ DOMAIN (s \o t) = 1 .. Len(s) + Len(t)
      /\ \A i \in 1 .. Len(s) + Len(t) :
           (s \o t)[i] = IF i <= Len(s) THEN s[i] ELSE t[i - Len(s)]
  BY LenProperties, ConcatProperties
<1> DEFINE both == s \o t
<1>2. ASSUME NEW i \in DOMAIN s PROVE i \in DOMAIN both /\ both[i] = s[i]
  BY <1>1
<1>3. ASSUME NEW i \in DOMAIN t
      PROVE  Len(s) + i \in DOMAIN both /\ both[Len(s) + i] = t[i]
  <2>1. /\ Len(s) + i \in 1 .. Len(s) + Len(t)
        /\ ~(Len(s) + i <= Len(s)) /\ Len(s) + i - Len(s) = i
    BY <1>1
  <2> QED
    BY <1>1, <2>1
<1>4. ASSUME NEW i \in DOMAIN both
      PROVE  \/ i \in DOMAIN s /\ both[i] = s[i]
             \/ i - Len(s) \in DOMAIN t /\ both[i] = t[i - Len(s)]
  BY <1>1
<1> HIDE DEF both
<1>5. Has(both, M) <=> Has(s, M) \/ Has(t, M)
  BY <1>2, <1>3, <1>4 DEF Has
<1> QED
  BY <1>5 DEF both

LEMMA AppendHas ==
  ASSUME NEW S, NEW s \in Seq(S), NEW m \in S, NEW M
  PROVE  Has(Append(s, m), M) <=> Has(s, M) \/ m \in M
<1>1. /\ DOMAIN s = 1 .. Len(s) /\ Len(s) \in Nat
      /\ DOMAIN Append(s, m) = 1 .. Len(s) + 1
      /\ \A i \in 1 .. Len(s) : Append(s, m)[i] = s[i]
      /\ Append(s, m)[Len(s) + 1] = m
  BY LenProperties, AppendProperties
<1> DEFINE longer == Append(s, m)
<1>2. \A i \in DOMAIN s : i \in DOMAIN longer /\ longer[i] = s[i]
  BY <1>1
<1>3. Len(s) + 1 \in DOMAIN longer /\ longer[Len(s) + 1] = m
  BY <1>1
<1>4. \A i \in DOMAIN longer : i \in DOMAIN s \/ i = Len(s) + 1
  BY <1>1
<1> HIDE DEF longer
<1>5. Has(longer, M) <=> Has(s, M) \/ m \in M
  BY <1>2, <1>3, <1>4 DEF Has
<1> QED
  BY <1>5 DEF longer

LEMMA TailHas ==
  ASSUME NEW S, NEW s \in Seq(S), s # <<>>, NEW M
  PROVE  Has(s, M) <=> Head(s) \in M \/ Has(Tail(s), M)
<1>1. /\ DOMAIN s = 1 .. Len(s) /\ Len(s) \in Nat
      /\ DOMAIN Tail(s) = 1 .. Len(s) - 1
      /\ \A i \in 1 .. Len(s) - 1 : Tail(s)[i] = s[i + 1]
      /\ 1 \in DOMAIN s /\ Head(s) = s[1]
  BY LenProperties, HeadTailProperties, EmptySeq
<1>2. \A i \in DOMAIN Tail(s) : i + 1 \in DOMAIN s /\ Tail(s)[i] = s[i + 1]
  BY <1>1
<1>3. \A i \in DOMAIN s : i = 1 \/ (i - 1 \in DOMAIN Tail(s) /\ Tail(s)[i - 1] = s[i])
  BY <1>1
<1> QED
  BY <1>1, <1>2, <1>3 DEF Has

LEMMA PrefixHas ==
  ASSUME NEW S, NEW s \in Seq(S), NEW n \in 0 .. Len(s), NEW M,
         Has(SubSeq(s, 1, n), M)
  PROVE  Has(s, M)
<1>1. /\ DOMAIN s = 1 .. Len(s) /\ Len(s) \in Nat
      /\ \A i \in 1 .. n : s[i] \in S
  BY LenProperties
<1>2. /\ DOMAIN SubSeq(s, 1, n) = 1 .. n
      /\ \A i \in 1 .. n : i \in DOMAIN s /\ SubSeq(s, 1, n)[i] = s[i]
  BY <1>1, SubSeqProperties, LenProperties
<1> QED
  BY <1>2 DEF Has

\* The i-th message twice.
LEMMA DuplicateSeq ==
  ASSUME NEW S, NEW s \in Seq(S), NEW i \in 1 .. Len(s)
  PROVE  LET twice == SubSeq(s, 1, i) \o SubSeq(s, i, Len(s)) IN
         /\ twice \in Seq(S)
         /\ DOMAIN twice = 1 .. Len(s) + 1
         /\ \A k \in 1 .. Len(s) + 1 : twice[k] = IF k <= i THEN s[k] ELSE s[k - 1]
<1>1. /\ DOMAIN s = 1 .. Len(s) /\ Len(s) \in Nat
      /\ \A k \in 1 .. Len(s) : s[k] \in S
  BY LenProperties
<1>2. /\ SubSeq(s, 1, i) \in Seq(S) /\ Len(SubSeq(s, 1, i)) = i
      /\ \A k \in 1 .. i : SubSeq(s, 1, i)[k] = s[k]
  BY <1>1, SubSeqProperties
<1>3. /\ SubSeq(s, i, Len(s)) \in Seq(S)
      /\ Len(SubSeq(s, i, Len(s))) = Len(s) - i + 1
      /\ \A k \in 1 .. Len(s) - i + 1 : SubSeq(s, i, Len(s))[k] = s[i + k - 1]
  BY <1>1, SubSeqProperties
<1> DEFINE first == SubSeq(s, 1, i)
           second == SubSeq(s, i, Len(s))
<1> HIDE DEF first, second
<1>4. /\ first \o second \in Seq(S)
      /\ Len(first \o second) = Len(s) + 1
      /\ DOMAIN (first \o second) = 1 .. Len(s) + 1
      /\ \A k \in 1 .. Len(s) + 1 :
           (first \o second)[k] = IF k <= i THEN first[k] ELSE second[k - i]
  <2>1. first \in Seq(S) /\ second \in Seq(S) /\ Len(first) = i /\ Len(second) = Len(s) - i + 1
    BY <1>2, <1>3 DEF first, second
  <2>2. Len(first) + Len(second) = Len(s) + 1
    BY <1>1, <2>1
  <2>3. /\ first \o second \in Seq(S)
        /\ Len(first \o second) = Len(first) + Len(second)
        /\ \A k \in 1 .. Len(first) + Len(second) :
             (first \o second)[k] = IF k <= Len(first) THEN first[k]
                                                      ELSE second[k - Len(first)]
    BY <2>1, ConcatProperties
  <2>4. DOMAIN (first \o second) = 1 .. Len(first \o second)
    BY <2>3, LenProperties
  <2> QED
    BY <2>1, <2>2, <2>3, <2>4
<1>5. \A k \in 1 .. Len(s) + 1 : k <= i => first[k] = s[k]
  BY <1>1, <1>2 DEF first
<1>6. ASSUME NEW k \in 1 .. Len(s) + 1, ~(k <= i) PROVE second[k - i] = s[k - 1]
  <2>1. k - i \in 1 .. Len(s) - i + 1 /\ i + (k - i) - 1 = k - 1
    BY <1>1, <1>6
  <2> QED
    BY <1>3, <2>1 DEF second
<1>7. \A k \in 1 .. Len(s) + 1 :
        (first \o second)[k] = IF k <= i THEN s[k] ELSE s[k - 1]
  BY <1>4, <1>5, <1>6
<1> QED
  BY <1>4, <1>7 DEF first, second

LEMMA DuplicateHas ==
  ASSUME NEW S, NEW s \in Seq(S), NEW i \in 1 .. Len(s), NEW M
  PROVE  Has(SubSeq(s, 1, i) \o SubSeq(s, i, Len(s)), M) <=> Has(s, M)
<1> DEFINE twice == SubSeq(s, 1, i) \o SubSeq(s, i, Len(s))
<1>1. /\ DOMAIN twice = 1 .. Len(s) + 1
      /\ \A k \in 1 .. Len(s) + 1 : twice[k] = IF k <= i THEN s[k] ELSE s[k - 1]
  BY DuplicateSeq
<1>2. DOMAIN s = 1 .. Len(s) /\ Len(s) \in Nat
  BY LenProperties
<1> HIDE DEF twice
<1>3. \A k \in DOMAIN s :
        \/ k \in DOMAIN twice /\ twice[k] = s[k]
        \/ k + 1 \in DOMAIN twice /\ twice[k + 1] = s[k]
  BY <1>1, <1>2
<1>4. \A k \in DOMAIN twice :
        \/ k \in DOMAIN s /\ twice[k] = s[k]
        \/ k - 1 \in DOMAIN s /\ twice[k] = s[k - 1]
  BY <1>1, <1>2
<1>5. Has(twice, M) <=> Has(s, M)
  BY <1>3, <1>4 DEF Has
<1> QED
  BY <1>5 DEF twice

\* The i-th message first.
LEMMA OvertakeHas ==
  ASSUME NEW S, NEW s \in Seq(S), NEW i \in 2 .. Len(s), NEW M
  PROVE  LET other == <<s[i]>> \o SubSeq(s, 1, i - 1) \o SubSeq(s, i + 1, Len(s)) IN
         other \in Seq(S) /\ (Has(other, M) <=> Has(s, M))
<1>1. /\ DOMAIN s = 1 .. Len(s) /\ Len(s) \in Nat
      /\ \A k \in 1 .. Len(s) : s[k] \in S
  BY LenProperties
<1> DEFINE first == SubSeq(s, 1, i - 1)
           second == SubSeq(s, i + 1, Len(s))
<1>2. /\ first \in Seq(S) /\ Len(first) = i - 1
      /\ \A k \in 1 .. i - 1 : first[k] = s[k]
  BY <1>1, SubSeqProperties
<1>3. /\ second \in Seq(S)
      /\ Len(second) = Len(s) - i
      /\ \A k \in 1 .. Len(s) - i : second[k] = s[i + k]
  <2>1. \A k \in i + 1 .. Len(s) : s[k] \in S
    BY <1>1
  <2>2. /\ second \in Seq(S)
        /\ Len(second) = IF i + 1 <= Len(s) THEN Len(s) - (i + 1) + 1 ELSE 0
        /\ \A k \in 1 .. Len(s) - (i + 1) + 1 : second[k] = s[(i + 1) + k - 1]
    BY <1>1, <2>1, SubSeqProperties
  <2>3. /\ i + 1 <= Len(s) => Len(s) - (i + 1) + 1 = Len(s) - i
        /\ ~(i + 1 <= Len(s)) => Len(s) - i = 0
    <3>1. Len(s) \in Nat /\ i \in Nat /\ i <= Len(s)
      BY <1>1
    <3> QED
      BY <3>1
  <2>4. \A k \in 1 .. Len(s) - i : /\ k \in 1 .. Len(s) - (i + 1) + 1
                                  /\ (i + 1) + k - 1 = i + k
    BY <1>1
  <2> HIDE DEF second
  <2> QED
    BY <2>2, <2>3, <2>4
<1> HIDE DEF first, second
<1>4. <<s[i]>> \in Seq(S) /\ (Has(<<s[i]>>, M) <=> s[i] \in M)
  BY <1>1 DEF Has
<1>5. <<s[i]>> \o first \in Seq(S) /\ <<s[i]>> \o first \o second \in Seq(S)
  BY <1>2, <1>3, <1>4, ConcatProperties
<1>6. Has(<<s[i]>> \o first \o second, M) <=> s[i] \in M \/ Has(first, M) \/ Has(second, M)
  <2>1. Has(<<s[i]>> \o first, M) <=> s[i] \in M \/ Has(first, M)
    BY <1>2, <1>4, ConcatHas
  <2>2. Has(<<s[i]>> \o first \o second, M) <=> Has(<<s[i]>> \o first, M) \/ Has(second, M)
    BY <1>3, <1>5, ConcatHas
  <2> QED
    BY <2>1, <2>2
<1>7. DOMAIN first = 1 .. i - 1 /\ DOMAIN second = 1 .. Len(s) - i
  BY <1>2, <1>3, LenProperties
<1>8. Has(s, M) => s[i] \in M \/ Has(first, M) \/ Has(second, M)
  <2> SUFFICES ASSUME NEW k \in DOMAIN s, s[k] \in M
               PROVE  s[i] \in M \/ Has(first, M) \/ Has(second, M)
    BY DEF Has
  <2>1. CASE k = i
    BY <2>1
  <2>2. CASE k < i
    <3>1. k \in DOMAIN first /\ first[k] = s[k]
      BY <1>1, <1>2, <1>7, <2>2
    <3> QED
      BY <3>1 DEF Has
  <2>3. CASE i < k
    <3>1. k - i \in 1 .. Len(s) - i /\ i + (k - i) = k
      BY <1>1, <2>3
    <3>2. k - i \in DOMAIN second /\ second[k - i] = s[k]
      BY <1>3, <1>7, <3>1
    <3> QED
      BY <3>2 DEF Has
  <2> QED
    BY <1>1, <2>1, <2>2, <2>3
<1>9. s[i] \in M \/ Has(first, M) \/ Has(second, M) => Has(s, M)
  <2>1. i \in DOMAIN s
    BY <1>1
  <2>2. \A k \in DOMAIN first : k \in DOMAIN s /\ first[k] = s[k]
    BY <1>1, <1>2, <1>7
  <2>3. \A k \in DOMAIN second : i + k \in DOMAIN s /\ second[k] = s[i + k]
    BY <1>1, <1>3, <1>7
  <2> QED
    BY <2>1, <2>2, <2>3 DEF Has
<1> QED
  BY <1>5, <1>6, <1>8, <1>9 DEF first, second

-----------------------------------------------------------------------------
(* Typing, in the parts that a step changes together.                      *)

LocalType == [Managed -> Values \cup {Absent}]
ServoType == [Managed -> PulseWidths]

DocumentOK == desired \in Section /\ reported \in Section
NetworkOK  == toCloud \in Seq(Upward) /\ toDevice \in Seq(Downward)
ProgramOK  ==
  /\ device \in {"offline", "starting", "ready"}
  /\ subscribed \in BOOLEAN
  /\ local \in LocalType
  /\ servo \in ServoType
  /\ console \in Change
BoundsOK ==
  /\ requests \in 0 .. MaxRequests
  /\ inputs \in 0 .. MaxInputs
  /\ starts \in 0 .. MaxStarts
  /\ faults \in 0 .. MaxFaults

LEMMA TypeParts ==
  /\ TypeOK <=> DocumentOK /\ NetworkOK /\ ProgramOK /\ BoundsOK
  /\ TypeOK' <=> DocumentOK' /\ NetworkOK' /\ ProgramOK' /\ BoundsOK'
  BY DEF TypeOK, DocumentOK, NetworkOK, ProgramOK, BoundsOK, LocalType, ServoType

\* Whatever number an application writes, the servo gets 0 to 180 degrees.
LEMMA PulseType ==
  ASSUME NEW n \in Int
  PROVE  Pulse(n) \in 500 .. 1500
<1> DEFINE angle == Angle(n)
<1>1. n % UnsignedRange \in Int
  BY ShadowAssumption
<1>2. angle \in 0 .. 180
  BY <1>1 DEF Angle
<1> HIDE DEF angle
<1>3. AngleToPulsewidth(angle) \in 500 .. 1500
  BY <1>2 DEF AngleToPulsewidth
<1> QED
  BY <1>3 DEF Pulse, angle

LEMMA ChangeType ==
  \A f : f \in Change <=> /\ DOMAIN f \subseteq Properties
                          /\ f \in [DOMAIN f -> Values \cup {Absent}]
<1> SUFFICES ASSUME NEW f
             PROVE  f \in Change <=> /\ DOMAIN f \subseteq Properties
                                     /\ f \in [DOMAIN f -> Values \cup {Absent}]
  OBVIOUS
<1>1. f \in Change <=> \E D \in SUBSET Properties : f \in [D -> Values \cup {Absent}]
  BY DEF Change
<1> QED
  BY <1>1

\* The empty change is one, and the only one without a property.
LEMMA NothingType ==
  /\ Nothing \in Change
  /\ DOMAIN Nothing = {}
  /\ \A f \in Change : DOMAIN f = {} => f = Nothing
<1>1. DOMAIN Nothing = {}
  BY DEF Nothing
<1>2. ASSUME NEW f \in Change, DOMAIN f = {} PROVE f = Nothing
  BY <1>1, <1>2, ChangeType DEF Nothing
<1>3. Nothing \in Change
  BY <1>1, ChangeType DEF Nothing
<1> QED
  BY <1>1, <1>2, <1>3

\* What the service publishes for an update or a request.
LEMMA AcceptedType ==
  ASSUME NEW d \in Section, NEW r \in Section, NEW echo \in Change
  PROVE  /\ [topic |-> "update/accepted", state |-> echo] \in Downward
         /\ <<[topic |-> "update/accepted", state |-> echo]>> \in Seq(Downward)
         /\ Difference(d, r) \in Change
         /\ [topic |-> "delta", state |-> Difference(d, r)] \in Downward
         /\ Delta(d, r) \in Seq(Downward)
<1>1. Difference(d, r) \in Change
  BY ChangeType DEF Section, Difference
<1>2. /\ [topic |-> "update/accepted", state |-> echo] \in Downward
      /\ [topic |-> "delta", state |-> Difference(d, r)] \in Downward
  BY <1>1 DEF Downward
<1>3. Delta(d, r) \in Seq(Downward)
  BY <1>2 DEF Delta
<1> QED
  BY <1>1, <1>2, <1>3

LEMMA PublishType ==
  ASSUME NetworkOK, NEW messages \in Seq(Downward), Publish(messages)
  PROVE  toDevice' \in Seq(Downward)
  BY ConcatProperties DEF NetworkOK, Publish

LEMMA AcceptType ==
  ASSUME NetworkOK, NEW d \in Section, NEW r \in Section, NEW echo \in Change,
         Accept(d, r, echo)
  PROVE  DocumentOK' /\ toDevice' \in Seq(Downward)
<1>1. <<[topic |-> "update/accepted", state |-> echo]>> \o Delta(d, r) \in Seq(Downward)
  BY AcceptedType, ConcatProperties
<1> QED
  BY <1>1, PublishType DEF Accept, DocumentOK

LEMMA MergeType ==
  ASSUME NEW section \in Section, NEW change \in Change
  PROVE  Merge(section, change) \in Section
  BY ChangeType DEF Merge, Section

LEMMA RepliesType == DocumentOK => Replies \subseteq Downward
<1> SUFFICES ASSUME DocumentOK PROVE Replies \subseteq Downward
  OBVIOUS
<1> DEFINE state == Present(reported)
<1>1. state \in Change
  <2>1. /\ DOMAIN state \subseteq Properties
        /\ \A p \in DOMAIN state : state[p] \in Values \cup {Absent}
    BY DEF DocumentOK, Section, Present
  <2>2. state = [p \in DOMAIN state |-> state[p]]
    BY DEF Present
  <2> HIDE DEF state
  <2> QED
    BY <2>1, <2>2, ChangeType
<1> HIDE DEF state
<1>2. Replies \subseteq {[topic |-> "get/accepted", state |-> state],
                        [topic |-> "get/rejected", state |-> Nothing]}
  BY DEF Replies, state
<1> QED
  BY <1>1, <1>2, NothingType DEF Downward

LEMMA UpdateType ==
  ASSUME NEW change \in Change
  PROVE  Update(change) \in Upward
  BY DEF Update, Upward

\* The end of a program.
LEMMA TerminateType ==
  ASSUME NEW published \in Seq(Upward), Terminate(published)
  PROVE  toCloud' \in Seq(Upward) /\ ProgramOK'
<1>1. PICK n \in 0 .. Len(published) : toCloud' = SubSeq(published, 1, n)
  BY DEF Terminate
<1>2. /\ Len(published) \in Nat
      /\ \A i \in 1 .. n : published[i] \in Upward
  BY LenProperties
<1>3. toCloud' \in Seq(Upward)
  BY <1>1, <1>2, SubSeqProperties
<1>4. Blank \in LocalType /\ Still \in ServoType
  BY DEF Blank, Still, LocalType, ServoType, PulseWidths
<1> QED
  BY <1>3, <1>4, NothingType DEF Terminate, ProgramOK

LEMMA MoveServosType ==
  ASSUME servo \in ServoType, NEW change, MoveServos(change)
  PROVE  servo' \in ServoType
<1>1. ASSUME NEW v \in Numbers PROVE Pulse(v) \in PulseWidths
  <2>1. v \in Int
    BY ShadowAssumption
  <2>2. Pulse(v) \in 500 .. 1500
    BY <2>1, PulseType
  <2> QED
    BY <2>2 DEF PulseWidths
<1> QED
  BY <1>1 DEF MoveServos, ServoType

LEMMA TypeInit == Init => TypeOK
<1> SUFFICES ASSUME Init PROVE TypeOK
  OBVIOUS
<1>1. DocumentOK /\ NetworkOK
  BY DEF Init, DocumentOK, NetworkOK
<1>2. ProgramOK
  <2>1. Blank \in LocalType /\ Still \in ServoType
    BY DEF Blank, Still, LocalType, ServoType, PulseWidths
  <2> QED
    BY <2>1, NothingType DEF Init, ProgramOK
<1>3. BoundsOK
  BY ShadowAssumption DEF Init, BoundsOK
<1> QED
  BY <1>1, <1>2, <1>3, TypeParts

LEMMA ServiceType ==
  ASSUME TypeOK, Service \/ Application
  PROVE  TypeOK'
<1>1. /\ DocumentOK /\ NetworkOK /\ ProgramOK /\ BoundsOK
      /\ toCloud \in Seq(Upward)
  BY TypeParts DEF NetworkOK
<1>2. CASE AcceptUpdate
  <2> DEFINE update == Head(toCloud)
  <2>1. update \in Upward /\ toCloud' \in Seq(Upward)
    BY <1>1, <1>2, HeadTailProperties DEF AcceptUpdate
  <2>2. update.desired \in Change /\ update.reported \in Change
    BY <2>1 DEF Upward
  <2>3. Accept(Merge(desired, update.desired), Merge(reported, update.reported),
               update.reported)
    BY <1>2 DEF AcceptUpdate
  <2> HIDE DEF update
  <2>4. DocumentOK' /\ toDevice' \in Seq(Downward)
    BY <1>1, <2>2, <2>3, MergeType, AcceptType DEF DocumentOK
  <2>5. ProgramOK' /\ BoundsOK'
    BY <1>1, <1>2 DEF AcceptUpdate, ProgramOK, BoundsOK, program, bounds
  <2> QED
    BY <2>1, <2>4, <2>5, TypeParts DEF NetworkOK
<1>3. ASSUME \E reply \in Replies : Publish(<<reply>>)
      PROVE  toDevice' \in Seq(Downward)
  <2>1. PICK reply \in Replies : Publish(<<reply>>)
    BY <1>3
  <2>2. <<reply>> \in Seq(Downward)
    BY <1>1, RepliesType
  <2> QED
    BY <1>1, <2>1, <2>2, PublishType
<1>4. CASE AnswerGet
  <2>1. toCloud' \in Seq(Upward)
    BY <1>1, <1>4, HeadTailProperties DEF AnswerGet
  <2>2. DocumentOK' /\ ProgramOK' /\ BoundsOK'
    BY <1>1, <1>4 DEF AnswerGet, DocumentOK, ProgramOK, BoundsOK, document,
                      program, bounds
  <2> QED
    BY <1>3, <1>4, <2>1, <2>2, TypeParts DEF AnswerGet, NetworkOK
<1>5. ASSUME NEW p \in Properties, NEW v \in Values \cup {Absent}, Request(p, v)
      PROVE  TypeOK'
  <2>1. [desired EXCEPT ![p] = v] \in Section
    BY <1>1 DEF DocumentOK, Section
  <2>2. DocumentOK' /\ toDevice' \in Seq(Downward)
    BY <1>1, <1>5, <2>1, NothingType, AcceptType DEF Request, DocumentOK
  <2>3. ProgramOK'
    BY <1>1, <1>5 DEF Request, ProgramOK, program
  <2>4. BoundsOK'
    BY <1>1, <1>5, ShadowAssumption DEF Request, BoundsOK
  <2>5. UNCHANGED toCloud
    BY <1>5 DEF Request
  <2> QED
    BY <1>1, <2>2, <2>3, <2>4, <2>5, TypeParts DEF NetworkOK
<1>6. CASE RequestGet
  <2>1. DocumentOK' /\ ProgramOK'
    BY <1>1, <1>6 DEF RequestGet, DocumentOK, ProgramOK, document, program
  <2>2. BoundsOK'
    BY <1>1, <1>6, ShadowAssumption DEF RequestGet, BoundsOK
  <2>3. UNCHANGED toCloud /\ toDevice' \in Seq(Downward)
    BY <1>3, <1>6 DEF RequestGet
  <2> QED
    BY <1>1, <2>1, <2>2, <2>3, TypeParts DEF NetworkOK
<1> QED
  BY <1>2, <1>4, <1>5, <1>6 DEF Service, Application

\* What a handler does to the program and to what it publishes.
LEMMA HandlerType ==
  ASSUME toCloud \in Seq(Upward), ProgramOK, NEW message \in Downward,
         \/ DeltaUpdated(message)
         \/ UpdateShadowAccepted(message)
         \/ GetShadowAccepted(message)
         \/ GetShadowRejected(message)
  PROVE  toCloud' \in Seq(Upward) /\ ProgramOK'
<1>1. message.state \in Change
  BY DEF Downward
<1>2. /\ \A p \in Matched(message) : message.state[p] \in Values \cup {Absent}
      /\ Matched(message) \subseteq Properties
  BY <1>1, ChangeType DEF Matched
<1>3. CASE DeltaUpdated(message)
  <2> DEFINE change == [p \in Matched(message) |-> message.state[p]]
  <2>1. change \in Change
    BY <1>2, ChangeType
  <2>2. Append(toCloud, Update(change)) \in Seq(Upward)
    BY <2>1, UpdateType, AppendProperties
  <2>3. ChangeShadowValue(change) \/ UNCHANGED <<toCloud, program>>
    BY <1>3 DEF DeltaUpdated
  <2> HIDE DEF change
  <2>4. CASE ChangeShadowValue(change) /\ ~Throws(change)
    BY <2>2, <2>4, MoveServosType DEF ChangeShadowValue, ProgramOK
  <2>5. CASE ChangeShadowValue(change) /\ Throws(change)
    BY <2>5, TerminateType DEF ChangeShadowValue
  <2>6. CASE UNCHANGED <<toCloud, program>>
    BY <2>6 DEF program, ProgramOK
  <2> QED
    BY <2>3, <2>4, <2>5, <2>6
<1>4. CASE UpdateShadowAccepted(message)
  <2>1. EchoedLocal(message) \in LocalType
    BY <1>2 DEF EchoedLocal, LocalType
  <2> QED
    BY <1>4, <2>1 DEF UpdateShadowAccepted, ProgramOK
<1>5. CASE GetShadowAccepted(message)
  <2>1. ASSUME NEW published \in PublishedAfterGet(message)
        PROVE  published \in Seq(Upward)
    BY UpdateType, NothingType, AppendProperties DEF PublishedAfterGet
  <2>2. CASE \E published \in PublishedAfterGet(message) \cup {toCloud} :
               Terminate(published)
    BY <2>1, <2>2, TerminateType
  <2>3. ASSUME NEW published \in PublishedAfterGet(message),
               EndWait, toCloud' = published,
               local' = [p \in Managed |-> IF p \in Matched(message)
                                              THEN message.state[p] ELSE local[p]],
               UNCHANGED <<subscribed, servo, console>>
        PROVE  toCloud' \in Seq(Upward) /\ ProgramOK'
    <3>1. local' \in LocalType
      BY <1>2, <2>3 DEF LocalType, ProgramOK
    <3> QED
      BY <2>1, <2>3, <3>1 DEF EndWait, ProgramOK
  <2> QED
    BY <1>5, <2>2, <2>3 DEF GetShadowAccepted
<1>6. CASE GetShadowRejected(message)
  <2>1. CASE Terminate(toCloud)
    BY <2>1, TerminateType
  <2>2. CASE EndWait /\ UNCHANGED <<toCloud, subscribed, local, servo, console>>
    BY <2>2 DEF EndWait, ProgramOK
  <2> QED
    BY <1>6, <2>1, <2>2 DEF GetShadowRejected
<1> QED
  BY <1>3, <1>4, <1>5, <1>6

LEMMA DeviceType ==
  ASSUME TypeOK, Device
  PROVE  TypeOK'
<1> USE DEF document, bounds
<1>1. /\ DocumentOK /\ NetworkOK /\ ProgramOK /\ BoundsOK
      /\ toCloud \in Seq(Upward) /\ toDevice \in Seq(Downward)
      /\ <<>> \in Seq(Downward)
  BY TypeParts DEF NetworkOK
<1>2. DocumentOK'
  BY <1>1 DEF Device, Start, Crash, Receive, Input, PublishInput, DocumentOK
<1>3. CASE Start
  <2>1. [kind |-> "get", desired |-> Nothing, reported |-> Nothing] \in Upward
    BY NothingType DEF Upward
  <2>2. toCloud' \in Seq(Upward)
    BY <1>1, <1>3, <2>1, AppendProperties DEF Start, AskForShadow
  <2>3. ProgramOK'
    BY <1>1, <1>3 DEF Start, Subscribe, ProgramOK
  <2>4. BoundsOK'
    BY <1>1, <1>3, ShadowAssumption DEF Start, BoundsOK
  <2>5. UNCHANGED toDevice
    BY <1>3 DEF Start
  <2> QED
    BY <1>1, <1>2, <2>2, <2>3, <2>4, <2>5, TypeParts DEF NetworkOK
<1>4. CASE Crash
  <2>1. toCloud' \in Seq(Upward) /\ ProgramOK'
    BY <1>1, <1>4, TerminateType DEF Crash
  <2>2. BoundsOK' /\ toDevice' = <<>>
    BY <1>1, <1>4 DEF Crash, BoundsOK
  <2> QED
    BY <1>1, <1>2, <2>1, <2>2, TypeParts DEF NetworkOK
<1>5. CASE Receive
  <2> DEFINE message == Head(toDevice)
  <2>1. message \in Downward /\ Tail(toDevice) \in Seq(Downward)
    BY <1>1, <1>5, HeadTailProperties DEF Receive
  <2>2. \/ DeltaUpdated(message) \/ UpdateShadowAccepted(message)
        \/ GetShadowAccepted(message) \/ GetShadowRejected(message)
    BY <1>5 DEF Receive
  <2> HIDE DEF message
  <2>3. toCloud' \in Seq(Upward) /\ ProgramOK'
    BY <1>1, <2>1, <2>2, HandlerType
  <2>4. toDevice' \in Seq(Downward)
    BY <1>1, <1>5, <2>1 DEF Receive
  <2>5. BoundsOK'
    BY <1>1, <1>5 DEF Receive, BoundsOK
  <2> QED
    BY <1>2, <2>3, <2>4, <2>5, TypeParts DEF NetworkOK
<1>6. ASSUME NEW input \in Values \cup {Absent, Clear}, Input(input)
      PROVE  TypeOK'
  <2>1. BoundsOK'
    BY <1>1, <1>6, ShadowAssumption DEF Input, BoundsOK
  <2>2. ChangeOf(input) \in Change
    <3>1. CASE input = Clear
      BY <3>1, ChangeType DEF ChangeOf
    <3>2. CASE input # Clear
      <4>1. [p \in {First} |-> input] \in Change
        BY <3>2, ChangeType, ShadowAssumption
      <4> QED
        BY <3>2, <4>1 DEF ChangeOf
    <3> QED
      BY <3>1, <3>2
  <2>3. CASE Throws(ChangeOf(input))
    <3>1. Terminate(toCloud) /\ toDevice' = <<>>
      BY <1>6, <2>3 DEF Input
    <3> QED
      BY <1>1, <1>2, <2>1, <3>1, TerminateType, TypeParts DEF NetworkOK
  <2>4. CASE ~Throws(ChangeOf(input))
    <3>1. /\ MoveServos(ChangeOf(input))
          /\ console' = ChangeOf(input)
          /\ UNCHANGED <<network, device, subscribed, local>>
      BY <1>6, <2>4 DEF Input
    <3>2. ProgramOK'
      BY <1>1, <2>2, <3>1, MoveServosType DEF ProgramOK
    <3>3. NetworkOK'
      BY <1>1, <3>1 DEF network, NetworkOK
    <3> QED
      BY <1>2, <2>1, <3>2, <3>3, TypeParts
  <2> QED
    BY <2>3, <2>4
<1>7. CASE PublishInput
  <2>1. toCloud' \in Seq(Upward)
    BY <1>1, <1>7, UpdateType, AppendProperties DEF PublishInput, ProgramOK
  <2>2. ProgramOK' /\ BoundsOK' /\ UNCHANGED toDevice
    BY <1>1, <1>7, NothingType DEF PublishInput, ProgramOK, BoundsOK
  <2> QED
    BY <1>1, <1>2, <2>1, <2>2, TypeParts DEF NetworkOK
<1> QED
  BY <1>3, <1>4, <1>5, <1>6, <1>7 DEF Device

LEMMA ConnectionType ==
  ASSUME TypeOK, Duplicate \/ Overtake \/ Reconnect
  PROVE  TypeOK'
<1>1. /\ DocumentOK /\ NetworkOK /\ ProgramOK /\ BoundsOK
      /\ toDevice \in Seq(Downward) /\ <<>> \in Seq(Downward)
  BY TypeParts DEF NetworkOK
<1>2. toDevice' \in Seq(Downward)
  <2>1. CASE Duplicate
    BY <1>1, <2>1, DuplicateSeq DEF Duplicate
  <2>2. CASE Overtake
    BY <1>1, <2>2, OvertakeHas DEF Overtake
  <2>3. CASE Reconnect
    BY <1>1, <2>3 DEF Reconnect
  <2> QED
    BY <2>1, <2>2, <2>3
<1>3. PICK kind : Fault(kind)
  BY DEF Duplicate, Overtake, Reconnect
<1>4. BoundsOK'
  BY <1>1, <1>3, ShadowAssumption DEF Fault, BoundsOK
<1>5. DocumentOK' /\ UNCHANGED toCloud
  BY <1>1, <1>3 DEF Fault, document, DocumentOK
<1>6. subscribed' \in BOOLEAN
  BY <1>1 DEF Duplicate, Overtake, Reconnect, ProgramOK
<1>7. ProgramOK'
  BY <1>1, <1>3, <1>6 DEF Fault, ProgramOK
<1> QED
  BY <1>1, <1>2, <1>4, <1>5, <1>7, TypeParts DEF NetworkOK

LEMMA TypeStep == TypeOK /\ [Next]_vars => TypeOK'
<1> SUFFICES ASSUME TypeOK, [Next]_vars PROVE TypeOK'
  OBVIOUS
<1>1. CASE UNCHANGED vars
  BY <1>1, TypeParts DEF vars, document, network, program, bounds,
     DocumentOK, NetworkOK, ProgramOK, BoundsOK
<1> QED
  BY <1>1, ServiceType, DeviceType, ConnectionType DEF Next

\* The shadow, the messages and the program have their declared types; in
\* particular no servo is sent a pulse width outside 500 to 1500 microseconds,
\* whatever value an application writes or the console gives.
THEOREM TypeCorrect == Spec => []TypeOK
  BY TypeInit, TypeStep, PTL DEF Spec

-----------------------------------------------------------------------------
(* What a step may be, as the invariants see it.                           *)

\* The program ends: it has nothing any more and is sent nothing.
Ended ==
  /\ device' = "offline" /\ subscribed' = FALSE
  /\ local' = Blank /\ servo' = Still /\ console' = Nothing
  /\ toDevice' = <<>>
  /\ Has(toCloud', Foreign) => Has(toCloud, Foreign)
  /\ UNCHANGED document

\* The outcomes of a handler that returns.
Taken(topic) ==
  /\ toDevice # <<>>
  /\ Head(toDevice).topic = topic
  /\ toDevice' = Tail(toDevice)
  /\ UNCHANGED <<document, bounds>>

DeltaAnswered ==
  /\ Taken("delta")
  /\ \E change \in Change :
       /\ DOMAIN change = Matched(Head(toDevice))
       /\ ~Throws(change)
       /\ MoveServos(change)
       /\ toCloud' = Append(toCloud, Update(change))
  /\ UNCHANGED <<device, subscribed, local, console>>

DeltaIgnored ==
  /\ Taken("delta")
  /\ Matched(Head(toDevice)) = {}
  /\ UNCHANGED <<toCloud, program>>

EchoTaken ==
  /\ Taken("update/accepted")
  /\ local' = EchoedLocal(Head(toDevice))
  /\ UNCHANGED <<toCloud, device, subscribed, servo, console>>

ShadowTaken ==
  /\ Taken("get/accepted")
  /\ Head(toDevice).state # Nothing
  /\ EndWait
  /\ toCloud' \in PublishedAfterGet(Head(toDevice))
  /\ local' = [p \in Managed |-> IF p \in Matched(Head(toDevice))
                                   THEN Head(toDevice).state[p] ELSE local[p]]
  /\ UNCHANGED <<subscribed, servo, console>>

NoShadowTaken ==
  /\ Taken("get/rejected")
  /\ EndWait
  /\ UNCHANGED <<toCloud, subscribed, local, servo, console>>

Returns == DeltaAnswered \/ DeltaIgnored \/ EchoTaken \/ ShadowTaken \/ NoShadowTaken

\* The console thread before its publish.
InputTaken(input) ==
  /\ device = "ready" /\ console = Nothing
  /\ inputs' = inputs + 1
  /\ ~Throws(ChangeOf(input))
  /\ MoveServos(ChangeOf(input))
  /\ console' = ChangeOf(input)
  /\ UNCHANGED <<document, network, device, subscribed, local>>

LEMMA TerminateEnds ==
  ASSUME toCloud \in Seq(Upward), NEW published \in Seq(Upward),
         Has(published, Foreign) => Has(toCloud, Foreign),
         Terminate(published), toDevice' = <<>>, UNCHANGED document
  PROVE  Ended
<1>1. PICK n \in 0 .. Len(published) : toCloud' = SubSeq(published, 1, n)
  BY DEF Terminate
<1>2. Has(toCloud', Foreign) => Has(published, Foreign)
  BY <1>1, PrefixHas
<1> QED
  BY <1>2 DEF Terminate, Ended

\* An update of nothing is not foreign.
LEMMA EmptyUpdate ==
  ASSUME toCloud \in Seq(Upward), NEW message, NEW published \in PublishedAfterGet(message)
  PROVE  /\ published \in Seq(Upward)
         /\ Has(published, Foreign) => Has(toCloud, Foreign)
         /\ \/ published = Append(toCloud, Update(Nothing))
            \/ published = toCloud /\ Matched(message) = {}
<1>1. Update(Nothing) \in Upward /\ Update(Nothing) \notin Foreign
  BY UpdateType, NothingType DEF Update, Foreign, OwnOnly
<1>2. CASE published = Append(toCloud, Update(Nothing))
  BY <1>1, <1>2, AppendProperties, AppendHas
<1>3. CASE published = toCloud /\ Matched(message) = {}
  BY <1>3
<1> QED
  BY <1>2, <1>3 DEF PublishedAfterGet

LEMMA ReceiveCases ==
  ASSUME TypeOK, ConnectionInv, Receive
  PROVE  Ended \/ Returns
<1> DEFINE message == Head(toDevice)
<1>1. /\ toCloud \in Seq(Upward) /\ toDevice \in Seq(Downward)
      /\ toDevice # <<>> /\ device # "offline"
      /\ UNCHANGED <<document, bounds>>
      /\ toDevice' = IF device' = "offline" THEN <<>> ELSE Tail(toDevice)
  BY TypeParts DEF NetworkOK, Receive, ConnectionInv
<1>2. message \in Downward /\ message.state \in Change
  <2>1. message \in Downward
    BY <1>1, HeadTailProperties
  <2> QED
    BY <2>1 DEF Downward
<1>3. ASSUME NEW published \in Seq(Upward), Terminate(published),
             Has(published, Foreign) => Has(toCloud, Foreign)
      PROVE  Ended
  <2>1. toDevice' = <<>> /\ UNCHANGED document
    BY <1>1, <1>3 DEF Terminate
  <2> QED
    BY <1>1, <1>3, <2>1, TerminateEnds
<1>4. ASSUME device' # "offline", NEW topic, message.topic = topic
      PROVE  Taken(topic)
  BY <1>1, <1>4 DEF Taken
<1>5. CASE DeltaUpdated(message)
  <2> DEFINE change == [p \in Matched(message) |-> message.state[p]]
  <2>1. change \in Change /\ DOMAIN change = Matched(message)
    BY <1>2, ChangeType DEF Matched
  <2>2. /\ message.topic = "delta"
        /\ ChangeShadowValue(change) \/ (Matched(message) = {} /\ UNCHANGED <<toCloud, program>>)
    BY <1>5 DEF DeltaUpdated
  <2> HIDE DEF change
  <2>3. CASE ChangeShadowValue(change) /\ Throws(change)
    BY <1>1, <1>3, <2>3 DEF ChangeShadowValue
  <2>4. CASE ChangeShadowValue(change) /\ ~Throws(change)
    <3>1. /\ MoveServos(change)
          /\ toCloud' = Append(toCloud, Update(change))
          /\ UNCHANGED <<device, subscribed, local, console>>
      BY <2>4 DEF ChangeShadowValue
    <3>2. Taken("delta")
      BY <1>1, <1>4, <2>2, <3>1
    <3> QED
      BY <2>1, <2>4, <3>1, <3>2 DEF DeltaAnswered, Returns
  <2>5. CASE Matched(message) = {} /\ UNCHANGED <<toCloud, program>>
    <3>1. Taken("delta")
      BY <1>1, <1>4, <2>2, <2>5 DEF program
    <3> QED
      BY <2>5, <3>1 DEF DeltaIgnored, Returns
  <2> QED
    BY <2>2, <2>3, <2>4, <2>5
<1>6. CASE UpdateShadowAccepted(message)
  <2>1. Taken("update/accepted")
    BY <1>1, <1>4, <1>6 DEF UpdateShadowAccepted
  <2> QED
    BY <1>6, <2>1 DEF UpdateShadowAccepted, EchoTaken, Returns
<1>7. CASE GetShadowAccepted(message)
  <2>1. CASE Terminate(toCloud)
    BY <1>1, <1>3, <2>1
  <2>2. ASSUME NEW published \in PublishedAfterGet(message), Terminate(published)
        PROVE  Ended
    BY <1>1, <1>3, <2>2, EmptyUpdate
  <2>3. ASSUME message.state # Nothing, message.topic = "get/accepted",
               NEW published \in PublishedAfterGet(message),
               EndWait, toCloud' = published,
               local' = [p \in Managed |-> IF p \in Matched(message)
                                              THEN message.state[p] ELSE local[p]],
               UNCHANGED <<subscribed, servo, console>>
        PROVE  ShadowTaken
    <3>1. Taken("get/accepted")
      BY <1>4, <2>3 DEF EndWait
    <3> QED
      BY <2>3, <3>1 DEF ShadowTaken
  <2> QED
    BY <1>7, <2>1, <2>2, <2>3 DEF GetShadowAccepted, Returns
<1>8. CASE GetShadowRejected(message)
  <2>1. CASE Terminate(toCloud)
    BY <1>1, <1>3, <2>1
  <2>2. CASE EndWait /\ UNCHANGED <<toCloud, subscribed, local, servo, console>>
    <3>1. Taken("get/rejected")
      BY <1>4, <1>8, <2>2 DEF GetShadowRejected, EndWait
    <3> QED
      BY <2>2, <3>1 DEF NoShadowTaken, Returns
  <2> QED
    BY <1>8, <2>1, <2>2 DEF GetShadowRejected
<1> QED
  BY <1>5, <1>6, <1>7, <1>8 DEF Receive

LEMMA DeviceCases ==
  ASSUME TypeOK, ConnectionInv, Device
  PROVE  \/ Ended
         \/ Start
         \/ Returns
         \/ \E input \in Values \cup {Absent, Clear} : InputTaken(input)
         \/ PublishInput
<1>1. toCloud \in Seq(Upward)
  BY DEF TypeOK
<1>2. CASE Crash
  BY <1>1, <1>2, TerminateEnds DEF Crash
<1>3. ASSUME NEW input \in Values \cup {Absent, Clear}, Input(input)
      PROVE  Ended \/ InputTaken(input)
  <2>1. CASE Throws(ChangeOf(input))
    BY <1>1, <1>3, <2>1, TerminateEnds DEF Input
  <2>2. CASE ~Throws(ChangeOf(input))
    BY <1>3, <2>2 DEF Input, InputTaken
  <2> QED
    BY <2>1, <2>2
<1> QED
  BY <1>2, <1>3, ReceiveCases DEF Device

-----------------------------------------------------------------------------
(* What the service publishes.                                             *)

LEMMA SingleHas ==
  ASSUME NEW S, NEW m \in S, NEW M
  PROVE  <<m>> \in Seq(S) /\ (Has(<<m>>, M) <=> m \in M)
  BY DEF Has

LEMMA EmptyHas ==
  ASSUME NEW M
  PROVE  ~Has(<<>>, M)
  BY DEF Has

LEMMA PublishHas ==
  ASSUME toDevice \in Seq(Downward), NEW messages \in Seq(Downward),
         Publish(messages), NEW M
  PROVE  Has(toDevice', M) <=> Has(toDevice, M) \/ (subscribed /\ Has(messages, M))
  BY ConcatHas DEF Publish

LEMMA ReplyHas ==
  ASSUME toDevice \in Seq(Downward), DocumentOK,
         NEW reply \in Replies, Publish(<<reply>>), NEW M
  PROVE  Has(toDevice', M) <=> Has(toDevice, M) \/ (subscribed /\ reply \in M)
<1>1. reply \in Downward
  BY RepliesType
<1>2. <<reply>> \in Seq(Downward) /\ (Has(<<reply>>, M) <=> reply \in M)
  BY <1>1, SingleHas
<1> QED
  BY <1>2, PublishHas

LEMMA AcceptHas ==
  ASSUME toDevice \in Seq(Downward), NEW d \in Section, NEW r \in Section,
         NEW echo \in Change, Accept(d, r, echo), NEW M
  PROVE  Has(toDevice', M) <=>
           \/ Has(toDevice, M)
           \/ /\ subscribed
              /\ \/ [topic |-> "update/accepted", state |-> echo] \in M
                 \/ /\ Difference(d, r) # Nothing
                    /\ [topic |-> "delta", state |-> Difference(d, r)] \in M
<1> DEFINE first == [topic |-> "update/accepted", state |-> echo]
           second == [topic |-> "delta", state |-> Difference(d, r)]
<1>1. /\ first \in Downward /\ second \in Downward
      /\ <<first>> \in Seq(Downward) /\ Delta(d, r) \in Seq(Downward)
      /\ Publish(<<first>> \o Delta(d, r))
  BY AcceptedType DEF Accept
<1>2. Delta(d, r) = IF Difference(d, r) = Nothing THEN <<>> ELSE <<second>>
  BY DEF Delta
<1> HIDE DEF first, second
<1>3. Has(<<first>>, M) <=> first \in M
  BY <1>1, SingleHas
<1>4. Has(Delta(d, r), M) <=> Difference(d, r) # Nothing /\ second \in M
  BY <1>1, <1>2, SingleHas, EmptyHas
<1>5. /\ <<first>> \o Delta(d, r) \in Seq(Downward)
      /\ Has(<<first>> \o Delta(d, r), M) <=> Has(<<first>>, M) \/ Has(Delta(d, r), M)
  BY <1>1, ConcatHas, ConcatProperties
<1>6. Has(toDevice', M) <=>
        Has(toDevice, M) \/ (subscribed /\ Has(<<first>> \o Delta(d, r), M))
  BY <1>1, <1>5, PublishHas
<1> QED
  BY <1>3, <1>4, <1>5, <1>6 DEF first, second

\* The handler's messages but the one it has taken.
LEMMA TakenHas ==
  ASSUME toDevice \in Seq(Downward), NEW topic, Taken(topic), NEW M
  PROVE  Has(toDevice, M) <=> Head(toDevice) \in M \/ Has(toDevice', M)
  BY TailHas DEF Taken

\* A repeated or early message is one that was there.
LEMMA FaultHas ==
  ASSUME toDevice \in Seq(Downward), Duplicate \/ Overtake, NEW M
  PROVE  Has(toDevice', M) <=> Has(toDevice, M)
<1>1. CASE Duplicate
  BY <1>1, DuplicateHas DEF Duplicate
<1>2. CASE Overtake
  BY <1>2, OvertakeHas DEF Overtake
<1> QED
  BY <1>1, <1>2

-----------------------------------------------------------------------------
(* Who is subscribed, what the console holds, what is managed.             *)

LEMMA ConnectionStep ==
  ASSUME TypeOK, ConnectionInv, [Next]_vars
  PROVE  ConnectionInv'
<1> USE DEF ConnectionInv
<1>1. CASE Service \/ Application
  <2>1. UNCHANGED program
    BY <1>1 DEF Service, Application, AcceptUpdate, AnswerGet, Request, RequestGet
  <2>2. \E messages : Publish(messages)
    BY <1>1 DEF Service, Application, AcceptUpdate, AnswerGet, Request, RequestGet,
       Accept
  <2>3. ~subscribed => UNCHANGED toDevice
    BY <2>2 DEF Publish
  <2> QED
    BY <2>1, <2>3 DEF program
<1>2. CASE Device
  <2>1. CASE Ended
    BY <2>1 DEF Ended
  <2>2. CASE Start
    BY <2>2 DEF Start, Subscribe
  <2>3. CASE Returns
    <3>1. subscribed /\ device # "offline"
      BY <2>3 DEF Returns, DeltaAnswered, DeltaIgnored, EchoTaken, ShadowTaken,
         NoShadowTaken, Taken
    <3>2. subscribed' /\ device' # "offline"
      BY <2>3, <3>1 DEF Returns, DeltaAnswered, DeltaIgnored, EchoTaken,
         ShadowTaken, NoShadowTaken, EndWait, program
    <3> QED
      BY <3>2
  <2>4. ASSUME NEW input, InputTaken(input) PROVE ConnectionInv'
    BY <2>4 DEF InputTaken, network
  <2>5. CASE PublishInput
    BY <2>5 DEF PublishInput
  <2> QED
    BY <1>2, <2>1, <2>2, <2>3, <2>4, <2>5, DeviceCases
<1>3. CASE Duplicate \/ Overtake
  <2>1. UNCHANGED <<device, subscribed, local, servo, console>>
    BY <1>3 DEF Duplicate, Overtake, Fault
  <2>2. toDevice # <<>>
    <3>1. Len(toDevice) \in Nat /\ (1 .. Len(toDevice) # {} \/ 2 .. Len(toDevice) # {})
      BY <1>3, LenProperties DEF Duplicate, Overtake, TypeOK
    <3>2. Len(toDevice) # 0
      BY <3>1
    <3> QED
      BY <3>2, EmptySeq
  <2> QED
    BY <2>1, <2>2
<1>4. CASE Reconnect
  BY <1>4 DEF Reconnect, Fault
<1>5. CASE UNCHANGED vars
  BY <1>5 DEF vars, network, program
<1> QED
  BY <1>1, <1>2, <1>3, <1>4, <1>5 DEF Next

LEMMA ConsoleStep ==
  ASSUME TypeOK, ConnectionInv, ConsoleInv, [Next]_vars
  PROVE  ConsoleInv'
<1> USE DEF ConsoleInv
<1>1. ASSUME UNCHANGED <<console, inputs>> PROVE ConsoleInv'
  BY <1>1
<1>2. ASSUME console' = Nothing PROVE ConsoleInv'
  BY <1>2, NothingType
<1>3. CASE Service \/ Application
  BY <1>1, <1>3 DEF Service, Application, AcceptUpdate, AnswerGet, Request,
     RequestGet, program, bounds
<1>4. CASE Device
  <2>1. CASE Ended \/ PublishInput
    BY <1>2, <2>1 DEF Ended, PublishInput
  <2>2. CASE Start \/ Returns
    BY <1>1, <2>2 DEF Start, Returns, DeltaAnswered, DeltaIgnored, EchoTaken,
       ShadowTaken, NoShadowTaken, Taken, program, bounds
  <2>3. ASSUME NEW input, InputTaken(input) PROVE ConsoleInv'
    <3>1. inputs' # 0
      BY <2>3 DEF InputTaken, TypeOK
    <3>2. \A p \in Managed \ {First} : p \in DOMAIN console' => console'[p] = Absent
      BY <2>3 DEF InputTaken, ChangeOf
    <3> QED
      BY <3>1, <3>2
  <2> QED
    BY <1>4, <2>1, <2>2, <2>3, DeviceCases
<1>5. CASE Duplicate \/ Overtake \/ Reconnect
  BY <1>1, <1>5 DEF Duplicate, Overtake, Reconnect, Fault
<1>6. CASE UNCHANGED vars
  BY <1>1, <1>6 DEF vars, program, bounds
<1> QED
  BY <1>3, <1>4, <1>5, <1>6 DEF Next

\* Updates made of a change of managed properties, or of one that removes.
LEMMA OwnUpdate ==
  ASSUME toCloud \in Seq(Upward), ~Has(toCloud, Foreign),
         NEW change \in Change, OwnOnly(change)
  PROVE  ~Has(Append(toCloud, Update(change)), Foreign)
<1>1. Update(change) \in Upward /\ Update(change).reported = change
  BY UpdateType DEF Update
<1> QED
  BY <1>1, AppendHas DEF Foreign

LEMMA OwnStep ==
  ASSUME TypeOK, ConnectionInv, OwnInv, [Next]_vars
  PROVE  OwnInv'
<1> USE DEF OwnInv
<1>1. /\ toCloud \in Seq(Upward) /\ toDevice \in Seq(Downward)
      /\ DocumentOK /\ NetworkOK /\ console \in Change
  BY TypeParts DEF NetworkOK, ProgramOK
<1>2. /\ OwnOnly(Nothing)
      /\ ~Has(<<>>, Unmatched)
      /\ \A m : m.topic # "get/accepted" => m \notin Unmatched
  BY NothingType, EmptyHas DEF OwnOnly, Unmatched
<1>3. ASSUME UNCHANGED <<reported, console, toCloud>>,
             Has(toDevice', Unmatched) => Has(toDevice, Unmatched)
      PROVE  OwnInv'
  BY <1>3 DEF OwnOnly
<1>4. CASE AcceptUpdate
  <2> DEFINE update == Head(toCloud)
  <2>1. update \in Upward /\ update \notin Foreign /\ ~Has(toCloud', Foreign)
    BY <1>1, <1>4, HeadTailProperties, TailHas DEF AcceptUpdate
  <2>2. update.desired \in Change /\ update.reported \in Change /\ OwnOnly(update.reported)
    BY <2>1 DEF Upward, Foreign
  <2>3. Accept(Merge(desired, update.desired), Merge(reported, update.reported),
               update.reported)
    BY <1>4 DEF AcceptUpdate
  <2> HIDE DEF update
  <2>4. ~Has(toDevice', Unmatched)
    <3>1. /\ Merge(desired, update.desired) \in Section
          /\ Merge(reported, update.reported) \in Section
      BY <1>1, <2>2, MergeType DEF DocumentOK
    <3> QED
      BY <1>1, <1>2, <2>2, <2>3, <3>1, AcceptHas
  <2>5. OwnOnly(reported')
    BY <1>1, <2>2, <2>3 DEF Accept, Merge, OwnOnly, DocumentOK, Section
  <2>6. UNCHANGED console
    BY <1>4 DEF AcceptUpdate, program
  <2> QED
    BY <2>1, <2>4, <2>5, <2>6
<1>5. ASSUME NEW reply \in Replies, Publish(<<reply>>)
      PROVE  ~Has(toDevice', Unmatched)
  <2>1. DOMAIN Present(reported) \subseteq Managed
    BY <1>1 DEF Present, OwnOnly, DocumentOK, Section
  <2>2. reply = [topic |-> "get/accepted", state |-> Present(reported)]
          \/ reply.topic = "get/rejected"
    BY DEF Replies
  <2>3. reply \notin Unmatched
    BY <2>1, <2>2 DEF Unmatched
  <2> QED
    BY <1>1, <1>5, <2>3, ReplyHas
<1>6. CASE AnswerGet
  <2>1. ~Has(toCloud', Foreign)
    BY <1>1, <1>6, TailHas DEF AnswerGet
  <2>2. UNCHANGED <<reported, console>>
    BY <1>6 DEF AnswerGet, document, program
  <2> QED
    BY <1>5, <1>6, <2>1, <2>2 DEF AnswerGet, OwnOnly
<1>7. ASSUME NEW p \in Properties, NEW v \in Values \cup {Absent}, Request(p, v)
      PROVE  OwnInv'
  <2>1. [desired EXCEPT ![p] = v] \in Section /\ reported \in Section
    BY <1>1 DEF DocumentOK, Section
  <2>2. /\ Accept([desired EXCEPT ![p] = v], reported, Nothing)
        /\ UNCHANGED <<reported, console, toCloud>>
    BY <1>7 DEF Request, Accept, program
  <2>3. Has(toDevice', Unmatched) => Has(toDevice, Unmatched)
    BY <1>1, <1>2, <2>1, <2>2, NothingType, AcceptHas
  <2> QED
    BY <1>3, <2>2, <2>3
<1>8. CASE RequestGet
  BY <1>3, <1>5, <1>8 DEF RequestGet, document, program
<1>9. CASE Device
  <2>1. CASE Ended
    BY <1>2, <2>1 DEF Ended, document, OwnOnly
  <2>2. CASE Start
    <3>1. ~Has(toCloud', Foreign)
      <4>1. /\ [kind |-> "get", desired |-> Nothing, reported |-> Nothing] \in Upward
            /\ [kind |-> "get", desired |-> Nothing, reported |-> Nothing] \notin Foreign
        BY <1>2, NothingType DEF Upward, Foreign
      <4> QED
        BY <1>1, <2>2, <4>1, AppendHas DEF Start, AskForShadow
    <3>2. UNCHANGED <<reported, console, toDevice>>
      BY <2>2 DEF Start, document
    <3> QED
      BY <3>1, <3>2 DEF OwnOnly
  <2>3. CASE Returns
    <3>1. PICK topic : Taken(topic)
      BY <2>3 DEF Returns, DeltaAnswered, DeltaIgnored, EchoTaken, ShadowTaken,
         NoShadowTaken
    <3>2. ~Has(toDevice', Unmatched)
      BY <1>1, <3>1, TakenHas
    <3>3. UNCHANGED <<reported, console>>
      BY <2>3, <3>1 DEF Returns, DeltaAnswered, DeltaIgnored, EchoTaken,
         ShadowTaken, NoShadowTaken, Taken, document, program
    <3>4. ~Has(toCloud', Foreign)
      <4>1. CASE DeltaAnswered
        <5>1. PICK change \in Change : /\ DOMAIN change = Matched(Head(toDevice))
                                       /\ toCloud' = Append(toCloud, Update(change))
          BY <4>1 DEF DeltaAnswered
        <5>2. OwnOnly(change)
          BY <5>1 DEF OwnOnly, Matched
        <5> QED
          BY <1>1, <5>1, <5>2, OwnUpdate
      <4>2. CASE ShadowTaken
        BY <1>1, <4>2, EmptyUpdate DEF ShadowTaken
      <4> QED
        BY <2>3, <4>1, <4>2 DEF Returns, DeltaIgnored, EchoTaken, NoShadowTaken
    <3> QED
      BY <3>2, <3>3, <3>4 DEF OwnOnly
  <2>4. ASSUME NEW input \in Values \cup {Absent, Clear}, InputTaken(input)
        PROVE  OwnInv'
    <3>1. OwnOnly(console')
      BY <2>4, ShadowAssumption DEF InputTaken, ChangeOf, OwnOnly
    <3>2. UNCHANGED <<reported, toCloud, toDevice>>
      BY <2>4 DEF InputTaken, document, network
    <3> QED
      BY <3>1, <3>2 DEF OwnOnly
  <2>5. CASE PublishInput
    <3>1. ~Has(toCloud', Foreign)
      BY <1>1, <2>5, OwnUpdate DEF PublishInput
    <3>2. console' = Nothing /\ UNCHANGED <<reported, toDevice>>
      BY <2>5 DEF PublishInput, document
    <3> QED
      BY <1>2, <3>1, <3>2 DEF OwnOnly
  <2> QED
    BY <1>9, <2>1, <2>2, <2>3, <2>4, <2>5, DeviceCases
<1>10. CASE Duplicate \/ Overtake
  <2>1. Has(toDevice', Unmatched) <=> Has(toDevice, Unmatched)
    BY <1>1, <1>10, FaultHas
  <2> QED
    BY <1>3, <1>10, <2>1 DEF Duplicate, Overtake, Fault, document
<1>11. CASE Reconnect
  BY <1>2, <1>3, <1>11 DEF Reconnect, Fault, document
<1>12. CASE UNCHANGED vars
  BY <1>3, <1>12 DEF vars, document, network, program
<1> QED
  BY <1>4, <1>6, <1>7, <1>8, <1>9, <1>10, <1>11, <1>12
     DEF Next, Service, Application

-----------------------------------------------------------------------------
(* A difference is always about to be settled.                             *)

\* An update or a request that leaves a difference brings a delta.
LEMMA AcceptTells ==
  ASSUME toDevice \in Seq(Downward), NEW d \in Section, NEW r \in Section,
         NEW echo \in Change, Accept(d, r, echo), subscribed, Differs'
  PROVE  Has(toDevice', Deltas)
<1> DEFINE delta == [topic |-> "delta", state |-> Difference(d, r)]
<1>1. PICK p \in Managed : d[p] \notin {Absent, r[p]}
  BY DEF Differs, Accept
<1>2. p \in DOMAIN Difference(d, r)
  BY <1>1, ShadowAssumption DEF Difference
<1>3. Difference(d, r) # Nothing
  BY <1>2, NothingType
<1>4. delta \in Downward
  BY AcceptedType
<1>5. delta \in Deltas
  BY <1>2, <1>4 DEF Deltas, Matched
<1> QED
  BY <1>3, <1>5, AcceptHas

\* A shadow with a difference is not an empty one, so no get is rejected.
LEMMA ReplyAgree ==
  ASSUME toDevice \in Seq(Downward), DocumentOK, Differs,
         NEW reply \in Replies, Publish(<<reply>>)
  PROVE  /\ Has(toDevice, Deltas) => Has(toDevice', Deltas)
         /\ Has(toDevice', Rejections) => Has(toDevice, Rejections)
<1>1. PICK p \in Managed : desired[p] # Absent
  BY DEF Differs
<1>2. p \in DOMAIN Present(desired)
  BY <1>1, ShadowAssumption DEF Present
<1>3. Present(desired) # Nothing
  BY <1>2, NothingType
<1>4. reply.topic = "get/accepted"
  BY <1>3 DEF Replies
<1>5. reply \notin Rejections
  BY <1>4 DEF Rejections
<1> QED
  BY <1>5, ReplyHas

\* An update the device publishes is under way.
LEMMA UpdateUnderway ==
  ASSUME toCloud \in Seq(Upward), NEW change \in Change,
         toCloud' = Append(toCloud, Update(change))
  PROVE  Underway'
<1>1. Update(change) \in Upward /\ Update(change) \in Updates
  BY UpdateType DEF Update, Updates
<1>2. Has(toCloud', Updates)
  BY <1>1, AppendHas
<1> QED
  BY <1>2 DEF Underway, Updates

LEMMA AgreeStep ==
  ASSUME TypeOK, ConnectionInv, OwnInv, AgreeInv, [Next]_vars
  PROVE  AgreeInv'
<1> SUFFICES ASSUME subscribed', Differs'
             PROVE  Underway' \/ (device' = "starting" /\ ~Has(toDevice', Rejections))
  BY DEF AgreeInv, Rejections
<1>1. /\ toCloud \in Seq(Upward) /\ toDevice \in Seq(Downward)
      /\ DocumentOK /\ NetworkOK /\ console \in Change
  BY TypeParts DEF NetworkOK, ProgramOK
<1>2. ASSUME UNCHANGED <<document, toCloud, program>>,
             Has(toDevice, Deltas) => Has(toDevice', Deltas),
             Has(toDevice', Rejections) => Has(toDevice, Rejections)
      PROVE  Underway' \/ (device' = "starting" /\ ~Has(toDevice', Rejections))
  <2>1. subscribed /\ Differs
    BY <1>2 DEF Differs, document, program
  <2>2. Underway => Underway'
    BY <1>2 DEF Underway, Updates, Deltas, program
  <2> QED
    BY <1>2, <2>1, <2>2 DEF AgreeInv, program
<1>3. ASSUME Has(toDevice', Deltas) PROVE Underway'
  BY <1>3 DEF Underway, Deltas
<1>4. CASE AcceptUpdate
  <2> DEFINE update == Head(toCloud)
  <2>1. update \in Upward
    BY <1>1, <1>4, HeadTailProperties DEF AcceptUpdate
  <2>2. update.desired \in Change /\ update.reported \in Change
    BY <2>1 DEF Upward
  <2>3. /\ Accept(Merge(desired, update.desired), Merge(reported, update.reported),
                  update.reported)
        /\ subscribed
    BY <1>4 DEF AcceptUpdate, program
  <2> HIDE DEF update
  <2>4. /\ Merge(desired, update.desired) \in Section
        /\ Merge(reported, update.reported) \in Section
    BY <1>1, <2>2, MergeType DEF DocumentOK
  <2> QED
    BY <1>1, <1>3, <2>2, <2>3, <2>4, AcceptTells
<1>5. CASE AnswerGet
  <2>1. PICK reply \in Replies : Publish(<<reply>>)
    BY <1>5 DEF AnswerGet
  <2>2. UNCHANGED <<document, program>> /\ subscribed /\ Differs
    BY <1>5 DEF AnswerGet, Differs, document, program
  <2>3. /\ Has(toDevice, Deltas) => Has(toDevice', Deltas)
        /\ Has(toDevice', Rejections) => Has(toDevice, Rejections)
    BY <1>1, <2>1, <2>2, ReplyAgree
  <2>4. Has(toCloud, Updates) => Has(toCloud', Updates)
    <3>1. Head(toCloud) \notin Updates
      BY <1>5 DEF AnswerGet, Updates
    <3> QED
      BY <1>1, <1>5, <3>1, TailHas DEF AnswerGet
  <2>5. Underway => Underway'
    BY <2>2, <2>3, <2>4 DEF Underway, Updates, Deltas, program
  <2> QED
    BY <2>2, <2>3, <2>5 DEF AgreeInv, program
<1>6. ASSUME NEW p \in Properties, NEW v \in Values \cup {Absent}, Request(p, v)
      PROVE  Underway'
  <2>1. [desired EXCEPT ![p] = v] \in Section /\ reported \in Section
    BY <1>1 DEF DocumentOK, Section
  <2>2. Accept([desired EXCEPT ![p] = v], reported, Nothing) /\ subscribed
    BY <1>6 DEF Request, program
  <2> QED
    BY <1>1, <1>3, <2>1, <2>2, NothingType, AcceptTells
<1>7. CASE RequestGet
  <2>1. PICK reply \in Replies : Publish(<<reply>>)
    BY <1>7 DEF RequestGet
  <2>2. UNCHANGED <<document, toCloud, program>> /\ Differs
    BY <1>7 DEF RequestGet, Differs, document
  <2> QED
    BY <1>1, <1>2, <2>1, <2>2, ReplyAgree
<1>8. CASE Start
  <2>1. toDevice' = <<>> /\ device' = "starting"
    BY <1>8 DEF Start, Subscribe, ConnectionInv
  <2> QED
    BY <2>1, EmptyHas
<1>9. CASE Returns
  <2>1. PICK topic : Taken(topic)
    BY <1>9 DEF Returns, DeltaAnswered, DeltaIgnored, EchoTaken, ShadowTaken,
       NoShadowTaken
  <2>2. Has(toDevice', Rejections) => Has(toDevice, Rejections)
    BY <1>1, <2>1, TakenHas
  <2>3. Head(toDevice) \notin Deltas => (Has(toDevice, Deltas) => Has(toDevice', Deltas))
    BY <1>1, <2>1, TakenHas
  <2>4. Head(toDevice) \in Downward /\ Differs /\ subscribed
    <3>1. Head(toDevice) \in Downward
      BY <1>1, <2>1, HeadTailProperties DEF Taken
    <3>2. Differs
      BY <2>1 DEF Taken, document, Differs
    <3>3. subscribed
      BY <1>9 DEF Returns, DeltaAnswered, DeltaIgnored, EchoTaken, ShadowTaken,
         NoShadowTaken, program
    <3> QED
      BY <3>1, <3>2, <3>3
  <2>5. CASE DeltaAnswered
    BY <1>1, <2>5, UpdateUnderway DEF DeltaAnswered
  <2>6. CASE DeltaIgnored
    <3>1. Head(toDevice) \notin Deltas
      BY <2>6 DEF DeltaIgnored, Deltas
    <3> QED
      BY <1>2, <2>2, <2>3, <2>6, <3>1 DEF DeltaIgnored, Taken
  <2>7. CASE EchoTaken
    <3>1. Head(toDevice) \notin Deltas
      BY <2>7 DEF EchoTaken, Taken, Deltas
    <3>2. Underway => Underway'
      BY <2>3, <2>7, <3>1 DEF EchoTaken, Underway, Updates, Deltas
    <3> QED
      BY <2>2, <2>4, <2>7, <3>2 DEF EchoTaken, AgreeInv
  <2>8. CASE ShadowTaken
    <3>1. Matched(Head(toDevice)) # {}
      <4>1. /\ Head(toDevice).topic = "get/accepted"
            /\ Head(toDevice).state # Nothing
            /\ Head(toDevice).state \in Change
        BY <2>4, <2>8 DEF ShadowTaken, Taken, Downward
      <4>2. Head(toDevice) \notin Unmatched
        BY <1>1, <2>1, TakenHas DEF OwnInv
      <4>3. DOMAIN Head(toDevice).state \subseteq Managed
        BY <2>4, <4>1, <4>2 DEF Unmatched
      <4> QED
        BY <4>1, <4>3, NothingType DEF Matched
    <3>2. toCloud' = Append(toCloud, Update(Nothing))
      BY <1>1, <2>8, <3>1, EmptyUpdate DEF ShadowTaken
    <3> QED
      BY <1>1, <3>2, NothingType, UpdateUnderway
  <2>9. CASE NoShadowTaken
    <3>1. Head(toDevice) \in Rejections /\ Head(toDevice) \notin Deltas
      BY <2>4, <2>9 DEF NoShadowTaken, Taken, Rejections, Deltas
    <3>2. Underway
      BY <1>1, <2>1, <2>4, <3>1, TakenHas DEF AgreeInv
    <3>3. Underway'
      BY <2>3, <2>9, <3>1, <3>2 DEF NoShadowTaken, Underway, Updates, Deltas
    <3> QED
      BY <3>3
  <2> QED
    BY <1>9, <2>5, <2>6, <2>7, <2>8, <2>9 DEF Returns
<1>10. ASSUME NEW input \in Values \cup {Absent, Clear}, InputTaken(input)
       PROVE  Underway'
  <2>1. First \in DOMAIN console'
    BY <1>10, ShadowAssumption DEF InputTaken, ChangeOf
  <2>2. console' # Nothing
    BY <2>1, NothingType
  <2> QED
    BY <2>2 DEF Underway, Nothing
<1>11. CASE PublishInput
  BY <1>1, <1>11, UpdateUnderway DEF PublishInput
<1>12. CASE Device
  BY <1>8, <1>9, <1>10, <1>11, <1>12, DeviceCases DEF Ended
<1>13. CASE Duplicate \/ Overtake
  <2>1. /\ Has(toDevice', Deltas) <=> Has(toDevice, Deltas)
        /\ Has(toDevice', Rejections) <=> Has(toDevice, Rejections)
    BY <1>1, <1>13, FaultHas
  <2>2. UNCHANGED <<document, toCloud, program>>
    BY <1>13 DEF Duplicate, Overtake, Fault, program
  <2> QED
    BY <1>2, <2>1, <2>2
<1>14. CASE Reconnect
  BY <1>14 DEF Reconnect
<1>15. CASE UNCHANGED vars
  BY <1>2, <1>15 DEF vars, document, network, program
<1> QED
  BY <1>4, <1>5, <1>6, <1>7, <1>12, <1>13, <1>14, <1>15
     DEF Next, Service, Application

\* Whatever the order, the repetition and the loss of messages, and wherever the
\* program ends, a running device that is told and owes nothing reports every
\* desired value it manages.
THEOREM QuietMeansAgreedHolds == Spec => []QuietMeansAgreed
<1> DEFINE IInv == TypeOK /\ ConnectionInv /\ OwnInv /\ AgreeInv
<1>1. Init => IInv
  <2> SUFFICES ASSUME Init PROVE IInv
    OBVIOUS
  <2>1. TypeOK
    BY TypeInit
  <2>2. ConnectionInv /\ AgreeInv
    BY DEF Init, ConnectionInv, AgreeInv
  <2>3. OwnOnly(reported)
    BY DEF Init, OwnOnly, Section
  <2>4. OwnOnly(console) /\ ~Has(toCloud, Foreign) /\ ~Has(toDevice, Unmatched)
    BY NothingType, EmptyHas DEF Init, OwnOnly
  <2> QED
    BY <2>1, <2>2, <2>3, <2>4 DEF OwnInv
<1>2. IInv /\ [Next]_vars => IInv'
  BY TypeStep, ConnectionStep, OwnStep, AgreeStep
<1>3. IInv => QuietMeansAgreed
  <2> SUFFICES ASSUME IInv, Quiet PROVE ~Differs
    BY DEF QuietMeansAgreed, Differs
  <2>1. toCloud = <<>> /\ toDevice = <<>> /\ console = Nothing
    BY DEF Quiet, network
  <2>2. ~Underway
    BY <2>1, EmptyHas DEF Underway
  <2> QED
    BY <2>2 DEF AgreeInv, Quiet
<1> HIDE DEF IInv
<1> QED
  BY <1>1, <1>2, <1>3, PTL DEF Spec

-----------------------------------------------------------------------------
(* The last of the messages that matter.                                   *)

LEMMA GoodNone ==
  ASSUME NEW S, NEW s \in Seq(S), NEW M, NEW G, ~Has(s, M)
  PROVE  LastIsGood(s, M, G, TRUE)
  BY DEF LastIsGood, Has

LEMMA GoodSingle ==
  ASSUME NEW S, NEW m \in S, NEW M, NEW G, m \in M => m \in G
  PROVE  /\ <<m>> \in Seq(S)
         /\ LastIsGood(<<m>>, M, G, m \in G \/ m \notin M)
<1>1. DOMAIN <<m>> = {1} /\ <<m>>[1] = m /\ <<m>> \in Seq(S)
  OBVIOUS
<1> DEFINE one == <<m>>
<1> HIDE DEF one
<1>2. DOMAIN one = {1} /\ one[1] = m
  BY <1>1 DEF one
<1>3. LastIsGood(one, M, G, m \in G \/ m \notin M)
  BY <1>2 DEF LastIsGood, Has
<1> QED
  BY <1>1, <1>3 DEF one

\* Messages that follow leave the last one the last, or bring a good one.
LEMMA GoodConcat ==
  ASSUME NEW S, NEW s \in Seq(S), NEW t \in Seq(S), NEW M, NEW G,
         NEW before \in BOOLEAN, NEW after \in BOOLEAN,
         LastIsGood(t, M, G, TRUE),
         ~Has(t, M) => LastIsGood(s, M, G, before) /\ (before => after)
  PROVE  LastIsGood(s \o t, M, G, after)
<1>1. /\ DOMAIN s = 1 .. Len(s) /\ Len(s) \in Nat
      /\ DOMAIN t = 1 .. Len(t) /\ Len(t) \in Nat
      /\ DOMAIN (s \o t) = 1 .. Len(s) + Len(t)
      /\ \A i \in 1 .. Len(s) + Len(t) :
           (s \o t)[i] = IF i <= Len(s) THEN s[i] ELSE t[i - Len(s)]
  BY LenProperties, ConcatProperties
<1> DEFINE both == s \o t
<1>2. ASSUME NEW i \in DOMAIN s
      PROVE  i \in DOMAIN both /\ both[i] = s[i]
  BY <1>1
<1>3. ASSUME NEW i \in DOMAIN t
      PROVE  /\ Len(s) + i \in DOMAIN both /\ both[Len(s) + i] = t[i]
             /\ \A k \in DOMAIN s : k < Len(s) + i
             /\ \A k \in DOMAIN t : k < i <=> Len(s) + k < Len(s) + i
  <2>1. /\ Len(s) + i \in 1 .. Len(s) + Len(t)
        /\ ~(Len(s) + i <= Len(s)) /\ Len(s) + i - Len(s) = i
    BY <1>1
  <2>2. both[Len(s) + i] = t[i]
    BY <1>1, <2>1
  <2>3. /\ \A k \in DOMAIN s : k < Len(s) + i
        /\ \A k \in DOMAIN t : k < i <=> Len(s) + k < Len(s) + i
    BY <1>1
  <2> QED
    BY <1>1, <2>1, <2>2, <2>3
<1>4. ASSUME NEW i \in DOMAIN both
      PROVE  \/ i \in DOMAIN s /\ both[i] = s[i]
             \/ \E k \in DOMAIN t : i = Len(s) + k /\ both[i] = t[k]
  <2>1. CASE i <= Len(s)
    BY <1>1, <2>1
  <2>2. CASE ~(i <= Len(s))
    <3>1. i - Len(s) \in DOMAIN t /\ i = Len(s) + (i - Len(s)) /\ both[i] = t[i - Len(s)]
      BY <1>1, <2>2
    <3> QED
      BY <3>1
  <2> QED
    BY <2>1, <2>2
<1>5. Has(both, M) <=> Has(s, M) \/ Has(t, M)
  BY ConcatHas
<1> HIDE DEF both
<1>6. ~Has(both, M) => after
  BY <1>5 DEF LastIsGood
<1>7. ASSUME NEW i \in DOMAIN both, both[i] \in M,
             \A j \in DOMAIN both : i < j => both[j] \notin M
      PROVE  both[i] \in G
  <2>1. CASE \E k \in DOMAIN t : i = Len(s) + k /\ both[i] = t[k]
    <3>1. PICK k \in DOMAIN t : i = Len(s) + k /\ both[i] = t[k]
      BY <2>1
    <3>2. ASSUME NEW j \in DOMAIN t, k < j PROVE t[j] \notin M
      <4>1. /\ Len(s) + j \in DOMAIN both /\ both[Len(s) + j] = t[j]
            /\ Len(s) + k < Len(s) + j
        BY <1>3, <3>2
      <4> QED
        BY <1>7, <3>1, <4>1
    <3> QED
      BY <1>7, <3>1, <3>2 DEF LastIsGood
  <2>2. CASE i \in DOMAIN s /\ both[i] = s[i]
    <3>1. ~Has(t, M)
      <4> SUFFICES ASSUME NEW j \in DOMAIN t, t[j] \in M PROVE FALSE
        BY DEF Has
      <4>1. /\ Len(s) + j \in DOMAIN both /\ both[Len(s) + j] = t[j]
            /\ i < Len(s) + j
        BY <1>3, <2>2
      <4> QED
        BY <1>7, <4>1
    <3>2. \A j \in DOMAIN s : i < j => s[j] \notin M
      BY <1>2, <1>7
    <3> QED
      BY <1>7, <2>2, <3>1, <3>2 DEF LastIsGood
  <2> QED
    BY <1>4, <2>1, <2>2
<1>8. LastIsGood(both, M, G, after)
  BY <1>6, <1>7 DEF LastIsGood
<1> QED
  BY <1>8 DEF both

LEMMA GoodAppend ==
  ASSUME NEW S, NEW s \in Seq(S), NEW m \in S, NEW M, NEW G,
         NEW before \in BOOLEAN, NEW after \in BOOLEAN,
         m \in M => m \in G,
         m \notin M => LastIsGood(s, M, G, before) /\ (before => after)
  PROVE  LastIsGood(Append(s, m), M, G, after)
<1>1. /\ <<m>> \in Seq(S) /\ (Has(<<m>>, M) <=> m \in M)
      /\ LastIsGood(<<m>>, M, G, TRUE)
  <2>1. <<m>> \in Seq(S) /\ (Has(<<m>>, M) <=> m \in M)
    BY SingleHas
  <2>2. LastIsGood(<<m>>, M, G, m \in G \/ m \notin M)
    BY GoodSingle
  <2> QED
    BY <2>1, <2>2 DEF LastIsGood
<1>2. Append(s, m) = s \o <<m>>
  BY AppendIsConcat
<1>3. LastIsGood(s \o <<m>>, M, G, after)
  BY <1>1, GoodConcat
<1> QED
  BY <1>2, <1>3

\* What the first message makes of the claim, when it is taken.
LEMMA GoodTail ==
  ASSUME NEW S, NEW s \in Seq(S), s # <<>>, NEW M, NEW G,
         NEW before \in BOOLEAN, NEW after \in BOOLEAN,
         LastIsGood(s, M, G, before),
         Head(s) \in M => (Head(s) \in G => after),
         Head(s) \notin M => (before => after)
  PROVE  LastIsGood(Tail(s), M, G, after)
<1>1. /\ DOMAIN s = 1 .. Len(s) /\ Len(s) \in Nat
      /\ DOMAIN Tail(s) = 1 .. Len(s) - 1
      /\ \A i \in 1 .. Len(s) - 1 : Tail(s)[i] = s[i + 1]
      /\ 1 \in DOMAIN s /\ Head(s) = s[1]
  BY LenProperties, HeadTailProperties, EmptySeq
<1> DEFINE rest == Tail(s)
<1>2. \A i \in DOMAIN rest : i + 1 \in DOMAIN s /\ rest[i] = s[i + 1]
  BY <1>1
<1>3. \A j \in DOMAIN s : j = 1 \/ (j - 1 \in DOMAIN rest /\ rest[j - 1] = s[j])
  BY <1>1
<1>4. DOMAIN s \subseteq Int /\ DOMAIN rest \subseteq Int
  BY <1>1
<1>5. Has(s, M) <=> Head(s) \in M \/ Has(rest, M)
  BY TailHas
<1> HIDE DEF rest
<1>6. ASSUME NEW i \in DOMAIN rest, rest[i] \in M,
             \A j \in DOMAIN rest : i < j => rest[j] \notin M
      PROVE  rest[i] \in G
  <2>1. ASSUME NEW j \in DOMAIN s, i + 1 < j PROVE s[j] \notin M
    <3>1. j # 1 /\ i < j - 1
      BY <1>1, <1>2, <1>4, <2>1
    <3> QED
      BY <1>3, <1>6, <3>1
  <2>2. i + 1 \in DOMAIN s /\ s[i + 1] \in M
    BY <1>2, <1>6
  <2>3. s[i + 1] \in G
    BY <2>1, <2>2 DEF LastIsGood
  <2> QED
    BY <1>2, <2>3
<1>7. ASSUME ~Has(rest, M) PROVE after
  <2>1. CASE Head(s) \in M
    <3>1. ASSUME NEW j \in DOMAIN s, 1 < j PROVE s[j] \notin M
      BY <1>1, <1>3, <1>4, <1>7, <3>1 DEF Has
    <3>2. Head(s) \in G
      BY <1>1, <2>1, <3>1 DEF LastIsGood
    <3> QED
      BY <2>1, <3>2
  <2>2. CASE Head(s) \notin M
    BY <1>5, <1>7, <2>2 DEF LastIsGood
  <2> QED
    BY <2>1, <2>2
<1>8. LastIsGood(rest, M, G, after)
  BY <1>6, <1>7 DEF LastIsGood
<1> QED
  BY <1>8 DEF rest

LEMMA GoodDuplicate ==
  ASSUME NEW S, NEW s \in Seq(S), NEW i \in 1 .. Len(s), NEW M, NEW G,
         NEW claim \in BOOLEAN, LastIsGood(s, M, G, claim)
  PROVE  LastIsGood(SubSeq(s, 1, i) \o SubSeq(s, i, Len(s)), M, G, claim)
<1> DEFINE twice == SubSeq(s, 1, i) \o SubSeq(s, i, Len(s))
<1>1. /\ DOMAIN twice = 1 .. Len(s) + 1
      /\ \A k \in 1 .. Len(s) + 1 : twice[k] = IF k <= i THEN s[k] ELSE s[k - 1]
  BY DuplicateSeq
<1>2. DOMAIN s = 1 .. Len(s) /\ Len(s) \in Nat
  BY LenProperties
<1>3. Has(twice, M) <=> Has(s, M)
  BY DuplicateHas
<1> HIDE DEF twice
<1>4. ASSUME NEW k \in DOMAIN twice, twice[k] \in M,
             \A j \in DOMAIN twice : k < j => twice[j] \notin M
      PROVE  twice[k] \in G
  <2>1. CASE k <= i
    \* The copy that follows is in the set too.
    <3>1. k \in DOMAIN s /\ twice[k] = s[k]
      BY <1>1, <1>2, <2>1
    <3>2. ASSUME NEW j \in DOMAIN s, k < j PROVE s[j] \notin M
      <4>1. CASE j <= i
        BY <1>1, <1>2, <1>4, <3>2, <4>1
      <4>2. CASE ~(j <= i)
        <5>1. /\ j + 1 \in DOMAIN twice /\ k < j + 1 /\ ~(j + 1 <= i) /\ j + 1 - 1 = j
          BY <1>1, <1>2, <3>2, <4>2
        <5>2. twice[j + 1] = s[j]
          BY <1>1, <5>1
        <5> QED
          BY <1>4, <5>1, <5>2
      <4> QED
        BY <4>1, <4>2
    <3> QED
      BY <1>4, <3>1, <3>2 DEF LastIsGood
  <2>2. CASE ~(k <= i)
    <3>1. k - 1 \in DOMAIN s /\ twice[k] = s[k - 1]
      BY <1>1, <1>2, <2>2
    <3>2. ASSUME NEW j \in DOMAIN s, k - 1 < j PROVE s[j] \notin M
      <4>1. /\ j + 1 \in DOMAIN twice /\ k < j + 1 /\ ~(j + 1 <= i) /\ j + 1 - 1 = j
        BY <1>1, <1>2, <2>2, <3>2
      <4>2. twice[j + 1] = s[j]
        BY <1>1, <4>1
      <4> QED
        BY <1>4, <4>1, <4>2
    <3> QED
      BY <1>4, <3>1, <3>2 DEF LastIsGood
  <2> QED
    BY <1>1, <2>1, <2>2
<1>5. LastIsGood(twice, M, G, claim)
  BY <1>3, <1>4 DEF LastIsGood
<1> QED
  BY <1>5 DEF twice

-----------------------------------------------------------------------------
(* A servo stands where its last report says.                              *)

LEMMA UpdateShows ==
  ASSUME NEW change \in Change, NEW p \in Managed, NEW width
  PROVE  /\ Update(change) \in Upward
         /\ Update(change) \in Reporting(p) <=> p \in DOMAIN change
         /\ Update(change) \in Showing(p, width) <=>
              (p \in DOMAIN change => Shows(change[p], width))
<1>1. Update(change) \in Upward
  BY UpdateType
<1>2. Update(change).kind = "update" /\ Update(change).reported = change
  BY DEF Update
<1> QED
  BY <1>1, <1>2 DEF Reporting, Showing

LEMMA ServoStep ==
  ASSUME TypeOK, ConnectionInv, ConsoleInv, ServoInv, [Next]_vars
  PROVE  ServoInv'
<1> SUFFICES ASSUME NEW p \in Managed, servo'[p] # NoPulse, p = First => inputs' = 0
             PROVE  LastIsGood(toCloud', Reporting(p), Showing(p, servo'[p]),
                               Shows(reported'[p], servo'[p]))
  BY DEF ServoInv, LastIsGood, Has, Reporting, Showing, Shows
<1>1. /\ toCloud \in Seq(Upward) /\ toDevice \in Seq(Downward)
      /\ DocumentOK /\ console \in Change /\ p \in Properties
      /\ \A v, width : Shows(v, width) \in BOOLEAN
      /\ \A width : Shows(Absent, width)
  BY TypeParts, ShadowAssumption DEF NetworkOK, ProgramOK, Shows, Values
<1>2. ASSUME servo'[p] = servo[p], p = First => inputs = 0
      PROVE  LastIsGood(toCloud, Reporting(p), Showing(p, servo'[p]),
                        Shows(reported[p], servo'[p]))
  BY <1>2 DEF ServoInv
<1>3. ASSUME NEW change \in Change, toCloud' = Append(toCloud, Update(change)),
             p \in DOMAIN change => Shows(change[p], servo'[p]),
             p \notin DOMAIN change => servo'[p] = servo[p],
             UNCHANGED <<reported, inputs>>
      PROVE  LastIsGood(toCloud', Reporting(p), Showing(p, servo'[p]),
                        Shows(reported'[p], servo'[p]))
  <2> DEFINE m == Update(change)
  <2>1. /\ m \in Upward
        /\ m \in Reporting(p) <=> p \in DOMAIN change
        /\ m \in Reporting(p) => m \in Showing(p, servo'[p])
    BY <1>3, UpdateShows
  <2>2. m \notin Reporting(p) =>
          LastIsGood(toCloud, Reporting(p), Showing(p, servo'[p]),
                     Shows(reported[p], servo'[p]))
    BY <1>2, <1>3, <2>1
  <2>3. toCloud' = Append(toCloud, m) /\ reported' = reported
    BY <1>3
  <2> HIDE DEF m
  <2> QED
    BY <1>1, <2>1, <2>2, <2>3, GoodAppend
<1>4. CASE AcceptUpdate
  <2> DEFINE update == Head(toCloud)
  <2>1. /\ update \in Upward /\ toCloud # <<>> /\ toCloud' = Tail(toCloud)
        /\ update.kind = "update"
    BY <1>1, <1>4, HeadTailProperties DEF AcceptUpdate
  <2>2. /\ UNCHANGED <<servo, inputs>>
        /\ reported' = Merge(reported, update.reported)
    BY <1>4 DEF AcceptUpdate, Accept, program, bounds
  <2>3. LastIsGood(toCloud, Reporting(p), Showing(p, servo'[p]),
                   Shows(reported[p], servo'[p]))
    BY <1>2, <2>2
  <2> HIDE DEF update
  <2>4. /\ update \in Reporting(p) <=> p \in DOMAIN update.reported
        /\ update \in Showing(p, servo'[p]) <=>
             (p \in DOMAIN update.reported => Shows(update.reported[p], servo'[p]))
    BY <2>1 DEF Reporting, Showing
  <2>5. reported'[p] = IF p \in DOMAIN update.reported THEN update.reported[p]
                                                       ELSE reported[p]
    BY <1>1, <2>2 DEF Merge
  <2>6. /\ update \in Reporting(p) =>
             (update \in Showing(p, servo'[p]) => Shows(reported'[p], servo'[p]))
        /\ update \notin Reporting(p) =>
             (Shows(reported[p], servo'[p]) => Shows(reported'[p], servo'[p]))
    BY <2>4, <2>5
  <2> QED
    BY <1>1, <2>1, <2>3, <2>6, GoodTail DEF update
<1>5. CASE AnswerGet
  <2>1. /\ Head(toCloud) \notin Reporting(p) /\ toCloud # <<>>
        /\ toCloud' = Tail(toCloud)
        /\ UNCHANGED <<reported, servo, inputs>>
    BY <1>5 DEF AnswerGet, Reporting, document, program, bounds
  <2>2. LastIsGood(toCloud, Reporting(p), Showing(p, servo'[p]),
                   Shows(reported[p], servo'[p]))
    BY <1>2, <2>1
  <2>3. LastIsGood(Tail(toCloud), Reporting(p), Showing(p, servo'[p]),
                   Shows(reported[p], servo'[p]))
    BY <1>1, <2>1, <2>2, GoodTail
  <2> QED
    BY <2>1, <2>3
<1>6. ASSUME UNCHANGED <<reported, servo, toCloud, inputs>>
      PROVE  LastIsGood(toCloud', Reporting(p), Showing(p, servo'[p]),
                        Shows(reported'[p], servo'[p]))
  BY <1>2, <1>6
<1>7. CASE Application
  BY <1>6, <1>7 DEF Application, Request, RequestGet, Accept, document, program
<1>8. CASE Ended
  BY <1>8 DEF Ended, Still
<1>9. CASE Start
  <2> DEFINE get == [kind |-> "get", desired |-> Nothing, reported |-> Nothing]
  <2>1. /\ toCloud' = Append(toCloud, get) /\ UNCHANGED <<reported, servo, inputs>>
        /\ get \in Upward /\ get \notin Reporting(p)
    BY <1>9, NothingType DEF Start, AskForShadow, Upward, Reporting, document
  <2> HIDE DEF get
  <2>2. LastIsGood(toCloud, Reporting(p), Showing(p, servo'[p]),
                   Shows(reported[p], servo'[p]))
    BY <1>2, <2>1
  <2>3. LastIsGood(Append(toCloud, get), Reporting(p), Showing(p, servo'[p]),
                   Shows(reported[p], servo'[p]))
    BY <1>1, <2>1, <2>2, GoodAppend
  <2> QED
    BY <2>1, <2>3
<1>10. CASE DeltaAnswered
  <2>1. PICK change \in Change : /\ ~Throws(change)
                                 /\ MoveServos(change)
                                 /\ toCloud' = Append(toCloud, Update(change))
    BY <1>10 DEF DeltaAnswered
  <2>2. UNCHANGED <<reported, inputs>>
    BY <1>10 DEF DeltaAnswered, Taken, document, bounds
  <2>3. /\ p \in DOMAIN change => Shows(change[p], servo'[p])
        /\ p \notin DOMAIN change => servo'[p] = servo[p]
    BY <2>1 DEF MoveServos, Shows
  <2> QED
    BY <1>3, <2>1, <2>2, <2>3
<1>11. CASE ShadowTaken
  <2>1. UNCHANGED <<reported, inputs, servo>>
    BY <1>11 DEF ShadowTaken, Taken, document, bounds
  <2>2. toCloud' = Append(toCloud, Update(Nothing)) \/ toCloud' = toCloud
    BY <1>1, <1>11, EmptyUpdate DEF ShadowTaken
  <2> QED
    BY <1>3, <1>6, <2>1, <2>2, NothingType
<1>12. CASE DeltaIgnored \/ EchoTaken \/ NoShadowTaken
  BY <1>6, <1>12 DEF DeltaIgnored, EchoTaken, NoShadowTaken, Taken, document,
     program, bounds
<1>13. ASSUME NEW input \in Values \cup {Absent, Clear}, InputTaken(input)
       PROVE  LastIsGood(toCloud', Reporting(p), Showing(p, servo'[p]),
                         Shows(reported'[p], servo'[p]))
  <2>1. p # First
    BY <1>13 DEF InputTaken, TypeOK
  <2>2. servo'[p] = servo[p]
    BY <1>13, <2>1, ShadowAssumption DEF InputTaken, MoveServos, ChangeOf, Values
  <2>3. UNCHANGED <<reported, toCloud>>
    BY <1>13 DEF InputTaken, document, network
  <2> QED
    BY <1>2, <2>1, <2>2, <2>3
<1>14. CASE PublishInput
  <2>1. /\ console # Nothing /\ toCloud' = Append(toCloud, Update(console))
        /\ UNCHANGED <<reported, inputs, servo>>
    BY <1>14 DEF PublishInput, document, bounds
  <2>2. p # First
    BY <2>1 DEF ConsoleInv
  <2>3. p \in DOMAIN console => Shows(console[p], servo'[p])
    BY <1>1, <2>2 DEF ConsoleInv
  <2> QED
    BY <1>1, <1>3, <2>1, <2>3
<1>15. CASE Device
  BY <1>8, <1>9, <1>10, <1>11, <1>12, <1>13, <1>14, <1>15, DeviceCases DEF Returns
<1>16. CASE Duplicate \/ Overtake \/ Reconnect
  BY <1>6, <1>16 DEF Duplicate, Overtake, Reconnect, Fault, document
<1>17. CASE UNCHANGED vars
  BY <1>6, <1>17 DEF vars, document, network, program, bounds
<1> QED
  BY <1>4, <1>5, <1>7, <1>15, <1>16, <1>17 DEF Next, Service

\* A servo that this run of the program has moved stands where the shadow says
\* once nothing is on its way: the last report of it on its way to the service
\* shows its position and overwrites the earlier ones.
THEOREM ServoAsReportedHolds == Spec => []ServoAsReported
<1> DEFINE IInv == TypeOK /\ ConnectionInv /\ ConsoleInv /\ ServoInv
<1>1. Init => IInv
  <2> SUFFICES ASSUME Init PROVE IInv
    OBVIOUS
  <2>1. TypeOK /\ ConnectionInv
    BY TypeInit DEF Init, ConnectionInv
  <2>2. ConsoleInv
    BY NothingType DEF Init, ConsoleInv
  <2>3. ServoInv
    BY DEF Init, ServoInv, Still
  <2> QED
    BY <2>1, <2>2, <2>3
<1>2. IInv /\ [Next]_vars => IInv'
  BY TypeStep, ConnectionStep, ConsoleStep, ServoStep
<1>3. IInv => ServoAsReported
  <2> SUFFICES ASSUME IInv, Quiet, NEW p \in Managed, servo[p] # NoPulse,
                      reported[p] \in Numbers, p = First => inputs = 0
               PROVE  servo[p] = Pulse(reported[p])
    BY DEF ServoAsReported
  <2>1. toCloud = <<>>
    BY DEF Quiet, network
  <2>2. ~Has(toCloud, Reporting(p))
    BY <2>1, EmptyHas
  <2>3. Shows(reported[p], servo[p])
    BY <2>2 DEF ServoInv, LastIsGood
  <2> QED
    BY <2>3 DEF Shows
<1> HIDE DEF IInv
<1> QED
  BY <1>1, <1>2, <1>3, PTL DEF Spec

-----------------------------------------------------------------------------
(* The local value is the reported one once the echoes have come, in order. *)

\* Of what an accepted update publishes, the echo sets the local value.
LEMMA AcceptGood ==
  ASSUME toDevice \in Seq(Downward), NEW d \in Section, NEW r \in Section,
         NEW echo \in Change, Accept(d, r, echo), subscribed,
         NEW p \in Managed, p \in DOMAIN echo => echo[p] \in {Absent, r[p]},
         NEW after \in BOOLEAN
  PROVE  LastIsGood(toDevice', Setting(p), Fresh(p, r[p]), after)
<1> DEFINE first == [topic |-> "update/accepted", state |-> echo]
           second == [topic |-> "delta", state |-> Difference(d, r)]
<1>1. /\ first \in Downward /\ second \in Downward
      /\ <<first>> \in Seq(Downward) /\ Delta(d, r) \in Seq(Downward)
      /\ toDevice' = toDevice \o (<<first>> \o Delta(d, r))
  BY AcceptedType DEF Accept, Publish
<1>2. /\ Delta(d, r) = IF Difference(d, r) = Nothing THEN <<>> ELSE <<second>>
      /\ first \in Setting(p) /\ first \in Fresh(p, r[p]) /\ second \notin Setting(p)
  BY <1>1 DEF Delta, Setting, Fresh
<1> HIDE DEF first, second
<1>3. ~Has(Delta(d, r), Setting(p)) /\ Has(<<first>>, Setting(p))
  BY <1>1, <1>2, SingleHas, EmptyHas
<1>4. LastIsGood(<<first>>, Setting(p), Fresh(p, r[p]), TRUE)
  <2>1. LastIsGood(<<first>>, Setting(p), Fresh(p, r[p]),
                   first \in Fresh(p, r[p]) \/ first \notin Setting(p))
    BY <1>1, <1>2, GoodSingle
  <2> QED
    BY <2>1 DEF LastIsGood
<1> DEFINE both == <<first>> \o Delta(d, r)
<1>5. both \in Seq(Downward) /\ Has(both, Setting(p))
  BY <1>1, <1>3, ConcatProperties, ConcatHas
<1>6. LastIsGood(both, Setting(p), Fresh(p, r[p]), TRUE)
  <2>1. LastIsGood(Delta(d, r), Setting(p), Fresh(p, r[p]), TRUE)
    BY <1>1, <1>3, GoodNone
  <2> QED
    BY <1>1, <1>4, <2>1, GoodConcat
<1>7. toDevice' = toDevice \o both
  BY <1>1
<1> HIDE DEF both
<1>8. LastIsGood(toDevice \o both, Setting(p), Fresh(p, r[p]), after)
  BY <1>5, <1>6, GoodConcat
<1> QED
  BY <1>7, <1>8

\* The shadow sent to whoever asks has the reported values.
LEMMA ReplyGood ==
  ASSUME toDevice \in Seq(Downward), DocumentOK,
         NEW reply \in Replies, Publish(<<reply>>), subscribed,
         NEW p \in Managed, NEW claim \in BOOLEAN,
         LastIsGood(toDevice, Setting(p), Fresh(p, reported[p]), claim)
  PROVE  LastIsGood(toDevice', Setting(p), Fresh(p, reported[p]), claim)
<1>1. reply \in Downward
  BY RepliesType
<1>2. reply \in Setting(p) => reply \in Fresh(p, reported[p])
  <2>1. reply = [topic |-> "get/accepted", state |-> Present(reported)]
          \/ reply.topic = "get/rejected"
    BY DEF Replies
  <2>2. CASE reply = [topic |-> "get/accepted", state |-> Present(reported)]
    BY <1>1, <2>2 DEF Fresh, Present
  <2>3. CASE reply.topic = "get/rejected"
    BY <2>3 DEF Setting
  <2> QED
    BY <2>1, <2>2, <2>3
<1>3. /\ <<reply>> \in Seq(Downward)
      /\ Has(<<reply>>, Setting(p)) <=> reply \in Setting(p)
      /\ LastIsGood(<<reply>>, Setting(p), Fresh(p, reported[p]), TRUE)
  <2> DEFINE M == Setting(p)
             G == Fresh(p, reported[p])
  <2>1. reply \in M => reply \in G
    BY <1>2
  <2> HIDE DEF M, G
  <2>2. <<reply>> \in Seq(Downward) /\ (Has(<<reply>>, M) <=> reply \in M)
    BY <1>1, SingleHas
  <2>3. LastIsGood(<<reply>>, M, G, reply \in G \/ reply \notin M)
    BY <1>1, <2>1, GoodSingle
  <2>4. LastIsGood(<<reply>>, M, G, TRUE)
    BY <2>3 DEF LastIsGood
  <2> QED
    BY <2>2, <2>4 DEF M, G
<1>4. LastIsGood(toDevice \o <<reply>>, Setting(p), Fresh(p, reported[p]), claim)
  BY <1>3, GoodConcat
<1> QED
  BY <1>4 DEF Publish

LEMMA LocalStep ==
  ASSUME "reorder" \notin Faults, TypeOK, ConnectionInv, LocalInv, [Next]_vars
  PROVE  LocalInv'
<1> SUFFICES ASSUME subscribed', NEW p \in Managed
             PROVE  LastIsGood(toDevice', Setting(p), Fresh(p, reported'[p]),
                               local'[p] \in {Absent, reported'[p]})
  BY DEF LocalInv, LastIsGood, Has, Setting, Fresh
<1>1. /\ toCloud \in Seq(Upward) /\ toDevice \in Seq(Downward)
      /\ DocumentOK /\ p \in Properties
  BY TypeParts, ShadowAssumption DEF NetworkOK
<1>2. subscribed => LastIsGood(toDevice, Setting(p), Fresh(p, reported[p]),
                               local[p] \in {Absent, reported[p]})
  BY DEF LocalInv
<1>3. ASSUME UNCHANGED <<subscribed, toDevice, reported, local>>
      PROVE  LastIsGood(toDevice', Setting(p), Fresh(p, reported'[p]),
                        local'[p] \in {Absent, reported'[p]})
  BY <1>2, <1>3
<1>4. ASSUME NEW d \in Section, NEW echo \in Change, Accept(d, reported', echo),
             reported' \in Section, subscribed,
             p \in DOMAIN echo => echo[p] = reported'[p]
      PROVE  LastIsGood(toDevice', Setting(p), Fresh(p, reported'[p]),
                        local'[p] \in {Absent, reported'[p]})
  <2> DEFINE after == local'[p] \in {Absent, reported'[p]}
  <2>1. after \in BOOLEAN
    OBVIOUS
  <2> HIDE DEF after
  <2>2. LastIsGood(toDevice', Setting(p), Fresh(p, reported'[p]), after)
    BY <1>1, <1>4, <2>1, AcceptGood
  <2> QED
    BY <2>2 DEF after
<1>5. CASE AcceptUpdate
  <2> DEFINE update == Head(toCloud)
  <2>1. update \in Upward
    BY <1>1, <1>5, HeadTailProperties DEF AcceptUpdate
  <2>2. update.desired \in Change /\ update.reported \in Change
    BY <2>1 DEF Upward
  <2>3. /\ Accept(Merge(desired, update.desired), Merge(reported, update.reported),
                  update.reported)
        /\ UNCHANGED program
    BY <1>5 DEF AcceptUpdate
  <2> HIDE DEF update
  <2>4. /\ Merge(desired, update.desired) \in Section
        /\ Merge(reported, update.reported) \in Section
        /\ reported' = Merge(reported, update.reported)
    BY <1>1, <2>2, <2>3, MergeType DEF DocumentOK, Accept
  <2>5. p \in DOMAIN update.reported => update.reported[p] = reported'[p]
    BY <1>1, <2>4 DEF Merge
  <2>6. subscribed
    BY <2>3 DEF program
  <2> QED
    BY <1>4, <2>2, <2>3, <2>4, <2>5, <2>6
<1>6. ASSUME NEW reply \in Replies, Publish(<<reply>>), UNCHANGED <<document, program>>
      PROVE  LastIsGood(toDevice', Setting(p), Fresh(p, reported'[p]),
                        local'[p] \in {Absent, reported'[p]})
  <2> DEFINE claim == local[p] \in {Absent, reported[p]}
  <2>1. claim \in BOOLEAN
    OBVIOUS
  <2>2. /\ subscribed /\ reported' = reported /\ local' = local
        /\ LastIsGood(toDevice, Setting(p), Fresh(p, reported[p]), claim)
    BY <1>2, <1>6 DEF document, program
  <2> HIDE DEF claim
  <2>3. LastIsGood(toDevice', Setting(p), Fresh(p, reported[p]), claim)
    BY <1>1, <1>6, <2>1, <2>2, ReplyGood
  <2> QED
    BY <2>2, <2>3 DEF claim
<1>7. CASE AnswerGet \/ RequestGet
  BY <1>6, <1>7 DEF AnswerGet, RequestGet
<1>8. ASSUME NEW q \in Properties, NEW v \in Values \cup {Absent}, Request(q, v)
      PROVE  LastIsGood(toDevice', Setting(p), Fresh(p, reported'[p]),
                        local'[p] \in {Absent, reported'[p]})
  <2>1. [desired EXCEPT ![q] = v] \in Section /\ reported \in Section
    BY <1>1 DEF DocumentOK, Section
  <2>2. /\ Accept([desired EXCEPT ![q] = v], reported, Nothing)
        /\ reported' = reported /\ subscribed
    BY <1>8 DEF Request, Accept, program
  <2> QED
    BY <1>4, <2>1, <2>2, NothingType
<1>9. CASE Start
  <2>1. toDevice' = <<>> /\ local'[p] = Absent
    BY <1>9 DEF Start, ConnectionInv, Blank
  <2> QED
    BY <2>1, EmptyHas DEF LastIsGood
<1>10. CASE Returns
  <2> DEFINE message == Head(toDevice)
             before  == local[p] \in {Absent, reported[p]}
             after   == local'[p] \in {Absent, reported[p]}
  <2>1. PICK topic : Taken(topic)
    BY <1>10 DEF Returns, DeltaAnswered, DeltaIgnored, EchoTaken, ShadowTaken,
       NoShadowTaken
  <2>2. /\ toDevice # <<>> /\ toDevice' = Tail(toDevice)
        /\ reported' = reported /\ message \in Downward
    BY <1>1, <2>1, HeadTailProperties DEF Taken, document
  <2>3. subscribed
    BY <1>10 DEF Returns, DeltaAnswered, DeltaIgnored, EchoTaken, ShadowTaken,
       NoShadowTaken, program
  <2>4. /\ message \in Setting(p) => (message \in Fresh(p, reported[p]) => after)
        /\ message \notin Setting(p) => (before => after)
    <3>1. CASE DeltaAnswered \/ DeltaIgnored \/ NoShadowTaken
      <4>1. message \notin Setting(p)
        BY <3>1 DEF DeltaAnswered, DeltaIgnored, NoShadowTaken, Taken, Setting
      <4>2. local' = local
        BY <3>1 DEF DeltaAnswered, DeltaIgnored, NoShadowTaken, program
      <4> QED
        BY <4>1, <4>2
    <3>2. CASE EchoTaken
      <4>1. local'[p] = IF p \in Matched(message) THEN message.state[p] ELSE Absent
        BY <3>2 DEF EchoTaken, EchoedLocal
      <4>2. message \in Setting(p)
        BY <2>2, <3>2 DEF EchoTaken, Taken, Setting
      <4> QED
        BY <4>1, <4>2 DEF Matched, Fresh
    <3>3. CASE ShadowTaken
      <4>1. local'[p] = IF p \in Matched(message) THEN message.state[p] ELSE local[p]
        BY <3>3 DEF ShadowTaken
      <4>2. message \in Setting(p) <=> p \in Matched(message)
        BY <2>2, <3>3 DEF ShadowTaken, Taken, Setting, Matched
      <4> QED
        BY <4>1, <4>2 DEF Matched, Fresh
    <3> QED
      BY <1>10, <3>1, <3>2, <3>3 DEF Returns
  <2>5. before \in BOOLEAN /\ after \in BOOLEAN
    OBVIOUS
  <2>6. LastIsGood(toDevice, Setting(p), Fresh(p, reported[p]), before)
    BY <1>2, <2>3
  <2> HIDE DEF before, after
  <2>7. LastIsGood(Tail(toDevice), Setting(p), Fresh(p, reported[p]), after)
    BY <1>1, <2>2, <2>4, <2>5, <2>6, GoodTail
  <2> QED
    BY <2>2, <2>7 DEF after
<1>11. CASE PublishInput \/ \E input \in Values \cup {Absent, Clear} : InputTaken(input)
  BY <1>3, <1>11 DEF PublishInput, InputTaken, document, network
<1>12. CASE Device
  BY <1>9, <1>10, <1>11, <1>12, DeviceCases DEF Ended
<1>13. CASE Duplicate
  <2> DEFINE claim == local[p] \in {Absent, reported[p]}
  <2>1. claim \in BOOLEAN
    OBVIOUS
  <2>2. /\ reported' = reported /\ local' = local
        /\ LastIsGood(toDevice, Setting(p), Fresh(p, reported[p]), claim)
    BY <1>2, <1>13 DEF Duplicate, Fault, document
  <2> HIDE DEF claim
  <2>3. LastIsGood(toDevice', Setting(p), Fresh(p, reported[p]), claim)
    BY <1>1, <1>13, <2>1, <2>2, GoodDuplicate DEF Duplicate
  <2> QED
    BY <2>2, <2>3 DEF claim
<1>14. CASE Overtake \/ Reconnect
  BY <1>14 DEF Overtake, Reconnect, Fault
<1>15. CASE UNCHANGED vars
  BY <1>3, <1>15 DEF vars, document, network, program
<1> QED
  BY <1>5, <1>7, <1>8, <1>12, <1>13, <1>14, <1>15 DEF Next, Service, Application

\* While messages come in order, repeated or lost as they may be, the value the
\* console compares its input with is the reported one or none once nothing is
\* on its way.
THEOREM LocalNotStaleHolds ==
  ASSUME "reorder" \notin Faults
  PROVE  Spec => []LocalNotStale
<1> DEFINE IInv == TypeOK /\ ConnectionInv /\ LocalInv
<1>1. Init => IInv
  BY TypeInit DEF Init, ConnectionInv, LocalInv
<1>2. IInv /\ [Next]_vars => IInv'
  BY TypeStep, ConnectionStep, LocalStep
<1>3. IInv => LocalNotStale
  <2> SUFFICES ASSUME IInv, Quiet, NEW p \in Managed
               PROVE  local[p] \in {Absent, reported[p]}
    BY DEF LocalNotStale
  <2>1. toDevice = <<>> /\ subscribed
    BY DEF Quiet, network
  <2>2. ~Has(toDevice, Setting(p))
    BY <2>1, EmptyHas
  <2> QED
    BY <2>1, <2>2 DEF LocalInv, LastIsGood
<1> HIDE DEF IInv
<1> QED
  BY <1>1, <1>2, <1>3, PTL DEF Spec

=============================================================================
