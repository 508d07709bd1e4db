------------------------ MODULE CandidateOrder_proofs ------------------------
(***************************************************************************)
(* Proofs about the candidates StreamingSessions moves from clients to     *)
(* sessions: each is in one place, in its turn, and none is skipped.  The  *)
(* turn is that of its handler at the lock; nothing is said of the order   *)
(* in which the client handled them.                                          *)
(*                                                                         *)
(* A candidate reaches a session directly or through its client's pending  *)
(* queue, so what is claimed of the sessions has to hold of the queues,    *)
(* and between a session and a queue, as well; and that the next candidate *)
(* is a new one needs every number in use to have been handled.            *)
(***************************************************************************)
EXTENDS StreamingSessions_proofs

\* Of each client, the numbers grow.
Ordered(seq) ==
  \A i, j \in DOMAIN seq :
    i < j /\ seq[i].client = seq[j].client => seq[i].number < seq[j].number

\* They are among the so many handled of each client.
AlreadyHandled(seq, many) ==
  \A i \in DOMAIN seq : seq[i].number <= many[seq[i].client]

\* No candidate is in both.
Apart(seq, other) ==
  \A i \in DOMAIN seq, j \in DOMAIN other :
    seq[i].client = other[j].client => seq[i].number # other[j].number

QueueOrder ==
  \A q \in DOMAIN pending :
    /\ Ordered(pending[q].messages)
    /\ AlreadyHandled(pending[q].messages, handled)
    /\ \A i \in DOMAIN pending[q].messages :
         Hash[pending[q].messages[i].client] = pending[q].hash

SessionOrder ==
  \A s \in DOMAIN session :
    /\ Ordered(session[s].candidates)
    /\ AlreadyHandled(session[s].candidates, handled)
    /\ \A t \in DOMAIN session \ {s} :
         Apart(session[s].candidates, session[t].candidates)
    /\ \A q \in DOMAIN pending :
         Apart(session[s].candidates, pending[q].messages)

OrderInv == QueueOrder /\ SessionOrder

\* Of each client of the hash, everything from its first candidate here to the
\* last handled is here.
Complete(seq, h, many) ==
  \A c \in Clients, i \in DOMAIN seq :
    Hash[c] = h /\ seq[i].client = c =>
      \A n \in seq[i].number .. many[c] :
        \E j \in DOMAIN seq : seq[j].client = c /\ seq[j].number = n

\* A queue is complete, and so is the session that took its hash's queue; from
\* then on it is the session that gets its clients' candidates.
CompleteInv ==
  /\ \A q \in DOMAIN pending :
       Complete(pending[q].messages, pending[q].hash, handled)
  /\ \A h \in Hashes : peerTable[h] # NoSession =>
       Complete(session[peerTable[h]].candidates, h, handled)

\* A hit in the table is allocated, and no other hash's: PeerTableSound, for the
\* sessions of the list are allocated.
TableInv ==
  \A h \in Hashes : peerTable[h] # NoSession =>
    /\ peerTable[h] \in DOMAIN session
    /\ Hash[session[peerTable[h]].peer] = h

LEMMA TableCorrect == RegistryInv => TableInv
  BY DEF RegistryInv, SessionListSound, PeerTableSound, TableInv

\* The sequences the types allow.
LEMMA SequencesType ==
  ASSUME TypeOK
  PROVE  /\ \A q \in DOMAIN pending :
              /\ pending[q].messages \in Seq(Candidate)
              /\ DOMAIN pending[q].messages = 1 .. Len(pending[q].messages)
              /\ Len(pending[q].messages) \in Nat
         /\ \A s \in DOMAIN session :
              /\ session[s].candidates \in Seq(Candidate)
              /\ DOMAIN session[s].candidates = 1 .. Len(session[s].candidates)
              /\ Len(session[s].candidates) \in Nat
<1>1. /\ \A q \in DOMAIN pending : pending[q].messages \in Seq(Candidate)
      /\ \A s \in DOMAIN session : session[s].candidates \in Seq(Candidate)
  BY DEF TypeOK, Queue, Session
<1> QED
  BY <1>1, LenProperties

\* What is handled next of a client is a candidate with a number of its own;
\* appended it comes after what was there.
LEMMA AppendNext ==
  ASSUME TypeOK, NEW c \in Clients, handled[c] < MaxCandidates,
         handled' = [handled EXCEPT ![c] = @ + 1],
         NEW seq \in Seq(Candidate), Ordered(seq), AlreadyHandled(seq, handled)
  PROVE  LET longer == Append(seq, NextCandidate(c)) IN
         /\ DOMAIN longer = 1 .. Len(seq) + 1
         /\ \A i \in DOMAIN seq : longer[i] = seq[i]
         /\ longer[Len(seq) + 1] = NextCandidate(c)
         /\ Ordered(longer)
         /\ AlreadyHandled(longer, handled')
<1> DEFINE longer == Append(seq, NextCandidate(c))
<1>1. /\ handled[c] \in Nat /\ MaxCandidates \in Nat
      /\ \A d \in Clients : handled[d] \in Nat
      /\ \A d \in Clients : handled'[d] = IF d = c THEN handled[c] + 1 ELSE handled[d]
  BY SessionsAssumption DEF TypeOK
<1>2. /\ NextCandidate(c) \in Candidate
      /\ NextCandidate(c).client = c
      /\ NextCandidate(c).number = handled[c] + 1
  BY <1>1 DEF NextCandidate, Candidate
<1>3. /\ Len(seq) \in Nat
      /\ DOMAIN seq = 1 .. Len(seq)
      /\ \A i \in DOMAIN seq : seq[i].client \in Clients /\ seq[i].number \in Nat
  <2>1. Len(seq) \in Nat /\ DOMAIN seq = 1 .. Len(seq) /\ seq \in [1 .. Len(seq) -> Candidate]
    BY LenProperties
  <2> QED
    BY <1>1, <2>1 DEF Candidate
<1>4. /\ DOMAIN longer = 1 .. Len(seq) + 1
      /\ \A i \in 1 .. Len(seq) : longer[i] = seq[i]
      /\ longer[Len(seq) + 1] = NextCandidate(c)
  BY <1>2, AppendProperties, LenProperties
<1> HIDE DEF longer
<1>5. \A i \in DOMAIN seq : seq[i].client = c => seq[i].number < handled[c] + 1
  BY <1>1, <1>3 DEF AlreadyHandled
<1>6. Ordered(longer)
  <2> SUFFICES ASSUME NEW i \in 1 .. Len(seq) + 1, NEW j \in 1 .. Len(seq) + 1,
                      i < j, longer[i].client = longer[j].client
               PROVE  longer[i].number < longer[j].number
    BY <1>4 DEF Ordered
  <2>1. i \in DOMAIN seq /\ longer[i] = seq[i]
    BY <1>3, <1>4
  <2>2. CASE j = Len(seq) + 1
    BY <1>2, <1>4, <1>5, <2>1, <2>2
  <2>3. CASE j # Len(seq) + 1
    <3>1. j \in DOMAIN seq /\ longer[j] = seq[j]
      BY <1>3, <1>4, <2>3
    <3> QED
      BY <2>1, <3>1 DEF Ordered
  <2> QED
    BY <2>2, <2>3
<1>7. AlreadyHandled(longer, handled')
  <2> SUFFICES ASSUME NEW i \in 1 .. Len(seq) + 1
               PROVE  longer[i].number <= handled'[longer[i].client]
    BY <1>4 DEF AlreadyHandled
  <2>1. CASE i = Len(seq) + 1
    BY <1>1, <1>2, <1>4, <2>1
  <2>2. CASE i # Len(seq) + 1
    <3>1. i \in DOMAIN seq /\ longer[i] = seq[i]
      BY <1>3, <1>4, <2>2
    <3> QED
      BY <1>1, <1>3, <3>1 DEF AlreadyHandled
  <2> QED
    BY <2>1, <2>2
<1> QED
  BY <1>3, <1>4, <1>6, <1>7 DEF longer

\* A number handled stays handled.
LEMMA HandledStaysHandled ==
  ASSUME TypeOK, NEW c \in Clients, handled' = [handled EXCEPT ![c] = @ + 1],
         NEW seq \in Seq(Candidate), AlreadyHandled(seq, handled)
  PROVE  AlreadyHandled(seq, handled')
<1>1. \A i \in DOMAIN seq : seq[i].client \in Clients /\ seq[i].number \in Nat
  <2>1. DOMAIN seq = 1 .. Len(seq) /\ seq \in [1 .. Len(seq) -> Candidate]
    BY LenProperties
  <2> QED
    BY <2>1, SessionsAssumption DEF Candidate
<1>2. \A d \in Clients : handled[d] \in Nat /\ handled'[d] \in Nat /\ handled[d] <= handled'[d]
  BY SessionsAssumption DEF TypeOK
<1> QED
  BY <1>1, <1>2 DEF AlreadyHandled

LEMMA ApartSymmetric ==
  ASSUME NEW seq, NEW other, Apart(seq, other)
  PROVE  Apart(other, seq)
  BY DEF Apart

\* What is handled next is nowhere yet.
LEMMA NextIsApart ==
  ASSUME TypeOK, NEW c \in Clients, handled[c] < MaxCandidates,
         handled' = [handled EXCEPT ![c] = @ + 1],
         NEW seq \in Seq(Candidate), Ordered(seq), AlreadyHandled(seq, handled),
         NEW other \in Seq(Candidate), AlreadyHandled(other, handled),
         Apart(seq, other)
  PROVE  Apart(Append(seq, NextCandidate(c)), other)
<1> DEFINE longer == Append(seq, NextCandidate(c))
<1>1. /\ DOMAIN longer = 1 .. Len(seq) + 1
      /\ \A i \in DOMAIN seq : longer[i] = seq[i]
      /\ longer[Len(seq) + 1] = NextCandidate(c)
  BY AppendNext
<1>2. Len(seq) \in Nat /\ DOMAIN seq = 1 .. Len(seq)
  BY LenProperties
<1> HIDE DEF longer
<1>3. \A j \in DOMAIN other : other[j].client = c => other[j].number # handled[c] + 1
  <2>1. DOMAIN other = 1 .. Len(other) /\ other \in [1 .. Len(other) -> Candidate]
    BY LenProperties
  <2>2. handled[c] \in Nat
    BY SessionsAssumption DEF TypeOK
  <2> QED
    BY <2>1, <2>2 DEF AlreadyHandled, Candidate
<1>4. Apart(longer, other)
  <2> SUFFICES ASSUME NEW i \in 1 .. Len(seq) + 1, NEW j \in DOMAIN other,
                      longer[i].client = other[j].client
               PROVE  longer[i].number # other[j].number
    BY <1>1 DEF Apart
  <2>1. CASE i = Len(seq) + 1
    <3>1. longer[i].client = c /\ longer[i].number = handled[c] + 1
      BY <1>1, <2>1 DEF NextCandidate
    <3> QED
      BY <1>3, <3>1
  <2>2. CASE i # Len(seq) + 1
    <3>1. i \in DOMAIN seq /\ longer[i] = seq[i]
      BY <1>1, <1>2, <2>2
    <3> QED
      BY <3>1 DEF Apart
  <2> QED
    BY <2>1, <2>2
<1> QED
  BY <1>4 DEF longer

(***************************************************************************)
(* What a step may do to candidates: nothing but free some of them, hand a *)
(* queue's first ones to a new session, or add the next one of a client to *)
(* a queue or to a session.                                                *)
(***************************************************************************)
LEMMA FreeOrder ==
  ASSUME OrderInv, UNCHANGED handled,
         DOMAIN session' \subseteq DOMAIN session,
         \A s \in DOMAIN session' : session'[s].candidates = session[s].candidates,
         DOMAIN pending' \subseteq DOMAIN pending,
         \A q \in DOMAIN pending' : /\ pending'[q].messages = pending[q].messages
                                    /\ pending'[q].hash = pending[q].hash
  PROVE  OrderInv'
<1>1. QueueOrder'
  BY DEF OrderInv, QueueOrder, Ordered, AlreadyHandled
<1>2. SessionOrder'
  <2> SUFFICES ASSUME NEW s \in DOMAIN session'
               PROVE  /\ Ordered(session[s].candidates)
                      /\ AlreadyHandled(session[s].candidates, handled)
                      /\ \A t \in DOMAIN session' \ {s} :
                           Apart(session[s].candidates, session[t].candidates)
                      /\ \A q \in DOMAIN pending' :
                           Apart(session[s].candidates, pending[q].messages)
    BY DEF SessionOrder
  <2> QED
    BY DEF OrderInv, SessionOrder
<1> QED
  BY <1>1, <1>2 DEF OrderInv

\* A new session is handed what no session has and no queue keeps.
LEMMA HandOrder ==
  ASSUME OrderInv, UNCHANGED handled, NEW s, NEW c, NEW handed,
         NewSession(s, c, handed),
         Ordered(handed), AlreadyHandled(handed, handled),
         \A t \in DOMAIN session : Apart(session[t].candidates, handed),
         DOMAIN pending' \subseteq DOMAIN pending,
         \A q \in DOMAIN pending' : /\ pending'[q] = pending[q]
                                    /\ Apart(handed, pending[q].messages)
  PROVE  OrderInv'
<1>1. QueueOrder'
  BY DEF OrderInv, QueueOrder
<1>2. /\ s \notin DOMAIN session
      /\ DOMAIN session' = DOMAIN session \cup {s}
      /\ session'[s].candidates = handed
      /\ \A t \in DOMAIN session : session'[t] = session[t]
  BY DEF NewSession
<1>3. SessionOrder'
  <2> SUFFICES ASSUME NEW t \in DOMAIN session'
               PROVE  /\ Ordered(session'[t].candidates)
                      /\ AlreadyHandled(session'[t].candidates, handled)
                      /\ \A u \in DOMAIN session' \ {t} :
                           Apart(session'[t].candidates, session'[u].candidates)
                      /\ \A q \in DOMAIN pending' :
                           Apart(session'[t].candidates, pending[q].messages)
    BY DEF SessionOrder
  <2>1. CASE t = s
    BY <1>2, <2>1, ApartSymmetric
  <2>2. CASE t # s
    BY <1>2, <2>2 DEF OrderInv, SessionOrder
  <2> QED
    BY <2>1, <2>2
<1> QED
  BY <1>1, <1>3 DEF OrderInv

\* A queue of the client's hash, or a new one, gets the next candidate.
LEMMA QueueGrowsOrder ==
  ASSUME TypeOK, OrderInv, NEW c \in Clients, handled[c] < MaxCandidates,
         handled' = [handled EXCEPT ![c] = @ + 1], UNCHANGED session,
         NEW q, NEW old \in Seq(Candidate),
         IF q \in DOMAIN pending
           THEN pending[q].hash = Hash[c] /\ old = pending[q].messages
           ELSE old = <<>>,
         DOMAIN pending' = DOMAIN pending \cup {q},
         \A r \in DOMAIN pending \ {q} : pending'[r] = pending[r],
         pending'[q].hash = Hash[c],
         pending'[q].messages = Append(old, NextCandidate(c))
  PROVE  OrderInv'
<1> DEFINE longer == Append(old, NextCandidate(c))
<1>1. /\ Ordered(old) /\ AlreadyHandled(old, handled)
      /\ \A i \in DOMAIN old : Hash[old[i].client] = Hash[c]
      /\ \A s \in DOMAIN session : Apart(old, session[s].candidates)
  <2>1. CASE q \in DOMAIN pending
    BY <2>1, ApartSymmetric DEF OrderInv, QueueOrder, SessionOrder
  <2>2. CASE q \notin DOMAIN pending
    <3>1. DOMAIN old = {}
      BY <2>2
    <3> QED
      BY <3>1 DEF Ordered, AlreadyHandled, Apart
  <2> QED
    BY <2>1, <2>2
<1>2. /\ DOMAIN longer = 1 .. Len(old) + 1
      /\ \A i \in DOMAIN old : longer[i] = old[i]
      /\ longer[Len(old) + 1] = NextCandidate(c)
      /\ Ordered(longer) /\ AlreadyHandled(longer, handled')
  BY <1>1, AppendNext
<1>3. \A s \in DOMAIN session :
        /\ AlreadyHandled(session[s].candidates, handled')
        /\ Apart(session[s].candidates, longer)
  BY <1>1, SequencesType, HandledStaysHandled, NextIsApart, ApartSymmetric
     DEF OrderInv, SessionOrder
<1>4. \A r \in DOMAIN pending : AlreadyHandled(pending[r].messages, handled')
  BY SequencesType, HandledStaysHandled DEF OrderInv, QueueOrder
<1>5. \A i \in DOMAIN longer : Hash[longer[i].client] = Hash[c]
  <2>1. Len(old) \in Nat /\ DOMAIN old = 1 .. Len(old)
    BY LenProperties
  <2>2. \A i \in DOMAIN longer : i \in DOMAIN old \/ i = Len(old) + 1
    BY <1>2, <2>1
  <2> HIDE DEF longer
  <2> QED
    BY <1>1, <1>2, <2>2 DEF NextCandidate
<1>6. pending'[q].messages = longer
  OBVIOUS
<1> HIDE DEF longer
<1>7. QueueOrder'
  <2> SUFFICES ASSUME NEW r \in DOMAIN pending'
               PROVE  /\ Ordered(pending'[r].messages)
                      /\ AlreadyHandled(pending'[r].messages, handled')
                      /\ \A i \in DOMAIN pending'[r].messages :
                           Hash[pending'[r].messages[i].client] = pending'[r].hash
    BY DEF QueueOrder
  <2>1. CASE r = q
    BY <1>2, <1>5, <1>6, <2>1
  <2>2. CASE r # q
    BY <1>4, <2>2 DEF OrderInv, QueueOrder
  <2> QED
    BY <2>1, <2>2
<1>8. SessionOrder'
  <2> SUFFICES ASSUME NEW s \in DOMAIN session
               PROVE  /\ Ordered(session[s].candidates)
                      /\ AlreadyHandled(session[s].candidates, handled')
                      /\ \A t \in DOMAIN session \ {s} :
                           Apart(session[s].candidates, session[t].candidates)
                      /\ \A r \in DOMAIN pending' :
                           Apart(session[s].candidates, pending'[r].messages)
    BY DEF SessionOrder
  <2> QED
    BY <1>3, <1>6 DEF OrderInv, SessionOrder
<1> QED
  BY <1>7, <1>8 DEF OrderInv

\* A session gets the next candidate.
LEMMA SessionGrowsOrder ==
  ASSUME TypeOK, OrderInv, NEW c \in Clients, handled[c] < MaxCandidates,
         handled' = [handled EXCEPT ![c] = @ + 1], UNCHANGED pending,
         NEW s \in DOMAIN session,
         DOMAIN session' = DOMAIN session,
         \A t \in DOMAIN session \ {s} : session'[t] = session[t],
         session'[s].candidates = Append(session[s].candidates, NextCandidate(c))
  PROVE  OrderInv'
<1> DEFINE longer == Append(session[s].candidates, NextCandidate(c))
<1>1. Ordered(longer) /\ AlreadyHandled(longer, handled')
  BY SequencesType, AppendNext DEF OrderInv, SessionOrder
<1>2. /\ \A t \in DOMAIN session : AlreadyHandled(session[t].candidates, handled')
      /\ \A q \in DOMAIN pending : AlreadyHandled(pending[q].messages, handled')
  BY SequencesType, HandledStaysHandled DEF OrderInv, QueueOrder, SessionOrder
<1>3. \A t \in DOMAIN session \ {s} :
        /\ Apart(longer, session[t].candidates)
        /\ Apart(session[t].candidates, longer)
  BY SequencesType, NextIsApart, ApartSymmetric DEF OrderInv, SessionOrder
<1>4. \A q \in DOMAIN pending : Apart(longer, pending[q].messages)
  BY SequencesType, NextIsApart DEF OrderInv, QueueOrder, SessionOrder
<1>5. session'[s].candidates = longer
  OBVIOUS
<1> HIDE DEF longer
<1>6. QueueOrder'
  BY <1>2 DEF OrderInv, QueueOrder
<1>7. SessionOrder'
  <2> SUFFICES ASSUME NEW t \in DOMAIN session
               PROVE  /\ Ordered(session'[t].candidates)
                      /\ AlreadyHandled(session'[t].candidates, handled')
                      /\ \A u \in DOMAIN session \ {t} :
                           Apart(session'[t].candidates, session'[u].candidates)
                      /\ \A q \in DOMAIN pending :
                           Apart(session'[t].candidates, pending[q].messages)
    BY DEF SessionOrder
  <2>1. CASE t = s
    BY <1>1, <1>3, <1>4, <1>5, <2>1
  <2>2. CASE t # s
    BY <1>2, <1>3, <1>5, <2>2 DEF OrderInv, SessionOrder
  <2> QED
    BY <2>1, <2>2
<1> QED
  BY <1>6, <1>7 DEF OrderInv

(***************************************************************************)
(* The steps.                                                              *)
(***************************************************************************)

\* The first candidates of a queue are in order and are no other queue's.
LEMMA HandedOrder ==
  ASSUME TypeOK, PendingInv, OrderInv, NEW q \in DOMAIN pending,
         NEW n \in 0 .. Len(pending[q].messages)
  PROVE  LET handed == SubSeq(pending[q].messages, 1, n) IN
         /\ Ordered(handed) /\ AlreadyHandled(handed, handled)
         /\ \A t \in DOMAIN session : Apart(session[t].candidates, handed)
         /\ \A r \in DOMAIN pending \ {q} : Apart(handed, pending[r].messages)
<1> DEFINE messages == pending[q].messages
           handed == SubSeq(messages, 1, n)
<1>1. /\ messages \in Seq(Candidate)
      /\ DOMAIN messages = 1 .. Len(messages)
      /\ Len(messages) \in Nat
  BY SequencesType
<1>2. /\ DOMAIN handed = 1 .. n
      /\ \A i \in 1 .. n : i \in DOMAIN messages /\ handed[i] = messages[i]
  BY <1>1, SubSeqProperties, LenProperties
<1> HIDE DEF handed
<1>3. Ordered(handed) /\ AlreadyHandled(handed, handled)
  BY <1>2 DEF OrderInv, QueueOrder, Ordered, AlreadyHandled
<1>4. \A t \in DOMAIN session : Apart(session[t].candidates, handed)
  BY <1>2 DEF OrderInv, SessionOrder, Apart
<1>5. ASSUME NEW r \in DOMAIN pending \ {q}
      PROVE  Apart(handed, pending[r].messages)
  <2>1. pending[r].hash # pending[q].hash
    BY DEF PendingInv
  <2> QED
    BY <1>2, <2>1 DEF OrderInv, QueueOrder, Apart
<1> QED
  BY <1>3, <1>4, <1>5 DEF handed

\* No candidates are in order and are nowhere else.
LEMMA NothingHanded ==
  /\ Ordered(<<>>) /\ AlreadyHandled(<<>>, handled)
  /\ \A seq : Apart(seq, <<>>) /\ Apart(<<>>, seq)
  BY DEF Ordered, AlreadyHandled, Apart

LEMMA OfferOrder ==
  ASSUME TypeOK, PendingInv, OrderInv, NEW c \in Clients,
         \/ OfferAtCapacity(c)
         \/ OfferCreateFails(c)
         \/ OfferHandlingFails(c)
         \/ OfferAccepted(c)
         \/ OfferDrainFails(c)
  PROVE  OrderInv'
<1> USE DEF registry, Without, PendingFor
<1>1. CASE OfferAtCapacity(c) \/ OfferCreateFails(c)
  BY <1>1, FreeOrder DEF OfferAtCapacity, OfferCreateFails
<1>2. CASE OfferHandlingFails(c)
  BY <1>2, HandOrder, NothingHanded DEF OfferHandlingFails
<1>3. CASE OfferAccepted(c)
  <2>1. CASE \E s \in Sessions : NewSession(s, c, <<>>) /\ UNCHANGED pending
    BY <1>3, <2>1, HandOrder, NothingHanded DEF OfferAccepted
  <2>2. ASSUME NEW s \in Sessions, NEW q \in PendingFor(Hash[c]),
               NewSession(s, c, pending[q].messages),
               pending' = Without(pending, q)
        PROVE  OrderInv'
    <3>1. /\ SubSeq(pending[q].messages, 1, Len(pending[q].messages))
               = pending[q].messages
          /\ Len(pending[q].messages) \in 0 .. Len(pending[q].messages)
      BY SequencesType, SubSeqFull
    <3>2. /\ Ordered(pending[q].messages)
          /\ AlreadyHandled(pending[q].messages, handled)
          /\ \A t \in DOMAIN session :
               Apart(session[t].candidates, pending[q].messages)
          /\ \A r \in DOMAIN pending \ {q} :
               Apart(pending[q].messages, pending[r].messages)
      BY <3>1, HandedOrder
    <3> QED
      BY <1>3, <2>2, <3>2, HandOrder DEF OfferAccepted
  <2> QED
    BY <1>3, <2>1, <2>2 DEF OfferAccepted, SubmittedCandidates
<1>4. CASE OfferDrainFails(c)
  <2>1. PICK s \in Sessions, q \in PendingFor(Hash[c]) :
          \E n \in 1 .. Len(pending[q].messages) :
            /\ NewSession(s, c, SubSeq(pending[q].messages, 1, n))
            /\ pending' = Without(pending, q)
    BY <1>4 DEF OfferDrainFails, SubmittedCandidates
  <2>2. PICK n \in 1 .. Len(pending[q].messages) :
          /\ NewSession(s, c, SubSeq(pending[q].messages, 1, n))
          /\ pending' = Without(pending, q)
    BY <2>1
  <2>3. n \in 0 .. Len(pending[q].messages)
    OBVIOUS
  <2> DEFINE handed == SubSeq(pending[q].messages, 1, n)
  <2>4. /\ Ordered(handed) /\ AlreadyHandled(handed, handled)
        /\ \A t \in DOMAIN session : Apart(session[t].candidates, handed)
        /\ \A r \in DOMAIN pending \ {q} : Apart(handed, pending[r].messages)
    BY <2>3, HandedOrder
  <2> HIDE DEF handed
  <2>5. NewSession(s, c, handed) /\ pending' = Without(pending, q)
    BY <2>2 DEF handed
  <2> QED
    BY <1>4, <2>4, <2>5, HandOrder DEF OfferDrainFails
<1> QED
  BY <1>1, <1>2, <1>3, <1>4

LEMMA CandidateOrder ==
  ASSUME TypeOK, TableInv, OrderInv, NEW c \in Clients,
         QueueCandidate(c) \/ SubmitCandidate(c)
  PROVE  OrderInv'
<1> USE DEF registry
<1>1. CASE QueueCandidate(c)
  <2>1. ASSUME NEW q \in PendingFor(Hash[c]),
               pending' =
                 [pending EXCEPT ![q].messages = Append(@, NextCandidate(c))]
        PROVE  OrderInv'
    <3>1. q \in DOMAIN pending /\ pending[q] \in Queue /\ pending[q].hash = Hash[c]
      BY DEF TypeOK, PendingFor
    <3>2. /\ DOMAIN pending' = DOMAIN pending \cup {q}
          /\ \A r \in DOMAIN pending \ {q} : pending'[r] = pending[r]
          /\ pending'[q].hash = Hash[c]
          /\ pending'[q].messages = Append(pending[q].messages, NextCandidate(c))
      BY <2>1, <3>1 DEF Queue
    <3>3. pending[q].messages \in Seq(Candidate)
      BY <3>1 DEF Queue
    <3> QED
      BY <1>1, <3>1, <3>2, <3>3, QueueGrowsOrder DEF QueueCandidate, Handle
  <2>2. ASSUME NEW q \in Queues \ DOMAIN pending,
               pending' = [r \in DOMAIN pending \cup {q} |->
                             IF r = q THEN NewQueue(Hash[c], NextCandidate(c))
                                      ELSE pending[r]]
        PROVE  OrderInv'
    <3>1. /\ DOMAIN pending' = DOMAIN pending \cup {q}
          /\ \A r \in DOMAIN pending \ {q} : pending'[r] = pending[r]
          /\ pending'[q].hash = Hash[c]
          /\ pending'[q].messages = <<NextCandidate(c)>>
      BY <2>2 DEF NewQueue
    <3>2. <<>> \in Seq(Candidate) /\ Append(<<>>, NextCandidate(c)) = <<NextCandidate(c)>>
      OBVIOUS
    <3> QED
      BY <1>1, <2>2, <3>1, <3>2, QueueGrowsOrder DEF QueueCandidate, Handle
  <2> QED
    BY <1>1, <2>1, <2>2 DEF QueueCandidate
<1>2. CASE SubmitCandidate(c)
  <2> DEFINE s == peerTable[Hash[c]]
  <2>1. s \in DOMAIN session /\ session[s] \in Session
    BY <1>2, SessionsAssumption
       DEF SubmitCandidate, PeerConnectionFound, TableInv, TypeOK
  <2>2. /\ DOMAIN session' = DOMAIN session
        /\ \A t \in DOMAIN session \ {s} : session'[t] = session[t]
        /\ session'[s].candidates = Append(session[s].candidates, NextCandidate(c))
    BY <1>2, <2>1 DEF SubmitCandidate, Session
  <2> HIDE DEF s
  <2> QED
    BY <1>2, <2>1, <2>2, SessionGrowsOrder DEF SubmitCandidate, Handle
<1> QED
  BY <1>1, <1>2

LEMMA OrderStep ==
  RegistryInv /\ PendingInv /\ OrderInv /\ [Next]_vars => OrderInv'
<1> SUFFICES ASSUME RegistryInv, PendingInv, OrderInv, [Next]_vars
             PROVE  OrderInv'
  OBVIOUS
<1> USE DEF registry, stats, loop, join
<1>1. TypeOK /\ TableInv
  BY TableCorrect DEF RegistryInv
<1>2. ASSUME UNCHANGED <<session, pending, handled>> PROVE OrderInv'
  BY <1>2, FreeOrder
<1>3. ASSUME NEW c \in Clients, SignalingMessageReceived(c) PROVE OrderInv'
  BY <1>1, <1>3, OfferOrder, CandidateOrder DEF SignalingMessageReceived
<1>4. CASE \/ StartStatsTimer \/ SigintHandler \/ ReceiverEnds
           \/ JoinMediaSender \/ UNCHANGED vars
  BY <1>2, <1>4
  DEF StartStatsTimer, SigintHandler, ReceiverEnds, JoinMediaSender, vars
<1>5. ASSUME NEW s \in Sessions, NEW newState \in PeerConnectionStates,
             ConnectionStateChange(s, newState)
      PROVE  OrderInv'
  <2>1. /\ DOMAIN session' = DOMAIN session
        /\ \A t \in DOMAIN session : session'[t].candidates = session[t].candidates
    BY <1>1, <1>5 DEF ConnectionStateChange, TypeOK, Session
  <2> QED
    BY <1>5, <2>1, FreeOrder DEF ConnectionStateChange
<1>6. CASE Tick
  <2>1. /\ DOMAIN pending' = DOMAIN pending
        /\ \A q \in DOMAIN pending : /\ pending'[q].messages = pending[q].messages
                                     /\ pending'[q].hash = pending[q].hash
    BY <1>1, <1>6 DEF Tick, TypeOK, Queue
  <2> QED
    BY <1>6, <2>1, FreeOrder DEF Tick
<1>7. CASE CleanupLoop
  <2>1. CASE CleanupSession \/ FreeListedSession
    <3> DEFINE s == sessionList[scan]
    <3>1. /\ s \in DOMAIN session
          /\ BeginFree(s) /\ UNCHANGED <<pending, handled>>
      BY <2>1, CleanupSessionInv, FreeListedSessionInv
      DEF CleanupSession, FreeListedSession, RegistryInv, SessionListSound
    <3> HIDE DEF s
    <3>2. /\ DOMAIN session' = DOMAIN session
          /\ \A t \in DOMAIN session : session'[t].candidates = session[t].candidates
      BY <1>1, <3>1, BeginFreeSession
    <3> QED
      BY <3>1, <3>2, FreeOrder
  <2>2. CASE JoinReceiver
    BY <2>2, FreeOrder DEF JoinReceiver, Without
  <2>3. CASE FinishPass
    BY <2>3, FreeOrder DEF FinishPass, Unexpired
  <2>4. CASE FreeConfiguration
    <3>1. DOMAIN pending' = {} /\ UNCHANGED <<session, handled>>
      BY <2>4 DEF FreeConfiguration, Nothing
    <3> QED
      BY <3>1, FreeOrder
  <2>5. CASE \/ LockConfiguration \/ SkipSession \/ WaitTimeout \/ LeaveLoop
             \/ FreeSignalingClient \/ ConfigurationFreed
    BY <1>2, <2>5 DEF LockConfiguration, SkipSession, WaitTimeout, LeaveLoop,
                      FreeSignalingClient, ConfigurationFreed
  <2> QED
    BY <1>7, <2>1, <2>2, <2>3, <2>4, <2>5 DEF CleanupLoop
<1> QED
  BY <1>3, <1>4, <1>5, <1>6, <1>7 DEF Next

\* A session's candidates are in the order in which their handlers had the lock,
\* those that waited in a queue before those that did not, and no candidate is
\* with two sessions, wherever offers, candidates and the cleanup come in between.
THEOREM CandidatesOnceInTurnHolds == Spec => []CandidatesOnceInTurn
<1>1. Init => OrderInv
  <2> SUFFICES ASSUME Init PROVE DOMAIN pending = {} /\ DOMAIN session = {}
    BY DEF OrderInv, QueueOrder, SessionOrder
  <2> QED
    BY DEF Init, Nothing
<1>2. Spec => []OrderInv
  BY <1>1, OrderStep, RegistryCorrect, PendingCorrect, PTL DEF Spec
<1>3. OrderInv => CandidatesOnceInTurn
  <2> SUFFICES ASSUME OrderInv, NEW s \in DOMAIN session, NEW t \in DOMAIN session,
                      NEW i \in DOMAIN session[s].candidates,
                      NEW j \in DOMAIN session[t].candidates,
                      session[s].candidates[i].client
                        = session[t].candidates[j].client
               PROVE  IF s = t
                        THEN i < j => session[s].candidates[i].number
                                        < session[t].candidates[j].number
                        ELSE session[s].candidates[i].number
                               # session[t].candidates[j].number
    BY DEF CandidatesOnceInTurn
  <2>1. CASE s = t
    BY <2>1 DEF OrderInv, SessionOrder, Ordered
  <2>2. CASE s # t
    BY <2>2 DEF OrderInv, SessionOrder, Apart
  <2> QED
    BY <2>1, <2>2
<1> QED
  BY <1>2, <1>3, PTL

(***************************************************************************)
(* No candidate is skipped.                                                *)
(***************************************************************************)

\* A sequence that was complete and gets the next candidate is complete.
LEMMA GrowComplete ==
  ASSUME TypeOK, NEW c \in Clients, handled[c] < MaxCandidates,
         handled' = [handled EXCEPT ![c] = @ + 1],
         NEW seq \in Seq(Candidate), Complete(seq, Hash[c], handled)
  PROVE  Complete(Append(seq, NextCandidate(c)), Hash[c], handled')
<1> DEFINE longer == Append(seq, NextCandidate(c))
           last == Len(seq) + 1
<1>1. /\ handled[c] \in Nat
      /\ \A d \in Clients : handled[d] \in Nat
      /\ \A d \in Clients : handled'[d] = IF d = c THEN handled[c] + 1 ELSE handled[d]
  BY SessionsAssumption DEF TypeOK
<1>2. /\ Len(seq) \in Nat
      /\ DOMAIN seq = 1 .. Len(seq)
      /\ \A i \in DOMAIN seq : seq[i].number \in Nat
  <2>1. Len(seq) \in Nat /\ DOMAIN seq = 1 .. Len(seq) /\ seq \in [1 .. Len(seq) -> Candidate]
    BY LenProperties
  <2> QED
    BY <2>1, SessionsAssumption DEF Candidate
<1>3. /\ DOMAIN longer = 1 .. last
      /\ \A i \in 1 .. Len(seq) : longer[i] = seq[i]
      /\ longer[last].client = c /\ longer[last].number = handled[c] + 1
  <2>1. NextCandidate(c) \in Candidate
    BY <1>1, SessionsAssumption DEF NextCandidate, Candidate
  <2> QED
    BY <2>1, AppendProperties, LenProperties DEF NextCandidate
<1>4. last \in DOMAIN longer /\ \A i \in DOMAIN seq : i \in DOMAIN longer
  BY <1>2, <1>3
<1> HIDE DEF longer
<1>5. ASSUME NEW d \in Clients, NEW i \in DOMAIN longer,
             Hash[d] = Hash[c], longer[i].client = d,
             NEW n \in longer[i].number .. handled'[d]
      PROVE  \E j \in DOMAIN longer : longer[j].client = d /\ longer[j].number = n
  <2>1. CASE d = c /\ n = handled[c] + 1
    BY <1>3, <1>4, <2>1
  <2>2. CASE ~(d = c /\ n = handled[c] + 1)
    <3>1. i \in DOMAIN seq /\ longer[i] = seq[i]
      BY <1>1, <1>2, <1>3, <1>5, <2>2
    <3>2. n \in seq[i].number .. handled[d]
      BY <1>1, <1>2, <1>5, <2>2, <3>1
    <3>3. PICK j \in DOMAIN seq : seq[j].client = d /\ seq[j].number = n
      BY <1>5, <3>1, <3>2 DEF Complete
    <3> QED
      BY <1>2, <1>3, <1>4, <3>3
  <2> QED
    BY <2>1, <2>2
<1>6. Complete(longer, Hash[c], handled')
  BY <1>5 DEF Complete
<1> QED
  BY <1>6 DEF longer

\* What is complete for a hash stays so while only others are handled.
LEMMA OthersComplete ==
  ASSUME TypeOK, NEW c \in Clients, handled' = [handled EXCEPT ![c] = @ + 1],
         NEW h \in Hashes \ {Hash[c]}, NEW seq, Complete(seq, h, handled)
  PROVE  Complete(seq, h, handled')
<1>1. \A d \in Clients : Hash[d] = h => handled'[d] = handled[d]
  BY DEF TypeOK
<1> QED
  BY <1>1 DEF Complete

LEMMA NothingComplete ==
  ASSUME NEW h, NEW many
  PROVE  Complete(<<>>, h, many)
  BY DEF Complete

\* A queue goes, an entry goes, and what stays is as it was.
LEMMA FreeComplete ==
  ASSUME CompleteInv, UNCHANGED handled,
         DOMAIN pending' \subseteq DOMAIN pending,
         \A q \in DOMAIN pending' : /\ pending'[q].messages = pending[q].messages
                                    /\ pending'[q].hash = pending[q].hash,
         \A h \in Hashes : peerTable'[h] # NoSession =>
           /\ peerTable'[h] = peerTable[h]
           /\ session'[peerTable[h]].candidates = session[peerTable[h]].candidates
  PROVE  CompleteInv'
  BY DEF CompleteInv

\* A new session takes a free entry and is handed something complete.
LEMMA HandComplete ==
  ASSUME TypeOK, TableInv, CompleteInv, UNCHANGED handled,
         NEW s, NEW c \in Clients, NEW handed,
         NewSession(s, c, handed), Complete(handed, Hash[c], handled),
         peerTable' = [peerTable EXCEPT ![Hash[c]] = s],
         DOMAIN pending' \subseteq DOMAIN pending,
         \A q \in DOMAIN pending' : pending'[q] = pending[q]
  PROVE  CompleteInv'
<1>1. /\ s \notin DOMAIN session
      /\ session'[s].candidates = handed
      /\ \A t \in DOMAIN session : session'[t] = session[t]
  BY DEF NewSession
<1>2. \A h \in Hashes : peerTable'[h] = IF h = Hash[c] THEN s ELSE peerTable[h]
  BY DEF TypeOK
<1>3. ASSUME NEW h \in Hashes, peerTable'[h] # NoSession
      PROVE  Complete(session'[peerTable'[h]].candidates, h, handled)
  <2>1. CASE h = Hash[c]
    BY <1>1, <1>2, <2>1
  <2>2. CASE h # Hash[c]
    BY <1>1, <1>2, <1>3, <2>2 DEF CompleteInv, TableInv
  <2> QED
    BY <2>1, <2>2
<1> QED
  BY <1>3 DEF CompleteInv

LEMMA OfferComplete ==
  ASSUME "candidate" \notin Faults, TypeOK, TableInv, CompleteInv,
         NEW c \in Clients,
         \/ OfferAtCapacity(c)
         \/ OfferCreateFails(c)
         \/ OfferHandlingFails(c)
         \/ OfferAccepted(c)
         \/ OfferDrainFails(c)
  PROVE  CompleteInv'
<1> USE DEF registry, Without, PendingFor
<1>1. CASE OfferAtCapacity(c) \/ OfferCreateFails(c)
  BY <1>1, FreeComplete DEF OfferAtCapacity, OfferCreateFails
<1>2. CASE OfferHandlingFails(c)
  <2>1. \A t \in DOMAIN session : session'[t] = session[t]
    BY <1>2 DEF OfferHandlingFails, NewSession
  <2> QED
    BY <1>2, <2>1, FreeComplete DEF OfferHandlingFails, TableInv
<1>3. CASE OfferAccepted(c)
  <2>1. PICK s \in Sessions :
          /\ peerTable' = [peerTable EXCEPT ![Hash[c]] = s]
          /\ \/ NewSession(s, c, <<>>) /\ UNCHANGED pending
             \/ \E q \in PendingFor(Hash[c]) :
                  /\ NewSession(s, c, pending[q].messages)
                  /\ pending' = Without(pending, q)
    BY <1>3 DEF OfferAccepted, SubmittedCandidates
  <2>2. UNCHANGED handled /\ peerTable' = [peerTable EXCEPT ![Hash[c]] = s]
    BY <1>3, <2>1 DEF OfferAccepted
  <2>3. CASE NewSession(s, c, <<>>) /\ UNCHANGED pending
    <3>1. Complete(<<>>, Hash[c], handled)
      BY NothingComplete
    <3> QED
      BY <2>2, <2>3, <3>1, HandComplete
  <2>4. ASSUME NEW q \in PendingFor(Hash[c]),
               NewSession(s, c, pending[q].messages),
               pending' = Without(pending, q)
        PROVE  CompleteInv'
    <3>1. Complete(pending[q].messages, Hash[c], handled)
      BY DEF CompleteInv
    <3>2. /\ DOMAIN pending' \subseteq DOMAIN pending
          /\ \A r \in DOMAIN pending' : pending'[r] = pending[r]
      BY <2>4
    <3> HIDE DEF PendingFor
    <3> QED
      BY <2>2, <2>4, <3>1, <3>2, HandComplete
  <2> QED
    BY <2>1, <2>3, <2>4
<1>4. CASE OfferDrainFails(c)
  BY <1>4 DEF OfferDrainFails
<1> QED
  BY <1>1, <1>2, <1>3, <1>4

\* The next candidate goes to the one place that has to stay complete for its
\* hash: the queue while the table has no session, then the session.
LEMMA CandidateComplete ==
  ASSUME TypeOK, TableInv, PendingInv, CompleteInv, NEW c \in Clients,
         QueueCandidate(c) \/ SubmitCandidate(c)
  PROVE  CompleteInv'
<1> USE DEF registry, PendingFor
<1>1. /\ handled[c] < MaxCandidates
      /\ handled' = [handled EXCEPT ![c] = @ + 1]
      /\ UNCHANGED peerTable
  BY DEF QueueCandidate, SubmitCandidate, Handle
<1>2. /\ Hash[c] \in Hashes
      /\ \A q \in DOMAIN pending : pending[q].hash \in Hashes
  BY SessionsAssumption DEF TypeOK, Queue
<1>3. /\ \A q \in DOMAIN pending : pending[q].hash # Hash[c] =>
           Complete(pending[q].messages, pending[q].hash, handled')
      /\ \A h \in Hashes \ {Hash[c]} : peerTable[h] # NoSession =>
           Complete(session[peerTable[h]].candidates, h, handled')
  BY <1>1, <1>2, OthersComplete DEF CompleteInv
<1>4. CASE QueueCandidate(c)
  <2>1. peerTable[Hash[c]] = NoSession /\ UNCHANGED session
    BY <1>4 DEF QueueCandidate, PeerConnectionFound
  <2>2. \A h \in Hashes : peerTable'[h] # NoSession =>
          Complete(session'[peerTable'[h]].candidates, h, handled')
    BY <1>1, <1>3, <2>1
  <2>3. ASSUME NEW q, pending'[q].hash = Hash[c],
               Complete(pending'[q].messages, Hash[c], handled'),
               DOMAIN pending' = DOMAIN pending \cup {q},
               \A r \in DOMAIN pending \ {q} :
                 pending'[r] = pending[r] /\ pending[r].hash # Hash[c]
        PROVE  CompleteInv'
    BY <1>3, <2>2, <2>3 DEF CompleteInv
  <2>4. ASSUME NEW q \in PendingFor(Hash[c]),
               pending' =
                 [pending EXCEPT ![q].messages = Append(@, NextCandidate(c))]
        PROVE  CompleteInv'
    <3>1. /\ q \in DOMAIN pending /\ pending[q] \in Queue
          /\ pending[q].hash = Hash[c]
      BY DEF TypeOK
    <3>2. /\ DOMAIN pending' = DOMAIN pending \cup {q}
          /\ pending'[q].hash = Hash[c]
          /\ pending'[q].messages = Append(pending[q].messages, NextCandidate(c))
      BY <2>4, <3>1 DEF Queue
    <3>3. \A r \in DOMAIN pending \ {q} :
            pending'[r] = pending[r] /\ pending[r].hash # Hash[c]
      BY <2>4, <3>1 DEF PendingInv
    <3>4. Complete(pending'[q].messages, Hash[c], handled')
      BY <1>1, <3>1, <3>2, SequencesType, GrowComplete DEF CompleteInv
    <3> QED
      BY <2>3, <3>2, <3>3, <3>4
  <2>5. ASSUME PendingFor(Hash[c]) = {}, NEW q \in Queues \ DOMAIN pending,
               pending' = [r \in DOMAIN pending \cup {q} |->
                             IF r = q THEN NewQueue(Hash[c], NextCandidate(c))
                                      ELSE pending[r]]
        PROVE  CompleteInv'
    <3>1. /\ DOMAIN pending' = DOMAIN pending \cup {q}
          /\ pending'[q].hash = Hash[c]
          /\ pending'[q].messages = <<NextCandidate(c)>>
          /\ \A r \in DOMAIN pending \ {q} :
               pending'[r] = pending[r] /\ pending[r].hash # Hash[c]
      BY <2>5 DEF NewQueue
    <3>2. /\ <<>> \in Seq(Candidate)
          /\ Append(<<>>, NextCandidate(c)) = <<NextCandidate(c)>>
      OBVIOUS
    <3>3. Complete(<<>>, Hash[c], handled)
      BY NothingComplete
    <3>4. Complete(pending'[q].messages, Hash[c], handled')
      BY <1>1, <3>1, <3>2, <3>3, GrowComplete
    <3> QED
      BY <2>3, <3>1, <3>4
  <2> QED
    BY <1>4, <2>4, <2>5 DEF QueueCandidate
<1>5. CASE SubmitCandidate(c)
  <2> DEFINE s == peerTable[Hash[c]]
  <2>1. /\ s # NoSession /\ s \in DOMAIN session
        /\ Hash[session[s].peer] = Hash[c]
        /\ session[s] \in Session /\ session[s].candidates \in Seq(Candidate)
    BY <1>2, <1>5 DEF SubmitCandidate, PeerConnectionFound, TableInv,
                      TypeOK, Session
  <2>2. /\ UNCHANGED pending
        /\ \A t \in DOMAIN session \ {s} : session'[t] = session[t]
        /\ session'[s].candidates = Append(session[s].candidates, NextCandidate(c))
    BY <1>5, <2>1 DEF SubmitCandidate, Session
  <2>3. Complete(session'[s].candidates, Hash[c], handled')
    BY <1>1, <1>2, <2>1, <2>2, GrowComplete DEF CompleteInv
  <2>4. ASSUME NEW h \in Hashes, peerTable[h] # NoSession, h # Hash[c]
        PROVE  session'[peerTable[h]] = session[peerTable[h]]
    <3>1. peerTable[h] \in DOMAIN session /\ Hash[session[peerTable[h]].peer] = h
      BY <2>4 DEF TableInv
    <3> QED
      BY <2>1, <2>2, <2>4, <3>1
  <2>5. ASSUME NEW h \in Hashes, peerTable'[h] # NoSession
        PROVE  Complete(session'[peerTable'[h]].candidates, h, handled')
    <3>1. CASE h = Hash[c]
      BY <1>1, <2>3, <3>1
    <3>2. CASE h # Hash[c]
      BY <1>1, <1>3, <2>4, <2>5, <3>2
    <3> QED
      BY <3>1, <3>2
  <2>6. \A q \in DOMAIN pending : pending[q].hash # Hash[c]
    BY <2>1 DEF PendingInv
  <2> HIDE DEF s
  <2> QED
    BY <1>3, <2>2, <2>5, <2>6 DEF CompleteInv
<1> QED
  BY <1>4, <1>5

\* The cleanup clears the one entry that has the session it frees, and the
\* beginning of a free leaves every session its candidates.
LEMMA BeginFreeComplete ==
  ASSUME RegistryInv, CompleteInv, CleanupSession \/ FreeListedSession
  PROVE  CompleteInv'
<1> DEFINE s == sessionList[scan]
<1>1. TypeOK /\ TableInv /\ s \in DOMAIN session /\ BeginFree(s)
  BY TableCorrect, CleanupSessionInv, FreeListedSessionInv
  DEF CleanupSession, FreeListedSession, RegistryInv, SessionListSound
<1>2. UNCHANGED <<pending, handled>>
  BY DEF CleanupSession, FreeListedSession
<1>3. /\ Hash[session[s].peer] \in Hashes
      /\ \/ UNCHANGED peerTable
         \/ peerTable' = [peerTable EXCEPT ![Hash[session[s].peer]] = NoSession]
  BY <1>1, SessionsAssumption
     DEF CleanupSession, FreeListedSession, EntryRemoved, TypeOK, Session
<1> HIDE DEF s
<1>4. \A t \in DOMAIN session : session'[t].candidates = session[t].candidates
  BY <1>1, BeginFreeSession
<1>5. ASSUME NEW h \in Hashes, peerTable'[h] # NoSession
      PROVE  /\ peerTable'[h] = peerTable[h]
             /\ session'[peerTable[h]].candidates = session[peerTable[h]].candidates
  <2>1. peerTable'[h] = peerTable[h]
    BY <1>1, <1>3, <1>5 DEF TypeOK
  <2> QED
    BY <1>1, <1>4, <1>5, <2>1 DEF TableInv
<1> QED
  BY <1>2, <1>5, FreeComplete

\* The end of a free takes a session that no entry has.
LEMMA JoinReceiverComplete ==
  ASSUME RegistryInv, CompleteInv, JoinReceiver
  PROVE  CompleteInv'
<1>1. /\ UNCHANGED <<pending, peerTable, handled>>
      /\ DOMAIN session' = DOMAIN session \ {freed}
      /\ \A t \in DOMAIN session' : session'[t] = session[t]
  BY JoinReceiverInv DEF JoinReceiver
<1>2. \A h \in Hashes : peerTable[h] # NoSession =>
        peerTable[h] \in DOMAIN session \ {freed}
  BY DEF RegistryInv, PeerTableSound, SessionListSound
<1> QED
  BY <1>1, <1>2, FreeComplete

LEMMA CompleteStep ==
  ASSUME "candidate" \notin Faults, RegistryInv, PendingInv, CompleteInv,
         [Next]_vars
  PROVE  CompleteInv'
<1> USE DEF registry, stats, loop, join
<1>1. TypeOK /\ TableInv
  BY TableCorrect DEF RegistryInv
<1>2. ASSUME UNCHANGED <<peerTable, session, pending, handled>> PROVE CompleteInv'
  BY <1>2, FreeComplete
<1>3. ASSUME NEW c \in Clients, SignalingMessageReceived(c) PROVE CompleteInv'
  BY <1>1, <1>3, OfferComplete, CandidateComplete DEF SignalingMessageReceived
<1>4. CASE \/ StartStatsTimer \/ SigintHandler \/ ReceiverEnds
           \/ JoinMediaSender \/ UNCHANGED vars
  BY <1>2, <1>4
  DEF StartStatsTimer, SigintHandler, ReceiverEnds, JoinMediaSender, vars
<1>5. ASSUME NEW s \in Sessions, NEW newState \in PeerConnectionStates,
             ConnectionStateChange(s, newState)
      PROVE  CompleteInv'
  <2>1. \A t \in DOMAIN session : session'[t].candidates = session[t].candidates
    BY <1>1, <1>5 DEF ConnectionStateChange, TypeOK, Session
  <2> QED
    BY <1>1, <1>5, <2>1, FreeComplete DEF ConnectionStateChange, TableInv
<1>6. CASE Tick
  <2>1. /\ DOMAIN pending' = DOMAIN pending
        /\ \A q \in DOMAIN pending : /\ pending'[q].messages = pending[q].messages
                                     /\ pending'[q].hash = pending[q].hash
    BY <1>1, <1>6 DEF Tick, TypeOK, Queue
  <2> QED
    BY <1>6, <2>1, FreeComplete DEF Tick
<1>7. CASE CleanupLoop
  <2>1. CASE CleanupSession \/ FreeListedSession
    BY <2>1, BeginFreeComplete
  <2>2. CASE JoinReceiver
    BY <2>2, JoinReceiverComplete
  <2>3. CASE FinishPass
    BY <2>3, FreeComplete DEF FinishPass, Unexpired
  <2>4. CASE FreeConfiguration
    <3>1. DOMAIN pending' = {} /\ \A h \in Hashes : peerTable'[h] = NoSession
      BY <2>4 DEF FreeConfiguration, Nothing
    <3> QED
      BY <3>1 DEF CompleteInv
  <2>5. CASE \/ LockConfiguration \/ SkipSession \/ WaitTimeout \/ LeaveLoop
             \/ FreeSignalingClient \/ ConfigurationFreed
    BY <1>2, <2>5 DEF LockConfiguration, SkipSession, WaitTimeout, LeaveLoop,
                      FreeSignalingClient, ConfigurationFreed
  <2> QED
    BY <1>7, <2>1, <2>2, <2>3, <2>4, <2>5 DEF CleanupLoop
<1> QED
  BY <1>3, <1>4, <1>5, <1>6, <1>7 DEF Next

\* If the SDK takes every candidate of a queue, a session the table finds has
\* every candidate handled of its clients since the first it was given, through any
\* offers refused at capacity, failed offers, expiries and cleanups.
THEOREM NoCandidateSkippedHolds ==
  ASSUME "candidate" \notin Faults
  PROVE  Spec => []NoCandidateSkipped
<1>1. Init => CompleteInv
  <2> SUFFICES ASSUME Init
               PROVE  DOMAIN pending = {} /\ \A h \in Hashes : peerTable[h] = NoSession
    BY DEF CompleteInv
  <2> QED
    BY DEF Init, Nothing
<1>2. RegistryInv /\ PendingInv /\ CompleteInv /\ [Next]_vars => CompleteInv'
  BY CompleteStep
<1>3. Spec => []CompleteInv
  BY <1>1, <1>2, RegistryCorrect, PendingCorrect, PTL DEF Spec
<1>4. CompleteInv => NoCandidateSkipped
  <2> SUFFICES ASSUME CompleteInv, NEW h \in Hashes, NEW c \in Clients,
                      peerTable[h] # NoSession, Hash[c] = h,
                      NEW i \in DOMAIN session[peerTable[h]].candidates,
                      session[peerTable[h]].candidates[i].client = c,
                      NEW n \in session[peerTable[h]].candidates[i].number .. handled[c]
               PROVE  \E j \in DOMAIN session[peerTable[h]].candidates :
                        /\ session[peerTable[h]].candidates[j].client = c
                        /\ session[peerTable[h]].candidates[j].number = n
    BY DEF NoCandidateSkipped
  <2> QED
    BY DEF CompleteInv, Complete
<1> QED
  BY <1>3, <1>4, PTL
=============================================================================
