--------------------- MODULE ReliableTransportProofs ---------------------
(***************************************************************************)
(* What TLAPS proves of ReliableTransport, for any ids, senders, table and  *)
(* history sizes, number of retries and of messages.                        *)
(***************************************************************************)
EXTENDS ReliableTransport, SequenceTheorems, WellFoundedInduction, TLAPS

---------------------------------------------------------------------------
(* Keys and tables.                                                         *)

Sent == 1 .. Len(sent)

\* A table of message numbers under their keys.
Tracks(f) == \A k \in DOMAIN f : f[k] \in Sent /\ Key(f[k]) = k

\* The messages of the packets that RetryMonitor keeps.
Kept ==
  \A k \in DOMAIN store :
    /\ store[k] \in [msg : Sent, attempts : 0 .. MAX_RETRIES, isSent : BOOLEAN]
    /\ Key(store[k].msg) = k

TypeOK ==
  /\ sent \in Seq(Ids) /\ Len(sent) <= MaxMessages
  /\ pc \in [Senders -> {"idle", "add", "send", "mark", "cancel", "giveUp"}]
  /\ cur \in [Senders -> 0 .. Len(sent)]
  /\ \A s \in Senders : pc[s] = "idle" <=> cur[s] = None
  /\ at \in {"scan", "add", "send", "cancel", "giveUp", "reregister"}
  /\ again \in 0 .. Len(sent) /\ (at = "scan" <=> again = None)
  /\ acked \in Keys \cup {NoKey}
  /\ packets \subseteq Sent /\ acks \subseteq 0 .. SEQ_MOD - 1
  /\ channels \subseteq Ids /\ inbox \in 0 .. Len(sent) /\ unhandled \subseteq Sent
  /\ history \in [Ids -> Seq(0 .. SEQ_MOD - 1)] /\ handled \in [Ids -> Seq(Sent)]
  /\ ok \in [Messages -> Nat] /\ failed \in [Messages -> Nat]
  /\ forgotten \subseteq Sent

\* Nothing is reported on a message before it is sent.
NoReport == \A m \in Messages : m > Len(sent) => ok[m] = 0 /\ failed[m] = 0

TypeInv == TypeOK /\ Tracks(pending) /\ Tracks(batch) /\ Kept /\ NoReport

\* A sequence number has its 16 bits.
LEMMA SeqNumType == \A m \in Nat \ {0} : SeqNum(m) \in 0 .. SEQ_MOD - 1
BY TransportMonitorAssumption DEF TransportMonitorAssumption, SeqNum

\* The key of a message that has been sent.
LEMMA KeyType ==
  ASSUME TypeOK
  PROVE  /\ Sent \subseteq Nat \ {0} /\ Sent \subseteq Messages
         /\ \A m \in Sent : /\ Key(m) \in Keys /\ Key(m) = <<sent[m], SeqNum(m)>>
                            /\ sent[m] \in Ids
<1>1. Len(sent) \in Nat /\ Sent \subseteq Nat \ {0} /\ Sent \subseteq Messages
  <2>1. Len(sent) \in Nat /\ Len(sent) <= MaxMessages
    BY DEF TypeOK
  <2> QED
    BY <2>1, ReliableTransportAssumption DEF Sent, Messages, ReliableTransportAssumption
<1>2. ASSUME NEW m \in Sent PROVE sent[m] \in Ids
  BY DEF TypeOK, Sent
<1> QED
  BY <1>1, <1>2, SeqNumType DEF Key, KeyOf, Keys

\* Two messages under one key have one number: it was used twice.
LEMMA SameKey ==
  ASSUME TypeOK, NEW m \in Sent, NEW n \in Sent, Key(m) = Key(n), ~Reused(m)
  PROVE  m = n
BY KeyType DEF Reused, Sent

\* The key that ends a wait is one of those with the number: the least of them.
LEMMA RemovedMatches ==
  ASSUME TypeInv, NEW q, Matching(q) # {}
  PROVE  Removed(q) \in DOMAIN pending /\ Removed(q)[2] = q
<1> DEFINE I == {k[1] : k \in Matching(q)}
<1>1. ASSUME NEW k \in Matching(q) PROVE k[1] \in Nat
  <2>1. PICK m \in Sent : Key(m) = k /\ TypeOK
    BY DEF TypeInv, Tracks, Matching
  <2>2. k = <<sent[m], SeqNum(m)>> /\ sent[m] \in Ids
    BY <2>1, KeyType
  <2> QED
    BY <2>2, TransportMonitorAssumption DEF TransportMonitorAssumption
<1>2. I \subseteq Nat /\ I # {}
  BY <1>1
<1>3. PICK x \in I : \A y \in I : <<y, x>> \notin OpToRel(<, Nat)
  <2> HIDE DEF I
  <2> QED
    BY <1>2, NatLessThanWellFounded, WFMin, Zenon
<1>4. \A y \in I : ~(y < x)
  BY <1>2, <1>3, Zenon DEF OpToRel
<1>5. \E k \in Matching(q) : \A j \in Matching(q) : k[1] <= j[1]
  <2>1. PICK k \in Matching(q) : k[1] = x
    OBVIOUS
  <2>2. \A j \in Matching(q) : ~(j[1] < k[1]) /\ j[1] \in Nat /\ k[1] \in Nat
    BY <1>1, <1>4, <2>1
  <2>3. \A j \in Matching(q) : k[1] <= j[1]
    BY <2>2
  <2> QED
    BY <2>3
<1>6. Removed(q) \in Matching(q)
  BY <1>5 DEF Removed
<1> QED
  BY <1>6 DEF Matching

\* Only a dispatch changes the keys, and it adds one.
LEMMA SameKeys ==
  ASSUME sent' = sent
  PROVE  Sent' = Sent /\ (\A m : Key(m)' = Key(m)) /\ (\A m : Reused(m)' = Reused(m))
BY DEF Sent, Key, KeyOf, Reused

\* A dispatch adds one message, with a key of its own, and changes none.
LEMMA MoreKeys ==
  ASSUME TypeOK, NEW i \in Ids, sent' = Append(sent, i), Len(sent) < MaxMessages
  PROVE  /\ Len(sent') = Len(sent) + 1 /\ sent' \in Seq(Ids) /\ sent'[Len(sent) + 1] = i
         /\ \A m \in Sent : m \in Sent' /\ sent'[m] = sent[m] /\ Key(m)' = Key(m) /\ (Reused(m) => Reused(m)')
         /\ Sent' = Sent \cup {Len(sent) + 1} /\ Len(sent) + 1 \notin Sent /\ Len(sent) + 1 \in Messages
         /\ \A m : m = Len(sent) + 1 => Key(m)' = KeyOf(i, m)
<1>1. Len(sent) \in Nat /\ sent \in Seq(Ids)
  BY DEF TypeOK
<1>2. Len(sent') = Len(sent) + 1 /\ sent' \in Seq(Ids) /\ sent'[Len(sent) + 1] = i
  BY <1>1
<1>3. \A m \in Sent : sent'[m] = sent[m]
  BY <1>1 DEF Sent
<1>4. Sent' = Sent \cup {Len(sent) + 1} /\ Len(sent) + 1 \notin Sent
  BY <1>1, <1>2 DEF Sent
<1>5. \A m \in Sent : Key(m)' = Key(m) /\ (Reused(m) => Reused(m)')
  BY <1>3, <1>4 DEF Key, KeyOf, Reused, Sent
<1>6. \A m : m = Len(sent) + 1 => Key(m)' = KeyOf(i, m)
  BY <1>2 DEF Key, KeyOf
<1>7. Len(sent) + 1 \in Messages
  BY <1>1, ReliableTransportAssumption DEF Messages, ReliableTransportAssumption
<1> QED
  BY <1>2, <1>3, <1>4, <1>5, <1>6, <1>7

\* What is erased, taken out or added leaves a table a table.
LEMMA TracksLess ==
  ASSUME NEW f, Tracks(f), NEW K
  PROVE  Tracks(Without(f, K)) /\ Tracks(Only(f, K))
BY DEF Tracks, Without, Only

\* So does a message added under its key.
LEMMA TracksMore ==
  ASSUME NEW f, Tracks(f), NEW m \in Sent
  PROVE  Tracks(With(f, Key(m), m))
BY DEF Tracks, With

\* The monitor's table under each of its operations.
LEMMA PendingTracks ==
  ASSUME TypeInv, sent' = sent,
         \/ \E m \in Sent : Add(Key(m), m)
         \/ \E K : pending' = Without(pending, K)
         \/ UNCHANGED pending
  PROVE  Tracks(pending)'
<1>1. Tracks(pending) /\ (Tracks(pending') => Tracks(pending)')
  BY SameKeys DEF TypeInv, Tracks
<1>2. Tracks(pending')
  BY <1>1, TracksLess, TracksMore DEF Add
<1> QED
  BY <1>1, <1>2

\* Who is not idle has a message.
LEMMA ActorType ==
  ASSUME TypeOK
  PROVE  /\ \A s \in Senders : pc[s] # "idle" => cur[s] \in Sent
         /\ at # "scan" => again \in Sent
BY DEF TypeOK, Sent, None

\* Every step preserves the types of the variables.
LEMMA TypeOKStep == TypeInv /\ [Next]_vars => TypeOK'
<1> SUFFICES ASSUME TypeInv, [Next]_vars PROVE TypeOK'
  OBVIOUS
<1> USE DEF None, senderVars, retryVars, linkVars, farVars, reports, Return, ReturnAgain
<1>0. TypeOK /\ Len(sent) \in Nat
  BY DEF TypeInv, TypeOK
<1>1. ASSUME NEW s \in Senders, SendWithRetry(s) PROVE TypeOK'
  <2>1. PICK i \in Ids : sent' = Append(sent, i)
    BY <1>0, <1>1, ReliableTransportAssumption
    DEF SendWithRetry, ReliableTransportAssumption, TypeOK
  <2>2. Len(sent') = Len(sent) + 1 /\ sent' \in Seq(Ids) /\ Sent \subseteq Sent' /\ Len(sent) < MaxMessages
    BY <1>0, <1>1, <2>1, MoreKeys DEF SendWithRetry
  <2>3. Len(sent') <= MaxMessages
    BY <1>0, <2>2, ReliableTransportAssumption DEF ReliableTransportAssumption
  <2>4. cur' \in [Senders -> 0 .. Len(sent')] /\ pc' = [pc EXCEPT ![s] = "add"]
        /\ \A t \in Senders : pc'[t] = "idle" <=> cur'[t] = 0
    <3>1. /\ cur \in [Senders -> 0 .. Len(sent)]
          /\ pc \in [Senders -> {"idle", "add", "send", "mark", "cancel", "giveUp"}]
          /\ \A t \in Senders : pc[t] = "idle" <=> cur[t] = 0
      BY <1>0 DEF TypeOK
    <3>2. cur' = [cur EXCEPT ![s] = Len(sent) + 1] /\ pc' = [pc EXCEPT ![s] = "add"]
      BY <1>1 DEF SendWithRetry
    <3>3. Len(sent) + 1 \in 0 .. Len(sent') /\ 0 .. Len(sent) \subseteq 0 .. Len(sent') /\ Len(sent) + 1 # 0
      BY <1>0, <2>2
    <3> QED
      BY <3>1, <3>2, <3>3
  <2>5. handled \in [Ids -> Seq(Sent')]
    <3>1. \A j \in Ids : handled[j] \in Seq(Sent')
      BY <1>0, <2>2 DEF TypeOK
    <3> QED
      BY <1>0, <3>1 DEF TypeOK
  <2>6. /\ again \in 0 .. Len(sent') /\ packets \subseteq Sent' /\ forgotten \subseteq Sent'
        /\ inbox \in 0 .. Len(sent') /\ unhandled \subseteq Sent'
    <3>1. /\ again \in 0 .. Len(sent) /\ packets \subseteq Sent /\ forgotten \subseteq Sent
          /\ inbox \in 0 .. Len(sent) /\ unhandled \subseteq Sent
      BY <1>0 DEF TypeOK
    <3> QED
      BY <1>0, <2>2, <3>1
  <2> QED
    BY <1>0, <1>1, <2>2, <2>3, <2>4, <2>5, <2>6 DEF SendWithRetry, TypeOK
<1>2. ASSUME UNCHANGED sent PROVE Sent' = Sent
  BY <1>2 DEF Sent
<1>3. \A m \in Sent : m \in 1 .. Len(sent)
  BY DEF Sent
<1>4. \A f \in [Messages -> Nat], m \in Messages : Report(f, m) \in [Messages -> Nat]
  BY DEF Report
<1> USE <1>0, <1>2
<1>5. ASSUME NEW s \in Senders, Register(s) PROVE TypeOK'
  BY <1>5 DEF Register, TypeOK
<1>6. ASSUME NEW s \in Senders, Transmit(s) PROVE TypeOK'
  <2>1. packets' \subseteq Sent
    BY <1>6, ActorType DEF Transmit, TypeOK
  <2> QED
    BY <1>6, <2>1 DEF Transmit, TypeOK
<1>7. ASSUME NEW s \in Senders, MarkSent(s) PROVE TypeOK'
  BY <1>7 DEF MarkSent, TypeOK
<1>8. ASSUME NEW s \in Senders, CancelSend(s) PROVE TypeOK'
  BY <1>8 DEF CancelSend, TypeOK
<1>9. ASSUME NEW s \in Senders, GiveUp(s) PROVE TypeOK'
  <2>1. cur[s] \in Messages
    BY <1>9, KeyType, ActorType DEF GiveUp
  <2>2. failed' \in [Messages -> Nat]
    BY <1>9, <1>4, <2>1 DEF GiveUp, TypeOK
  <2> QED
    BY <1>9, <2>2 DEF GiveUp, TypeOK
<1>10. CASE Process
  BY <1>10 DEF Process, TypeOK
<1>11. ASSUME NEW k \in Keys, OnTimeout(k) PROVE TypeOK'
  <2>1. k \in DOMAIN store => store[k].msg \in 1 .. Len(sent) /\ store[k].msg \in Messages /\ store[k].msg # 0
    BY KeyType DEF TypeInv, Kept, Sent
  <2>2. failed' \in [Messages -> Nat]
    BY <1>11, <1>4, <2>1 DEF OnTimeout, TypeOK
  <2>3. at' \in {"scan", "add", "reregister"} /\ again' \in 0 .. Len(sent) /\ (at' = "scan" <=> again' = 0)
    BY <1>11, <2>1 DEF OnTimeout, TypeOK
  <2> QED
    BY <1>11, <2>2, <2>3 DEF OnTimeout, TypeOK
<1>12. CASE RegisterAgain
  BY <1>12 DEF RegisterAgain, TypeOK
<1>13. CASE Retransmit
  <2>1. packets' \subseteq Sent
    BY <1>13, ActorType DEF Retransmit, TypeOK
  <2> QED
    BY <1>13, <2>1 DEF Retransmit, TypeOK
<1>14. CASE CancelRetry
  BY <1>14 DEF CancelRetry, TypeOK
<1>15. CASE GiveUpRetry
  <2>1. again \in Messages
    BY <1>15, KeyType, ActorType DEF GiveUpRetry
  <2>2. failed' \in [Messages -> Nat]
    BY <1>15, <1>4, <2>1 DEF GiveUpRetry, TypeOK
  <2> QED
    BY <1>15, <2>2 DEF GiveUpRetry, TypeOK
<1>16. CASE Reregister
  BY <1>16 DEF Reregister, TypeOK, Sent
<1>17. ASSUME NEW q \in acks, ReceiveAck(q) PROVE TypeOK'
  <2>1. ASSUME Matching(q) # {}
        PROVE  Removed(q) \in Keys /\ pending[Removed(q)] \in Messages
    BY <2>1, RemovedMatches, KeyType DEF TypeInv, Tracks
  <2> QED
    BY <1>17, <1>4, <2>1 DEF ReceiveAck, TypeOK
<1>18. CASE OnSuccess
  BY <1>18 DEF OnSuccess, TypeOK
<1>19. CASE ProcessIncoming
  <2> DEFINE m == inbox
  <2>1. m \in Sent /\ SeqNum(m) \in 0 .. SEQ_MOD - 1 /\ sent[m] \in Ids
    <3>1. m \in Sent
      BY <1>19 DEF ProcessIncoming, TypeOK, Sent
    <3> QED
      BY <3>1, KeyType, SeqNumType
  <2>2. ASSUME NEW i \in Ids
        PROVE  Remember(history[i], SeqNum(m)) \in Seq(0 .. SEQ_MOD - 1) /\ Append(handled[i], m) \in Seq(Sent)
    <3> DEFINE R == 0 .. SEQ_MOD - 1
    <3>1. history[i] \in Seq(R) /\ handled[i] \in Seq(Sent)
      BY DEF TypeOK
    <3> HIDE DEF R
    <3>2. Len(history[i]) >= SEQ_HISTORY_SIZE => history[i] # <<>>
      BY <3>1, ReliableTransportAssumption DEF ReliableTransportAssumption
    <3>3. history[i] # <<>> => Tail(history[i]) \in Seq(R)
      BY <3>1, HeadTailProperties
    <3>4. Append(handled[i], m) \in Seq(Sent)
      BY <2>1, <3>1, AppendProperties
    <3>5. \A h \in Seq(R) : Append(h, SeqNum(m)) \in Seq(R)
      <4>1. SeqNum(m) \in R
        BY <2>1 DEF R
      <4> QED
        BY <4>1, AppendProperties
    <3>6. Remember(history[i], SeqNum(m)) \in Seq(R)
      BY <3>1, <3>2, <3>3, <3>5, ReliableTransportAssumption DEF Remember, ReliableTransportAssumption
    <3> QED
      BY <3>4, <3>6 DEF R
  <2> HIDE DEF m
  <2>3. history' \in [Ids -> Seq(0 .. SEQ_MOD - 1)]
    <3>1. history' = [history EXCEPT ![sent[m]] =
                        IF Filters(sent[m]) /\ ~IsSeen(sent[m], SeqNum(m)) THEN Remember(@, SeqNum(m)) ELSE @]
      BY <1>19 DEF ProcessIncoming, m
    <3> QED
      BY <2>1, <2>2, <3>1 DEF TypeOK
  <2>4. handled' \in [Ids -> Seq(Sent)]
    <3>1. \/ UNCHANGED handled
          \/ handled' = [handled EXCEPT ![sent[m]] = IF IsSeen(sent[m], SeqNum(m)) THEN @ ELSE Append(@, m)]
      BY <1>19 DEF ProcessIncoming, m
    <3> QED
      BY <2>1, <2>2, <3>1 DEF TypeOK
  <2>5. unhandled' \subseteq Sent
    BY <1>19, <2>1 DEF ProcessIncoming, TypeOK, m
  <2>6. inbox' = 0 /\ UNCHANGED <<sent, pc, cur, at, again, acked, packets, acks, channels, ok, failed, forgotten>>
    BY <1>19 DEF ProcessIncoming
  <2> QED
    BY SMTT(20), <2>3, <2>4, <2>5, <2>6 DEF TypeOK
<1>23. ASSUME NEW m \in packets, Receive(m) PROVE TypeOK'
  <2>1. m \in Sent
    BY DEF TypeOK
  <2>2. SeqNum(m) \in 0 .. SEQ_MOD - 1 /\ m \in 0 .. Len(sent)
    BY <2>1, KeyType, SeqNumType DEF Sent
  <2> QED
    BY <1>23, <2>1, <2>2 DEF Receive, TypeOK
<1>24. ASSUME NEW i \in Ids, RegisterHandler(i) PROVE TypeOK'
  BY <1>24 DEF RegisterHandler, TypeOK
<1>22. CASE UNCHANGED vars
  BY <1>22 DEF vars, TypeOK
<1> QED
  BY <1>1, <1>5, <1>6, <1>7, <1>8, <1>9, <1>10, <1>11, <1>12, <1>13, <1>14, <1>15, <1>16, <1>17,
     <1>18, <1>19, <1>22, <1>23, <1>24
  DEF Next, Sending, Monitoring, Retrying, Receiving, FarSide

\* Every step keeps the four tables under the keys of their messages.
LEMMA TablesStep == TypeInv /\ [Next]_vars => Tracks(pending)' /\ Tracks(batch)' /\ Kept' /\ NoReport'
<1> DEFINE Good == Tracks(pending) /\ Tracks(batch) /\ Kept /\ NoReport
<1> SUFFICES ASSUME TypeInv, [Next]_vars PROVE Good'
  OBVIOUS
<1>0. TypeOK /\ Tracks(pending) /\ Tracks(batch) /\ Kept /\ NoReport /\ Len(sent) \in Nat
      /\ MAX_RETRIES \in Nat
  BY ReliableTransportAssumption DEF TypeInv, TypeOK, ReliableTransportAssumption
<1>1. ASSUME NEW s \in Senders, SendWithRetry(s) PROVE Good'
  <2>1. PICK i \in Ids : sent' = Append(sent, i)
                         /\ store' = With(store, KeyOf(i, Len(sent) + 1), Entry(Len(sent) + 1))
    BY <1>0, <1>1, ReliableTransportAssumption
    DEF SendWithRetry, ReliableTransportAssumption, TypeOK
  <2>2. PICK m \in Sent' : /\ m = Len(sent) + 1 /\ m > Len(sent) /\ Sent' = Sent \cup {m}
                           /\ Key(m)' = KeyOf(i, m) /\ Len(sent') = Len(sent) + 1
    BY <1>0, <1>1, <2>1, MoreKeys DEF SendWithRetry
  <2>3. \A n \in Sent : Key(n)' = Key(n)
    BY <1>0, <1>1, <2>1, MoreKeys DEF SendWithRetry
  <2>4. Tracks(pending)' /\ Tracks(batch)'
    BY <1>0, <1>1, <2>2, <2>3 DEF Tracks, SendWithRetry, retryVars
  <2>5. Kept'
    <3> SUFFICES ASSUME NEW k \in DOMAIN store'
                 PROVE  (/\ store[k] \in [msg : Sent, attempts : 0 .. MAX_RETRIES, isSent : BOOLEAN]
                         /\ Key(store[k].msg) = k)'
      BY DEF Kept
    <3>1. CASE k = KeyOf(i, m)
      <4>1. store'[k] = Entry(m)
        BY <2>1, <2>2, <3>1 DEF With
      <4>2. store'[k].msg = m /\ store'[k] \in [msg : Sent', attempts : 0 .. MAX_RETRIES, isSent : BOOLEAN]
        BY <1>0, <2>2, <4>1 DEF Entry
      <4> QED
        BY <2>2, <3>1, <4>2
    <3>2. CASE k # KeyOf(i, m)
      <4>1. k \in DOMAIN store /\ store'[k] = store[k]
        BY <2>1, <2>2, <3>2 DEF With
      <4> QED
        BY <1>0, <2>2, <2>3, <4>1 DEF Kept
    <3> QED
      BY <3>1, <3>2
  <2>6. NoReport'
    BY <1>0, <1>1, <2>2 DEF NoReport, SendWithRetry, reports, Messages
  <2> QED
    BY <2>4, <2>5, <2>6
<1>2. ASSUME UNCHANGED <<sent, ok, failed>> PROVE NoReport'
  BY <1>0, <1>2 DEF NoReport
<1>3. ASSUME NEW m \in Sent, UNCHANGED sent, failed' = Report(failed, m), ok' = ok PROVE NoReport'
  BY <1>0, <1>3 DEF NoReport, Report, Sent, TypeOK
<1>4. ASSUME NEW m \in Sent, UNCHANGED sent, ok' = Report(ok, m), failed' = failed PROVE NoReport'
  BY <1>0, <1>4 DEF NoReport, Report, Sent, TypeOK
<1>5. ASSUME UNCHANGED sent,
             \/ UNCHANGED store
             \/ \E K : store' = Without(store, K)
             \/ \E k : store' = MarkedSent(store, k)
             \/ \E k \in DOMAIN store : Retryable(store[k]) /\ store' = [store EXCEPT ![k].attempts = @ - 1]
      PROVE  Kept'
  <2>1. Sent' = Sent /\ \A m : Key(m)' = Key(m)
    BY <1>5, SameKeys
  <2>2. CASE UNCHANGED store
    BY <1>0, <2>1, <2>2 DEF Kept
  <2>3. ASSUME NEW K, store' = Without(store, K) PROVE Kept'
    BY <1>0, <2>1, <2>3 DEF Kept, Without
  <2>4. ASSUME NEW k, store' = MarkedSent(store, k) PROVE Kept'
    BY <1>0, <2>1, <2>4 DEF Kept, MarkedSent
  <2>5. ASSUME NEW k \in DOMAIN store, Retryable(store[k]),
               store' = [store EXCEPT ![k].attempts = @ - 1]
        PROVE  Kept'
    BY <1>0, <2>1, <2>5 DEF Kept, Retryable
  <2> QED
    BY <1>5, <2>2, <2>3, <2>4, <2>5
<1>6. ASSUME UNCHANGED sent, \/ UNCHANGED batch
                             \/ \E K : batch' = Without(batch, K)
                             \/ \E K : batch' = Only(pending, K)
      PROVE  Tracks(batch)'
  <2>1. Tracks(batch') => Tracks(batch)'
    BY <1>6, SameKeys DEF Tracks
  <2> QED
    BY <1>0, <1>6, <2>1, TracksLess
<1> USE DEF senderVars, retryVars, linkVars, farVars, reports, Return, ReturnAgain
<1>7. ASSUME NEW s \in Senders, Sending(s) PROVE Good'
  <2>1. UNCHANGED <<sent, ok, batch>> /\ cur[s] \in Sent
    BY <1>0, <1>7, ActorType DEF Sending, Register, Transmit, MarkSent, CancelSend, GiveUp
  <2>2. Tracks(pending)'
    BY <1>7, <2>1, PendingTracks
    DEF Sending, Register, Transmit, MarkSent, CancelSend, GiveUp, Cancel
  <2>3. Kept'
    BY <1>5, <1>7, <2>1 DEF Sending, Register, Transmit, MarkSent, CancelSend, GiveUp
  <2>4. NoReport'
    BY <1>2, <1>3, <1>7, <2>1 DEF Sending, Register, Transmit, MarkSent, CancelSend, GiveUp
  <2> QED
    BY <1>6, <2>1, <2>2, <2>3, <2>4
<1>8. CASE Process
  BY <1>2, <1>5, <1>6, <1>8, PendingTracks DEF Process
<1>9. ASSUME NEW k \in Keys, OnTimeout(k) PROVE Good'
  <2>1. UNCHANGED <<sent, pending, ok>> /\ batch' = Without(batch, {k})
    BY <1>9 DEF OnTimeout
  <2>2. k \in DOMAIN store => store[k].msg \in Sent
    BY <1>0 DEF Kept
  <2>3. Kept'
    BY <1>5, <1>9, <2>1 DEF OnTimeout
  <2>4. NoReport'
    BY <1>2, <1>3, <1>9, <2>1, <2>2 DEF OnTimeout
  <2> QED
    BY <1>6, <2>1, <2>3, <2>4, PendingTracks
<1>10. CASE Retrying
  <2>1. UNCHANGED <<sent, ok, batch>> /\ again \in Sent
    BY <1>0, <1>10, ActorType
    DEF Retrying, RegisterAgain, Retransmit, CancelRetry, GiveUpRetry, Reregister
  <2>2. Tracks(pending)'
    BY <1>10, <2>1, PendingTracks
    DEF Retrying, RegisterAgain, Retransmit, CancelRetry, GiveUpRetry, Reregister, Cancel
  <2>3. Kept'
    BY <1>5, <1>10, <2>1 DEF Retrying, RegisterAgain, Retransmit, CancelRetry, GiveUpRetry, Reregister
  <2>4. NoReport'
    BY <1>2, <1>3, <1>10, <2>1
    DEF Retrying, RegisterAgain, Retransmit, CancelRetry, GiveUpRetry, Reregister
  <2> QED
    BY <1>6, <2>1, <2>2, <2>3, <2>4
<1>11. ASSUME NEW q \in acks, ReceiveAck(q) PROVE Good'
  <2>1. UNCHANGED <<sent, failed, batch, store>>
    BY <1>11 DEF ReceiveAck
  <2>2. Tracks(pending)'
    BY <1>11, <2>1, PendingTracks DEF ReceiveAck
  <2>3. NoReport'
    <3>1. Matching(q) # {} => pending[Removed(q)] \in Sent
      BY <1>0, RemovedMatches DEF Tracks
    <3> QED
      BY <1>2, <1>4, <1>11, <2>1, <3>1 DEF ReceiveAck
  <2> QED
    BY <1>5, <1>6, <2>1, <2>2, <2>3
<1>12. CASE OnSuccess
  BY <1>2, <1>5, <1>6, <1>12, PendingTracks DEF OnSuccess
<1>13. CASE FarSide
  <2>1. UNCHANGED <<sent, pending, store, batch, ok, failed>>
    BY <1>13 DEF FarSide, Receive, ProcessIncoming, RegisterHandler
  <2> QED
    BY <1>2, <1>5, <1>6, <2>1, PendingTracks
<1>14. CASE UNCHANGED vars
  BY <1>2, <1>5, <1>6, <1>14, PendingTracks DEF vars
<1> QED
  BY <1>1, <1>7, <1>8, <1>9, <1>10, <1>11, <1>12, <1>13, <1>14 DEF Next, Monitoring, Receiving

\* The initial state has the types.
LEMMA TypeInitially == Init => TypeInv
<1> SUFFICES ASSUME Init PROVE TypeInv
  OBVIOUS
<1>1. TypeOK
  BY ReliableTransportAssumption
  DEF Init, TypeOK, Sent, None, ReliableTransportAssumption
<1> QED
  BY <1>1 DEF Init, TypeInv, Tracks, Kept, NoReport

\* Every step preserves the type invariant.
LEMMA TypeStep == TypeInv /\ [Next]_vars => TypeInv'
BY TypeOKStep, TablesStep DEF TypeInv

\* In every state of every execution the variables have their types.
THEOREM TypeCorrect == Spec => []TypeInv
BY TypeInitially, TypeStep, PTL DEF Spec, Safety

---------------------------------------------------------------------------
(* What the receiver's filter guarantees, and what an acknowledgement means.  *)

\* h holds the numbers of the last messages of d, as many as the ring takes.
LastNumbers(h, d) ==
  /\ Len(h) <= SEQ_HISTORY_SIZE /\ Len(h) <= Len(d)
  /\ Len(h) = SEQ_HISTORY_SIZE \/ Len(h) = Len(d)
  /\ \A j \in 1 .. Len(h) : h[j] = SeqNum(d[Len(d) - Len(h) + j])

FilterExact == \A i \in Ids : LastNumbers(history[i], handled[i])

\* A handler is invoked for its own messages.
OwnMessages == \A i \in Ids : \A a \in DOMAIN handled[i] : sent[handled[i][a]] = i

\* What the receiver has of a message: it handled it, has yet to look it up, or
\* found no channel for it.
Received(m) == Handled(m) \/ inbox = m \/ m \in unhandled

\* It has received a message under this number: what an acknowledgement on the
\* link says, and what a report of success has relied on.
GotNumber(q)    == \E n \in Sent : SeqNum(n) = q /\ Received(n)
AcksReceived    == \A q \in acks : GotNumber(q)
ReportsReceived == \A m \in Messages : ok[m] > 0 => GotNumber(SeqNum(m))

DeliveryInv == FilterExact /\ OwnMessages /\ AcksReceived /\ ReportsReceived /\ DuplicatesFarApart

\* Remembering the number of a message that is handled keeps the filter exact.
LEMMA RememberLast ==
  ASSUME NEW R, NEW h \in Seq(R), NEW S, NEW d \in Seq(S), LastNumbers(h, d), NEW m \in S, SeqNum(m) \in R
  PROVE  LastNumbers(Remember(h, SeqNum(m)), Append(d, m))
<1> DEFINE q == SeqNum(m)
           n == Len(h)
           e == Append(d, m)
<1>0. SEQ_HISTORY_SIZE \in Nat \ {0} /\ n \in Nat /\ Len(d) \in Nat
  BY ReliableTransportAssumption DEF ReliableTransportAssumption
<1>1. Len(e) = Len(d) + 1 /\ e[Len(d) + 1] = m /\ \A j \in 1 .. Len(d) : e[j] = d[j]
  BY <1>0
<1>2. \A j \in 1 .. n : Len(d) - n + j \in 1 .. Len(d)
  BY <1>0 DEF LastNumbers
<1>3. CASE n < SEQ_HISTORY_SIZE
  <2>1. Remember(h, q) = Append(h, q) /\ n = Len(d)
    BY <1>0, <1>3 DEF Remember, LastNumbers
  <2>2. Len(Append(h, q)) = n + 1 /\ Append(h, q)[n + 1] = q /\ \A j \in 1 .. n : Append(h, q)[j] = h[j]
    BY <1>0
  <2>3. \A j \in 1 .. n : h[j] = SeqNum(d[j])
    BY <1>0, <2>1 DEF LastNumbers
  <2>4. \A j \in 1 .. n + 1 : Append(h, q)[j] = SeqNum(e[j])
    <3> SUFFICES ASSUME NEW j \in 1 .. n + 1 PROVE Append(h, q)[j] = SeqNum(e[j])
      OBVIOUS
    <3>1. CASE j = n + 1
      BY <1>1, <2>1, <2>2, <3>1
    <3>2. CASE j # n + 1
      <4>1. j \in 1 .. n /\ j \in 1 .. Len(d)
        BY <1>0, <2>1, <3>2
      <4> QED
        BY <1>1, <2>2, <2>3, <4>1
    <3> QED
      BY <3>1, <3>2
  <2> HIDE DEF e, q
  <2> QED
    BY <1>0, <1>1, <1>3, <2>1, <2>2, <2>4 DEF LastNumbers, q, e
<1>4. CASE ~(n < SEQ_HISTORY_SIZE)
  <2>1. n = SEQ_HISTORY_SIZE /\ Remember(h, q) = Append(Tail(h), q) /\ n <= Len(d)
    BY <1>0, <1>4 DEF Remember, LastNumbers
  <2>2. h # <<>> /\ Tail(h) \in Seq(R) /\ Len(Tail(h)) = n - 1 /\ \A j \in 1 .. n - 1 : Tail(h)[j] = h[j + 1]
    BY <1>0, <2>1
  <2> DEFINE g == Append(Tail(h), q)
  <2>3. Len(g) = n /\ g[n] = q /\ \A j \in 1 .. n - 1 : g[j] = h[j + 1]
    BY <1>0, <2>2
  <2>4. \A j \in 1 .. n : g[j] = SeqNum(e[Len(d) + 1 - n + j])
    <3> SUFFICES ASSUME NEW j \in 1 .. n PROVE g[j] = SeqNum(e[Len(d) + 1 - n + j])
      OBVIOUS
    <3>1. CASE j = n
      <4>1. Len(d) + 1 - n + j = Len(d) + 1
        BY <1>0, <3>1
      <4> QED
        BY <1>1, <2>3, <3>1, <4>1
    <3>2. CASE j # n
      <4>1. /\ j + 1 \in 1 .. n /\ j \in 1 .. n - 1
            /\ Len(d) - n + (j + 1) = Len(d) + 1 - n + j
        BY <1>0, <3>2
      <4>2. g[j] = h[j + 1] /\ h[j + 1] = SeqNum(d[Len(d) - n + (j + 1)])
        BY <2>3, <4>1 DEF LastNumbers
      <4>3. Len(d) + 1 - n + j \in 1 .. Len(d)
        BY <1>2, <4>1
      <4> QED
        BY <1>1, <4>1, <4>2, <4>3
    <3> QED
      BY <3>1, <3>2
  <2>5. Len(e) - Len(g) = Len(d) + 1 - n
    <3> HIDE DEF e, g, n
    <3> QED
      BY <1>0, <1>1, <2>3
  <2>6. Len(g) <= SEQ_HISTORY_SIZE /\ Len(g) <= Len(e) /\ Len(g) = SEQ_HISTORY_SIZE
    BY <1>0, <1>1, <2>1, <2>3
  <2> HIDE DEF e, q, g
  <2>7. LastNumbers(g, e)
    BY <2>3, <2>4, <2>5, <2>6 DEF LastNumbers
  <2> QED
    BY <2>1, <2>7 DEF q, e, g
<1> QED
  BY <1>3, <1>4

\* A number the filter does not know was not among the last SEQ_HISTORY_SIZE.
LEMMA UnseenIsFar ==
  ASSUME NEW R, NEW h \in Seq(R), NEW S, NEW d \in Seq(S), LastNumbers(h, d), NEW q,
         \A j \in DOMAIN h : h[j] # q,
         NEW a \in 1 .. Len(d), SeqNum(d[a]) = q
  PROVE  Len(d) + 1 - a > SEQ_HISTORY_SIZE
<1>0. SEQ_HISTORY_SIZE \in Nat /\ Len(h) \in Nat /\ Len(d) \in Nat /\ DOMAIN h = 1 .. Len(h)
  BY ReliableTransportAssumption DEF ReliableTransportAssumption
<1> DEFINE j == a - (Len(d) - Len(h))
<1>1. ASSUME j \in 1 .. Len(h) PROVE FALSE
  <2>1. h[j] = SeqNum(d[Len(d) - Len(h) + j])
    BY <1>1 DEF LastNumbers
  <2>2. Len(d) - Len(h) + j = a
    BY <1>0
  <2> QED
    BY <1>0, <1>1, <2>1, <2>2
<1>2. a <= Len(d) - Len(h)
  <2>1. j \notin 1 .. Len(h)
    BY <1>1
  <2> QED
    BY <1>0, <2>1
<1>3. Len(h) # Len(d)
  BY <1>0, <1>2
<1>4. Len(h) = SEQ_HISTORY_SIZE
  BY <1>3 DEF LastNumbers
<1> QED
  BY <1>0, <1>2, <1>4

\* The place of one of the last n of w elements.
LEMMA Shift ==
  ASSUME NEW n \in Nat, NEW w \in Nat, n <= w, NEW j \in 1 .. n
  PROVE  w - n + j \in 1 .. w
OBVIOUS

\* A message that its handler was invoked with has been received.
LEMMA HandledIsReceived ==
  ASSUME TypeOK, OwnMessages, NEW i \in Ids, NEW a \in DOMAIN handled[i]
  PROVE  handled[i][a] \in Sent /\ Received(handled[i][a])
<1>1. handled[i] \in Seq(Sent)
  BY DEF TypeOK
<1>2. handled[i][a] \in Sent
  BY <1>1, ElementOfSeq
<1>3. sent[handled[i][a]] = i
  BY DEF OwnMessages
<1> QED
  BY <1>2, <1>3 DEF Received, Handled

\* A number in the filter is that of a message the handler was invoked with.
LEMMA SeenWasReceived ==
  ASSUME TypeOK, OwnMessages, FilterExact, NEW i \in Ids, NEW q, IsSeen(i, q)
  PROVE  \E a \in DOMAIN handled[i] : SeqNum(handled[i][a]) = q
<1>1. PICK j \in DOMAIN history[i] : history[i][j] = q
  BY DEF IsSeen
<1>2. history[i] \in Seq(0 .. SEQ_MOD - 1) /\ handled[i] \in Seq(Sent)
  BY DEF TypeOK
<1>3. LastNumbers(history[i], handled[i])
  BY DEF FilterExact
<1>4. /\ j \in 1 .. Len(history[i])
      /\ Len(handled[i]) - Len(history[i]) + j \in DOMAIN handled[i]
  <2>1. /\ Len(history[i]) \in Nat /\ Len(handled[i]) \in Nat
        /\ DOMAIN history[i] = 1 .. Len(history[i]) /\ DOMAIN handled[i] = 1 .. Len(handled[i])
    BY <1>2
  <2>2. Len(history[i]) <= Len(handled[i])
    BY <1>3 DEF LastNumbers
  <2>3. j \in 1 .. Len(history[i])
    BY <1>1, <2>1
  <2>4. Len(handled[i]) - Len(history[i]) + j \in 1 .. Len(handled[i])
    BY <2>1, <2>2, <2>3, Shift
  <2> QED
    BY <2>1, <2>3, <2>4
<1>5. SeqNum(handled[i][Len(handled[i]) - Len(history[i]) + j]) = q
  BY <1>1, <1>3, <1>4 DEF LastNumbers
<1> QED
  BY <1>4, <1>5

\* Looking a message up keeps what the receiver knows exact and loses no number.
LEMMA ProcessDelivers ==
  ASSUME TypeInv, DeliveryInv, ProcessIncoming
  PROVE  /\ FilterExact' /\ OwnMessages' /\ DuplicatesFarApart'
         /\ \A q : GotNumber(q) => GotNumber(q)'
<1>0. /\ TypeOK /\ FilterExact /\ OwnMessages /\ DuplicatesFarApart
      /\ UNCHANGED sent /\ Sent' = Sent
  BY SameKeys DEF TypeInv, DeliveryInv, ProcessIncoming, senderVars
<1>m. PICK m \in Sent : m = inbox
  BY <1>0 DEF ProcessIncoming, TypeOK, Sent, None
<1>i. PICK i \in Ids : i = sent[m]
  BY <1>0, KeyType
<1>q. PICK q \in 0 .. SEQ_MOD - 1 : q = SeqNum(m)
  BY <1>0, KeyType, SeqNumType
<1>1. m = inbox /\ i = sent[m] /\ q = SeqNum(m)
  BY <1>m, <1>i, <1>q
\* No message but the one looked up is affected.
<1>2. ASSUME \A j \in Ids : \A a \in DOMAIN handled[j] : a \in DOMAIN handled'[j] /\ handled'[j][a] = handled[j][a],
             GotNumber(q)'
      PROVE  \A p : GotNumber(p) => GotNumber(p)'
  <2> SUFFICES ASSUME NEW p, NEW n \in Sent, SeqNum(n) = p, Received(n) PROVE GotNumber(p)'
    BY DEF GotNumber
  <2>1. CASE n = m
    <3>1. p = q
      BY <1>1, <2>1
    <3> QED
      BY <1>2, <3>1
  <2>2. CASE n # m
    <3>1. sent[n] \in Ids
      BY <1>0, KeyType
    <3>2. Received(n)'
      BY <1>0, <1>1, <1>2, <2>2, <3>1 DEF Received, Handled, ProcessIncoming
    <3> QED
      BY <1>0, <3>2 DEF GotNumber
  <2> QED
    BY <2>1, <2>2
<1>3. CASE i \notin channels
  <2>1. UNCHANGED <<history, handled>> /\ m \in unhandled'
    BY <1>0, <1>1, <1>3 DEF ProcessIncoming, Filters, TypeOK
  <2>2. GotNumber(q)'
    BY <1>0, <1>1, <2>1 DEF GotNumber, Received
  <2> QED
    BY <1>0, <1>2, <2>1, <2>2 DEF FilterExact, OwnMessages, DuplicatesFarApart
<1>4. CASE i \in channels /\ IsSeen(i, q)
  <2>1. UNCHANGED <<history, handled>>
    BY <1>0, <1>1, <1>4 DEF ProcessIncoming, Filters, TypeOK
  <2>2. GotNumber(q)'
    <3>1. PICK a \in DOMAIN handled[i] : SeqNum(handled[i][a]) = q
      BY <1>0, <1>1, <1>4, SeenWasReceived
    <3>2. PICK n \in Sent : n = handled[i][a] /\ sent[n] = i
      BY <1>0, <1>1, HandledIsReceived DEF OwnMessages
    <3>3. Handled(n)'
      BY <1>0, <2>1, <3>2 DEF Handled
    <3> QED
      BY <1>0, <3>1, <3>2, <3>3 DEF GotNumber, Received
  <2> QED
    BY <1>0, <1>2, <2>1, <2>2 DEF FilterExact, OwnMessages, DuplicatesFarApart
<1>5. CASE i \in channels /\ ~IsSeen(i, q)
  <2>1. /\ history' = [history EXCEPT ![i] = Remember(@, q)]
        /\ handled' = [handled EXCEPT ![i] = Append(@, m)]
    BY <1>1, <1>5 DEF ProcessIncoming, Filters
  <2> DEFINE d == handled[i]
             e == Append(d, m)
  <2>2. history[i] \in Seq(0 .. SEQ_MOD - 1) /\ d \in Seq(Sent) /\ LastNumbers(history[i], d)
    BY <1>0, <1>1 DEF TypeOK, FilterExact
  <2>3. handled'[i] = e /\ history'[i] = Remember(history[i], q)
    BY <1>0, <1>1, <2>1 DEF TypeOK
  <2>4. \A j \in Ids : j # i => handled'[j] = handled[j] /\ history'[j] = history[j]
    BY <1>0, <2>1 DEF TypeOK
  <2>5. /\ Len(d) \in Nat /\ DOMAIN e = 1 .. Len(d) + 1 /\ DOMAIN d = 1 .. Len(d)
        /\ e[Len(d) + 1] = m /\ \A a \in 1 .. Len(d) : e[a] = d[a]
    BY <1>1, <2>2
  <2>6. FilterExact'
    <3>1. LastNumbers(Remember(history[i], q), e)
      BY <1>1, <2>2, RememberLast
    <3> QED
      BY <1>0, <2>3, <2>4, <3>1 DEF FilterExact
  <2>7. OwnMessages'
    <3>1. \A a \in DOMAIN e : sent[e[a]] = i
      BY <1>0, <1>1, <2>5 DEF OwnMessages
    <3> HIDE DEF e
    <3> QED
      BY <1>0, <1>1, <2>3, <2>4, <3>1 DEF OwnMessages
  <2>8. \A j \in Ids : \A a \in DOMAIN handled[j] : a \in DOMAIN handled'[j] /\ handled'[j][a] = handled[j][a]
    <3> HIDE DEF e
    <3> QED
      BY <2>3, <2>4, <2>5
  <2>9. GotNumber(q)'
    <3>1. Len(d) + 1 \in DOMAIN handled'[i] /\ handled'[i][Len(d) + 1] = m
      BY <2>3, <2>5
    <3>2. Handled(m)'
      BY <1>0, <1>1, <3>1 DEF Handled
    <3> QED
      BY <1>0, <1>1, <3>2 DEF GotNumber, Received
  <2>10. DuplicatesFarApart'
    <3> SUFFICES ASSUME NEW j \in Ids, NEW a \in DOMAIN handled'[j], NEW b \in DOMAIN handled'[j],
                        a < b, SeqNum(handled'[j][a]) = SeqNum(handled'[j][b])
                 PROVE  b - a > SEQ_HISTORY_SIZE
      BY DEF DuplicatesFarApart
    <3>1. CASE j # i
      BY <1>0, <2>4, <3>1 DEF DuplicatesFarApart
    <3>2. CASE j = i /\ b \in DOMAIN d
      <4>1. a \in DOMAIN d
        BY <2>3, <2>5, <3>2
      <4> QED
        BY <1>0, <2>8, <3>2, <4>1 DEF DuplicatesFarApart
    <3>3. CASE j = i /\ b \notin DOMAIN d
      <4>1. b = Len(d) + 1 /\ a \in 1 .. Len(d)
        BY <2>3, <2>5, <3>3
      <4>2. SeqNum(d[a]) = q
        BY <1>1, <2>3, <2>5, <3>3, <4>1
      <4>3. \A p \in DOMAIN history[i] : history[i][p] # q
        BY <1>5 DEF IsSeen
      <4>4. Len(d) + 1 - a > SEQ_HISTORY_SIZE
        <5> HIDE DEF d
        <5> QED
          BY <2>2, <4>1, <4>2, <4>3, UnseenIsFar DEF d
      <4> QED
        BY <4>1, <4>4
    <3> QED
      BY <3>1, <3>2, <3>3
  <2> QED
    BY <1>2, <2>6, <2>7, <2>8, <2>9, <2>10
<1> QED
  BY <1>3, <1>4, <1>5

\* Every step keeps what the receiver knows exact, and what is reported true.
LEMMA DeliveryStep == TypeInv /\ TypeInv' /\ DeliveryInv /\ [Next]_vars => DeliveryInv'
<1> SUFFICES ASSUME TypeInv, TypeInv', DeliveryInv, [Next]_vars PROVE DeliveryInv'
  OBVIOUS
<1>0. TypeOK /\ FilterExact /\ OwnMessages /\ AcksReceived /\ ReportsReceived /\ DuplicatesFarApart
  BY DEF TypeInv, DeliveryInv
<1>1. ASSUME NEW i \in Ids, NEW a \in DOMAIN handled[i]
      PROVE  handled[i][a] \in Sent
  BY <1>0, <1>1, HandledIsReceived
<1>2. ASSUME UNCHANGED sent \/ \E s \in Senders : SendWithRetry(s)
      PROVE  (\A m \in Sent : sent'[m] = sent[m]) /\ Sent \subseteq Sent'
  BY <1>0, <1>2, MoreKeys, SameKeys, ReliableTransportAssumption
  DEF SendWithRetry, ReliableTransportAssumption, TypeOK
\* The receiver looks nothing up in the step.
<1>3. ASSUME UNCHANGED sent \/ \E s \in Senders : SendWithRetry(s),
             UNCHANGED <<history, handled, unhandled>>, UNCHANGED inbox \/ inbox = None
      PROVE  /\ FilterExact' /\ OwnMessages' /\ DuplicatesFarApart'
             /\ \A q : GotNumber(q) => GotNumber(q)'
  <2>1. FilterExact' /\ DuplicatesFarApart'
    BY <1>0, <1>3 DEF FilterExact, DuplicatesFarApart
  <2>2. OwnMessages'
    BY <1>0, <1>1, <1>2, <1>3 DEF OwnMessages
  <2>3. ASSUME NEW m \in Sent, Received(m) PROVE m \in Sent' /\ Received(m)'
    BY <1>2, <1>3, <2>3 DEF Received, Handled, Sent, None
  <2> QED
    BY <2>1, <2>2, <2>3 DEF GotNumber
\* Nor is anything acknowledged or reported.
<1>4. ASSUME UNCHANGED sent \/ \E s \in Senders : SendWithRetry(s),
             UNCHANGED <<history, handled, unhandled, inbox>>, acks' \subseteq acks, UNCHANGED ok
      PROVE  DeliveryInv'
  BY <1>0, <1>3, <1>4 DEF DeliveryInv, AcksReceived, ReportsReceived
<1>5. CASE ProcessIncoming
  <2>1. UNCHANGED <<acks, ok>>
    BY <1>5 DEF ProcessIncoming, linkVars, reports
  <2> QED
    BY <1>0, <1>5, <2>1, ProcessDelivers DEF DeliveryInv, AcksReceived, ReportsReceived
<1> USE DEF senderVars, retryVars, linkVars, farVars, reports
<1>6. ASSUME NEW m \in packets, Receive(m) PROVE DeliveryInv'
  <2>1. /\ UNCHANGED <<sent, ok, history, handled, unhandled>> /\ inbox = None /\ inbox' = m
        /\ acks' = acks \cup {SeqNum(m)}
    BY <1>6 DEF Receive
  <2>2. GotNumber(SeqNum(m))'
    <3>1. m \in Sent /\ Sent' = Sent
      BY <1>0, <2>1, SameKeys DEF TypeOK
    <3> QED
      BY <2>1, <3>1 DEF GotNumber, Received
  <2> QED
    BY <1>0, <1>3, <2>1, <2>2 DEF DeliveryInv, AcksReceived, ReportsReceived
<1>7. ASSUME NEW q \in acks, ReceiveAck(q) PROVE DeliveryInv'
  <2>1. UNCHANGED <<sent, history, handled, unhandled, inbox>> /\ acks' \subseteq acks
    BY <1>7 DEF ReceiveAck
  <2>2. ASSUME NEW m \in Messages, ok'[m] > 0, ~(ok[m] > 0) PROVE GotNumber(SeqNum(m))
    <3>1. Matching(q) # {} /\ ok' = Report(ok, pending[Removed(q)])
      BY <1>7, <2>2 DEF ReceiveAck
    <3>2. Removed(q) \in DOMAIN pending /\ Removed(q)[2] = q
      BY <3>1, RemovedMatches
    <3>3. m = pending[Removed(q)]
      BY <1>0, <2>2, <3>1 DEF Report, TypeOK
    <3>4. m \in Sent /\ Key(m) = Removed(q)
      BY <3>2, <3>3 DEF TypeInv, Tracks
    <3>5. SeqNum(m) = q
      BY <1>0, <3>2, <3>4, KeyType
    <3> QED
      BY <1>0, <3>5 DEF AcksReceived
  <2> QED
    BY <1>0, <1>3, <2>1, <2>2 DEF DeliveryInv, AcksReceived, ReportsReceived
<1>8. ASSUME NEW s \in Senders, SendWithRetry(s) PROVE DeliveryInv'
  BY <1>4, <1>8 DEF SendWithRetry
<1>9. ASSUME NEW s \in Senders, Sending(s) PROVE DeliveryInv'
  BY <1>4, <1>9 DEF Sending, Register, Transmit, MarkSent, CancelSend, GiveUp
<1>10. CASE Monitoring
  BY <1>4, <1>10
  DEF Monitoring, Process, OnTimeout, Retrying, RegisterAgain, Retransmit, CancelRetry, GiveUpRetry, Reregister
<1>11. CASE OnSuccess
  BY <1>4, <1>11 DEF OnSuccess
<1>13. ASSUME NEW i \in Ids, RegisterHandler(i) PROVE DeliveryInv'
  BY <1>4, <1>13 DEF RegisterHandler
<1>14. CASE UNCHANGED vars
  BY <1>4, <1>14 DEF vars
<1> QED
  BY <1>5, <1>6, <1>7, <1>8, <1>9, <1>10, <1>11, <1>13, <1>14 DEF Next, Receiving, FarSide

DeliveryIInv == TypeInv /\ DeliveryInv

\* What is acknowledged and what is reported was received, and the same number
\* reaches a handler again only after SEQ_HISTORY_SIZE others.
LEMMA DeliveryInvariant == Spec => []DeliveryIInv
<1>1. Init => DeliveryIInv
  <2> SUFFICES ASSUME Init PROVE DeliveryIInv
    OBVIOUS
  <2>1. \A i \in Ids : history[i] = <<>> /\ handled[i] = <<>>
    BY DEF Init
  <2>2. LastNumbers(<<>>, <<>>)
    <3>1. Len(<<>>) = 0
      OBVIOUS
    <3> QED
      BY <3>1, ReliableTransportAssumption DEF LastNumbers, ReliableTransportAssumption
  <2>3. FilterExact /\ OwnMessages /\ DuplicatesFarApart
    BY <2>1, <2>2 DEF FilterExact, OwnMessages, DuplicatesFarApart
  <2>4. AcksReceived /\ ReportsReceived
    BY DEF Init, AcksReceived, ReportsReceived
  <2> QED
    BY <2>3, <2>4, TypeInitially DEF DeliveryIInv, DeliveryInv
<1>2. DeliveryIInv /\ [Next]_vars => DeliveryIInv'
  BY TypeStep, DeliveryStep DEF DeliveryIInv
<1> QED
  BY <1>1, <1>2, PTL DEF Spec, Safety

\* A message reported as delivered was received: its handler was invoked with it,
\* or the receiver has yet to look it up or found no channel for its last packet;
\* unless its number was used twice.
THEOREM DeliveredMeansReceived == Spec => []AckedWasReceived
<1>1. DeliveryIInv => AckedWasReceived
  <2> SUFFICES ASSUME DeliveryIInv, NEW m \in Messages, ok[m] > 0, ~Reused(m) PROVE Received(m)
    BY DEF AckedWasReceived, Received
  <2>1. PICK n \in Sent : SeqNum(n) = SeqNum(m) /\ Received(n)
    BY DEF DeliveryIInv, DeliveryInv, ReportsReceived, GotNumber
  <2> QED
    BY <2>1 DEF Reused, Sent
<1> QED
  BY <1>1, DeliveryInvariant, PTL

\* A number reaches a handler again only after SEQ_HISTORY_SIZE others have.
THEOREM FilterHolds == Spec => []DuplicatesFarApart
<1>1. DeliveryIInv => DuplicatesFarApart
  BY DEF DeliveryIInv, DeliveryInv
<1> QED
  BY <1>1, DeliveryInvariant, PTL

---------------------------------------------------------------------------
(* Who may still report on a message.                                       *)

\* The call that sends m for the first time has returned, or the number is used again.
Returned(m) == Reused(m) \/ \A s \in Senders : cur[s] # m

OneSender     == \A s, t \in Senders : cur[s] = cur[t] /\ cur[s] # None => s = t
SentReturned  == \A k \in DOMAIN store : store[k].isSent => Returned(store[k].msg)
RetryReturned == at \in {"add", "send", "cancel", "giveUp"} => Returned(again)
\* No attempt is spent before the first send returns.
AllAttempts   == \A k \in DOMAIN store : ~store[k].isSent => store[k].attempts = MAX_RETRIES

OwnerInv == OneSender /\ SentReturned /\ RetryReturned /\ AllAttempts

\* No step but a dispatch, of a new message, gives a sender a message.
LEMMA ReturnedStays ==
  ASSUME TypeInv, [Next]_vars, NEW m \in Sent
  PROVE  /\ m \in Sent' /\ Key(m)' = Key(m)
         /\ \A s \in Senders : cur'[s] = m => cur[s] = m
         /\ Reused(m) => Reused(m)'
         /\ Returned(m) => Returned(m)'
<1>0. TypeOK /\ Len(sent) \in Nat
  BY DEF TypeInv, TypeOK
<1>1. m \in Nat \ {0} /\ m # None /\ m # Len(sent) + 1
  BY <1>0 DEF Sent, None
<1>2. ASSUME UNCHANGED sent, UNCHANGED cur \/ \E s \in Senders : Return(s)
      PROVE  /\ m \in Sent' /\ Key(m)' = Key(m) /\ (Reused(m) => Reused(m)')
             /\ \A s \in Senders : cur'[s] = m => cur[s] = m
  BY <1>0, <1>1, <1>2, SameKeys DEF Return, TypeOK
<1>3. ASSUME NEW s \in Senders, SendWithRetry(s)
      PROVE  /\ m \in Sent' /\ Key(m)' = Key(m) /\ (Reused(m) => Reused(m)')
             /\ \A t \in Senders : cur'[t] = m => cur[t] = m
  <2>1. PICK i \in Ids : sent' = Append(sent, i)
    BY <1>0, <1>3, ReliableTransportAssumption
    DEF SendWithRetry, ReliableTransportAssumption, TypeOK
  <2>2. Len(sent) < MaxMessages /\ cur' = [cur EXCEPT ![s] = Len(sent) + 1]
    BY <1>3 DEF SendWithRetry
  <2> QED
    BY <1>0, <1>1, <2>1, <2>2, MoreKeys DEF TypeOK
<1> USE DEF senderVars
<1>4. ASSUME NEW s \in Senders, Sending(s)
      PROVE  UNCHANGED sent /\ (UNCHANGED cur \/ Return(s))
  BY <1>4 DEF Sending, Register, Transmit, MarkSent, CancelSend, GiveUp
<1>5. ASSUME Monitoring \/ Receiving \/ FarSide
      PROVE  UNCHANGED sent /\ UNCHANGED cur
  BY <1>5
  DEF Monitoring, Process, OnTimeout, Retrying, RegisterAgain, Retransmit, CancelRetry, GiveUpRetry, Reregister,
      Receiving, ReceiveAck, OnSuccess, FarSide, Receive, ProcessIncoming, RegisterHandler
<1>6. /\ m \in Sent' /\ Key(m)' = Key(m) /\ (Reused(m) => Reused(m)')
      /\ \A s \in Senders : cur'[s] = m => cur[s] = m
  BY <1>2, <1>3, <1>4, <1>5 DEF Next, vars
<1> QED
  BY <1>6 DEF Returned

\* Every step keeps the senders apart and the marks on their packets true.
LEMMA OwnerStep == TypeInv /\ OwnerInv /\ [Next]_vars => OwnerInv'
<1> SUFFICES ASSUME TypeInv, OwnerInv, [Next]_vars PROVE OwnerInv'
  OBVIOUS
<1>0. TypeOK /\ Kept /\ Len(sent) \in Nat /\ OneSender /\ SentReturned /\ RetryReturned /\ AllAttempts
  BY DEF TypeInv, TypeOK, OwnerInv
<1>a. \A k \in DOMAIN store : store[k].msg \in Sent /\ store[k].isSent \in BOOLEAN
  BY <1>0 DEF Kept
<1>b. \A m \in Sent : Returned(m) => Returned(m)'
  BY ReturnedStays
<1>c. again # None => again \in Sent
  BY <1>0, ActorType DEF TypeOK
\* What is erased or spent is not marked.
<1>1. ASSUME \A k \in DOMAIN store' : k \in DOMAIN store /\ store'[k].msg = store[k].msg
                                      /\ (store'[k].isSent => store[k].isSent)
      PROVE  SentReturned'
  BY <1>0, <1>1, <1>a, <1>b DEF SentReturned
<1>2. ASSUME \A k \in DOMAIN store' : k \in DOMAIN store /\ (store'[k] = store[k] \/ store'[k].isSent)
      PROVE  AllAttempts'
  BY <1>0, <1>2 DEF AllAttempts
<1>3. ASSUME NEW K, store' = Without(store, K) \/ store' = store PROVE SentReturned' /\ AllAttempts'
  <2>1. \A k \in DOMAIN store' : k \in DOMAIN store /\ store'[k] = store[k]
    BY <1>3 DEF Without
  <2> QED
    BY <1>1, <1>2, <2>1
<1>4. ASSUME UNCHANGED again, UNCHANGED at \/ at \in {"add", "send", "cancel", "giveUp"}
      PROVE  RetryReturned'
  <2> SUFFICES ASSUME at' \in {"add", "send", "cancel", "giveUp"} PROVE Returned(again)'
    BY DEF RetryReturned
  <2>1. again # None /\ Returned(again)
    BY <1>0, <1>4 DEF RetryReturned, TypeOK
  <2>2. PICK m \in Sent : m = again
    BY <1>c, <2>1
  <2>3. Returned(m)'
    BY <1>b, <2>1, <2>2
  <2> QED
    BY <1>4, <2>2, <2>3 DEF Returned, Reused
<1>5. ASSUME \/ UNCHANGED cur
             \/ \E s \in Senders : Return(s)
             \/ \E s \in Senders : cur' = [cur EXCEPT ![s] = Len(sent) + 1]
      PROVE  OneSender'
  <2>1. \A s \in Senders : cur[s] \in 0 .. Len(sent)
    BY <1>0 DEF TypeOK
  <2>2. ASSUME NEW s \in Senders, NEW v, cur' = [cur EXCEPT ![s] = v], v = None \/ v > Len(sent)
        PROVE  OneSender'
    BY <1>0, <2>1, <2>2 DEF OneSender, None, TypeOK
  <2>3. Len(sent) + 1 > Len(sent)
    BY <1>0
  <2> QED
    BY <1>0, <1>5, <2>2, <2>3 DEF OneSender, Return
<1> USE DEF senderVars, retryVars, linkVars, reports
<1>6. ASSUME NEW s \in Senders, SendWithRetry(s) PROVE OwnerInv'
  <2>1. PICK k, m : store' = With(store, k, Entry(m))
    BY <1>6 DEF SendWithRetry
  <2>2. \A j \in DOMAIN store' : (j \in DOMAIN store /\ store'[j] = store[j]) \/ store'[j] = Entry(m)
    BY <2>1 DEF With
  <2>3. SentReturned'
    BY <1>0, <1>a, <1>b, <2>2 DEF SentReturned, Entry
  <2>4. AllAttempts'
    BY <1>0, <2>2 DEF AllAttempts, Entry
  <2>5. UNCHANGED <<at, again>> /\ cur' = [cur EXCEPT ![s] = Len(sent) + 1]
    BY <1>6 DEF SendWithRetry
  <2> QED
    BY <1>4, <1>5, <2>3, <2>4, <2>5 DEF OwnerInv
<1>7. ASSUME NEW s \in Senders, MarkSent(s) PROVE OwnerInv'
  <2> DEFINE m == cur[s]
  <2>1. m \in Sent /\ Return(s) /\ UNCHANGED <<at, again>> /\ store' = MarkedSent(store, Key(m))
    BY <1>0, <1>7, ActorType DEF MarkSent
  <2>2. SentReturned'
    <3> SUFFICES ASSUME NEW k \in DOMAIN store', store'[k].isSent PROVE Returned(store[k].msg)'
      BY DEF SentReturned
    <3>1. k \in DOMAIN store /\ store'[k].msg = store[k].msg /\ (k = Key(m) \/ store[k].isSent)
      BY <1>0, <2>1 DEF MarkedSent, Kept
    <3>2. PICK n \in Sent : n = store[k].msg /\ Key(n) = k
      BY <1>0, <3>1 DEF Kept
    <3>3. Returned(n)'
      <4>1. CASE store[k].isSent
        BY <1>0, <1>b, <3>1, <3>2, <4>1 DEF SentReturned
      <4>2. CASE Key(n) = Key(m) /\ ~Reused(n)
        <5>1. n = m
          BY <1>0, <2>1, <4>2, SameKey
        <5>2. \A t \in Senders : cur'[t] # n
          <6>1. n # None
            BY <1>0, KeyType DEF None
          <6> QED
            BY <1>0, <2>1, <5>1, <6>1 DEF OneSender, Return, TypeOK
        <5> QED
          BY <5>2 DEF Returned
      <4>3. CASE Reused(n)
        BY <1>b, <4>3 DEF Returned
      <4> QED
        BY <3>1, <3>2, <4>1, <4>2, <4>3
    <3> QED
      BY <3>1, <3>2, <3>3 DEF Returned, Reused
  <2>3. AllAttempts'
    <3>1. \A k \in DOMAIN store' : k \in DOMAIN store /\ (store'[k] = store[k] \/ store'[k].isSent)
      BY <1>0, <2>1 DEF MarkedSent, Kept
    <3> QED
      BY <1>2, <3>1
  <2> QED
    BY <1>4, <1>5, <2>1, <2>2, <2>3 DEF OwnerInv
<1>8. ASSUME NEW s \in Senders, Register(s) \/ Transmit(s) \/ CancelSend(s) \/ GiveUp(s) PROVE OwnerInv'
  <2>1. /\ UNCHANGED <<at, again>> /\ (UNCHANGED cur \/ Return(s))
        /\ UNCHANGED store \/ store' = Without(store, {Key(cur[s])})
    BY <1>8 DEF Register, Transmit, CancelSend, GiveUp
  <2> QED
    BY <1>3, <1>4, <1>5, <2>1 DEF OwnerInv
<1>9. ASSUME NEW k \in Keys, OnTimeout(k) PROVE OwnerInv'
  <2>1. OneSender'
    BY <1>5, <1>9 DEF OnTimeout
  <2>2. CASE k \in DOMAIN store /\ Retryable(store[k])
    <3>1. store' = [store EXCEPT ![k].attempts = @ - 1] /\ at' = "add" /\ again' = store[k].msg
      BY <1>0, <1>9, <2>2 DEF OnTimeout, Exhausted, Retryable, Kept
    <3>2. SentReturned'
      <4>1. \A j \in DOMAIN store' : j \in DOMAIN store /\ store'[j].msg = store[j].msg
                                     /\ (store'[j].isSent => store[j].isSent)
        BY <1>0, <2>2, <3>1 DEF Kept
      <4> QED
        BY <1>1, <4>1
    <3>3. AllAttempts'
      <4>1. \A j \in DOMAIN store' : j \in DOMAIN store /\ (store'[j] = store[j] \/ store'[j].isSent)
        BY <1>0, <2>2, <3>1 DEF Kept, Retryable
      <4> QED
        BY <1>2, <4>1
    <3>4. RetryReturned'
      <4>1. PICK m \in Sent : m = store[k].msg
        BY <1>a, <2>2
      <4>2. Returned(m)'
        BY <1>0, <1>b, <2>2, <4>1 DEF SentReturned, Retryable
      <4> QED
        BY <3>1, <4>1, <4>2 DEF RetryReturned, Returned, Reused
    <3> QED
      BY <2>1, <3>2, <3>3, <3>4 DEF OwnerInv
  <2>3. CASE ~(k \in DOMAIN store /\ Retryable(store[k]))
    <3>1. /\ UNCHANGED store \/ store' = Without(store, {k})
          /\ UNCHANGED <<at, again>> \/ at' = "reregister"
      BY <1>9, <2>3 DEF OnTimeout
    <3>2. RetryReturned'
      BY <1>4, <3>1 DEF RetryReturned
    <3> QED
      BY <1>3, <2>1, <3>1, <3>2 DEF OwnerInv
  <2> QED
    BY <2>2, <2>3
<1>10. CASE Retrying
  <2>1. /\ UNCHANGED cur /\ (UNCHANGED store \/ store' = Without(store, {Key(again)}))
        /\ \/ UNCHANGED again /\ at \in {"add", "send", "cancel", "giveUp"}
           \/ ReturnAgain
    BY <1>10 DEF Retrying, RegisterAgain, Retransmit, CancelRetry, GiveUpRetry, Reregister
  <2>2. RetryReturned'
    BY <1>4, <2>1 DEF RetryReturned, ReturnAgain
  <2> QED
    BY <1>3, <1>5, <2>1, <2>2 DEF OwnerInv
<1>11. CASE Process \/ Receiving \/ FarSide \/ UNCHANGED vars
  <2>1. UNCHANGED <<cur, at, again>> /\ (UNCHANGED store \/ store' = Without(store, {acked}))
    BY <1>11
    DEF Process, Receiving, ReceiveAck, OnSuccess, FarSide, Receive, ProcessIncoming, RegisterHandler, vars
  <2> QED
    BY <1>3, <1>4, <1>5, <2>1 DEF OwnerInv
<1> QED
  BY <1>6, <1>7, <1>8, <1>9, <1>10, <1>11 DEF Next, Sending, Monitoring

---------------------------------------------------------------------------
(* A message is given up once.                                              *)

\* The failure of m has been reported and nobody is left to report it again.
Final(m) ==
  \/ Reused(m)
  \/ /\ failed[m] = 1
     /\ \A k \in DOMAIN store : store[k].msg # m
     /\ \A s \in Senders : cur[s] # m
     /\ again = m => at = "reregister"

FailedIsFinal == \A m \in Messages : failed[m] > 0 => Final(m)
FailInv == MAX_RETRIES > 0 => FailedIsFinal

\* Every step keeps a reported failure final.
LEMMA FailStep == TypeInv /\ OwnerInv /\ FailInv /\ [Next]_vars => FailInv'
<1> SUFFICES ASSUME TypeInv, OwnerInv, FailedIsFinal, MAX_RETRIES > 0, [Next]_vars PROVE FailedIsFinal'
  BY DEF FailInv
<1>0. /\ TypeOK /\ Kept /\ NoReport /\ Len(sent) \in Nat
      /\ OneSender /\ SentReturned /\ RetryReturned /\ AllAttempts
  BY DEF TypeInv, TypeOK, OwnerInv
<1>a. \A k \in DOMAIN store : store[k].msg \in Sent
  BY <1>0 DEF Kept
<1>b. \A m \in Messages : failed[m] > 0 => m \in Sent
  BY <1>0 DEF NoReport, Sent, Messages
<1>c. Sent \subseteq Messages /\ \A m \in Sent : m # None /\ m \in Nat
  BY <1>0, KeyType DEF None
\* What was final stays so: nobody reports on it, and nothing brings it back.
<1>1. ASSUME NEW m \in Sent, failed[m] > 0,
             Final(m) /\ ~Reused(m) => failed'[m] = 1,
             \A k \in DOMAIN store' : store'[k].msg = m => \E j \in DOMAIN store : store[j].msg = m,
             again' = m => \/ again = m /\ (at = "reregister" => at' = "reregister")
                           \/ \E k \in DOMAIN store : store[k].msg = m
                           \/ at' = "reregister"
      PROVE  Final(m)'
  <2>1. CASE Reused(m)
    BY <2>1, ReturnedStays DEF Final
  <2>2. CASE ~Reused(m)
    <3>1. Final(m)
      BY <1>1, <1>c DEF FailedIsFinal
    <3>2. \A s \in Senders : cur'[s] # m
      BY <2>2, <3>1, ReturnedStays DEF Final
    <3> QED
      BY <1>1, <2>2, <3>1, <3>2 DEF Final
  <2> QED
    BY <2>1, <2>2
\* A message that is now given up: its entry goes, its sender or its retry returns.
<1>2. ASSUME NEW m \in Sent, failed' = Report(failed, m), UNCHANGED sent,
             store' = Without(store, {Key(m)}),
             Final(m) => Reused(m),
             ~Reused(m) => \A s \in Senders : cur'[s] # m,
             ~Reused(m) /\ again' = m => at' = "reregister",
             UNCHANGED <<at, again>> \/ again' = None
      PROVE  FailedIsFinal'
  <2> SUFFICES ASSUME NEW n \in Messages, failed'[n] > 0 PROVE Final(n)'
    BY DEF FailedIsFinal
  <2>1. ASSUME NEW k \in DOMAIN store' PROVE k \in DOMAIN store /\ store'[k] = store[k] /\ k # Key(m)
    BY <1>2 DEF Without
  <2>2. CASE n = m
    <3>1. CASE Reused(m)
      BY <2>2, <3>1, ReturnedStays DEF Final
    <3>2. CASE ~Reused(m)
      <4>1. failed[m] = 0 /\ failed'[m] = 1
        BY <1>0, <1>2, <1>c, <3>2 DEF FailedIsFinal, Report, TypeOK
      <4>2. \A k \in DOMAIN store' : store'[k].msg # m
        BY <1>0, <2>1 DEF Kept
      <4> QED
        BY <1>2, <2>2, <3>2, <4>1, <4>2 DEF Final
    <3> QED
      BY <3>1, <3>2
  <2>3. CASE n # m
    <3>1. failed'[n] = failed[n] /\ n \in Sent
      BY <1>0, <1>2, <1>b, <1>c, <2>3 DEF Report, TypeOK
    <3>2. Final(n) /\ ~Reused(n) => failed'[n] = 1
      BY <3>1 DEF Final
    <3> QED
      BY <1>1, <1>2, <1>c, <2>1, <3>1, <3>2
  <2> QED
    BY <2>2, <2>3
\* Nothing is reported, and no entry but one of a new message is added.
<1>3. ASSUME UNCHANGED failed,
             \A k \in DOMAIN store' :
               \/ k \in DOMAIN store /\ store'[k].msg = store[k].msg
               \/ store'[k].msg \notin Sent,
             \/ UNCHANGED again /\ (at = "reregister" => at' = "reregister")
             \/ again' = None
             \/ \E k \in DOMAIN store : again' = store[k].msg
      PROVE  FailedIsFinal'
  <2> SUFFICES ASSUME NEW m \in Messages, failed'[m] > 0 PROVE Final(m)'
    BY DEF FailedIsFinal
  <2>1. m \in Sent /\ failed[m] > 0
    BY <1>3, <1>b
  <2>2. Final(m) /\ ~Reused(m) => failed'[m] = 1
    BY <1>3 DEF Final
  <2> QED
    BY <1>1, <1>3, <1>c, <2>1, <2>2
<1> USE DEF senderVars, retryVars, linkVars, reports
<1>4. ASSUME NEW s \in Senders, SendWithRetry(s) PROVE FailedIsFinal'
  <2>1. PICK k : store' = With(store, k, Entry(Len(sent) + 1))
    BY <1>4 DEF SendWithRetry
  <2>2. \A j \in DOMAIN store' :
          \/ j \in DOMAIN store /\ store'[j].msg = store[j].msg
          \/ store'[j].msg \notin Sent
    BY <1>0, <2>1 DEF With, Entry, Sent
  <2> QED
    BY <1>3, <1>4, <2>2 DEF SendWithRetry
<1>5. ASSUME NEW s \in Senders, Register(s) \/ Transmit(s) \/ MarkSent(s) \/ CancelSend(s) PROVE FailedIsFinal'
  <2>1. /\ UNCHANGED <<failed, at, again>>
        /\ UNCHANGED store \/ store' = MarkedSent(store, Key(cur[s]))
    BY <1>5 DEF Register, Transmit, MarkSent, CancelSend
  <2>2. \A k \in DOMAIN store' : k \in DOMAIN store /\ store'[k].msg = store[k].msg
    BY <1>0, <2>1 DEF MarkedSent, Kept
  <2> QED
    BY <1>3, <2>1, <2>2
<1>6. ASSUME NEW s \in Senders, GiveUp(s) PROVE FailedIsFinal'
  <2> DEFINE m == cur[s]
  <2>1. /\ m \in Sent /\ failed' = Report(failed, m) /\ UNCHANGED <<sent, at, again>>
        /\ store' = Without(store, {Key(m)}) /\ Return(s)
    BY <1>0, <1>6, ActorType DEF GiveUp
  <2>2. Final(m) => Reused(m)
    BY DEF Final
  <2>3. \A t \in Senders : cur'[t] # m
    BY <1>0, <1>c, <2>1 DEF OneSender, Return, TypeOK
  <2>4. ~Reused(m) /\ again' = m => at' = "reregister"
    <3> SUFFICES ASSUME ~Reused(m), again = m PROVE at = "reregister"
      BY <2>1
    <3>1. ~Returned(m)
      BY DEF Returned
    <3> QED
      BY <1>0, <1>c, <2>1, <3>1 DEF RetryReturned, TypeOK
  <2> HIDE DEF m
  <2> QED
    BY <1>2, <2>1, <2>2, <2>3, <2>4
<1>7. CASE Process \/ Receiving \/ FarSide \/ UNCHANGED vars
  <2>1. UNCHANGED <<failed, at, again>> /\ (UNCHANGED store \/ store' = Without(store, {acked}))
    BY <1>7
    DEF Process, Receiving, ReceiveAck, OnSuccess, FarSide, Receive, ProcessIncoming, RegisterHandler, vars
  <2>2. \A k \in DOMAIN store' : k \in DOMAIN store /\ store'[k].msg = store[k].msg
    BY <2>1 DEF Without
  <2> QED
    BY <1>3, <2>1, <2>2
<1>8. ASSUME NEW k \in Keys, OnTimeout(k) PROVE FailedIsFinal'
  <2>1. UNCHANGED <<sent, cur>> /\ at = "scan" /\ again = None
    BY <1>0, <1>8 DEF OnTimeout, TypeOK
  <2>2. CASE k \in DOMAIN store /\ Exhausted(store[k])
    <3> DEFINE m == store[k].msg
    <3>1. /\ m \in Sent /\ Key(m) = k /\ failed' = Report(failed, m)
          /\ store' = Without(store, {k}) /\ UNCHANGED <<at, again>>
      BY <1>0, <1>8, <2>2 DEF OnTimeout, Exhausted, Retryable, Kept
    <3>2. Returned(m)
      <4>1. store[k].attempts # MAX_RETRIES /\ store[k].isSent \in BOOLEAN
        BY <1>0, <2>2 DEF Exhausted, Kept
      <4>2. store[k].isSent
        BY <1>0, <2>2, <4>1 DEF AllAttempts
      <4> QED
        BY <1>0, <2>2, <4>2 DEF SentReturned
    <3>3. Final(m) => Reused(m)
      BY <2>2 DEF Final
    <3>4. again' # m
      BY <1>c, <2>1, <3>1
    <3> HIDE DEF m
    <3> QED
      BY <1>2, <2>1, <3>1, <3>2, <3>3, <3>4 DEF Returned
  <2>3. CASE ~(k \in DOMAIN store /\ Exhausted(store[k]))
    <3>1. /\ UNCHANGED failed
          /\ UNCHANGED store \/ store' = [store EXCEPT ![k].attempts = @ - 1]
          /\ UNCHANGED <<at, again>> \/ (k \in DOMAIN store /\ again' = store[k].msg)
      BY <1>8, <2>3 DEF OnTimeout
    <3>2. \A j \in DOMAIN store' : j \in DOMAIN store /\ store'[j].msg = store[j].msg
      BY <1>0, <3>1 DEF Kept
    <3> QED
      BY <1>3, <3>1, <3>2
  <2> QED
    BY <2>2, <2>3
<1>9. CASE GiveUpRetry
  <2> DEFINE m == again
  <2>1. /\ m \in Sent /\ failed' = Report(failed, m) /\ UNCHANGED <<sent, cur>> /\ again' = None
        /\ store' = Without(store, {Key(m)}) /\ at = "giveUp"
    BY <1>0, <1>9, ActorType DEF GiveUpRetry, ReturnAgain
  <2>2. Final(m) => Reused(m)
    BY <2>1 DEF Final
  <2>3. ~Reused(m) => \A s \in Senders : cur'[s] # m
    BY <1>0, <2>1 DEF RetryReturned, Returned
  <2>4. again' # m
    BY <1>c, <2>1
  <2> QED
    BY <1>2, <2>1, <2>2, <2>3, <2>4
<1>10. CASE RegisterAgain \/ Retransmit \/ CancelRetry \/ Reregister
  <2>1. /\ UNCHANGED <<failed, store>>
        /\ (UNCHANGED again /\ at # "reregister") \/ again' = None
    BY <1>10 DEF RegisterAgain, Retransmit, CancelRetry, Reregister, ReturnAgain
  <2> QED
    BY <1>3, <2>1
<1> QED
  BY <1>4, <1>5, <1>6, <1>7, <1>8, <1>9, <1>10 DEF Next, Sending, Monitoring, Retrying

---------------------------------------------------------------------------
(* No message is lost sight of.                                             *)

\* Nothing has been reported on m, and its number is its own.
Open(m) == m \in Sent /\ ok[m] = 0 /\ failed[m] = 0 /\ ~Reused(m)
Holds(f, m) == Key(m) \in DOMAIN f /\ f[Key(m)] = m

OpenIsKept == \A m \in Sent : Open(m) => Key(m) \in DOMAIN store /\ store[Key(m)].msg = m
\* A sender past its registration, or a packet sent again, counts on the table.
Attended(m) ==
  \/ m \in forgotten
  \/ \E s \in Senders : cur[s] = m /\ pc[s] \in {"add", "cancel", "giveUp"}
  \/ again = m
  \/ Holds(pending, m) \/ Holds(batch, m)
OpenIsAttended == \A m \in Sent : Open(m) => Attended(m)
ResentIsPending == at = "send" /\ Open(again) => Holds(pending, again)
AckedIsReported == acked # NoKey => \E m \in Sent : Key(m) = acked /\ ok[m] > 0

FollowInv == OpenIsKept /\ OpenIsAttended /\ ResentIsPending /\ AckedIsReported

\* The messages a table holds.
LEMMA HoldsStays ==
  ASSUME TypeInv, [Next]_vars, NEW m \in Sent, Holds(pending, m),
         \/ UNCHANGED pending
         \/ \E k, n : pending' = With(pending, k, n) /\ k \notin DOMAIN pending
         \/ \E K : pending' = Without(pending, K) /\ Key(m) \notin K
  PROVE  Holds(pending, m)'
BY ReturnedStays DEF Holds, With, Without

\* Reports are never taken back.
LEMMA ReportsGrow ==
  ASSUME TypeInv, [Next]_vars, NEW m \in Messages
  PROVE  ok'[m] >= ok[m] /\ failed'[m] >= failed[m]
<1>0. ok \in [Messages -> Nat] /\ failed \in [Messages -> Nat]
  BY DEF TypeInv, TypeOK
<1>1. ASSUME NEW f \in [Messages -> Nat], NEW x PROVE Report(f, x)[m] >= f[m]
  BY DEF Report
<1> DEFINE AtMostOneMore == /\ UNCHANGED ok \/ \E x : ok' = Report(ok, x)
                            /\ UNCHANGED failed \/ \E x : failed' = Report(failed, x)
<1>2. AtMostOneMore
  <2> USE DEF reports
  <2>1. ASSUME NEW s \in Senders, SendWithRetry(s) \/ Sending(s) PROVE AtMostOneMore
    BY <2>1 DEF SendWithRetry, Sending, Register, Transmit, MarkSent, CancelSend, GiveUp
  <2>2. CASE Process \/ Retrying
    BY <2>2 DEF Process, Retrying, RegisterAgain, Retransmit, CancelRetry, GiveUpRetry, Reregister
  <2>3. ASSUME NEW k \in Keys, OnTimeout(k) PROVE AtMostOneMore
    BY <2>3 DEF OnTimeout
  <2>4. CASE Receiving
    BY <2>4 DEF Receiving, ReceiveAck, OnSuccess
  <2>5. CASE FarSide \/ UNCHANGED vars
    BY <2>5 DEF FarSide, Receive, ProcessIncoming, RegisterHandler, vars
  <2> QED
    BY <2>1, <2>2, <2>3, <2>4, <2>5 DEF Next, Monitoring
<1> QED
  BY <1>0, <1>1, <1>2

\* What is open after a step was open before it, under the same key.
LEMMA OpenBefore ==
  ASSUME TypeInv, [Next]_vars, NEW m \in Sent, Open(m)'
  PROVE  Open(m) /\ m \in Messages /\ Key(m)' = Key(m)
<1>1. m \in Messages /\ TypeOK
  BY KeyType DEF TypeInv
<1>2. ok'[m] >= ok[m] /\ failed'[m] >= failed[m] /\ ok[m] \in Nat /\ failed[m] \in Nat
  BY <1>1, ReportsGrow DEF TypeOK
<1>3. ~Reused(m) /\ Key(m)' = Key(m)
  BY ReturnedStays DEF Open
<1> QED
  BY <1>1, <1>2, <1>3 DEF Open

\* Every step keeps every open message attended to.
LEMMA FollowStep == TypeInv /\ OwnerInv /\ FollowInv /\ [Next]_vars => FollowInv'
<1> SUFFICES ASSUME TypeInv, OwnerInv, FollowInv, [Next]_vars PROVE FollowInv'
  OBVIOUS
<1>0. /\ TypeOK /\ Kept /\ NoReport /\ Tracks(pending) /\ Tracks(batch) /\ Len(sent) \in Nat
      /\ OneSender /\ RetryReturned
      /\ OpenIsKept /\ OpenIsAttended /\ ResentIsPending /\ AckedIsReported
  BY DEF TypeInv, TypeOK, OwnerInv, FollowInv
<1>a. Sent \subseteq Messages /\ \A m \in Sent : m # None /\ m \in Nat /\ Key(m) # NoKey
  BY <1>0, KeyType, TransportMonitorAssumption DEF None, NoKey, Keys, TransportMonitorAssumption
<1>b. ASSUME NEW m \in Sent, NEW n \in Sent, Open(m), Key(n) = Key(m) PROVE n = m
  BY <1>0, <1>b, SameKey DEF Open
<1>c. ASSUME NEW f \in [Messages -> Nat], NEW m \in Messages PROVE Report(f, m)[m] > 0
  BY <1>c DEF Report
<1>d. ok \in [Messages -> Nat] /\ failed \in [Messages -> Nat]
  BY <1>0 DEF TypeOK
\* Packets are kept, except the one of a message that is now reported.
<1>1. ASSUME \/ \A k \in DOMAIN store : k \in DOMAIN store' /\ store'[k].msg = store[k].msg
             \/ \E n \in Sent : store' = Without(store, {Key(n)}) /\ ~Open(n)',
             UNCHANGED sent
      PROVE  OpenIsKept'
  <2> SUFFICES ASSUME NEW m \in Sent, Open(m)'
               PROVE  Key(m) \in DOMAIN store' /\ store'[Key(m)].msg = m
    BY <1>1, SameKeys DEF OpenIsKept
  <2>1. Open(m) /\ Key(m) \in DOMAIN store /\ store[Key(m)].msg = m
    BY <1>0, OpenBefore DEF OpenIsKept
  <2>2. ASSUME NEW n \in Sent, store' = Without(store, {Key(n)}), ~Open(n)'
        PROVE  Key(m) \in DOMAIN store' /\ store'[Key(m)].msg = m
    <3>1. Key(n) # Key(m)
      BY <1>b, <2>1, <2>2
    <3> QED
      BY <2>1, <2>2, <3>1 DEF Without
  <2> QED
    BY <1>1, <2>1, <2>2
\* Nobody who attends to an open message leaves.
<1>2. ASSUME UNCHANGED sent,
             \A m \in Sent : Open(m) /\ Open(m)' => Attended(m)'
      PROVE  OpenIsAttended'
  BY <1>0, <1>2, SameKeys, OpenBefore DEF OpenIsAttended
\* The packet that is about to be sent again stays in the table.
<1>3. ASSUME UNCHANGED sent, UNCHANGED again, at' = "send" => at = "send",
             \A m \in Sent : again = m /\ Open(m)' /\ Holds(pending, m) => Holds(pending, m)'
      PROVE  ResentIsPending'
  <2> SUFFICES ASSUME at' = "send", Open(again)' PROVE Holds(pending, again)'
    BY DEF ResentIsPending
  <2>1. PICK m \in Sent : m = again
    BY <1>0, <1>3, ActorType
  <2>2. Open(m)' /\ Open(m)
    BY <1>3, <2>1, OpenBefore DEF Open, Reused, Sent
  <2>3. Holds(pending, m)'
    BY <1>0, <1>3, <2>1, <2>2 DEF ResentIsPending
  <2> QED
    BY <1>3, <2>1, <2>3 DEF Holds, Key
<1>4. ASSUME UNCHANGED acked \/ acked' = NoKey PROVE AckedIsReported'
  <2> SUFFICES ASSUME acked # NoKey, acked' = acked PROVE \E m \in Sent' : (Key(m) = acked /\ ok[m] > 0)'
    BY <1>4 DEF AckedIsReported
  <2>1. PICK m \in Sent : Key(m) = acked /\ ok[m] > 0
    BY <1>0 DEF AckedIsReported
  <2>2. ok'[m] > 0 /\ m \in Sent' /\ Key(m)' = Key(m)
    <3>1. ok'[m] \in Nat /\ ok[m] \in Nat /\ ok'[m] >= ok[m]
      BY <1>a, <1>d, ReportsGrow, TypeStep DEF TypeInv, TypeOK
    <3> QED
      BY <2>1, <3>1, ReturnedStays
  <2> QED
    BY <2>1, <2>2
<1>5. ASSUME UNCHANGED <<sent, store, pc, cur, pending, batch, at, again, acked, forgotten>> PROVE FollowInv'
  <2>1. \A m \in Sent : (Holds(pending, m) => Holds(pending, m)') /\ (Holds(batch, m) => Holds(batch, m)')
    BY <1>5, SameKeys DEF Holds
  <2>2. \A m \in Sent : Attended(m) => Attended(m)'
    BY <1>5, <2>1 DEF Attended
  <2>3. OpenIsAttended'
    BY <1>0, <1>2, <1>5, <2>2 DEF OpenIsAttended
  <2> QED
    BY <1>1, <1>3, <1>4, <1>5, <2>1, <2>3 DEF FollowInv
<1> USE DEF senderVars, retryVars, linkVars, reports
<1>6. ASSUME NEW s \in Senders, SendWithRetry(s) PROVE FollowInv'
  <2>1. PICK i \in Ids : sent' = Append(sent, i)
                         /\ store' = With(store, KeyOf(i, Len(sent) + 1), Entry(Len(sent) + 1))
    BY <1>0, <1>6, ReliableTransportAssumption
    DEF SendWithRetry, ReliableTransportAssumption, TypeOK
  <2>2. PICK n : /\ n = Len(sent) + 1 /\ n \notin Sent /\ Sent' = Sent \cup {n} /\ Key(n)' = KeyOf(i, n)
                 /\ n \in Sent' /\ n # None
    BY <1>0, <1>6, <2>1, MoreKeys DEF SendWithRetry, None
  <2>3. /\ UNCHANGED <<pending, batch, at, again, acked, forgotten, ok, failed>>
        /\ pc[s] = "idle" /\ pc' = [pc EXCEPT ![s] = "add"] /\ cur' = [cur EXCEPT ![s] = n]
        /\ cur \in [Senders -> 0 .. Len(sent)] /\ DOMAIN pc = Senders
    BY <1>0, <1>6, <2>2 DEF SendWithRetry, TypeOK
  <2>4. \A m \in Sent : Key(m)' = Key(m)
    BY ReturnedStays
  <2>5. ASSUME NEW m \in Sent, Open(m)' PROVE Key(n)' # Key(m)
    <3>1. SeqNum(m) # SeqNum(n)
      BY <2>2, <2>5 DEF Open, Reused, Sent
    <3> QED
      BY <1>0, <2>2, <3>1, KeyType DEF KeyOf
  <2>6. OpenIsKept'
    <3> SUFFICES ASSUME NEW m \in Sent', Open(m)'
                 PROVE  (Key(m) \in DOMAIN store /\ store[Key(m)].msg = m)'
      BY DEF OpenIsKept
    <3>1. CASE m = n
      <4>1. store' = With(store, Key(m)', Entry(m))
        BY <2>1, <2>2, <3>1
      <4> QED
        BY <4>1 DEF With, Entry
    <3>2. CASE m \in Sent
      <4>1. store' = With(store, Key(n)', Entry(n))
        BY <2>1, <2>2
      <4>2. Key(m) \in DOMAIN store /\ store[Key(m)].msg = m /\ Key(n)' # Key(m) /\ Key(m)' = Key(m)
        BY <1>0, <2>4, <2>5, <3>2, OpenBefore DEF OpenIsKept
      <4> QED
        BY <4>1, <4>2 DEF With
    <3> QED
      BY <2>2, <3>1, <3>2
  <2>7. \A m \in Sent : (Holds(pending, m) => Holds(pending, m)') /\ (Holds(batch, m) => Holds(batch, m)')
    BY <2>3, <2>4 DEF Holds
  <2>8. OpenIsAttended'
    <3> SUFFICES ASSUME NEW m \in Sent', Open(m)' PROVE Attended(m)'
      BY DEF OpenIsAttended
    <3>1. CASE m = n
      <4>1. cur'[s] = m /\ pc'[s] = "add"
        BY <2>3, <3>1
      <4> QED
        BY <4>1 DEF Attended
    <3>2. CASE m \in Sent
      <4>1. Attended(m)
        BY <1>0, <3>2, OpenBefore DEF OpenIsAttended
      <4>2. \A t \in Senders : pc[t] # "idle" => cur'[t] = cur[t] /\ pc'[t] = pc[t]
        BY <2>3
      <4> QED
        BY <2>3, <2>7, <3>2, <4>1, <4>2 DEF Attended
    <3> QED
      BY <2>2, <3>1, <3>2
  <2>9. ResentIsPending'
    <3> SUFFICES ASSUME at = "send", Open(again)' PROVE Holds(pending, again)'
      BY <2>3 DEF ResentIsPending
    <3>1. PICK m \in Sent : m = again
      BY <1>0, ActorType
    <3>2. Open(m)' /\ Open(m)
      BY <2>3, <3>1, OpenBefore DEF Open, Reused, Sent
    <3>3. Holds(pending, m)'
      BY <1>0, <2>7, <3>1, <3>2 DEF ResentIsPending
    <3> QED
      BY <2>3, <3>1, <3>3 DEF Holds, Key
  <2> QED
    BY <1>4, <2>3, <2>6, <2>8, <2>9 DEF FollowInv
<1>7. ASSUME NEW s \in Senders, Register(s) PROVE FollowInv'
  <2> DEFINE n == cur[s]
  <2>1. /\ n \in Sent /\ UNCHANGED <<sent, cur, store, batch, at, again, acked, forgotten>>
        /\ pc[s] = "add" /\ pc' = [pc EXCEPT ![s] = IF Accepts(Key(n)) THEN "send" ELSE "giveUp"]
        /\ pending' = IF Accepts(Key(n)) THEN With(pending, Key(n), n) ELSE pending
        /\ DOMAIN pc = Senders
    BY <1>0, <1>7, ActorType DEF Register, Add, TypeOK
  <2>2. \A m \in Sent : (Holds(pending, m) => Holds(pending, m)') /\ (Holds(batch, m) => Holds(batch, m)')
    <3>1. UNCHANGED pending \/ (pending' = With(pending, Key(n), n) /\ Key(n) \notin DOMAIN pending)
      BY <2>1 DEF Accepts
    <3> QED
      BY <2>1, <3>1, HoldsStays, SameKeys DEF Holds
  <2>3. OpenIsAttended'
    <3> SUFFICES ASSUME NEW m \in Sent, Open(m) PROVE Attended(m)'
      BY <1>2, <2>1
    <3>1. Attended(m)
      BY <1>0 DEF OpenIsAttended
    <3>2. CASE m = n
      <4>1. CASE Accepts(Key(n))
        <5>1. Holds(pending, m)'
          BY <2>1, <3>2, <4>1, SameKeys DEF Holds, With
        <5> QED
          BY <5>1 DEF Attended
      <4>2. CASE ~Accepts(Key(n))
        <5>1. pc'[s] = "giveUp" /\ cur'[s] = m
          BY <2>1, <3>2, <4>2
        <5> QED
          BY <5>1 DEF Attended
      <4> QED
        BY <4>1, <4>2
    <3>3. CASE m # n
      <4>1. \A t \in Senders : cur[t] = m => pc'[t] = pc[t]
        BY <2>1, <3>3
      <4> QED
        BY <2>1, <2>2, <3>1, <4>1 DEF Attended
    <3> QED
      BY <3>2, <3>3
  <2> QED
    BY <1>1, <1>3, <1>4, <2>1, <2>2, <2>3 DEF FollowInv
<1>8. ASSUME NEW s \in Senders, Transmit(s) \/ MarkSent(s) PROVE FollowInv'
  <2>1. /\ UNCHANGED <<sent, pending, batch, at, again, acked, forgotten>>
        /\ pc[s] \in {"send", "mark"}
        /\ \A t \in Senders : t # s => pc'[t] = pc[t] /\ cur'[t] = cur[t]
        /\ \/ UNCHANGED store
           \/ store' = MarkedSent(store, Key(cur[s]))
    BY <1>0, <1>8 DEF Transmit, MarkSent, Return, TypeOK
  <2>2. \A k \in DOMAIN store : k \in DOMAIN store' /\ store'[k].msg = store[k].msg
    BY <1>0, <2>1 DEF MarkedSent, Kept
  <2>3. \A m \in Sent : (Holds(pending, m) => Holds(pending, m)') /\ (Holds(batch, m) => Holds(batch, m)')
    BY <2>1, SameKeys DEF Holds
  <2>4. \A m \in Sent : Attended(m) => Attended(m)'
    BY <2>1, <2>3 DEF Attended
  <2>5. OpenIsAttended'
    BY <1>0, <1>2, <2>1, <2>4 DEF OpenIsAttended
  <2> QED
    BY <1>1, <1>3, <1>4, <2>1, <2>2, <2>3, <2>5 DEF FollowInv
<1>9. ASSUME NEW s \in Senders, CancelSend(s) PROVE FollowInv'
  <2> DEFINE n == cur[s]
  <2>1. /\ n \in Sent /\ UNCHANGED <<sent, cur, store, batch, at, again, acked, forgotten>>
        /\ pc[s] = "cancel" /\ pc' = [pc EXCEPT ![s] = "giveUp"]
        /\ pending' = Without(pending, {Key(n)})
        /\ DOMAIN pc = Senders
    BY <1>0, <1>9, ActorType DEF CancelSend, Cancel, TypeOK
  <2>2. ASSUME NEW m \in Sent, Open(m), m # n, Holds(pending, m) PROVE Holds(pending, m)'
    <3>1. Key(m) # Key(n)
      BY <1>b, <2>1, <2>2
    <3> QED
      BY <2>1, <2>2, <3>1, HoldsStays
  <2>3. OpenIsAttended'
    <3> SUFFICES ASSUME NEW m \in Sent, Open(m) PROVE Attended(m)'
      BY <1>2, <2>1
    <3>1. Attended(m)
      BY <1>0 DEF OpenIsAttended
    <3>2. CASE m = n
      <4>1. pc'[s] = "giveUp" /\ cur'[s] = m
        BY <2>1, <3>2
      <4> QED
        BY <4>1 DEF Attended
    <3>3. CASE m # n
      <4>1. /\ \A t \in Senders : cur[t] = m => pc'[t] = pc[t]
            /\ Holds(batch, m) => Holds(batch, m)'
        BY <2>1, <3>3, SameKeys DEF Holds
      <4> QED
        BY <2>1, <2>2, <3>1, <3>3, <4>1 DEF Attended
    <3> QED
      BY <3>2, <3>3
  <2>4. ResentIsPending'
    <3>1. ASSUME NEW m \in Sent, at = "send", again = m, Open(m)', Holds(pending, m) PROVE Holds(pending, m)'
      <4>1. Open(m) /\ ~Reused(m)
        BY <3>1, OpenBefore DEF Open
      <4>2. m # n
        BY <1>0, <3>1, <4>1 DEF RetryReturned, Returned
      <4> QED
        BY <2>2, <3>1, <4>1, <4>2
    <3>2. CASE at = "send"
      BY <1>3, <2>1, <3>1, <3>2
    <3>3. CASE at # "send"
      BY <2>1, <3>3 DEF ResentIsPending
    <3> QED
      BY <3>2, <3>3
  <2> QED
    BY <1>1, <1>4, <2>1, <2>3, <2>4 DEF FollowInv
<1>10. ASSUME NEW s \in Senders, GiveUp(s) PROVE FollowInv'
  <2>0. PICK n \in Sent : n = cur[s]
    BY <1>0, <1>10, ActorType DEF GiveUp
  <2>1. /\ UNCHANGED <<sent, pending, batch, at, again, acked, forgotten>>
        /\ Return(s) /\ store' = Without(store, {Key(n)}) /\ failed' = Report(failed, n)
    BY <2>0, <1>0, <1>10, ActorType DEF GiveUp
  <2>2. ~Open(n)'
    BY <1>a, <1>c, <1>d, <2>1 DEF Open
  <2>3. \A m \in Sent : (Holds(pending, m) => Holds(pending, m)') /\ (Holds(batch, m) => Holds(batch, m)')
    BY <2>1, SameKeys DEF Holds
  <2>4. OpenIsAttended'
    <3> SUFFICES ASSUME NEW m \in Sent, Open(m), Open(m)' PROVE Attended(m)'
      BY <1>2, <2>1
    <3>1. Attended(m) /\ m # n
      BY <1>0, <2>2 DEF OpenIsAttended
    <3>2. \A t \in Senders : cur[t] = m => pc'[t] = pc[t] /\ cur'[t] = cur[t]
      BY <1>0, <2>0, <2>1, <3>1 DEF Return, TypeOK
    <3> QED
      BY <2>1, <2>3, <3>1, <3>2 DEF Attended
  <2> QED
    BY <1>1, <1>3, <1>4, <2>1, <2>2, <2>3, <2>4 DEF FollowInv
<1>11. CASE Process
  <2>1. PICK K : batch' = Only(pending, K) /\ pending' = Without(pending, K)
    BY <1>11 DEF Process
  <2>2. UNCHANGED <<sent, cur, pc, store, at, again, acked, forgotten>> /\ at = "scan" /\ batch = <<>>
    BY <1>11 DEF Process
  <2>3. OpenIsAttended'
    <3> SUFFICES ASSUME NEW m \in Sent, Open(m) PROVE Attended(m)'
      BY <1>2, <2>2
    <3>1. Attended(m)
      BY <1>0 DEF OpenIsAttended
    <3>2. ~Holds(batch, m)
      BY <2>2 DEF Holds
    <3>3. Holds(pending, m) => Holds(pending, m)' \/ Holds(batch, m)'
      BY <2>1, <2>2, SameKeys DEF Holds, Only, Without
    <3> QED
      BY <2>2, <3>1, <3>2, <3>3 DEF Attended
  <2>4. ResentIsPending'
    BY <2>2 DEF ResentIsPending
  <2> QED
    BY <1>1, <1>4, <2>2, <2>3, <2>4 DEF FollowInv
<1>12. ASSUME NEW k \in Keys, OnTimeout(k) PROVE FollowInv'
  <2>1. /\ UNCHANGED <<sent, cur, pc, pending, acked, forgotten>> /\ at = "scan" /\ again = None
        /\ batch' = Without(batch, {k}) /\ at' # "send"
    BY <1>0, <1>12 DEF OnTimeout, TypeOK
  <2> DEFINE n == store[k].msg
  <2>2. k \in DOMAIN store => n \in Sent /\ Key(n) = k
    BY <1>0 DEF Kept
  <2>3. \/ k \notin DOMAIN store /\ UNCHANGED store
        \/ k \in DOMAIN store /\ again' = n /\ (UNCHANGED store \/ store' = [store EXCEPT ![k].attempts = @ - 1])
        \/ k \in DOMAIN store /\ store' = Without(store, {k}) /\ failed' = Report(failed, n)
    BY <1>12 DEF OnTimeout
  <2>4. ASSUME k \in DOMAIN store, NEW m \in Sent, m = n
        PROVE  again' = m \/ (store' = Without(store, {k}) /\ ~Open(m)')
    <3>1. failed' = Report(failed, m) => failed'[m] > 0
      BY <1>a, <1>c, <1>d
    <3> QED
      BY <2>3, <2>4, <3>1 DEF Open
  <2>5. OpenIsKept'
    <3>1. CASE k \in DOMAIN store /\ store' = Without(store, {k}) /\ failed' = Report(failed, n)
      <4>1. PICK m \in Sent : m = n /\ Key(m) = k
        BY <2>2, <3>1
      <4>2. failed'[m] > 0
        BY <1>a, <1>c, <1>d, <3>1, <4>1
      <4>3. ~Open(m)'
        BY <4>2 DEF Open
      <4> QED
        BY <1>1, <2>1, <3>1, <4>1, <4>3
    <3>2. CASE UNCHANGED store \/ store' = [store EXCEPT ![k].attempts = @ - 1]
      <4>1. \A j \in DOMAIN store : j \in DOMAIN store' /\ store'[j].msg = store[j].msg
        BY <1>0, <3>2 DEF Kept
      <4> QED
        BY <1>1, <2>1, <4>1
    <3> QED
      BY <2>3, <3>1, <3>2
  <2>6. OpenIsAttended'
    <3> SUFFICES ASSUME NEW m \in Sent, Open(m), Open(m)' PROVE Attended(m)'
      BY <1>2, <2>1
    <3>1. Attended(m) /\ Key(m) \in DOMAIN store /\ store[Key(m)].msg = m /\ again # m
      BY <1>0, <1>a, <2>1 DEF OpenIsAttended, OpenIsKept
    <3>2. CASE Key(m) = k
      <4>1. again' = m
        BY <2>4, <3>1, <3>2
      <4> QED
        BY <4>1 DEF Attended
    <3>3. CASE Key(m) # k
      <4>1. (Holds(pending, m) => Holds(pending, m)') /\ (Holds(batch, m) => Holds(batch, m)')
        BY <2>1, <3>3, SameKeys DEF Holds, Without
      <4> QED
        BY <2>1, <3>1, <4>1 DEF Attended
    <3> QED
      BY <3>2, <3>3
  <2>7. ResentIsPending'
    BY <2>1 DEF ResentIsPending
  <2> QED
    BY <1>4, <2>1, <2>5, <2>6, <2>7 DEF FollowInv
<1>13. CASE RegisterAgain
  <2>1. /\ again \in Sent /\ UNCHANGED <<sent, cur, pc, store, batch, again, acked, forgotten>>
        /\ pending' = IF Accepts(Key(again)) THEN With(pending, Key(again), again) ELSE pending
        /\ at' = IF Accepts(Key(again)) THEN "send" ELSE "giveUp"
    BY <1>0, <1>13, ActorType DEF RegisterAgain, Add
  <2>2. \A m \in Sent : (Holds(pending, m) => Holds(pending, m)') /\ (Holds(batch, m) => Holds(batch, m)')
    <3>1. \/ UNCHANGED pending
          \/ pending' = With(pending, Key(again), again) /\ Key(again) \notin DOMAIN pending
      BY <2>1 DEF Accepts
    <3> QED
      BY <2>1, <3>1, HoldsStays, SameKeys DEF Holds
  <2>3. \A m \in Sent : Attended(m) => Attended(m)'
    BY <2>1, <2>2 DEF Attended
  <2>4. OpenIsAttended'
    BY <1>0, <1>2, <2>1, <2>3 DEF OpenIsAttended
  <2>5. ResentIsPending'
    <3> SUFFICES ASSUME at' = "send" PROVE Holds(pending, again)'
      BY DEF ResentIsPending
    <3>1. pending' = With(pending, Key(again), again)
      BY <2>1
    <3>2. PICK m \in Sent : m = again /\ Key(m)' = Key(m)
      BY <2>1, SameKeys
    <3>3. pending' = With(pending, Key(m), m)
      BY <3>1, <3>2
    <3>4. Holds(pending, m)'
      BY <3>2, <3>3 DEF Holds, With
    <3> QED
      BY <2>1, <3>2, <3>4 DEF Holds, Key
  <2> QED
    BY <1>1, <1>4, <2>1, <2>4, <2>5 DEF FollowInv
<1>14. CASE Retransmit
  <2>1. /\ again \in Sent /\ UNCHANGED <<sent, cur, pc, store, pending, batch, acked, forgotten>> /\ at = "send"
        /\ at' # "send" /\ (UNCHANGED again \/ again' = None)
    BY <1>0, <1>14, ActorType DEF Retransmit, ReturnAgain
  <2>2. OpenIsAttended'
    <3> SUFFICES ASSUME NEW m \in Sent, Open(m) PROVE Attended(m)'
      BY <1>2, <2>1
    <3>1. Attended(m) /\ (m = again => Holds(pending, m))
      BY <1>0, <2>1 DEF OpenIsAttended, ResentIsPending
    <3>2. (Holds(pending, m) => Holds(pending, m)') /\ (Holds(batch, m) => Holds(batch, m)')
      BY <2>1, SameKeys DEF Holds
    <3> QED
      BY <2>1, <3>1, <3>2 DEF Attended
  <2>3. ResentIsPending'
    BY <2>1 DEF ResentIsPending
  <2> QED
    BY <1>1, <1>4, <2>1, <2>2, <2>3 DEF FollowInv
<1>15. CASE CancelRetry
  <2>1. /\ again \in Sent /\ UNCHANGED <<sent, cur, pc, store, batch, again, acked, forgotten>>
        /\ pending' = Without(pending, {Key(again)}) /\ at' = "giveUp"
    BY <1>0, <1>15, ActorType DEF CancelRetry, Cancel
  <2>2. OpenIsAttended'
    <3> SUFFICES ASSUME NEW m \in Sent, Open(m) PROVE Attended(m)'
      BY <1>2, <2>1
    <3>1. Attended(m)
      BY <1>0 DEF OpenIsAttended
    <3>2. CASE m = again
      BY <2>1, <3>2 DEF Attended
    <3>3. CASE m # again
      <4>1. Key(m) # Key(again)
        BY <1>b, <2>1, <3>3
      <4>2. (Holds(pending, m) => Holds(pending, m)') /\ (Holds(batch, m) => Holds(batch, m)')
        BY <2>1, <4>1, SameKeys DEF Holds, Without
      <4> QED
        BY <2>1, <3>1, <4>2 DEF Attended
    <3> QED
      BY <3>2, <3>3
  <2>3. ResentIsPending'
    BY <2>1 DEF ResentIsPending
  <2> QED
    BY <1>1, <1>4, <2>1, <2>2, <2>3 DEF FollowInv
<1>16. CASE GiveUpRetry
  <2> DEFINE n == again
  <2>1. /\ n \in Sent /\ UNCHANGED <<sent, cur, pc, pending, batch, acked, forgotten>> /\ at' = "scan"
        /\ store' = Without(store, {Key(n)}) /\ failed' = Report(failed, n)
    BY <1>0, <1>16, ActorType DEF GiveUpRetry, ReturnAgain
  <2>2. \A m \in Sent : m = n => ~Open(m)'
    BY <1>a, <1>c, <1>d, <2>1 DEF Open
  <2>3. OpenIsAttended'
    <3> SUFFICES ASSUME NEW m \in Sent, Open(m), Open(m)' PROVE Attended(m)'
      BY <1>2, <2>1
    <3>1. Attended(m) /\ m # n
      BY <1>0, <2>2 DEF OpenIsAttended
    <3>2. (Holds(pending, m) => Holds(pending, m)') /\ (Holds(batch, m) => Holds(batch, m)')
      BY <2>1, SameKeys DEF Holds
    <3> QED
      BY <2>1, <3>1, <3>2 DEF Attended
  <2>4. OpenIsKept'
    <3>1. PICK m \in Sent : m = n /\ ~Open(m)'
      BY <2>1, <2>2
    <3> QED
      BY <1>1, <2>1, <3>1
  <2>5. ResentIsPending'
    BY <2>1 DEF ResentIsPending
  <2> QED
    BY <1>4, <2>1, <2>3, <2>4, <2>5 DEF FollowInv
<1>17. CASE Reregister
  <2>1. /\ again \in Sent /\ UNCHANGED <<sent, cur, pc, store, batch, acked>> /\ at' = "scan"
        /\ pending' = IF Accepts(Key(again)) THEN With(pending, Key(again), again) ELSE pending
        /\ forgotten' = IF Accepts(Key(again)) THEN forgotten ELSE forgotten \cup {again}
    BY <1>0, <1>17, ActorType DEF Reregister, Add, ReturnAgain
  <2>2. \A m \in Sent : (Holds(pending, m) => Holds(pending, m)') /\ (Holds(batch, m) => Holds(batch, m)')
    <3>1. \/ UNCHANGED pending
          \/ pending' = With(pending, Key(again), again) /\ Key(again) \notin DOMAIN pending
      BY <2>1 DEF Accepts
    <3> QED
      BY <2>1, <3>1, HoldsStays, SameKeys DEF Holds
  <2>3. OpenIsAttended'
    <3> SUFFICES ASSUME NEW m \in Sent, Open(m) PROVE Attended(m)'
      BY <1>2, <2>1
    <3>1. Attended(m)
      BY <1>0 DEF OpenIsAttended
    <3>2. m = again => m \in forgotten' \/ Holds(pending, m)'
      BY <2>1, SameKeys DEF Holds, With
    <3>3. m \in forgotten => m \in forgotten'
      BY <2>1
    <3> QED
      BY <2>1, <2>2, <3>1, <3>2, <3>3 DEF Attended
  <2>4. ResentIsPending'
    BY <2>1 DEF ResentIsPending
  <2> QED
    BY <1>1, <1>4, <2>1, <2>3, <2>4 DEF FollowInv
<1>18. ASSUME NEW q \in acks, ReceiveAck(q) PROVE FollowInv'
  <2>1. UNCHANGED <<sent, cur, pc, store, batch, at, again, forgotten>>
    BY <1>18 DEF ReceiveAck
  <2>2. CASE Matching(q) = {}
    BY <1>5, <1>18, <2>1, <2>2 DEF ReceiveAck
  <2>3. CASE Matching(q) # {}
    <3> DEFINE n == pending[Removed(q)]
    <3>1. /\ pending' = Without(pending, {Removed(q)}) /\ acked' = Removed(q) /\ ok' = Report(ok, n)
          /\ n \in Sent /\ Key(n) = Removed(q)
      BY <1>0, <1>18, <2>3, RemovedMatches DEF ReceiveAck, Tracks
    <3>2. \A m \in Sent : m = n => ok'[m] > 0
      BY <1>a, <1>c, <1>d, <3>1
    <3>3. ASSUME NEW m \in Sent, Open(m)', Holds(pending, m) PROVE Holds(pending, m)'
      <4>1. m # n /\ Open(m)
        BY <3>2, <3>3, OpenBefore DEF Open
      <4>2. Key(m) # Removed(q)
        BY <1>b, <3>1, <4>1
      <4> QED
        BY <3>1, <3>3, <4>2, HoldsStays
    <3>4. OpenIsAttended'
      <4> SUFFICES ASSUME NEW m \in Sent, Open(m), Open(m)' PROVE Attended(m)'
        BY <1>2, <2>1
      <4>1. Attended(m)
        BY <1>0 DEF OpenIsAttended
      <4>2. Holds(batch, m) => Holds(batch, m)'
        BY <2>1, SameKeys DEF Holds
      <4> QED
        BY <2>1, <3>3, <4>1, <4>2 DEF Attended
    <3>5. AckedIsReported'
      <4>1. PICK m \in Sent : m = n
        BY <3>1
      <4>2. ok'[m] > 0 /\ Key(m)' = acked' /\ m \in Sent'
        BY <2>1, <3>1, <3>2, <4>1, SameKeys
      <4> QED
        BY <4>2 DEF AckedIsReported
    <3> QED
      BY <1>1, <1>3, <2>1, <3>3, <3>4, <3>5 DEF FollowInv
  <2> QED
    BY <2>2, <2>3
<1>19. CASE OnSuccess
  <2>1. /\ UNCHANGED <<sent, cur, pc, pending, batch, at, again, forgotten, ok, failed>>
        /\ store' = Without(store, {acked}) /\ acked # NoKey /\ acked' = NoKey
    BY <1>19 DEF OnSuccess
  <2>2. PICK n \in Sent : Key(n) = acked /\ ok[n] > 0
    BY <1>0, <2>1 DEF AckedIsReported
  <2>3. ~Open(n)'
    <3>1. ok[n] # 0
      BY <2>2
    <3> QED
      BY <2>1, <3>1 DEF Open
  <2>4. OpenIsKept'
    BY <1>1, <2>1, <2>2, <2>3
  <2>5. \A m \in Sent : (Holds(pending, m) => Holds(pending, m)') /\ (Holds(batch, m) => Holds(batch, m)')
    BY <2>1, SameKeys DEF Holds
  <2>6. \A m \in Sent : Attended(m) => Attended(m)'
    BY <2>1, <2>5 DEF Attended
  <2>7. OpenIsAttended'
    BY <1>0, <1>2, <2>1, <2>6 DEF OpenIsAttended
  <2> QED
    BY <1>3, <1>4, <2>1, <2>4, <2>5, <2>7 DEF FollowInv
<1>20. CASE FarSide \/ UNCHANGED vars
  <2>1. UNCHANGED <<sent, store, pc, cur, pending, batch, at, again, acked, forgotten>>
    BY <1>20 DEF FarSide, Receive, ProcessIncoming, RegisterHandler, vars
  <2> QED
    BY <1>5, <2>1
<1> QED
  BY <1>6, <1>7, <1>8, <1>9, <1>10, <1>11, <1>12, <1>13, <1>14, <1>15, <1>16, <1>17, <1>18, <1>19, <1>20
  DEF Next, Sending, Monitoring, Retrying, Receiving

---------------------------------------------------------------------------
(* The two invariants together, and what a caller reads off them.           *)

ReportInv == TypeInv /\ OwnerInv /\ FailInv /\ FollowInv

\* The initial state satisfies what the reports rest on.
LEMMA ReportInitially == Init => ReportInv
<1> SUFFICES ASSUME Init PROVE ReportInv
  OBVIOUS
<1>1. TypeInv
  BY TypeInitially
<1>2. store = <<>> /\ at = "scan" /\ acked = NoKey /\ Sent = {} /\ \A s \in Senders : cur[s] = None
  BY DEF Init, Sent
<1>3. OwnerInv
  BY <1>2 DEF OwnerInv, OneSender, SentReturned, RetryReturned, AllAttempts
<1>4. FailInv
  BY DEF Init, FailInv, FailedIsFinal
<1>5. FollowInv
  BY <1>2 DEF FollowInv, OpenIsKept, OpenIsAttended, ResentIsPending, AckedIsReported
<1> QED
  BY <1>1, <1>3, <1>4, <1>5 DEF ReportInv

\* So does every state of every execution.
LEMMA ReportInvariant == Spec => []ReportInv
<1>1. ReportInv /\ [Next]_vars => ReportInv'
  BY TypeStep, OwnerStep, FailStep, FollowStep DEF ReportInv
<1> QED
  BY <1>1, ReportInitially, PTL DEF Spec, Safety

\* OnDeliveryFailed fires at most once for a message whose number is its own.
THEOREM OneFailureReport == Spec => []FailsOnce
<1>1. ReportInv => FailsOnce
  <2> SUFFICES ASSUME ReportInv, NEW m \in Messages, MAX_RETRIES # 0, ~Reused(m)
               PROVE  failed[m] <= 1
    BY DEF FailsOnce
  <2>1. FailedIsFinal
    BY ReliableTransportAssumption DEF ReportInv, FailInv, ReliableTransportAssumption
  <2>2. failed[m] \in Nat
    BY DEF ReportInv, TypeInv, TypeOK
  <2> QED
    BY <2>1, <2>2 DEF FailedIsFinal, Final
<1> QED
  BY <1>1, ReportInvariant, PTL

\* A message on which nothing has been reported is followed by its sender, by
\* the retry that copied it, or by an entry of the monitor and its packet.
THEOREM EveryMessageFollowed == Spec => []NothingForgotten
<1>1. ReportInv => NothingForgotten
  <2> SUFFICES ASSUME ReportInv, NEW m \in Sent, ok[m] = 0, failed[m] = 0,
                      ~Reused(m), m \notin forgotten
               PROVE  Followed(m)
    BY DEF NothingForgotten, Sent
  <2>1. Key(m) \in DOMAIN store /\ store[Key(m)].msg = m /\ Attended(m)
    BY DEF ReportInv, FollowInv, OpenIsKept, OpenIsAttended, Open
  <2>2. \A f : Holds(f, m) => InTables(m, f)
    BY <2>1 DEF Holds, InTables
  <2> QED
    BY <2>1, <2>2 DEF Attended, Followed
<1> QED
  BY <1>1, ReportInvariant, PTL
==========================================================================
