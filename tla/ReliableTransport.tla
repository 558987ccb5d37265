------------------------ MODULE ReliableTransport ------------------------
(***************************************************************************)
(* A Dispatcher that sends through dmq::util::ReliableTransport, that is    *)
(* RetryMonitor over TransportMonitor over a datagram link that loses and   *)
(* reorders, to a Participant whose transport acknowledges and which then   *)
(* looks for a channel and drops duplicates.                                *)
(*                                                                         *)
(* Threads of the sending process: Senders call Dispatch; one thread calls  *)
(* TransportMonitor::Process and so runs OnStatusChanged for time-outs; one *)
(* receives and so runs it for acknowledgements.  They share the two        *)
(* tables, each under its own lock, and nothing else: between two locked    *)
(* sections, and around ITransport::Send, anything may happen.  At the      *)
(* receiver one thread calls ProcessIncoming, and others RegisterHandler.   *)
(***************************************************************************)
EXTENDS TransportMonitor, Sequences

CONSTANTS
  Senders,
  MAX_RETRIES,        \* m_maxRetries
  SEQ_HISTORY_SIZE,   \* depth of the receiver's duplicate filter
  SendMayFail,        \* TRUE iff ITransport::Send may return an error
  MaxMessages,        \* bound: calls of Dispatch
  IdsOf,              \* the remote ids the n-th of these calls may be for
  AtStart             \* the remote ids with a channel at the receiver from the start

ASSUME ReliableTransportAssumption ==
  /\ MAX_RETRIES \in Nat /\ SEQ_HISTORY_SIZE \in Nat \ {0}
  /\ SendMayFail \in BOOLEAN /\ MaxMessages \in Nat
  /\ IdsOf \in [1 .. MaxMessages -> SUBSET Ids] /\ AtStart \subseteq Ids

None     == 0
NoKey    == <<0, 0>>
Messages == 1 .. MaxMessages

VARIABLES
  sent,      \* the remote ids of the messages dispatched so far, in the order of m_seqNum
  store,     \* m_retryStore: key -> the message kept, its attempts left and isSent
  pc, cur,   \* where each sender is in SendWithRetry, and its message
  batch,     \* m_expiredItems not yet reported by Process: key -> message
  at, again, \* where OnStatusChanged(TIMEOUT) is after its lock, and the message it copied
  acked,     \* the key whose SUCCESS RetryMonitor has not been told of yet
  packets,   \* messages on the link
  acks,      \* sequence numbers of acknowledgements on the link
  channels,  \* m_channels of the receiver: the remote ids it has a handler for
  inbox,     \* what its thread has received and not yet looked up, if anything
  history,   \* SeqHistory of each remote id at the receiver, oldest first
  handled,   \* the messages each remote id's handler was invoked with, in order
  unhandled, \* the messages of which the last packet found no channel
  ok,        \* how often SUCCESS was reported for a message
  failed,    \* how often OnDeliveryFailed was reported for it
  forgotten  \* messages whose renewed registration Add refused

senderVars == <<sent, pc, cur>>
retryVars  == <<batch, at, again>>
linkVars   == <<packets, acks>>
farVars    == <<channels, inbox, history, handled, unhandled>>
reports    == <<ok, failed, forgotten>>
vars == <<pending, senderVars, store, retryVars, acked, linkVars, farVars, reports>>

---------------------------------------------------------------------------
\* m_seqNum.fetch_add(1): one counter for all ids of the process.
SeqNum(m) == (m - 1) % SEQ_MOD
KeyOf(i, m) == <<i, SeqNum(m)>>
Key(m)      == KeyOf(sent[m], m)

Entry(m) == [msg |-> m, attempts |-> MAX_RETRIES, isSent |-> FALSE]

Report(f, m) == [f EXCEPT ![m] = @ + 1]

Return(s)  == pc' = [pc EXCEPT ![s] = "idle"] /\ cur' = [cur EXCEPT ![s] = None]
ReturnAgain == at' = "scan" /\ again' = None

Init ==
  /\ pending = <<>> /\ store = <<>> /\ sent = <<>>
  /\ pc = [s \in Senders |-> "idle"] /\ cur = [s \in Senders |-> None]
  /\ batch = <<>> /\ at = "scan" /\ again = None /\ acked = NoKey
  /\ packets = {} /\ acks = {}
  /\ channels = AtStart /\ inbox = None
  /\ history = [i \in Ids |-> <<>>] /\ handled = [i \in Ids |-> <<>>] /\ unhandled = {}
  /\ ok = [m \in Messages |-> 0] /\ failed = [m \in Messages |-> 0] /\ forgotten = {}

---------------------------------------------------------------------------
(* Dispatch and SendWithRetry, on a sender's thread.                        *)

\* The number is drawn and the packet kept; what was kept under the key is replaced.
SendWithRetry(s) ==
  /\ pc[s] = "idle" /\ Len(sent) < MaxMessages
  /\ LET m == Len(sent) + 1
     IN  /\ \E i \in IdsOf[m] : sent' = Append(sent, i) /\ store' = With(store, KeyOf(i, m), Entry(m))
         /\ cur' = [cur EXCEPT ![s] = m]
  /\ pc' = [pc EXCEPT ![s] = "add"]
  /\ UNCHANGED <<pending, retryVars, acked, linkVars, farVars, reports>>

Register(s) ==
  /\ pc[s] = "add"
  /\ Add(Key(cur[s]), cur[s])
  /\ pc' = [pc EXCEPT ![s] = IF Accepts(Key(cur[s])) THEN "send" ELSE "giveUp"]
  /\ UNCHANGED <<sent, cur, store, retryVars, acked, linkVars, farVars, reports>>

\* m_transport->Send: the packet is on the link, or an error is returned.
Transmit(s) ==
  /\ pc[s] = "send"
  /\ \/ packets' = packets \cup {cur[s]} /\ pc' = [pc EXCEPT ![s] = "mark"]
     \/ SendMayFail /\ pc' = [pc EXCEPT ![s] = "cancel"] /\ UNCHANGED packets
  /\ UNCHANGED <<pending, sent, cur, store, retryVars, acked, acks, farVars, reports>>

NeverSent(f, k) == f                     \* slip: isSent never set
MarkedSent(f, k) == IF k \in DOMAIN f THEN [f EXCEPT ![k].isSent = TRUE] ELSE f

MarkSent(s) ==
  /\ pc[s] = "mark"
  /\ store' = MarkedSent(store, Key(cur[s]))
  /\ Return(s)
  /\ UNCHANGED <<pending, sent, retryVars, acked, linkVars, farVars, reports>>

CancelSend(s) ==
  /\ pc[s] = "cancel"
  /\ Cancel(Key(cur[s]))
  /\ pc' = [pc EXCEPT ![s] = "giveUp"]
  /\ UNCHANGED <<sent, cur, store, retryVars, acked, linkVars, farVars, reports>>

\* The entry is erased and OnDeliveryFailed fired.
GiveUp(s) ==
  /\ pc[s] = "giveUp"
  /\ store' = Without(store, {Key(cur[s])})
  /\ failed' = Report(failed, cur[s])
  /\ Return(s)
  /\ UNCHANGED <<pending, sent, retryVars, acked, linkVars, farVars, ok, forgotten>>

---------------------------------------------------------------------------
(* TransportMonitor::Process and OnStatusChanged(TIMEOUT).                  *)

Process ==
  /\ at = "scan" /\ batch = <<>>
  /\ \E K \in Batches : batch' = Only(pending, K) /\ pending' = Without(pending, K)
  /\ UNCHANGED <<senderVars, store, at, again, acked, linkVars, farVars, reports>>

RetryableEarly(e) == e.attempts > 0      \* slip: a retry while the first send is still running
\* The packet may be sent again: the first send has returned.
Retryable(e) == e.attempts > 0 /\ e.isSent
Exhausted(e) == e.attempts <= 0

\* One item of the batch is reported to OnStatusChanged: its locked section and,
\* when the attempts are used up, the report that follows it.
OnTimeout(k) ==
  /\ at = "scan" /\ k \in DOMAIN batch
  /\ batch' = Without(batch, {k})
  /\ \/ /\ k \notin DOMAIN store
        /\ UNCHANGED <<store, at, again, failed>>
     \/ /\ k \in DOMAIN store /\ Retryable(store[k])
        /\ store' = [store EXCEPT ![k].attempts = @ - 1]
        /\ at' = "add" /\ again' = store[k].msg
        /\ UNCHANGED failed
     \/ /\ k \in DOMAIN store /\ ~Retryable(store[k]) /\ ~Exhausted(store[k])
        /\ at' = "reregister" /\ again' = store[k].msg
        /\ UNCHANGED <<store, failed>>
     \/ /\ k \in DOMAIN store /\ Exhausted(store[k])
        /\ store' = Without(store, {k}) /\ failed' = Report(failed, store[k].msg)
        /\ UNCHANGED <<at, again>>
  /\ UNCHANGED <<pending, senderVars, acked, linkVars, farVars, ok, forgotten>>

RegisterAgain ==
  /\ at = "add"
  /\ Add(Key(again), again)
  /\ at' = IF Accepts(Key(again)) THEN "send" ELSE "giveUp"
  /\ UNCHANGED <<senderVars, store, batch, again, acked, linkVars, farVars, reports>>

Retransmit ==
  /\ at = "send"
  /\ \/ packets' = packets \cup {again} /\ ReturnAgain
     \/ SendMayFail /\ at' = "cancel" /\ UNCHANGED <<again, packets>>
  /\ UNCHANGED <<pending, senderVars, store, batch, acked, acks, farVars, reports>>

CancelRetry ==
  /\ at = "cancel"
  /\ Cancel(Key(again))
  /\ at' = "giveUp"
  /\ UNCHANGED <<senderVars, store, batch, again, acked, linkVars, farVars, reports>>

GiveUpRetry ==
  /\ at = "giveUp"
  /\ store' = Without(store, {Key(again)})
  /\ failed' = Report(failed, again)
  /\ ReturnAgain
  /\ UNCHANGED <<pending, senderVars, batch, acked, linkVars, farVars, ok, forgotten>>

ReregisterNothing ==                     \* slip: a time-out during the first send is ignored
  /\ at = "reregister" /\ ReturnAgain
  /\ UNCHANGED <<pending, senderVars, store, batch, acked, linkVars, farVars, ok, failed, forgotten>>
\* The first send has not returned; the result of Add is not looked at.
Reregister ==
  /\ at = "reregister"
  /\ Add(Key(again), again)
  /\ forgotten' = IF Accepts(Key(again)) THEN forgotten ELSE forgotten \cup {again}
  /\ ReturnAgain
  /\ UNCHANGED <<senderVars, store, batch, acked, linkVars, farVars, ok, failed>>

---------------------------------------------------------------------------
(* The link and the two receivers.  A packet or an acknowledgement on the   *)
(* link is received in any order, or never: that is all there is to loss,   *)
(* as nobody can tell a lost one from one that is late for ever.            *)

\* An acknowledgement arrives: Remove fires SUCCESS after releasing its lock.
ReceiveAck(q) ==
  /\ q \in acks /\ acked = NoKey
  /\ acks' = acks \ {q}
  /\ IF Matching(q) = {}
     THEN UNCHANGED <<pending, acked, ok>>
     ELSE /\ pending' = Without(pending, {Removed(q)})
          /\ acked' = Removed(q)
          /\ ok' = Report(ok, pending[Removed(q)])
  /\ UNCHANGED <<senderVars, store, retryVars, packets, farVars, failed, forgotten>>

\* OnStatusChanged(SUCCESS).
OnSuccess ==
  /\ acked # NoKey
  /\ store' = Without(store, {acked})
  /\ acked' = NoKey
  /\ UNCHANGED <<pending, senderVars, retryVars, linkVars, farVars, reports>>

IsSeen(i, q) == \E j \in DOMAIN history[i] : history[i][j] = q
RememberFirst(h, q) ==                   \* slip: a full ring takes nothing new
  IF Len(h) < SEQ_HISTORY_SIZE THEN Append(h, q) ELSE h
Remember(h, q) ==
  IF Len(h) < SEQ_HISTORY_SIZE THEN Append(h, q) ELSE Append(Tail(h), q)

\* AddIncomingTopic and the like: a channel is never taken away again.
RegisterHandler(i) ==
  /\ i \notin channels
  /\ channels' = channels \cup {i}
  /\ UNCHANGED <<pending, senderVars, store, retryVars, acked, linkVars, inbox, history, handled, unhandled, reports>>

\* ITransport::Receive takes a packet off the link and acknowledges it, whatever
\* ProcessIncoming, which has called it, will do with the message.
Receive(m) ==
  /\ m \in packets /\ inbox = None
  /\ packets' = packets \ {m}
  /\ acks' = acks \cup {SeqNum(m)}
  /\ inbox' = m
  /\ UNCHANGED <<pending, senderVars, store, retryVars, acked, channels, history, handled, unhandled, reports>>

FiltersAll(i) == i \in Ids               \* slip: the filter is asked before the channel is found
Filters(i)    == i \in channels

\* The rest of Participant::ProcessIncoming: without a channel ERR_NO_DISPATCHER is
\* all that comes of the message, and the filter does not get to know it; with one,
\* a duplicate is dropped and anything else handed to the handler.
ProcessIncoming ==
  /\ inbox # None /\ inbox' = None
  /\ LET i == sent[inbox]
         q == SeqNum(inbox)
     IN  /\ history' = [history EXCEPT ![i] = IF Filters(i) /\ ~IsSeen(i, q) THEN Remember(@, q) ELSE @]
         /\ \/ i \notin channels /\ unhandled' = unhandled \cup {inbox} /\ UNCHANGED handled
            \/ /\ i \in channels /\ unhandled' = unhandled \ {inbox}
               /\ handled' = [handled EXCEPT ![i] = IF IsSeen(i, q) THEN @ ELSE Append(@, inbox)]
  /\ UNCHANGED <<pending, senderVars, store, retryVars, acked, linkVars, channels, reports>>

---------------------------------------------------------------------------
Sending(s) == Register(s) \/ Transmit(s) \/ MarkSent(s) \/ CancelSend(s) \/ GiveUp(s)
Retrying   == RegisterAgain \/ Retransmit \/ CancelRetry \/ GiveUpRetry \/ Reregister
Monitoring == Process \/ (\E k \in Keys : OnTimeout(k)) \/ Retrying
Receiving  == (\E q \in acks : ReceiveAck(q)) \/ OnSuccess
FarSide    == (\E m \in packets : Receive(m)) \/ ProcessIncoming \/ (\E i \in Ids : RegisterHandler(i))

Next ==
  \/ \E s \in Senders : SendWithRetry(s) \/ Sending(s)
  \/ Monitoring \/ Receiving \/ FarSide

\* Threads that have begun a call go on, and while a message is pending somebody
\* keeps calling Process and finds one expired in the end.  The link and the
\* receiver owe nothing.
Fairness ==
  /\ \A s \in Senders : WF_vars(Sending(s))
  /\ WF_vars(Monitoring)

Safety == Init /\ [][Next]_vars
Spec   == Safety /\ Fairness

---------------------------------------------------------------------------
\* Another message was sent under the number of m: the 16 bits have wrapped.
Reused(m) == \E n \in 1 .. Len(sent) : n # m /\ SeqNum(n) = SeqNum(m)

Handled(m) == \E j \in DOMAIN handled[sent[m]] : handled[sent[m]][j] = m

\* What SUCCESS says of a message is that the receiver has got it
\* (RemoteDispatcher.h:217): it was handled, unless the receiver has yet to look it
\* up or found no channel for its last packet; a message that found none before is
\* handled, and not taken for a duplicate, when it is repeated.  All this unless
\* the number was used twice: an acknowledgement carries the number only
\* (TransportMonitor.h:123-133), and the receiver's filter knows nothing else.
AckedWasReceived ==
  \A m \in Messages : ok[m] > 0 /\ ~Reused(m) => Handled(m) \/ inbox = m \/ m \in unhandled

\* Retransmissions reach a handler again only after SEQ_HISTORY_SIZE others have
\* pushed the number out of the filter (Participant.h:358-379).
DuplicatesFarApart ==
  \A i \in Ids : \A a, b \in DOMAIN handled[i] :
    a < b /\ SeqNum(handled[i][a]) = SeqNum(handled[i][b]) => b - a > SEQ_HISTORY_SIZE

\* Who will still report on m: the call that sends it, the time-out being
\* handled, or the two tables together.
InTables(m, f) == \E k \in DOMAIN f \cap DOMAIN store : f[k] = m /\ store[k].msg = m
Followed(m) ==
  \/ \E s \in Senders : cur[s] = m /\ pc[s] # "mark"
  \/ again = m
  \/ InTables(m, pending) \/ InTables(m, batch)

\* A message that has been neither acknowledged nor reported as failed is still
\* followed by somebody, except that its number was used again or that the
\* renewed registration was refused (RetryMonitor.h:105 and 250).
NothingForgotten ==
  \A m \in 1 .. Len(sent) :
    ok[m] = 0 /\ failed[m] = 0 => Followed(m) \/ Reused(m) \/ m \in forgotten

\* OnDeliveryFailed fires once for a message (extras/databus/README.md:180): what
\* isSent is for, a message is not given up by a time-out while its first send runs.
\* Not so with maxRetries 0: RetryMonitor.h:204 does not look at isSent.
FailsOnce == \A m \in Messages : failed[m] <= 1 \/ Reused(m) \/ MAX_RETRIES = 0

\* In the end every message is acknowledged or reported as failed, whatever the
\* link loses, with the same two exceptions.
Resolved ==
  <>[](\A m \in 1 .. Len(sent) : ok[m] > 0 \/ failed[m] > 0 \/ Reused(m) \/ m \in forgotten)
===========================================================================
