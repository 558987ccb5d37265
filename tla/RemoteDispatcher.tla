------------------------- MODULE RemoteDispatcher -------------------------
(***************************************************************************)
(* dmq::rpc::RemoteDispatcher::RemoteInvokeWait: callers marshal a send to   *)
(* the network thread by a blocking asynchronous call, and then wait until  *)
(* the TransportMonitor reports a status for the sequence number that their *)
(* channel says it has drawn last.  The report may come before that number  *)
(* is known, and a send that fails may not have drawn one.                  *)
(*                                                                         *)
(* Threads: the callers; the network thread m_thread, which sends, runs     *)
(* TransportMonitor::Process for the timer, and handles what was received;  *)
(* the receive thread, which reports acknowledgements and makes a timed     *)
(* blocking call to the network thread for each packet of data; and the     *)
(* owner, which stops the dispatcher once.  The callers use one channel,     *)
(* registered as RegisterEndpoint does it, with an error handler, so that no *)
(* error throws; it sends through a RetryMonitor, of which only the resend  *)
(* is modelled here (see ReliableTransport).                                *)
(***************************************************************************)
EXTENDS DelegateAsyncWait, TransportMonitor

CONSTANTS
  Callers,
  MAX_RETRIES,   \* resends of a message that was not acknowledged in time
  SendMayFail,   \* TRUE iff the serializer, the stream or ITransport::Send may fail
  MaxInvokes,    \* bound: calls of RemoteInvokeWait
  MaxReceived    \* bound: packets of data received

ASSUME RemoteDispatcherAssumption ==
  /\ MAX_RETRIES \in Nat /\ SendMayFail \in BOOLEAN
  /\ MaxInvokes \in Nat /\ MaxReceived \in Nat
  /\ Callers \cap {"receiver", "owner", "timer"} = {}     \* the other senders
  /\ SEQ_MOD > MaxInvokes      \* no number is used twice within a wait

None   == 0
NoCall == <<>>
Id     == CHOOSE i \in Ids : TRUE
Tick   == <<"timer", 1>>         \* the timer's message in the queue
KeyOf(s) == <<Id, s>>
Threads == {"network", "receive"}
Seqs     == 1 .. MaxInvokes

VARIABLES
  pc, call,    \* where each caller is in RemoteInvokeWaitInternal, and its blocking call if any
  state,       \* its InvokeWaitState, with the semaphore
  sendOk,      \* GetError() = SUCCESS after its send
  mine, first, \* the number its message really has, and the first status reported of it
  at,          \* where the network thread is
  batch,       \* m_expiredItems not yet reported: as in pending, the resends a message has left
  emit,        \* of each reporting thread, the status it reports and to whom it still has to
  lastSeq,     \* the last sequence number given: m_seqNum of the code, which is one less
  lastSeqNum,  \* m_lastSeqNum of the channel
  recv, recvCall, received,   \* the receive thread, its blocking call, packets of data so far
  owner, ownerCall, timerOn   \* the owner in Stop, its blocking call, and the time-out timer

callerVars  == <<pc, call, state, sendOk, mine, first>>
statusVars  == <<pending, batch, emit>>
recvVars    == <<recv, recvCall, received>>
ownerVars   == <<owner, ownerCall, timerOn>>
seqVars     == <<lastSeq, lastSeqNum>>
vars == <<calls, queue, callerVars, at, statusVars, seqVars, recvVars, ownerVars>>

NewState == [complete |-> FALSE, success |-> FALSE, expectedSeq |-> None, early |-> <<>>, sem |-> FALSE]
Silence  == [seq |-> None, status |-> "SUCCESS", to |-> {}]
Reporting(e, to) == IF to = {} THEN Silence ELSE [e EXCEPT !.to = to]

Init ==
  /\ calls = <<>> /\ queue = <<>> /\ pending = <<>> /\ batch = <<>>
  /\ pc = [c \in Callers |-> "idle"] /\ call = [c \in Callers |-> NoCall]
  /\ state = [c \in Callers |-> NewState] /\ sendOk = [c \in Callers |-> FALSE]
  /\ mine = [c \in Callers |-> None] /\ first = [c \in Callers |-> "none"]
  /\ at = "loop" /\ emit = [t \in Threads |-> Silence]
  /\ lastSeq = 0 /\ lastSeqNum = 1           \* the code's 0, as if given
  /\ recv = "receive" /\ recvCall = NoCall /\ received = 0
  /\ owner = "started" /\ ownerCall = NoCall /\ timerOn = TRUE

---------------------------------------------------------------------------
(* RemoteInvokeWaitInternal on a caller's thread.                           *)

Connected == {c \in Callers : pc[c] # "idle"}

Unsent    == {c \in Callers : pc[c] = "sending" /\ mine[c] = None}

\* The callback is connected and the send marshaled to the network thread.
RemoteInvokeWait(c) ==
  /\ pc[c] = "idle" /\ lastSeq + Cardinality(Unsent) < MaxInvokes
  /\ DispatchAsyncWait(NewCall(c), FALSE)
  /\ pc' = [pc EXCEPT ![c] = "sending"]
  /\ call' = [call EXCEPT ![c] = NewCall(c)]
  /\ UNCHANGED <<state, sendOk, mine, first, at, statusVars, seqVars, recvVars, ownerVars>>

\* The call has returned; the status is waited for if the send was good.
SendReturned(c) ==
  /\ pc[c] = "sending" /\ Return(call[c])
  /\ pc' = [pc EXCEPT ![c] = IF Success(call[c]) /\ sendOk[c] THEN "awaiting" ELSE "reading"]
  /\ call' = [call EXCEPT ![c] = NoCall]
  /\ UNCHANGED <<state, sendOk, mine, first, at, statusVars, seqVars, recvVars, ownerVars>>

\* sem.Wait(RECV_TIMEOUT) returns, signaled or not.
AwaitStatus(c) ==
  /\ pc[c] = "awaiting" /\ state[c].sem
  /\ pc' = [pc EXCEPT ![c] = "reading"]
  /\ UNCHANGED <<calls, queue, call, state, sendOk, mine, first, at, statusVars, seqVars, recvVars, ownerVars>>

NeverTimesOut(c) == pc[c] = "none" /\ UNCHANGED vars     \* slip: a wait without end
AwaitTimesOut(c) ==
  /\ pc[c] = "awaiting" /\ ~state[c].sem
  /\ pc' = [pc EXCEPT ![c] = "reading"]
  /\ UNCHANGED <<calls, queue, call, state, sendOk, mine, first, at, statusVars, seqVars, recvVars, ownerVars>>

\* state->success is returned; the callback is disconnected, and a report that
\* is still under way to it changes nothing that anybody reads.
Read(c) ==
  /\ pc[c] = "reading"
  /\ emit' = [t \in Threads |-> Reporting(emit[t], emit[t].to \ {c})]
  /\ state' = [state EXCEPT ![c] = NewState]
  /\ mine' = [mine EXCEPT ![c] = None] /\ first' = [first EXCEPT ![c] = "none"]
  /\ sendOk' = [sendOk EXCEPT ![c] = FALSE]
  /\ pc' = [pc EXCEPT ![c] = "idle"]
  /\ UNCHANGED <<calls, queue, call, at, pending, batch, seqVars, recvVars, ownerVars>>

---------------------------------------------------------------------------
(* OnSendStatus: a snapshot of the callbacks is invoked one by one.         *)

Silent(t) == emit[t].to = {}
Emit(t, s, status) ==
  emit' = [emit EXCEPT ![t] = Reporting([seq |-> s, status |-> status, to |-> {}], Connected)]

Completes(w, s) == ~w.complete /\ s = w.expectedSeq

\* statusCbFunc: the status is kept until the number is known, or completes the wait.
StatusCallback(w, s, status) ==
  IF w.expectedSeq = None THEN [w EXCEPT !.early = With(@, s, status)]
  ELSE IF Completes(w, s)
       THEN [w EXCEPT !.complete = TRUE, !.success = (status = "SUCCESS"), !.sem = TRUE]
       ELSE w

Deliver(t, c) ==
  /\ c \in emit[t].to
  /\ emit' = [emit EXCEPT ![t] = Reporting(@, @.to \ {c})]
  /\ state' = [state EXCEPT ![c] = StatusCallback(@, emit[t].seq, emit[t].status)]
  /\ first' = IF mine[c] = emit[t].seq /\ first[c] = "none"
              THEN [first EXCEPT ![c] = emit[t].status] ELSE first
  /\ UNCHANGED <<calls, queue, pc, call, sendOk, mine, at, pending, batch, seqVars, recvVars, ownerVars>>

---------------------------------------------------------------------------
(* The network thread.                                                      *)

\* The calls of one of these senders whose target the thread runs.
Running(senders) == {i \in DOMAIN calls : calls[i].target = "running" /\ i[1] \in senders}

\* A message of a blocking call is taken, and its target started unless nobody waits.
TakeCall(i) ==
  /\ at = "loop" /\ Invoke(i)
  /\ at' = IF GetInvokerWaiting(i) THEN "target" ELSE "loop"
  /\ UNCHANGED <<callerVars, statusVars, seqVars, recvVars, ownerVars>>

\* The send lambda calls the target: Dispatch draws the number, and the
\* transport registers the message with the monitor before it sends.
Draw(c) ==
  LET s == lastSeq + 1
  IN  /\ lastSeq' = s /\ lastSeqNum' = s /\ mine' = [mine EXCEPT ![c] = s]
      /\ \/ /\ Accepts(KeyOf(s))
            /\ Add(KeyOf(s), MAX_RETRIES)
            /\ sendOk' = [sendOk EXCEPT ![c] = TRUE]
         \/ /\ ~Accepts(KeyOf(s)) \/ SendMayFail
            /\ sendOk' = [sendOk EXCEPT ![c] = FALSE]
            /\ UNCHANGED pending

\* Without a serializer, or when it or the stream fails, Dispatch is not called.
DrawNothing(c) ==
  /\ SendMayFail
  /\ sendOk' = [sendOk EXCEPT ![c] = FALSE]
  /\ UNCHANGED <<seqVars, mine, pending>>

Transmit(i) ==
  /\ at = "target" /\ i \in Running(Callers)
  /\ Draw(i[1]) \/ DrawNothing(i[1])
  /\ at' = "record"
  /\ UNCHANGED <<calls, queue, pc, call, state, first, batch, emit, recvVars, ownerVars>>

\* Then it records the number, or the one the channel's last message had if this
\* send drew none, and reconciles a status that came first.
RecordOnly(w, s) == [w EXCEPT !.expectedSeq = s, !.early = <<>>]   \* slip: nothing reconciled
Record(w, s) ==
  LET known == s \in DOMAIN w.early
  IN  [w EXCEPT !.expectedSeq = s, !.early = <<>>,
                !.complete = @ \/ known, !.sem = @ \/ known,
                !.success = IF known THEN w.early[s] = "SUCCESS" ELSE @]

RecordSeq(i) ==
  /\ at = "record" /\ i \in Running(Callers)
  /\ state' = [state EXCEPT ![i[1]] = Record(@, lastSeqNum)]
  /\ InvokeReturns(i) /\ at' = "loop"
  /\ UNCHANGED <<pc, call, sendOk, mine, first, statusVars, seqVars, recvVars, ownerVars>>

\* Incoming: the endpoint's handler has run, for as long as it liked.
Incoming(i) ==
  /\ at = "target" /\ i \in Running({"receiver"})
  /\ InvokeReturns(i) /\ at' = "loop"
  /\ UNCHANGED <<callerVars, statusVars, seqVars, recvVars, ownerVars>>

\* The rest of Stop: the timer is stopped and disconnected.
StopTimer(i) ==
  /\ at = "target" /\ i \in Running({"owner"})
  /\ timerOn' = FALSE /\ InvokeReturns(i) /\ at' = "loop"
  /\ UNCHANGED <<callerVars, statusVars, seqVars, recvVars, owner, ownerCall>>

\* The timer's tick, of which one at a time is under way.  A tick that would
\* find nothing pending changes nothing and is left out.
InFlight == at = "process" \/ \E n \in DOMAIN queue : queue[n] = Tick

TimerExpires ==
  /\ timerOn /\ ~InFlight /\ HasRoom /\ pending # <<>>
  /\ queue' = Append(queue, Tick)
  /\ UNCHANGED <<calls, callerVars, at, statusVars, seqVars, recvVars, ownerVars>>

TakeTick ==
  /\ at = "loop" /\ queue # <<>> /\ Head(queue) = Tick
  /\ queue' = Tail(queue) /\ at' = "process"
  /\ UNCHANGED <<calls, callerVars, statusVars, seqVars, recvVars, ownerVars>>

\* A pass of Process: any batch of pending messages may have expired.
Process ==
  /\ at = "process" /\ batch = <<>> /\ Silent("network")
  /\ \E K \in Batches : batch' = Only(pending, K) /\ pending' = Without(pending, K)
  /\ UNCHANGED <<calls, queue, callerVars, at, emit, seqVars, recvVars, ownerVars>>

\* One time-out of the batch is reported: RetryMonitor, connected first, may send again.
ReportTimeout(k) ==
  /\ k \in DOMAIN batch /\ Silent("network")
  /\ batch' = Without(batch, {k})
  /\ Emit("network", k[2], "TIMEOUT")
  /\ \/ batch[k] > 0 /\ Add(k, batch[k] - 1)
     \/ UNCHANGED pending
  /\ UNCHANGED <<calls, queue, callerVars, at, seqVars, recvVars, ownerVars>>

ProcessDone ==
  /\ at = "process" /\ batch = <<>> /\ Silent("network")
  /\ at' = "loop"
  /\ UNCHANGED <<calls, queue, callerVars, statusVars, seqVars, recvVars, ownerVars>>

---------------------------------------------------------------------------
(* RecvThread, and the owner's Stop.                                        *)

\* The transport's Receive takes an acknowledgement and reports it.  That of a
\* message no longer pending changes nothing and is left out.
ReceiveAck(s) ==
  /\ recv = "receive" /\ Silent("receive")
  /\ Matching(s) # {}
  /\ pending' = Without(pending, {Removed(s)})
  /\ Emit("receive", s, "SUCCESS")
  /\ UNCHANGED <<calls, queue, callerVars, at, batch, seqVars, recvVars, ownerVars>>

\* It takes data: the network thread is to handle it, within INVOKE_TIMEOUT.
ReceiveData ==
  /\ recv = "receive" /\ Silent("receive") /\ owner = "started" /\ received < MaxReceived
  /\ DispatchAsyncWait(NewCall("receiver"), TRUE)
  /\ recv' = "waiting" /\ recvCall' = NewCall("receiver") /\ received' = received + 1
  /\ UNCHANGED <<callerVars, at, statusVars, seqVars, ownerVars>>

IncomingReturned ==
  /\ recv = "waiting" /\ Return(recvCall)
  /\ recv' = "receive" /\ recvCall' = NoCall
  /\ UNCHANGED <<callerVars, at, statusVars, seqVars, received, ownerVars>>

IncomingTimesOut ==
  /\ recv = "waiting" /\ TimeOut(recvCall)
  /\ UNCHANGED <<callerVars, at, statusVars, seqVars, recvVars, ownerVars>>

\* The flag is seen once Receive has returned.
RecvThreadExits ==
  /\ recv = "receive" /\ Silent("receive") /\ owner # "started"
  /\ recv' = "exited"
  /\ UNCHANGED <<calls, queue, callerVars, at, statusVars, seqVars, recvCall, received, ownerVars>>

\* Stop: the flag is set and the transports are closed,
Stop ==
  /\ owner = "started" /\ owner' = "joining"
  /\ UNCHANGED <<calls, queue, callerVars, at, statusVars, seqVars, recvVars, ownerCall, timerOn>>

\* the receive thread is joined, the rest marshaled to the network thread,
StopMarshals ==
  /\ owner = "joining" /\ recv = "exited"
  /\ DispatchAsyncWait(NewCall("owner"), FALSE)
  /\ owner' = "stopping" /\ ownerCall' = NewCall("owner")
  /\ UNCHANGED <<callerVars, at, statusVars, seqVars, recvVars, timerOn>>

\* and waited for.
StopReturns ==
  /\ owner = "stopping" /\ Return(ownerCall)
  /\ owner' = "stopped" /\ ownerCall' = NoCall
  /\ UNCHANGED <<callerVars, at, statusVars, seqVars, recvVars, timerOn>>

---------------------------------------------------------------------------
CallerStep(c)  == SendReturned(c) \/ AwaitStatus(c) \/ AwaitTimesOut(c) \/ Read(c)
NetworkStep ==
  \/ \E i \in DOMAIN calls : TakeCall(i) \/ Transmit(i) \/ RecordSeq(i) \/ Incoming(i) \/ StopTimer(i)
  \/ TakeTick \/ Process \/ ProcessDone \/ \E k \in DOMAIN batch : ReportTimeout(k)
  \/ \E c \in Callers : Deliver("network", c)
ReceiveStep ==
  \/ IncomingReturned \/ IncomingTimesOut \/ RecvThreadExits
  \/ \E c \in Callers : Deliver("receive", c)
OwnerStep == StopMarshals \/ StopReturns

Next ==
  \/ \E c \in Callers : RemoteInvokeWait(c) \/ CallerStep(c)
  \/ NetworkStep \/ TimerExpires
  \/ ReceiveStep \/ ReceiveData \/ \E s \in Seqs : ReceiveAck(s)
  \/ Stop \/ OwnerStep

\* Every thread takes the steps it can take, every wait that has a time-out
\* ends, and the handlers on the network thread return.  Nothing is assumed of
\* the callers' wish to call, the peer, the timer or the owner's wish to stop.
Fairness ==
  /\ \A c \in Callers : WF_vars(CallerStep(c))
  /\ WF_vars(NetworkStep) /\ WF_vars(ReceiveStep) /\ WF_vars(OwnerStep)

Spec     == Init /\ [][Next]_vars
FairSpec == Spec /\ Fairness

---------------------------------------------------------------------------
(* Properties.                                                              *)

\* The thread runs one target at a time, and only while the sender whose
\* arguments it refers to is still inside the call, timed out or not
\* (DelegateAsyncWait.h:524; the raw pointer of RemoteDispatcher.h:342).
ArgumentsAlive ==
  \A i \in DOMAIN calls : calls[i].target = "running" =>
    /\ i \in {call[c] : c \in Callers} \cup {recvCall, ownerCall}
    /\ \A j \in DOMAIN calls : calls[j].target = "running" => j = i

\* RemoteInvokeWait, once a number was drawn for its message, returns TRUE exactly
\* if the first status of this message that reached it before it reads the result
\* was SUCCESS: no fast acknowledgement is lost, no other message's taken for it,
\* and a time-out before a retry, or an error of the transport, is final.
FirstStatusDecides ==
  \A c \in Callers :
    pc[c] = "reading" /\ mine[c] # None => (state[c].success <=> first[c] = "SUCCESS")

\* Every RemoteInvokeWait returns, whatever the peer does and also when the
\* dispatcher is stopped during it; and Stop returns.
CallsReturn ==
  [](/\ \A c \in Callers : pc[c] # "idle" => <>(pc[c] = "idle")
     /\ owner = "joining" => <>(owner = "stopped"))
===========================================================================
