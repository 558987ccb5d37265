------------------------ MODULE DelegateAsyncWait ------------------------
(***************************************************************************)
(* Blocking asynchronous calls (dmq::DelegateXAsyncWait): the sender queues *)
(* a message with a semaphore and a lock on a thread and waits, for ever or *)
(* up to a time-out; the thread invokes the target under the lock, and only *)
(* if the sender still waits.  The arguments may be references into the     *)
(* sender's frame.  One destination thread is modelled, whose full queue    *)
(* refuses (FullPolicy::DROP); what the targets do and who the senders are  *)
(* belongs to the module that uses these operators.                         *)
(***************************************************************************)
EXTENDS Integers, Sequences, Tables

CONSTANT Capacity     \* the queue bound of the destination thread

ASSUME DelegateAsyncWaitAssumption == Capacity \in Nat \ {0}

VARIABLES
  calls,   \* the DelegateAsyncWaitMsg alive: a partial function from <<sender, n>>.  The
           \* sender "waits", "gaveUp", and has "returned" once m_invokerWaiting is FALSE;
           \* the target is "queued", "running" and has "ran", or was "refused"
  queue    \* the thread's queue: names of calls, and of messages nobody waits for

HasRoom == Len(queue) < Capacity

\* A sender makes one call at a time; one it gave up may still be queued.
NewCall(by) ==
  <<by, CHOOSE n \in 1 .. Capacity + 2 :
          <<by, n>> \notin DOMAIN calls /\ \A k \in 1 .. n - 1 : <<by, k>> \in DOMAIN calls>>

\* The call is made: its message is queued, or refused and not waited for.
DispatchAsyncWait(i, timed) ==
  /\ calls' = With(calls, i, [timed  |-> timed,
                              sender |-> IF HasRoom THEN "waits" ELSE "gaveUp",
                              target |-> IF HasRoom THEN "queued" ELSE "refused"])
  /\ queue' = IF HasRoom THEN Append(queue, i) ELSE queue

\* Semaphore::Wait gives up.  The target signals the semaphore when it has run.
TimeOut(i) ==
  /\ calls[i].timed /\ calls[i].sender = "waits" /\ calls[i].target # "ran"
  /\ calls' = [calls EXCEPT ![i].sender = "gaveUp"] /\ UNCHANGED queue

NeverLocked(i) == i = <<>>           \* slip: the sender does not take the lock
\* m_lock: held by the destination thread for as long as the target runs.
Locked(i)      == calls[i].target = "running"

\* The semaphore is found signaled; the target has let go of the lock by then.
Success(i) == calls[i].sender = "waits" /\ calls[i].target = "ran"

\* The sender, which waits no more, reads the result and clears m_invokerWaiting,
\* under the lock.  The message dies with the last of the two that hold it.
Return(i) ==
  /\ Success(i) \/ (calls[i].sender = "gaveUp" /\ ~Locked(i))
  /\ calls' = IF calls[i].target \in {"refused", "ran"} THEN Without(calls, {i})
              ELSE [calls EXCEPT ![i].sender = "returned"]
  /\ UNCHANGED queue

\* The thread takes the next message; the target is invoked if the sender waits.
GetInvokerWaiting(i) == calls[i].sender # "returned"

Invoke(i) ==
  /\ queue # <<>> /\ Head(queue) = i
  /\ queue' = Tail(queue)
  /\ calls' = IF GetInvokerWaiting(i) THEN [calls EXCEPT ![i].target = "running"]
              ELSE Without(calls, {i})

\* The target returns: success is recorded and the sender signaled before the lock is let go.
InvokeReturns(i) ==
  /\ calls' = [calls EXCEPT ![i].target = "ran"] /\ UNCHANGED queue
===========================================================================
