--------------------------- MODULE StdlibThread ---------------------------
(***************************************************************************)
(* dmq::os::StdlibThread: an event loop fed through two FIFO lanes (HIGH    *)
(* and NORMAL) that are bounded together by MAX_QUEUE_SIZE.                 *)
(*                                                                         *)
(* Producers, and the worker itself from inside a handler, call            *)
(* DispatchDelegate; one owner thread calls CreateThread and ExitThread;    *)
(* a handler may call ExitThread on its own thread (a self-exit), after     *)
(* which the owner may start a new worker while the old one, detached, is   *)
(* still inside that handler.  Every worker ever started is a generation.   *)
(*                                                                         *)
(* A section of code that holds m_mutex is one action.  The code between    *)
(* two sections can be interleaved with anything.                          *)
(***************************************************************************)
EXTENDS Integers, Sequences, FiniteSets

CONSTANTS
  Producers,      \* threads other than workers that call DispatchDelegate
  QueueSizes,     \* the sizes MAX_QUEUE_SIZE may be constructed with; 0 is turned into a default
  FullPolicies,   \* the policies FULL_POLICY may be constructed with
  IdleHandler,    \* TRUE iff SetIdleHandler installed a handler
  HandlersAct,    \* TRUE iff handlers may dispatch to, or exit, their own thread
  MaxCalls,       \* bound: calls of DispatchDelegate
  MaxStarts       \* bound: calls of CreateThread that start a worker

Policies == {"FAULT", "DROP", "TIMEOUT"}
Lanes    == {"HIGH", "NORMAL"}
Gens     == 1 .. MaxStarts
Owner    == 0                       \* the thread that creates and exits the worker
Exiters  == {Owner} \cup Gens
Callers  == Producers \cup Gens
EXIT     == 0                       \* the MSG_EXIT_THREAD message; others are indices of msgs

ASSUME StdlibThreadAssumption ==
  /\ Producers \cap Int = {}
  /\ QueueSizes \subseteq Nat \ {0} /\ QueueSizes # {}
  /\ FullPolicies \subseteq Policies /\ FullPolicies # {}
  /\ IdleHandler \in BOOLEAN /\ HandlersAct \in BOOLEAN
  /\ MaxCalls \in Nat /\ MaxStarts \in Nat \ {0}

VARIABLES
  MAX_QUEUE_SIZE, FULL_POLICY,  \* fixed at construction
  m_exit,     \* the atomic exit flag
  m_thread,   \* generation held by m_thread, 0 when empty
  gen,        \* last generation started
  high,       \* m_highQueue
  normal,     \* m_normalQueue
  msgs,       \* every message ever accepted, in order: its lane and its fate
  calls,      \* DispatchDelegate calls so far
  pc,         \* where each caller is in DispatchDelegate
  wpc,        \* where each generation is in Process
  cur,        \* the message each generation is invoking, 0 if none
  selfExit,   \* Process's local, set through t_self_exit
  op,         \* where each exiter is in ExitThread (and the owner in CreateThread)
  discarded,  \* ExitThread's discardedHigh and discardedNormal
  faulted     \* DMQ_ASSERT has stopped the program

queueVars  == <<high, normal, msgs>>
callVars   == <<calls, pc>>
workerVars == <<wpc, cur, selfExit>>
ownerVars  == <<m_exit, m_thread, gen>>
exitVars   == <<op, discarded>>
configVars == <<MAX_QUEUE_SIZE, FULL_POLICY>>
vars == <<configVars, ownerVars, queueVars, callVars, workerVars, exitVars, faulted>>

---------------------------------------------------------------------------
Size  == Len(high) + Len(normal)
OverFull == Size > MAX_QUEUE_SIZE          \* slip: one message too many
Full  == Size >= MAX_QUEUE_SIZE
Empty == high = <<>> /\ normal = <<>>

Elems(q) == {q[i] : i \in DOMAIN q}

\* The fates of the messages in ids become f.
Mark(ids, f) == [i \in DOMAIN msgs |-> IF i \in ids THEN [msgs[i] EXCEPT !.fate = f] ELSE msgs[i]]

ReusedId == Len(msgs)                    \* slip: an id that is taken
NewId == Len(msgs) + 1

Nothing  == {}                           \* slip: leftovers forgotten
\* The messages DISCARD takes off the lanes, and those the last section of
\* ExitThread still finds there.
Discardable == Elems(high \o normal)
Leftover    == Elems(high \o normal) \ {EXIT}

\* m_cvNotFull.notify_all() and notify_one().
NotifyAll == pc' = [c \in Callers |-> IF pc[c] = "waiting" THEN "woken" ELSE pc[c]]
NoNotify  == UNCHANGED pc                \* slip: room made and nobody told
NotifyOne ==
  \/ (\A c \in Callers : pc[c] # "waiting") /\ UNCHANGED pc
  \/ \E c \in Callers : pc[c] = "waiting" /\ pc' = [pc EXCEPT ![c] = "woken"]

\* A handler of generation g is running and is not inside a call of this class.
HandlerFree(g) ==
  wpc[g] \in {"starting", "handling", "idling"} /\ pc[g] = "idle" /\ op[g] = "none"

Return(c) == pc' = [pc EXCEPT ![c] = "idle"]

---------------------------------------------------------------------------
Init ==
  /\ MAX_QUEUE_SIZE \in QueueSizes /\ FULL_POLICY \in FullPolicies
  /\ m_exit = FALSE /\ m_thread = 0 /\ gen = 0
  /\ high = <<>> /\ normal = <<>> /\ msgs = <<>>
  /\ calls = 0
  /\ pc = [c \in Callers |-> "idle"]
  /\ wpc = [g \in Gens |-> "none"] /\ cur = [g \in Gens |-> 0]
  /\ selfExit = [g \in Gens |-> FALSE]
  /\ op = [e \in Exiters |-> "none"] /\ discarded = [e \in Exiters |-> {}]
  /\ faulted = FALSE

---------------------------------------------------------------------------
(* CreateThread: m_exit is cleared before, and outside, the lock.           *)

CreateThread ==
  /\ op[Owner] = "none" /\ m_thread = 0 /\ gen < MaxStarts
  /\ m_exit' = FALSE
  /\ op' = [op EXCEPT ![Owner] = "emplace"]
  /\ UNCHANGED <<m_thread, gen, queueVars, callVars, workerVars, discarded, faulted>>

EmplaceThread ==
  /\ op[Owner] = "emplace"
  /\ gen' = gen + 1 /\ m_thread' = gen + 1
  /\ wpc' = [wpc EXCEPT ![gen + 1] = "starting"]
  /\ op' = [op EXCEPT ![Owner] = "started"]
  /\ UNCHANGED <<m_exit, queueVars, callVars, cur, selfExit, discarded, faulted>>

\* m_threadStartFuture->get()
CreateThreadReturns ==
  /\ op[Owner] = "started" /\ wpc[gen] # "starting"
  /\ op' = [op EXCEPT ![Owner] = "none"]
  /\ UNCHANGED <<ownerVars, queueVars, callVars, workerVars, discarded, faulted>>

---------------------------------------------------------------------------
(* DispatchDelegate, called by c.                                           *)

\* Entry and the early check of m_exit.
Dispatch(c) ==
  /\ pc[c] = "idle" /\ calls < MaxCalls
  /\ c \in Gens => HandlersAct /\ HandlerFree(c)
  /\ calls' = calls + 1
  /\ IF m_exit THEN UNCHANGED pc ELSE pc' = [pc EXCEPT ![c] = "exitChecked"]
  /\ UNCHANGED <<ownerVars, queueVars, workerVars, exitVars, faulted>>

\* m_thread.has_value(), without the lock: throws when the thread is gone.
CheckThread(c) ==
  /\ pc[c] = "exitChecked"
  /\ pc' = [pc EXCEPT ![c] = IF m_thread = 0 THEN "threw" ELSE "checked"]
  /\ UNCHANGED <<ownerVars, queueVars, calls, workerVars, exitVars, faulted>>

CatchThrow(c) ==
  /\ pc[c] = "threw" /\ Return(c)
  /\ UNCHANGED <<ownerVars, queueVars, calls, workerVars, exitVars, faulted>>

NeverRefused == FALSE                    \* slip: m_exit not checked again under the lock
Refused == m_exit
\* The end of the locked section: re-check m_exit, then push.  l is the priority
\* of the message, which nothing looks at before.
PushOrRefuse(c) ==
  /\ Return(c)
  /\ IF Refused THEN UNCHANGED queueVars
     ELSE \E l \in Lanes :
            /\ msgs' = Append(msgs, [lane |-> l, fate |-> "queued"])
            /\ IF l = "HIGH" THEN high' = Append(high, NewId) /\ UNCHANGED normal
                             ELSE normal' = Append(normal, NewId) /\ UNCHANGED high
  /\ UNCHANGED <<ownerVars, calls, workerVars, exitVars, faulted>>

\* The locked section finds room, or does not have to wait for it because the
\* predicate of the wait is already true.
Push(c) ==
  /\ pc[c] = "checked"
  /\ ~Full \/ (FULL_POLICY = "TIMEOUT" /\ m_exit)
  /\ PushOrRefuse(c)

DropFull(c) ==
  /\ pc[c] = "checked" /\ Full /\ FULL_POLICY = "DROP"
  /\ Return(c)
  /\ UNCHANGED <<ownerVars, queueVars, calls, workerVars, exitVars, faulted>>

FaultFull(c) ==
  /\ pc[c] = "checked" /\ Full /\ FULL_POLICY = "FAULT"
  /\ faulted' = TRUE
  /\ UNCHANGED <<ownerVars, queueVars, callVars, workerVars, exitVars>>

WaitNotFull(c) ==
  /\ pc[c] = "checked" /\ Full /\ FULL_POLICY = "TIMEOUT" /\ ~m_exit
  /\ pc' = [pc EXCEPT ![c] = "waiting"]
  /\ UNCHANGED <<ownerVars, queueVars, calls, workerVars, exitVars, faulted>>

\* A notified caller re-evaluates the predicate and goes back to wait if it is false.
WaitAgain(c) ==
  /\ pc[c] = "woken" /\ Full /\ ~m_exit
  /\ pc' = [pc EXCEPT ![c] = "waiting"]
  /\ UNCHANGED <<ownerVars, queueVars, calls, workerVars, exitVars, faulted>>

\* The predicate holds when it is evaluated: after a notification, a spurious
\* wake-up or the timeout.
Resume(c) ==
  /\ pc[c] \in {"waiting", "woken"} /\ (~Full \/ m_exit)
  /\ PushOrRefuse(c)

\* slip: a wait without a timeout
NoTimeout(c) == FALSE /\ c \in Callers

\* m_dispatchTimeout has passed and the predicate is still false.
TimeoutFull(c) ==
  /\ pc[c] \in {"waiting", "woken"} /\ Full /\ ~m_exit
  /\ Return(c)
  /\ UNCHANGED <<ownerVars, queueVars, calls, workerVars, exitVars, faulted>>

---------------------------------------------------------------------------
(* Process, run by generation g.  Its return on m_exit with both lanes empty *)
(* has no action: ExitMessagePending says that it is never taken.           *)

\* slip: the loop goes on after a self-exit
KeepsLooping(g) == "loop"

\* Where a worker goes when a handler returns: selfExit is tested first.
AfterHandler(g) == IF selfExit[g] THEN "exiting" ELSE "loop"

StartHandlerDone(g) ==
  /\ wpc[g] = "starting" /\ HandlerFree(g)
  /\ wpc' = [wpc EXCEPT ![g] = AfterHandler(g)]
  /\ UNCHANGED <<ownerVars, queueVars, callVars, cur, selfExit, exitVars, faulted>>

NormalFirst == normal = <<>>             \* slip: lanes swapped
\* The lane Process pops: HIGH whenever it is not empty.
TakesHigh == high # <<>>

\* Pop the highest-priority message, make room known, and act on it.
Take(g) ==
  /\ wpc[g] = "loop" /\ ~Empty
  /\ LET msg == IF TakesHigh THEN Head(high) ELSE Head(normal)
     IN  /\ IF TakesHigh THEN high' = Tail(high) /\ UNCHANGED normal
                         ELSE normal' = Tail(normal) /\ UNCHANGED high
         /\ msgs' = Mark({msg}, "running")
         /\ cur' = [cur EXCEPT ![g] = msg]
         /\ wpc' = [wpc EXCEPT ![g] = IF msg = EXIT THEN "exiting" ELSE "handling"]
  /\ NotifyOne
  /\ UNCHANGED <<ownerVars, calls, selfExit, exitVars, faulted>>

HandlerDone(g) ==
  /\ wpc[g] = "handling" /\ HandlerFree(g)
  /\ msgs' = Mark({cur[g]}, "invoked")
  /\ cur' = [cur EXCEPT ![g] = 0]
  /\ wpc' = [wpc EXCEPT ![g] = AfterHandler(g)]
  /\ UNCHANGED <<ownerVars, high, normal, callVars, selfExit, exitVars, faulted>>

\* The wait ends with empty queues, no exit requested and the idle handler due.
IdleDue(g) ==
  /\ IdleHandler /\ wpc[g] = "loop" /\ Empty /\ ~m_exit
  /\ wpc' = [wpc EXCEPT ![g] = "idleDue"]
  /\ UNCHANGED <<ownerVars, queueVars, callVars, cur, selfExit, exitVars, faulted>>

\* idle.Run(), after the lock has been released.
RunIdle(g) ==
  /\ wpc[g] = "idleDue"
  /\ wpc' = [wpc EXCEPT ![g] = "idling"]
  /\ UNCHANGED <<ownerVars, queueVars, callVars, cur, selfExit, exitVars, faulted>>

IdleHandlerDone(g) ==
  /\ wpc[g] = "idling" /\ HandlerFree(g)
  /\ wpc' = [wpc EXCEPT ![g] = AfterHandler(g)]
  /\ UNCHANGED <<ownerVars, queueVars, callVars, cur, selfExit, exitVars, faulted>>

\* ThreadExitGuard runs the exit handler as Process returns.
ExitHandlerDone(g) ==
  /\ wpc[g] = "exiting"
  /\ wpc' = [wpc EXCEPT ![g] = "dead"]
  /\ UNCHANGED <<ownerVars, queueVars, callVars, cur, selfExit, exitVars, faulted>>

---------------------------------------------------------------------------
(* ExitThread, called by the owner or, on its own thread, by a handler.      *)
(* Calls of ExitThread on one object do not overlap each other.             *)

MayExit(e) ==
  /\ m_thread # 0                        \* otherwise ExitThread returns at once
  /\ op[m_thread] = "none"
  /\ \/ e = Owner /\ op[Owner] = "none"
     \/ e = m_thread /\ op[Owner] \in {"none", "started"} /\ HandlersAct /\ HandlerFree(e)

ExitRequest(e) ==
  /\ MayExit(e)
  /\ m_exit' = TRUE
  /\ \/ normal' = Append(normal, EXIT) /\ UNCHANGED <<high, msgs, discarded>>      \* DRAIN
     \/ /\ high' = <<>> /\ normal' = <<EXIT>>                                     \* DISCARD
        /\ msgs' = Mark(Discardable, "removed")
        /\ discarded' = [discarded EXCEPT ![e] = Discardable]
  /\ NotifyAll
  /\ op' = [op EXCEPT ![e] = "cancel"]
  /\ UNCHANGED <<m_thread, gen, calls, workerVars, faulted>>

CancelDiscarded(e) ==
  /\ op[e] \in {"cancel", "cancelRest"}
  /\ msgs' = Mark(discarded[e], "canceled")
  /\ discarded' = [discarded EXCEPT ![e] = {}]
  /\ op' = [op EXCEPT ![e] = IF op[e] = "cancel" THEN "join" ELSE "none"]
  /\ UNCHANGED <<ownerVars, high, normal, callVars, workerVars, faulted>>

\* The owner joins: it waits for Process, exit handler included, to return.
Join ==
  /\ op[Owner] = "join" /\ wpc[m_thread] = "dead"
  /\ op' = [op EXCEPT ![Owner] = "reset"]
  /\ UNCHANGED <<ownerVars, queueVars, callVars, workerVars, discarded, faulted>>

\* slip: no test for being on the thread itself, which then joins itself
JoinsItself(g) ==
  /\ op[g] = "join" /\ wpc[g] = "dead"
  /\ op' = [op EXCEPT ![g] = "reset"]
  /\ UNCHANGED <<ownerVars, queueVars, callVars, workerVars, discarded, faulted>>

\* A handler that exits its own thread detaches instead.
Detach(g) ==
  /\ op[g] = "join"
  /\ selfExit' = [selfExit EXCEPT ![g] = TRUE]
  /\ op' = [op EXCEPT ![g] = "reset"]
  /\ UNCHANGED <<ownerVars, queueVars, callVars, wpc, cur, discarded, faulted>>

ResetThread(e) ==
  /\ op[e] = "reset"
  /\ m_thread' = 0
  /\ high' = <<>> /\ normal' = <<>>
  /\ msgs' = Mark(Leftover, "removed")
  /\ discarded' = [discarded EXCEPT ![e] = Leftover]
  /\ NotifyAll
  /\ op' = [op EXCEPT ![e] = "cancelRest"]
  /\ UNCHANGED <<m_exit, gen, calls, workerVars, faulted>>

---------------------------------------------------------------------------
DispatchStep(c) ==
  \/ CheckThread(c) \/ CatchThrow(c)
  \/ Push(c) \/ DropFull(c) \/ FaultFull(c) \/ WaitNotFull(c)
  \/ WaitAgain(c) \/ Resume(c) \/ TimeoutFull(c)

WorkerStep(g) ==
  \/ StartHandlerDone(g) \/ Take(g) \/ HandlerDone(g)
  \/ RunIdle(g) \/ IdleHandlerDone(g) \/ ExitHandlerDone(g)

OwnerStep == EmplaceThread \/ CreateThreadReturns \/ Join

ExitStep(e) == CancelDiscarded(e) \/ ResetThread(e)

\* DMQ_ASSERT aborts the program: nothing happens after it.
Running == ~faulted /\ UNCHANGED configVars

Next ==
  /\ Running
  /\ \/ CreateThread \/ OwnerStep
     \/ \E c \in Callers : Dispatch(c) \/ DispatchStep(c)
     \/ \E g \in Gens : WorkerStep(g) \/ IdleDue(g) \/ Detach(g)
     \/ \E e \in Exiters : ExitRequest(e) \/ ExitStep(e)

(***************************************************************************)
(* The scheduler runs every thread that can run, and handlers terminate.    *)
(* Whether a thread calls DispatchDelegate, CreateThread or ExitThread is    *)
(* its own affair, and nothing makes the idle handler run.                  *)
(***************************************************************************)
OwnerThread     == OwnerStep \/ ExitStep(Owner)
WorkerThread(g) == WorkerStep(g) \/ Detach(g) \/ DispatchStep(g) \/ ExitStep(g)

Fairness ==
  /\ WF_vars(Running /\ OwnerThread)
  /\ \A p \in Producers : WF_vars(Running /\ DispatchStep(p))
  /\ \A g \in Gens : WF_vars(Running /\ WorkerThread(g))

Safety == Init /\ [][Next]_vars
Spec   == Safety /\ Fairness

---------------------------------------------------------------------------
Message == [lane : Lanes, fate : {"queued", "running", "invoked", "removed", "canceled"}]
Ids     == 1 .. Len(msgs)

TypeOK ==
  /\ MAX_QUEUE_SIZE \in QueueSizes /\ FULL_POLICY \in FullPolicies
  /\ m_exit \in BOOLEAN /\ m_thread \in 0 .. MaxStarts /\ gen \in 0 .. MaxStarts
  /\ high \in Seq(Nat \ {EXIT}) /\ normal \in Seq(Nat) /\ msgs \in Seq(Message)
  /\ calls \in 0 .. MaxCalls
  /\ pc \in [Callers -> {"idle", "exitChecked", "threw", "checked", "waiting", "woken"}]
  /\ wpc \in [Gens -> {"none", "starting", "loop", "handling", "idleDue", "idling", "exiting", "dead"}]
  /\ cur \in [Gens -> Nat] /\ selfExit \in [Gens -> BOOLEAN]
  /\ op \in [Exiters -> {"none", "emplace", "started", "cancel", "join", "reset", "cancelRest"}]
  /\ discarded \in [Exiters -> SUBSET Nat]
  /\ faulted \in BOOLEAN

(* MAX_QUEUE_SIZE bounds the accepted messages over both lanes; only the     *)
(* exit message may go beyond it (the bypass in ExitThread).                *)
QueueBounded ==
  /\ Cardinality({i \in Ids : msgs[i].fate = "queued"}) <= MAX_QUEUE_SIZE
  /\ Size <= MAX_QUEUE_SIZE + 1

(* When the owner has joined the worker nothing is left in the lanes: the    *)
(* "Normally empty" of ExitThread.                                          *)
JoinedMeansDrained == op[Owner] = "reset" => Empty

(* A worker in its loop never finds m_exit set and nothing to take: the exit *)
(* message is still there, behind everything that has to be drained.        *)
ExitMessagePending ==
  \A g \in Gens : wpc[g] \in {"loop", "idleDue"} /\ m_exit /\ g = m_thread =>
    EXIT \in Elems(normal) /\ normal[Len(normal)] = EXIT

(* At most one generation invokes messages, not counting one that has exited *)
(* itself and is about to return; and that one never takes another message.  *)
Active(g) == wpc[g] \in {"starting", "loop", "handling", "idleDue", "idling"} /\ ~selfExit[g]
OneWorker ==
  /\ \A g, h \in Gens : Active(g) /\ Active(h) => g = h
  /\ \A g \in Gens : Active(g) => g = m_thread
  /\ \A g \in Gens : selfExit[g] => wpc[g] \notin {"loop", "idleDue"}

(* Wake-ups of callers that wait for room are not lost: as long as one of    *)
(* them still waits, each free slot has a notified caller on its way.       *)
Waiting == {c \in Callers : pc[c] = "waiting"}
Woken   == {c \in Callers : pc[c] = "woken"}
NoLostWakeup ==
  Waiting # {} => ~m_exit /\ MAX_QUEUE_SIZE - Size <= Cardinality(Woken)

(* Once ExitThread has returned to the owner no handler of the thread runs,  *)
(* apart from one that exited its own thread, and no message is left over.   *)
StoppedMeansQuiet ==
  (op[Owner] = "none" /\ m_thread = 0 /\ m_exit /\ \A g \in Gens : op[g] = "none") =>
    /\ \A g \in Gens : wpc[g] \in {"none", "dead"} \/ selfExit[g]
    /\ \A i \in Ids : \/ msgs[i].fate \in {"invoked", "canceled"}
                       \/ \E g \in Gens : cur[g] = i /\ selfExit[g]

(* Every call of DispatchDelegate returns, whatever the queue does.          *)
DispatchReturns == \A c \in Callers : pc[c] # "idle" ~> pc[c] = "idle"

(* ExitThread returns: the exit message is never refused and never overtaken *)
(* for ever.                                                                *)
ExitReturns == \A e \in Exiters : op[e] # "none" ~> op[e] = "none"

(* A HIGH message is invoked or canceled eventually, and so is every message *)
(* once exit is requested.  (A NORMAL message may wait behind HIGH ones as   *)
(* long as those keep coming.)                                              *)
Resolved(i) == i \in Ids /\ msgs[i].fate \in {"invoked", "canceled"}
MessagesResolved ==
  \A i \in 1 .. MaxCalls :
    (i \in Ids /\ (msgs[i].lane = "HIGH" \/ m_exit)) ~> Resolved(i)

(* The two lanes, the worker and the shutdown implement one serial executor. *)
Executor == INSTANCE Executor WITH
  msgs <- [i \in DOMAIN msgs |->
            [msgs[i] EXCEPT !.fate = IF @ = "removed" THEN "canceled" ELSE @]]
ImplementsExecutor == Executor!Spec
===========================================================================
