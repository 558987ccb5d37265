-------------------------- MODULE FreeRTOSThread --------------------------
(***************************************************************************)
(* dmq::os::FreeRTOSThread: a task that serves a FreeRTOSDelegateQueue.      *)
(*                                                                         *)
(* The threads, the generations of workers and the calls they make are      *)
(* those of StdlibThread.  There is no lock: every call of a FreeRTOS        *)
(* primitive is an action of its own.  A task that uses a queue or a         *)
(* semaphore that ExitThread has deleted makes the behaviour of the program  *)
(* undefined; the model records it in misused and goes no further.          *)
(***************************************************************************)
EXTENDS FreeRTOSDelegateQueue, FiniteSets

CONSTANTS
  Producers,      \* tasks other than workers that call DispatchDelegate
  FullPolicies,   \* the policies FULL_POLICY may be constructed with
  Wakes,          \* whether Receive may time out: there is an idle handler or a watchdog
  HandlersAct,    \* TRUE iff handlers may dispatch to their own thread
  SelfExits,      \* the handlers that may exit their own thread
  MaxCalls,       \* bound: calls of DispatchDelegate and of CreateThread together
  MaxStarts       \* bound: calls of CreateThread that start a worker

Policies == {"FAULT", "DROP", "TIMEOUT"}
Gens     == 1 .. MaxStarts
Owner    == 0
Exiters  == {Owner} \cup Gens
Callers  == Producers \cup Gens
Tasks    == Callers \cup {Owner}
EXIT     == 0                       \* the MSG_EXIT_THREAD message; others are indices of msgs

ASSUME FreeRTOSThreadAssumption ==
  /\ IsFiniteSet(Producers) /\ Producers \cap Int = {}
  /\ FullPolicies \subseteq Policies /\ FullPolicies # {}
  /\ Wakes \subseteq BOOLEAN /\ Wakes # {} /\ HandlersAct \in BOOLEAN
  /\ SelfExits \subseteq {"starting", "handling", "idling"}
  /\ MaxCalls \in Nat /\ MaxStarts \in Nat \ {0}

VARIABLES
  FULL_POLICY, wakes,           \* fixed at construction
  m_exit, m_discard,            \* the atomic flags
  m_thread,                     \* generation held by m_thread, 0 when null
  gen,                          \* last generation started
  m_exitSem,                    \* TRUE iff the binary semaphore has been given
  m_selfExitPtr,                \* the generation whose local selfExit it points to, 0 when null
  msgs,                         \* every message that entered a lane: its lane and its fate
  promised,                     \* messages accepted before an ExitThread(DRAIN)
  calls,                        \* DispatchDelegate calls so far
  pc, to,                       \* where each task is in DispatchDelegate or Send, and on which lane
  wpc, cur, selfExit,           \* Run of each generation: its place, its message, its local
  op,                           \* where each exiter is in ExitThread or CreateThread
  faulted,                      \* DMQ_ASSERT has stopped the program
  misused                       \* a deleted queue or semaphore has been used

configVars == <<FULL_POLICY, wakes>>
flagVars   == <<m_exit, m_discard, m_thread, gen, m_exitSem, m_selfExitPtr>>
msgVars    == <<msgs, promised>>
callVars   == <<calls, pc, to>>
workerVars == <<wpc, cur, selfExit>>
vars == <<configVars, queueVars, flagVars, msgVars, callVars, workerVars, op, faulted, misused>>

---------------------------------------------------------------------------
\* The fates of the messages in ids become f.
Mark(ids, f) == [i \in DOMAIN msgs |-> IF i \in ids THEN [msgs[i] EXCEPT !.fate = f] ELSE msgs[i]]

NewId       == Len(msgs) + 1
LanedIds    == {high[i] : i \in DOMAIN high} \cup {normal[i] : i \in DOMAIN normal}

\* A handler of generation g is running and is not inside a call of this class.
HandlerFree(g) ==
  wpc[g] \in {"starting", "handling", "idling"} /\ pc[g] = "idle" /\ op[g] = "none"

Goto(c, place) == pc' = [pc EXCEPT ![c] = place]
Return(c)      == Goto(c, "idle") /\ to' = [to EXCEPT ![c] = "NORMAL"]
WGoto(g, place) == wpc' = [wpc EXCEPT ![g] = place]

Misuse ==
  /\ misused' = TRUE
  /\ UNCHANGED <<queueVars, flagVars, msgVars, callVars, workerVars, op, faulted>>

---------------------------------------------------------------------------
Init ==
  /\ FULL_POLICY \in FullPolicies /\ wakes \in Wakes
  /\ QueueInit
  /\ m_exit = FALSE /\ m_discard = FALSE /\ m_thread = 0 /\ gen = 0
  /\ m_exitSem = FALSE /\ m_selfExitPtr = 0
  /\ msgs = <<>> /\ promised = {}
  /\ calls = 0 /\ pc = [c \in Tasks |-> "idle"] /\ to = [c \in Tasks |-> "NORMAL"]
  /\ wpc = [g \in Gens |-> "none"] /\ cur = [g \in Gens |-> EXIT]
  /\ selfExit = [g \in Gens |-> FALSE]
  /\ op = [e \in Exiters |-> "none"]
  /\ faulted = FALSE /\ misused = FALSE

---------------------------------------------------------------------------
(* CreateThread.  The owner calls it when no call of DispatchDelegate made   *)
(* on the worker before is still under way.  m_thread is null only when      *)
(* there is no queue.                                                       *)

CreateThread ==
  /\ op[Owner] = "none" /\ m_thread = 0 /\ gen < MaxStarts
  /\ \A c \in Tasks : pc[c] = "idle"
  /\ Create
  /\ m_exit' = FALSE /\ m_discard' = FALSE
  /\ gen' = gen + 1 /\ m_thread' = gen + 1 /\ m_selfExitPtr' = gen + 1
  /\ WGoto(gen + 1, "starting")
  /\ op' = [op EXCEPT ![Owner] = "started"]
  /\ UNCHANGED <<m_exitSem, msgVars, callVars, cur, selfExit, faulted, misused>>

\* xSemaphoreTake(m_startSem)
CreateThreadReturns ==
  /\ op[Owner] = "started" /\ wpc[gen] # "starting"
  /\ op' = [op EXCEPT ![Owner] = "none"]
  /\ UNCHANGED <<queueVars, flagVars, msgVars, callVars, workerVars, faulted, misused>>

---------------------------------------------------------------------------
(* DispatchDelegate, called by c: the check of the handles, the push, the    *)
(* doorbell.  m_exit is not looked at.                                      *)

Dispatch(c) ==
  /\ pc[c] = "idle" /\ calls + gen < MaxCalls
  /\ c \in Gens => HandlersAct /\ HandlerFree(c)
  /\ calls' = calls + 1
  /\ \/ ~created /\ UNCHANGED <<pc, to>>
     \/ created /\ Goto(c, "checked") /\ \E l \in Lanes : to' = [to EXCEPT ![c] = l]
  /\ UNCHANGED <<queueVars, flagVars, msgVars, workerVars, op, faulted, misused>>

\* The lane has room: the message is in it before the doorbell rings.
Push(c) ==
  /\ pc[c] \in {"checked", "waiting"} /\ created /\ HasRoom(to[c])
  /\ IF c = Owner THEN PushBack("NORMAL", EXIT) /\ UNCHANGED msgs
     ELSE PushBack(to[c], NewId) /\ msgs' = Append(msgs, [lane |-> to[c], fate |-> "queued"])
  /\ Goto(c, "ringing")
  /\ UNCHANGED <<flagVars, promised, calls, to, workerVars, op, faulted, misused>>

RingBell(c) ==
  /\ pc[c] = "ringing" /\ created
  /\ Ring
  /\ Return(c)
  /\ UNCHANGED <<flagVars, msgVars, calls, workerVars, op, faulted, misused>>

\* The lane is full: DROP and FAULT do not wait, the exit message waits for ever.
DropFull(c) ==
  /\ pc[c] = "checked" /\ created /\ ~HasRoom(to[c]) /\ FULL_POLICY = "DROP" /\ c # Owner
  /\ Return(c)
  /\ UNCHANGED <<queueVars, flagVars, msgVars, calls, workerVars, op, faulted, misused>>

FaultFull(c) ==
  /\ pc[c] = "checked" /\ created /\ ~HasRoom(to[c]) /\ FULL_POLICY = "FAULT" /\ c # Owner
  /\ faulted' = TRUE
  /\ UNCHANGED <<queueVars, flagVars, msgVars, callVars, workerVars, op, misused>>

WaitNotFull(c) ==
  /\ pc[c] = "checked" /\ created /\ ~HasRoom(to[c]) /\ (FULL_POLICY = "TIMEOUT" \/ c = Owner)
  /\ Goto(c, "waiting")
  /\ UNCHANGED <<queueVars, flagVars, msgVars, calls, to, workerVars, op, faulted, misused>>

TimeoutFull(c) ==
  /\ pc[c] = "waiting" /\ ~HasRoom(to[c]) /\ c # Owner
  /\ Return(c)
  /\ UNCHANGED <<queueVars, flagVars, msgVars, calls, workerVars, op, faulted, misused>>

\* The handles have become null since they were checked.
SendToNothing(c) == pc[c] \in {"checked", "ringing"} /\ ~created /\ Misuse

---------------------------------------------------------------------------
(* Run, by generation g.                                                    *)

\* while (!selfExit)
Loop(g) == IF selfExit[g] THEN "exiting" ELSE "loop"

StartHandlerDone(g) ==
  /\ wpc[g] = "starting" /\ HandlerFree(g)
  /\ WGoto(g, Loop(g))
  /\ UNCHANGED <<queueVars, flagVars, msgVars, callVars, cur, selfExit, op, faulted, misused>>

\* Receive gets a token; the HIGH lane is tried first.
Receive(g) ==
  /\ wpc[g] = "loop" /\ created
  /\ TakeBell
  /\ \/ high = <<>> /\ WGoto(g, "lookNormal") /\ UNCHANGED <<cur, msgs>>
     \/ /\ high # <<>> /\ WGoto(g, "popped")
        /\ cur' = [cur EXCEPT ![g] = Head(high)] /\ msgs' = Mark({Head(high)}, "taken")
  /\ UNCHANGED <<flagVars, promised, callVars, selfExit, op, faulted, misused>>

\* The NORMAL lane is tried next: a message, or a token that was worth nothing.
ReceiveNormal(g) ==
  /\ wpc[g] = "lookNormal"
  /\ PopNormal
  /\ IF normal = <<>> THEN WGoto(g, "timedOut") /\ UNCHANGED <<cur, msgs>>
     ELSE /\ WGoto(g, "popped")
          /\ cur' = [cur EXCEPT ![g] = Head(normal)]
          /\ msgs' = Mark({Head(normal)}, "taken")
  /\ UNCHANGED <<flagVars, promised, callVars, selfExit, op, faulted, misused>>

ReceiveTimesOut(g) ==
  /\ wakes /\ wpc[g] = "loop" /\ created /\ bell = 0
  /\ WGoto(g, "timedOut")
  /\ UNCHANGED <<queueVars, flagVars, msgVars, callVars, cur, selfExit, op, faulted, misused>>

\* Without a message m_exit ends the loop; otherwise the idle handler may be due.
ExitNoticed(g) ==
  /\ wpc[g] = "timedOut" /\ m_exit
  /\ WGoto(g, "exiting")
  /\ UNCHANGED <<queueVars, flagVars, msgVars, callVars, cur, selfExit, op, faulted, misused>>

RunIdle(g) ==
  /\ wpc[g] = "timedOut" /\ ~m_exit
  /\ \E place \in {"loop", "idling"} : WGoto(g, place)
  /\ UNCHANGED <<queueVars, flagVars, msgVars, callVars, cur, selfExit, op, faulted, misused>>

IdleHandlerDone(g) ==
  /\ wpc[g] = "idling" /\ HandlerFree(g)
  /\ WGoto(g, Loop(g))
  /\ UNCHANGED <<queueVars, flagVars, msgVars, callVars, cur, selfExit, op, faulted, misused>>

\* The message is the exit message, is discarded, or is invoked.
Act(g) ==
  /\ wpc[g] = "popped"
  /\ \/ cur[g] = EXIT /\ WGoto(g, "exiting") /\ UNCHANGED <<cur, msgs>>
     \/ /\ cur[g] # EXIT /\ m_discard
        /\ msgs' = Mark({cur[g]}, "canceled") /\ cur' = [cur EXCEPT ![g] = EXIT] /\ WGoto(g, "loop")
     \/ cur[g] # EXIT /\ ~m_discard /\ msgs' = Mark({cur[g]}, "running") /\ WGoto(g, "handling") /\ UNCHANGED cur
  /\ UNCHANGED <<queueVars, flagVars, promised, callVars, selfExit, op, faulted, misused>>

\* Invoke returns.  After a self-exit Run clears m_selfExitPtr and returns,
\* without giving m_exitSem.
HandlerDone(g) ==
  /\ wpc[g] = "handling" /\ HandlerFree(g)
  /\ msgs' = Mark({cur[g]}, "invoked") /\ cur' = [cur EXCEPT ![g] = EXIT]
  /\ IF selfExit[g] THEN WGoto(g, "dead") /\ m_selfExitPtr' = 0
                    ELSE WGoto(g, "loop") /\ UNCHANGED m_selfExitPtr
  /\ UNCHANGED <<queueVars, m_exit, m_discard, m_thread, gen, m_exitSem, promised, callVars, selfExit, op, faulted, misused>>

\* The loop has ended: the exit handler, the signal to ExitThread, and last the
\* pointer, which may be the next worker's by then.
SignalExit(g) ==
  /\ wpc[g] = "exiting"
  /\ m_exitSem' = TRUE
  /\ WGoto(g, "leaving")
  /\ UNCHANGED <<queueVars, m_exit, m_discard, m_thread, gen, m_selfExitPtr, msgVars, callVars, cur, selfExit, op, faulted, misused>>

Leave(g) ==
  /\ wpc[g] = "leaving"
  /\ m_selfExitPtr' = 0
  /\ WGoto(g, "dead")
  /\ UNCHANGED <<queueVars, m_exit, m_discard, m_thread, gen, m_exitSem, msgVars, callVars, cur, selfExit, op, faulted, misused>>

\* A worker that was never told of its exit goes on to receive from no queue.
ReceiveFromNothing(g) == wpc[g] \in {"loop", "lookNormal"} /\ ~created /\ Misuse

---------------------------------------------------------------------------
(* ExitThread, called by the owner or, on its own thread, by a handler.      *)
(* Calls of ExitThread on one object do not overlap each other.             *)

MayExit(e) ==
  /\ created                             \* otherwise ExitThread returns at once
  /\ m_thread # 0 /\ op[m_thread] = "none"
  /\ \/ e = Owner /\ op[Owner] = "none"
     \/ e = m_thread /\ op[Owner] \in {"none", "started"} /\ HandlerFree(e) /\ wpc[e] \in SelfExits

\* Messages that DispatchDelegate has accepted, its call having returned.
Ringing(lane) == {c \in Callers : pc[c] = "ringing" /\ to[c] = lane}
Accepted == {i \in DOMAIN msgs : msgs[i].fate = "queued" /\ Ringing(msgs[i].lane) = {}}

\* The flags are set; the owner then sends the exit message, a handler marks its frame.
ExitRequest(e) ==
  /\ MayExit(e)
  /\ m_exit' = TRUE
  /\ \E discard \in BOOLEAN :
       /\ m_discard' = discard
       /\ promised' = IF discard \/ e # Owner THEN promised ELSE promised \cup Accepted
  /\ IF e = Owner
     THEN Goto(Owner, "checked") /\ op' = [op EXCEPT ![Owner] = "join"] /\ UNCHANGED selfExit
     ELSE /\ op' = [op EXCEPT ![e] = "drain"]
          /\ selfExit' = [g \in Gens |-> selfExit[g] \/ g = m_selfExitPtr]
          /\ UNCHANGED pc
  /\ UNCHANGED <<queueVars, m_thread, gen, m_exitSem, m_selfExitPtr, msgs, calls, to, wpc, cur, faulted, misused>>

\* slip: the owner does not wait for m_exitSem
JoinsNothing ==
  /\ op[Owner] = "join" /\ pc[Owner] = "idle"
  /\ m_exitSem' = FALSE
  /\ op' = [op EXCEPT ![Owner] = "drain"]
  /\ UNCHANGED <<queueVars, m_exit, m_discard, m_thread, gen, m_selfExitPtr, msgVars, callVars, workerVars, faulted, misused>>

\* The exit message has been sent; xSemaphoreTake(m_exitSem) waits for Run.
Join ==
  /\ op[Owner] = "join" /\ pc[Owner] = "idle" /\ m_exitSem
  /\ m_exitSem' = FALSE
  /\ op' = [op EXCEPT ![Owner] = "drain"]
  /\ UNCHANGED <<queueVars, m_exit, m_discard, m_thread, gen, m_selfExitPtr, msgVars, callVars, workerVars, faulted, misused>>

DrainAndDelete(e) ==
  /\ op[e] = "drain"
  /\ msgs' = Mark(LanedIds \ {EXIT}, "canceled")
  /\ Empty
  /\ op' = [op EXCEPT ![e] = "destroy"]
  /\ UNCHANGED <<flagVars, promised, callVars, workerVars, faulted, misused>>

\* Tasks blocked inside a primitive of the queue when it is deleted.
Blocked == \/ \E c \in Tasks : pc[c] = "waiting"
           \/ \E g \in Gens : wpc[g] \in {"loop", "lookNormal"}

\* The queue goes, with what was sent since it was drained, and m_thread is reset.
DestroyQueue(e) ==
  /\ op[e] = "destroy"
  /\ Destroy /\ msgs' = Mark(LanedIds \ {EXIT}, "lost")
  /\ m_thread' = 0
  /\ misused' = Blocked
  /\ op' = [op EXCEPT ![e] = "none"]
  /\ UNCHANGED <<m_exit, m_discard, gen, m_exitSem, m_selfExitPtr, promised, callVars, workerVars, faulted>>

---------------------------------------------------------------------------
SendStep(c) ==
  \/ Push(c) \/ RingBell(c) \/ SendToNothing(c)
  \/ DropFull(c) \/ FaultFull(c) \/ WaitNotFull(c) \/ TimeoutFull(c)

WorkerStep(g) ==
  \/ StartHandlerDone(g) \/ Receive(g) \/ ReceiveNormal(g) \/ Act(g) \/ HandlerDone(g)
  \/ ReceiveTimesOut(g) \/ ExitNoticed(g) \/ RunIdle(g) \/ IdleHandlerDone(g)
  \/ SignalExit(g) \/ Leave(g) \/ ReceiveFromNothing(g)

ExitStep(e) == DrainAndDelete(e) \/ DestroyQueue(e)

Running == ~faulted /\ ~misused /\ UNCHANGED configVars

Next ==
  /\ Running
  /\ \/ CreateThread \/ CreateThreadReturns \/ Join
     \/ \E c \in Callers : Dispatch(c)
     \/ \E c \in Tasks : SendStep(c)
     \/ \E g \in Gens : WorkerStep(g)
     \/ \E e \in Exiters : ExitRequest(e) \/ ExitStep(e)

Spec == Init /\ [][Next]_vars

---------------------------------------------------------------------------
(* The doorbell is exact: as long as nobody deletes the queue, its count and *)
(* the sends that have not rung yet account for every queued message.  So a  *)
(* give never finds the count at its maximum, and a token always stands for  *)
(* a message ("the semaphore count guarantees at least one lane is          *)
(* non-empty once the take succeeds").                                      *)
Ringers   == {c \in Tasks : pc[c] = "ringing"}
Lookers   == {g \in Gens : wpc[g] = "lookNormal"}
Draining  == \E e \in Exiters : op[e] = "destroy"
DoorbellExact ==
  created /\ ~Draining /\ ~misused =>
    /\ Len(high) + Len(normal) = bell + Cardinality(Ringers) + Cardinality(Lookers)
    /\ Ringers # {} => bell < MaxBell
    /\ Lookers # {} => normal # <<>>

(* "DRAIN (default) invokes every message queued before this call first".    *)
Honoured(i)    == msgs[i].fate \notin {"canceled", "lost"}
DrainHonoured  == \A i \in promised : Honoured(i)
DrainHonouredWhenBlocking == wakes \/ DrainHonoured

(* The lanes, the doorbell and the shutdown implement one serial executor.   *)
(* A NORMAL message is taken when the HIGH lane has been found empty; a      *)
(* message that goes down with the queue counts as canceled.                *)
Looked(i) == \E g \in Gens : wpc[g] = "lookNormal" /\ normal # <<>> /\ i = Head(normal)
Abstract(i) == IF msgs[i].fate = "lost" THEN "canceled"
               ELSE IF msgs[i].fate = "queued" /\ Looked(i) THEN "taken" ELSE msgs[i].fate
Executor == INSTANCE Executor WITH
  msgs <- [i \in DOMAIN msgs |-> [msgs[i] EXCEPT !.fate = Abstract(i)]]
ImplementsExecutor == Executor!Spec
===========================================================================
