# A verification model of active-fsm

This directory holds TLA+ modules for the state machine library of this
repository, for the threads that its active objects run on, and for the parts of
DelegateMQ above them whose correctness depends on interleavings: timers,
blocking asynchronous calls, remote calls, acknowledged delivery. With them come
the TLC configurations that check them on small instances, and TLAPS proofs.

* [System](#system): the inventory
* [Modules](#modules): what models what
* [Runs](#runs): what is checked, with which bounds and which fairness
* [Disagreements](#disagreements-with-the-documentation)
* [Proofs](#proofs)
* [Not modelled](#not-modelled) and the [plan](#plan)

To repeat a run, `tlc -config <run>.cfg <module>`; to repeat the proofs, `tlapm`
on each module whose name ends in `Proofs`.

## System

| component | source | state | operations | what is hard |
|---|---|---|---|---|
| StdlibThread | `delegate-mq/port/os/stdlib` | two lanes, `m_exit`, `m_thread`, `selfExit` of each worker | `CreateThread`, `DispatchDelegate`, `Process`, `ExitThread` | producers, worker and owner interleave; unlocked checks; a handler may exit its own thread; bounded lanes; waits with a timeout |
| IThread promise | `delegate/IThread.h`, `DelegateMsg.h` | the accepted messages | accept, invoke, cancel | order over two lanes; nothing invoked and canceled |
| StateMachine | `state-machine/StateMachine.*` | current and new state, the pending event, the call stack of engines | event functions, `InternalEvent`, two `StateEngine`s | user code runs in the middle of a transition and may call back |
| StateMachineHSM | `state-machine/StateMachineHSM.*` | the same, and the parent column | `StateEngine`, `FindLCA`, propagation | order of exits and entries; malformed columns |
| CentrifugeTest, SelfTest | `examples` | speed, poll timer, machine | `Start`, `Cancel`, `Poll` | clients, timer and machine thread interleave; stale polls; state read on the wrong thread |
| FreeRTOS port of Thread | `delegate-mq/port/os/freertos` | two FreeRTOS queues, a counting semaphore, `m_exit`, `m_exitSem`, `m_selfExitPtr` | as StdlibThread | no lock: every primitive is a step of its own; queues are deleted under other tasks |
| Timer, Signal, TimerDelegate | `delegate-mq/extras/util`, `delegate/Signal.h` | list of timers, expiry times, `m_timerStopped`; delegates of each signal; the gate | `Start`, `Stop`, destruction, `ProcessTimers`; `Connect`, `Disconnect`, emit | callbacks run from snapshots after the lock is released; batches; falling behind |
| DelegateAsync, DelegateAsyncWait | `delegate-mq/delegate` | message, semaphore, `m_invokerWaiting` | invoke, wait, time out | the time-out races the invocation, which refers to the caller's frame |
| RetryMonitor, TransportMonitor | `delegate-mq/extras/util` | `m_retryStore`, `m_pending` | send, acknowledge, time out, retry | three threads over two tables; lost and late acknowledgements, wrapping sequence numbers, sends that fail |
| Participant | `delegate-mq/extras/databus` | channels, `SeqHistory` of each remote id | `RegisterHandler`, `ProcessIncoming` | what is received is acknowledged before a channel is looked for; duplicates after lost acknowledgements |
| Dispatcher, RemoteDispatcher | `delegate-mq/extras/dispatcher`, `extras/rpc` | sequence counter, `InvokeWaitState` of each caller | `RemoteInvokeWait`, `RecvThread`, `Incoming`, `Stop` | a status may arrive before the caller knows the number it is waiting for; a send that fails may have drawn none |
| NetworkNode | `delegate-mq/extras/databus` | thread, receive timer and its connection, `m_mutex` | `Start`, `Stop`, `ReceiverThread` | stopping while a tick is queued, running, or in a snapshot |
| MulticastDelegate, DataBus | `delegate-mq/delegate`, `extras/databus` | subscribers, topics | subscribe, publish | see [Not modelled](#not-modelled) |
| ThreadMonitor, MonotonicGuard, allocator, other ports, serializers, transports | `delegate-mq` | - | - | see [Not modelled](#not-modelled) |

How they interact. A client calls an event function of a machine. In
synchronous mode the engine runs on the caller's thread. In active-object mode
the event function makes an asynchronous delegate and calls
`DispatchDelegate` of the machine's thread; `Process` of that thread takes the
message and calls the event function again, now on its own thread, and the
engine runs. The engine calls guards, actions and the slots of its signals. A
timer's `OnExpired` is a signal too; its slot is usually such an asynchronous
delegate or a `TimerDelegate`, which lets one tick at a time into the queue of
its thread. A remote call is a blocking asynchronous call to the network thread,
which sends through a `Dispatcher` and the monitors; what comes back is received
on another thread and reported through the signals of the monitors.

What makes each part correct:

* the thread: an accepted message is invoked once or canceled; priority and
  order hold; the bound holds; stopping drains, joins and leaves nothing behind
  and never waits for itself; nobody waits for ever;
* the engines: no event is lost; whoever listens to the signals sees the state
  the machine is in; the state action runs in its own state with its own data;
  a hierarchical transition leaves and enters exactly the states it should, in
  the right order;
* the timers: the list holds what it should, no expiry is dropped, and no tick
  refers to a delegate that has been freed;
* delivery: what is reported as delivered was received, which is not yet to say
  handled; what is reported as failed is reported once, and nothing sent is forgotten;
* remote calls: each caller whose message was sent gets the status of that message, its arguments
  outlive the call, and every call returns, during `Stop` too;
* the example: no event arrives where the maps say it cannot happen; the timer
  runs exactly when it is needed; a test ends and completes once.

`PROJECT.json` lists the hazards behind these at their source lines, those no
property covers yet included.

## Modules

```
StdlibThread --refines--> Executor <--refines-- FreeRTOSThread -- FreeRTOSDelegateQueue
    |                                                |
MCStdlibThread                                MCFreeRTOSThread

StateMachine                              Tables
   |       \                              |     \
FlatEngine <--refines-- StateMachineHSM   |    TransportMonitor --- ReliableTransport
   |      \                   |           |           |                  |
   |  CentrifugeTest   MCStateMachineHSM  |           |         MCReliableTransport
MCFlatEngine                              |    RemoteDispatcher --- DelegateAsyncWait
                                        Timer -- Signal
                                          |
                                     NetworkNode
```

The proofs are in modules of their own:

| module | extends | proves about |
|---|---|---|
| `StdlibThreadProofs` | StdlibThread | types, one worker, shutdown, messages, the bound, wake-ups; StdlibThread implements Executor |
| `FreeRTOSThreadProofs` | FreeRTOSThread | the doorbell, messages, DRAIN; FreeRTOSThread implements Executor |
| `StateMachineProofs` | StateMachine | the steps both engines share (lemmas only) |
| `FlatEngineProofs` | FlatEngine, StateMachineProofs | the flat engine |
| `StateMachineHSMProofs` | StateMachineHSM, StateMachineProofs | the hierarchical engine; it implements the flat one |
| `ReliableTransportProofs` | ReliableTransport | acknowledged delivery |
| `RemoteDispatcherProofs` | RemoteDispatcher | blocking and remote calls |
| `NetworkNodeProofs` | NetworkNode | timers, ticks |

Definitions marked "slip" are not part of a model: each replaces, as a plausible
mistake, one definition of the code, and `PROJECT.json` ("mutants") names the
property that then fails.

**StdlibThread.** One section of code that holds `m_mutex` is one action;
everything between two sections interleaves. `DispatchDelegate` is the pc of
each caller: the early test of `m_exit` (`Dispatch`), the unlocked test of
`m_thread` (`CheckThread`, which may throw), and the locked section, which
pushes, drops, faults or waits (`Push`, `DropFull`, `FaultFull`, `WaitNotFull`).
Each call of `ExitThread` is the op of its caller: the locked section that sets
`m_exit` (`ExitRequest`), the cancellation of what was discarded, `Join` or
`Detach`, the second locked section (`ResetThread`), and the second
cancellation. `Process` is the `wpc` of each generation: every worker ever
started is a generation, since after a self-exit a new one may be started while
the old one is still in its handler. A priority is chosen when the message is
pushed, as nothing looks at it before. `cv` waits: `waiting` callers become
`woken` by a notification; a woken or a spuriously woken or a timed-out caller
evaluates its predicate again. `msgs` is a history variable: the fate of every
message that was accepted. The return of `Process` on an exit without message
(`StdlibThread.cpp:460`) has no action, because it is never taken: that is what
`ExitMessagePending` says, and it is proved.

Assumptions: calls of `ExitThread` on one object do not overlap (`MayExit`); the
code races on `m_thread` otherwise. Handlers neither throw nor fail. A caller of
`DispatchDelegate` catches the exception of line 267.

**Executor.** The abstract specification: what an `IThread` promises about
accepted messages. A message is queued, may be taken before it is known what
becomes of it, runs, and has been invoked; or it is canceled before it runs. The
two ports are checked to implement it, and proved to; the FreeRTOS port with a
hypothesis on the order in which workers are started (see
[Proofs](#freertos-port)). For StdlibThread, a message that has been
taken off the lanes for cancellation is a canceled one.

**FreeRTOSDelegateQueue, FreeRTOSThread.** The same thread where no lock covers
the two queues and the counting semaphore (the doorbell): `Push` and `RingBell`
are two steps of a sender, `Receive` (the doorbell and the HIGH lane) and
`ReceiveNormal` two of the worker, `DrainAndDelete` and `DestroyQueue` two of
`ExitThread`. `wakes` says whether `Receive` has a time-out, that is, whether an
idle handler or a watchdog is set. A task that uses a queue or a semaphore after
it has been deleted has no defined behaviour: it sets `misused`, and the behaviour
ends there. For Executor, a NORMAL message is taken when the HIGH lane has been
found empty (`Looked`), because a HIGH message may arrive before it is popped, and
a message deleted together with its queue is canceled.

**StateMachine** holds what both kinds of engine share. An engine calls user
code that can call event functions of the same machine, which runs a second
engine on top of the first; `frames` is that stack, a frame holds the locals of
one `StateEngine` call, and `at` the callback it is in. Every event ever
generated is kept with its fate, and the data pointer is identified with the
event that brought it. `occupied` is what a subscriber that pairs `OnEntry` with
`OnExit` believes, `lastTransition` what the last `OnTransition` said.
`Reenters` and `StrayRaises` say which callbacks call event functions and which
raise internal events although they must not.

**FlatEngine** adds the two flat engines (`Extended` tells them apart). The
engine reads `m_newState` again after the guard, the exit action and `OnExit`;
so does the model.

**StateMachineHSM** adds the hierarchical engine. A walk that exits or enters
states is one step per callback, with the states left to visit in `todo`.
`Up(s)[n]` is the state n levels above s; `FindLCA`, the chains and the
assertions on `MAX_HSM_DEPTH` are stated over it, without the two nested loops. A walk
out that does not end makes its exits first and is asserted after them, as in the
code (`BeginEntries`), though `FindLCA` fails before it can come to that.

**CentrifugeTest** composes `FlatEngine` with the machine's thread (an inbox),
two clients and the poll timer. `Cancel` has `PARENT_TRANSITION` in front of
`BEGIN_TRANSITION_MAP`, so `CallCancel` looks at the state on the client's
thread and `Post` queues the result later. `Expire` and `PostPoll` are the two
halves of `Timer::ProcessTimers`. The inbox is bounded by making `Post` wait;
overflow and shutdown are StdlibThread's. A complete test leaves `m_speed` at
-1 (`m_speed-- == 0`, `CentrifugeTest.cpp:103`) and the guard of `ST_START_TEST`
wants 0, so a second test is vetoed; the model has that behaviour too.

**TransportMonitor, ReliableTransport.** TransportMonitor is the pending table;
each operator is one section under its lock. ReliableTransport puts RetryMonitor
on it, and the link and the receiving Participant below. A sender's call of
`SendWithRetry` is its `pc`: keep the packet, `Register`, `Transmit`, `MarkSent`,
or `CancelSend` and `GiveUp`. `OnStatusChanged(TIMEOUT)` is `OnTimeout`, its locked
section, and then `at`: send again, register again, or give up. An acknowledgement
takes the message off the pending table in one step and off the retry store in
another (`OnSuccess`). The receiver takes two steps for a packet: `Receive`, in which
the transport sends the acknowledgement (`LinuxUdpTransport.h:266-285`), and
`ProcessIncoming`, the rest of `Participant::ProcessIncoming`, which looks for a
channel, asks the filter and invokes the handler. Without a channel there is only
`ERR_NO_DISPATCHER`: the message is `unhandled`, the filter has not seen it, and the
sender is told SUCCESS. `RegisterHandler` adds a channel at any time; the code never
takes one away. Nothing makes the second step follow the first: the receiver may stop in
between. `inbox` is one message, as one thread receives. The link is a set of packets and a set of
acknowledgements, each received in any order, or never, which is how it loses them; a
packet is repeated only by being
sent again. Time is abstracted: any pending message may have expired (`Batches`).
`ok`, `failed` and `forgotten` record what was reported; `forgotten` is the result
of `Add` that `RetryMonitor.h:250` does not look at.

**DelegateAsyncWait, RemoteDispatcher.** DelegateAsyncWait gives the operators of
a blocking call and one destination thread with a bounded queue; the two holders
of a message are the sender (`waits`, `gaveUp`, `returned`) and the queue, and the
message leaves `calls` when both have let go of it. RemoteDispatcher composes it
with TransportMonitor: callers in `RemoteInvokeWait`, the network thread (`at`),
the receive thread (`recv`), the time-out timer and the owner in `Stop`. `emit` is
a status being reported, and the callers connected when its snapshot was taken
that have not been called yet. `mine` and `first` are history: the number a
caller's message really got and the first status of it that reached the caller.
The callers use one channel, whose `lastSeqNum` is the number its last message drew.
`Transmit` is the send lambda calling the target: `Draw`, where `Dispatch` draws a number
and the monitor or the transport may still refuse the message, or `DrawNothing`, where
there is no serializer, `Write` throws or the stream is bad, and `Dispatch` is not
reached; `RecordSeq` then records `lastSeqNum` in either case.
Simplifications that lose no behaviour the properties see: what a caller's state
held is cleared when it has been read; of the retries only the number of resends
left is kept, in `pending`; ticks that find nothing pending and acknowledgements of
messages no longer pending are left out. A target that throws stops the program
in this port, and `m_thread` is never exited here, so a call is not canceled.

**Signal, Timer, NetworkNode.** Signal is the list of delegates, and what a
connection keeps alive; `Filter`, the elements of a sequence that are in a set, is
written as a recursive function so that it can be reasoned about. Timer keeps for each enabled timer the ticks left until it
expires. That number stops just beyond minus its time-out, where `CheckExpired`
cannot tell late from later, so the abstraction is exact and the states finite.
`Scan` is the locked pass, at one instant; `Invoked` one delegate of the snapshots
it took. `owed` is history: the timers that had expired when `ProcessTimers` was
called and that nobody has seen to since. NetworkNode lets one owner start and
stop the node, with `m_recvTimer` among the timers. A queued tick is the
`TimerDelegate` it refers to by raw pointer, which is `Alive` while it is connected
or in a snapshot; its identity is used again once nothing refers to it. `stale`
records the delegates that were in a snapshot when they were disconnected. `Start`
makes the thread in one step (`StartThread`), a snapshot is let go of one delegate
at a time; each timer has at most one delegate here.

**Tables** has the operations of a `std::map`.

## Runs

| run | module | shows |
|---|---|---|
| `thread_safety` | MCStdlibThread | accepted messages go through the fates of Executor; the bound; draining; one worker; wake-ups; nothing left when stopped |
| `thread_liveness` | MCStdlibThread | calls return and messages are resolved |
| `freertos` | MCFreeRTOSThread | the doorbell accounts for the lanes; Executor is implemented; without time-outs DRAIN is kept |
| `freertos_drain` | MCFreeRTOSThread | *violated*: DRAIN with an idle handler or a watchdog |
| `engine` | MCFlatEngine | no event lost, signals consistent, actions in their own states |
| `engine_rtc` | MCFlatEngine | *violated*: run to completion |
| `hsm` | MCStateMachineHSM | walks, common ancestors and propagation over hierarchies well formed and malformed; refinement of FlatEngine |
| `centrifuge` | CentrifugeTest | maps, timer and speed; tests end |
| `centrifuge_stale` | CentrifugeTest | *violated*: one completion for each test |
| `transport` | MCReliableTransport | what a reported delivery or failure means; nothing is forgotten, and every message is reported on |
| `rpc` | RemoteDispatcher | arguments outlive calls; the first status of a sent message decides; calls and `Stop` return |
| `node` | NetworkNode | the timer list and the backlog; ticks refer to live delegates; `Stop` returns |

What each property says is the comment in front of it in the module.

### Bounds

* Threads: two producers for safety (they compete for one slot and for one
  notification), two generations (one self-exited in its handler, one running),
  queue sizes 1 and 2 (full at once; full with both lanes in use), `MaxCalls` 3
  calls over all callers: enough to fill the larger queue, have a third caller
  wait, and stop the thread meanwhile. Producers are symmetric. For liveness: one
  producer and handlers that dispatch themselves, two calls, queue size 1, no
  FAULT policy, no symmetry.
* FreeRTOS: two producers, two generations, lanes of two messages, four calls:
  both lanes and the doorbell are at their limits at once. One producer and one
  message are enough for the counterexample of `freertos_drain`.
* Engines: three states, and events that lead from every state to every state,
  are ignored or cannot happen; four events. An event, its internal
  event and an event function called inside either, with one more behind them,
  is every way two engines can overlap. Event functions are called from state
  actions, slots of `OnTransition`, guards, and guards and exit actions together; in `hsm`
  from state actions and from guards. For `hsm` all 125 forests on four states
  (a chain of four, two trees, a fork below the root are among them) and every
  column with two roots, which may have a cycle beside them; `MAX_HSM_DEPTH` 3, so
  that the chain of four is too deep; three events; states other than the initial
  one symmetric. An event of this run is handled by one state, with any target, or by
  two: the initial state and another one, of which either may be above the other, and
  one of them ignores it; all other states propagate. So the innermost of two handlers
  that disagree has to be found, and the outermost is a mutant.
* CentrifugeTest: the top speed of the source, four calls of Start and Cancel by
  two clients, three queued functions. `MaxEvents` is never reached.
* Transport: three messages, sequence numbers modulo 2, so that the third has the
  number of the first and goes to another remote id, that of the second; a pending
  table of two, which refuses the third message or a renewed registration, batches of
  one, one retry, a receiver that remembers one number and has a channel for one of the
  two ids at first. One sender: the monitor thread that sends again is already a second
  one at the same tables. That a key itself is used again is left to the theorems.
* RPC: two callers and two numbers drawn, one message of data, a pending table of one
  (the second send may be refused) and a queue of two, which callers, the receive
  thread, the timer and the owner compete for. Any send may fail, before or after its
  number is drawn (`SendMayFail`); calls whose sends draw none are not bounded.
* Node: the receive timer and one more, `MAX_TIMER_EXPIRED` 1: with both expired
  every batch is full and `ProcessTimers` repeats its pass. Time-outs of one and
  two ticks make one of them fall behind. Starting, stopping and restarting are
  not bounded.

`CHECK_DEADLOCK FALSE` except in `node`, whose behaviours never end: calls are
bounded elsewhere, an assertion stops the program, and a machine that nobody calls
has nothing to do.

### Fairness

`StdlibThread!Fairness`: the owner, each producer inside a call and each worker
are threads that the scheduler runs (weak fairness of the thread as a whole).
Timeouts of waits pass. Nobody is made to start a call, an idle handler never
has to run, and a notification goes to any waiting caller. The owner is fair
inside its own calls only.
`CentrifugeTest!Fairness`: the machine's thread runs, calls that have begun are
queued, and somebody keeps calling `ProcessTimers`, as the examples' main loop
does. `Start` and `Cancel` are never forced.
`ReliableTransport!Fairness`: a sender inside a call goes on, and somebody keeps
calling `Process`, which finds a pending message expired in the end. The link may
lose everything, and the receiver may stop at any point.
`RemoteDispatcher!Fairness`: the four kinds of threads run, waits with a time-out
end, targets on the network thread return. Nothing is assumed of the peer, the
timer, or anybody's wish to call or to stop.
`NetworkNode!Fairness`: the thread and the owner inside `Stop` run, and
`ReceiverThread` returns. Waiting for `m_mutex` is strongly fair: it is free
between two ticks, and the operating system serves a waiting thread at last.

## Disagreements with the documentation

* `freertos_drain`: `FreeRTOSThread.h:116` says that DRAIN invokes every message
  queued before the call. When `Receive` has timed out, a message and the exit
  message can be queued and `m_exit` set before `Run` tests it; it leaves the loop
  without another look (`FreeRTOSThread.cpp:437`), and the message is canceled.
  `DrainHonouredWhenBlocking` is what is left: with no idle handler and no
  watchdog DRAIN is kept: what it promises is neither canceled nor lost with the
  queue.
* `engine_rtc`: `README.md:137` promises that an external event is not
  interrupted by another one. An event function called from a callback on the
  machine's thread runs a nested engine (`StateMachine.cpp:35-40`).
  The premises of the properties say what is left. `TransitionsChain` needs that no
  callback does this; `NoEventLost` that none does in which an internal event may be
  pending, which a callback from the exit action on may have left for those that
  follow it (`MayFindPending`); `OccupiedAtRest` that no slot of `OnExit` does;
  `ActionRunsInItsState` that none from the guard to `OnEntry` does; the properties
  of the hierarchical engine that none does in the middle of a walk (`WalksAlone`).
* `centrifuge_stale`: `CentrifugeTest.h:19` and `README.md:403` against
  `StateMachine.h:336-340`. A client's `Cancel` reads the state, the test
  completes, then the posted `ST_FAILED` is executed by the idle machine, and
  `OnComplete` fires a second time.

Seen while modelling, without a run of their own. The first four are behaviours of the
modules: TLC finds each of them when the exception named is taken out of the property, or
the bound raised:

* `RemoteDispatcher.h:237` says that `RemoteInvokeWait` returns `true` if the remote
  acknowledged the message and `false` on a transport failure. A send that fails before
  `Dispatch` (`DelegateRemote.h:279-291`, `501-527`) draws no number, so that line 348
  records the number of the message before it on the same channel. When that one, whose
  own call has timed out or is another caller's, is acknowledged now, its SUCCESS
  completes the failed call, and line 396 returns it. `FirstStatusDecides` is what is
  left: it speaks of calls whose message drew a number.
* `RetryMonitor.h:198-199` registers a message that times out during its first send again
  "so monitoring continues", and does not look at the result of `Add` (line 250). Where
  others have filled the table meanwhile nobody follows the message any more.
  `NothingForgotten` and `Resolved` hold with this exception (`forgotten`).
* `NetworkNode.h:235-236` calls it safe to disconnect the `TimerDelegate` once the queue
  is drained. A snapshot that `ProcessTimers` took before `Stop` may fire into the thread
  of the next `Start`, when nothing else keeps the old delegate. `TickTargetAlive` holds
  with exactly this exception (`stale`).
* `FreeRTOSThread.cpp:211-213` relies on `Run` finding its `selfExit` set through
  `m_selfExitPtr`. A worker that exited itself and returns late from its handler clears
  that pointer (line 510, and line 545 in the same way) when it is the next worker's. The
  handler of that one exits its thread unnoticed, and the worker goes back to its loop
  and to a deleted queue. Where a third worker is started, the second serves the queue of
  that one too, and a NORMAL message can be taken while a HIGH one is queued; with a
  fourth DRAIN can fail as well. In the run `freertos`, with two workers, this ends at the
  deleted queue. A self-exit in the start or idle handler besides gives `m_exitSem` to
  nobody, and a later `ExitThread` returns early. The theorems name what excludes
  this ([Proofs](#freertos-port)).
* `StdlibThread.h:166` says that the idle handler is not called once `ExitThread`
  has been requested. Whether it is due is decided under the lock, the call comes
  after it (`StdlibThread.cpp:458-488`).
* `RetryMonitor.h:56` says that no status callback follows `OnDeliveryFailed` for a
  number. For the last time-out `OnDeliveryFailed` is fired from inside the report
  of TIMEOUT, and subscribers connected later get the TIMEOUT after it.
* `extras/databus/README.md:180` says that `OnDeliveryFailed` fires once. With
  `maxRetries` 0 a time-out during the first send finds no attempts left and does
  not look at `isSent` (`RetryMonitor.h:204`): it reports the failure, and a send that
  then fails reports it again. `FailsOnce` holds with this exception.
* `RemoteDispatcher.cpp:101`: the rest of `Stop` is marshaled to `m_thread`. Where
  its queue is full under DROP the call returns at once and the timer keeps running.
* `RemoteDispatcher.cpp:104` disconnects the `TimerDelegate` while a tick may be
  queued behind `Stop`; `NetworkNode.h:234-238` explains why its own code drains
  the queue first.
* A message is acknowledged inside `Receive`, before a channel is looked for
  (`LinuxUdpTransport.h:266-285`, `Participant.h:79-112`): SUCCESS says that it was
  received, as `RemoteDispatcher.h:217` puts it, and may be reported of a message that
  finds no channel and is never handled. `AckedWasReceived` says exactly what is left.
* `RetryMonitor.h:105`: once 2^16 numbers have been drawn while a message is pending, its
  retry entry is overwritten, and nobody reports on it. The properties about reports
  except such messages (`Reused`).
* `Timer.cpp:147` promises that a call clears the backlog. It does when it returns;
  timers at the head of the list that expire again while their callbacks run can
  keep a call going.

## Proofs

The theorems hold for every value of the constants that the assumptions of the
modules allow, over the specifications without fairness. Three things shape the
proofs. Where an argument needs induction over numbers (the length of a lane, the
height of a hierarchy, the elements of a sequence), it takes the least
counterexample (`LeastNatural`), because an induction theorem that has an operator
as its parameter cannot be instantiated. An operator defined by recursion or by a
least element (`Up`, `Min`, `Filter`, `FlattenSeq`) is first shown to satisfy the
equations it is used by. The invariants were looked for with TLC on small
instances before they were proved; where a proof then failed, the counterexample it
suggested was looked for there too.

### StdlibThread

From `StdlibThreadAssumption` alone, for any producers, queue sizes, policies,
`MaxCalls` and `MaxStarts`.

* `TypeCorrect`: `Safety => []TypeOK`. Inductive is `TypeInv`, which adds that a
  worker being started still has a number: `CreateThread` tests that one step
  before `EmplaceThread` uses it.
* `OneWorkerHolds`: `Safety => []OneWorker`. `OneWorker` is not inductive: that a
  second worker cannot start while the first is active depends on `m_thread`
  being cleared only for a worker that is dead (joined) or has `selfExit`
  set (detached). `WorkerInv` therefore follows each call of `ExitThread`
  (`ExitsCurrent`, `ResetIsSafe`) and says that a worker inside such a call is in
  a handler (`InHandler`).
* `ShutdownInvHolds`: `Safety => []ShutdownInv`. It adds where the exit message
  is (`ExitSent`): while `m_exit` is set and the worker has not taken it, it is
  the last entry of the NORMAL lane and the only one; pushes are refused
  (`PushExitSent`), pops leave it last or empty the lane (`ExitInTail`), and once
  it is taken both lanes are empty, HIGH because it is served first.
  `SelfExits` says that a worker `m_thread` still holds has `selfExit` set only
  between detaching and clearing `m_thread`.
* `JoinDrains` and `ExitMessageStays` follow: `JoinedMeansDrained`, the "Normally
  empty" of `StdlibThread.cpp:244`, and `ExitMessagePending`.
* `MessageInvHolds`: `MessageInv` ties the lanes to the history `msgs`. Each lane is
  exactly the queued ids of its priority, in the order of acceptance, and the exit
  message (`LanesExact`); the ids being run or discarded are exactly those with that
  fate (`RunningExact`, `DiscardedExact`); and the lanes have room for the exit message beyond the
  bound only (`Room`), since the test and the push of `DispatchDelegate` are one
  locked section. `LeavesCurrent` is needed for the discarding of a self-exit.
* From it follow `QueueIsBounded` and `StopIsQuiet`. `WakeupsKept` needs
  besides that finitely many callers are inside a call (`WakeInv`), so that those
  notified can be counted against the free slots.
* `ThreadImplementsExecutor`: the mapping reads each id's fate; a pop is `Take` of
  the oldest id of the lane because the lanes are exact, a discarded id is canceled
  at the step that clears the lanes, and every other step stutters.

### FreeRTOS port

From `FreeRTOSThreadAssumption`, for any producers, queue sizes, policies, calls
and workers. No lock covers the two queues, the count and the flags, so the
invariant is built in layers, each proved inductive relative to those below:

* `TypeInvHolds`, and `ControlInv`: a queue exists exactly while `m_thread` is set, and
  a handler inside `ExitThread` is the current worker's.
* `DoorbellIsExact` (`DoorbellExact`). The property speaks of the times when nobody
  drains; inductive is `BellInv`, which also says what holds while the lanes are
  emptied and the count is not, and that nobody adds to it until both are deleted.
  It counts by cardinality: the senders between push and ring, and the workers
  between the token and the NORMAL lane, are finite sets that change by one element a
  step.
* `MessageInvHolds`: `MessageInv` ties the lanes to `msgs` (`LanesExact`) and the
  messages taken or running to the one worker that has each (`HeldExact`), even when
  two workers serve one queue.
* `ServeInvHolds`: who serves. A worker that `m_thread` does not hold has left its loop
  or is in the handler that exited its thread (`OneServes`); `HandlerExits`, `JoinWaits`
  and `CurrentExits` follow the flags of the exit from the request to the last
  `m_exitSem`, which is where the exit message is (`ExitSent`).
* `DrainHolds` (`DrainHonouredWhenBlocking`): `DrainInv` says that without time-outs a
  worker leaves its loop for the exit message only, and that a promised message is
  taken before it. In the NORMAL lane it lies in front (`ExitBehind`); in the HIGH lane
  it could be overtaken only by a worker that had found that lane empty before the
  promise, and such a worker has a token for another message in front of the exit
  message (`LookerSafe`): this is where the doorbell has to be exact.
* `ImplementsInTurn`: the mapping (`AbsOf`) shows the message a worker has settled on
  with an empty HIGH lane as taken before it is popped, and those that go down with
  a queue as canceled. Each step is shown to be one of `Executor`, or a stutter
  (`ExecutorMove`).

`DoorbellIsExact` and `MessageInvHolds` have no hypothesis of their own, but like all of
these they are about the model's `CreateThread`, which waits until no task is inside
`DispatchDelegate`. `FreeRTOSThread.cpp:90-186` has no such test: a sender between
`xQueueSendToBack` and `xSemaphoreGive` (`FreeRTOSDelegateQueue.h:114-116`) while the
thread is exited and created again would ring the new doorbell for a message that went
down with the old queue, and neither would hold. The others need two hypotheses more,
without which they are false (see
[above](#disagreements-with-the-documentation)): that only message handlers exit
their own thread, not start or idle handlers (`SelfExits \subseteq {"handling"}`),
and `StartsInTurn`: the owner starts a worker only when each earlier one has left
its loop, or will leave it because its `selfExit` is set. The second follows from
the model (`SpecInTurn`) when no handler exits its own thread, whatever the number of
workers, and when there are at most two workers. `DrainHoldsForTwo` and
`ImplementsForTwo` state the properties of plain `Spec` for these cases, to which the
constants of the run `freertos` belong. The invariants were also checked by TLC with
three workers, with `StartsInTurn` as a constraint on the steps.

### The engines

`EngineInv` (StateMachineProofs) is common to both: the types, that only a callback
that calls event functions lies under another `StateEngine` on the stack
(`StackInv`), and that the pending event and the event of every frame exist and were
aimed at the state of the row fetched (`DataInv`). The shared steps are shown once
to keep it.

FlatEngineProofs, for any machine and any behaviour of the callbacks:

* `EngineInvHolds` and `TypeCorrect`.
* `SubscriberSeesCurrentState` (`OccupiedAtRest`): `OccupiedInv` says that in the
  middle of a transition nothing is occupied, and some frame, not only the top
  one, has still to enter its state. The proof failed for slots of `OnExit` that
  call event functions, and TLC found the counterexample: hence the premise.
* `ActionInItsState`: `StartInv` follows the members that user code could have
  changed from the guard to the action; a stray internal event makes the engine
  stop before it gets there.
* `TransitionsAreAPath`: `ChainInv`, between `OnTransition` and `SetCurrentState`.
* `EveryEventDecided` (`NoEventLost`): `EventInv` says that an undecided event is the
  pending one or one whose guard runs, and that an event can only have been
  overwritten in a machine that does not get past that callback.

StateMachineHSMProofs, for any finite set of states and any parent column, well
formed or cyclic, unless the property says otherwise:

* First the operators: `Chain` is the line of ancestors over all levels, `Up` agrees
  with it up to `MAX_HSM_DEPTH` (`UpIsTheChain`), a chain that goes on for more
  levels than there are states repeats one (`LevelsSuffice`, by the pigeonhole
  principle: this is where the states must be finite), so in a well-formed column
  every chain tops out within the number of states.
* `ConfigurationIsExact`: between walks the occupied states are the current state
  and its ancestors. `ConfigurationInv` says what a walk in progress has done: the
  occupied states are those of `todo` and the ancestors of the LCA (`Exits`), or those
  already entered (`Enters`), and every step takes one off. `ParentsStayOccupied`
  follows from it and from `Closed`, in the middle of walks too.
* `LCAIsDeepest`: `FindLCA` returns the deepest common ancestor.
* `InnermostHandles`: propagation stops at the innermost state that handles the event.
* `NothingIsHalfLeft`: `HalfwayInv` says that the walk down was known to fit before
  the first exit, so that no assertion stops the program between the two walks.
* `HierarchyImplementsFlat`: over a column without parents the hierarchical engine
  implements FlatEngine. The mapping strips `todo` off the frames; walks have one
  state (`FlatInv`), so that each of their steps is one of the flat engine.

### Acknowledged delivery

ReliableTransportProofs, for any senders, retries, table sizes, remote ids and
wrapping sequence numbers; the link loses and reorders.

* `TypeCorrect`: `TypeInv`, with both tables being functions from the key of a
  message to that message (`Tracks`, `Kept`).
* `DeliveredMeansReceived` and `FilterHolds` (`AckedWasReceived`,
  `DuplicatesFarApart`): `DeliveryInv` says that the history of a receiver is exactly
  the last numbers it handled (`FilterExact`), and that each acknowledgement on the
  link, and each SUCCESS reported, is of a number under which a message was received
  (`AcksReceived`, `ReportsReceived`). A message received stays so: what is looked up is
  handled, or its number was handled before, or it is `unhandled`. That a message whose
  number is its own cannot be dropped as a duplicate before it was handled needs that
  only handled numbers get into the history (`SeenWasReceived`).
* `OneFailureReport` (`FailsOnce`): what is needed is who may still report on a
  message: until its first send returns the sender alone takes it off (`isSent`), no
  attempt is spent before that (`AllAttempts`), and after a failure nobody holds it
  (`Final`). The proof failed for `MAX_RETRIES = 0`; see
  [above](#disagreements-with-the-documentation).
* `EveryMessageFollowed` (`NothingForgotten`): an unreported message is in the retry
  store and is attended by its sender, by the retry in progress, by the table or by
  the batch (`FollowInv`).

### Remote calls

RemoteDispatcherProofs, for any callers, queue bound, table size and numbers of
calls, resends and packets received. The assumption on `Callers` only keeps the
names of the threads apart. Sequence numbers do not wrap within `MaxInvokes`.

* `RpcInvHolds`: `CallInv` says which call each sender is inside of (`Inside`), that
  the queue has exactly the calls that are queued, a call left by its sender among
  them (`Queued`), and that one target runs. A new call always finds a free name,
  because the calls left behind are all in the bounded queue (`NewCallIsNew`).
* `ArgumentsOutliveCalls` (`ArgumentsAlive`): a running target's sender has not
  returned, because `Return` needs the lock or the signal. `ArgumentsAlive` alone is
  not inductive: which call a sender returns from is in `Inside`.
* `FirstStatusWins` (`FirstStatusDecides`), for calls whose message drew a number: `StatusInv` follows one caller's message
  through three phases: before its number is drawn no report can carry it, as all
  reported numbers have been given (`Given`); while it is being recorded the network
  thread reports nothing, so that only a SUCCESS can be early (`Reports`); after that
  `complete` and `success` say what the first status was (`StatusOf`).

### Timers and nodes

NetworkNodeProofs, for any timers, time-outs, batch size and delegates.

* `NodeInvHolds`: `TimerInv` (the list, what `ProcessTimers` owes) and the references
  to delegates (`TargetInv`), the latter in the snapshots, the queue and the running
  tick at once.
* `TimerListSound` (`ListSound`): each enabled timer is in the list once, what else is
  in it is alive and waits to be unlinked. `Filter` and `FlattenSeq` are shown to keep
  what they should.
* `NoExpiryDropped` (`BacklogCleared`): a batch that was not full has taken everything
  that was due, so what is owed is nothing when the loop ends.
* `TicksHaveTargets` (`TickTargetAlive`): with the exception `stale`.

### Model-checked only

The properties of CentrifugeTest: it is one machine with the tables and the top
speed of the source, and the run explores all its interleavings for a bounded number
of calls; the invariants of the engine it runs on are proved in FlatEngineProofs.
And all liveness properties: fairness and ENABLED are out of the prover's reach.

## Not modelled

* Serializers, transports, allocator, statistics, names and native handles: input
  and output, encoding, memory layout or wording.
* The other ports of Thread: POSIX, Win32 and Qt repeat the standard library port
  on other primitives; Zephyr and ThreadX have the two queues of the FreeRTOS
  port, CMSIS-RTOS2 and NuttX one queue that orders by priority itself.
* The specialisations of a delegate for free functions, members, shared objects and
  callables differ in the types of what they hold; one is mapped for all.
* MulticastDelegate. It is single-threaded, but a delegate can be removed during a
  broadcast; Signal, which everything modelled here uses, takes snapshots instead.
* The DataBus: topics and peers are tables under one lock. Its last-value cache is
  in the plan.
* The watchdogs, and `OnStuck` of TimerDelegate: they report and change no state of
  the library. That a handler longer than the time-out raises an alarm follows from
  the time stamp being set between messages only.
* `Cancel` of a blocking call: it needs a destination thread that exits while a
  sender waits.
* Concurrent `Start` and `Stop` of a NetworkNode, or `Stop` from its own tick; and
  overlapping calls of `ExitThread`: undefined in the code.
* `OnCannotHappen` fires right before an assertion and is left out. Guards that
  raise internal events, and propagation on a cyclic column (an endless loop without
  other effects): see the hazards.
* Motor, Player, TcpConnection and AlarmPanel have no timer and no `PARENT_TRANSITION`
  ahead of `BEGIN_TRANSITION_MAP`: they are instances of what the engines are
  checked with.

## Plan

Done, in this order: StdlibThread with Executor (what everything runs on),
StateMachine with FlatEngine, StateMachineHSM, CentrifugeTest (the composition);
TransportMonitor with ReliableTransport, the FreeRTOS port, DelegateAsyncWait with
RemoteDispatcher, and Signal, Timer and NetworkNode; then the proofs, component by
component. Next:

1. Proofs: `NeverCannotHappen`, `TimerMatchesState` and `TypeOK` of CentrifugeTest, on
   top of `EngineInv`.
2. `Cancel` of a blocking call, by composing DelegateAsyncWait with a thread that
   exits.
3. MulticastDelegate during a nested broadcast; the last-value cache of DataBus.
