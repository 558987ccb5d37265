---------------------------- MODULE NetworkNode ----------------------------
(***************************************************************************)
(* The receive side of dmq::databus::NetworkNode: Start makes the thread     *)
(* m_thread and connects a TimerDelegate to m_recvTimer, whose ticks run     *)
(* ReceiverThread on m_thread; Stop takes this down again.  One owner calls  *)
(* Start and Stop, as often as it likes; another thread calls ProcessTimers, *)
(* and other clients use timers of their own.                               *)
(*                                                                         *)
(* The message of a tick refers to the TimerDelegate by a raw pointer, and   *)
(* Disconnect frees it unless ProcessTimers has it in a snapshot.           *)
(***************************************************************************)
EXTENDS Timer

CONSTANTS m_recvTimer, None

ASSUME NetworkNodeAssumption == m_recvTimer \in Timers /\ None \notin Delegates

VARIABLES
  owner,      \* where the owner is in Start or Stop
  thread,     \* m_thread: "none" before Start, "open", "exiting" since ExitThread began, "exited"
  queue,      \* the ticks in m_thread's queue, each the TimerDelegate it refers to
  running,    \* the TimerDelegate whose InvokeTarget the thread runs, or None
  m_mutex,    \* who holds m_mutex beyond a step
  stale       \* TimerDelegates that a snapshot still had when they were disconnected

nodeVars   == <<owner, thread, queue, running, m_mutex, stale>>
signalVars == <<delegates, connections>>
vars == <<timerVars, processVars, owed, signalVars, nodeVars>>

Clients == Timers \ {m_recvTimer}

Init ==
  /\ TimerInit /\ live = {m_recvTimer}
  /\ owner = "stopped" /\ thread = "none"
  /\ queue = <<>> /\ running = None /\ m_mutex = "free" /\ stale = {}

Alive(d) == d \in connections \cup Range(snapshots)
InUse(d) == Alive(d) \/ d \in Range(queue) \/ d = running

---------------------------------------------------------------------------
(* Start and Stop.                                                          *)

StartThread ==
  /\ owner = "stopped" /\ m_mutex = "free"
  /\ m_mutex' = "owner" /\ owner' = "starting" /\ thread' = "open"
  /\ UNCHANGED <<timerVars, processVars, owed, signalVars, queue, running, stale>>

\* The delegate is cloned and connected, then the timer started.
StartTimer ==
  /\ owner = "starting"
  /\ \E d \in Delegates : ~InUse(d) /\ Connect(m_recvTimer, d) /\ stale' = stale \ {d}
  /\ \E timeout \in Timeouts : Start(m_recvTimer, timeout, FALSE)
  /\ owner' = "started" /\ m_mutex' = "free"
  /\ UNCHANGED <<processVars, thread, queue, running>>

CallStop ==
  /\ owner = "started" /\ owner' = "stopping"
  /\ UNCHANGED <<timerVars, processVars, owed, signalVars, thread, queue, running, m_mutex, stale>>

\* Under m_mutex: m_running is cleared and the timer stopped.
StaysLocked == m_mutex' = "owner"      \* slip: the lock is kept over the join
Unlocks     == m_mutex' = "free"

StopTimer ==
  /\ owner = "stopping" /\ m_mutex = "free"
  /\ Stop(m_recvTimer) /\ Unlocks
  /\ owner' = "exit"
  /\ UNCHANGED <<processVars, signalVars, thread, queue, running, stale>>

ExitThread ==
  /\ owner = "exit" /\ owner' = "joining" /\ thread' = "exiting"
  /\ UNCHANGED <<timerVars, processVars, owed, signalVars, queue, running, m_mutex, stale>>

JoinsNothing == owner = "joining"      \* slip: the queue is not waited for
Joined == owner = "joining" /\ thread = "exited"

\* Joined: now the TimerDelegate is disconnected.
DisconnectRecv ==
  /\ Joined
  /\ \E d \in connections :
       /\ Disconnect(m_recvTimer, d)
       /\ stale' = IF d \in Range(snapshots) THEN stale \cup {d} ELSE stale
  /\ owner' = "stopped"
  /\ UNCHANGED <<timerVars, processVars, owed, thread, queue, running, m_mutex>>

---------------------------------------------------------------------------
(* TimerDelegate: its gate lets one tick at a time into the queue, and the   *)
(* thread refuses one once it is exiting.                                   *)

InFlight(d) == d \in Range(queue) \/ d = running

Fire ==
  /\ Invoked
  /\ LET d == Head(snapshots)
     IN  queue' = IF InFlight(d) \/ thread # "open" THEN queue ELSE Append(queue, d)
  /\ UNCHANGED <<timerVars, owed, signalVars, owner, thread, running, m_mutex, stale>>

---------------------------------------------------------------------------
(* m_thread.                                                                *)

TakeTick ==
  /\ running = None /\ queue # <<>>
  /\ running' = Head(queue) /\ queue' = Tail(queue)
  /\ UNCHANGED <<timerVars, processVars, owed, signalVars, owner, thread, m_mutex, stale>>

LockTick ==
  /\ running # None /\ m_mutex = "free" /\ m_mutex' = "tick"
  /\ UNCHANGED <<timerVars, processVars, owed, signalVars, owner, thread, queue, running, stale>>

\* ReceiverThread has returned and the message is destroyed, its token with it.
TickDone ==
  /\ m_mutex = "tick" /\ m_mutex' = "free" /\ running' = None
  /\ UNCHANGED <<timerVars, processVars, owed, signalVars, owner, thread, queue, stale>>

ThreadExits ==
  /\ thread = "exiting" /\ queue = <<>> /\ running = None
  /\ thread' = "exited"
  /\ UNCHANGED <<timerVars, processVars, owed, signalVars, owner, queue, running, m_mutex, stale>>

---------------------------------------------------------------------------
ClientStep ==
  /\ \E t \in Clients :
       \/ Construct(t)
       \/ Destroy(t)
       \/ Stop(t) /\ UNCHANGED <<processVars, signalVars>>
       \/ \E timeout \in Timeouts, once \in BOOLEAN :
            Start(t, timeout, once) /\ UNCHANGED <<processVars, signalVars>>
  /\ UNCHANGED nodeVars

TimerStep  == (ProcessTimers \/ Scan \/ PassDone \/ TimePasses) /\ UNCHANGED nodeVars
ThreadStep == TakeTick \/ TickDone \/ ThreadExits
StopStep   == ExitThread \/ DisconnectRecv

Next ==
  \/ StartThread \/ StartTimer \/ CallStop \/ StopTimer \/ StopStep
  \/ Fire \/ ThreadStep \/ LockTick
  \/ ClientStep \/ TimerStep

\* The threads run and ReceiverThread returns; and a thread that waits for
\* m_mutex is served at last, as the ticks leave it free in between.
Fairness ==
  /\ WF_vars(ThreadStep) /\ WF_vars(StopStep)
  /\ SF_vars(LockTick) /\ SF_vars(StopTimer)

Spec     == Init /\ [][Next]_vars
FairSpec == Spec /\ Fairness

---------------------------------------------------------------------------
(* Properties.                                                              *)

\* A tick that is queued or runs refers to a TimerDelegate that exists
\* (TimerDelegate.h:144, NetworkNode.h:234-238), unless it was disconnected
\* while ProcessTimers still had it in a snapshot: that snapshot may fire
\* into the thread of a later Start.
TickTargetAlive ==
  \A d \in Range(queue) \cup ({running} \ {None}) : Alive(d) \/ d \in stale

\* Stop returns: the join does not wait for a tick that waits for the owner
\* (NetworkNode.h:228-232).
StopReturns == owner = "stopping" ~> owner = "stopped"
===========================================================================
