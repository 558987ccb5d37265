------------------------------- MODULE Timer -------------------------------
(***************************************************************************)
(* dmq::util::Timer: the list of timers, which clients start, stop and       *)
(* destroy from any thread, and ProcessTimers, called again and again by one *)
(* thread.  Each pass takes the lock once, unlinks the stopped timers and    *)
(* takes a snapshot of OnExpired of those that have expired, at most         *)
(* MAX_TIMER_EXPIRED of them; then it invokes the snapshots without the      *)
(* lock.  A full batch makes it pass again.                                  *)
(*                                                                         *)
(* Time is counted for each enabled timer as the ticks left until            *)
(* m_expireTime, and no further than CheckExpired can tell late from later.  *)
(***************************************************************************)
EXTENDS Integers, FiniteSets, FiniteSetsExt, Signal, Tables

CONSTANTS
  Timers,
  Timeouts,             \* the values of the argument of Start, in ticks
  MAX_TIMER_EXPIRED     \* the size of a batch

ASSUME TimerAssumption ==
  /\ Timeouts \subseteq Nat \ {0}      \* Start refuses the others
  /\ MAX_TIMER_EXPIRED \in Nat \ {0}
  /\ Signals = Timers                  \* OnExpired of each timer

VARIABLES
  live,            \* the timers that are constructed
  timers,          \* the list, its head first
  enabled,         \* of each timer with m_enabled, [left, m_timeout, m_once]
  m_timerStopped,
  at,              \* ProcessTimers: not called, about to take the lock, or invoking snapshots
  snapshots,       \* the delegates that are still to be invoked in this pass
  full,            \* count = MAX_TIMER_EXPIRED
  owed             \* the timers that had expired when ProcessTimers was called, less those seen to since

timerVars   == <<live, timers, enabled, m_timerStopped>>
processVars == <<at, snapshots, full>>

TimerInit ==
  /\ timers = <<>> /\ enabled = <<>> /\ m_timerStopped = FALSE
  /\ at = "idle" /\ snapshots = <<>> /\ full = FALSE /\ owed = {}
  /\ delegates = [s \in Signals |-> <<>>] /\ connections = {}

Due == {t \in DOMAIN enabled : enabled[t].left <= 0}

---------------------------------------------------------------------------
(* What clients do, each under the lock.                                    *)

Construct(t) ==
  /\ t \notin live /\ live' = live \cup {t}
  /\ UNCHANGED <<timers, enabled, m_timerStopped, processVars, owed, delegates, connections>>

Start(t, timeout, once) ==
  /\ t \in live
  /\ enabled' = With(enabled, t, [left |-> timeout, m_timeout |-> timeout, m_once |-> once])
  /\ timers' = IF t \in Range(timers) THEN timers ELSE <<t>> \o timers
  /\ owed' = owed \ {t}
  /\ UNCHANGED <<live, m_timerStopped>>

Stop(t) ==
  /\ t \in live
  /\ enabled' = Without(enabled, {t}) /\ m_timerStopped' = TRUE
  /\ owed' = owed \ {t}
  /\ UNCHANGED <<live, timers>>

\* slip: only a running timer is unlinked
UnlinksEnabled(t) == IF t \in DOMAIN enabled THEN Filter(timers, Timers \ {t}) ELSE timers
Unlinked(t) == Filter(timers, Timers \ {t})

Destroy(t) ==
  /\ t \in live /\ live' = live \ {t}
  /\ timers' = Unlinked(t) /\ enabled' = Without(enabled, {t})
  /\ owed' = owed \ {t}
  /\ MarkDead(t)
  /\ UNCHANGED <<m_timerStopped, processVars>>

---------------------------------------------------------------------------
(* ProcessTimers.                                                           *)

\* CheckExpired of an expired periodic timer: one that is still late is set to now.
Rearmed(e) == [e EXCEPT !.left = IF @ + e.m_timeout < 0 THEN 0 ELSE @ + e.m_timeout]

\* The timers of the list of which a snapshot is taken,
Batch(list) ==
  LET expired == Filter(list, Due)
  IN  SubSeq(expired, 1, Min({MAX_TIMER_EXPIRED, Len(expired)}))

\* and those that CheckExpired changes: no others.
ChecksAll(list) == Range(Filter(list, Due))     \* slip: the rest of a full batch too
Checked(list)   == Range(Batch(list))

ProcessTimers ==
  /\ at = "idle" /\ at' = "scan" /\ owed' = Due
  /\ UNCHANGED <<timerVars, snapshots, full, delegates, connections>>

Scan ==
  /\ at = "scan" /\ at' = "invoke"
  /\ LET list  == IF m_timerStopped THEN Filter(timers, DOMAIN enabled) ELSE timers
         once  == {t \in Checked(list) : enabled[t].m_once}
         batch == Batch(list)
     IN  /\ timers' = list
         /\ enabled' = [t \in DOMAIN enabled \ once |->
                          IF t \in Checked(list) THEN Rearmed(enabled[t]) ELSE enabled[t]]
         /\ m_timerStopped' = (once # {})
         /\ snapshots' = FlattenSeq([i \in DOMAIN batch |-> GetSnapshot(batch[i])])
         /\ full' = (Len(batch) = MAX_TIMER_EXPIRED)
         /\ owed' = owed \ Range(batch)
  /\ UNCHANGED <<live, delegates, connections>>

\* The next delegate has been invoked, and the snapshot lets go of it.
Invoked == at = "invoke" /\ snapshots # <<>> /\ snapshots' = Tail(snapshots) /\ UNCHANGED <<at, full>>

PassDone ==
  /\ at = "invoke" /\ snapshots = <<>>
  /\ at' = IF full THEN "scan" ELSE "idle"
  /\ full' = FALSE
  /\ UNCHANGED <<timerVars, snapshots, owed, delegates, connections>>

\* Time passes.  A timer late by more than its time-out is not told from a later one.
Later(e) == [e EXCEPT !.left = IF @ < - e.m_timeout THEN @ ELSE @ - 1]
TimePasses ==
  /\ enabled' = [t \in DOMAIN enabled |-> Later(enabled[t])]
  /\ enabled' # enabled
  /\ UNCHANGED <<live, timers, m_timerStopped, processVars, owed, delegates, connections>>

---------------------------------------------------------------------------
(* Properties.                                                              *)

\* The intrusive list: no timer is in it twice, none that is destroyed, every
\* one that is running; and one that is not running will be unlinked by the
\* next pass.
ListSound ==
  /\ Len(timers) = Cardinality(Range(timers))
  /\ DOMAIN enabled \subseteq Range(timers) /\ Range(timers) \subseteq live
  /\ Range(timers) \subseteq DOMAIN enabled \/ m_timerStopped

\* "a single call always fully clears the backlog" (Timer.cpp:147): a timer that
\* had expired when ProcessTimers was called has had its snapshot taken when
\* the call returns, in whichever pass, unless a client stopped, restarted or
\* destroyed it meanwhile.  Full batches drop no expiry.
BacklogCleared == at = "idle" => owed = {}
===========================================================================
