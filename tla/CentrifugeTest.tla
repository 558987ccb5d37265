-------------------------- MODULE CentrifugeTest --------------------------
(***************************************************************************)
(* The CentrifugeTest example: a machine derived from SelfTest, run as an   *)
(* active object.  Clients call Start and Cancel from their own threads,    *)
(* a periodic timer posts Poll, and the machine's thread takes one function *)
(* at a time from its queue and runs the engine of FlatEngine on it.        *)
(***************************************************************************)
EXTENDS Integers, Sequences, FiniteSets

CONSTANTS
  Clients,
  TopSpeed,      \* the speed at which acceleration ends, 5 in the source
  MaxCalls,      \* bound: calls of Start and Cancel
  MaxInbox,      \* bound: functions queued for the machine's thread
  MaxEvents      \* bound of FlatEngine

ASSUME CentrifugeAssumption ==
  TopSpeed \in Nat \ {0} /\ MaxCalls \in Nat /\ MaxInbox \in Nat \ {0} /\ MaxEvents \in Nat

SelfTestStates == {"IDLE", "COMPLETED", "FAILED"}
OwnStates == {"START_TEST", "ACCELERATION", "WAIT_FOR_ACCELERATION",
              "DECELERATION", "WAIT_FOR_DECELERATION"}
States    == SelfTestStates \cup OwnStates

\* Functions the machine's thread is given to run.  "Fail" is ExternalEventImpl
\* with ST_FAILED, which PARENT_TRANSITION posts.
Start  == [s \in States |-> IF s = "IDLE" THEN "START_TEST"
                            ELSE IF s \in OwnStates THEN "IGNORED" ELSE "CANNOT_HAPPEN"]
Poll   == [s \in States |->
            IF s \in {"ACCELERATION", "WAIT_FOR_ACCELERATION"} THEN "WAIT_FOR_ACCELERATION"
            ELSE IF s \in {"DECELERATION", "WAIT_FOR_DECELERATION"} THEN "WAIT_FOR_DECELERATION"
            ELSE "IGNORED"]
Cancel == [s \in States |-> IF s \in OwnStates THEN "FAILED"      \* PARENT_TRANSITION
                            ELSE IF s = "IDLE" THEN "IGNORED" ELSE "CANNOT_HAPPEN"]
Fail   == [s \in States |-> "FAILED"]
Functions == [Start |-> Start, Poll |-> Poll, Cancel |-> Cancel, Fail |-> Fail]

\* The internal event a state action may generate.
Raises == [s \in States |->
            CASE s \in {"COMPLETED", "FAILED"} -> {"IDLE"}
              [] s = "START_TEST"              -> {"ACCELERATION"}
              [] s = "WAIT_FOR_ACCELERATION"   -> {"DECELERATION", "none"}
              [] s = "WAIT_FOR_DECELERATION"   -> {"COMPLETED", "none"}
              [] OTHER                         -> {"none"}]

VARIABLES
  m_currentState, m_newState, m_eventGenerated, m_pEventData, frames, events,
  occupied, lastTransition, faulted,
  inbox,         \* functions queued for the machine's thread, oldest first
  calling,       \* what each client is about to queue, "none" when outside a call
  calls,
  m_speed,
  m_pollTimer,   \* enabled
  expired,       \* ProcessTimers holds a snapshot of OnExpired
  completed      \* times OnComplete has fired

SM == INSTANCE FlatEngine WITH
  InitialState <- "IDLE", EVENT_IGNORED <- "IGNORED", CANNOT_HAPPEN <- "CANNOT_HAPPEN",
  NoEvent <- "none", Events <- DOMAIN Functions, Transitions <- Functions, Extended <- TRUE, Forms <- {TRUE},
  Guarded <- {"START_TEST"}, StrayRaises <- {}, Reenters <- {}, ReenterChoices <- {{}}

smVars     == <<m_currentState, m_newState, m_eventGenerated, m_pEventData, frames, events,
                occupied, lastTransition, faulted>>
testVars   == <<m_speed, m_pollTimer, completed>>
clientVars == <<calling, calls>>
vars == <<smVars, inbox, clientVars, testVars, expired>>

Init ==
  /\ SM!Init
  /\ inbox = <<>> /\ calling = [c \in Clients |-> "none"] /\ calls = 0
  /\ m_speed = 0 /\ m_pollTimer = FALSE /\ expired = FALSE /\ completed = 0

---------------------------------------------------------------------------
(* Clients.  BEGIN_TRANSITION_MAP queues the whole function; but Cancel has  *)
(* PARENT_TRANSITION in front of it, which looks at the current state on the *)
(* caller's thread, whatever the machine's thread is doing.                 *)

Call(c, f) ==
  /\ calling[c] = "none" /\ calls < MaxCalls
  /\ calls' = calls + 1
  /\ calling' = [calling EXCEPT ![c] = f]
  /\ UNCHANGED <<smVars, inbox, testVars, expired>>

CallStart(c)  == Call(c, "Start")
CallCancel(c) == Call(c, IF m_currentState \in OwnStates THEN "Fail" ELSE "Cancel")

Post(c) ==
  /\ calling[c] # "none" /\ Len(inbox) < MaxInbox
  /\ inbox' = Append(inbox, calling[c])
  /\ calling' = [calling EXCEPT ![c] = "none"]
  /\ UNCHANGED <<smVars, calls, testVars, expired>>

---------------------------------------------------------------------------
(* ProcessTimers: notes the expiry under the lock, posts Poll after it.      *)

Expire ==
  /\ m_pollTimer /\ ~expired
  /\ expired' = TRUE
  /\ UNCHANGED <<smVars, inbox, clientVars, testVars>>

PostPoll ==
  /\ expired /\ Len(inbox) < MaxInbox
  /\ inbox' = Append(inbox, "Poll")
  /\ expired' = FALSE
  /\ UNCHANGED <<smVars, clientVars, testVars>>

---------------------------------------------------------------------------
(* The machine's thread.                                                    *)

\* slip: a function run while the engine is running
RunAtOnce ==
  /\ inbox # <<>>
  /\ SM!ExternalEvent(Functions[Head(inbox)][m_currentState])
  /\ inbox' = Tail(inbox)
  /\ UNCHANGED <<clientVars, testVars, expired>>

Run ==
  /\ inbox # <<>>
  /\ SM!CallEvent(Functions[Head(inbox)][m_currentState])
  /\ inbox' = Tail(inbox)
  /\ UNCHANGED <<clientVars, testVars, expired>>

\* GD_GuardStartTest
Guard ==
  /\ SM!In("guard")
  /\ IF SM!Top.row # "START_TEST" \/ m_speed = 0 THEN SM!GuardPasses ELSE SM!GuardVetoes
  /\ UNCHANGED <<inbox, clientVars, testVars, expired>>

KeepsTimer == UNCHANGED m_pollTimer      \* slip: the timer forgotten
StopPoll  == m_pollTimer' = FALSE
StartPoll == m_pollTimer' = TRUE

\* The exit actions of the two waiting states.
Exit ==
  /\ SM!ExitActionDone
  /\ IF m_currentState \in {"WAIT_FOR_ACCELERATION", "WAIT_FOR_DECELERATION"}
     THEN StopPoll ELSE UNCHANGED m_pollTimer
  /\ UNCHANGED <<inbox, clientVars, m_speed, completed, expired>>

\* What the action of state s does before it raises an event or returns.
ActionBody(s) ==
  /\ m_speed' = CASE s = "WAIT_FOR_ACCELERATION" -> m_speed + 1
                  [] s = "WAIT_FOR_DECELERATION" -> m_speed - 1
                  [] OTHER                       -> m_speed
  /\ CASE s = "IDLE"                           -> StopPoll
       [] s \in {"ACCELERATION", "DECELERATION"} -> StartPoll
       [] OTHER                                -> UNCHANGED m_pollTimer
  /\ completed' = IF s = "IDLE" THEN completed + 1 ELSE completed     \* OnComplete
\* slip: one poll too many
RaisesLate(s) ==
  \/ s \in {"COMPLETED", "FAILED", "START_TEST"}
  \/ s = "WAIT_FOR_ACCELERATION" /\ m_speed + 1 > TopSpeed
  \/ s = "WAIT_FOR_DECELERATION" /\ m_speed = 0
RaisesNow(s) ==
  \/ s \in {"COMPLETED", "FAILED", "START_TEST"}
  \/ s = "WAIT_FOR_ACCELERATION" /\ m_speed + 1 >= TopSpeed
  \/ s = "WAIT_FOR_DECELERATION" /\ m_speed = 0

Action ==
  /\ SM!In("action")
  /\ IF RaisesNow(SM!Top.row) THEN SM!ActionRaises ELSE SM!ActionReturns
  /\ ActionBody(SM!Top.row)
  /\ UNCHANGED <<inbox, clientVars, expired>>

\* The steps of the engine that run no code of the machine.
Engine ==
  /\ \/ SM!BeginEx \/ SM!EngineReturns \/ SM!OnExitDone \/ SM!EntryActionDone
     \/ SM!OnEntryDone \/ SM!OnTransitionDone
     \/ SM!In("raised") /\ SM!ActionReturns
  /\ UNCHANGED <<inbox, clientVars, testVars, expired>>

MachineThread == Run \/ Guard \/ Exit \/ Action \/ Engine

---------------------------------------------------------------------------
Next ==
  /\ ~faulted
  /\ \/ MachineThread
     \/ Expire \/ PostPoll
     \/ \E c \in Clients : CallStart(c) \/ CallCancel(c) \/ Post(c)

(***************************************************************************)
(* The machine's thread and the callers of Post are scheduled, and somebody *)
(* keeps calling ProcessTimers.  Nobody has to call Start or Cancel.        *)
(***************************************************************************)
Fairness ==
  /\ WF_vars(~faulted /\ MachineThread)
  /\ WF_vars(~faulted /\ Expire) /\ WF_vars(~faulted /\ PostPoll)
  /\ \A c \in Clients : WF_vars(~faulted /\ Post(c))

Safety == Init /\ [][Next]_vars
Spec   == Safety /\ Fairness

---------------------------------------------------------------------------
(* The types.  The speed stays between the -1 that a completed test leaves   *)
(* behind and the top speed, though stale polls arrive after StopPoll.      *)
TypeOK ==
  /\ SM!TypeOK
  /\ inbox \in Seq(DOMAIN Functions) /\ Len(inbox) <= MaxInbox
  /\ calling \in [Clients -> DOMAIN Functions \cup {"none"}] /\ calls \in 0 .. MaxCalls
  /\ m_speed \in -1 .. TopSpeed /\ m_pollTimer \in BOOLEAN /\ expired \in BOOLEAN /\ completed \in Nat

(* However calls, polls and transitions interleave, the machine is never     *)
(* asked for a transition that its maps say cannot happen.                  *)
NeverCannotHappen == ~faulted

(* At rest the timer runs exactly while the machine waits for polls.         *)
TimerMatchesState ==
  SM!AtRest => (m_pollTimer <=> m_currentState \notin SelfTestStates)

(* A test that is under way ends.                                            *)
TestEnds == m_currentState \in OwnStates ~> m_currentState = "IDLE"

(* OnComplete: "Fired on the SM thread when the test completes and returns   *)
(* to ST_IDLE": no more often than tests have been started.                 *)
Started == {i \in DOMAIN events : events[i].target = "START_TEST" /\ events[i].fate = "executed"}
OneCompletionPerTest == completed <= Cardinality(Started)
===========================================================================
