---------------------------- MODULE FlatEngine ----------------------------
(***************************************************************************)
(* The two forms of StateMachine::StateEngine: over a StateMapRow map, and   *)
(* over a StateMapRowEx map with guards and entry and exit actions.         *)
(***************************************************************************)
EXTENDS StateMachine

CONSTANTS
  Events,          \* the external event functions
  Transitions,     \* their transition maps
  Forms            \* what Extended may be

ASSUME FlatEngineAssumption ==
  /\ Transitions \in [Events -> [States -> Outcomes]]
  /\ Forms \subseteq BOOLEAN /\ Forms # {}

VARIABLE Extended  \* TRUE: the machine has a StateMapRowEx map; never changes

flatVars == <<vars, Reenters, Extended>>

Init == StateMachineInit({InitialState}) /\ Extended \in Forms

TooLate  == m_newState                   \* slip: fromState read after the change
StaysPut == m_currentState               \* slip: no SetCurrentState

\* What the engine reads as the state it leaves and the state it enters.
FromState    == m_currentState
EnteredState == m_newState

(* StateEngine.  The guard of the new state's row, its entry action and its *)
(* state action are those of the row fetched here; the state entered later  *)
(* is read from m_newState again.                                           *)

BeginEx ==
  /\ Extended /\ In("loop") /\ m_eventGenerated
  /\ Consume
  /\ Update([Top EXCEPT !.at = "guard", !.row = m_newState, !.data = m_pEventData])
  /\ UNCHANGED <<m_currentState, m_newState, events, signalVars, faulted>>

\* StateEngine(StateMapRow*) has no guard, entry or exit: straight to the action.
BeginPlain ==
  /\ ~Extended /\ In("loop") /\ m_eventGenerated
  /\ Consume
  /\ Update([Top EXCEPT !.at = "action", !.row = m_newState, !.from = FromState, !.data = m_pEventData])
  /\ m_currentState' = EnteredState
  /\ events' = Fate(m_pEventData, "executed")
  /\ UNCHANGED <<m_newState, signalVars, faulted>>

\* No guard, or it returned true: a self-transition skips exit and entry.
GuardPasses ==
  /\ In("guard")
  /\ Update([Top EXCEPT !.from = FromState,
                        !.at = IF m_newState # m_currentState THEN "exit" ELSE "action"])
  /\ events' = Fate(Top.data, "executed")
  /\ UNCHANGED <<machineVars, signalVars, faulted>>

\* slip: OnExit for the state entered
ExitsNewState ==
  /\ In("exit")
  /\ Goto("onExit")
  /\ occupied' = occupied \ {m_newState}
  /\ UNCHANGED <<machineVars, events, lastTransition, faulted>>

ExitActionDone ==
  /\ In("exit")
  /\ Goto("onExit")
  /\ occupied' = occupied \ {m_currentState}              \* OnExit(m_currentState)
  /\ UNCHANGED <<machineVars, events, lastTransition, faulted>>

OnExitDone ==
  /\ In("onExit")
  /\ m_currentState' = EnteredState
  /\ Goto("entry")
  /\ UNCHANGED <<m_newState, m_eventGenerated, m_pEventData, events, signalVars, faulted>>

EntryActionDone ==
  /\ In("entry")
  /\ Goto("onEntry")
  /\ occupied' = occupied \cup {m_currentState}           \* OnEntry(m_currentState)
  /\ UNCHANGED <<machineVars, events, lastTransition, faulted>>

\* "Ensure exit/entry actions didn't call InternalEvent by accident"
OnEntryDone ==
  /\ In("onEntry")
  /\ IF m_eventGenerated THEN faulted' = TRUE /\ UNCHANGED frames
                         ELSE Goto("action") /\ UNCHANGED faulted
  /\ UNCHANGED <<machineVars, events, signalVars>>

StateEngine ==
  \/ BeginEx \/ BeginPlain \/ EngineReturns \/ GuardVetoes \/ GuardPasses
  \/ ExitActionDone \/ OnExitDone \/ EntryActionDone \/ OnEntryDone
  \/ ActionRaises \/ ActionReturns \/ OnTransitionDone

Next ==
  /\ ~faulted /\ UNCHANGED <<Reenters, Extended>>
  /\ \/ StateEngine
     \/ \E e \in Events : LET o == Transitions[e][m_currentState]
                          IN  CallEvent(o) \/ ReenterEvent(o)
     \/ \E t \in States : StrayRaise(t)

Spec == Init /\ [][Next]_flatVars

---------------------------------------------------------------------------
(* A subscriber that pairs OnExit with OnEntry always ends up with exactly   *)
(* the current state, as long as no slot of OnExit calls an event function:  *)
(* the state it has just been told is left would still be the current one.   *)
OccupiedAtRest ==
  AtRest /\ Extended /\ "onExit" \notin Reenters => occupied = {m_currentState}

(* A state action starts in its own state, with the data of an event that    *)
(* was aimed at that state, though the state entered is read from a member   *)
(* that user code could have changed since the row was fetched; none of the  *)
(* callbacks from the guard to OnEntry may call an event function for that.  *)
ActionStarts == /\ frames # <<>> /\ Len(frames') = Len(frames)
                /\ Top.at # "action" /\ Last(frames').at = "action"
ActionRunsInItsState ==
  [][ActionStarts /\ Reenters \subseteq {"action", "raised", "onTransition"} =>
       /\ m_currentState' = Last(frames').row
       /\ events'[Last(frames').data].target = m_currentState']_vars
===========================================================================
