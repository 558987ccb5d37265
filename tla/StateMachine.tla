--------------------------- MODULE StateMachine ---------------------------
(***************************************************************************)
(* class StateMachine, without its engines: the members, external events,   *)
(* internal events and the signals.                                         *)
(*                                                                         *)
(* An engine calls user code: guard, exit and entry actions, the state      *)
(* action, and the slots of the signals OnExit, OnEntry and OnTransition.   *)
(* While such a callback runs it may generate an internal event or call an  *)
(* event function of the same machine; the call runs a second StateEngine   *)
(* on top of the first.  frames is therefore the call stack: one frame for  *)
(* each StateEngine, holding its locals and the callback it is in.          *)
(*                                                                         *)
(* Everything here happens on one thread: the caller's in synchronous mode, *)
(* the machine's own thread in active-object mode.                          *)
(*                                                                         *)
(* FlatEngine and StateMachineHSM add StateEngine.                          *)
(***************************************************************************)
EXTENDS Naturals, SequencesExt

CONSTANTS
  States, InitialState,
  EVENT_IGNORED, CANNOT_HAPPEN,
  Guarded,         \* states whose row has a guard
  Raises,          \* [States -> SUBSET (States \cup {NoEvent})]: what a state action may raise
  StrayRaises,     \* callbacks that call InternalEvent although they must not
  ReenterChoices,  \* what Reenters may be
  NoEvent,
  MaxEvents        \* bound: events generated

\* What a transition map may say of a state.
Outcomes  == States \cup {EVENT_IGNORED, CANNOT_HAPPEN}
\* "raised" is the rest of a state action that has raised its internal event.
Callbacks == {"guard", "exit", "onExit", "entry", "onEntry", "action", "raised", "onTransition"}

ASSUME StateMachineAssumption ==
  /\ InitialState \in States
  /\ {EVENT_IGNORED, CANNOT_HAPPEN, NoEvent} \cap States = {}
  /\ EVENT_IGNORED # CANNOT_HAPPEN
  /\ Guarded \subseteq States
  /\ Raises \in [States -> SUBSET (States \cup {NoEvent})]
  /\ StrayRaises \subseteq {"exit", "onExit", "entry", "onEntry"}
  /\ ReenterChoices \subseteq SUBSET Callbacks /\ ReenterChoices # {}
  /\ MaxEvents \in Nat

VARIABLES
  Reenters,       \* callbacks that call an event function of the same machine; never changes
  m_currentState, m_newState, m_eventGenerated,
  m_pEventData,   \* identified with the event that brought it: an index of events, 0 for null
  frames,         \* the active StateEngine calls, innermost last
  events,         \* every event generated: its target and its fate
  occupied,       \* what a subscriber of OnEntry and OnExit takes for the occupied states
  lastTransition, \* arguments of the last OnTransition
  faulted         \* an assertion has stopped the program

machineVars == <<m_currentState, m_newState, m_eventGenerated, m_pEventData>>
signalVars  == <<occupied, lastTransition>>
vars == <<machineVars, frames, events, signalVars, faulted>>

---------------------------------------------------------------------------
Top == Last(frames)
In(at) == frames # <<>> /\ Top.at = at

Enter(f)  == frames' = Append(frames, f)
Update(f) == frames' = [frames EXCEPT ![Len(frames)] = f]
Goto(at)  == Update([Top EXCEPT !.at = at])
Leave     == frames' = Front(frames)

Fate(i, f) == [events EXCEPT ![i].fate = f]

\* The constructor; active are the states that count as occupied although they
\* were never entered.  (m_newState, 0 in the code, is read only after an event
\* has set it.)
StateMachineInit(active) ==
  /\ Reenters \in ReenterChoices
  /\ m_currentState = InitialState /\ m_newState = InitialState
  /\ m_eventGenerated = FALSE /\ m_pEventData = 0
  /\ frames = <<>> /\ events = <<>>
  /\ occupied = active /\ lastTransition = <<InitialState, InitialState>>
  /\ faulted = FALSE

---------------------------------------------------------------------------
(* Generating events.                                                       *)

\* InternalEvent stores the event; one that was still pending is overwritten.
InternalEvent(t) ==
  /\ Len(events) < MaxEvents
  /\ m_newState' = t /\ m_eventGenerated' = TRUE /\ m_pEventData' = Len(events) + 1
  /\ events' = Append(IF m_eventGenerated THEN Fate(m_pEventData, "overwritten") ELSE events,
                      [target |-> t, fate |-> "pending"])
  /\ UNCHANGED m_currentState

\* A StateEngine about to test m_eventGenerated; its locals are not set yet.
NewFrame == [at |-> "loop", row |-> InitialState, from |-> InitialState, data |-> 0, todo |-> <<>>]

\* ExternalEventImpl: the event, then the engine, which returns when Leave does.
ExternalEventImpl(t) ==
  InternalEvent(t) /\ Enter(NewFrame) /\ UNCHANGED <<signalVars, faulted>>

\* ExternalEvent on the machine's own thread, with the outcome looked up in the map.
ExternalEvent(o) ==
  \/ o = EVENT_IGNORED /\ UNCHANGED vars
  \/ o = CANNOT_HAPPEN /\ faulted' = TRUE /\ UNCHANGED <<machineVars, frames, events, signalVars>>
  \/ o \in States /\ ExternalEventImpl(o)

\* An event function called from outside any callback, or from inside one; o is
\* what its transition map says.
CallEvent(o)    == frames = <<>> /\ ExternalEvent(o)
ReenterEvent(o) == (\E c \in Reenters : In(c)) /\ ExternalEvent(o)

\* A callback that has no business generating events does.
StrayRaise(t) ==
  /\ \E c \in StrayRaises : In(c)
  /\ InternalEvent(t) /\ UNCHANGED <<frames, signalVars, faulted>>

---------------------------------------------------------------------------
(* What both engines do at the head of their loop, after a veto, and around  *)
(* the state action.                                                        *)

Consume ==
  /\ m_eventGenerated' = FALSE /\ m_pEventData' = 0

\* slip: the loop ends after one event
ReturnsEarly ==
  /\ In("loop")
  /\ Leave
  /\ UNCHANGED <<machineVars, events, signalVars, faulted>>

EngineReturns ==
  /\ In("loop") /\ ~m_eventGenerated
  /\ Leave
  /\ UNCHANGED <<machineVars, events, signalVars, faulted>>

GuardVetoes ==
  /\ In("guard") /\ Top.row \in Guarded
  /\ Goto("loop")
  /\ events' = Fate(Top.data, "vetoed")
  /\ UNCHANGED <<machineVars, signalVars, faulted>>

\* The state action raises an internal event, and may go on after that.
ActionRaises ==
  /\ In("action")
  /\ \E r \in Raises[Top.row] \ {NoEvent} : InternalEvent(r)
  /\ Goto("raised")
  /\ UNCHANGED <<signalVars, faulted>>

ActionReturns ==
  /\ In("raised") \/ (In("action") /\ NoEvent \in Raises[Top.row])
  /\ lastTransition' = <<Top.from, m_currentState>>       \* OnTransition
  /\ Goto("onTransition")
  /\ UNCHANGED <<machineVars, events, occupied, faulted>>

OnTransitionDone ==
  /\ In("onTransition")
  /\ Goto("loop")
  /\ UNCHANGED <<machineVars, events, signalVars, faulted>>

---------------------------------------------------------------------------
Frame == [at : Callbacks \cup {"loop"}, row : States, from : States,
          data : 0 .. MaxEvents, todo : Seq(States)]
Event == [target : States, fate : {"pending", "executed", "vetoed", "overwritten"}]

TypeOK ==
  /\ Reenters \in ReenterChoices
  /\ m_currentState \in States /\ m_newState \in States
  /\ m_eventGenerated \in BOOLEAN /\ m_pEventData \in 0 .. Len(events)
  /\ frames \in Seq(Frame) /\ events \in Seq(Event)
  /\ occupied \subseteq States /\ lastTransition \in States \X States
  /\ faulted \in BOOLEAN

AtRest == frames = <<>> /\ ~faulted

\* The callbacks that may run while an internal event is pending.
MayFindPending ==
  {"raised", "onTransition"} \cup
    (IF StrayRaises = {} THEN {} ELSE {"exit", "onExit", "entry", "onEntry"})

(* When no event function is executing, every event generated has been      *)
(* executed or vetoed: none is left behind and none was overwritten.  This   *)
(* needs the callbacks that can run with an internal event pending not to    *)
(* call an event function: the rest of a state action that raised it, the    *)
(* slots of OnTransition and, when a callback from the exit action on raises *)
(* one although it must not, that callback and those that follow it.         *)
NoEventLost ==
  AtRest /\ Reenters \cap MayFindPending = {} =>
    /\ ~m_eventGenerated
    /\ \A i \in DOMAIN events : events[i].fate \in {"executed", "vetoed"}

(* OnTransition reports a path: each call starts where the one before ended, *)
(* as long as no callback calls an event function.                          *)
TransitionsChain == [][lastTransition' # lastTransition /\ Reenters = {} =>
                         lastTransition'[1] = lastTransition[2]]_vars

(* "it cannot be interrupted by another external event until the external    *)
(* event and all internal events have completed execution"                  *)
RunToCompletion == Len(frames) <= 1
===========================================================================
