------------------------- MODULE FlatEngineProofs -------------------------
(***************************************************************************)
(* Theorems about the flat engine: the types, what becomes of the events,   *)
(* what a subscriber of the signals sees, and the state an action runs in.  *)
(* They hold for every machine, whatever its callbacks do, within the       *)
(* premise each property states.                                            *)
(***************************************************************************)
EXTENDS FlatEngine, StateMachineProofs

\* Unless a callback calls an event function that must not, the members still
\* name the state of the row fetched, until a stray event makes the engine stop.
StartInv ==
  Reenters \subseteq {"action", "raised", "onTransition"} /\ frames # <<>> =>
    /\ Top.at = "guard" => m_newState = Top.row
    /\ Top.at \in {"exit", "onExit"} => m_newState = Top.row \/ m_eventGenerated
    /\ Top.at \in {"entry", "onEntry"} => m_currentState = Top.row \/ m_eventGenerated

\* The callbacks where an event is a mistake, the events without a fate yet, those
\* that were overwritten, and whether some guard judges event e.
Stray     == {"exit", "onExit", "entry", "onEntry"}
Pending   == {e \in DOMAIN events : events[e].fate = "pending"}
Lost      == {e \in DOMAIN events : events[e].fate = "overwritten"}
Judged(e) == \E i \in DOMAIN frames : frames[i].at = "guard" /\ frames[i].data = e

\* An event is pending only before the engine loop has come round to it, or in
\* a callback that found it pending; an undecided event is the pending one or one
\* whose guard runs; one was overwritten only by a stray event, and the machine
\* does not get past that.
EventInv ==
  Reenters \cap MayFindPending = {} =>
    /\ m_eventGenerated => frames # <<>> /\ Top.at \in {"loop"} \cup MayFindPending
    /\ \A e \in Pending : (m_eventGenerated /\ e = m_pEventData) \/ Judged(e)
    /\ Lost # {} => m_eventGenerated /\ Top.at \in Stray

\* Outside a transition the occupied state is the current one; in the middle of
\* one none is, and some StateEngine on the stack has still to enter its state.
OccupiedInv ==
  Extended /\ "onExit" \notin Reenters =>
    /\ occupied \subseteq {m_currentState}
    /\ occupied # {} \/ \E i \in DOMAIN frames : frames[i].at \in {"onExit", "entry"}
    /\ In("onExit") => occupied = {}

\* With no nested call, the last transition reported ended in the current state
\* until SetCurrentState, and in the state being left until the next report.
ChainInv ==
  Reenters = {} =>
    /\ Len(frames) <= 1
    /\ (frames = <<>> \/ Top.at \in {"loop", "guard", "onTransition"}) =>
         lastTransition[2] = m_currentState
    /\ frames # <<>> /\ Top.at \notin {"loop", "guard", "onTransition"} =>
         lastTransition[2] = Top.from

---------------------------------------------------------------------------
(* The steps of the engine.                                                 *)

\* A machine without guards goes straight to the state action.
LEMMA FetchedPlain ==
  ASSUME TypeOK, StackInv, BeginPlain
  PROVE  TopBecomes("action", m_newState, m_currentState, m_pEventData)
<1> DEFINE f == [Top EXCEPT !.at = "action", !.row = m_newState, !.from = FromState,
                            !.data = m_pEventData]
<1>1. Top \in Frame /\ frames # <<>>
  BY TopIsAFrame DEF BeginPlain, In
<1>2. m_newState \in States /\ m_currentState \in States /\ m_pEventData \in 0 .. MaxEvents
  <2>1. events \in Seq(Event) /\ m_pEventData \in 0 .. Len(events) /\ Len(events) <= MaxEvents
    BY DEF TypeOK, StackInv
  <2>2. Len(events) \in Nat /\ MaxEvents \in Nat
    BY <2>1, LenProperties, StateMachineAssumption
  <2> QED
    BY <2>1, <2>2 DEF TypeOK
<1>3. /\ f \in Frame /\ f.at = "action" /\ f.row = m_newState
      /\ f.from = m_currentState /\ f.data = m_pEventData
  BY <1>1, <1>2 DEF Frame, Callbacks, FromState
<1>4. Update(f)
  BY DEF BeginPlain
<1> HIDE DEF f
<1>5. TopBecomes(f.at, f.row, f.from, f.data)
  BY <1>1, <1>3, <1>4, Updated
<1> QED
  BY <1>3, <1>5

\* A guard that passes leads to the exit action, or at once to the state action.
LEMMA Passed ==
  ASSUME TypeOK, GuardPasses
  PROVE  TopBecomes(IF m_newState # m_currentState THEN "exit" ELSE "action",
                    Top.row, m_currentState, Top.data)
<1> DEFINE a == IF m_newState # m_currentState THEN "exit" ELSE "action"
           f == [Top EXCEPT !.from = FromState, !.at = a]
<1>1. Top \in Frame /\ frames # <<>>
  BY TopIsAFrame DEF GuardPasses, In
<1>2. m_currentState \in States /\ a \in {"exit", "action"}
  BY DEF TypeOK
<1>3. Update(f)
  BY DEF GuardPasses
<1> HIDE DEF a
<1>4. /\ f \in Frame /\ f.at = a /\ f.row = Top.row
      /\ f.from = m_currentState /\ f.data = Top.data
  BY <1>1, <1>2 DEF Frame, Callbacks, FromState
<1> HIDE DEF f
<1>5. TopBecomes(f.at, f.row, f.from, f.data)
  BY <1>1, <1>3, <1>4, Updated
<1> QED
  BY <1>4, <1>5 DEF a

\* Every step is one of the engine, a call, a stray event or stands.
LEMMA StepKinds ==
  ASSUME Next
  PROVE  /\ ~faulted /\ UNCHANGED <<Reenters, Extended>>
         /\ StateEngine \/ Called \/ StrayCalled \/ Stands
<1>1. ASSUME NEW e \in Events,
             LET o == Transitions[e][m_currentState] IN CallEvent(o) \/ ReenterEvent(o)
      PROVE  Called \/ Stands
  BY <1>1, CallKinds
<1> QED
  BY <1>1 DEF Next, StrayCalled

\* The steps of the engine, one by one, and in which frame each runs.
LEMMA EngineKinds ==
  ASSUME StateEngine
  PROVE  /\ frames # <<>>
         /\ \/ BeginEx \/ BeginPlain \/ EngineReturns \/ GuardVetoes \/ GuardPasses
            \/ ExitActionDone \/ OnExitDone \/ EntryActionDone \/ OnEntryDone
            \/ ActionRaises \/ ActionReturns \/ OnTransitionDone
  BY DEF StateEngine, BeginEx, BeginPlain, EngineReturns, GuardVetoes, GuardPasses,
         ExitActionDone, OnExitDone, EntryActionDone, OnEntryDone,
         ActionRaises, ActionReturns, OnTransitionDone, In

---------------------------------------------------------------------------
(* The invariant of StateMachineProofs holds of the flat engine.             *)

\* The constructor of a flat machine establishes the invariant.
LEMMA EngineInit == Init => EngineInv
<1>1. {InitialState} \subseteq States
  BY StateMachineAssumption
<1> QED
  BY <1>1, EngineStarts DEF Init

\* Every step of the flat engine keeps the invariant of both engines.
LEMMA EngineStep == EngineInv /\ [Next]_flatVars => EngineInv'
<1> SUFFICES ASSUME EngineInv, [Next]_flatVars PROVE EngineInv'
  OBVIOUS
<1> USE DEF signalVars, machineVars
<1>1. CASE UNCHANGED flatVars
  BY <1>1 DEF flatVars, vars, EngineInv, TypeOK, StackInv, DataInv
<1>2. CASE Next
  <2>1. ~faulted /\ Reenters' = Reenters /\ (StateEngine \/ Called \/ StrayCalled \/ Stands)
    BY <1>2, StepKinds
  <2>2. TypeOK /\ StackInv /\ DataInv
    BY DEF EngineInv
  <2>4. CASE Stands
    <3>1. faulted' \in BOOLEAN
      BY <1>2, <2>2, <2>4 DEF Next, TypeOK, StateEngine, BeginEx, BeginPlain, EngineReturns,
         GuardVetoes, GuardPasses, ExitActionDone, OnExitDone, EntryActionDone, OnEntryDone,
         ActionRaises, ActionReturns, OnTransitionDone, CallEvent, ReenterEvent,
         ExternalEvent, ExternalEventImpl, StrayRaise, vars
    <3> QED
      BY <2>1, <2>4, <3>1, StandingKeepsEngine
  <2>5. CASE Called \/ StrayCalled
    BY <2>1, <2>5, CalledKeepsEngine, StrayKeepsEngine
  <2>7. CASE StateEngine
    <3>1. frames # <<>> /\ Top \in Frame /\ Top = frames[Len(frames)] /\ Len(frames) \in DOMAIN frames
      BY <2>2, <2>7, EngineKinds, TopIsAFrame
    <3>2. Top.at \in Entering => Top.data \in DOMAIN events /\ events[Top.data].target = Top.row
      BY <2>2, <3>1 DEF DataInv
    <3>3. \A i : \A fate \in {"executed", "vetoed"} : events' = Fate(i, fate) =>
            /\ events' \in Seq(Event) /\ Len(events') = Len(events)
            /\ \A e \in DOMAIN events : events'[e].target = events[e].target
      BY FateKeepsTargets
    <3>6. events \in Seq(Event)
      BY <2>2 DEF TypeOK
    <3>4. CASE BeginEx
      <4>1. TopBecomes("guard", m_newState, Top.from, m_pEventData)
        BY <2>2, <3>1, <3>4, Fetched DEF BeginEx
      <4>2. m_eventGenerated /\ m_eventGenerated' = FALSE /\ m_pEventData' = 0
            /\ UNCHANGED <<m_currentState, m_newState, events, signalVars, faulted>>
        BY <3>4 DEF BeginEx, Consume
      <4> QED
        BY <2>1, <2>2, <3>6, <3>1, <4>1, <4>2, MoveKeepsEngine DEF DataInv, TypeOK
    <3>5. CASE BeginPlain
      <4>1. TopBecomes("action", m_newState, m_currentState, m_pEventData)
        BY <2>2, <3>5, FetchedPlain
      <4>2. /\ m_eventGenerated /\ m_eventGenerated' = FALSE /\ m_pEventData' = 0
            /\ m_currentState' = m_newState /\ events' = Fate(m_pEventData, "executed")
            /\ UNCHANGED <<m_newState, signalVars, faulted>>
        BY <3>5 DEF BeginPlain, Consume, EnteredState
      <4> QED
        BY <2>1, <2>2, <3>1, <3>3, <4>1, <4>2, MoveKeepsEngine DEF TypeOK, Entering
    <3>8. CASE GuardPasses
      <4>1. events' = Fate(Top.data, "executed") /\ Top.at = "guard"
            /\ UNCHANGED <<machineVars, signalVars, faulted>>
        BY <3>8 DEF GuardPasses, In
      <4>2. TopBecomes(IF m_newState # m_currentState THEN "exit" ELSE "action",
                       Top.row, m_currentState, Top.data)
        BY <2>2, <3>8, Passed
      <4> QED
        BY <2>1, <2>2, <3>1, <3>2, <3>3, <4>1, <4>2, MoveKeepsEngine DEF TypeOK, Entering
    <3>9. CASE ExitActionDone \/ EntryActionDone
      <4>1. PICK at \in {"onExit", "onEntry"} : Goto(at)
        BY <3>9 DEF ExitActionDone, EntryActionDone
      <4>2. /\ Top.at \in Entering /\ occupied' \subseteq States
            /\ UNCHANGED <<machineVars, events, lastTransition, faulted>>
        BY <2>2, <3>9 DEF ExitActionDone, EntryActionDone, In, Entering, TypeOK
      <4>3. TopBecomes(at, Top.row, Top.from, Top.data)
        BY <2>2, <3>1, <4>1, Gone DEF Callbacks
      <4> QED
        BY <2>1, <2>2, <3>6, <3>1, <3>2, <4>2, <4>3, MoveKeepsEngine DEF TypeOK
    <3>10. CASE OnExitDone
      <4>1. Goto("entry") /\ Top.at \in Entering /\ m_currentState' = m_newState
            /\ UNCHANGED <<m_newState, m_eventGenerated, m_pEventData, events, signalVars, faulted>>
        BY <3>10 DEF OnExitDone, In, Entering, EnteredState
      <4>2. TopBecomes("entry", Top.row, Top.from, Top.data)
        BY <2>2, <3>1, <4>1, Gone DEF Callbacks
      <4> QED
        BY <2>1, <2>2, <3>6, <3>1, <3>2, <4>1, <4>2, MoveKeepsEngine DEF TypeOK
    <3>11. CASE OnEntryDone
      <4>1. CASE m_eventGenerated
        BY <2>1, <2>2, <3>11, <4>1 DEF OnEntryDone, EngineInv, TypeOK, StackInv, DataInv
      <4>2. CASE ~m_eventGenerated
        <5>1. Goto("action") /\ UNCHANGED <<machineVars, events, signalVars, faulted>>
          BY <3>11, <4>2 DEF OnEntryDone
        <5>2. TopBecomes("action", Top.row, Top.from, Top.data)
          BY <2>2, <3>1, <5>1, Gone DEF Callbacks
        <5> QED
          BY <2>1, <2>2, <3>6, <3>1, <5>1, <5>2, MoveKeepsEngine DEF TypeOK, Entering
      <4> QED
        BY <4>1, <4>2
    <3>12. CASE SharedSteps
      BY <2>1, <3>12, SharedKeepsEngine
    <3> QED
      BY <2>7, <3>4, <3>5, <3>8, <3>9, <3>10, <3>11, <3>12 DEF StateEngine, SharedSteps
  <2> QED
    BY <2>1, <2>4, <2>5, <2>7
<1> QED
  BY <1>1, <1>2

\* Every variable of the machine keeps its type, no StateEngine but the innermost
\* is in a callback that cannot have called an event function, and each event a
\* StateEngine works on exists and was aimed at the state whose row it fetched:
\* StateEngine and InternalEvent for any machine and any callbacks.
THEOREM EngineInvHolds == Spec => []EngineInv
<1>1. Init => EngineInv
  BY EngineInit
<1>2. EngineInv /\ [Next]_flatVars => EngineInv'
  BY EngineStep
<1> QED
  BY <1>1, <1>2, PTL DEF Spec

\* Every variable of the machine keeps its type.
THEOREM TypeCorrect == Spec => []TypeOK
<1>1. EngineInv => TypeOK
  BY DEF EngineInv
<1> QED
  BY <1>1, EngineInvHolds, PTL

---------------------------------------------------------------------------
(* Where the steps leave the frames, in the terms the invariants use.       *)

\* Where each step of the engine leaves the innermost StateEngine.
LEMMA EngineMoves ==
  ASSUME EngineInv, StateEngine
  PROVE  /\ BeginEx => TopBecomes("guard", m_newState, Top.from, m_pEventData)
         /\ BeginPlain => TopBecomes("action", m_newState, m_currentState, m_pEventData)
         /\ GuardVetoes => TopBecomes("loop", Top.row, Top.from, Top.data)
         /\ GuardPasses => TopBecomes(IF m_newState # m_currentState THEN "exit" ELSE "action",
                                      Top.row, m_currentState, Top.data)
         /\ ExitActionDone => TopBecomes("onExit", Top.row, Top.from, Top.data)
         /\ OnExitDone => TopBecomes("entry", Top.row, Top.from, Top.data)
         /\ EntryActionDone => TopBecomes("onEntry", Top.row, Top.from, Top.data)
         /\ OnEntryDone /\ ~m_eventGenerated => TopBecomes("action", Top.row, Top.from, Top.data)
         /\ ActionRaises => TopBecomes("raised", Top.row, Top.from, Top.data)
         /\ ActionReturns => TopBecomes("onTransition", Top.row, Top.from, Top.data)
         /\ OnTransitionDone => TopBecomes("loop", Top.row, Top.from, Top.data)
<1>1. TypeOK /\ StackInv /\ frames # <<>>
  BY EngineKinds DEF EngineInv
<1>2. \A at \in Callbacks \cup {"loop"} : Goto(at) => TopBecomes(at, Top.row, Top.from, Top.data)
  BY <1>1, Gone
<1>3. BeginEx => TopBecomes("guard", m_newState, Top.from, m_pEventData)
  BY <1>1, Fetched DEF BeginEx
<1>4. BeginPlain => TopBecomes("action", m_newState, m_currentState, m_pEventData)
  BY <1>1, FetchedPlain
<1>5. GuardPasses => TopBecomes(IF m_newState # m_currentState THEN "exit" ELSE "action",
                                Top.row, m_currentState, Top.data)
  BY <1>1, Passed
<1>6. /\ GuardVetoes \/ OnTransitionDone => Goto("loop")
      /\ ExitActionDone => Goto("onExit")
      /\ OnExitDone => Goto("entry")
      /\ EntryActionDone => Goto("onEntry")
      /\ OnEntryDone /\ ~m_eventGenerated => Goto("action")
      /\ ActionRaises => Goto("raised")
      /\ ActionReturns => Goto("onTransition")
  BY DEF GuardVetoes, OnTransitionDone, ExitActionDone, OnExitDone, EntryActionDone,
         OnEntryDone, ActionRaises, ActionReturns
<1> QED
  BY <1>2, <1>3, <1>4, <1>5, <1>6 DEF Callbacks

---------------------------------------------------------------------------
(* The subscriber of OnExit and OnEntry.                                    *)

\* A step changes the occupied states only between exit and entry, and back.
LEMMA OccupiedStep ==
  EngineInv /\ OccupiedInv /\ [Next]_flatVars => OccupiedInv'
<1> SUFFICES ASSUME EngineInv, OccupiedInv, [Next]_flatVars,
                    Extended', "onExit" \notin Reenters'
             PROVE  /\ occupied' \subseteq {m_currentState'}
                    /\ \/ occupied' # {}
                       \/ \E i \in DOMAIN frames' : frames'[i].at \in {"onExit", "entry"}
                    /\ frames' # <<>> /\ Top'.at = "onExit" => occupied' = {}
  BY DEF OccupiedInv, In
<1> USE DEF signalVars, machineVars
<1>1. CASE UNCHANGED flatVars
  BY <1>1 DEF flatVars, vars, OccupiedInv, In, Top
<1>2. CASE Next
  <2>1. Extended /\ "onExit" \notin Reenters /\ Reenters' = Reenters
        /\ (StateEngine \/ Called \/ StrayCalled \/ Stands)
    BY <1>2, StepKinds
  <2>2. /\ occupied \subseteq {m_currentState}
        /\ occupied # {} \/ \E i \in DOMAIN frames : frames[i].at \in {"onExit", "entry"}
        /\ frames # <<>> /\ Top.at = "onExit" => occupied = {}
    BY <2>1 DEF OccupiedInv, In
  <2>3. TypeOK /\ StackInv
    BY DEF EngineInv
  <2>4. CASE Stands \/ StrayCalled
    <3>1. UNCHANGED <<frames, occupied, m_currentState>>
      BY <2>4 DEF Stands, StrayCalled, StrayRaise, InternalEvent
    <3> QED
      BY <2>2, <3>1 DEF Top
  <2>5. CASE Called
    <3>1. Enter(NewFrame) /\ UNCHANGED <<occupied, m_currentState>>
      BY <2>5 DEF Called, ExternalEventImpl, InternalEvent
    <3>2. /\ \A i \in 1 .. Len(frames) : frames'[i] = frames[i]
          /\ DOMAIN frames' = DOMAIN frames \cup {Len(frames) + 1} /\ Top'.at = "loop"
      BY <2>3, <3>1, Entered
    <3>3. DOMAIN frames = 1 .. Len(frames)
      BY <2>3, LenProperties DEF TypeOK
    <3> QED
      BY <2>2, <3>1, <3>2, <3>3
  <2>6. CASE StateEngine
    <3>1. frames # <<>>
      BY <2>6, EngineKinds
    <3>2. ASSUME NEW at, NEW row, NEW from, NEW data, TopBecomes(at, row, from, data)
          PROVE  /\ DOMAIN frames' = DOMAIN frames /\ Top'.at = at /\ frames'[Len(frames)].at = at
                 /\ Len(frames) \in DOMAIN frames /\ Top = frames[Len(frames)]
                 /\ \A i \in DOMAIN frames : i # Len(frames) => frames'[i] = frames[i]
      BY <3>1, <3>2, OthersStay
    <3>3. ASSUME NEW at, NEW row, NEW from, NEW data, TopBecomes(at, row, from, data),
                 Top.at \notin {"onExit", "entry"}, at \notin {"onExit", "entry"}
          PROVE  /\ (\E i \in DOMAIN frames : frames[i].at \in {"onExit", "entry"})
                      => \E i \in DOMAIN frames' : frames'[i].at \in {"onExit", "entry"}
                 /\ Top'.at # "onExit"
      BY <3>1, <3>2, <3>3
    <3>4. CASE BeginEx
      <4>1. TopBecomes("guard", m_newState, Top.from, m_pEventData)
        BY <2>6, <3>4, EngineMoves
      <4>2. Top.at = "loop" /\ UNCHANGED <<m_currentState, occupied>>
        BY <3>4 DEF BeginEx, In
      <4> QED
        BY <2>2, <3>3, <4>1, <4>2
    <3>5. CASE BeginPlain
      BY <2>1, <3>5 DEF BeginPlain
    <3>6. CASE EngineReturns
      <4>1. Leave /\ Top.at = "loop" /\ UNCHANGED <<m_currentState, occupied>>
        BY <3>6 DEF EngineReturns, In
      <4>2. /\ \A i \in 1 .. Len(frames) - 1 : frames'[i] = frames[i]
            /\ DOMAIN frames' = 1 .. Len(frames) - 1
        BY <2>3, <3>1, <4>1, Left
      <4>4. /\ Top = frames[Len(frames)]
            /\ \A i \in DOMAIN frames : i = Len(frames) \/ i \in 1 .. Len(frames) - 1
        BY <2>3, <3>1, TopIsAFrame
      <4>3. frames' # <<>> => Top'.at # "onExit"
        BY <2>1, <3>1, <4>1, Uncovered
      <4> QED
        BY <2>2, <4>1, <4>2, <4>3, <4>4
    <3>7. CASE GuardVetoes
      <4>1. Goto("loop") /\ Top.at = "guard" /\ UNCHANGED <<m_currentState, occupied>>
        BY <3>7 DEF GuardVetoes, In
      <4>2. TopBecomes("loop", Top.row, Top.from, Top.data)
        BY <2>6, <3>7, EngineMoves
      <4> QED
        BY <2>2, <3>3, <4>1, <4>2
    <3>8. CASE GuardPasses
      <4>1. Top.at = "guard" /\ UNCHANGED <<m_currentState, occupied>>
        BY <3>8 DEF GuardPasses, In
      <4>2. TopBecomes(IF m_newState # m_currentState THEN "exit" ELSE "action",
                       Top.row, m_currentState, Top.data)
        BY <2>6, <3>8, EngineMoves
      <4> QED
        BY <2>2, <3>3, <4>1, <4>2
    <3>9. CASE ExitActionDone
      <4>1. Goto("onExit") /\ occupied' = occupied \ {m_currentState} /\ m_currentState' = m_currentState
        BY <3>9 DEF ExitActionDone
      <4>2. TopBecomes("onExit", Top.row, Top.from, Top.data)
        BY <2>6, <3>9, EngineMoves
      <4> QED
        BY <2>2, <3>1, <3>2, <4>1, <4>2
    <3>10. CASE OnExitDone
      <4>1. Goto("entry") /\ Top.at = "onExit" /\ occupied' = occupied
        BY <3>10 DEF OnExitDone, In
      <4>2. TopBecomes("entry", Top.row, Top.from, Top.data)
        BY <2>6, <3>10, EngineMoves
      <4> QED
        BY <2>2, <3>1, <3>2, <4>1, <4>2
    <3>11. CASE EntryActionDone
      <4>1. Goto("onEntry") /\ occupied' = occupied \cup {m_currentState}
            /\ m_currentState' = m_currentState
        BY <3>11 DEF EntryActionDone
      <4>2. TopBecomes("onEntry", Top.row, Top.from, Top.data)
        BY <2>6, <3>11, EngineMoves
      <4> QED
        BY <2>2, <3>2, <4>1, <4>2
    <3>12. CASE OnEntryDone \/ ActionRaises \/ ActionReturns \/ OnTransitionDone
      <4>1. Top.at \notin {"onExit", "entry"} /\ UNCHANGED <<m_currentState, occupied>>
        BY <3>12 DEF OnEntryDone, ActionRaises, ActionReturns, OnTransitionDone, In, InternalEvent
      <4>2. CASE frames' = frames
        BY <2>2, <4>1, <4>2 DEF Top
      <4>3. CASE frames' # frames
        <5>1. OnEntryDone => ~m_eventGenerated
          BY <4>3 DEF OnEntryDone
        <5>2. PICK at \in {"action", "raised", "onTransition", "loop"} :
                TopBecomes(at, Top.row, Top.from, Top.data)
          BY <2>6, <3>12, <5>1, EngineMoves
        <5> QED
          BY <2>2, <3>3, <4>1, <5>2
      <4> QED
        BY <4>2, <4>3
    <3> QED
      BY <2>6, <3>4, <3>5, <3>6, <3>7, <3>8, <3>9, <3>10, <3>11, <3>12 DEF StateEngine
  <2> QED
    BY <2>1, <2>4, <2>5, <2>6
<1> QED
  BY <1>1, <1>2

\* A subscriber that pairs OnExit with OnEntry always ends up with exactly the
\* current state: between two events of a machine with entry and exit actions
\* the state signalled as entered and not yet as left is the current one.
THEOREM SubscriberSeesCurrentState == Spec => []OccupiedAtRest
<1>1. Init => OccupiedInv
  BY DEF Init, StateMachineInit, OccupiedInv, In
<1>2. EngineInv /\ OccupiedInv /\ [Next]_flatVars => OccupiedInv'
  BY OccupiedStep
<1>3. EngineInv /\ OccupiedInv => OccupiedAtRest
  BY EmptySeq DEF OccupiedInv, OccupiedAtRest, AtRest
<1> QED
  BY <1>1, <1>2, <1>3, EngineInvHolds, PTL DEF Spec

---------------------------------------------------------------------------
(* The state an action runs in.                                             *)

\* Only SetCurrentState and an event change what the members name.
LEMMA StartStep ==
  EngineInv /\ StartInv /\ [Next]_flatVars => StartInv'
<1> SUFFICES ASSUME EngineInv, StartInv, [Next]_flatVars,
                    Reenters' \subseteq {"action", "raised", "onTransition"}, frames' # <<>>
             PROVE  /\ Top'.at = "guard" => m_newState' = Top'.row
                    /\ Top'.at \in {"exit", "onExit"} => m_newState' = Top'.row \/ m_eventGenerated'
                    /\ Top'.at \in {"entry", "onEntry"} => m_currentState' = Top'.row \/ m_eventGenerated'
  BY DEF StartInv
<1> USE DEF machineVars
<1>1. CASE UNCHANGED flatVars
  BY <1>1 DEF flatVars, vars, StartInv, Top
<1>2. CASE Next
  <2>1. Reenters \subseteq {"action", "raised", "onTransition"}
        /\ (StateEngine \/ Called \/ StrayCalled \/ Stands)
    BY <1>2, StepKinds
  <2>2. frames # <<>> =>
          /\ Top.at = "guard" => m_newState = Top.row
          /\ Top.at \in {"exit", "onExit"} => m_newState = Top.row \/ m_eventGenerated
          /\ Top.at \in {"entry", "onEntry"} => m_currentState = Top.row \/ m_eventGenerated
    BY <2>1 DEF StartInv
  <2>3. CASE Stands
    BY <2>2, <2>3 DEF Stands, Top
  <2>4. CASE StrayCalled
    <3>1. m_eventGenerated' = TRUE /\ frames' = frames /\ Top.at \in StrayRaises
      BY <2>4 DEF StrayCalled, StrayRaise, InternalEvent, In
    <3>2. Top.at # "guard" /\ Top' = Top
      BY <3>1, StateMachineAssumption DEF Top
    <3> QED
      BY <3>1, <3>2
  <2>5. CASE Called
    <3>1. Enter(NewFrame) /\ TypeOK
      BY <2>5 DEF Called, ExternalEventImpl, EngineInv
    <3> QED
      BY <3>1, Entered
  <2>6. CASE StateEngine
    <3>1. frames # <<>>
      BY <2>6, EngineKinds
    <3>2. ASSUME NEW at, NEW row, NEW from, NEW data, TopBecomes(at, row, from, data)
          PROVE  Top'.at = at /\ Top'.row = row
      BY <3>2 DEF TopBecomes
    <3>3. CASE BeginEx
      BY <2>6, <3>2, <3>3, EngineMoves DEF BeginEx
    <3>4. CASE EngineReturns
      <4>1. Top'.at \in Reenters
        BY <3>1, <3>4, Uncovered DEF EngineReturns
      <4> QED
        BY <2>1, <4>1
    <3>5. CASE GuardPasses
      <4>1. Top.at = "guard" /\ m_newState' = m_newState
        BY <3>5 DEF GuardPasses, In
      <4>2. Top'.at \in {"exit", "action"} /\ Top'.row = Top.row
        BY <2>6, <3>2, <3>5, EngineMoves
      <4> QED
        BY <2>2, <3>1, <4>1, <4>2
    <3>6. CASE ExitActionDone \/ OnExitDone
      <4>1. /\ Top.at \in {"exit", "onExit"} /\ UNCHANGED <<m_newState, m_eventGenerated>>
            /\ OnExitDone => m_currentState' = m_newState
        BY <3>6 DEF ExitActionDone, OnExitDone, In, EnteredState
      <4>2. /\ Top'.row = Top.row
            /\ (ExitActionDone /\ Top'.at = "onExit") \/ (OnExitDone /\ Top'.at = "entry")
        BY <2>6, <3>2, <3>6, EngineMoves
      <4> QED
        BY <2>2, <3>1, <4>1, <4>2
    <3>7. CASE EntryActionDone
      <4>1. Top.at = "entry" /\ UNCHANGED <<m_currentState, m_eventGenerated>>
        BY <3>7 DEF EntryActionDone, In
      <4>2. Top'.row = Top.row /\ Top'.at = "onEntry"
        BY <2>6, <3>2, <3>7, EngineMoves
      <4> QED
        BY <2>2, <3>1, <4>1, <4>2
    <3>8. CASE OnEntryDone /\ m_eventGenerated
      BY <2>2, <3>8 DEF OnEntryDone, Top
    <3>9. CASE BeginPlain \/ GuardVetoes \/ (OnEntryDone /\ ~m_eventGenerated)
               \/ ActionRaises \/ ActionReturns \/ OnTransitionDone
      BY <2>6, <3>2, <3>9, EngineMoves
    <3> QED
      BY <2>6, <3>3, <3>4, <3>5, <3>6, <3>7, <3>8, <3>9 DEF StateEngine
  <2> QED
    BY <2>1, <2>3, <2>4, <2>5, <2>6
<1> QED
  BY <1>1, <1>2

\* The three steps that start a state action start it in the state of the row
\* fetched, with an event that was aimed at it.
LEMMA StartsRight ==
  ASSUME EngineInv, StartInv, Next, ActionStarts,
         Reenters \subseteq {"action", "raised", "onTransition"}
  PROVE  /\ m_currentState' = Last(frames').row
         /\ events'[Last(frames').data].target = m_currentState'
<1> USE DEF machineVars
<1>1. frames # <<>> /\ Len(frames') = Len(frames) /\ Top.at # "action" /\ Top'.at = "action"
      /\ Top' = Last(frames')
  BY DEF ActionStarts, Top
<1>2. TypeOK /\ StackInv /\ DataInv
  BY DEF EngineInv
<1>3. events \in Seq(Event) /\ Len(frames) \in Nat /\ Len(frames) \in DOMAIN frames
      /\ Top = frames[Len(frames)]
  BY <1>1, <1>2, TopIsAFrame DEF TypeOK
<1>4. /\ Top.at = "guard" => m_newState = Top.row
      /\ Top.at \in {"entry", "onEntry"} => m_currentState = Top.row \/ m_eventGenerated
  BY <1>1 DEF StartInv
<1>5. Top.at \in Entering => Top.data \in DOMAIN events /\ events[Top.data].target = Top.row
  BY <1>2, <1>3 DEF DataInv
<1>6. ASSUME NEW i, events' = Fate(i, "executed")
      PROVE  \A e \in DOMAIN events : events'[e].target = events[e].target
  <2>1. events' = Decide(events, i, "executed")
    BY <1>6 DEF Fate, Decide
  <2> QED
    BY <1>3, <2>1, FateDecided
<1>7. StateEngine
  <2>1. ~Called
    <3>1. Called => Len(frames') = Len(frames) + 1
      BY <1>2, Entered DEF Called, ExternalEventImpl
    <3> QED
      BY <1>1, <1>3, <3>1
  <2>2. ~StrayCalled /\ ~Stands
    BY <1>1 DEF StrayCalled, StrayRaise, Stands, Top
  <2> QED
    BY <2>1, <2>2, StepKinds
<1>8. ASSUME NEW at, NEW row, NEW from, NEW data, TopBecomes(at, row, from, data)
      PROVE  Top'.at = at /\ Top'.row = row /\ Top'.data = data
  BY <1>8 DEF TopBecomes
<1>9. CASE BeginPlain
  <2>1. m_eventGenerated /\ m_currentState' = m_newState /\ events' = Fate(m_pEventData, "executed")
    BY <1>9 DEF BeginPlain, EnteredState
  <2>2. Top'.row = m_newState /\ Top'.data = m_pEventData
    BY <1>7, <1>8, <1>9, EngineMoves
  <2>3. m_pEventData \in DOMAIN events /\ events[m_pEventData].target = m_newState
    BY <1>2, <2>1 DEF DataInv
  <2> QED
    BY <1>1, <1>6, <2>1, <2>2, <2>3
<1>10. CASE GuardPasses
  <2>1. Top.at = "guard" /\ m_currentState' = m_currentState /\ events' = Fate(Top.data, "executed")
    BY <1>10 DEF GuardPasses, In
  <2>2. Top'.at = (IF m_newState # m_currentState THEN "exit" ELSE "action")
        /\ Top'.row = Top.row /\ Top'.data = Top.data
    BY <1>7, <1>8, <1>10, EngineMoves
  <2>3. m_newState = m_currentState
    BY <1>1, <2>2
  <2> QED
    BY <1>1, <1>4, <1>5, <1>6, <2>1, <2>2, <2>3 DEF Entering
<1>11. CASE OnEntryDone
  <2>1. ~m_eventGenerated
    BY <1>1, <1>11 DEF OnEntryDone, Top
  <2>2. Top.at = "onEntry" /\ m_currentState' = m_currentState /\ events' = events
    BY <1>11 DEF OnEntryDone, In
  <2>3. Top'.row = Top.row /\ Top'.data = Top.data
    BY <1>7, <1>8, <1>11, <2>1, EngineMoves
  <2> QED
    BY <1>1, <1>4, <1>5, <2>1, <2>2, <2>3 DEF Entering
<1>12. CASE EngineReturns
  <2>1. Len(frames') = Len(frames) - 1
    BY <1>1, <1>2, <1>12, Left DEF EngineReturns
  <2> QED
    BY <1>1, <1>3, <2>1
<1>13. CASE BeginEx \/ GuardVetoes \/ ExitActionDone \/ OnExitDone \/ EntryActionDone
            \/ ActionRaises \/ ActionReturns \/ OnTransitionDone
  BY <1>1, <1>7, <1>8, <1>13, EngineMoves
<1> QED
  BY <1>7, <1>9, <1>10, <1>11, <1>12, <1>13 DEF StateEngine

\* A state action starts in its own state, with the data of an event that was
\* aimed at that state, although StateEngine reads m_newState again after the
\* guard, the exit action and OnExit have run.
THEOREM ActionInItsState == Spec => ActionRunsInItsState
<1>1. Init => StartInv
  BY DEF Init, StateMachineInit, StartInv
<1>2. EngineInv /\ StartInv /\ [Next]_flatVars => StartInv'
  BY StartStep
<1>3. EngineInv /\ StartInv /\ [Next]_flatVars =>
        [ActionStarts /\ Reenters \subseteq {"action", "raised", "onTransition"} =>
           /\ m_currentState' = Last(frames').row
           /\ events'[Last(frames').data].target = m_currentState']_vars
  BY StartsRight DEF flatVars
<1> QED
  BY <1>1, <1>2, <1>3, EngineInvHolds, PTL DEF Spec, ActionRunsInItsState

---------------------------------------------------------------------------
(* The path OnTransition reports.                                           *)

\* Only the end of a state action reports a transition, from the state last reported.
LEMMA ChainStep ==
  ASSUME EngineInv, ChainInv, [Next]_flatVars
  PROVE  /\ ChainInv'
         /\ lastTransition' # lastTransition /\ Reenters = {} =>
              lastTransition'[1] = lastTransition[2]
<1> SUFFICES ASSUME Reenters = {}
             PROVE  /\ Len(frames') <= 1
                    /\ (frames' = <<>> \/ Top'.at \in {"loop", "guard", "onTransition"}) =>
                         lastTransition'[2] = m_currentState'
                    /\ frames' # <<>> /\ Top'.at \notin {"loop", "guard", "onTransition"} =>
                         lastTransition'[2] = Top'.from
                    /\ lastTransition' # lastTransition => lastTransition'[1] = lastTransition[2]
  <2>1. Reenters' = Reenters
    BY StepKinds DEF flatVars, vars
  <2> QED
    BY <2>1 DEF ChainInv
<1> USE DEF machineVars, signalVars
<1>1. /\ Len(frames) <= 1
      /\ (frames = <<>> \/ Top.at \in {"loop", "guard", "onTransition"}) =>
           lastTransition[2] = m_currentState
      /\ frames # <<>> /\ Top.at \notin {"loop", "guard", "onTransition"} =>
           lastTransition[2] = Top.from
  BY DEF ChainInv
<1>2. TypeOK /\ StackInv
  BY DEF EngineInv
<1>3. CASE UNCHANGED flatVars
  BY <1>1, <1>3 DEF flatVars, vars, Top
<1>4. CASE Next
  <2>1. StateEngine \/ Called \/ StrayCalled \/ Stands
    BY <1>4, StepKinds
  <2>2. CASE Stands \/ StrayCalled
    <3>1. UNCHANGED <<frames, lastTransition, m_currentState>>
      BY <2>2 DEF Stands, StrayCalled, StrayRaise, InternalEvent
    <3> QED
      BY <1>1, <3>1 DEF Top
  <2>3. CASE Called
    <3>1. frames = <<>> /\ Enter(NewFrame) /\ UNCHANGED <<lastTransition, m_currentState>>
      BY <2>3 DEF Called, ExternalEventImpl, InternalEvent
    <3>2. Len(frames) = 0 /\ frames' # <<>> /\ Len(frames') = Len(frames) + 1 /\ Top'.at = "loop"
      BY <1>2, <3>1, Entered, EmptySeq
    <3> QED
      BY <1>1, <3>1, <3>2
  <2>4. CASE StateEngine
    <3>1. frames # <<>>
      BY <2>4, EngineKinds
    <3>2. ASSUME NEW at, NEW row, NEW from, NEW data, TopBecomes(at, row, from, data)
          PROVE  Len(frames') = Len(frames) /\ frames' # <<>> /\ Top'.at = at /\ Top'.from = from
      BY <3>2 DEF TopBecomes
    <3>3. CASE EngineReturns
      <4>1. Leave /\ Top.at = "loop" /\ UNCHANGED <<lastTransition, m_currentState>>
        BY <3>3 DEF EngineReturns, In
      <4>2. frames' = <<>>
        BY <3>1, <4>1, Uncovered
      <4>3. Len(frames') = 0
        BY <4>2, EmptySeq
      <4> QED
        BY <1>1, <3>1, <4>1, <4>2, <4>3
    <3>4. CASE BeginEx \/ BeginPlain
      <4>1. Top.at = "loop" /\ lastTransition' = lastTransition
            /\ (BeginEx => m_currentState' = m_currentState)
        BY <3>4 DEF BeginEx, BeginPlain, In
      <4>2. \/ BeginEx /\ Top'.at = "guard"
            \/ BeginPlain /\ Top'.at = "action" /\ Top'.from = m_currentState
        BY <2>4, <3>2, <3>4, EngineMoves
      <4>3. Len(frames') <= 1 /\ frames' # <<>>
        BY <1>1, <2>4, <3>2, <3>4, EngineMoves
      <4> QED
        BY <1>1, <3>1, <4>1, <4>2, <4>3
    <3>5. CASE GuardPasses \/ GuardVetoes
      <4>1. Top.at = "guard" /\ UNCHANGED <<lastTransition, m_currentState>>
        BY <3>5 DEF GuardPasses, GuardVetoes, In
      <4>2. \/ Top'.at \in {"exit", "action"} /\ Top'.from = m_currentState
            \/ Top'.at = "loop"
        BY <2>4, <3>2, <3>5, EngineMoves
      <4>3. Len(frames') <= 1 /\ frames' # <<>>
        BY <1>1, <2>4, <3>2, <3>5, EngineMoves
      <4> QED
        BY <1>1, <3>1, <4>1, <4>2, <4>3
    <3>6. CASE ExitActionDone \/ OnExitDone \/ EntryActionDone \/ ActionRaises
               \/ (OnEntryDone /\ ~m_eventGenerated)
      <4>1. Top.at \in {"exit", "onExit", "entry", "onEntry", "action"}
            /\ lastTransition' = lastTransition
        BY <3>6 DEF ExitActionDone, OnExitDone, EntryActionDone, ActionRaises, OnEntryDone, In
      <4>2. /\ Len(frames') <= 1 /\ frames' # <<>>
            /\ Top'.at \in {"onExit", "entry", "onEntry", "raised", "action"}
            /\ Top'.from = Top.from
        BY <1>1, <2>4, <3>2, <3>6, EngineMoves
      <4> QED
        BY <1>1, <3>1, <4>1, <4>2
    <3>7. CASE OnEntryDone /\ m_eventGenerated
      <4>1. UNCHANGED <<frames, lastTransition, m_currentState>>
        BY <3>7 DEF OnEntryDone
      <4> QED
        BY <1>1, <4>1 DEF Top
    <3>8. CASE ActionReturns
      <4>1. Top.at \in {"action", "raised"} /\ lastTransition' = <<Top.from, m_currentState>>
            /\ m_currentState' = m_currentState
        BY <3>8 DEF ActionReturns, In
      <4>2. Len(frames') <= 1 /\ frames' # <<>> /\ Top'.at = "onTransition"
        BY <1>1, <2>4, <3>2, <3>8, EngineMoves
      <4> QED
        BY <1>1, <3>1, <4>1, <4>2
    <3>9. CASE OnTransitionDone
      <4>1. Top.at = "onTransition" /\ UNCHANGED <<lastTransition, m_currentState>>
        BY <3>9 DEF OnTransitionDone, In
      <4>2. Len(frames') <= 1 /\ frames' # <<>> /\ Top'.at = "loop"
        BY <1>1, <2>4, <3>2, <3>9, EngineMoves
      <4> QED
        BY <1>1, <3>1, <4>1, <4>2
    <3> QED
      BY <2>4, <3>3, <3>4, <3>5, <3>6, <3>7, <3>8, <3>9 DEF StateEngine
  <2> QED
    BY <2>1, <2>2, <2>3, <2>4
<1> QED
  BY <1>3, <1>4

\* OnTransition reports a path: each call starts where the one before ended, as
\* long as no callback calls an event function.
THEOREM TransitionsAreAPath == Spec => TransitionsChain
<1>1. Init => ChainInv
  <2>1. Len(<<>>) = 0
    BY EmptySeq
  <2> QED
    BY <2>1 DEF Init, StateMachineInit, ChainInv
<1>2. EngineInv /\ ChainInv /\ [Next]_flatVars => ChainInv'
  BY ChainStep
<1>3. EngineInv /\ ChainInv /\ [Next]_flatVars =>
        [lastTransition' # lastTransition /\ Reenters = {} =>
           lastTransition'[1] = lastTransition[2]]_vars
  BY ChainStep
<1> QED
  BY <1>1, <1>2, <1>3, EngineInvHolds, PTL DEF Spec, TransitionsChain

---------------------------------------------------------------------------
(* What becomes of the events.                                              *)

\* A step of the engine decides the fate of at most one event, which one guard
\* judged or the engine has just fetched; nothing is pending or lost after it that
\* was not before.
LEMMA DecidedOne ==
  ASSUME EngineInv, NEW d, NEW f \in {"executed", "vetoed"}, events' = Fate(d, f)
  PROVE  Pending' = Pending \ {d} /\ Lost' \subseteq Lost
<1>1. events \in Seq(Event)
  BY DEF EngineInv, TypeOK
<1>2. events' = Decide(events, d, f)
  BY DEF Fate, Decide
<1>3. DOMAIN events' = DOMAIN events
      /\ \A e \in DOMAIN events : events'[e].fate = IF e = d THEN f ELSE events[e].fate
  BY <1>1, <1>2, FateDecided
<1>4. f # "pending" /\ f # "overwritten"
  OBVIOUS
<1> HIDE <1>2
<1> QED
  BY <1>3, <1>4 DEF Pending, Lost

\* An event that InternalEvent stores is pending; it overwrites one only when the
\* members still name one.
LEMMA GeneratedOne ==
  ASSUME EngineInv, NEW t \in States, InternalEvent(t)
  PROVE  /\ m_eventGenerated' = TRUE
         /\ Pending' \subseteq (IF m_eventGenerated THEN Pending \ {m_pEventData} ELSE Pending)
                                 \cup {m_pEventData'}
         /\ ~m_eventGenerated => Lost' \subseteq Lost
<1>1. TypeOK
  BY DEF EngineInv
<1>2. /\ DOMAIN events' = DOMAIN events \cup {Len(events) + 1}
      /\ events'[Len(events) + 1] = [target |-> t, fate |-> "pending"]
      /\ \A e \in DOMAIN events :
           events'[e].fate = IF m_eventGenerated /\ e = m_pEventData
                             THEN "overwritten" ELSE events[e].fate
      /\ m_eventGenerated' = TRUE /\ m_pEventData' = Len(events) + 1
  BY <1>1, EventGenerated
<1>3. events'[Len(events) + 1].fate = "pending"
  BY <1>2
<1> QED
  BY <1>2, <1>3 DEF Pending, Lost

\* An event gets its fate before the next one can be generated.
LEMMA EventStep ==
  EngineInv /\ EventInv /\ [Next]_flatVars => EventInv'
<1> SUFFICES ASSUME EngineInv, EventInv, [Next]_flatVars, Reenters' \cap MayFindPending = {}
             PROVE  /\ m_eventGenerated' => frames' # <<>> /\ Top'.at \in {"loop"} \cup MayFindPending
                    /\ \A e \in Pending' : (m_eventGenerated' /\ e = m_pEventData') \/ Judged(e)'
                    /\ Lost' # {} => m_eventGenerated' /\ Top'.at \in Stray
  BY DEF EventInv, MayFindPending, Pending, Lost, Judged, Stray
<1> USE DEF machineVars
<1>1. CASE UNCHANGED flatVars
  BY <1>1 DEF flatVars, vars, EventInv, MayFindPending, Pending, Lost, Judged, Stray, Top
<1>2. CASE Next
  <2>1. Reenters \cap MayFindPending = {} /\ (StateEngine \/ Called \/ StrayCalled \/ Stands)
    BY <1>2, StepKinds DEF MayFindPending
  <2>2. /\ m_eventGenerated => frames # <<>> /\ Top.at \in {"loop"} \cup MayFindPending
        /\ \A e \in Pending : (m_eventGenerated /\ e = m_pEventData) \/ Judged(e)
        /\ Lost # {} => m_eventGenerated /\ Top.at \in Stray
    BY <2>1 DEF EventInv, Pending, Lost, Judged, Stray
  <2>3. /\ {"raised", "onTransition"} \subseteq MayFindPending
        /\ MayFindPending \subseteq {"raised", "onTransition"} \cup Stray
        /\ (\E at \in Stray : at \in MayFindPending) \/ StrayRaises # {} => Stray \subseteq MayFindPending
    BY DEF MayFindPending, Stray
  <2>4. TypeOK /\ m_eventGenerated \in BOOLEAN /\ frames \in Seq(Frame)
    BY DEF EngineInv, TypeOK
  <2>5. CASE Stands
    BY <2>2, <2>5 DEF Stands, Top, Pending, Lost, Judged
  <2>6. CASE StrayCalled
    <3>1. PICK t \in States : StrayRaise(t)
      BY <2>6 DEF StrayCalled
    <3>2. InternalEvent(t) /\ frames' = frames /\ Top' = Top /\ frames # <<>> /\ Top.at \in StrayRaises
      BY <3>1 DEF StrayRaise, In, Top
    <3>3. Top.at \in Stray /\ Top.at \in MayFindPending
      BY <2>3, <3>2, StateMachineAssumption DEF Stray
    <3>4. m_eventGenerated' = TRUE
          /\ \A e \in Pending' : e = m_pEventData' \/ (e \in Pending /\ ~(m_eventGenerated /\ e = m_pEventData))
      BY <3>2, GeneratedOne
    <3>5. \A e \in Pending : Judged(e) => Judged(e)'
      BY <3>2 DEF Judged
    <3> QED
      BY <2>2, <3>2, <3>3, <3>4, <3>5
  <2>7. CASE Called
    <3>1. PICK t \in States : ExternalEventImpl(t) /\ (frames = <<>> \/ Top.at \in Reenters)
      BY <2>7 DEF Called
    <3>2. InternalEvent(t) /\ Enter(NewFrame)
      BY <3>1 DEF ExternalEventImpl
    <3>3. ~m_eventGenerated
      <4>1. "loop" \notin Reenters
        BY <2>4, StateMachineAssumption DEF TypeOK, Callbacks
      <4> QED
        BY <2>1, <2>2, <3>1, <4>1
    <3>4. m_eventGenerated' = TRUE /\ Pending' \subseteq Pending \cup {m_pEventData'} /\ Lost' \subseteq Lost
      BY <3>2, <3>3, GeneratedOne
    <3>5. /\ frames' # <<>> /\ Top'.at = "loop"
          /\ DOMAIN frames' = DOMAIN frames \cup {Len(frames) + 1}
          /\ \A i \in 1 .. Len(frames) : frames'[i] = frames[i]
      BY <2>4, <3>2, Entered
    <3>6. DOMAIN frames = 1 .. Len(frames)
      BY <2>4, LenProperties
    <3>7. \A e \in Pending : Judged(e) => Judged(e)'
      BY <3>5, <3>6 DEF Judged
    <3> QED
      BY <2>2, <3>3, <3>4, <3>5, <3>7
  <2>8. CASE StateEngine
    <3>1. frames # <<>> /\ Top = frames[Len(frames)]
          /\ \A i \in DOMAIN frames : i = Len(frames) \/ i \in 1 .. Len(frames) - 1
      BY <2>4, <2>8, EngineKinds, TopIsAFrame
    <3>2. ASSUME NEW at, NEW row, NEW from, NEW data, TopBecomes(at, row, from, data)
          PROVE  /\ frames' # <<>> /\ Top'.at = at
                 /\ Top.at # "guard" => \A e : Judged(e) => Judged(e)'
                 /\ \A e : Judged(e) /\ e # Top.data => Judged(e)'
                 /\ at = "guard" => Judged(data)'
      <4>1. /\ DOMAIN frames' = DOMAIN frames /\ frames' # <<>> /\ Len(frames) \in DOMAIN frames
            /\ Top'.at = at /\ Top'.data = data /\ Top' = frames'[Len(frames)]
            /\ \A i \in DOMAIN frames : i # Len(frames) => frames'[i] = frames[i]
        BY <3>1, <3>2, OthersStay
      <4>2. at = "guard" => Judged(data)'
        BY <4>1 DEF Judged
      <4>3. ASSUME NEW e, NEW i \in DOMAIN frames, frames[i].at = "guard", frames[i].data = e,
                   i # Len(frames)
            PROVE  Judged(e)'
        BY <4>1, <4>3 DEF Judged
      <4>4. \A e : Judged(e) => \E i \in DOMAIN frames : frames[i].at = "guard" /\ frames[i].data = e
        BY DEF Judged
      <4> QED
        BY <3>1, <4>1, <4>2, <4>3, <4>4
    <3>3. CASE BeginEx
      <4>1. Top.at = "loop" /\ m_eventGenerated /\ m_eventGenerated' = FALSE /\ events' = events
        BY <3>3 DEF BeginEx, Consume, In
      <4>2. \A e : Judged(e) \/ e = m_pEventData => Judged(e)'
        BY <2>8, <3>2, <3>3, <4>1, EngineMoves
      <4>3. Pending' = Pending /\ Lost' = Lost
        BY <4>1 DEF Pending, Lost
      <4>4. Lost = {}
        BY <2>2, <4>1 DEF Stray
      <4> QED
        BY <2>2, <4>1, <4>2, <4>3, <4>4
    <3>4. CASE BeginPlain
      <4>1. Top.at = "loop" /\ m_eventGenerated' = FALSE /\ events' = Fate(m_pEventData, "executed")
        BY <3>4 DEF BeginPlain, Consume, In
      <4>2. \A e : Judged(e) => Judged(e)'
        BY <2>8, <3>2, <3>4, <4>1, EngineMoves
      <4>3. Pending' = Pending \ {m_pEventData} /\ Lost' \subseteq Lost
        BY <4>1, DecidedOne
      <4>4. Lost = {}
        BY <2>2, <4>1 DEF Stray
      <4> QED
        BY <2>2, <4>1, <4>2, <4>3, <4>4
    <3>5. CASE EngineReturns
      <4>1. Top.at = "loop" /\ ~m_eventGenerated /\ Leave /\ UNCHANGED <<machineVars, events>>
        BY <3>5 DEF EngineReturns, In
      <4>2. /\ DOMAIN frames' = 1 .. Len(frames) - 1
            /\ \A i \in 1 .. Len(frames) - 1 : frames'[i] = frames[i]
        BY <2>4, <3>1, <4>1, Left
      <4>3. \A e : Judged(e) => Judged(e)'
        BY <3>1, <4>1, <4>2 DEF Judged
      <4>4. Pending' = Pending /\ Lost' = Lost
        BY <4>1 DEF Pending, Lost
      <4> QED
        BY <2>2, <4>1, <4>3, <4>4
    <3>6. CASE GuardVetoes \/ GuardPasses
      <4>1. /\ Top.at = "guard" /\ UNCHANGED machineVars
            /\ \E f \in {"vetoed", "executed"} : events' = Fate(Top.data, f)
        BY <3>6 DEF GuardVetoes, GuardPasses, In
      <4>2. \A e : Judged(e) /\ e # Top.data => Judged(e)'
        BY <2>8, <3>2, <3>6, EngineMoves
      <4>3. Pending' = Pending \ {Top.data} /\ Lost' \subseteq Lost
        BY <4>1, DecidedOne
      <4>4. Lost = {}
        BY <2>2, <4>1 DEF Stray
      <4>5. ~m_eventGenerated
        BY <2>2, <2>3, <4>1 DEF Stray
      <4> QED
        BY <2>2, <4>1, <4>2, <4>3, <4>4, <4>5
    <3>7. CASE ExitActionDone \/ OnExitDone \/ EntryActionDone
      <4>1. Top.at \in {"exit", "onExit", "entry"} /\ UNCHANGED <<m_eventGenerated, m_pEventData, events>>
        BY <3>7 DEF ExitActionDone, OnExitDone, EntryActionDone, In
      <4>2. /\ frames' # <<>> /\ Top'.at \in {"onExit", "entry", "onEntry"}
            /\ \A e : Judged(e) => Judged(e)'
        BY <2>8, <3>2, <3>7, <4>1, EngineMoves
      <4>3. Pending' = Pending /\ Lost' = Lost
        BY <4>1 DEF Pending, Lost
      <4>4. m_eventGenerated => Top'.at \in MayFindPending
        <5>1. Top.at \in Stray /\ Top.at # "loop" /\ Top'.at \in Stray
          BY <4>1, <4>2 DEF Stray
        <5> QED
          BY <2>2, <2>3, <5>1
      <4> QED
        BY <2>2, <4>1, <4>2, <4>3, <4>4 DEF Stray
    <3>8. CASE OnEntryDone /\ m_eventGenerated
      <4>1. UNCHANGED <<frames, machineVars, events>>
        BY <3>8 DEF OnEntryDone
      <4> QED
        BY <2>2, <4>1 DEF Pending, Lost, Judged, Top
    <3>9. CASE OnEntryDone /\ ~m_eventGenerated
      <4>1. Top.at = "onEntry" /\ UNCHANGED <<machineVars, events>>
        BY <3>9 DEF OnEntryDone, In
      <4>2. \A e : Judged(e) => Judged(e)'
        BY <2>8, <3>2, <3>9, <4>1, EngineMoves
      <4>3. Pending' = Pending /\ Lost' = Lost
        BY <4>1 DEF Pending, Lost
      <4> QED
        BY <2>2, <3>9, <4>1, <4>2, <4>3
    <3>10. CASE ActionRaises
      <4>1. Top.at = "action"
        BY <3>10 DEF ActionRaises, In
      <4>2. PICK r \in Raises[Top.row] \ {NoEvent} : InternalEvent(r)
        BY <3>10 DEF ActionRaises
      <4>3. r \in States
        <5>1. Top.row \in States
          BY <2>4, <3>1, TopIsAFrame DEF Frame
        <5> QED
          BY <4>2, <5>1, StateMachineAssumption
      <4>4. ~m_eventGenerated
        BY <2>2, <2>3, <4>1 DEF Stray
      <4>5. /\ m_eventGenerated' = TRUE /\ Pending' \subseteq Pending \cup {m_pEventData'}
            /\ Lost' \subseteq Lost
        BY <4>2, <4>3, <4>4, GeneratedOne
      <4>6. /\ frames' # <<>> /\ Top'.at = "raised" /\ \A e : Judged(e) => Judged(e)'
        BY <2>8, <3>2, <3>10, <4>1, EngineMoves
      <4> QED
        BY <2>2, <2>3, <4>4, <4>5, <4>6
    <3>11. CASE ActionReturns \/ OnTransitionDone
      <4>1. Top.at \in {"raised", "action", "onTransition"} /\ UNCHANGED <<machineVars, events>>
        BY <3>11 DEF ActionReturns, OnTransitionDone, In
      <4>2. /\ frames' # <<>> /\ Top'.at \in {"onTransition", "loop"}
            /\ \A e : Judged(e) => Judged(e)'
        BY <2>8, <3>2, <3>11, <4>1, EngineMoves
      <4>3. Pending' = Pending /\ Lost' = Lost /\ Lost = {}
        BY <2>2, <4>1 DEF Pending, Lost, Stray
      <4> QED
        BY <2>2, <2>3, <4>1, <4>2, <4>3
    <3> QED
      BY <2>8, <3>3, <3>4, <3>5, <3>6, <3>7, <3>8, <3>9, <3>10, <3>11 DEF StateEngine
  <2> QED
    BY <2>1, <2>5, <2>6, <2>7, <2>8
<1> QED
  BY <1>1, <1>2

\* When no event function is executing, every event generated has been executed
\* or vetoed: none is left behind in m_eventGenerated, none was overwritten.
THEOREM EveryEventDecided == Spec => []NoEventLost
<1>1. Init => EventInv
  <2>1. DOMAIN <<>> = {}
    OBVIOUS
  <2> QED
    BY <2>1 DEF Init, StateMachineInit, EventInv, Pending, Lost
<1>2. EngineInv /\ EventInv /\ [Next]_flatVars => EventInv'
  BY EventStep
<1>3. EngineInv /\ EventInv => NoEventLost
  <2> SUFFICES ASSUME EngineInv, EventInv, frames = <<>>, Reenters \cap MayFindPending = {},
                      NEW e \in DOMAIN events
               PROVE  events[e].fate \in {"executed", "vetoed"}
    BY DEF NoEventLost, AtRest, EventInv
  <2>1. events \in Seq(Event)
    BY DEF EngineInv, TypeOK
  <2>2. events[e] \in Event
    BY <2>1, LenProperties, ElementOfSeq
  <2>3. ~m_eventGenerated /\ DOMAIN frames = {}
    BY DEF EventInv
  <2>4. e \notin Pending /\ e \notin Lost
    BY <2>3 DEF EventInv, Judged
  <2>5. events[e].fate # "pending" /\ events[e].fate # "overwritten"
    BY <2>4 DEF Pending, Lost
  <2> QED
    BY <2>2, <2>5 DEF Event
<1> QED
  BY <1>1, <1>2, <1>3, EngineInvHolds, PTL DEF Spec
===========================================================================
