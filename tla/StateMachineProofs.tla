------------------------ MODULE StateMachineProofs ------------------------
(***************************************************************************)
(* What the theorems about the two engines share: the call stack, the       *)
(* events, and the steps that StateMachine defines for both.                *)
(***************************************************************************)
EXTENDS StateMachine, SequenceTheorems, TLAPS

Entering == {"guard", "exit", "onExit", "entry", "onEntry"}

\* Only the innermost StateEngine is in a callback that cannot call an event
\* function; the bound on events keeps every index of events a possible data.
StackInv ==
  /\ Len(events) <= MaxEvents
  /\ \A i \in 1 .. Len(frames) - 1 : frames[i].at \in Reenters

\* A pending event and the event a StateEngine works on are events that exist;
\* the row fetched is the row of the state that event was aimed at.
DataInv ==
  /\ m_eventGenerated => /\ m_pEventData \in DOMAIN events
                         /\ events[m_pEventData].target = m_newState
  /\ \A i \in DOMAIN frames : frames[i].at \in Entering =>
       /\ frames[i].data \in DOMAIN events
       /\ events[frames[i].data].target = frames[i].row

EngineInv == TypeOK /\ StackInv /\ DataInv

---------------------------------------------------------------------------
(* What the steps do to the call stack and to the events.                   *)

Decide(es, i, fate) == [es EXCEPT ![i].fate = fate]

\* Appending to a sequence, which Enter does to the stack.
LEMMA LastAppended ==
  ASSUME NEW S, NEW s \in Seq(S), NEW f \in S, NEW t, t = Append(s, f)
  PROVE  /\ t \in Seq(S) /\ t # <<>> /\ Len(t) = Len(s) + 1
         /\ t[Len(s) + 1] = f /\ Last(t) = f
         /\ \A i \in 1 .. Len(s) : t[i] = s[i]
<1>1. t \in Seq(S) /\ t # <<>> /\ Len(t) = Len(s) + 1 /\ t[Len(s) + 1] = f
      /\ \A i \in 1 .. Len(s) : t[i] = s[i]
  BY AppendProperties
<1> QED
  BY <1>1 DEF Last

\* Dropping the last element of a sequence, which Leave does to the stack.
LEMMA LastDropped ==
  ASSUME NEW S, NEW s \in Seq(S), s # <<>>, NEW t, t = Front(s)
  PROVE  /\ t \in Seq(S) /\ Len(t) = Len(s) - 1
         /\ \A i \in 1 .. Len(s) - 1 : t[i] = s[i]
<1>1. Len(s) \in Nat /\ Len(s) >= 1
  BY EmptySeq, LenProperties
<1>2. t = SubSeq(s, 1, Len(s) - 1)
  BY DEF Front
<1>3. \A i \in 1 .. Len(s) - 1 : s[i] \in S
  BY <1>1, ElementOfSeq
<1>4. /\ t \in Seq(S)
      /\ Len(t) = IF 1 <= Len(s) - 1 THEN Len(s) - 1 - 1 + 1 ELSE 0
      /\ \A i \in 1 .. Len(s) - 1 - 1 + 1 : t[i] = s[1 + i - 1]
  <2>1. 1 \in Int /\ Len(s) - 1 \in Int
    BY <1>1
  <2> QED
    BY <1>2, <1>3, <2>1, SubSeqProperties
<1>5. Len(s) - 1 - 1 + 1 = Len(s) - 1 /\ \A i \in 1 .. Len(s) - 1 : 1 + i - 1 = i
  BY <1>1
<1>6. Len(t) = Len(s) - 1
  <2>1. \A n \in Nat : n >= 1 => (IF 1 <= n - 1 THEN n - 1 - 1 + 1 ELSE 0) = n - 1
    OBVIOUS
  <2> QED
    BY <1>1, <1>4, <2>1
<1>7. \A i \in 1 .. Len(s) - 1 : t[i] = s[i]
  BY <1>4, <1>5
<1> QED
  BY <1>4, <1>6, <1>7

\* Deciding the fate of an event leaves its target and the other events alone.
LEMMA FateDecided ==
  ASSUME NEW es \in Seq(Event), NEW i, NEW f \in {"executed", "vetoed", "overwritten"},
         NEW t, t = Decide(es, i, f)
  PROVE  /\ t \in Seq(Event) /\ Len(t) = Len(es) /\ DOMAIN t = DOMAIN es
         /\ \A e \in DOMAIN es : /\ t[e].target = es[e].target
                                 /\ t[e].fate = IF e = i THEN f ELSE es[e].fate
<1>1. DOMAIN t = DOMAIN es /\ DOMAIN es = 1 .. Len(es) /\ Len(es) \in Nat
  BY LenProperties DEF Decide
<1>2. \A e \in DOMAIN es : es[e] \in Event
  BY ElementOfSeq, <1>1
<1>3. \A e \in DOMAIN es : t[e] = IF e = i THEN [es[e] EXCEPT !.fate = f] ELSE es[e]
  BY <1>1 DEF Decide
<1>4. \A e \in DOMAIN es : /\ t[e] \in Event /\ t[e].target = es[e].target
                           /\ t[e].fate = IF e = i THEN f ELSE es[e].fate
  BY <1>2, <1>3 DEF Event
<1>5. t = [e \in 1 .. Len(es) |-> t[e]]
  BY <1>1 DEF Decide
<1>6. t \in [1 .. Len(es) -> Event]
  BY <1>1, <1>4, <1>5
<1>7. t \in Seq(Event)
  BY <1>1, <1>6, SeqDef
<1>8. Len(t) = Len(es)
  BY <1>1, <1>7, LenProperties
<1> QED
  BY <1>1, <1>4, <1>7, <1>8

\* InternalEvent adds one pending event, the one the members then name, and
\* overwrites at most the one they named before.
LEMMA EventGenerated ==
  ASSUME TypeOK, NEW t \in States, InternalEvent(t)
  PROVE  /\ events' \in Seq(Event) /\ Len(events') = Len(events) + 1
         /\ Len(events') <= MaxEvents /\ DOMAIN events' = DOMAIN events \cup {Len(events) + 1}
         /\ events'[Len(events) + 1] = [target |-> t, fate |-> "pending"]
         /\ \A e \in DOMAIN events :
              /\ e # Len(events) + 1
              /\ events'[e].target = events[e].target
              /\ events'[e].fate = IF m_eventGenerated /\ e = m_pEventData
                                   THEN "overwritten" ELSE events[e].fate
         /\ m_newState' = t /\ m_eventGenerated' = TRUE /\ m_pEventData' = Len(events) + 1
         /\ m_currentState' = m_currentState
<1> DEFINE es == IF m_eventGenerated THEN Fate(m_pEventData, "overwritten") ELSE events
           ev == [target |-> t, fate |-> "pending"]
<1>1. events' = Append(es, ev) /\ Len(events) < MaxEvents
      /\ m_newState' = t /\ m_eventGenerated' = TRUE /\ m_pEventData' = Len(events) + 1
      /\ m_currentState' = m_currentState
  BY DEF InternalEvent
<1>2. events \in Seq(Event) /\ m_eventGenerated \in BOOLEAN /\ MaxEvents \in Nat
  BY StateMachineAssumption DEF TypeOK
<1>3. /\ es \in Seq(Event) /\ Len(es) = Len(events) /\ DOMAIN es = DOMAIN events
      /\ \A e \in DOMAIN events :
           /\ es[e].target = events[e].target
           /\ es[e].fate = IF m_eventGenerated /\ e = m_pEventData
                           THEN "overwritten" ELSE events[e].fate
  <2>1. CASE m_eventGenerated
    <3>1. es = Decide(events, m_pEventData, "overwritten")
      BY <2>1 DEF Fate, Decide
    <3> HIDE DEF es
    <3>2. /\ es \in Seq(Event) /\ Len(es) = Len(events) /\ DOMAIN es = DOMAIN events
          /\ \A e \in DOMAIN events :
               /\ es[e].target = events[e].target
               /\ es[e].fate = IF e = m_pEventData THEN "overwritten" ELSE events[e].fate
      BY <1>2, <3>1, FateDecided
    <3> QED
      BY <2>1, <3>2
  <2>2. CASE ~m_eventGenerated
    BY <1>2, <2>2
  <2> QED
    BY <2>1, <2>2
<1>4. ev \in Event
  BY DEF Event
<1> HIDE DEF es, ev
<1>5. /\ events' \in Seq(Event) /\ Len(events') = Len(es) + 1
      /\ events'[Len(es) + 1] = ev
      /\ \A e \in 1 .. Len(es) : events'[e] = es[e]
  BY <1>1, <1>3, <1>4, LastAppended
<1>6. Len(events) \in Nat /\ DOMAIN events = 1 .. Len(events)
      /\ Len(events') \in Nat /\ DOMAIN events' = 1 .. Len(events')
  BY <1>2, <1>5, LenProperties
<1>7. Len(events') = Len(events) + 1 /\ Len(events') <= MaxEvents
      /\ 1 .. Len(events') = (1 .. Len(events)) \cup {Len(events) + 1}
  BY <1>1, <1>2, <1>3, <1>5, <1>6
<1>8. \A e \in DOMAIN events : e # Len(events) + 1 /\ events'[e] = es[e]
  BY <1>3, <1>5, <1>6
<1>9. events'[Len(events) + 1] = [target |-> t, fate |-> "pending"]
  BY <1>3, <1>5 DEF ev
<1> QED
  BY <1>1, <1>3, <1>5, <1>6, <1>7, <1>8, <1>9

\* The innermost StateEngine goes on with these locals, the others stay.
TopBecomes(at, row, from, data) ==
  /\ frames' \in Seq(Frame) /\ frames' # <<>>
  /\ Len(frames') = Len(frames) /\ DOMAIN frames' = DOMAIN frames
  /\ \A i \in 1 .. Len(frames) - 1 : frames'[i] = frames[i]
  /\ Top' = frames'[Len(frames)]
  /\ Top'.at = at /\ Top'.row = row /\ Top'.from = from /\ Top'.data = data

\* The innermost StateEngine of a stack is one of its frames.
LEMMA TopIsAFrame ==
  ASSUME TypeOK, frames # <<>>
  PROVE  /\ Top \in Frame /\ Top = frames[Len(frames)] /\ Len(frames) \in DOMAIN frames
         /\ Len(frames) \in Nat /\ Len(frames) >= 1 /\ DOMAIN frames = 1 .. Len(frames)
         /\ \A i \in DOMAIN frames : i = Len(frames) \/ i \in 1 .. Len(frames) - 1
         /\ \A i \in 1 .. Len(frames) - 1 : i \in DOMAIN frames /\ i # Len(frames)
<1>1. frames \in Seq(Frame)
  BY DEF TypeOK
<1>2. Len(frames) \in Nat \ {0} /\ DOMAIN frames = 1 .. Len(frames)
  BY <1>1, EmptySeq, LenProperties
<1>3. Len(frames) \in 1 .. Len(frames) /\ Len(frames) >= 1
  BY <1>2
<1>4. \A n \in Nat : /\ \A i \in 1 .. n : i = n \/ i \in 1 .. n - 1
                     /\ \A i \in 1 .. n - 1 : i \in 1 .. n /\ i # n
  OBVIOUS
<1>5. /\ \A i \in DOMAIN frames : i = Len(frames) \/ i \in 1 .. Len(frames) - 1
      /\ \A i \in 1 .. Len(frames) - 1 : i \in DOMAIN frames /\ i # Len(frames)
  BY <1>2, <1>4
<1> QED
  BY <1>1, <1>2, <1>3, <1>5, ElementOfSeq DEF Top, Last

\* Update puts the frame it is given on top of the stack.
LEMMA Updated ==
  ASSUME TypeOK, frames # <<>>, NEW f \in Frame, Update(f)
  PROVE  TopBecomes(f.at, f.row, f.from, f.data)
<1>1. frames \in Seq(Frame) /\ frames' = [frames EXCEPT ![Len(frames)] = f]
  BY DEF TypeOK, Update
<1>2. Len(frames) \in DOMAIN frames /\ DOMAIN frames = 1 .. Len(frames) /\ Len(frames) \in Nat
  BY TopIsAFrame
<1>3. frames' \in Seq(Frame) /\ Len(frames') = Len(frames)
  BY <1>1, <1>2, ExceptSeq
<1>4. DOMAIN frames' = DOMAIN frames /\ frames'[Len(frames)] = f
  BY <1>1, <1>2
<1>5. \A i \in DOMAIN frames : i # Len(frames) => frames'[i] = frames[i]
  BY <1>1, <1>2
<1>6. \A i \in 1 .. Len(frames) - 1 : i \in DOMAIN frames /\ i # Len(frames)
  BY TopIsAFrame
<1>7. frames' # <<>>
  BY <1>2, <1>3, EmptySeq
<1>8. Top' = frames'[Len(frames)]
  BY <1>3 DEF Top, Last
<1> QED
  BY <1>3, <1>4, <1>5, <1>6, <1>7, <1>8 DEF TopBecomes

\* Goto changes nothing of the frame but where it is.
LEMMA Gone ==
  ASSUME TypeOK, frames # <<>>, NEW at \in Callbacks \cup {"loop"}, Goto(at)
  PROVE  TopBecomes(at, Top.row, Top.from, Top.data)
<1> DEFINE f == [Top EXCEPT !.at = at]
<1>1. Top \in Frame
  BY TopIsAFrame
<1>2. f \in Frame /\ f.at = at /\ f.row = Top.row /\ f.from = Top.from /\ f.data = Top.data
  BY <1>1 DEF Frame
<1>3. Update(f)
  BY DEF Goto
<1> HIDE DEF f
<1>4. TopBecomes(f.at, f.row, f.from, f.data)
  BY <1>2, <1>3, Updated
<1> QED
  BY <1>2, <1>4

\* The row and the data are fetched together, before the guard runs.
LEMMA Fetched ==
  ASSUME TypeOK, StackInv, frames # <<>>,
         Update([Top EXCEPT !.at = "guard", !.row = m_newState, !.data = m_pEventData])
  PROVE  TopBecomes("guard", m_newState, Top.from, m_pEventData)
<1> DEFINE f == [Top EXCEPT !.at = "guard", !.row = m_newState, !.data = m_pEventData]
<1>1. Top \in Frame
  BY TopIsAFrame
<1>2. m_newState \in States /\ m_pEventData \in 0 .. MaxEvents
  <2>1. events \in Seq(Event) /\ m_pEventData \in 0 .. Len(events) /\ Len(events) <= MaxEvents
    BY DEF TypeOK, StackInv
  <2>2. Len(events) \in Nat /\ MaxEvents \in Nat
    BY <2>1, LenProperties, StateMachineAssumption
  <2> QED
    BY <2>1, <2>2 DEF TypeOK
<1>3. f \in Frame /\ f.at = "guard" /\ f.row = m_newState /\ f.from = Top.from /\ f.data = m_pEventData
  BY <1>1, <1>2 DEF Frame, Callbacks
<1>4. Update(f)
  OBVIOUS
<1> HIDE DEF f
<1>5. TopBecomes(f.at, f.row, f.from, f.data)
  BY <1>1, <1>3, <1>4, Updated
<1> QED
  BY <1>3, <1>5

\* Leave drops the innermost StateEngine, Enter adds one at the head of its loop.
LEMMA Left ==
  ASSUME TypeOK, frames # <<>>, Leave
  PROVE  /\ frames' \in Seq(Frame) /\ Len(frames') = Len(frames) - 1
         /\ \A i \in 1 .. Len(frames) - 1 : frames'[i] = frames[i]
         /\ DOMAIN frames' = 1 .. Len(frames) - 1
         /\ frames' # <<>> => Top' = frames[Len(frames) - 1] /\ Len(frames) - 1 \in 1 .. Len(frames) - 1
<1>1. frames \in Seq(Frame) /\ frames' = Front(frames)
  BY DEF TypeOK, Leave
<1>2. /\ frames' \in Seq(Frame) /\ Len(frames') = Len(frames) - 1
      /\ \A i \in 1 .. Len(frames) - 1 : frames'[i] = frames[i]
  BY <1>1, LastDropped
<1>3. Len(frames) \in Nat /\ Len(frames') \in Nat /\ DOMAIN frames' = 1 .. Len(frames')
  BY <1>1, <1>2, LenProperties
<1>4. ASSUME frames' # <<>>
      PROVE  Top' = frames[Len(frames) - 1] /\ Len(frames) - 1 \in 1 .. Len(frames) - 1
  <2>1. Len(frames') \in Nat \ {0}
    BY <1>2, <1>4, EmptySeq
  <2>2. Len(frames) - 1 \in 1 .. Len(frames) - 1
    BY <1>2, <1>3, <2>1
  <2>3. Top' = frames'[Len(frames')]
    BY DEF Top, Last
  <2> QED
    BY <1>2, <2>2, <2>3
<1> QED
  BY <1>2, <1>3, <1>4

\* Enter puts a StateEngine at the head of its loop on top of the others.
LEMMA Entered ==
  ASSUME TypeOK, Enter(NewFrame)
  PROVE  /\ frames' \in Seq(Frame) /\ frames' # <<>> /\ Len(frames') = Len(frames) + 1
         /\ \A i \in 1 .. Len(frames) : frames'[i] = frames[i]
         /\ DOMAIN frames' = DOMAIN frames \cup {Len(frames) + 1}
         /\ frames'[Len(frames) + 1] = NewFrame /\ Top' = NewFrame /\ NewFrame.at = "loop"
<1>1. frames \in Seq(Frame) /\ frames' = Append(frames, NewFrame)
  BY DEF TypeOK, Enter
<1>2. NewFrame \in Frame /\ NewFrame.at = "loop"
  <2>1. <<>> \in Seq(States) /\ 0 \in 0 .. MaxEvents /\ InitialState \in States
    BY EmptySeq, StateMachineAssumption
  <2> QED
    BY <2>1 DEF NewFrame, Frame
<1>3. /\ frames' \in Seq(Frame) /\ frames' # <<>> /\ Len(frames') = Len(frames) + 1
      /\ frames'[Len(frames) + 1] = NewFrame /\ Last(frames') = NewFrame
      /\ \A i \in 1 .. Len(frames) : frames'[i] = frames[i]
  BY <1>1, <1>2, LastAppended DEF Last
<1>4. DOMAIN frames' = DOMAIN frames \cup {Len(frames) + 1}
  <2>1. /\ Len(frames) \in Nat /\ DOMAIN frames = 1 .. Len(frames)
        /\ DOMAIN frames' = 1 .. Len(frames')
    BY <1>1, <1>3, LenProperties
  <2>2. \A n \in Nat : 1 .. n + 1 = (1 .. n) \cup {n + 1}
    OBVIOUS
  <2> QED
    BY <1>3, <2>1, <2>2
<1> QED
  BY <1>2, <1>3, <1>4 DEF Top

---------------------------------------------------------------------------
(* The steps that are not of the engine.                                    *)

\* An event function is called from outside, or from a callback that may.
Called == \E t \in States :
            ExternalEventImpl(t) /\ (frames = <<>> \/ Top.at \in Reenters)

StrayCalled == \E t \in States : StrayRaise(t)

\* An event that is ignored changes nothing, one that cannot happen stops the
\* program where it is.
Stands == UNCHANGED <<machineVars, frames, events, signalVars>>

\* What calling an event function comes to.
LEMMA CallKinds ==
  ASSUME NEW o, CallEvent(o) \/ ReenterEvent(o)
  PROVE  Called \/ Stands
<1>1. ExternalEvent(o) /\ (frames = <<>> \/ Top.at \in Reenters)
  BY DEF CallEvent, ReenterEvent, In
<1> QED
  BY <1>1 DEF ExternalEvent, Called, Stands, vars

---------------------------------------------------------------------------
(* The invariant of both engines.                                           *)

\* The constructor establishes the invariant of both engines.
LEMMA EngineStarts ==
  ASSUME NEW active, active \subseteq States, StateMachineInit(active)
  PROVE  EngineInv
<1>1. /\ frames = <<>> /\ events = <<>> /\ Reenters \in ReenterChoices
      /\ m_currentState = InitialState /\ m_newState = InitialState
      /\ m_eventGenerated = FALSE /\ m_pEventData = 0 /\ faulted = FALSE
      /\ occupied = active /\ lastTransition = <<InitialState, InitialState>>
  BY DEF StateMachineInit
<1>2. InitialState \in States /\ MaxEvents \in Nat
  BY StateMachineAssumption
<1>3. /\ frames \in Seq(Frame) /\ Len(frames) = 0
      /\ events \in Seq(Event) /\ Len(events) = 0
  BY <1>1, EmptySeq
<1>4. DOMAIN frames = {} /\ 1 .. Len(frames) - 1 = {}
  <2>1. DOMAIN frames = 1 .. Len(frames)
    BY <1>3, LenProperties
  <2> QED
    BY <1>3, <2>1
<1>5. TypeOK
  <2>1. <<InitialState, InitialState>> \in States \X States /\ m_pEventData \in 0 .. Len(events)
    BY <1>1, <1>2, <1>3
  <2> QED
    BY <1>1, <1>2, <1>3, <2>1 DEF TypeOK
<1>6. StackInv
  BY <1>2, <1>3, <1>4 DEF StackInv
<1>7. DataInv
  BY <1>1, <1>4 DEF DataInv
<1> QED
  BY <1>5, <1>6, <1>7 DEF EngineInv

\* A step that moves the innermost StateEngine and leaves the events' number and
\* targets alone keeps EngineInv, when the frame works on the event it names.
LEMMA MoveKeepsEngine ==
  ASSUME EngineInv, frames # <<>>, NEW at, NEW row, NEW from, NEW data,
         TopBecomes(at, row, from, data),
         at \in Entering => data \in DOMAIN events /\ events[data].target = row,
         events' \in Seq(Event), Len(events') = Len(events),
         \A e \in DOMAIN events : events'[e].target = events[e].target,
         m_eventGenerated' => m_eventGenerated,
         m_eventGenerated' => UNCHANGED <<m_newState, m_pEventData>>,
         m_newState' = m_newState, m_pEventData' \in {0, m_pEventData},
         m_eventGenerated' \in BOOLEAN, m_currentState' \in States,
         occupied' \subseteq States, lastTransition' \in States \X States,
         faulted' \in BOOLEAN, Reenters' = Reenters
  PROVE  EngineInv'
<1>1. /\ frames' \in Seq(Frame) /\ Len(frames') = Len(frames) /\ DOMAIN frames' = DOMAIN frames
      /\ \A i \in 1 .. Len(frames) - 1 : frames'[i] = frames[i]
      /\ frames'[Len(frames)].at = at /\ frames'[Len(frames)].row = row
      /\ frames'[Len(frames)].data = data
  BY DEF TopBecomes
<1>2. /\ \A i \in DOMAIN frames : i = Len(frames) \/ i \in 1 .. Len(frames) - 1
      /\ \A i \in 1 .. Len(frames) - 1 : i \in DOMAIN frames
  BY TopIsAFrame DEF EngineInv
<1>3. events \in Seq(Event) /\ DOMAIN events' = DOMAIN events /\ Len(events) \in Nat
  <2>1. events \in Seq(Event)
    BY DEF EngineInv, TypeOK
  <2> QED
    BY <2>1, LenProperties
<1>4. TypeOK'
  <2>1. m_pEventData' \in 0 .. Len(events')
    BY <1>3 DEF EngineInv, TypeOK
  <2>2. m_newState' \in States /\ Reenters' \in ReenterChoices
    BY DEF EngineInv, TypeOK
  <2> QED
    BY <1>1, <2>1, <2>2 DEF TypeOK
<1>5. StackInv'
  BY <1>1, <1>2 DEF EngineInv, StackInv
<1>6. DataInv'
  <2>1. ASSUME m_eventGenerated'
        PROVE  m_pEventData' \in DOMAIN events' /\ events'[m_pEventData'].target = m_newState'
    BY <2>1, <1>3 DEF EngineInv, DataInv
  <2>2. ASSUME NEW i \in DOMAIN frames', frames'[i].at \in Entering
        PROVE  /\ frames'[i].data \in DOMAIN events'
               /\ events'[frames'[i].data].target = frames'[i].row
    <3>1. CASE i = Len(frames)
      BY <1>1, <1>3, <2>2, <3>1
    <3>2. CASE i \in 1 .. Len(frames) - 1
      <4>1. frames'[i] = frames[i] /\ i \in DOMAIN frames
        BY <1>1, <1>2, <3>2
      <4>2. frames[i].data \in DOMAIN events /\ events[frames[i].data].target = frames[i].row
        BY <2>2, <4>1 DEF EngineInv, DataInv
      <4> QED
        BY <1>3, <4>1, <4>2
    <3> QED
      BY <1>1, <1>2, <3>1, <3>2
  <2> QED
    BY <2>1, <2>2 DEF DataInv
<1> QED
  BY <1>4, <1>5, <1>6 DEF EngineInv

\* InternalEvent keeps the invariant of the events, whatever the stack does, as
\* long as the frames that work on an event are frames that did.
LEMMA GenerateKeepsEngine ==
  ASSUME EngineInv, NEW t \in States, InternalEvent(t),
         frames' \in Seq(Frame),
         \A i \in 1 .. Len(frames') - 1 : frames'[i].at \in Reenters,
         \A i \in DOMAIN frames' : frames'[i].at \in Entering =>
           i \in DOMAIN frames /\ frames'[i] = frames[i],
         UNCHANGED <<signalVars, faulted, Reenters>>
  PROVE  EngineInv'
<1>1. /\ events' \in Seq(Event) /\ Len(events') = Len(events) + 1
      /\ Len(events') <= MaxEvents /\ DOMAIN events' = DOMAIN events \cup {Len(events) + 1}
      /\ events'[Len(events) + 1] = [target |-> t, fate |-> "pending"]
      /\ \A e \in DOMAIN events : events'[e].target = events[e].target
      /\ m_newState' = t /\ m_eventGenerated' = TRUE /\ m_pEventData' = Len(events) + 1
      /\ m_currentState' = m_currentState
  BY EventGenerated DEF EngineInv
<1>2. events \in Seq(Event) /\ Len(events) \in Nat
  <2>1. events \in Seq(Event)
    BY DEF EngineInv, TypeOK
  <2> QED
    BY <2>1, LenProperties
<1>3. TypeOK'
  <2>1. m_pEventData' \in 0 .. Len(events')
    BY <1>1, <1>2
  <2> QED
    BY <1>1, <2>1 DEF EngineInv, TypeOK, signalVars
<1>4. StackInv'
  BY <1>1 DEF StackInv
<1>5. DataInv'
  <2>1. m_pEventData' \in DOMAIN events' /\ events'[m_pEventData'].target = m_newState'
    BY <1>1
  <2>2. ASSUME NEW i \in DOMAIN frames', frames'[i].at \in Entering
        PROVE  /\ frames'[i].data \in DOMAIN events'
               /\ events'[frames'[i].data].target = frames'[i].row
    <3>1. i \in DOMAIN frames /\ frames'[i] = frames[i]
      BY <2>2
    <3>2. frames[i].data \in DOMAIN events /\ events[frames[i].data].target = frames[i].row
      BY <2>2, <3>1 DEF EngineInv, DataInv
    <3> QED
      BY <1>1, <3>1, <3>2
  <2> QED
    BY <2>1, <2>2 DEF DataInv
<1> QED
  BY <1>3, <1>4, <1>5 DEF EngineInv

\* The three steps that are not of the engine keep the invariant.
LEMMA CalledKeepsEngine ==
  ASSUME EngineInv, Called, Reenters' = Reenters
  PROVE  EngineInv'
<1>1. PICK t \in States : ExternalEventImpl(t) /\ (frames = <<>> \/ Top.at \in Reenters)
  BY DEF Called
<1>2. InternalEvent(t) /\ Enter(NewFrame) /\ UNCHANGED <<signalVars, faulted>>
  BY <1>1 DEF ExternalEventImpl
<1>3. /\ frames' \in Seq(Frame) /\ Len(frames') = Len(frames) + 1
      /\ \A i \in 1 .. Len(frames) : frames'[i] = frames[i]
      /\ DOMAIN frames' = DOMAIN frames \cup {Len(frames) + 1}
      /\ frames'[Len(frames) + 1].at = "loop"
  BY <1>2, Entered DEF EngineInv
<1>4. frames \in Seq(Frame) /\ Len(frames) \in Nat /\ DOMAIN frames = 1 .. Len(frames)
  <2>1. frames \in Seq(Frame)
    BY DEF EngineInv, TypeOK
  <2> QED
    BY <2>1, LenProperties
<1>5. \A i \in 1 .. Len(frames) : frames[i].at \in Reenters
  <2>1. CASE frames = <<>>
    BY <1>4, <2>1, EmptySeq
  <2>2. CASE frames # <<>>
    BY <1>1, <1>4, <2>2, TopIsAFrame DEF EngineInv, StackInv
  <2> QED
    BY <2>1, <2>2
<1>6. Len(frames') - 1 = Len(frames)
  BY <1>3, <1>4
<1>7. \A i \in 1 .. Len(frames') - 1 : frames'[i].at \in Reenters
  BY <1>3, <1>5, <1>6
<1>8. \A i \in DOMAIN frames' : frames'[i].at \in Entering =>
        i \in DOMAIN frames /\ frames'[i] = frames[i]
  BY <1>3, <1>4 DEF Entering
<1> QED
  BY <1>2, <1>3, <1>7, <1>8, GenerateKeepsEngine

\* An event a callback generates by mistake changes no frame.
LEMMA StrayKeepsEngine ==
  ASSUME EngineInv, StrayCalled, Reenters' = Reenters
  PROVE  EngineInv'
<1>1. PICK t \in States : InternalEvent(t) /\ UNCHANGED <<frames, signalVars, faulted>>
  BY DEF StrayCalled, StrayRaise
<1> QED
  BY <1>1, GenerateKeepsEngine DEF EngineInv, TypeOK, StackInv

\* An event that is ignored, or that stops the program, changes nothing else.
LEMMA StandingKeepsEngine ==
  ASSUME EngineInv, Stands, faulted' \in BOOLEAN, Reenters' = Reenters
  PROVE  EngineInv'
BY DEF Stands, machineVars, signalVars, EngineInv, TypeOK, StackInv, DataInv

\* Deciding the fate of an event keeps the targets of all.
LEMMA FateKeepsTargets ==
  ASSUME EngineInv, NEW i, NEW fate \in {"executed", "vetoed"}, events' = Fate(i, fate)
  PROVE  /\ events' \in Seq(Event) /\ Len(events') = Len(events) /\ DOMAIN events' = DOMAIN events
         /\ \A e \in DOMAIN events : events'[e].target = events[e].target
<1>1. events' = Decide(events, i, fate) /\ events \in Seq(Event)
  BY DEF Fate, Decide, EngineInv, TypeOK
<1> QED
  BY <1>1, FateDecided

\* Leaving a StateEngine uncovers one that is in a callback of Reenters.
LEMMA Uncovered ==
  ASSUME EngineInv, frames # <<>>, Leave, frames' # <<>>
  PROVE  Top'.at \in Reenters
<1>1. Top' = frames[Len(frames) - 1] /\ Len(frames) - 1 \in 1 .. Len(frames) - 1
  BY Left DEF EngineInv
<1> QED
  BY <1>1 DEF EngineInv, StackInv

\* A step that moves the innermost StateEngine leaves the others where they are.
LEMMA OthersStay ==
  ASSUME EngineInv, frames # <<>>, NEW at, NEW row, NEW from, NEW data,
         TopBecomes(at, row, from, data)
  PROVE  /\ frames' # <<>> /\ DOMAIN frames' = DOMAIN frames /\ Len(frames) \in DOMAIN frames
         /\ Top = frames[Len(frames)] /\ Top' = frames'[Len(frames)]
         /\ Top'.at = at /\ Top'.row = row /\ Top'.from = from /\ Top'.data = data
         /\ \A i \in DOMAIN frames : i # Len(frames) => frames'[i] = frames[i]
<1>1. /\ Len(frames) \in DOMAIN frames /\ Top = frames[Len(frames)]
      /\ \A i \in DOMAIN frames : i = Len(frames) \/ i \in 1 .. Len(frames) - 1
  BY TopIsAFrame DEF EngineInv
<1> QED
  BY <1>1 DEF TopBecomes

\* Where the steps that both engines share leave the innermost StateEngine.
SharedSteps == EngineReturns \/ GuardVetoes \/ ActionRaises \/ ActionReturns \/ OnTransitionDone

\* Each leaves the row, the state left and the data of the frame alone.
LEMMA SharedMoves ==
  ASSUME EngineInv, SharedSteps
  PROVE  /\ frames # <<>>
         /\ GuardVetoes => TopBecomes("loop", Top.row, Top.from, Top.data)
         /\ ActionRaises => TopBecomes("raised", Top.row, Top.from, Top.data)
         /\ ActionReturns => TopBecomes("onTransition", Top.row, Top.from, Top.data)
         /\ OnTransitionDone => TopBecomes("loop", Top.row, Top.from, Top.data)
<1>1. TypeOK /\ frames # <<>>
  BY DEF SharedSteps, EngineReturns, GuardVetoes, ActionRaises, ActionReturns, OnTransitionDone,
         In, EngineInv
<1>2. \A at \in Callbacks \cup {"loop"} : Goto(at) => TopBecomes(at, Top.row, Top.from, Top.data)
  BY <1>1, Gone
<1>3. /\ GuardVetoes \/ OnTransitionDone => Goto("loop")
      /\ ActionRaises => Goto("raised")
      /\ ActionReturns => Goto("onTransition")
  BY DEF GuardVetoes, OnTransitionDone, ActionRaises, ActionReturns
<1> QED
  BY <1>1, <1>2, <1>3 DEF Callbacks

\* The steps that both engines share keep the invariant.
LEMMA SharedKeepsEngine ==
  ASSUME EngineInv, SharedSteps, Reenters' = Reenters
  PROVE  EngineInv'
<1> USE DEF signalVars, machineVars
<1>1. TypeOK /\ StackInv /\ DataInv /\ frames # <<>>
  BY SharedMoves DEF EngineInv
<1>2. /\ Top \in Frame /\ Top = frames[Len(frames)] /\ Len(frames) \in DOMAIN frames
      /\ Len(frames) \in Nat
  BY <1>1, TopIsAFrame
<1>3. events \in Seq(Event)
  BY <1>1 DEF TypeOK
<1>4. CASE EngineReturns
  <2>1. Leave /\ UNCHANGED <<machineVars, events, signalVars, faulted>>
    BY <1>4 DEF EngineReturns
  <2>2. /\ frames' \in Seq(Frame) /\ Len(frames') = Len(frames) - 1
        /\ \A i \in 1 .. Len(frames) - 1 : frames'[i] = frames[i]
        /\ DOMAIN frames' = 1 .. Len(frames) - 1
    BY <1>1, <2>1, Left
  <2>3. /\ \A i \in 1 .. Len(frames) - 1 : i \in DOMAIN frames
        /\ \A i \in 1 .. Len(frames) - 1 - 1 : i \in 1 .. Len(frames) - 1
    <3>1. \A n \in Nat : \A i \in 1 .. n - 1 - 1 : i \in 1 .. n - 1
      OBVIOUS
    <3> QED
      BY <1>1, <1>2, <3>1, TopIsAFrame
  <2>4. TypeOK'
    BY <1>1, <2>1, <2>2 DEF TypeOK
  <2>5. StackInv'
    BY <1>1, <2>1, <2>2, <2>3 DEF StackInv
  <2>6. DataInv'
    BY <1>1, <2>1, <2>2, <2>3 DEF DataInv
  <2> QED
    BY <2>4, <2>5, <2>6 DEF EngineInv
<1>5. CASE GuardVetoes
  <2>1. TopBecomes("loop", Top.row, Top.from, Top.data)
    BY <1>5, SharedMoves DEF SharedSteps
  <2>2. events' = Fate(Top.data, "vetoed") /\ UNCHANGED <<machineVars, signalVars, faulted>>
    BY <1>5 DEF GuardVetoes
  <2>3. /\ events' \in Seq(Event) /\ Len(events') = Len(events)
        /\ \A e \in DOMAIN events : events'[e].target = events[e].target
    BY <2>2, FateKeepsTargets
  <2> QED
    BY <1>1, <2>1, <2>2, <2>3, MoveKeepsEngine DEF TypeOK, Entering
<1>6. CASE ActionRaises
  <2>1. PICK r \in Raises[Top.row] \ {NoEvent} : InternalEvent(r)
    BY <1>6 DEF ActionRaises
  <2>2. r \in States
    <3>1. Top.row \in States
      BY <1>2 DEF Frame
    <3> QED
      BY <2>1, <3>1, StateMachineAssumption
  <2>3. TopBecomes("raised", Top.row, Top.from, Top.data) /\ UNCHANGED <<signalVars, faulted>>
    BY <1>6, SharedMoves DEF SharedSteps, ActionRaises
  <2>4. /\ frames' \in Seq(Frame) /\ Len(frames') = Len(frames) /\ DOMAIN frames' = DOMAIN frames
        /\ \A i \in 1 .. Len(frames) - 1 : frames'[i] = frames[i]
        /\ frames'[Len(frames)].at = "raised"
    BY <2>3 DEF TopBecomes
  <2>5. \A i \in DOMAIN frames : i = Len(frames) \/ i \in 1 .. Len(frames) - 1
    BY <1>1, TopIsAFrame
  <2>6. \A i \in 1 .. Len(frames') - 1 : frames'[i].at \in Reenters
    BY <1>1, <2>4 DEF StackInv
  <2>7. \A i \in DOMAIN frames' : frames'[i].at \in Entering =>
          i \in DOMAIN frames /\ frames'[i] = frames[i]
    BY <2>4, <2>5 DEF Entering
  <2> QED
    BY <2>1, <2>2, <2>3, <2>4, <2>6, <2>7, GenerateKeepsEngine
<1>7. CASE ActionReturns \/ OnTransitionDone
  <2>1. PICK at \in {"onTransition", "loop"} : TopBecomes(at, Top.row, Top.from, Top.data)
    BY <1>7, SharedMoves DEF SharedSteps
  <2>2. /\ lastTransition' \in States \X States
        /\ UNCHANGED <<machineVars, events, occupied, faulted>>
    <3>1. Top.from \in States /\ m_currentState \in States /\ lastTransition \in States \X States
      BY <1>1, <1>2 DEF Frame, TypeOK
    <3> QED
      BY <1>7, <3>1 DEF ActionReturns, OnTransitionDone
  <2> QED
    BY <1>1, <1>3, <2>1, <2>2, MoveKeepsEngine DEF TypeOK, Entering
<1> QED
  BY <1>4, <1>5, <1>6, <1>7 DEF SharedSteps
===========================================================================
