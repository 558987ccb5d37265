-------------------------- MODULE StateMachineHSM --------------------------
(***************************************************************************)
(* class StateMachineHSM: StateEngine over a map whose rows name a parent   *)
(* state, and the transition maps that propagate to the parent.             *)
(*                                                                         *)
(* A transition leaves the states from the current one up to, not including, *)
(* the least common ancestor, innermost first, then enters the states from   *)
(* there down to the target.  A frame's todo holds the states that the walk  *)
(* in progress has not reached yet.                                         *)
(***************************************************************************)
EXTENDS StateMachine

CONSTANTS
  Events, Transitions,   \* as in FlatEngine, entries may be PROPAGATE_TO_PARENT
  PROPAGATE_TO_PARENT, NO_PARENT,
  Hierarchies,           \* the ParentState columns the map may have
  MAX_HSM_DEPTH

ASSUME HSMAssumption ==
  /\ {PROPAGATE_TO_PARENT, NO_PARENT} \cap Outcomes = {} /\ PROPAGATE_TO_PARENT # NO_PARENT
  /\ Transitions \in [Events -> [States -> Outcomes \cup {PROPAGATE_TO_PARENT}]]
  /\ Hierarchies \subseteq [States -> States \cup {NO_PARENT}] /\ Hierarchies # {}
  /\ MAX_HSM_DEPTH \in Nat \ {0} /\ IsFiniteSet(States)

VARIABLE ParentState     \* never changes

hsmVars == <<vars, Reenters, ParentState>>

---------------------------------------------------------------------------
\* Up(s)[n] is the state n levels above s, NO_PARENT above the top.  A chain of
\* parents that has not ended within Levels is a cycle.
Steps  == 0 .. MAX_HSM_DEPTH
Levels == 0 .. Max({MAX_HSM_DEPTH, Cardinality(States)})
Above(s) == IF s \in States THEN ParentState[s] ELSE NO_PARENT
Up(s) == LET up[n \in Levels] == IF n = 0 THEN s ELSE Above(up[n - 1])
         IN  up

\* A walk of at most MAX_HSM_DEPTH iterations up from s: where it may stop, at l or
\* above the top, and what it visits until it does or an assertion stops it.
Stops(s, l)   == LET up == Up(s) IN {n \in Steps : up[n] \in {l, NO_PARENT}}
Visited(s, l) == LET up == Up(s) IN [n \in 1 .. Min(Stops(s, l) \cup {MAX_HSM_DEPTH}) |-> up[n - 1]]

(* FindLCA: for each a from stateA upwards, b from stateB upwards, either    *)
(* until a = b.  An assertion fails when a walk takes more than             *)
(* MAX_HSM_DEPTH iterations.                                                *)
ReachesTop(s) == Stops(s, NO_PARENT) # {}
Shared(a, b)  == {i \in Steps \ {MAX_HSM_DEPTH} :
                    \E j \in Steps \ {MAX_HSM_DEPTH} : Up(a)[i] \in States /\ Up(a)[i] = Up(b)[j]}
Unbounded(a, b) == FALSE                 \* slip: no bound on FindLCA's walks
FindLCAAsserts(a, b) == IF Shared(a, b) = {} THEN ~ReachesTop(a) \/ ~ReachesTop(b)
                                             ELSE 0 \notin Shared(a, b) /\ ~ReachesTop(b)
NoLCA(a, b) == NO_PARENT                 \* slip: every level exited
ParentOf(a, b) == ParentState[a]         \* slip: one level exited
FindLCA(a, b) == IF Shared(a, b) = {} THEN NO_PARENT ELSE Up(a)[Min(Shared(a, b))]

(* END_TRANSITION_MAP_HSM: the innermost state, from the current one up,     *)
(* whose entry is not PROPAGATE_TO_PARENT; ignored when there is none.  On a *)
(* cyclic map whose entries all propagate the loop never ends.              *)
Handlers(e) ==
  LET up == Up(m_currentState)
  IN  {n \in Levels : up[n] \in States /\ Transitions[e][up[n]] # PROPAGATE_TO_PARENT}
\* slip: the walk goes on past a state that handles the event
OutermostHandler(e) == IF Handlers(e) = {} THEN EVENT_IGNORED
                       ELSE Transitions[e][Up(m_currentState)[Max(Handlers(e))]]
Resolved(e) == IF Handlers(e) = {} THEN EVENT_IGNORED
               ELSE Transitions[e][Up(m_currentState)[Min(Handlers(e))]]

Endless(e) == Handlers(e) = {} /\ \A n \in Levels : Up(m_currentState)[n] # NO_PARENT

---------------------------------------------------------------------------
AncestorsOrSelf(s) == Range(Up(s)) \ {NO_PARENT}

Init ==
  /\ ParentState \in Hierarchies
  /\ StateMachineInit(AncestorsOrSelf(InitialState))

Asserts == faulted' = TRUE /\ UNCHANGED <<machineVars, frames, events, signalVars>>

\* newState is a local here: it is row of the frame.
Begin ==
  /\ In("loop") /\ m_eventGenerated
  /\ Consume
  /\ Update([Top EXCEPT !.at = "guard", !.row = m_newState, !.data = m_pEventData])
  /\ UNCHANGED <<m_currentState, m_newState, events, signalVars, faulted>>

\* After the exits: the states to enter, SetCurrentState, and the first entry.
\* Instead of that, the assertion of a walk out that has not ended by now, or of
\* one of the states to enter that would not.
\* "Entry/exit actions must not fire new events": the assertion behind the walks.
LeafFirst(f, lca)  == Visited(f.row, lca)     \* slip: entered in the order collected
EntryChain(f, lca) == Reverse(Visited(f.row, lca))
Arrive(f, todo) ==
  IF todo # <<>> THEN Update([f EXCEPT !.at = "entry", !.todo = todo]) /\ UNCHANGED faulted
  ELSE IF m_eventGenerated THEN Update(f) /\ faulted' = TRUE
  ELSE Update([f EXCEPT !.at = "action", !.todo = <<>>]) /\ UNCHANGED faulted

BeginEntries(f) ==
  LET lca == FindLCA(f.from, f.row)
  IN  IF Stops(f.from, lca) = {} \/ Stops(f.row, lca) = {} THEN Asserts
      ELSE /\ m_currentState' = f.row
           /\ Arrive(f, EntryChain(f, lca))
           /\ UNCHANGED <<m_newState, m_eventGenerated, m_pEventData, signalVars>>

\* The guard passes.  Nothing is exited or entered in a self-transition.
Pass ==
  LET f   == [Top EXCEPT !.from = m_currentState]
      lca == FindLCA(f.from, f.row)
  IN  /\ In("guard")
      /\ IF f.row = f.from
         THEN Update([f EXCEPT !.at = "action"]) /\ UNCHANGED <<machineVars, signalVars, faulted>>
         ELSE IF FindLCAAsserts(f.from, f.row) THEN Asserts
         ELSE IF f.from # lca
         THEN /\ Update([f EXCEPT !.at = "exit", !.todo = Visited(f.from, lca)])
              /\ UNCHANGED <<machineVars, signalVars, faulted>>
         ELSE BeginEntries(f)
      /\ events' = IF faulted' THEN events ELSE Fate(Top.data, "executed")

\* slip: OnExit not fired
ExitsSilently ==
  /\ In("exit")
  /\ Goto("onExit")
  /\ UNCHANGED <<machineVars, events, signalVars, faulted>>

ExitActionDone ==
  /\ In("exit")
  /\ Goto("onExit")
  /\ occupied' = occupied \ {Head(Top.todo)}              \* OnExit(s)
  /\ UNCHANGED <<machineVars, events, lastTransition, faulted>>

OnExitDone ==
  /\ In("onExit")
  /\ IF Len(Top.todo) > 1
     THEN /\ Update([Top EXCEPT !.at = "exit", !.todo = Tail(@)])
          /\ UNCHANGED <<machineVars, signalVars, faulted>>
     ELSE BeginEntries(Top)
  /\ UNCHANGED events

EntryActionDone ==
  /\ In("entry")
  /\ Goto("onEntry")
  /\ occupied' = occupied \cup {Head(Top.todo)}           \* OnEntry(entryChain[i])
  /\ UNCHANGED <<machineVars, events, lastTransition, faulted>>

OnEntryDone ==
  /\ In("onEntry")
  /\ Arrive(Top, Tail(Top.todo))
  /\ UNCHANGED <<machineVars, events, signalVars>>

StateEngine ==
  \/ Begin \/ EngineReturns \/ GuardVetoes \/ Pass
  \/ ExitActionDone \/ OnExitDone \/ EntryActionDone \/ OnEntryDone
  \/ ActionRaises \/ ActionReturns \/ OnTransitionDone

Next ==
  /\ ~faulted /\ UNCHANGED <<Reenters, ParentState>>
  /\ \/ StateEngine
     \/ \E e \in Events : (CallEvent(Resolved(e)) \/ ReenterEvent(Resolved(e))) /\ ~Endless(e)
     \/ \E t \in States : StrayRaise(t)

Spec == Init /\ [][Next]_hsmVars

---------------------------------------------------------------------------
\* The map is no programming error: no cycle, at most MAX_HSM_DEPTH levels.
WellFormed == \A s \in States : ReachesTop(s)

\* The callbacks of a walk call no event function: a second transition in the
\* middle of the first would leave the walk with the states of a configuration
\* that is gone.
Walking(f)  == f.at \in {"exit", "onExit", "entry", "onEntry"}
WalksAlone  == Reenters \cap {"exit", "onExit", "entry", "onEntry"} = {}

(* While no walk is in progress the occupied states are the current state    *)
(* and its ancestors: what a subscriber that pairs OnExit with OnEntry sees. *)
ConfigurationExact ==
  WalksAlone /\ (\A i \in DOMAIN frames : ~Walking(frames[i])) /\ WellFormed =>
    occupied = AncestorsOrSelf(m_currentState)

(* Not even in the middle of a transition is a state occupied whose parent   *)
(* is not: children are left before, and entered after, their parents; and   *)
(* no occupied state is entered a second time.                              *)
ParentsOccupied == WellFormed /\ WalksAlone =>
  /\ \A s \in occupied : ParentState[s] \in occupied \cup {NO_PARENT}
  /\ In("entry") => Head(Top.todo) \notin occupied

(* FindLCA returns the deepest state above or equal to both, if any.         *)
(* (ParentState never changes: the initial states say it all.)              *)
FindLCACorrect ==
  events = <<>> /\ WellFormed => \A a, b \in States :
    LET common == AncestorsOrSelf(a) \cap AncestorsOrSelf(b)
        lca    == FindLCA(a, b)
    IN  /\ ~FindLCAAsserts(a, b)
        /\ IF common = {} THEN lca = NO_PARENT
           ELSE lca \in common /\ common \subseteq AncestorsOrSelf(lca)

(* Between transitions an event goes to the innermost occupied state that    *)
(* does not propagate it.                                                   *)
InnermostHandler ==
  AtRest /\ WalksAlone => \A e \in Events :
    LET able == {s \in occupied : Transitions[e][s] # PROPAGATE_TO_PARENT}
    IN  IF able = {} THEN Resolved(e) = EVENT_IGNORED
        ELSE \E s \in able : able \subseteq AncestorsOrSelf(s) /\ Resolved(e) = Transitions[e][s]

(* On a malformed map FindLCA fails first: a transition that has begun to    *)
(* leave states does not stop half-way, and its entry chain fits.            *)
NoHalfTransition ==
  faulted /\ ~m_eventGenerated /\ WalksAlone => \A i \in DOMAIN frames : ~Walking(frames[i])

(* Over a map in which no state has a parent the hierarchical engine is the  *)
(* flat engine over a StateMapRowEx map: an entry that propagates is ignored *)
(* and a transition leaves one state and enters one.  (No guard and no       *)
(* callback of a walk may call an event function, or generate an event: the  *)
(* flat engine reads m_newState again, and would enter another state.)       *)
Flat == INSTANCE FlatEngine WITH
  Extended    <- TRUE,
  Forms       <- {TRUE},
  Transitions <- [e \in Events |-> [s \in States |->
                    IF Transitions[e][s] = PROPAGATE_TO_PARENT THEN EVENT_IGNORED
                    ELSE Transitions[e][s]]],
  frames      <- [i \in DOMAIN frames |-> [frames[i] EXCEPT !.todo = <<>>]]
Strayed == frames # <<>> /\ Walking(Top) /\ m_eventGenerated
NoParents == (\A s \in States : ParentState[s] = NO_PARENT) /\ WalksAlone /\ "guard" \notin Reenters /\ ~Strayed
ImplementsFlatEngine == (NoParents => Flat!Init) /\ [][NoParents => [Flat!Next]_(Flat!flatVars)]_hsmVars
===========================================================================
