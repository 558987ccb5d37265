------------------------- MODULE MCStateMachineHSM -------------------------
(* Hierarchies and transition maps on which the hierarchical engine is checked. *)
EXTENDS StateMachineHSM, TLC

CONSTANTS s1, s2, s3, s4

FourStates == {s1, s2, s3, s4}
Columns    == [FourStates -> FourStates \cup {NO_PARENT}]

\* The columns without a cycle, and those with two roots, cyclic or not.
IsForest(p) ==
  \A T \in SUBSET FourStates : T # {} => \E s \in T : p[s] \notin T
Roots(p) == {s \in FourStates : p[s] = NO_PARENT}
Mixed == {p \in Columns : IsForest(p) \/ Cardinality(Roots(p)) = 2}

\* Event <<h, o, i>>: state h says o, state i ignores the event unless it is h, and
\* the others propagate.  There is one handler, with any target; or there are two,
\* one of them s1, and either may be the inner one on a path to the top.
OneOrTwoHandlers ==
  {e \in FourStates \X FourStates \X FourStates :
     e[3] = e[1] \/ (e[2] = e[1] /\ s1 \in {e[1], e[3]})}
OneOrTwoHandlersMap ==
  [e \in OneOrTwoHandlers |-> [s \in FourStates |->
     IF s = e[1] THEN e[2] ELSE IF s = e[3] THEN EVENT_IGNORED ELSE PROPAGATE_TO_PARENT]]

AnyRaise == [s \in FourStates |-> FourStates \cup {NoEvent}]

Symmetry == Permutations({s2, s3, s4})
===========================================================================
