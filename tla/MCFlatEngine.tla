-------------------------- MODULE MCFlatEngine --------------------------
(* Machines on which the flat engine is checked. *)
EXTENDS FlatEngine, TLC

CONSTANTS s1, s2, s3

\* Any outcome from any state: one event function per outcome.
AnyState       == {s1, s2, s3}
AnyEvent       == AnyState \cup {EVENT_IGNORED, CANNOT_HAPPEN}
AnyTransition  == [e \in AnyEvent |-> [s \in AnyState |-> e]]
AnyRaise       == [s \in AnyState |-> AnyState \cup {NoEvent}]
===========================================================================
