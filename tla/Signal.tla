------------------------------ MODULE Signal ------------------------------
(***************************************************************************)
(* dmq::Signal: the list of delegates connected to each signal, under its    *)
(* lock, and the delegates that a ScopedConnection refers to.  Emitting is   *)
(* taking a snapshot of the list and then invoking it without the lock, so  *)
(* a snapshot keeps alive a delegate that has been disconnected since.       *)
(***************************************************************************)
EXTENDS Integers, Sequences, SequencesExt

CONSTANTS
  Signals,
  Delegates     \* identities for the clones that Connect makes; reused once freed

VARIABLES
  delegates,    \* State::delegates of each signal
  connections   \* the clones with an open ScopedConnection

\* The elements of s that are in S, in their order.
Filter(s, S) ==
  LET kept[i \in 0 .. Len(s)] ==
        IF i = 0 THEN <<>>
        ELSE IF s[i] \in S THEN Append(kept[i - 1], s[i]) ELSE kept[i - 1]
  IN  kept[Len(s)]

Connect(s, d) ==
  /\ delegates' = [delegates EXCEPT ![s] = Append(@, d)]
  /\ connections' = connections \cup {d}

Disconnect(s, d) ==
  /\ delegates' = [delegates EXCEPT ![s] = Filter(@, Delegates \ {d})]
  /\ connections' = connections \ {d}

\* ~Signal; the connections stay and their Disconnect is a no-op.
MarkDead(s) ==
  /\ delegates' = [delegates EXCEPT ![s] = <<>>]
  /\ UNCHANGED connections

GetSnapshot(s) == delegates[s]
===========================================================================
