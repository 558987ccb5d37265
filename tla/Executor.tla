----------------------------- MODULE Executor -----------------------------
(***************************************************************************)
(* What an IThread promises about the messages it has accepted: each is     *)
(* invoked at most once or canceled, never both, oldest first within its    *)
(* lane, and no NORMAL message is taken while a HIGH one is queued.         *)
(***************************************************************************)
EXTENDS Naturals, Sequences

VARIABLE msgs     \* every accepted message, in order of acceptance

Queued(i)  == msgs[i].fate = "queued"
SetFate(ids, f) == [i \in DOMAIN msgs |-> IF i \in ids THEN [msgs[i] EXCEPT !.fate = f] ELSE msgs[i]]

Init == msgs = <<>>

Accept == \E l \in {"HIGH", "NORMAL"} : msgs' = Append(msgs, [lane |-> l, fate |-> "queued"])

\* i is next: it is the oldest of its lane, and HIGH if a HIGH message is queued.
MayBegin(i) ==
  /\ Queued(i)
  /\ \A j \in DOMAIN msgs : Queued(j) /\ msgs[j].lane = msgs[i].lane => i <= j
  /\ msgs[i].lane = "NORMAL" => \A j \in DOMAIN msgs : Queued(j) => msgs[j].lane = "NORMAL"

\* An executor may settle on a message before it starts, or throws away, that one.
Take   == \E i \in DOMAIN msgs : MayBegin(i) /\ msgs' = SetFate({i}, "taken")
Begin  == \E i \in DOMAIN msgs : (MayBegin(i) \/ msgs[i].fate = "taken") /\ msgs' = SetFate({i}, "running")
Finish == \E i \in DOMAIN msgs : msgs[i].fate = "running" /\ msgs' = SetFate({i}, "invoked")

\* A stopping executor cancels messages it has not started.
Unstarted == {i \in DOMAIN msgs : msgs[i].fate \in {"queued", "taken"}}
Cancel == \E ids \in SUBSET Unstarted : msgs' = SetFate(ids, "canceled")

Next == Accept \/ Take \/ Begin \/ Finish \/ Cancel
Spec == Init /\ [][Next]_msgs
===========================================================================
