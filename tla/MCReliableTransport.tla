----------------------- MODULE MCReliableTransport -----------------------
(* Instances of ReliableTransport for TLC. *)
EXTENDS ReliableTransport, TLC

\* The third message shares its number with the first, which goes to another remote
\* id, and its id with the second: no key is used twice, but an acknowledgement
\* may stand for either of two messages.
KeysDiffer == <<{1}, {2}, {2}>>
===========================================================================
