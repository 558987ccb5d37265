------------------------- MODULE TransportMonitor -------------------------
(***************************************************************************)
(* dmq::util::TransportMonitor: the table of messages that have been sent   *)
(* and not acknowledged.  A message is known to it by its key, the remote   *)
(* id and the 16-bit sequence number; the number may have been used before. *)
(* Each operator below is one section of code that holds m_lock; the        *)
(* signals are fired after it, by the module that uses the table.           *)
(***************************************************************************)
EXTENDS Integers, FiniteSets, Tables

CONSTANTS
  Ids,                            \* remote ids
  SEQ_MOD,                        \* sequence numbers wrap here (2^16 in the code)
  MAX_TRANSPORT_MONITOR_PENDING,  \* capacity of m_pending
  MAX_TIMER_EXPIRED               \* time-outs reported by one pass of Process

ASSUME TransportMonitorAssumption ==
  /\ Ids \subseteq Nat \ {0} /\ IsFiniteSet(Ids)
  /\ SEQ_MOD \in Nat \ {0}
  /\ MAX_TRANSPORT_MONITOR_PENDING \in Nat \ {0}
  /\ MAX_TIMER_EXPIRED \in Nat \ {0}

VARIABLE pending   \* m_pending: a partial function from keys to the message that was added

Keys == Ids \X (0 .. SEQ_MOD - 1)

---------------------------------------------------------------------------
\* Add returns true: there is room, and the sequence number has not wrapped
\* onto a message that is still pending.
Accepts(k) ==
  /\ Cardinality(DOMAIN pending) < MAX_TRANSPORT_MONITOR_PENDING
  /\ k \notin DOMAIN pending

Add(k, m) == pending' = IF Accepts(k) THEN With(pending, k, m) ELSE pending

Cancel(k) == pending' = Without(pending, {k})

\* Remove without a remote id, which is how every transport calls it: a scan
\* in key order for the sequence number alone.
Matching(q) == {k \in DOMAIN pending : k[2] = q}
Removed(q) == CHOOSE k \in Matching(q) : \A j \in Matching(q) : k[1] <= j[1]

\* The keys one pass of Process may take off the table.  Time is not modelled:
\* any pending message may have expired, and one that is left out has not, or
\* did not fit and is taken by the next pass.
Batches == {K \in SUBSET DOMAIN pending : K # {} /\ Cardinality(K) <= MAX_TIMER_EXPIRED}
===========================================================================
