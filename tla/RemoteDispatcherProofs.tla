----------------------- MODULE RemoteDispatcherProofs -----------------------
(***************************************************************************)
(* What TLAPS proves of RemoteDispatcher and of the blocking calls it makes *)
(* of, for any callers, bound of the queue, capacity of the pending table,  *)
(* number of resends and of calls.                                          *)
(***************************************************************************)
EXTENDS RemoteDispatcher, FiniteSetTheorems, WellFoundedInduction, TLAPS

---------------------------------------------------------------------------
(* The invariants.                                                          *)

Senders == Callers \cup {"receiver", "owner"}
Names   == Senders \X (1 .. Capacity + 2)

CallRecords == [timed : BOOLEAN, sender : {"waits", "gaveUp", "returned"},
                target : {"queued", "running", "ran", "refused"}]

\* The call a sender is inside of.
Current(b) == IF b \in Callers THEN call[b] ELSE IF b = "receiver" THEN recvCall ELSE ownerCall

TableTypes ==
  /\ DOMAIN calls \subseteq Names /\ \A i \in DOMAIN calls : calls[i] \in CallRecords
  /\ queue \in Seq(Names \cup {Tick}) /\ Len(queue) <= Capacity

CallTypes ==
  /\ TableTypes
  /\ call \in [Callers -> Names \cup {NoCall}]
  /\ recvCall \in Names \cup {NoCall} /\ ownerCall \in Names \cup {NoCall}
  /\ pc \in [Callers -> {"idle", "sending", "awaiting", "reading"}]
  /\ recv \in {"receive", "waiting", "exited"}
  /\ owner \in {"started", "joining", "stopping", "stopped"}
  /\ at \in {"loop", "target", "record", "process"}

\* A sender is inside the call it made last, until it has returned from it.
Inside(b) ==
  /\ Current(b) # NoCall =>
       Current(b) \in DOMAIN calls /\ Current(b)[1] = b /\ calls[Current(b)].sender # "returned"
  /\ \A i \in DOMAIN calls : i[1] = b /\ calls[i].sender # "returned" => Current(b) = i

Insides ==
  /\ \A c \in Callers : pc[c] = "sending" <=> call[c] # NoCall
  /\ recv = "waiting" <=> recvCall # NoCall
  /\ owner = "stopping" <=> ownerCall # NoCall
  /\ \A b \in Senders : Inside(b)

\* The queue has each call that is queued, once, and the calls left by their
\* sender are among them.
Queued ==
  /\ \A m, n \in 1 .. Len(queue) : queue[m] = queue[n] => m = n
  /\ \A n \in 1 .. Len(queue) :
       queue[n] = Tick \/ (queue[n] \in DOMAIN calls /\ calls[queue[n]].target = "queued")
  /\ \A i \in DOMAIN calls : calls[i].target = "queued" => \E n \in 1 .. Len(queue) : queue[n] = i
  /\ \A i \in DOMAIN calls : calls[i].sender = "returned" => calls[i].target = "queued"

\* Only the receive thread gives up on a call that was queued.
Patience ==
  \A i \in DOMAIN calls :
    /\ calls[i].timed => i[1] = "receiver"
    /\ calls[i].sender = "gaveUp" => calls[i].timed \/ calls[i].target = "refused"
    /\ calls[i].target = "refused" => calls[i].sender = "gaveUp"

\* The thread runs one target at a time.
OneTarget ==
  /\ \A i, j \in DOMAIN calls : calls[i].target = "running" /\ calls[j].target = "running" => i = j
  /\ \A i \in DOMAIN calls : calls[i].target = "running" =>
       at \in {"target", "record"} /\ (at = "record" => i[1] \in Callers)

CallInv == CallTypes /\ Insides /\ Queued /\ Patience /\ OneTarget

IsState(w) ==
  /\ w = [complete |-> w.complete, success |-> w.success, expectedSeq |-> w.expectedSeq,
          early |-> w.early, sem |-> w.sem]
  /\ w.complete \in BOOLEAN /\ w.success \in BOOLEAN /\ w.sem \in BOOLEAN
  /\ w.expectedSeq \in Nat

StatusTypes ==
  /\ DOMAIN state = Callers /\ \A c \in Callers : IsState(state[c])
  /\ sendOk \in [Callers -> BOOLEAN] /\ mine \in [Callers -> Nat]
  /\ first \in [Callers -> {"none", "SUCCESS", "TIMEOUT"}]
  /\ emit \in [Threads -> [seq : Nat, status : {"SUCCESS", "TIMEOUT"}, to : SUBSET Callers]]
  /\ lastSeq \in Nat /\ lastSeqNum \in Nat \ {0}

\* Only numbers that have been given are pending, reported or kept.
Given ==
  /\ \A k \in DOMAIN pending \cup DOMAIN batch : k[2] \in 1 .. lastSeq
  /\ \A t \in Threads : emit[t].to # {} => emit[t].seq \in 1 .. lastSeq
  /\ \A c \in Callers : DOMAIN state[c].early \subseteq 1 .. lastSeq
  /\ \A c \in Callers : mine[c] <= lastSeq

\* The network thread reports only in Process, the receive thread only successes,
\* and both only to callers that are connected.
Reports ==
  /\ emit["network"].to # {} \/ DOMAIN batch # {} => at = "process"
  /\ emit["receive"].to # {} => emit["receive"].status = "SUCCESS"
  /\ \A t \in Threads : \A c \in emit[t].to : pc[c] # "idle"

\* Of a caller: the target that sends for it is under way between the number's
\* being drawn and its being recorded.
Recording(c) == at = "record" /\ call[c] \in DOMAIN calls /\ calls[call[c]].target = "running"

\* What is known of a caller's message: before its number is drawn, between that
\* and its being recorded, and after that; or that it got none.
StatusOf(c) ==
  /\ pc[c] = "idle" => mine[c] = None /\ state[c] = NewState
  /\ pc[c] = "sending" /\ ~Recording(c) /\ calls[call[c]].target # "ran" =>
       mine[c] = None /\ state[c].expectedSeq = None
  /\ mine[c] = None => first[c] = "none"
  /\ state[c].expectedSeq = None => ~state[c].complete /\ ~state[c].success
  /\ Recording(c) => state[c].expectedSeq = None /\ mine[c] \in {None, lastSeqNum}
  /\ mine[c] # None /\ state[c].expectedSeq = None =>
       /\ Recording(c)
       /\ IF mine[c] \in DOMAIN state[c].early
          THEN state[c].early[mine[c]] = "SUCCESS" /\ first[c] = "SUCCESS"
          ELSE first[c] = "none"
  /\ mine[c] # None /\ state[c].expectedSeq # None =>
       /\ state[c].expectedSeq = mine[c]
       /\ state[c].complete <=> first[c] # "none"
       /\ state[c].success <=> first[c] = "SUCCESS"

StatusInv == StatusTypes /\ Given /\ Reports /\ \A c \in Callers : StatusOf(c)

RpcInv == CallInv /\ StatusInv
---------------------------------------------------------------------------
(* Names of calls.                                                          *)

\* A set of naturals that is not empty has a least element.
LEMMA LeastNatural ==
  ASSUME NEW T, T \subseteq Nat, T # {}
  PROVE  \E x \in T : \A y \in T : x <= y
<1> DEFINE R == OpToRel(<, Nat)
<1>1. IsWellFoundedOn(R, Nat)
  BY NatLessThanWellFounded
<1>2. \A x, y \in Nat : x < y => <<x, y>> \in R
  BY DEF OpToRel
<1> HIDE DEF R
<1>3. PICK x \in T : \A y \in T : ~(<<y, x>> \in R)
  BY <1>1, WFMin
<1>4. \A y \in T : x <= y
  <2>1. \A a, b \in Nat : ~(b < a) => a <= b
    OBVIOUS
  <2> QED
    BY <1>2, <1>3, <2>1
<1> QED
  BY <1>4

\* Names are pairs, the timer's message is none of them, and NoCall is neither.
LEMMA NamesArePairs ==
  /\ \A i \in Names : i = <<i[1], i[2]>> /\ i[1] \in Senders /\ i # NoCall
  /\ Tick \notin Names
<1>1. "timer" \notin Senders
  BY RemoteDispatcherAssumption DEF RemoteDispatcherAssumption, Senders
<1>2. \A i \in Names : i = <<i[1], i[2]>> /\ i[1] \in Senders
  BY DEF Names
<1>3. \A i \in Names : i # NoCall
  BY DEF Names, NoCall
<1>4. Tick[1] = "timer"
  BY DEF Tick
<1> QED
  BY <1>1, <1>2, <1>3, <1>4

\* A sender that is inside no call has a name for the next one: the calls it
\* left behind are all in the queue, which is bounded.
LEMMA NewCallIsNew ==
  ASSUME CallInv, NEW b \in Senders, Current(b) = NoCall
  PROVE  NewCall(b) \in Names /\ NewCall(b)[1] = b /\ NewCall(b) \notin DOMAIN calls
<1>1. PICK L : L = Len(queue)
  OBVIOUS
<1>2. L \in Nat /\ L <= Capacity /\ Capacity \in Nat
  BY <1>1, DelegateAsyncWaitAssumption DEF CallInv, CallTypes, TableTypes, DelegateAsyncWaitAssumption
<1> DEFINE N == 1 .. Capacity + 2
           Free == {n \in N : <<b, n>> \notin DOMAIN calls}
<1>3. ASSUME Free = {} PROVE FALSE
  <2>1. ASSUME NEW n \in N PROVE \E m \in 1 .. L : queue[m] = <<b, n>>
    <3>1. PICK i : i = <<b, n>>
      OBVIOUS
    <3>2. i \in DOMAIN calls /\ i[1] = b /\ i \in Names
      BY <1>3, <3>1 DEF CallInv, CallTypes, TableTypes
    <3>3. Current(b) # i
      BY <3>2, NamesArePairs
    <3>4. calls[i].sender = "returned"
      BY <3>2, <3>3 DEF CallInv, Insides, Inside
    <3> QED
      BY <1>1, <3>1, <3>2, <3>4 DEF CallInv, Queued
  <2>2. PICK f : f = [n \in N |-> CHOOSE m \in 1 .. L : queue[m] = <<b, n>>]
    OBVIOUS
  <2>3. f \in [N -> 1 .. L] /\ \A n \in N : queue[f[n]] = <<b, n>>
    BY <2>1, <2>2
  <2>4. /\ IsFiniteSet(N) /\ Cardinality(N) = Capacity + 2
        /\ IsFiniteSet(1 .. L) /\ Cardinality(1 .. L) = L
    BY <1>2, FS_Interval
  <2>5. L < Capacity + 2
    BY <1>2
  <2>6. PICK x, y \in N : x # y /\ f[x] = f[y]
    <3>1. PICK S, T : S = N /\ T = 1 .. L
      OBVIOUS
    <3>2. /\ IsFiniteSet(S) /\ IsFiniteSet(T) /\ f \in [S -> T]
          /\ Cardinality(T) < Cardinality(S)
      BY <1>2, <2>3, <2>4, <3>1
    <3>3. \E x, y \in S : x # y /\ f[x] = f[y]
      BY ONLY <3>2, FS_PigeonHole
    <3> QED
      BY <3>1, <3>3
  <2>7. <<b, x>> = <<b, y>>
    BY <2>3, <2>6
  <2> QED
    BY <2>6, <2>7
<1>4. PICK n \in Free : \A m \in Free : n <= m
  <2>1. Free \subseteq Nat
    OBVIOUS
  <2> HIDE DEF Free
  <2> QED
    BY <1>3, <2>1, LeastNatural
<1>5. /\ n \in N /\ <<b, n>> \notin DOMAIN calls
      /\ \A k \in 1 .. n - 1 : <<b, k>> \in DOMAIN calls
  <2>1. ASSUME NEW k \in 1 .. n - 1 PROVE <<b, k>> \in DOMAIN calls
    <3>1. k \in N /\ ~(n <= k)
      BY <1>2
    <3> QED
      BY <1>4, <3>1
  <2> QED
    BY <2>1
<1> DEFINE P(m) == <<b, m>> \notin DOMAIN calls /\ \A k \in 1 .. m - 1 : <<b, k>> \in DOMAIN calls
<1>6. PICK m : m = (CHOOSE x \in N : P(x))
  OBVIOUS
<1>7. m \in N /\ P(m)
  <2>1. \E x \in N : P(x)
    BY <1>5
  <2> HIDE DEF P, N
  <2> QED
    BY <1>6, <2>1
<1>8. NewCall(b) = <<b, m>>
  BY <1>6 DEF NewCall
<1> QED
  BY <1>7, <1>8 DEF Names

---------------------------------------------------------------------------
(* What the operators of a blocking call do to the calls and the queue.     *)

\* A step touches no call but i.
OnlyCall(i) ==
  /\ \A j : j # i => (j \in DOMAIN calls' <=> j \in DOMAIN calls)
  /\ \A j \in DOMAIN calls : j # i => calls'[j] = calls[j]

Tables == TableTypes /\ Queued /\ Patience

\* One field of one record of a table is changed.
LEMMA FieldChanged ==
  ASSUME NEW f, NEW i \in DOMAIN f, f[i] \in CallRecords, NEW v
  PROVE  /\ DOMAIN [f EXCEPT ![i].sender = v] = DOMAIN f
         /\ \A j \in DOMAIN f : [f EXCEPT ![i].sender = v][j] =
              IF j = i THEN [timed |-> f[i].timed, sender |-> v, target |-> f[i].target] ELSE f[j]
         /\ DOMAIN [f EXCEPT ![i].target = v] = DOMAIN f
         /\ \A j \in DOMAIN f : [f EXCEPT ![i].target = v][j] =
              IF j = i THEN [timed |-> f[i].timed, sender |-> f[i].sender, target |-> v] ELSE f[j]
BY DEF CallRecords

\* The other senders' calls are not touched.
LEMMA OthersStayInside ==
  ASSUME CallInv, NEW i \in Names, OnlyCall(i), NEW b \in Senders, b # i[1],
         Current(b)' = Current(b)
  PROVE  Inside(b)'
BY NamesArePairs DEF CallInv, Insides, Inside, OnlyCall

\* The call is made: it is queued, or refused and given up.
LEMMA DispatchKeeps ==
  ASSUME CallInv, NEW b \in Senders, Current(b) = NoCall, NEW timed \in BOOLEAN,
         timed => b = "receiver", DispatchAsyncWait(NewCall(b), timed)
  PROVE  \E i \in Names :
           /\ i = NewCall(b) /\ i[1] = b /\ i \notin DOMAIN calls /\ OnlyCall(i) /\ Tables'
           /\ i \in DOMAIN calls' /\ calls'[i].sender # "returned"
           /\ calls'[i].target \in {"queued", "refused"}
<1>1. PICK i : i = NewCall(b)
  OBVIOUS
<1>2. i \in Names /\ i[1] = b /\ i \notin DOMAIN calls
  BY <1>1, NewCallIsNew
<1>3. PICK r : r = [timed |-> timed, sender |-> IF HasRoom THEN "waits" ELSE "gaveUp",
                   target |-> IF HasRoom THEN "queued" ELSE "refused"]
  OBVIOUS
<1>4. /\ DOMAIN calls' = DOMAIN calls \cup {i} /\ calls'[i] = r
      /\ \A j \in DOMAIN calls : j # i /\ calls'[j] = calls[j]
      /\ queue' = IF HasRoom THEN Append(queue, i) ELSE queue
  BY <1>1, <1>2, <1>3 DEF DispatchAsyncWait, With
<1>5. /\ queue \in Seq(Names \cup {Tick}) /\ Len(queue) \in Nat /\ Capacity \in Nat
      /\ Len(queue) <= Capacity
  BY DelegateAsyncWaitAssumption DEF CallInv, CallTypes, TableTypes, DelegateAsyncWaitAssumption
<1>6. r \in CallRecords
  BY <1>3 DEF CallRecords
<1>7. OnlyCall(i)
  BY <1>4 DEF OnlyCall
<1>8. TableTypes'
  <2>1. queue' \in Seq(Names \cup {Tick}) /\ Len(queue') <= Capacity
    BY <1>2, <1>4, <1>5 DEF HasRoom
  <2> QED
    BY <1>2, <1>4, <1>6, <2>1 DEF CallInv, CallTypes, TableTypes
<1>9. Patience'
  BY <1>2, <1>3, <1>4 DEF CallInv, Patience
<1>10. Queued'
  <2>1. CASE HasRoom
    <3>1. PICK q : q = queue
      OBVIOUS
    <3>2. /\ queue' = Append(q, i) /\ Len(queue') = Len(q) + 1 /\ queue'[Len(q) + 1] = i
          /\ \A n \in 1 .. Len(q) : queue'[n] = q[n] /\ q[n] # i
          /\ Len(q) \in Nat
      <4>1. q \in Seq(Names \cup {Tick}) /\ queue' = Append(q, i)
        BY <1>4, <1>5, <2>1, <3>1
      <4>2. \A n \in 1 .. Len(q) : q[n] # i
        BY <1>2, <3>1, NamesArePairs DEF CallInv, Queued
      <4> QED
        BY <1>2, <4>1, <4>2
    <3>3. \A n \in 1 .. Len(queue') : n \in 1 .. Len(q) \/ n = Len(q) + 1
      BY <3>2
    <3>4. \A m, n \in 1 .. Len(queue') : queue'[m] = queue'[n] => m = n
      BY <3>1, <3>2, <3>3 DEF CallInv, Queued
    <3>5. r.target = "queued" /\ r.sender = "waits"
      BY <1>3, <2>1
    <3>6. ASSUME NEW n \in 1 .. Len(queue')
          PROVE  queue'[n] = Tick \/ (queue'[n] \in DOMAIN calls' /\ calls'[queue'[n]].target = "queued")
      <4>1. CASE n = Len(q) + 1
        BY <1>4, <3>2, <3>5, <4>1
      <4>2. CASE n \in 1 .. Len(q)
        <5>1. queue'[n] = queue[n] /\ n \in 1 .. Len(queue)
          BY <3>1, <3>2, <4>2
        <5>2. queue[n] = Tick \/ (queue[n] \in DOMAIN calls /\ calls[queue[n]].target = "queued")
          BY <5>1 DEF CallInv, Queued
        <5> QED
          BY <1>4, <5>1, <5>2
      <4> QED
        BY <3>3, <4>1, <4>2
    <3>7. ASSUME NEW j \in DOMAIN calls', calls'[j].target = "queued"
          PROVE  \E n \in 1 .. Len(queue') : queue'[n] = j
      <4>1. CASE j = i
        <5>1. Len(q) + 1 \in 1 .. Len(queue')
          BY <3>2
        <5> QED
          BY <3>2, <4>1, <5>1
      <4>2. CASE j # i
        <5>1. j \in DOMAIN calls /\ calls[j].target = "queued"
          BY <1>4, <3>7, <4>2
        <5>2. PICK n \in 1 .. Len(q) : q[n] = j
          BY <3>1, <5>1 DEF CallInv, Queued
        <5>3. n \in 1 .. Len(queue')
          BY <3>2
        <5> QED
          BY <3>2, <5>2, <5>3
      <4> QED
        BY <4>1, <4>2
    <3>8. \A j \in DOMAIN calls' : calls'[j].sender = "returned" => calls'[j].target = "queued"
      BY <1>4, <3>5 DEF CallInv, Queued
    <3> QED
      BY <3>4, <3>6, <3>7, <3>8 DEF Queued
  <2>2. CASE ~HasRoom
    <3>1. queue' = queue /\ r.target = "refused" /\ r.sender = "gaveUp"
      BY <1>3, <1>4, <2>2
    <3> QED
      BY <1>4, <3>1 DEF CallInv, Queued
  <2> QED
    BY <2>1, <2>2
<1> QED
  BY <1>1, <1>2, <1>3, <1>4, <1>7, <1>8, <1>9, <1>10 DEF Tables

\* The wait of a call gives up.
LEMMA TimeOutKeeps ==
  ASSUME CallInv, NEW i \in DOMAIN calls, TimeOut(i)
  PROVE  /\ OnlyCall(i) /\ Tables' /\ i \in DOMAIN calls'
         /\ calls'[i].sender = "gaveUp" /\ calls'[i].target = calls[i].target
<1>1. calls[i] \in CallRecords
  BY DEF CallInv, CallTypes, TableTypes
<1>2. PICK r : r = [timed |-> calls[i].timed, sender |-> "gaveUp", target |-> calls[i].target]
  OBVIOUS
<1>3. /\ DOMAIN calls' = DOMAIN calls /\ calls'[i] = r /\ queue' = queue
      /\ \A j \in DOMAIN calls : j # i => calls'[j] = calls[j]
  BY <1>1, <1>2, FieldChanged DEF TimeOut
<1>4. r \in CallRecords /\ r.timed /\ r.sender = "gaveUp" /\ r.target = calls[i].target
      /\ calls[i].sender = "waits" /\ r.timed = calls[i].timed
  BY <1>1, <1>2 DEF CallRecords, TimeOut
<1>5. TableTypes'
  BY <1>3, <1>4 DEF CallInv, CallTypes, TableTypes
<1>6. Patience'
  BY <1>3, <1>4 DEF CallInv, Patience
<1>7. Queued'
  BY <1>3, <1>4 DEF CallInv, Queued
<1>8. OnlyCall(i)
  BY <1>3 DEF OnlyCall
<1> QED
  BY <1>3, <1>4, <1>5, <1>6, <1>7, <1>8 DEF Tables

\* The sender returns from a call: the message is gone, or left in the queue.
LEMMA ReturnKeeps ==
  ASSUME CallInv, NEW i \in DOMAIN calls, calls[i].sender # "returned", Return(i)
  PROVE  /\ OnlyCall(i) /\ Tables' /\ calls[i].target # "running"
         /\ i \in DOMAIN calls' => calls'[i].sender = "returned" /\ calls'[i].target = "queued"
<1>1. calls[i] \in CallRecords /\ queue' = queue /\ calls[i].target # "running"
  BY DEF CallInv, CallTypes, TableTypes, Return, Success, Locked
<1>2. CASE calls[i].target \in {"refused", "ran"}
  <2>1. /\ DOMAIN calls' = DOMAIN calls \ {i}
        /\ \A j \in DOMAIN calls : j # i => calls'[j] = calls[j]
    BY <1>2 DEF Return, Without
  <2>2. TableTypes'
    BY <1>1, <2>1 DEF CallInv, CallTypes, TableTypes
  <2>3. Patience'
    BY <2>1 DEF CallInv, Patience
  <2>4. Queued'
    BY <1>1, <1>2, <2>1 DEF CallInv, Queued
  <2>5. OnlyCall(i)
    BY <2>1 DEF OnlyCall
  <2> QED
    BY <1>1, <2>1, <2>2, <2>3, <2>4, <2>5 DEF Tables
<1>3. CASE calls[i].target \notin {"refused", "ran"}
  <2>1. calls[i].target = "queued"
    BY <1>1, <1>3 DEF CallRecords
  <2>2. PICK r : r = [timed |-> calls[i].timed, sender |-> "returned", target |-> calls[i].target]
    OBVIOUS
  <2>3. /\ DOMAIN calls' = DOMAIN calls /\ calls'[i] = r
        /\ \A j \in DOMAIN calls : j # i => calls'[j] = calls[j]
    BY <1>1, <1>3, <2>2, FieldChanged DEF Return
  <2>4. /\ r \in CallRecords /\ r.sender = "returned" /\ r.target = "queued"
        /\ r.timed = calls[i].timed
    BY <1>1, <2>1, <2>2 DEF CallRecords
  <2>5. TableTypes'
    BY <1>1, <2>3, <2>4 DEF CallInv, CallTypes, TableTypes
  <2>6. Patience'
    BY <2>3, <2>4 DEF CallInv, Patience
  <2>7. Queued'
    BY <1>1, <2>1, <2>3, <2>4 DEF CallInv, Queued
  <2>8. OnlyCall(i)
    BY <2>3 DEF OnlyCall
  <2> QED
    BY <1>1, <2>3, <2>4, <2>5, <2>6, <2>7, <2>8 DEF Tables
<1> QED
  BY <1>2, <1>3

\* The head of the queue is taken.
LEMMA TailOf ==
  ASSUME CallInv, queue # <<>>
  PROVE  /\ Tail(queue) \in Seq(Names \cup {Tick}) /\ Len(Tail(queue)) <= Capacity
         /\ \A n \in 1 .. Len(Tail(queue)) : n + 1 \in 1 .. Len(queue) /\ Tail(queue)[n] = queue[n + 1]
         /\ \A n \in 1 .. Len(Tail(queue)) : Tail(queue)[n] # Head(queue)
         /\ \A m, n \in 1 .. Len(Tail(queue)) : Tail(queue)[m] = Tail(queue)[n] => m = n
         /\ \A n \in 1 .. Len(queue) : queue[n] # Head(queue) =>
              \E m \in 1 .. Len(Tail(queue)) : Tail(queue)[m] = queue[n]
         /\ 1 \in 1 .. Len(queue) /\ queue[1] = Head(queue)
<1>1. PICK q, t : q = queue /\ t = Tail(q)
  OBVIOUS
<1>2. q \in Seq(Names \cup {Tick}) /\ Len(q) <= Capacity /\ q # <<>> /\ Capacity \in Nat
  BY <1>1, DelegateAsyncWaitAssumption DEF CallInv, CallTypes, TableTypes, DelegateAsyncWaitAssumption
<1>3. /\ t \in Seq(Names \cup {Tick}) /\ Len(t) = Len(q) - 1 /\ Len(q) \in Nat /\ Len(q) > 0
      /\ \A n \in 1 .. Len(t) : t[n] = q[n + 1]
      /\ q[1] = Head(q)
  BY <1>1, <1>2
<1>4. \A m, n \in 1 .. Len(q) : q[m] = q[n] => m = n
  BY <1>1 DEF CallInv, Queued
<1>5. ASSUME NEW n \in 1 .. Len(q), q[n] # Head(q)
      PROVE  \E m \in 1 .. Len(t) : t[m] = q[n]
  <2>1. n - 1 \in 1 .. Len(t) /\ t[n - 1] = q[(n - 1) + 1] /\ (n - 1) + 1 = n
    BY <1>3, <1>5
  <2> QED
    BY <2>1
<1>6. \A n \in 1 .. Len(t) : n + 1 \in 1 .. Len(q) /\ n + 1 # 1 /\ 1 \in 1 .. Len(q)
  BY <1>3
<1>7. \A n \in 1 .. Len(t) : t[n] # Head(q)
  BY <1>3, <1>4, <1>6
<1>8. ASSUME NEW m \in 1 .. Len(t), NEW n \in 1 .. Len(t), t[m] = t[n] PROVE m = n
  <2>1. m + 1 = n + 1
    BY <1>3, <1>4, <1>6, <1>8
  <2> QED
    BY <2>1
<1>9. Len(t) <= Capacity /\ 1 \in 1 .. Len(q)
  BY <1>2, <1>3
<1> QED
  BY <1>1, <1>3, <1>5, <1>6, <1>7, <1>8, <1>9

\* The thread takes a call: its target runs, or nobody waits and the message is gone.
LEMMA InvokeKeeps ==
  ASSUME CallInv, NEW i \in DOMAIN calls, Invoke(i)
  PROVE  /\ OnlyCall(i) /\ Tables' /\ calls[i].target = "queued"
         /\ i \in DOMAIN calls' <=> calls[i].sender # "returned"
         /\ i \in DOMAIN calls' => calls'[i].sender = calls[i].sender /\ calls'[i].target = "running"
<1>1. calls[i] \in CallRecords /\ queue # <<>> /\ queue' = Tail(queue) /\ Head(queue) = i
  BY DEF CallInv, CallTypes, TableTypes, Invoke
<1>2. i # Tick
  BY NamesArePairs DEF CallInv, CallTypes, TableTypes
<1>3. calls[i].target = "queued"
  BY <1>1, <1>2, TailOf DEF CallInv, Queued
<1>4. ASSUME NEW n \in 1 .. Len(queue')
      PROVE  queue'[n] # i /\ (queue'[n] = Tick \/ (queue'[n] \in DOMAIN calls /\ calls[queue'[n]].target = "queued"))
  BY <1>1, TailOf DEF CallInv, Queued
<1>5. ASSUME NEW j \in DOMAIN calls, calls[j].target = "queued", j # i
      PROVE  \E n \in 1 .. Len(queue') : queue'[n] = j
  <2>1. PICK n \in 1 .. Len(queue) : queue[n] = j
    BY <1>5 DEF CallInv, Queued
  <2> QED
    BY <1>1, <1>5, <2>1, TailOf
<1>6. \A m, n \in 1 .. Len(queue') : queue'[m] = queue'[n] => m = n
  BY <1>1, TailOf
<1>7. CASE calls[i].sender = "returned"
  <2>1. /\ DOMAIN calls' = DOMAIN calls \ {i}
        /\ \A j \in DOMAIN calls : j # i => calls'[j] = calls[j]
    BY <1>7 DEF Invoke, GetInvokerWaiting, Without
  <2>2. TableTypes'
    BY <1>1, <2>1, TailOf DEF CallInv, CallTypes, TableTypes
  <2>3. Patience'
    BY <2>1 DEF CallInv, Patience
  <2>4. Queued'
    BY <1>4, <1>5, <1>6, <2>1 DEF CallInv, Queued
  <2>5. OnlyCall(i)
    BY <2>1 DEF OnlyCall
  <2> QED
    BY <1>3, <1>7, <2>1, <2>2, <2>3, <2>4, <2>5 DEF Tables
<1>8. CASE calls[i].sender # "returned"
  <2>2. PICK r : r = [timed |-> calls[i].timed, sender |-> calls[i].sender, target |-> "running"]
    OBVIOUS
  <2>3. /\ DOMAIN calls' = DOMAIN calls /\ calls'[i] = r
        /\ \A j \in DOMAIN calls : j # i => calls'[j] = calls[j]
    BY <1>1, <1>8, <2>2, FieldChanged DEF Invoke, GetInvokerWaiting
  <2>4. /\ r \in CallRecords /\ r.sender = calls[i].sender /\ r.target = "running"
        /\ r.timed = calls[i].timed
    BY <1>1, <2>2 DEF CallRecords
  <2>5. TableTypes'
    BY <1>1, <2>3, <2>4, TailOf DEF CallInv, CallTypes, TableTypes
  <2>6. Patience'
    BY <1>3, <2>3, <2>4 DEF CallInv, Patience
  <2>7. Queued'
    BY <1>4, <1>5, <1>6, <1>8, <2>3, <2>4 DEF CallInv, Queued
  <2>8. OnlyCall(i)
    BY <2>3 DEF OnlyCall
  <2> QED
    BY <1>3, <1>8, <2>3, <2>4, <2>5, <2>6, <2>7, <2>8 DEF Tables
<1> QED
  BY <1>7, <1>8

\* The target returns.
LEMMA InvokeReturnsKeeps ==
  ASSUME CallInv, NEW i \in DOMAIN calls, calls[i].target = "running", InvokeReturns(i)
  PROVE  /\ OnlyCall(i) /\ Tables' /\ i \in DOMAIN calls' /\ calls[i].sender # "returned"
         /\ calls'[i].sender = calls[i].sender /\ calls'[i].target = "ran"
<1>1. calls[i] \in CallRecords
  BY DEF CallInv, CallTypes, TableTypes
<1>2. PICK r : r = [timed |-> calls[i].timed, sender |-> calls[i].sender, target |-> "ran"]
  OBVIOUS
<1>3. /\ DOMAIN calls' = DOMAIN calls /\ calls'[i] = r /\ queue' = queue
      /\ \A j \in DOMAIN calls : j # i => calls'[j] = calls[j]
  BY <1>1, <1>2, FieldChanged DEF InvokeReturns
<1>4. r \in CallRecords /\ r.sender = calls[i].sender /\ r.target = "ran"
      /\ calls[i].sender # "returned" /\ r.timed = calls[i].timed
  BY <1>1, <1>2 DEF CallRecords, CallInv, Queued
<1>5. TableTypes'
  BY <1>3, <1>4 DEF CallInv, CallTypes, TableTypes
<1>6. Patience'
  BY <1>3, <1>4 DEF CallInv, Patience
<1>7. Queued'
  BY <1>3, <1>4 DEF CallInv, Queued
<1>8. OnlyCall(i)
  BY <1>3 DEF OnlyCall
<1> QED
  BY <1>3, <1>4, <1>5, <1>6, <1>7, <1>8 DEF Tables

\* The timer's message enters the queue, or is taken.
LEMMA TickKeeps ==
  ASSUME CallInv, TimerExpires \/ TakeTick
  PROVE  Tables'
<1>1. calls' = calls
  BY DEF TimerExpires, TakeTick
<1>2. CASE TimerExpires
  <2>1. PICK q : q = queue
    OBVIOUS
  <2>2. /\ q \in Seq(Names \cup {Tick}) /\ Len(q) \in Nat /\ Len(q) < Capacity /\ Capacity \in Nat
        /\ queue' = Append(q, Tick)
        /\ \A n \in 1 .. Len(q) : q[n] # Tick
    <3>1. q \in Seq(Names \cup {Tick})
      BY <2>1 DEF CallInv, CallTypes, TableTypes
    <3>2. \A n \in 1 .. Len(q) : n \in DOMAIN q
      BY <3>1
    <3> QED
      BY <1>2, <2>1, <3>1, <3>2, DelegateAsyncWaitAssumption
      DEF TimerExpires, InFlight, HasRoom, DelegateAsyncWaitAssumption
  <2>3. /\ Len(queue') = Len(q) + 1 /\ queue'[Len(q) + 1] = Tick
        /\ \A n \in 1 .. Len(q) : queue'[n] = q[n] /\ n \in 1 .. Len(queue')
        /\ queue' \in Seq(Names \cup {Tick}) /\ Len(queue') <= Capacity
        /\ \A n \in 1 .. Len(queue') : n \in 1 .. Len(q) \/ n = Len(q) + 1
    BY <2>2
  <2>4. TableTypes' /\ Patience'
    BY <1>1, <2>3 DEF CallInv, CallTypes, TableTypes, Patience
  <2>5. \A m, n \in 1 .. Len(queue') : queue'[m] = queue'[n] => m = n
    BY <2>1, <2>2, <2>3 DEF CallInv, Queued
  <2>6. Queued'
    BY <1>1, <2>1, <2>3, <2>5 DEF CallInv, Queued
  <2> QED
    BY <2>4, <2>6 DEF Tables
<1>3. CASE TakeTick
  <2>1. queue # <<>> /\ Head(queue) = Tick /\ queue' = Tail(queue)
    BY <1>3 DEF TakeTick
  <2>2. TableTypes' /\ Patience'
    BY <1>1, <2>1, TailOf DEF CallInv, CallTypes, TableTypes, Patience
  <2>3. ASSUME NEW j \in DOMAIN calls, calls[j].target = "queued"
        PROVE  \E n \in 1 .. Len(queue') : queue'[n] = j
    <3>1. PICK n \in 1 .. Len(queue) : queue[n] = j
      BY <2>3 DEF CallInv, Queued
    <3>2. j # Tick
      BY NamesArePairs DEF CallInv, CallTypes, TableTypes
    <3> QED
      BY <2>1, <3>1, <3>2, TailOf
  <2>4. Queued'
    BY <1>1, <2>1, <2>3, TailOf DEF CallInv, Queued
  <2> QED
    BY <2>2, <2>4 DEF Tables
<1> QED
  BY <1>2, <1>3

---------------------------------------------------------------------------
(* Each step keeps CallInv.                                                 *)

Inner == \A b \in Senders : Inside(b)
Outer == /\ \A c \in Callers : pc[c] = "sending" <=> call[c] # NoCall
         /\ recv = "waiting" <=> recvCall # NoCall
         /\ owner = "stopping" <=> ownerCall # NoCall

Places ==
  /\ call \in [Callers -> Names \cup {NoCall}]
  /\ recvCall \in Names \cup {NoCall} /\ ownerCall \in Names \cup {NoCall}
  /\ pc \in [Callers -> {"idle", "sending", "awaiting", "reading"}]
  /\ recv \in {"receive", "waiting", "exited"}
  /\ owner \in {"started", "joining", "stopping", "stopped"}
  /\ at \in {"loop", "target", "record", "process"}

\* A step keeps the invariant if it keeps its parts.
LEMMA CallInvParts == Tables' /\ Places' /\ Outer' /\ Inner' /\ OneTarget' => CallInv'
BY DEF CallInv, CallTypes, Tables, Places, Outer, Inner, Insides

\* A call changes, and its sender stays where it is.
LEMMA SendersStayInside ==
  ASSUME CallInv, NEW i \in DOMAIN calls, OnlyCall(i),
         \A b \in Senders : Current(b)' = Current(b),
         IF calls[i].sender = "returned" THEN i \notin DOMAIN calls'
         ELSE i \in DOMAIN calls' /\ calls'[i].sender # "returned"
  PROVE  Inner'
<1> SUFFICES ASSUME NEW b \in Senders PROVE Inside(b)'
  BY DEF Inner
<1>1. Inside(b) /\ Current(b)' = Current(b)
  BY DEF CallInv, Insides
<1>2. PICK x : x = Current(b)
  OBVIOUS
<1> QED
  BY <1>1, <1>2 DEF Inside, OnlyCall

\* A sender makes a call.
LEMMA SenderCalls ==
  ASSUME CallInv, NEW i \in Names, i \notin DOMAIN calls, OnlyCall(i),
         i \in DOMAIN calls', calls'[i].sender # "returned",
         NEW a \in Senders, a = i[1], Current(a) = NoCall, Current(a)' = i,
         \A b \in Senders : b # a => Current(b)' = Current(b)
  PROVE  Inner'
<1> SUFFICES ASSUME NEW b \in Senders PROVE Inside(b)'
  BY DEF Inner
<1>1. CASE b # a
  BY <1>1, OthersStayInside
<1>2. CASE b = a
  <2>1. ASSUME NEW j \in DOMAIN calls', j[1] = a, calls'[j].sender # "returned" PROVE j = i
    <3>1. SUFFICES ASSUME j # i PROVE FALSE
      OBVIOUS
    <3>2. j \in DOMAIN calls /\ calls'[j] = calls[j] /\ j \in Names
      BY <2>1, <3>1 DEF OnlyCall, CallInv, CallTypes, TableTypes
    <3>3. Current(a) = j
      BY <2>1, <3>2 DEF CallInv, Insides, Inside
    <3> QED
      BY <3>2, <3>3, NamesArePairs
  <2> QED
    BY <1>2, <2>1 DEF Inside
<1> QED
  BY <1>1, <1>2

\* A sender returns from its call.
LEMMA SenderReturns ==
  ASSUME CallInv, NEW i \in DOMAIN calls, OnlyCall(i),
         i \in DOMAIN calls' => calls'[i].sender = "returned",
         NEW a \in Senders, a = i[1], Current(a) = i, Current(a)' = NoCall,
         \A b \in Senders : b # a => Current(b)' = Current(b)
  PROVE  Inner'
<1> SUFFICES ASSUME NEW b \in Senders PROVE Inside(b)'
  BY DEF Inner
<1>0. i \in Names
  BY DEF CallInv, CallTypes, TableTypes
<1>1. CASE b # a
  BY <1>0, <1>1, OthersStayInside
<1>2. CASE b = a
  <2>1. ASSUME NEW j \in DOMAIN calls', j[1] = a, calls'[j].sender # "returned" PROVE FALSE
    <3>1. j # i
      BY <2>1
    <3>2. j \in DOMAIN calls /\ calls'[j] = calls[j]
      BY <2>1, <3>1 DEF OnlyCall
    <3> QED
      BY <2>1, <3>1, <3>2 DEF CallInv, Insides, Inside
  <2> QED
    BY <1>2, <2>1 DEF Inside
<1> QED
  BY <1>1, <1>2

\* No target is started.
LEMMA NoTargetStarts ==
  ASSUME CallInv, NEW i, OnlyCall(i), at' = at,
         i \in DOMAIN calls' /\ calls'[i].target = "running" =>
           i \in DOMAIN calls /\ calls[i].target = "running"
  PROVE  OneTarget'
<1>1. ASSUME NEW j \in DOMAIN calls', calls'[j].target = "running"
      PROVE  j \in DOMAIN calls /\ calls[j].target = "running"
  BY <1>1 DEF OnlyCall
<1> QED
  BY <1>1 DEF CallInv, OneTarget

\* The calls are not touched.
LEMMA NoCallStep ==
  ASSUME CallInv, UNCHANGED <<calls, queue, call, recvCall, ownerCall>>
  PROVE  Tables' /\ Inner'
<1>1. Tables'
  BY DEF CallInv, CallTypes, Tables, TableTypes, Queued, Patience
<1>2. \A b \in Senders : Current(b)' = Current(b)
  BY DEF Current
<1> QED
  BY <1>1, <1>2 DEF CallInv, Insides, Inside, Inner

\* The senders have different names, and each has its own place for its call.
LEMMA CurrentOf ==
  /\ \A c \in Callers : c \in Senders /\ Current(c) = call[c] /\ c # "receiver" /\ c # "owner"
  /\ "receiver" \in Senders /\ Current("receiver") = recvCall
  /\ "owner" \in Senders /\ Current("owner") = ownerCall
BY RemoteDispatcherAssumption DEF RemoteDispatcherAssumption, Senders, Current

\* The steps of the callers.
LEMMA CallersKeepCallInv ==
  ASSUME CallInv, NEW c \in Callers, RemoteInvokeWait(c) \/ CallerStep(c)
  PROVE  CallInv'
<1>1. c \in Senders /\ Current(c) = call[c]
  BY CurrentOf
<1>2. CASE RemoteInvokeWait(c)
  <2>1. Current(c) = NoCall
    BY <1>1, <1>2 DEF RemoteInvokeWait, CallInv, Insides
  <2>2. PICK i \in Names :
           /\ i = NewCall(c) /\ i[1] = c /\ i \notin DOMAIN calls /\ OnlyCall(i) /\ Tables'
           /\ i \in DOMAIN calls' /\ calls'[i].sender # "returned"
           /\ calls'[i].target \in {"queued", "refused"}
    BY <1>1, <1>2, <2>1, DispatchKeeps DEF RemoteInvokeWait
  <2>3. /\ pc' = [pc EXCEPT ![c] = "sending"] /\ call' = [call EXCEPT ![c] = i]
        /\ UNCHANGED <<at, recv, recvCall, owner, ownerCall>>
    BY <1>2, <2>2 DEF RemoteInvokeWait, recvVars, ownerVars
  <2>4. Places' /\ Outer'
    BY <2>2, <2>3, NamesArePairs DEF CallInv, CallTypes, Insides, Places, Outer
  <2>5. Current(c)' = i /\ \A b \in Senders : b # c => Current(b)' = Current(b)
    BY <2>3 DEF CallInv, CallTypes, Current
  <2>6. Inner'
    BY <1>1, <2>1, <2>2, <2>5, SenderCalls
  <2>7. OneTarget'
    BY <2>2, <2>3, NoTargetStarts
  <2> QED
    BY <2>2, <2>4, <2>6, <2>7, CallInvParts
<1>3. CASE SendReturned(c)
  <2>1. PICK i : i = call[c]
    OBVIOUS
  <2>2. i # NoCall /\ Return(i) /\ i \in DOMAIN calls /\ i[1] = c /\ calls[i].sender # "returned"
    BY <1>1, <1>3, <2>1 DEF SendReturned, CallInv, Insides, Inside
  <2>3. /\ OnlyCall(i) /\ Tables' /\ calls[i].target # "running"
        /\ i \in DOMAIN calls' => calls'[i].sender = "returned" /\ calls'[i].target = "queued"
    BY <2>2, ReturnKeeps
  <2>4. /\ pc' \in [Callers -> {"idle", "sending", "awaiting", "reading"}]
        /\ pc'[c] # "sending" /\ \A d \in Callers : d # c => pc'[d] = pc[d]
        /\ call' = [call EXCEPT ![c] = NoCall]
        /\ UNCHANGED <<at, recv, recvCall, owner, ownerCall>>
    BY <1>3 DEF SendReturned, recvVars, ownerVars, CallInv, CallTypes
  <2>5. Places' /\ Outer'
    BY <2>4 DEF CallInv, CallTypes, Insides, Places, Outer
  <2>6. Current(c)' = NoCall /\ \A b \in Senders : b # c => Current(b)' = Current(b)
    BY <2>4 DEF CallInv, CallTypes, Current
  <2>7. Inner'
    BY <1>1, <2>1, <2>2, <2>3, <2>6, SenderReturns
  <2>8. OneTarget'
    BY <2>3, <2>4, NoTargetStarts
  <2> QED
    BY <2>3, <2>5, <2>7, <2>8, CallInvParts
<1>4. CASE AwaitStatus(c) \/ AwaitTimesOut(c) \/ Read(c)
  <2>1. /\ UNCHANGED <<calls, queue, call, at, recv, recvCall, owner, ownerCall>>
        /\ pc[c] # "sending" /\ pc' = [pc EXCEPT ![c] = pc'[c]]
        /\ pc'[c] \in {"reading", "idle"}
    BY <1>4 DEF AwaitStatus, AwaitTimesOut, Read, recvVars, ownerVars, CallInv, CallTypes
  <2>2. Tables' /\ Inner'
    BY <2>1, NoCallStep
  <2>3. Places' /\ Outer' /\ OneTarget'
    BY <2>1 DEF CallInv, CallTypes, Insides, Places, Outer, OneTarget
  <2> QED
    BY <2>2, <2>3, CallInvParts
<1> QED
  BY <1>2, <1>3, <1>4 DEF CallerStep

\* The steps that reports are made of, and the timer's message.
LEMMA ReportsKeepCallInv ==
  ASSUME CallInv,
         \/ TimerExpires \/ TakeTick \/ Process \/ ProcessDone
         \/ \E k \in DOMAIN batch : ReportTimeout(k)
         \/ \E t \in Threads, c \in Callers : Deliver(t, c)
         \/ \E s \in Seqs : ReceiveAck(s)
         \/ UNCHANGED vars
  PROVE  CallInv'
<1>1. /\ UNCHANGED <<calls, call, pc, recv, recvCall, owner, ownerCall>>
      /\ \/ TimerExpires /\ at' = at
         \/ TakeTick /\ at = "loop" /\ at' = "process"
         \/ UNCHANGED queue /\ (at' = at \/ (at = "process" /\ at' = "loop"))
  BY DEF TimerExpires, TakeTick, Process, ProcessDone, ReportTimeout, Deliver, ReceiveAck,
         vars, callerVars, recvVars, ownerVars
<1>2. Tables'
  BY <1>1, TickKeeps, NoCallStep
<1>3. Inner'
  <2>1. \A b \in Senders : Current(b)' = Current(b)
    BY <1>1 DEF Current
  <2> QED
    BY <1>1, <2>1 DEF CallInv, Insides, Inside, Inner
<1>4. Places' /\ Outer' /\ OneTarget'
  BY <1>1 DEF CallInv, CallTypes, Insides, Places, Outer, OneTarget
<1> QED
  BY <1>2, <1>3, <1>4, CallInvParts

\* The targets the network thread runs.
LEMMA TargetsKeepCallInv ==
  ASSUME CallInv, NEW i \in DOMAIN calls,
         TakeCall(i) \/ Transmit(i) \/ RecordSeq(i) \/ Incoming(i) \/ StopTimer(i)
  PROVE  CallInv'
<1>1. UNCHANGED <<call, pc, recv, recvCall, owner, ownerCall>>
  BY DEF TakeCall, Transmit, RecordSeq, Incoming, StopTimer, callerVars, recvVars, ownerVars
<1>2. \A b \in Senders : Current(b)' = Current(b)
  BY <1>1 DEF Current
<1>3. CASE TakeCall(i)
  <2>1. Invoke(i) /\ at = "loop" /\ at' = IF calls[i].sender # "returned" THEN "target" ELSE "loop"
    BY <1>3 DEF TakeCall, GetInvokerWaiting
  <2>2. /\ OnlyCall(i) /\ Tables' /\ calls[i].target = "queued"
        /\ i \in DOMAIN calls' <=> calls[i].sender # "returned"
        /\ i \in DOMAIN calls' => calls'[i].sender = calls[i].sender /\ calls'[i].target = "running"
    BY <2>1, InvokeKeeps
  <2>3. Inner'
    BY <1>2, <2>2, SendersStayInside
  <2>4. Places' /\ Outer'
    BY <1>1, <2>1 DEF CallInv, CallTypes, Insides, Places, Outer
  <2>5. \A j \in DOMAIN calls : calls[j].target # "running"
    BY <2>1 DEF CallInv, OneTarget
  <2>6. \A j \in DOMAIN calls' : calls'[j].target = "running" => j = i
    BY <2>2, <2>5 DEF OnlyCall
  <2>7. OneTarget'
    BY <2>1, <2>2, <2>6 DEF OneTarget
  <2> QED
    BY <2>2, <2>3, <2>4, <2>7, CallInvParts
<1>4. CASE Transmit(i)
  <2>1. UNCHANGED <<calls, queue>> /\ at' = "record" /\ i \in Running(Callers)
    BY <1>4 DEF Transmit
  <2>2. Tables' /\ Inner'
    BY <1>1, <2>1, NoCallStep
  <2>3. Places' /\ Outer' /\ OneTarget'
    BY <1>1, <2>1 DEF CallInv, CallTypes, Insides, Places, Outer, OneTarget, Running
  <2> QED
    BY <2>2, <2>3, CallInvParts
<1>5. CASE RecordSeq(i) \/ Incoming(i) \/ StopTimer(i)
  <2>1. InvokeReturns(i) /\ at' = "loop" /\ calls[i].target = "running"
    BY <1>5 DEF RecordSeq, Incoming, StopTimer, Running
  <2>2. /\ OnlyCall(i) /\ Tables' /\ i \in DOMAIN calls' /\ calls[i].sender # "returned"
        /\ calls'[i].sender = calls[i].sender /\ calls'[i].target = "ran"
    BY <2>1, InvokeReturnsKeeps
  <2>3. Inner'
    BY <1>2, <2>2, SendersStayInside
  <2>4. Places' /\ Outer'
    BY <1>1, <2>1 DEF CallInv, CallTypes, Insides, Places, Outer
  <2>5. \A j \in DOMAIN calls' : calls'[j].target # "running"
    BY <2>1, <2>2 DEF OnlyCall, CallInv, OneTarget
  <2>6. OneTarget'
    BY <2>5 DEF OneTarget
  <2> QED
    BY <2>2, <2>3, <2>4, <2>6, CallInvParts
<1> QED
  BY <1>3, <1>4, <1>5

\* The receive thread and the owner.
LEMMA ReceiverKeepsCallInv ==
  ASSUME CallInv, IncomingReturned \/ IncomingTimesOut \/ RecvThreadExits \/ ReceiveData
  PROVE  CallInv'
<1>1. UNCHANGED <<call, pc, at, owner, ownerCall>>
  BY DEF IncomingReturned, IncomingTimesOut, RecvThreadExits, ReceiveData, callerVars, ownerVars
<1>2. CASE ReceiveData
  <2>1. Current("receiver") = NoCall
    BY <1>2, CurrentOf DEF ReceiveData, CallInv, Insides
  <2>2. PICK i \in Names :
           /\ i = NewCall("receiver") /\ i[1] = "receiver" /\ i \notin DOMAIN calls /\ OnlyCall(i)
           /\ Tables' /\ i \in DOMAIN calls' /\ calls'[i].sender # "returned"
           /\ calls'[i].target \in {"queued", "refused"}
    BY <1>2, <2>1, CurrentOf, DispatchKeeps DEF ReceiveData
  <2>3. recv' = "waiting" /\ recvCall' = i
    BY <1>2, <2>2 DEF ReceiveData
  <2>4. Places' /\ Outer'
    BY <1>1, <2>2, <2>3, NamesArePairs DEF CallInv, CallTypes, Insides, Places, Outer
  <2>5. Current("receiver")' = i /\ \A b \in Senders : b # "receiver" => Current(b)' = Current(b)
    BY <1>1, <2>3, CurrentOf DEF Current, Senders
  <2>6. Inner'
    BY <2>1, <2>2, <2>5, CurrentOf, SenderCalls
  <2>7. OneTarget'
    BY <1>1, <2>2, NoTargetStarts
  <2> QED
    BY <2>2, <2>4, <2>6, <2>7, CallInvParts
<1>3. CASE IncomingReturned
  <2>1. PICK i : i = recvCall
    OBVIOUS
  <2>2. /\ i # NoCall /\ Return(i) /\ i \in DOMAIN calls /\ i[1] = "receiver"
        /\ calls[i].sender # "returned" /\ Current("receiver") = i
    BY <1>3, <2>1, CurrentOf DEF IncomingReturned, CallInv, Insides, Inside
  <2>3. /\ OnlyCall(i) /\ Tables' /\ calls[i].target # "running"
        /\ i \in DOMAIN calls' => calls'[i].sender = "returned" /\ calls'[i].target = "queued"
    BY <2>2, ReturnKeeps
  <2>4. recv' = "receive" /\ recvCall' = NoCall
    BY <1>3 DEF IncomingReturned
  <2>5. Places' /\ Outer'
    BY <1>1, <2>4 DEF CallInv, CallTypes, Insides, Places, Outer
  <2>6. Current("receiver")' = NoCall /\ \A b \in Senders : b # "receiver" => Current(b)' = Current(b)
    BY <1>1, <2>4, CurrentOf DEF Current, Senders
  <2>7. Inner'
    BY <2>2, <2>3, <2>6, CurrentOf, SenderReturns
  <2>8. OneTarget'
    BY <1>1, <2>3, NoTargetStarts
  <2> QED
    BY <2>3, <2>5, <2>7, <2>8, CallInvParts
<1>4. CASE IncomingTimesOut
  <2>1. PICK i : i = recvCall
    OBVIOUS
  <2>2. UNCHANGED <<recv, recvCall>> /\ TimeOut(i) /\ i \in DOMAIN calls
    BY <1>4, <2>1, CurrentOf DEF IncomingTimesOut, recvVars, CallInv, Insides, Inside
  <2>3. /\ OnlyCall(i) /\ Tables' /\ i \in DOMAIN calls' /\ calls[i].sender = "waits"
        /\ calls'[i].sender = "gaveUp" /\ calls'[i].target = calls[i].target
    BY <2>2, TimeOutKeeps DEF TimeOut
  <2>4. \A b \in Senders : Current(b)' = Current(b)
    BY <1>1, <2>2 DEF Current
  <2>5. Inner'
    BY <2>2, <2>3, <2>4, SendersStayInside
  <2>6. Places' /\ Outer'
    BY <1>1, <2>2 DEF CallInv, CallTypes, Insides, Places, Outer
  <2>7. OneTarget'
    BY <1>1, <2>2, <2>3, NoTargetStarts
  <2> QED
    BY <2>3, <2>5, <2>6, <2>7, CallInvParts
<1>5. CASE RecvThreadExits
  <2>1. UNCHANGED <<calls, queue, recvCall>> /\ recv = "receive" /\ recv' = "exited"
    BY <1>5 DEF RecvThreadExits
  <2>2. Tables' /\ Inner'
    BY <1>1, <2>1, NoCallStep
  <2>3. Places' /\ Outer' /\ OneTarget'
    BY <1>1, <2>1 DEF CallInv, CallTypes, Insides, Places, Outer, OneTarget
  <2> QED
    BY <2>2, <2>3, CallInvParts
<1> QED
  BY <1>2, <1>3, <1>4, <1>5

\* The owner stops the dispatcher.
LEMMA OwnerKeepsCallInv ==
  ASSUME CallInv, Stop \/ OwnerStep
  PROVE  CallInv'
<1>1. UNCHANGED <<call, pc, at, recv, recvCall>>
  BY DEF Stop, OwnerStep, StopMarshals, StopReturns, callerVars, recvVars
<1>2. CASE StopMarshals
  <2>1. Current("owner") = NoCall
    BY <1>2, CurrentOf DEF StopMarshals, CallInv, Insides
  <2>2. PICK i \in Names :
           /\ i = NewCall("owner") /\ i[1] = "owner" /\ i \notin DOMAIN calls /\ OnlyCall(i)
           /\ Tables' /\ i \in DOMAIN calls' /\ calls'[i].sender # "returned"
           /\ calls'[i].target \in {"queued", "refused"}
    BY <1>2, <2>1, CurrentOf, DispatchKeeps DEF StopMarshals
  <2>3. owner' = "stopping" /\ ownerCall' = i
    BY <1>2, <2>2 DEF StopMarshals
  <2>4. Places' /\ Outer'
    BY <1>1, <2>2, <2>3, NamesArePairs DEF CallInv, CallTypes, Insides, Places, Outer
  <2>5. Current("owner")' = i /\ \A b \in Senders : b # "owner" => Current(b)' = Current(b)
    BY <1>1, <2>3, CurrentOf DEF Current, Senders
  <2>6. Inner'
    BY <2>1, <2>2, <2>5, CurrentOf, SenderCalls
  <2>7. OneTarget'
    BY <1>1, <2>2, NoTargetStarts
  <2> QED
    BY <2>2, <2>4, <2>6, <2>7, CallInvParts
<1>3. CASE StopReturns
  <2>1. PICK i : i = ownerCall
    OBVIOUS
  <2>2. /\ i # NoCall /\ Return(i) /\ i \in DOMAIN calls /\ i[1] = "owner"
        /\ calls[i].sender # "returned" /\ Current("owner") = i
    BY <1>3, <2>1, CurrentOf DEF StopReturns, CallInv, Insides, Inside
  <2>3. /\ OnlyCall(i) /\ Tables' /\ calls[i].target # "running"
        /\ i \in DOMAIN calls' => calls'[i].sender = "returned" /\ calls'[i].target = "queued"
    BY <2>2, ReturnKeeps
  <2>4. owner' = "stopped" /\ ownerCall' = NoCall
    BY <1>3 DEF StopReturns
  <2>5. Places' /\ Outer'
    BY <1>1, <2>4 DEF CallInv, CallTypes, Insides, Places, Outer
  <2>6. Current("owner")' = NoCall /\ \A b \in Senders : b # "owner" => Current(b)' = Current(b)
    BY <1>1, <2>4, CurrentOf DEF Current, Senders
  <2>7. Inner'
    BY <2>2, <2>3, <2>6, CurrentOf, SenderReturns
  <2>8. OneTarget'
    BY <1>1, <2>3, NoTargetStarts
  <2> QED
    BY <2>3, <2>5, <2>7, <2>8, CallInvParts
<1>4. CASE Stop
  <2>1. UNCHANGED <<calls, queue, ownerCall>> /\ owner = "started" /\ owner' = "joining"
    BY <1>4 DEF Stop
  <2>2. Tables' /\ Inner'
    BY <1>1, <2>1, NoCallStep
  <2>3. Places' /\ Outer' /\ OneTarget'
    BY <1>1, <2>1 DEF CallInv, CallTypes, Insides, Places, Outer, OneTarget
  <2> QED
    BY <2>2, <2>3, CallInvParts
<1> QED
  BY <1>2, <1>3, <1>4 DEF OwnerStep

---------------------------------------------------------------------------
(* Each step keeps StatusInv.                                               *)

\* What the operators do to the state of a wait.
LEMMA StatesOfAWait ==
  ASSUME NEW w, IsState(w), NEW n \in Nat, NEW st, NEW v
  PROVE  /\ v = NewState => /\ IsState(v) /\ ~v.complete /\ ~v.success
                            /\ v.expectedSeq = None /\ DOMAIN v.early = {}
         /\ v = StatusCallback(w, n, st) =>
              /\ IsState(v) /\ v.expectedSeq = w.expectedSeq
              /\ IF w.expectedSeq = None
                 THEN v.early = With(w.early, n, st) /\ v.complete = w.complete /\ v.success = w.success
                 ELSE /\ v.early = w.early
                      /\ IF ~w.complete /\ n = w.expectedSeq
                         THEN v.complete /\ (v.success <=> st = "SUCCESS")
                         ELSE v.complete = w.complete /\ v.success = w.success
         /\ v = Record(w, n) =>
              /\ IsState(v) /\ v.expectedSeq = n /\ DOMAIN v.early = {}
              /\ IF n \in DOMAIN w.early
                 THEN v.complete /\ (v.success <=> w.early[n] = "SUCCESS")
                 ELSE v.complete = w.complete /\ v.success = w.success
<1>1. None \in Nat /\ DOMAIN <<>> = {}
  BY DEF None
<1>2. v = NewState => /\ IsState(v) /\ ~v.complete /\ ~v.success
                      /\ v.expectedSeq = None /\ DOMAIN v.early = {}
  BY <1>1 DEF NewState, IsState
<1>3. ASSUME v = StatusCallback(w, n, st)
      PROVE  /\ IsState(v) /\ v.expectedSeq = w.expectedSeq
             /\ IF w.expectedSeq = None
                THEN v.early = With(w.early, n, st) /\ v.complete = w.complete /\ v.success = w.success
                ELSE /\ v.early = w.early
                     /\ IF ~w.complete /\ n = w.expectedSeq
                        THEN v.complete /\ (v.success <=> st = "SUCCESS")
                        ELSE v.complete = w.complete /\ v.success = w.success
  <2>1. CASE w.expectedSeq = None
    <3>1. PICK x : x = With(w.early, n, st)
      OBVIOUS
    <3>2. v = [w EXCEPT !.early = x]
      BY <1>3, <2>1, <3>1 DEF StatusCallback
    <3> QED
      BY <2>1, <3>1, <3>2 DEF IsState
  <2>2. CASE w.expectedSeq # None
    BY <1>3, <2>2 DEF StatusCallback, Completes, IsState
  <2> QED
    BY <2>1, <2>2
<1>4. ASSUME v = Record(w, n)
      PROVE  /\ IsState(v) /\ v.expectedSeq = n /\ DOMAIN v.early = {}
             /\ IF n \in DOMAIN w.early
                THEN v.complete /\ (v.success <=> w.early[n] = "SUCCESS")
                ELSE v.complete = w.complete /\ v.success = w.success
  BY <1>1, <1>4 DEF Record, IsState
<1> QED
  BY <1>2, <1>3, <1>4

\* The status of a caller is kept by a step that does not touch it.
LEMMA StatusOfKept ==
  ASSUME NEW c \in Callers, StatusOf(c),
         pc[c]' = pc[c], mine[c]' = mine[c], state[c]' = state[c], first[c]' = first[c],
         Recording(c)' <=> Recording(c), UNCHANGED lastSeqNum \/ ~Recording(c),
         pc[c] = "sending" /\ ~Recording(c) /\ calls'[call'[c]].target # "ran" =>
           calls[call[c]].target # "ran"
  PROVE  StatusOf(c)'
BY DEF StatusOf

\* Another sender's call changes.
LEMMA OwnCallKept ==
  ASSUME CallInv, NEW i \in Names, OnlyCall(i), NEW c \in Callers, i[1] # c, StatusOf(c),
         call[c]' = call[c], at' = at \/ "record" \notin {at, at'}, UNCHANGED lastSeqNum,
         pc[c]' = pc[c], mine[c]' = mine[c], state[c]' = state[c], first[c]' = first[c]
  PROVE  StatusOf(c)'
<1>1. PICK x : x = call[c]
  OBVIOUS
<1>2. c \in Senders /\ Current(c) = x
  BY <1>1, CurrentOf
<1>3. x # NoCall => x \in DOMAIN calls /\ x # i
  BY <1>2 DEF CallInv, Insides, Inside
<1>4. x \in DOMAIN calls \/ x \in DOMAIN calls' => x # NoCall
  <2>1. x # i => (x \in DOMAIN calls' <=> x \in DOMAIN calls)
    BY DEF OnlyCall
  <2>2. DOMAIN calls \subseteq Names
    BY DEF CallInv, CallTypes, TableTypes
  <2> QED
    BY <2>1, <2>2, NamesArePairs
<1>5. x # NoCall => x \in DOMAIN calls' /\ calls'[x] = calls[x]
  BY <1>3 DEF OnlyCall
<1>6. Recording(c)' <=> Recording(c)
  BY <1>1, <1>3, <1>4, <1>5 DEF Recording
<1>7. pc[c] = "sending" => x # NoCall
  BY <1>1 DEF CallInv, Insides
<1> QED
  BY <1>1, <1>5, <1>6, <1>7, StatusOfKept

\* No call and no status of a caller changes.
LEMMA StatusKept ==
  ASSUME StatusInv, UNCHANGED <<calls, call, pc, state, mine, first, lastSeqNum>>,
         at' = at \/ "record" \notin {at, at'}
  PROVE  \A c \in Callers : StatusOf(c)'
<1> SUFFICES ASSUME NEW c \in Callers PROVE StatusOf(c)'
  OBVIOUS
<1>1. StatusOf(c)
  BY DEF StatusInv
<1>2. Recording(c)' <=> Recording(c)
  BY DEF Recording
<1> QED
  BY <1>1, <1>2, StatusOfKept

\* A step keeps the invariant if it keeps its parts.
LEMMA StatusInvParts ==
  StatusTypes' /\ Given' /\ Reports' /\ (\A c \in Callers : StatusOf(c)') => StatusInv'
BY DEF StatusInv

\* No number is drawn and nothing is reported.
LEMMA NothingReported ==
  ASSUME StatusInv, UNCHANGED <<state, sendOk, mine, first, pending, batch, emit, lastSeq, lastSeqNum>>,
         emit["network"].to # {} \/ DOMAIN batch # {} => at' = "process",
         \A c \in Callers : pc[c] # "idle" => pc'[c] # "idle"
  PROVE  StatusTypes' /\ Given' /\ Reports'
<1>1. StatusTypes'
  BY DEF StatusInv, StatusTypes
<1>2. Given'
  BY DEF StatusInv, Given
<1>3. \A t \in Threads : emit[t].to \subseteq Callers
  BY DEF StatusInv, StatusTypes
<1>4. Reports'
  BY <1>3 DEF StatusInv, Reports
<1> QED
  BY <1>1, <1>2, <1>4

\* The call of a caller whose target runs.
LEMMA RunningCall ==
  ASSUME CallInv, NEW i \in Running(Callers)
  PROVE  /\ i \in DOMAIN calls /\ i \in Names /\ i[1] \in Callers /\ call[i[1]] = i
         /\ pc[i[1]] = "sending" /\ calls[i].target = "running"
         /\ \A d \in Callers : d # i[1] /\ call[d] \in DOMAIN calls => calls[call[d]].target # "running"
<1>1. i \in DOMAIN calls /\ i \in Names /\ i[1] \in Callers /\ calls[i].target = "running"
  BY DEF Running, CallInv, CallTypes, TableTypes
<1>2. calls[i].sender # "returned"
  BY <1>1 DEF CallInv, Queued
<1>3. call[i[1]] = i
  BY <1>1, <1>2, CurrentOf DEF CallInv, Insides, Inside
<1>4. pc[i[1]] = "sending"
  BY <1>1, <1>3, NamesArePairs DEF CallInv, Insides
<1>5. ASSUME NEW d \in Callers, d # i[1], call[d] \in DOMAIN calls
      PROVE  calls[call[d]].target # "running"
  <2>1. call[d] # NoCall
    BY <1>5, NamesArePairs DEF CallInv, CallTypes, TableTypes
  <2>2. call[d][1] = d
    BY <2>1, CurrentOf DEF CallInv, Insides, Inside
  <2>3. call[d] # i
    BY <1>5, <2>2
  <2> QED
    BY <1>1, <1>5, <2>3 DEF CallInv, OneTarget
<1> QED
  BY <1>1, <1>3, <1>4, <1>5

\* A call is made, waited for and returned from: the callers.
LEMMA CallersKeepStatusInv ==
  ASSUME RpcInv, NEW c \in Callers, RemoteInvokeWait(c) \/ SendReturned(c)
  PROVE  StatusInv'
<1>0. CallInv /\ StatusInv
  BY DEF RpcInv
<1>1. c \in Senders /\ Current(c) = call[c]
  BY CurrentOf
<1>2. PICK i \in Names :
         /\ i[1] = c /\ OnlyCall(i) /\ call' = [call EXCEPT ![c] = call'[c]]
         /\ RemoteInvokeWait(c) => i \in DOMAIN calls' /\ calls'[i].target # "running" /\ call'[c] = i
         /\ SendReturned(c) => /\ i \in DOMAIN calls /\ calls[i].target # "running"
                               /\ call[c] = i /\ call'[c] = NoCall
  <2>1. CASE RemoteInvokeWait(c)
    <3>1. Current(c) = NoCall
      BY <1>0, <1>1, <2>1 DEF RemoteInvokeWait, CallInv, Insides
    <3>2. pc[c] = "idle"
      BY <2>1 DEF RemoteInvokeWait
    <3>3. PICK i \in Names :
             /\ i = NewCall(c) /\ i[1] = c /\ OnlyCall(i) /\ i \in DOMAIN calls'
             /\ calls'[i].target \in {"queued", "refused"}
      BY <1>0, <1>1, <2>1, <3>1, DispatchKeeps DEF RemoteInvokeWait
    <3>4. call' = [call EXCEPT ![c] = i] /\ call'[c] = i
      BY <1>0, <2>1, <3>3 DEF RemoteInvokeWait, CallInv, CallTypes
    <3> QED
      BY <3>2, <3>3, <3>4 DEF SendReturned
  <2>2. CASE SendReturned(c)
    <3>1. PICK i : i = call[c]
      OBVIOUS
    <3>2. Return(i) /\ i \in DOMAIN calls /\ i[1] = c /\ calls[i].sender # "returned" /\ i \in Names
      BY <1>0, <1>1, <2>2, <3>1 DEF SendReturned, CallInv, CallTypes, TableTypes, Insides, Inside
    <3>3. OnlyCall(i) /\ calls[i].target # "running"
      BY <1>0, <3>2, ReturnKeeps
    <3>4. call' = [call EXCEPT ![c] = NoCall] /\ call'[c] = NoCall /\ pc[c] = "sending"
      BY <1>0, <2>2 DEF SendReturned, CallInv, CallTypes
    <3> QED
      BY <3>1, <3>2, <3>3, <3>4 DEF RemoteInvokeWait
  <2> QED
    BY <2>1, <2>2
<1>3. /\ UNCHANGED <<state, sendOk, mine, first, pending, batch, emit, lastSeq, lastSeqNum, at>>
      /\ pc'[c] # "idle" /\ \A d \in Callers : d # c => pc'[d] = pc[d]
      /\ RemoteInvokeWait(c) => pc[c] = "idle" /\ pc'[c] = "sending"
      /\ SendReturned(c) => pc'[c] # "sending"
  BY <1>0 DEF RemoteInvokeWait, SendReturned, statusVars, seqVars, CallInv, CallTypes
<1>4. StatusTypes' /\ Given' /\ Reports'
  <2>1. emit["network"].to # {} \/ DOMAIN batch # {} => at' = "process"
    BY <1>0, <1>3 DEF StatusInv, Reports
  <2>2. \A d \in Callers : pc[d] # "idle" => pc'[d] # "idle"
    BY <1>3
  <2> QED
    BY <1>0, <1>3, <2>1, <2>2, NothingReported
<1>5. ASSUME NEW d \in Callers, d # c PROVE StatusOf(d)'
  <2>1. call'[d] = call[d]
    BY <1>0, <1>2, <1>5 DEF CallInv, CallTypes
  <2>2. StatusOf(d)
    BY <1>0 DEF StatusInv
  <2> QED
    BY <1>0, <1>2, <1>3, <1>5, <2>1, <2>2, OwnCallKept
<1>6. StatusOf(c)'
  <2>1. StatusOf(c)
    BY <1>0 DEF StatusInv
  <2>2. CASE RemoteInvokeWait(c)
    <3>1. ~Recording(c)'
      BY <1>2, <2>2 DEF Recording
    <3>2. /\ mine[c] = None /\ ~Recording(c) /\ pc'[c] = "sending"
          /\ state[c].expectedSeq = None
      <4>1. call[c] = NoCall /\ NoCall \notin Names
        BY <1>0, <1>3, <2>2, NamesArePairs DEF CallInv, Insides
      <4>2. call[c] \notin DOMAIN calls
        BY <1>0, <4>1 DEF CallInv, CallTypes, TableTypes
      <4> QED
        BY <1>3, <2>1, <2>2, <4>2 DEF StatusOf, Recording, NewState
    <3> QED
      BY <1>3, <2>1, <3>1, <3>2 DEF StatusOf
  <2>3. CASE SendReturned(c)
    <3>1. ~Recording(c)
      BY <1>2, <2>3 DEF Recording
    <3>2. ~Recording(c)'
      <4>1. NoCall \notin DOMAIN calls
        BY <1>0, NamesArePairs DEF CallInv, CallTypes, TableTypes
      <4>2. NoCall # call[c]
        BY <1>0, <1>2, <2>3, <4>1
      <4>3. NoCall \notin DOMAIN calls'
        BY <1>2, <2>3, <4>1, <4>2 DEF OnlyCall
      <4> QED
        BY <1>2, <2>3, <4>3 DEF Recording
    <3>3. pc'[c] \notin {"idle", "sending"}
      BY <1>3, <2>3
    <3> QED
      BY <1>3, <2>1, <3>1, <3>2, <3>3 DEF StatusOf
  <2> QED
    BY <2>2, <2>3
<1> QED
  BY <1>4, <1>5, <1>6, StatusInvParts

\* The wait for a status ends.
LEMMA WaitsKeepStatusInv ==
  ASSUME RpcInv, NEW c \in Callers, AwaitStatus(c) \/ AwaitTimesOut(c)
  PROVE  StatusInv'
<1>0. CallInv /\ StatusInv
  BY DEF RpcInv
<1>1. /\ UNCHANGED <<calls, queue, call, state, sendOk, mine, first, at, pending, batch, emit, lastSeq, lastSeqNum>>
      /\ pc[c] = "awaiting" /\ pc'[c] = "reading" /\ \A d \in Callers : d # c => pc'[d] = pc[d]
  BY <1>0 DEF AwaitStatus, AwaitTimesOut, statusVars, seqVars, CallInv, CallTypes
<1>2. StatusTypes' /\ Given' /\ Reports'
  <2>1. emit["network"].to # {} \/ DOMAIN batch # {} => at' = "process"
    BY <1>0, <1>1 DEF StatusInv, Reports
  <2>2. \A d \in Callers : pc[d] # "idle" => pc'[d] # "idle"
    BY <1>1
  <2> QED
    BY <1>0, <1>1, <2>1, <2>2, NothingReported
<1>3. \A d \in Callers : Recording(d)' <=> Recording(d)
  BY <1>1 DEF Recording
<1>4. \A d \in Callers : StatusOf(d)'
  BY <1>0, <1>1, <1>3 DEF StatusInv, StatusOf
<1> QED
  BY <1>2, <1>4, StatusInvParts

\* The result is read.
LEMMA ReadKeepsStatusInv ==
  ASSUME RpcInv, NEW c \in Callers, Read(c)
  PROVE  StatusInv'
<1>0. CallInv /\ StatusInv
  BY DEF RpcInv
<1>1. /\ UNCHANGED <<calls, queue, call, at, pending, batch, lastSeq, lastSeqNum>>
      /\ pc[c] = "reading" /\ pc'[c] = "idle" /\ \A d \in Callers : d # c => pc'[d] = pc[d]
  BY <1>0 DEF Read, seqVars, CallInv, CallTypes
<1>2. /\ state'[c] = NewState /\ DOMAIN state' = Callers
      /\ \A d \in Callers : d # c => state'[d] = state[d]
  BY <1>0 DEF Read, StatusInv, StatusTypes
<1>3. /\ mine' \in [Callers -> Nat] /\ mine'[c] = None /\ \A d \in Callers : d # c => mine'[d] = mine[d]
      /\ first' \in [Callers -> {"none", "SUCCESS", "TIMEOUT"}] /\ first'[c] = "none"
      /\ \A d \in Callers : d # c => first'[d] = first[d]
      /\ sendOk' \in [Callers -> BOOLEAN]
  BY <1>0 DEF Read, StatusInv, StatusTypes, None
<1>4. ASSUME NEW t \in Threads
      PROVE  /\ emit'[t] \in [seq : Nat, status : {"SUCCESS", "TIMEOUT"}, to : SUBSET Callers]
             /\ emit'[t].to = emit[t].to \ {c}
             /\ emit'[t].to # {} => emit'[t].seq = emit[t].seq /\ emit'[t].status = emit[t].status
  <2>1. emit[t] \in [seq : Nat, status : {"SUCCESS", "TIMEOUT"}, to : SUBSET Callers]
    BY <1>0 DEF StatusInv, StatusTypes
  <2>2. PICK x : x = emit[t].to \ {c}
    OBVIOUS
  <2>3. emit'[t] = IF x = {} THEN Silence ELSE [emit[t] EXCEPT !.to = x]
    BY <2>2 DEF Read, Reporting
  <2> QED
    BY <2>1, <2>2, <2>3 DEF Silence, None
<1>5. IsState(NewState) /\ DOMAIN NewState.early = {} /\ NewState.expectedSeq = None
      /\ ~NewState.complete /\ ~NewState.success
  <2>1. IsState(state[c])
    BY <1>0 DEF StatusInv, StatusTypes
  <2> QED
    BY <2>1, StatesOfAWait DEF None
<1>6. StatusTypes'
  <2>1. DOMAIN emit' = Threads
    BY DEF Read
  <2>2. emit' = [t \in Threads |-> emit'[t]]
    BY DEF Read
  <2>3. emit' \in [Threads -> [seq : Nat, status : {"SUCCESS", "TIMEOUT"}, to : SUBSET Callers]]
    BY <1>4, <2>2
  <2>4. \A d \in Callers : IsState(state'[d])
    BY <1>0, <1>2, <1>5 DEF StatusInv, StatusTypes
  <2>5. lastSeq' \in Nat /\ lastSeqNum' \in Nat \ {0}
    BY <1>0, <1>1 DEF StatusInv, StatusTypes
  <2> QED
    BY <1>2, <1>3, <2>3, <2>4, <2>5 DEF StatusTypes
<1>7. Given'
  <2>1. \A d \in Callers : DOMAIN state'[d].early \subseteq 1 .. lastSeq
    BY <1>0, <1>2, <1>5 DEF StatusInv, Given
  <2>2. \A d \in Callers : mine'[d] <= lastSeq
    BY <1>0, <1>3 DEF StatusInv, StatusTypes, Given, None
  <2>3. \A t \in Threads : emit'[t].to # {} => emit'[t].seq \in 1 .. lastSeq
    BY <1>0, <1>4 DEF StatusInv, Given
  <2>4. \A k \in DOMAIN pending \cup DOMAIN batch : k[2] \in 1 .. lastSeq
    BY <1>0 DEF StatusInv, Given
  <2> QED
    BY <1>1, <2>1, <2>2, <2>3, <2>4 DEF Given
<1>8. Reports'
  <2>1. "network" \in Threads /\ "receive" \in Threads
    BY DEF Threads
  <2>2. emit'["network"].to # {} \/ DOMAIN batch # {} => at = "process"
    BY <1>0, <1>4, <2>1 DEF StatusInv, Reports
  <2>3. emit'["receive"].to # {} => emit'["receive"].status = "SUCCESS"
    BY <1>0, <1>4, <2>1 DEF StatusInv, Reports
  <2>4. ASSUME NEW t \in Threads, NEW d \in emit'[t].to PROVE pc'[d] # "idle"
    <3>1. d \in emit[t].to /\ d # c /\ d \in Callers
      BY <1>0, <1>4, <2>4 DEF StatusInv, StatusTypes
    <3> QED
      BY <1>0, <1>1, <3>1 DEF StatusInv, Reports
  <2> QED
    BY <1>1, <2>2, <2>3, <2>4 DEF Reports
<1>9. ASSUME NEW d \in Callers PROVE StatusOf(d)'
  <2>1. Recording(d)' <=> Recording(d)
    BY <1>1 DEF Recording
  <2>2. StatusOf(d)
    BY <1>0 DEF StatusInv
  <2>3. CASE d # c
    BY <1>1, <1>2, <1>3, <2>1, <2>2, <2>3, StatusOfKept
  <2>4. CASE d = c
    <3>1. ~Recording(c)
      <4>1. call[c] = NoCall
        BY <1>0, <1>1 DEF CallInv, Insides
      <4>2. call[c] \notin DOMAIN calls
        BY <1>0, <4>1, NamesArePairs DEF CallInv, CallTypes, TableTypes
      <4> QED
        BY <4>2 DEF Recording
    <3> QED
      BY <1>1, <1>2, <1>3, <1>5, <2>1, <2>4, <3>1 DEF StatusOf
  <2> QED
    BY <2>3, <2>4
<1> QED
  BY <1>6, <1>7, <1>8, <1>9, StatusInvParts

\* Calls of the receive thread and the owner, and the targets that send nothing.
LEMMA OthersKeepStatusInv ==
  ASSUME RpcInv, NEW i \in Names, OnlyCall(i),
         UNCHANGED <<call, pc, state, sendOk, mine, first, pending, batch, emit, lastSeq, lastSeqNum>>,
         \/ i[1] \notin Callers /\ at' = at
         \/ at = "loop" /\ at' \in {"loop", "target"} /\ i \in DOMAIN calls /\ calls[i].target = "queued"
         \/ i[1] \notin Callers /\ at = "target" /\ at' = "loop"
  PROVE  StatusInv'
<1>0. CallInv /\ StatusInv
  BY DEF RpcInv
<1>1. StatusTypes' /\ Given' /\ Reports'
  <2>1. emit["network"].to # {} \/ DOMAIN batch # {} => at' = "process"
    BY <1>0 DEF StatusInv, Reports
  <2> QED
    BY <1>0, <2>1, NothingReported
<1>2. ASSUME NEW c \in Callers PROVE StatusOf(c)'
  <2>1. StatusOf(c)
    BY <1>0 DEF StatusInv
  <2>2. CASE i[1] # c
    BY <1>0, <2>1, <2>2, OwnCallKept
  <2>3. CASE i[1] = c
    <3>1. /\ at = "loop" /\ at' \in {"loop", "target"}
          /\ i \in DOMAIN calls /\ calls[i].target = "queued"
      BY <2>3
    <3>2. ~Recording(c) /\ ~Recording(c)'
      BY <3>1 DEF Recording
    <3>3. PICK x : x = call[c]
      OBVIOUS
    <3>4. pc[c] = "sending" => x \in DOMAIN calls
      BY <1>0, <3>3, CurrentOf DEF CallInv, Insides, Inside
    <3>5. x # i /\ x \in DOMAIN calls => calls'[x] = calls[x]
      BY DEF OnlyCall
    <3>6. pc[c] = "sending" /\ calls'[call'[c]].target # "ran" => calls[call[c]].target # "ran"
      BY <3>1, <3>3, <3>4, <3>5
    <3> QED
      BY <2>1, <3>2, <3>6, StatusOfKept
  <2> QED
    BY <2>2, <2>3
<1> QED
  BY <1>1, <1>2, StatusInvParts

\* The same, for each of those steps.
LEMMA CallsKeepStatusInv ==
  ASSUME RpcInv,
         \/ \E i \in DOMAIN calls : TakeCall(i) \/ Incoming(i) \/ StopTimer(i)
         \/ IncomingReturned \/ IncomingTimesOut \/ ReceiveData \/ StopMarshals \/ StopReturns
  PROVE  StatusInv'
<1>0. CallInv /\ StatusInv
  BY DEF RpcInv
<1>1. UNCHANGED <<call, pc, state, sendOk, mine, first, pending, batch, emit, lastSeq, lastSeqNum>>
  BY DEF TakeCall, Incoming, StopTimer, IncomingReturned, IncomingTimesOut, ReceiveData,
         StopMarshals, StopReturns, callerVars, statusVars, seqVars
<1>2. DOMAIN calls \subseteq Names /\ "receiver" \notin Callers /\ "owner" \notin Callers
  BY <1>0, CurrentOf DEF CallInv, CallTypes, TableTypes
<1>3. ASSUME NEW i \in DOMAIN calls, TakeCall(i) PROVE StatusInv'
  <2>1. Invoke(i) /\ at = "loop" /\ at' \in {"loop", "target"}
    BY <1>3 DEF TakeCall
  <2>2. OnlyCall(i) /\ calls[i].target = "queued"
    BY <1>0, <2>1, InvokeKeeps
  <2> QED
    BY <1>1, <1>2, <2>1, <2>2, OthersKeepStatusInv
<1>4. ASSUME NEW i \in DOMAIN calls, Incoming(i) \/ StopTimer(i) PROVE StatusInv'
  <2>1. /\ InvokeReturns(i) /\ calls[i].target = "running" /\ i[1] \notin Callers
        /\ at = "target" /\ at' = "loop"
    BY <1>2, <1>4 DEF Incoming, StopTimer, Running
  <2>2. OnlyCall(i)
    BY <1>0, <2>1, InvokeReturnsKeeps
  <2> QED
    BY <1>1, <1>2, <2>1, <2>2, OthersKeepStatusInv
<1>5. ASSUME NEW b \in {"receiver", "owner"}, NEW i, i = Current(b), i # NoCall, Return(i), at' = at
      PROVE  StatusInv'
  <2>1. i \in DOMAIN calls /\ i[1] = b /\ calls[i].sender # "returned"
    BY <1>0, <1>5, CurrentOf DEF CallInv, Insides, Inside
  <2>2. OnlyCall(i)
    BY <1>0, <1>5, <2>1, ReturnKeeps
  <2> QED
    BY <1>1, <1>2, <1>5, <2>1, <2>2, OthersKeepStatusInv
<1>6. ASSUME NEW b \in {"receiver", "owner"}, NEW timed \in BOOLEAN, timed => b = "receiver",
             Current(b) = NoCall, DispatchAsyncWait(NewCall(b), timed), at' = at
      PROVE  StatusInv'
  <2>1. b \in Senders
    BY CurrentOf
  <2>2. PICK i \in Names : i[1] = b /\ OnlyCall(i)
    BY <1>0, <1>6, <2>1, DispatchKeeps
  <2> QED
    BY <1>1, <1>2, <1>6, <2>2, OthersKeepStatusInv
<1>7. CASE IncomingReturned
  <2>1. PICK i : i = recvCall
    OBVIOUS
  <2>2. i = Current("receiver") /\ i # NoCall /\ Return(i) /\ at' = at
    BY <1>0, <1>7, <2>1, CurrentOf DEF IncomingReturned, CallInv, Insides
  <2> QED
    BY <1>5, <2>2
<1>8. CASE StopReturns
  <2>1. PICK i : i = ownerCall
    OBVIOUS
  <2>2. i = Current("owner") /\ i # NoCall /\ Return(i) /\ at' = at
    BY <1>0, <1>8, <2>1, CurrentOf DEF StopReturns, CallInv, Insides
  <2> QED
    BY <1>5, <2>2
<1>9. CASE IncomingTimesOut
  <2>1. PICK i : i = recvCall
    OBVIOUS
  <2>2. i \in DOMAIN calls /\ i[1] = "receiver" /\ TimeOut(i) /\ at' = at
    BY <1>0, <1>9, <2>1, CurrentOf DEF IncomingTimesOut, CallInv, Insides, Inside
  <2>3. OnlyCall(i)
    BY <1>0, <2>2, TimeOutKeeps
  <2> QED
    BY <1>1, <1>2, <2>2, <2>3, OthersKeepStatusInv
<1>10. CASE ReceiveData
  <2>1. Current("receiver") = NoCall /\ DispatchAsyncWait(NewCall("receiver"), TRUE) /\ at' = at
    BY <1>0, <1>10, CurrentOf DEF ReceiveData, CallInv, Insides
  <2> QED
    BY <1>6, <2>1
<1>11. CASE StopMarshals
  <2>1. Current("owner") = NoCall /\ DispatchAsyncWait(NewCall("owner"), FALSE) /\ at' = at
    BY <1>0, <1>11, CurrentOf DEF StopMarshals, CallInv, Insides
  <2> QED
    BY <1>6, <2>1
<1> QED
  BY <1>3, <1>4, <1>7, <1>8, <1>9, <1>10, <1>11

\* Steps that touch no call, no number and no report.
LEMMA QuietKeepsStatusInv ==
  ASSUME RpcInv,
         \/ TimerExpires \/ TakeTick \/ ProcessDone \/ RecvThreadExits \/ Stop \/ UNCHANGED vars
  PROVE  StatusInv'
<1>0. StatusInv
  BY DEF RpcInv
<1>1. /\ UNCHANGED <<calls, call, pc, state, sendOk, mine, first, pending, batch, emit, lastSeq, lastSeqNum>>
      /\ \/ at' = at
         \/ at = "loop" /\ at' = "process"
         \/ at = "process" /\ at' = "loop" /\ DOMAIN batch = {} /\ emit["network"].to = {}
  BY DEF TimerExpires, TakeTick, ProcessDone, RecvThreadExits, Stop, vars, callerVars, statusVars, seqVars, Silent
<1>2. emit["network"].to # {} \/ DOMAIN batch # {} => at' = "process"
  BY <1>0, <1>1 DEF StatusInv, Reports
<1>3. StatusTypes' /\ Given' /\ Reports'
  BY <1>0, <1>1, <1>2, NothingReported
<1>4. \A c \in Callers : StatusOf(c)'
  BY <1>0, <1>1, StatusKept
<1> QED
  BY <1>3, <1>4, StatusInvParts

\* A batch is taken off the table.
LEMMA ProcessKeepsStatusInv ==
  ASSUME RpcInv, Process
  PROVE  StatusInv'
<1>0. StatusInv
  BY DEF RpcInv
<1>1. /\ UNCHANGED <<calls, call, pc, state, sendOk, mine, first, emit, lastSeq, lastSeqNum, at>> /\ at = "process"
      /\ DOMAIN pending' \subseteq DOMAIN pending /\ DOMAIN batch' \subseteq DOMAIN pending
  BY DEF Process, callerVars, seqVars, Only, Without
<1>2. StatusTypes' /\ Given' /\ Reports'
  BY <1>0, <1>1 DEF StatusInv, StatusTypes, Given, Reports
<1>3. \A c \in Callers : StatusOf(c)'
  BY <1>0, <1>1, StatusKept
<1> QED
  BY <1>2, <1>3, StatusInvParts

\* A report starts: of a time-out, or of an acknowledgement.
LEMMA EmitKeepsStatusInv ==
  ASSUME RpcInv, NEW t \in Threads, NEW s \in 1 .. lastSeq, NEW st \in {"SUCCESS", "TIMEOUT"},
         Emit(t, s, st), emit[t].to = {},
         t = "network" => at = "process", t = "receive" => st = "SUCCESS",
         UNCHANGED <<calls, call, pc, state, sendOk, mine, first, lastSeq, lastSeqNum, at>>,
         \A k \in DOMAIN pending' \cup DOMAIN batch' : k[2] \in 1 .. lastSeq,
         DOMAIN batch' # {} => DOMAIN batch # {}
  PROVE  StatusInv'
<1>0. StatusInv
  BY DEF RpcInv
<1>1. Connected \subseteq Callers /\ \A c \in Connected : pc[c] # "idle"
  BY DEF Connected
<1>2. s \in Nat /\ lastSeq \in Nat
  BY <1>0 DEF StatusInv, StatusTypes
<1>3. PICK C : C = Connected
  OBVIOUS
<1>4. PICK e : e = IF C = {} THEN Silence ELSE [seq |-> s, status |-> st, to |-> C]
  OBVIOUS
<1>5. emit' = [emit EXCEPT ![t] = e]
  <2>1. PICK r : r = [seq |-> s, status |-> st, to |-> {}]
    OBVIOUS
  <2>2. emit' = [emit EXCEPT ![t] = Reporting(r, C)]
    BY <1>3, <2>1 DEF Emit
  <2>3. Reporting(r, C) = e
    BY <1>4, <2>1 DEF Reporting
  <2> QED
    BY <2>2, <2>3
<1>6. /\ e \in [seq : Nat, status : {"SUCCESS", "TIMEOUT"}, to : SUBSET Callers]
      /\ e.to = C /\ (C # {} => e.seq = s /\ e.status = st)
  BY <1>1, <1>2, <1>3, <1>4 DEF Silence, None
<1>7. StatusTypes'
  BY <1>0, <1>5, <1>6 DEF StatusInv, StatusTypes
<1>8. /\ emit'[t] = e
      /\ \A u \in Threads : u # t => emit'[u] = emit[u]
  BY <1>0, <1>5 DEF StatusInv, StatusTypes
<1>9. Given'
  BY <1>0, <1>6, <1>8 DEF StatusInv, Given
<1>10. Reports'
  <2>1. "network" \in Threads /\ "receive" \in Threads /\ (t = "network" \/ t = "receive")
    BY DEF Threads
  <2>2. emit'["network"].to # {} \/ DOMAIN batch' # {} => at' = "process"
    BY <1>0, <1>8, <2>1 DEF StatusInv, Reports
  <2>3. emit'["receive"].to # {} => emit'["receive"].status = "SUCCESS"
    BY <1>0, <1>6, <1>8, <2>1 DEF StatusInv, Reports
  <2>4. \A u \in Threads : \A c \in emit'[u].to : pc'[c] # "idle"
    BY <1>0, <1>1, <1>3, <1>6, <1>8 DEF StatusInv, Reports
  <2> QED
    BY <2>2, <2>3, <2>4 DEF Reports
<1>11. \A c \in Callers : StatusOf(c)'
  BY <1>0, StatusKept
<1> QED
  BY <1>7, <1>9, <1>10, <1>11, StatusInvParts

\* The two reports there are: both of numbers of messages that were pending.
LEMMA ReportingKeepsStatusInv ==
  ASSUME RpcInv, (\E k \in DOMAIN batch : ReportTimeout(k)) \/ (\E s \in Seqs : ReceiveAck(s))
  PROVE  StatusInv'
<1>0. StatusInv
  BY DEF RpcInv
<1>1. ASSUME NEW k \in DOMAIN batch, ReportTimeout(k) PROVE StatusInv'
  <2>1. /\ UNCHANGED <<calls, call, pc, state, sendOk, mine, first, lastSeq, lastSeqNum, at>>
        /\ emit["network"].to = {} /\ Emit("network", k[2], "TIMEOUT")
    BY <1>1 DEF ReportTimeout, callerVars, seqVars, Silent
  <2>2. at = "process" /\ k[2] \in 1 .. lastSeq /\ "network" \in Threads
    BY <1>0 DEF StatusInv, Reports, Given, Threads
  <2>3. DOMAIN batch' \subseteq DOMAIN batch
    BY <1>1 DEF ReportTimeout, Without
  <2>4. DOMAIN pending' \subseteq DOMAIN pending \cup {k}
    BY <1>1 DEF ReportTimeout, Add, With
  <2>5. \A j \in DOMAIN pending' \cup DOMAIN batch' : j[2] \in 1 .. lastSeq
    BY <1>0, <2>2, <2>3, <2>4 DEF StatusInv, Given
  <2> QED
    BY <2>1, <2>2, <2>3, <2>5, EmitKeepsStatusInv
<1>2. ASSUME NEW s \in Seqs, ReceiveAck(s) PROVE StatusInv'
  <2>1. /\ UNCHANGED <<calls, call, pc, state, sendOk, mine, first, lastSeq, lastSeqNum, at, batch>>
        /\ emit["receive"].to = {} /\ Emit("receive", s, "SUCCESS")
    BY <1>2 DEF ReceiveAck, callerVars, seqVars, Silent
  <2>2. PICK k \in DOMAIN pending : k[2] = s
    BY <1>2 DEF ReceiveAck, Matching
  <2>3. s \in 1 .. lastSeq /\ "receive" \in Threads
    BY <1>0, <2>2 DEF StatusInv, Given, Threads
  <2>4. DOMAIN pending' \subseteq DOMAIN pending
    BY <1>2 DEF ReceiveAck, Without
  <2>5. \A j \in DOMAIN pending' \cup DOMAIN batch' : j[2] \in 1 .. lastSeq
    BY <1>0, <2>1, <2>4 DEF StatusInv, Given
  <2> QED
    BY <2>1, <2>3, <2>5, EmitKeepsStatusInv
<1> QED
  BY <1>1, <1>2

\* A report reaches a caller.
LEMMA DeliverKeepsStatusInv ==
  ASSUME RpcInv, NEW t \in Threads, NEW c \in Callers, Deliver(t, c)
  PROVE  StatusInv'
<1>0. CallInv /\ StatusInv
  BY DEF RpcInv
<1>1. /\ UNCHANGED <<calls, call, pc, sendOk, mine, at, pending, batch, lastSeq, lastSeqNum>>
      /\ c \in emit[t].to
  BY DEF Deliver, seqVars
<1>2. PICK e, w, v : e = emit[t] /\ w = state[c] /\ v = state'[c]
  OBVIOUS
<1>3. /\ e \in [seq : Nat, status : {"SUCCESS", "TIMEOUT"}, to : SUBSET Callers] /\ c \in e.to
      /\ e.seq \in 1 .. lastSeq /\ lastSeq \in Nat /\ IsState(w) /\ mine[c] \in Nat
  BY <1>0, <1>1, <1>2 DEF StatusInv, StatusTypes, Given
<1>4. /\ v = StatusCallback(w, e.seq, e.status)
      /\ DOMAIN state' = Callers /\ \A d \in Callers : d # c => state'[d] = state[d]
  BY <1>0, <1>2 DEF Deliver, StatusInv, StatusTypes
<1>5. /\ IsState(v) /\ v.expectedSeq = w.expectedSeq
      /\ IF w.expectedSeq = None
         THEN v.early = With(w.early, e.seq, e.status) /\ v.complete = w.complete /\ v.success = w.success
         ELSE /\ v.early = w.early
              /\ IF ~w.complete /\ e.seq = w.expectedSeq
                 THEN v.complete /\ (v.success <=> e.status = "SUCCESS")
                 ELSE v.complete = w.complete /\ v.success = w.success
  <2>1. PICK n, st : n = e.seq /\ st = e.status
    OBVIOUS
  <2>2. n \in Nat /\ v = StatusCallback(w, n, st)
    BY <1>3, <1>4, <2>1
  <2> QED
    BY <1>3, <2>1, <2>2, StatesOfAWait
<1>6. /\ first' \in [Callers -> {"none", "SUCCESS", "TIMEOUT"}]
      /\ first'[c] = IF mine[c] = e.seq /\ first[c] = "none" THEN e.status ELSE first[c]
      /\ \A d \in Callers : d # c => first'[d] = first[d]
  BY <1>0, <1>2, <1>3 DEF Deliver, StatusInv, StatusTypes
<1>7. /\ emit'[t] = IF e.to \ {c} = {} THEN Silence ELSE [e EXCEPT !.to = e.to \ {c}]
      /\ DOMAIN emit' = Threads /\ \A u \in Threads : u # t => emit'[u] = emit[u]
  BY <1>0, <1>2 DEF Deliver, Reporting, StatusInv, StatusTypes
<1>8. ASSUME NEW u \in Threads
      PROVE  /\ emit'[u] \in [seq : Nat, status : {"SUCCESS", "TIMEOUT"}, to : SUBSET Callers]
             /\ emit'[u].to \subseteq emit[u].to
             /\ emit'[u].to # {} => emit'[u].seq = emit[u].seq /\ emit'[u].status = emit[u].status
  <2>1. CASE u # t
    BY <1>0, <1>7, <2>1 DEF StatusInv, StatusTypes
  <2>2. CASE u = t
    BY <1>2, <1>3, <1>7, <2>2 DEF Silence, None
  <2> QED
    BY <2>1, <2>2
<1>9. StatusTypes'
  <2>1. emit' = [u \in Threads |-> emit'[u]]
    BY <1>0 DEF Deliver, StatusInv, StatusTypes
  <2>2. emit' \in [Threads -> [seq : Nat, status : {"SUCCESS", "TIMEOUT"}, to : SUBSET Callers]]
    BY <1>8, <2>1
  <2>3. \A d \in Callers : IsState(state'[d])
    BY <1>0, <1>2, <1>4, <1>5 DEF StatusInv, StatusTypes
  <2> QED
    BY <1>0, <1>1, <1>4, <1>6, <2>2, <2>3 DEF StatusInv, StatusTypes
<1>10. Given'
  <2>1. DOMAIN v.early \subseteq 1 .. lastSeq
    BY <1>0, <1>2, <1>3, <1>5 DEF StatusInv, Given, With
  <2>2. \A d \in Callers : DOMAIN state'[d].early \subseteq 1 .. lastSeq
    BY <1>0, <1>2, <1>4, <2>1 DEF StatusInv, Given
  <2>3. \A u \in Threads : emit'[u].to # {} => emit'[u].seq \in 1 .. lastSeq
    BY <1>0, <1>8 DEF StatusInv, Given
  <2> QED
    BY <1>0, <1>1, <2>2, <2>3 DEF StatusInv, Given
<1>11. Reports'
  <2>1. "network" \in Threads /\ "receive" \in Threads
    BY DEF Threads
  <2> QED
    BY <1>0, <1>1, <1>8, <2>1 DEF StatusInv, Reports
<1>12. \A d \in Callers : Recording(d)' <=> Recording(d)
  BY <1>1 DEF Recording
<1>13. ASSUME NEW d \in Callers, d # c PROVE StatusOf(d)'
  <2>1. StatusOf(d)
    BY <1>0 DEF StatusInv
  <2> QED
    BY <1>1, <1>4, <1>6, <1>12, <1>13, <2>1, StatusOfKept
<1>14. StatusOf(c)'
  <2>1. StatusOf(c)
    BY <1>0 DEF StatusInv
  <2>2. pc[c] # "idle"
    BY <1>0, <1>1 DEF StatusInv, Reports
  <2>3. Recording(c) => e.status = "SUCCESS"
    <3>1. SUFFICES ASSUME at = "record" PROVE e.status = "SUCCESS"
      BY DEF Recording
    <3>2. t # "network"
      BY <1>0, <1>1, <3>1 DEF StatusInv, Reports
    <3>3. t = "receive"
      BY <3>2 DEF Threads
    <3> QED
      BY <1>0, <1>1, <1>2, <3>3 DEF StatusInv, Reports
  <2>4. mine[c] = None => first'[c] = first[c]
    BY <1>3, <1>6 DEF None
  <2>5. CASE w.expectedSeq = None
    <3>1. /\ e.seq \in DOMAIN v.early /\ v.early[e.seq] = e.status
          /\ \A n : n # e.seq => (n \in DOMAIN v.early <=> n \in DOMAIN w.early)
          /\ \A n \in DOMAIN w.early : n # e.seq => v.early[n] = w.early[n]
          /\ v.complete = w.complete /\ v.success = w.success /\ v.expectedSeq = None
      BY <1>5, <2>5 DEF With
    <3>2. CASE mine[c] = None
      BY <1>1, <1>2, <1>12, <2>1, <2>2, <2>4, <2>5, <3>1, <3>2 DEF StatusOf
    <3>3. CASE mine[c] # None
      <4>1. Recording(c) /\ e.status = "SUCCESS"
        BY <1>2, <2>1, <2>3, <2>5, <3>3 DEF StatusOf
      <4>2. IF mine[c] \in DOMAIN w.early
            THEN w.early[mine[c]] = "SUCCESS" /\ first[c] = "SUCCESS" ELSE first[c] = "none"
        BY <1>2, <2>1, <2>5, <3>3 DEF StatusOf
      <4>3. IF mine[c] \in DOMAIN v.early
            THEN v.early[mine[c]] = "SUCCESS" /\ first'[c] = "SUCCESS" ELSE first'[c] = "none"
        BY <1>6, <3>1, <4>1, <4>2
      <4> QED
        BY <1>1, <1>2, <1>12, <2>1, <2>2, <2>5, <3>1, <3>3, <4>1, <4>3 DEF StatusOf
    <3> QED
      BY <3>2, <3>3
  <2>6. CASE w.expectedSeq # None
    <3>1. v.expectedSeq # None /\ ~Recording(c)
      BY <1>2, <1>5, <2>1, <2>6 DEF StatusOf
    <3>2. CASE mine[c] = None
      BY <1>1, <1>2, <1>5, <1>12, <2>1, <2>2, <2>4, <2>6, <3>1, <3>2 DEF StatusOf
    <3>3. CASE mine[c] # None
      <4>1. /\ mine[c] = w.expectedSeq
            /\ w.complete <=> first[c] # "none"
            /\ w.success <=> first[c] = "SUCCESS"
        BY <1>2, <2>1, <2>6, <3>3 DEF StatusOf
      <4>2. /\ v.complete <=> first'[c] # "none"
            /\ v.success <=> first'[c] = "SUCCESS"
        BY <1>3, <1>5, <1>6, <2>6, <4>1
      <4>3. v.expectedSeq = mine[c]
        BY <1>5, <4>1
      <4> QED
        BY <1>1, <1>2, <1>12, <2>1, <2>2, <3>1, <3>3, <4>2, <4>3 DEF StatusOf
    <3> QED
      BY <3>2, <3>3
  <2> QED
    BY <2>5, <2>6
<1> QED
  BY <1>9, <1>10, <1>11, <1>13, <1>14, StatusInvParts

\* A number is drawn for a message and it is sent, or it gets none.
LEMMA TransmitKeepsStatusInv ==
  ASSUME RpcInv, NEW i \in DOMAIN calls, Transmit(i)
  PROVE  StatusInv'
<1>0. CallInv /\ StatusInv
  BY DEF RpcInv
<1>1. PICK c, s : c = i[1] /\ s = lastSeq + 1
  OBVIOUS
<1>2. /\ UNCHANGED <<calls, call, pc, state, first, batch, emit>>
      /\ at = "target" /\ at' = "record" /\ i \in Running(Callers)
      /\ sendOk' = [sendOk EXCEPT ![c] = TRUE] \/ sendOk' = [sendOk EXCEPT ![c] = FALSE]
      /\ \/ /\ lastSeq' = s /\ lastSeqNum' = s /\ mine' = [mine EXCEPT ![c] = s]
            /\ DOMAIN pending' \subseteq DOMAIN pending \cup {KeyOf(s)}
         \/ UNCHANGED <<lastSeq, lastSeqNum, mine, pending>>
  BY <1>1 DEF Transmit, Draw, DrawNothing, seqVars, Add, With
<1>3. /\ i \in Names /\ c \in Callers /\ call[c] = i /\ pc[c] = "sending"
      /\ calls[i].target = "running"
      /\ \A d \in Callers : d # c /\ call[d] \in DOMAIN calls => calls[call[d]].target # "running"
  BY <1>0, <1>1, <1>2, RunningCall
<1>4. lastSeq \in Nat /\ s \in Nat /\ s > lastSeq /\ s # None /\ 1 .. lastSeq \subseteq 1 .. s
      /\ s \notin 1 .. lastSeq /\ s \in 1 .. s
  BY <1>0, <1>1 DEF StatusInv, StatusTypes, None
<1>5. /\ mine' \in [Callers -> Nat] /\ \A d \in Callers : d # c => mine'[d] = mine[d]
      /\ (mine'[c] = s /\ lastSeqNum' = s) \/ mine'[c] = mine[c]
      /\ 1 .. lastSeq \subseteq 1 .. lastSeq' /\ lastSeq <= lastSeq' /\ lastSeq' \in Nat
  BY <1>0, <1>2, <1>3, <1>4 DEF StatusInv, StatusTypes
<1>6. StatusTypes'
  <2>1. lastSeqNum' \in Nat \ {0} /\ sendOk' \in [Callers -> BOOLEAN]
    BY <1>0, <1>2, <1>4 DEF StatusInv, StatusTypes, None
  <2> QED
    BY <1>0, <1>2, <1>5, <2>1 DEF StatusInv, StatusTypes
<1>7. Given'
  <2>1. KeyOf(s)[2] = s
    BY DEF KeyOf
  <2>2. \A k \in DOMAIN pending' \cup DOMAIN batch' : k[2] \in 1 .. lastSeq'
    BY <1>0, <1>2, <1>4, <2>1 DEF StatusInv, Given
  <2>3. ASSUME NEW d \in Callers PROVE mine'[d] <= lastSeq'
    <3>1. mine[d] \in Nat /\ mine[d] <= lastSeq
      BY <1>0 DEF StatusInv, StatusTypes, Given
    <3> QED
      BY <1>2, <1>3, <1>4, <1>5, <3>1
  <2> QED
    BY <1>0, <1>2, <1>5, <2>2, <2>3 DEF StatusInv, Given
<1>8. Reports'
  BY <1>0, <1>2 DEF StatusInv, Reports
<1>9. ASSUME NEW d \in Callers PROVE StatusOf(d)'
  <2>1. StatusOf(d) /\ ~Recording(d)
    BY <1>0, <1>2 DEF StatusInv, Recording
  <2>2. CASE d # c
    <3>1. ~Recording(d)'
      BY <1>2, <1>3, <2>2 DEF Recording
    <3> QED
      BY <1>2, <1>5, <2>1, <2>2, <3>1, StatusOfKept
  <2>3. CASE d = c
    <3>1. Recording(c)'
      BY <1>2, <1>3 DEF Recording
    <3>2. mine[c] = None /\ state[c].expectedSeq = None
      BY <1>3, <2>1, <2>3 DEF StatusOf
    <3>3. first[c] = "none" /\ ~state[c].complete /\ ~state[c].success
      BY <2>1, <2>3, <3>2 DEF StatusOf
    <3>4. s \notin DOMAIN state[c].early
      BY <1>0, <1>3, <1>4 DEF StatusInv, Given
    <3> QED
      BY <1>2, <1>3, <1>4, <1>5, <2>3, <3>1, <3>2, <3>3, <3>4 DEF StatusOf
  <2> QED
    BY <2>2, <2>3
<1> QED
  BY <1>6, <1>7, <1>8, <1>9, StatusInvParts

\* The channel's number is recorded, which is the message's own if it was given
\* one, and a status that came before it is reconciled.
LEMMA RecordKeepsStatusInv ==
  ASSUME RpcInv, NEW i \in DOMAIN calls, RecordSeq(i)
  PROVE  StatusInv'
<1>0. CallInv /\ StatusInv
  BY DEF RpcInv
<1>1. PICK c : c = i[1]
  OBVIOUS
<1>2. /\ UNCHANGED <<call, pc, sendOk, mine, first, pending, batch, emit, lastSeq, lastSeqNum>>
      /\ at = "record" /\ at' = "loop" /\ i \in Running(Callers) /\ InvokeReturns(i)
      /\ state' = [state EXCEPT ![c] = Record(@, lastSeqNum)]
  BY <1>1 DEF RecordSeq, statusVars, seqVars
<1>3. /\ i \in Names /\ c \in Callers /\ call[c] = i /\ pc[c] = "sending"
      /\ calls[i].target = "running"
  BY <1>0, <1>1, <1>2, RunningCall
<1>4. OnlyCall(i) /\ i \in DOMAIN calls' /\ calls'[i].target = "ran"
  BY <1>0, <1>2, <1>3, InvokeReturnsKeeps
<1>5. PICK w, v, n : w = state[c] /\ v = state'[c] /\ n = lastSeqNum
  OBVIOUS
<1>6. /\ IsState(w) /\ n \in Nat /\ n # None /\ v = Record(w, n)
      /\ DOMAIN state' = Callers /\ \A d \in Callers : d # c => state'[d] = state[d]
  BY <1>0, <1>2, <1>3, <1>5 DEF StatusInv, StatusTypes, None
<1>7. /\ IsState(v) /\ v.expectedSeq = n /\ DOMAIN v.early = {}
      /\ IF n \in DOMAIN w.early
         THEN v.complete /\ (v.success <=> w.early[n] = "SUCCESS")
         ELSE v.complete = w.complete /\ v.success = w.success
  BY <1>6, StatesOfAWait
<1>8. StatusTypes'
  BY <1>0, <1>2, <1>5, <1>6, <1>7 DEF StatusInv, StatusTypes
<1>9. Given'
  <2>1. \A d \in Callers : DOMAIN state'[d].early \subseteq 1 .. lastSeq
    BY <1>0, <1>5, <1>6, <1>7 DEF StatusInv, Given
  <2> QED
    BY <1>0, <1>2, <2>1 DEF StatusInv, Given
<1>10. Reports'
  BY <1>0, <1>2 DEF StatusInv, Reports
<1>11. \A d \in Callers : ~Recording(d)'
  BY <1>2 DEF Recording
<1>12. ASSUME NEW d \in Callers, d # c PROVE StatusOf(d)'
  <2>1. StatusOf(d)
    BY <1>0 DEF StatusInv
  <2>2. ~Recording(d)
    BY <1>0, <1>1, <1>2, <1>12, RunningCall DEF Recording
  <2>3. PICK x : x = call[d]
    OBVIOUS
  <2>4. pc[d] = "sending" => x \in DOMAIN calls /\ x # i
    BY <1>0, <1>1, <1>12, <2>3, CurrentOf DEF CallInv, Insides, Inside
  <2>5. pc[d] = "sending" => calls'[x] = calls[x]
    BY <1>4, <2>4 DEF OnlyCall
  <2> QED
    BY <1>2, <1>6, <1>11, <1>12, <2>1, <2>2, <2>3, <2>5, StatusOfKept
<1>13. StatusOf(c)'
  <2>1. StatusOf(c) /\ Recording(c)
    BY <1>0, <1>2, <1>3 DEF StatusInv, Recording
  <2>2. w.expectedSeq = None /\ ~w.complete /\ ~w.success
    BY <1>5, <2>1 DEF StatusOf
  <2>3. CASE mine[c] = None
    <3>1. first[c] = "none"
      BY <2>1, <2>3 DEF StatusOf
    <3> QED
      BY <1>2, <1>3, <1>4, <1>5, <1>6, <1>7, <1>11, <2>3, <3>1 DEF StatusOf
  <2>4. CASE mine[c] # None
    <3>n. n = mine[c]
      BY <1>5, <2>1, <2>4 DEF StatusOf
    <3>1. IF n \in DOMAIN w.early THEN w.early[n] = "SUCCESS" /\ first[c] = "SUCCESS"
          ELSE first[c] = "none"
      BY <1>5, <2>1, <2>2, <2>4, <3>n DEF StatusOf
    <3>2. /\ v.complete <=> first[c] # "none"
          /\ v.success <=> first[c] = "SUCCESS"
      BY <1>7, <2>2, <3>1
    <3> QED
      BY <1>2, <1>3, <1>4, <1>5, <1>6, <1>7, <1>11, <2>4, <3>n, <3>2 DEF StatusOf
  <2> QED
    BY <2>3, <2>4
<1> QED
  BY <1>8, <1>9, <1>10, <1>12, <1>13, StatusInvParts

---------------------------------------------------------------------------
(* The theorems.                                                            *)

\* The invariant holds before the first call.
LEMMA RpcStarts == Init => RpcInv
<1> SUFFICES ASSUME Init PROVE RpcInv
  OBVIOUS
<1>1. DOMAIN calls = {} /\ DOMAIN pending = {} /\ DOMAIN batch = {} /\ queue = <<>> /\ Len(queue) = 0
  BY DEF Init
<1>2. Capacity \in Nat /\ <<>> \in Seq(Names \cup {Tick})
  BY DelegateAsyncWaitAssumption DEF DelegateAsyncWaitAssumption
<1>3. CallTypes
  BY <1>1, <1>2 DEF Init, CallTypes, TableTypes
<1>4. Insides
  BY <1>1 DEF Init, Insides, Inside, Current, Senders
<1>5. CallInv
  BY <1>1, <1>3, <1>4 DEF CallInv, Queued, Patience, OneTarget
<1>6. /\ IsState(NewState) /\ DOMAIN NewState.early = {} /\ NewState.expectedSeq = None
      /\ ~NewState.complete /\ ~NewState.success
  BY DEF NewState, IsState, None
<1>7. \A c \in Callers : state[c] = NewState /\ mine[c] = None /\ first[c] = "none" /\ pc[c] = "idle"
  BY DEF Init
<1>8. \A t \in Threads : emit[t].to = {}
  BY DEF Init, Silence
<1>9. StatusTypes
  <2>1. Silence \in [seq : Nat, status : {"SUCCESS", "TIMEOUT"}, to : SUBSET Callers]
    BY DEF Silence, None
  <2> QED
    BY <1>6, <1>7, <2>1 DEF Init, StatusTypes, None
<1>10. Given
  BY <1>1, <1>6, <1>7, <1>8 DEF Init, Given, None
<1>11. Reports
  BY <1>1, <1>8 DEF Reports, Threads
<1>12. ASSUME NEW c \in Callers PROVE StatusOf(c)
  <2>1. ~Recording(c)
    BY <1>1 DEF Recording
  <2> QED
    BY <1>6, <1>7, <2>1 DEF StatusOf
<1> QED
  BY <1>5, <1>9, <1>10, <1>11, <1>12 DEF RpcInv, StatusInv

\* Every step keeps it.
LEMMA RpcStep == RpcInv /\ [Next]_vars => RpcInv'
<1> SUFFICES ASSUME RpcInv, [Next]_vars PROVE CallInv' /\ StatusInv'
  BY DEF RpcInv
<1>0. CallInv
  BY DEF RpcInv
<1>1. ASSUME NEW c \in Callers, RemoteInvokeWait(c) \/ CallerStep(c) PROVE CallInv' /\ StatusInv'
  BY <1>0, <1>1, CallersKeepCallInv, CallersKeepStatusInv, WaitsKeepStatusInv, ReadKeepsStatusInv
  DEF CallerStep
<1>2. ASSUME NEW i \in DOMAIN calls,
             TakeCall(i) \/ Transmit(i) \/ RecordSeq(i) \/ Incoming(i) \/ StopTimer(i)
      PROVE  CallInv' /\ StatusInv'
  BY <1>0, <1>2, TargetsKeepCallInv, CallsKeepStatusInv, TransmitKeepsStatusInv, RecordKeepsStatusInv
<1>3. ASSUME TimerExpires \/ TakeTick \/ ProcessDone \/ UNCHANGED vars PROVE CallInv' /\ StatusInv'
  BY <1>0, <1>3, ReportsKeepCallInv, QuietKeepsStatusInv
<1>4. ASSUME \/ Process \/ \E k \in DOMAIN batch : ReportTimeout(k)
             \/ \E s \in Seqs : ReceiveAck(s)
      PROVE  CallInv' /\ StatusInv'
  BY <1>0, <1>4, ReportsKeepCallInv, ProcessKeepsStatusInv, ReportingKeepsStatusInv
<1>5. ASSUME NEW t \in Threads, NEW c \in Callers, Deliver(t, c) PROVE CallInv' /\ StatusInv'
  BY <1>0, <1>5, ReportsKeepCallInv, DeliverKeepsStatusInv
<1>6. ASSUME IncomingReturned \/ IncomingTimesOut \/ RecvThreadExits \/ ReceiveData
      PROVE  CallInv' /\ StatusInv'
  BY <1>0, <1>6, ReceiverKeepsCallInv, CallsKeepStatusInv, QuietKeepsStatusInv
<1>7. ASSUME Stop \/ OwnerStep PROVE CallInv' /\ StatusInv'
  BY <1>0, <1>7, OwnerKeepsCallInv, CallsKeepStatusInv, QuietKeepsStatusInv DEF OwnerStep
<1>8. "network" \in Threads /\ "receive" \in Threads
  BY DEF Threads
<1> QED
  BY <1>1, <1>2, <1>3, <1>4, <1>5, <1>6, <1>7, <1>8 DEF Next, NetworkStep, ReceiveStep

\* The inductive invariant: where each sender and each of its calls are, and
\* what is known of each caller's message.
THEOREM RpcInvHolds == Spec => []RpcInv
BY RpcStarts, RpcStep, PTL DEF Spec

\* The network thread runs one target at a time, and only while the sender whose
\* arguments it refers to is still inside its call, also if that call has timed
\* out (DelegateAsyncWait.h, Invoke and the lock it takes).
THEOREM ArgumentsOutliveCalls == Spec => []ArgumentsAlive
<1>1. RpcInv => ArgumentsAlive
  <2> SUFFICES ASSUME CallInv, NEW i \in DOMAIN calls, calls[i].target = "running"
               PROVE  /\ i \in {call[c] : c \in Callers} \cup {recvCall, ownerCall}
                      /\ \A j \in DOMAIN calls : calls[j].target = "running" => j = i
    BY DEF RpcInv, ArgumentsAlive
  <2>1. calls[i].sender # "returned" /\ i[1] \in Senders
    BY NamesArePairs DEF CallInv, CallTypes, TableTypes, Queued
  <2>2. Current(i[1]) = i
    BY <2>1 DEF CallInv, Insides, Inside
  <2>3. i \in {call[c] : c \in Callers} \cup {recvCall, ownerCall}
    BY <2>1, <2>2 DEF Current, Senders
  <2> QED
    BY <2>3 DEF CallInv, OneTarget
<1> QED
  BY <1>1, RpcInvHolds, PTL

\* RemoteInvokeWait, once a number was drawn for its message, returns TRUE exactly
\* if the first status of this message was SUCCESS: a status that came before the
\* number was recorded is not lost, and none of another message is taken for it.
THEOREM FirstStatusWins == Spec => []FirstStatusDecides
<1>1. RpcInv => FirstStatusDecides
  <2> SUFFICES ASSUME CallInv, StatusInv, NEW c \in Callers, pc[c] = "reading", mine[c] # None
               PROVE  state[c].success <=> first[c] = "SUCCESS"
    BY DEF RpcInv, FirstStatusDecides
  <2>1. ~Recording(c)
    <3>1. call[c] = NoCall
      BY DEF CallInv, Insides
    <3> QED
      BY <3>1, NamesArePairs DEF Recording, CallInv, CallTypes, TableTypes
  <2> QED
    BY <2>1 DEF StatusInv, StatusOf
<1> QED
  BY <1>1, RpcInvHolds, PTL
=============================================================================
