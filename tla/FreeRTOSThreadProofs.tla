----------------------- MODULE FreeRTOSThreadProofs -----------------------
(***************************************************************************)
(* What TLAPS proves of FreeRTOSThread, for any set of producers, any queue *)
(* size and any number of calls and workers: the doorbell is exact; what    *)
(* DRAIN accepts is invoked, and the task implements Executor, as long as   *)
(* no worker is started beside one that is still to serve.                  *)
(***************************************************************************)
EXTENDS FreeRTOSThread, SequenceTheorems, FiniteSetTheorems, TLAPS

---------------------------------------------------------------------------
(* Type correctness.                                                        *)

Fates   == {"queued", "taken", "running", "invoked", "canceled", "lost"}
Message == [lane : Lanes, fate : Fates]
Places  == {"none", "starting", "loop", "lookNormal", "timedOut", "idling", "popped", "handling",
            "exiting", "leaving", "dead"}

TypeInv ==
  /\ FULL_POLICY \in Policies /\ wakes \in BOOLEAN
  /\ created \in BOOLEAN /\ high \in Seq(Nat \ {EXIT}) /\ normal \in Seq(Nat) /\ bell \in Nat
  /\ m_exit \in BOOLEAN /\ m_discard \in BOOLEAN /\ m_exitSem \in BOOLEAN
  /\ gen \in 0 .. MaxStarts /\ m_thread \in 0 .. gen /\ m_selfExitPtr \in 0 .. gen
  /\ msgs \in Seq(Message) /\ promised \subseteq DOMAIN msgs
  /\ calls \in Nat
  /\ pc \in [Tasks -> {"idle", "checked", "waiting", "ringing"}] /\ to \in [Tasks -> Lanes]
  /\ wpc \in [Gens -> Places] /\ cur \in [Gens -> Nat] /\ selfExit \in [Gens -> BOOLEAN]
  /\ op \in [Exiters -> {"none", "started", "join", "drain", "destroy"}]
  /\ \A g \in Gens : op[g] \in {"none", "drain", "destroy"}
  /\ faulted \in BOOLEAN /\ misused \in BOOLEAN

\* The constructor establishes the type invariant.
LEMMA TypeInit == Init => TypeInv
<1> SUFFICES ASSUME Init PROVE TypeInv
  OBVIOUS
<1>1. /\ high \in Seq(Nat \ {EXIT}) /\ normal \in Seq(Nat) /\ msgs \in Seq(Message)
      /\ promised \subseteq DOMAIN msgs
  BY DEF Init, QueueInit
<1>2. /\ gen \in 0 .. MaxStarts /\ m_thread \in 0 .. gen /\ m_selfExitPtr \in 0 .. gen
      /\ FULL_POLICY \in Policies /\ wakes \in BOOLEAN
  BY FreeRTOSThreadAssumption DEF FreeRTOSThreadAssumption, Init
<1>3. cur \in [Gens -> Nat] /\ op \in [Exiters -> {"none", "started", "join", "drain", "destroy"}]
      /\ \A g \in Gens : op[g] \in {"none", "drain", "destroy"}
  BY DEF Init, EXIT, Exiters
<1>4. /\ pc \in [Tasks -> {"idle", "checked", "waiting", "ringing"}] /\ to \in [Tasks -> Lanes]
      /\ wpc \in [Gens -> Places] /\ selfExit \in [Gens -> BOOLEAN]
  BY DEF Init, Lanes, Places
<1> QED
  BY <1>1, <1>2, <1>3, <1>4 DEF Init, QueueInit, TypeInv

\* Mark keeps msgs a sequence of messages of the same length.
LEMMA MarkType ==
  ASSUME msgs \in Seq(Message), NEW ids, NEW f \in Fates
  PROVE  Mark(ids, f) \in Seq(Message) /\ DOMAIN Mark(ids, f) = DOMAIN msgs
<1>1. \A i \in 1 .. Len(msgs) : msgs[i] \in Message
  OBVIOUS
<1>2. DOMAIN msgs = 1 .. Len(msgs) /\ Len(msgs) \in Nat
  OBVIOUS
<1>3. \A i \in 1 .. Len(msgs) : [msgs[i] EXCEPT !.fate = f] \in Message
  BY <1>1 DEF Message
<1> QED
  BY <1>1, <1>2, <1>3 DEF Mark

\* The first of a lane, and what is left of it.
LEMMA HeadType ==
  ASSUME NEW S, NEW q \in Seq(S), q # <<>>
  PROVE  Head(q) = q[1] /\ q[1] \in S /\ Tail(q) \in Seq(S) /\ Len(q) \in Nat \ {0}
OBVIOUS

\* The task, the worker and the exiters of a call are told apart by their numbers.
LEMMA TaskKinds ==
  /\ Owner \in Tasks /\ Owner \notin Callers /\ Owner \notin Gens /\ Owner \in Exiters
  /\ Gens \subseteq Tasks /\ Gens \subseteq Exiters /\ Callers \subseteq Tasks
  /\ \A c \in Tasks : c = Owner \/ c \in Callers
  /\ \A e \in Exiters : e = Owner \/ e \in Gens
  /\ Gens \subseteq Nat \ {0} /\ MaxStarts \in Nat \ {0}
BY FreeRTOSThreadAssumption DEF FreeRTOSThreadAssumption, Owner, Tasks, Callers, Gens, Exiters

\* Every step preserves the type invariant.
LEMMA TypeStep == TypeInv /\ [Next]_vars => TypeInv'
<1> SUFFICES ASSUME TypeInv, [Next]_vars PROVE TypeInv'
  OBVIOUS
<1> USE DEF TypeInv, Goto, WGoto, Return, flagVars, msgVars, callVars, workerVars, queueVars, configVars
<1>k. /\ Owner \in Tasks /\ Owner \notin Gens /\ Owner \in Exiters
      /\ Gens \subseteq Tasks /\ Gens \subseteq Exiters /\ Callers \subseteq Tasks
      /\ \A e \in Exiters : e = Owner \/ e \in Gens
      /\ MaxStarts \in Nat \ {0} /\ Gens = 1 .. MaxStarts /\ EXIT = 0 /\ EXIT \in Nat
      /\ "NORMAL" \in Lanes
  BY TaskKinds DEF Gens, EXIT, Lanes
<1>0. CASE UNCHANGED vars
  BY <1>0 DEF vars
<1>q. /\ <<>> \in Seq(Nat \ {EXIT}) /\ <<>> \in Seq(Nat)
  OBVIOUS
<1>1. ASSUME Running, CreateThread PROVE TypeInv'
  <2>1. /\ gen + 1 \in Gens /\ gen' = gen + 1 /\ gen' \in 0 .. MaxStarts
        /\ m_thread' \in 0 .. gen' /\ m_selfExitPtr' \in 0 .. gen'
    BY <1>1, <1>k DEF CreateThread
  <2>2. wpc' \in [Gens -> Places]
    BY <1>1, <2>1 DEF CreateThread, Places
  <2> QED
    BY <1>1, <1>k, <1>q, <2>1, <2>2 DEF CreateThread, Create, Running
<1>2. ASSUME Running, CreateThreadReturns \/ Join PROVE TypeInv'
  BY <1>2, <1>k DEF CreateThreadReturns, Join, Running
<1>3. ASSUME Running, NEW c \in Callers, Dispatch(c) PROVE TypeInv'
  <2>1. c \in Tasks /\ calls' = calls + 1
        /\ UNCHANGED <<queueVars, flagVars, msgVars, workerVars, op, faulted, misused, configVars>>
    BY <1>3, <1>k DEF Dispatch, Running
  <2>2. pc' \in [Tasks -> {"idle", "checked", "waiting", "ringing"}] /\ to' \in [Tasks -> Lanes]
    BY <1>3, <2>1 DEF Dispatch
  <2> QED
    BY <2>1, <2>2
<1>4. ASSUME Running, NEW c \in Tasks, Push(c) PROVE TypeInv'
  <2>1. NewId \in Nat \ {EXIT} /\ [lane |-> to[c], fate |-> "queued"] \in Message
    BY <1>k DEF NewId, Message, Fates
  <2>2. /\ high' \in Seq(Nat \ {EXIT}) /\ normal' \in Seq(Nat) /\ UNCHANGED <<created, bell>>
    <3>1. \A q \in Seq(Nat) : Append(q, EXIT) \in Seq(Nat) /\ Append(q, NewId) \in Seq(Nat)
      BY <1>k, <2>1
    <3>2. \A q \in Seq(Nat \ {EXIT}) : Append(q, NewId) \in Seq(Nat \ {EXIT})
      BY <2>1
    <3>3. high \in Seq(Nat \ {EXIT}) /\ normal \in Seq(Nat)
      OBVIOUS
    <3>4. \/ high' = high /\ (normal' = Append(normal, EXIT) \/ normal' = Append(normal, NewId))
          \/ high' = Append(high, NewId) /\ normal' = normal
      BY <1>4, <1>k DEF Push, PushBack
    <3> QED
      BY <1>4, <3>1, <3>2, <3>3, <3>4 DEF Push, PushBack
  <2>3. msgs' \in Seq(Message) /\ promised' \subseteq DOMAIN msgs'
    <3>1. UNCHANGED msgs \/ msgs' = Append(msgs, [lane |-> to[c], fate |-> "queued"])
      BY <1>4 DEF Push
    <3>2. \A r \in Message : Append(msgs, r) \in Seq(Message) /\ DOMAIN msgs \subseteq DOMAIN Append(msgs, r)
      <4> SUFFICES ASSUME NEW r \in Message
                   PROVE  Append(msgs, r) \in Seq(Message) /\ DOMAIN msgs \subseteq DOMAIN Append(msgs, r)
        OBVIOUS
      <4>1. Append(msgs, r) \in Seq(Message) /\ Len(Append(msgs, r)) = Len(msgs) + 1
        BY AppendProperties
      <4>2. DOMAIN msgs = 1 .. Len(msgs) /\ DOMAIN Append(msgs, r) = 1 .. Len(msgs) + 1 /\ Len(msgs) \in Nat
        BY <4>1
      <4> QED
        BY <4>1, <4>2
    <3> QED
      BY <1>4, <2>1, <3>1, <3>2 DEF Push
  <2> QED
    BY <1>4, <2>2, <2>3 DEF Push, Running
<1>5. ASSUME Running, NEW c \in Tasks, RingBell(c) PROVE TypeInv'
  BY <1>5, <1>k DEF RingBell, Ring, Running
<1>6. ASSUME Running, NEW c \in Tasks, DropFull(c) \/ FaultFull(c) \/ WaitNotFull(c) \/ TimeoutFull(c) PROVE TypeInv'
  <2>1. /\ pc' \in [Tasks -> {"idle", "checked", "waiting", "ringing"}] /\ to' \in [Tasks -> Lanes]
        /\ faulted' \in BOOLEAN
    <3>1. CASE DropFull(c) \/ TimeoutFull(c)
      <4>1. pc' = [pc EXCEPT ![c] = "idle"] /\ to' = [to EXCEPT ![c] = "NORMAL"] /\ faulted' = faulted
        BY <3>1 DEF DropFull, TimeoutFull
      <4> QED
        BY <1>k, <4>1
    <3>2. CASE FaultFull(c)
      BY <3>2 DEF FaultFull
    <3>3. CASE WaitNotFull(c)
      BY <3>3 DEF WaitNotFull
    <3> QED
      BY <1>6, <3>1, <3>2, <3>3
  <2>2. UNCHANGED <<queueVars, flagVars, msgVars, calls, workerVars, op, misused>>
    BY <1>6 DEF DropFull, FaultFull, WaitNotFull, TimeoutFull
  <2> QED
    BY <1>6, <2>1, <2>2 DEF Running
<1>7. ASSUME Running, Misuse PROVE TypeInv'
  BY <1>7 DEF Misuse, Running
<1>8. ASSUME Running, NEW g \in Gens, NEW place \in Places, WGoto(g, place),
             UNCHANGED <<queueVars, flagVars, msgVars, callVars, cur, selfExit, op, faulted, misused>>
      PROVE  TypeInv'
  BY <1>8 DEF Running
<1>9. ASSUME Running, NEW g \in Gens, Receive(g) PROVE TypeInv'
  <2>1. bell' \in Nat
    BY <1>9 DEF Receive, TakeBell
  <2>2. high' \in Seq(Nat \ {EXIT}) /\ UNCHANGED <<created, normal>>
    BY <1>9, <1>q, HeadType DEF Receive, TakeBell
  <2>3. wpc' \in [Gens -> Places] /\ cur' \in [Gens -> Nat] /\ msgs' \in Seq(Message) /\ promised' \subseteq DOMAIN msgs'
    <3>1. CASE high = <<>>
      BY <1>9, <3>1 DEF Receive, Places
    <3>2. CASE high # <<>>
      <4>1. Head(high) \in Nat
        BY <3>2, HeadType
      <4>2. wpc' = [wpc EXCEPT ![g] = "popped"] /\ cur' = [cur EXCEPT ![g] = Head(high)] /\ msgs' = Mark({Head(high)}, "taken")
            /\ UNCHANGED promised
        BY <1>9, <3>2 DEF Receive
      <4>3. msgs' \in Seq(Message) /\ DOMAIN msgs' = DOMAIN msgs
        BY <4>2, MarkType DEF Fates
      <4> QED
        BY <4>1, <4>2, <4>3 DEF Places
    <3> QED
      BY <3>1, <3>2
  <2> QED
    BY <1>9, <2>1, <2>2, <2>3 DEF Receive, Running
<1>10. ASSUME Running, NEW g \in Gens, ReceiveNormal(g) PROVE TypeInv'
  <2>1. normal' \in Seq(Nat) /\ UNCHANGED <<created, high, bell>>
    BY <1>10, <1>q, HeadType DEF ReceiveNormal, PopNormal
  <2>2. wpc' \in [Gens -> Places] /\ cur' \in [Gens -> Nat] /\ msgs' \in Seq(Message) /\ promised' \subseteq DOMAIN msgs'
    <3>1. CASE normal = <<>>
      BY <1>10, <3>1 DEF ReceiveNormal, Places
    <3>2. CASE normal # <<>>
      <4>1. Head(normal) \in Nat
        BY <3>2, HeadType
      <4>2. wpc' = [wpc EXCEPT ![g] = "popped"] /\ cur' = [cur EXCEPT ![g] = Head(normal)] /\ msgs' = Mark({Head(normal)}, "taken")
            /\ UNCHANGED promised
        BY <1>10, <3>2 DEF ReceiveNormal
      <4>3. msgs' \in Seq(Message) /\ DOMAIN msgs' = DOMAIN msgs
        BY <4>2, MarkType DEF Fates
      <4> QED
        BY <4>1, <4>2, <4>3 DEF Places
    <3> QED
      BY <3>1, <3>2
  <2> QED
    BY <1>10, <2>1, <2>2 DEF ReceiveNormal, Running
<1>11. ASSUME Running, NEW g \in Gens, Act(g) \/ HandlerDone(g) PROVE TypeInv'
  <2>1. wpc' \in [Gens -> Places] /\ cur' \in [Gens -> Nat]
    <3>1. PICK place \in Places : wpc' = [wpc EXCEPT ![g] = place]
      BY <1>11 DEF Act, HandlerDone, Places
    <3>2. cur' = cur \/ cur' = [cur EXCEPT ![g] = EXIT]
      BY <1>11 DEF Act, HandlerDone
    <3>3. wpc \in [Gens -> Places] /\ cur \in [Gens -> Nat] /\ EXIT \in Nat
      BY <1>k
    <3> QED
      BY ONLY <3>1, <3>2, <3>3
  <2>2. msgs' \in Seq(Message) /\ promised' \subseteq DOMAIN msgs'
    BY <1>11, MarkType DEF Act, HandlerDone, Fates
  <2>3. UNCHANGED <<queueVars, m_exit, m_discard, m_thread, gen, m_exitSem, callVars, selfExit, op, faulted, misused>>
        /\ (m_selfExitPtr' = m_selfExitPtr \/ m_selfExitPtr' = 0)
    BY <1>11 DEF Act, HandlerDone
  <2> QED
    BY <1>11, <2>1, <2>2, <2>3 DEF Running
<1>12. ASSUME Running, NEW g \in Gens, SignalExit(g) \/ Leave(g) PROVE TypeInv'
  <2>1. wpc' \in [Gens -> Places]
    BY <1>12 DEF SignalExit, Leave, Places
  <2>2. /\ UNCHANGED <<queueVars, m_exit, m_discard, m_thread, gen, msgVars, callVars, cur, selfExit, op, faulted, misused>>
        /\ m_exitSem' \in BOOLEAN /\ (m_selfExitPtr' = m_selfExitPtr \/ m_selfExitPtr' = 0)
    BY <1>12 DEF SignalExit, Leave
  <2> QED
    BY <1>12, <2>1, <2>2 DEF Running
<1>13. ASSUME Running, NEW e \in Exiters, ExitRequest(e) PROVE TypeInv'
  <2>1. promised' \subseteq DOMAIN msgs' /\ UNCHANGED msgs /\ m_exit' \in BOOLEAN /\ m_discard' \in BOOLEAN
    BY <1>13 DEF ExitRequest, Accepted
  <2>2. /\ pc' \in [Tasks -> {"idle", "checked", "waiting", "ringing"}] /\ selfExit' \in [Gens -> BOOLEAN]
        /\ op' \in [Exiters -> {"none", "started", "join", "drain", "destroy"}]
        /\ \A g \in Gens : op'[g] \in {"none", "drain", "destroy"}
    <3>1. e \in Exiters /\ Owner \in Tasks /\ (e = Owner \/ e \in Gens)
      BY <1>13, <1>k
    <3>2. pc' \in [Tasks -> {"idle", "checked", "waiting", "ringing"}] /\ selfExit' \in [Gens -> BOOLEAN]
      BY <1>13, <3>1 DEF ExitRequest
    <3>3. op' = [op EXCEPT ![Owner] = "join"] \/ (e # Owner /\ op' = [op EXCEPT ![e] = "drain"])
      BY <1>13 DEF ExitRequest
    <3> QED
      BY <1>k, <3>1, <3>2, <3>3
  <2> QED
    BY <1>13, <2>1, <2>2 DEF ExitRequest, Running
<1>14. ASSUME Running, NEW e \in Exiters, DrainAndDelete(e) \/ DestroyQueue(e) PROVE TypeInv'
  <2>1. msgs' \in Seq(Message) /\ promised' \subseteq DOMAIN msgs'
    BY <1>14, MarkType DEF DrainAndDelete, DestroyQueue, Fates
  <2>2. /\ op' \in [Exiters -> {"none", "started", "join", "drain", "destroy"}]
        /\ \A g \in Gens : op'[g] \in {"none", "drain", "destroy"}
    BY <1>14, <1>k DEF DrainAndDelete, DestroyQueue
  <2>3. /\ created' \in BOOLEAN /\ high' \in Seq(Nat \ {EXIT}) /\ normal' \in Seq(Nat) /\ bell' \in Nat
        /\ m_thread' \in 0 .. gen
    <3>1. CASE DrainAndDelete(e)
      BY <1>q, <3>1 DEF DrainAndDelete, Empty
    <3>2. CASE DestroyQueue(e)
      <4>1. created' = FALSE /\ high' = <<>> /\ normal' = <<>> /\ bell' = 0 /\ m_thread' = 0
        BY <3>2 DEF DestroyQueue, Destroy
      <4>2. 0 \in 0 .. gen /\ 0 \in Nat
        BY <1>k
      <4>3. created' \in BOOLEAN
        BY <4>1
      <4> QED
        BY ONLY <1>q, <4>1, <4>2, <4>3
    <3> QED
      BY <1>14, <3>1, <3>2
  <2>4. misused' \in BOOLEAN
    <3>1. misused' = misused \/ misused' = Blocked
      BY <1>14 DEF DrainAndDelete, DestroyQueue
    <3>2. Blocked \in BOOLEAN
      BY DEF Blocked
    <3> QED
      BY <3>1, <3>2
  <2> QED
    BY <1>14, <2>1, <2>2, <2>3, <2>4 DEF DrainAndDelete, DestroyQueue, Running
<1>15. ASSUME Running, NEW g \in Gens,
              StartHandlerDone(g) \/ ReceiveTimesOut(g) \/ ExitNoticed(g) \/ RunIdle(g) \/ IdleHandlerDone(g)
       PROVE  TypeInv'
  <2>1. PICK place \in Places :
          /\ WGoto(g, place)
          /\ UNCHANGED <<queueVars, flagVars, msgVars, callVars, cur, selfExit, op, faulted, misused>>
    BY <1>15 DEF StartHandlerDone, ReceiveTimesOut, ExitNoticed, RunIdle, IdleHandlerDone, Loop, Places
  <2> QED
    BY <1>8, <1>15, <2>1
<1> QED
  BY <1>0, <1>1, <1>2, <1>3, <1>4, <1>5, <1>6, <1>7, <1>9, <1>10, <1>11, <1>12, <1>13, <1>14, <1>15
     DEF Next, SendStep, WorkerStep, ExitStep, SendToNothing, ReceiveFromNothing

\* The types of the variables, whatever the tasks do.
THEOREM TypeInvHolds == Spec => []TypeInv
BY TypeInit, TypeStep, PTL DEF Spec

---------------------------------------------------------------------------
(* Who may be where.  The queue exists as long as m_thread is set; a handler *)
(* inside ExitThread is the current worker's; an owner inside ExitThread     *)
(* has the queue and no handler beside it, and sends nothing but the exit    *)
(* message of that call.                                                    *)

Exiting   == {"join", "drain", "destroy"}
InHandler == {"starting", "handling", "idling"}

ControlInv ==
  /\ (created <=> m_thread # 0) /\ m_thread \in {0, gen}
  /\ \A g \in Gens : op[g] # "none" => g = m_thread /\ wpc[g] \in InHandler
  /\ op[Owner] \in Exiting => created /\ \A g \in Gens : op[g] = "none"
  /\ (pc[Owner] # "idle" => op[Owner] = "join") /\ to[Owner] = "NORMAL"
  /\ \A g \in Gens : IF g > gen THEN wpc[g] = "none" /\ ~selfExit[g] ELSE wpc[g] # "none"

\* A worker that is not inside ExitThread, and has started, may go anywhere.
LEMMA ControlWorker ==
  ASSUME TypeInv, ControlInv, NEW g \in Gens, NEW place, wpc' = [wpc EXCEPT ![g] = place],
         wpc[g] # "none", place # "none", op[g] = "none",
         UNCHANGED <<created, m_thread, gen, pc, to, selfExit, op>>
  PROVE  ControlInv'
BY TaskKinds DEF TypeInv, ControlInv, Exiting, InHandler

\* Every step keeps the tasks where they may be.
LEMMA ControlStep == TypeInv /\ ControlInv /\ [Next]_vars => ControlInv'
<1> SUFFICES ASSUME TypeInv, ControlInv, [Next]_vars PROVE ControlInv'
  OBVIOUS
<1> USE DEF Goto, WGoto, Return, flagVars, msgVars, callVars, workerVars, queueVars, configVars
<1>k. /\ Owner \in Tasks /\ Owner \notin Gens /\ Owner \in Exiters /\ Owner \notin Callers /\ Owner = 0
      /\ Gens \subseteq Tasks /\ Gens \subseteq Exiters /\ Callers \subseteq Tasks
      /\ \A e \in Exiters : e = Owner \/ e \in Gens
      /\ MaxStarts \in Nat \ {0} /\ Gens = 1 .. MaxStarts
      /\ gen \in Nat /\ gen <= MaxStarts /\ m_thread \in 0 .. gen /\ m_selfExitPtr \in 0 .. gen
  BY TaskKinds DEF Gens, TypeInv, Owner
<1>t. /\ pc \in [Tasks -> {"idle", "checked", "waiting", "ringing"}] /\ to \in [Tasks -> Lanes]
      /\ wpc \in [Gens -> Places] /\ selfExit \in [Gens -> BOOLEAN]
      /\ op \in [Exiters -> {"none", "started", "join", "drain", "destroy"}]
      /\ created \in BOOLEAN
  BY DEF TypeInv
<1>0. ASSUME UNCHANGED <<created, m_thread, gen, op, pc, to, wpc, selfExit>> PROVE ControlInv'
  BY <1>0 DEF ControlInv, Exiting, InHandler
<1>00. CASE UNCHANGED vars
  BY <1>0, <1>00 DEF vars
<1>1. ASSUME CreateThread PROVE ControlInv'
  <2>1. /\ op[Owner] = "none" /\ m_thread = 0 /\ gen + 1 \in Gens /\ created' = TRUE
        /\ gen' = gen + 1 /\ m_thread' = gen + 1 /\ wpc' = [wpc EXCEPT ![gen + 1] = "starting"]
        /\ op' = [op EXCEPT ![Owner] = "started"] /\ UNCHANGED <<pc, to, selfExit>>
    BY <1>1, <1>k DEF CreateThread, Create
  <2>2. \A g \in Gens : op'[g] = "none"
    BY <1>k, <1>t, <2>1 DEF ControlInv
  <2>3. op'[Owner] = "started" /\ pc[Owner] = "idle" /\ to[Owner] = "NORMAL"
    BY <1>k, <1>t, <2>1 DEF ControlInv
  <2>4. \A g \in Gens : IF g > gen' THEN wpc'[g] = "none" /\ ~selfExit[g] ELSE wpc'[g] # "none"
    <3> SUFFICES ASSUME NEW g \in Gens PROVE IF g > gen' THEN wpc'[g] = "none" /\ ~selfExit[g] ELSE wpc'[g] # "none"
      OBVIOUS
    <3>1. CASE g = gen + 1
      BY <1>k, <1>t, <2>1, <3>1
    <3>2. CASE g # gen + 1
      BY <1>k, <1>t, <2>1, <3>2 DEF ControlInv
    <3> QED
      BY <3>1, <3>2
  <2> QED
    BY <1>k, <2>1, <2>2, <2>3, <2>4 DEF ControlInv, Exiting
<1>2. ASSUME CreateThreadReturns PROVE ControlInv'
  BY <1>2, <1>k, <1>t DEF CreateThreadReturns, ControlInv, Exiting, InHandler
<1>3. ASSUME Join PROVE ControlInv'
  BY <1>3, <1>k, <1>t DEF Join, ControlInv, Exiting, InHandler
<1>4. ASSUME NEW c \in Tasks, c # Owner, NEW p, NEW l, pc' = [pc EXCEPT ![c] = p], to' = [to EXCEPT ![c] = l],
             UNCHANGED <<created, m_thread, gen, op, wpc, selfExit>>
      PROVE  ControlInv'
  BY <1>4, <1>k, <1>t DEF ControlInv, Exiting, InHandler
<1>5. ASSUME NEW p, NEW l, pc[Owner] # "idle", l = "NORMAL", pc' = [pc EXCEPT ![Owner] = p], to' = [to EXCEPT ![Owner] = l],
             UNCHANGED <<created, m_thread, gen, op, wpc, selfExit>>
      PROVE  ControlInv'
  BY <1>5, <1>k, <1>t DEF ControlInv, Exiting, InHandler
<1>6. ASSUME NEW c \in Callers, Dispatch(c) PROVE ControlInv'
  <2>1. UNCHANGED <<created, m_thread, gen, op, wpc, selfExit>>
    BY <1>6 DEF Dispatch
  <2>2. UNCHANGED <<pc, to>> \/ \E l \in Lanes : pc' = [pc EXCEPT ![c] = "checked"] /\ to' = [to EXCEPT ![c] = l]
    BY <1>6 DEF Dispatch
  <2> QED
    BY <1>0, <1>4, <1>k, <2>1, <2>2
<1>7. ASSUME NEW c \in Tasks, SendStep(c) PROVE ControlInv'
  <2>1. UNCHANGED <<created, m_thread, gen, op, wpc, selfExit>>
    BY <1>7 DEF SendStep, Push, PushBack, RingBell, Ring, SendToNothing, Misuse, DropFull, FaultFull, WaitNotFull, TimeoutFull
  <2>2. UNCHANGED <<pc, to>> \/ (pc[c] # "idle" /\ \E p : pc' = [pc EXCEPT ![c] = p] /\ (to' = to \/ to' = [to EXCEPT ![c] = "NORMAL"]))
    BY <1>7 DEF SendStep, Push, RingBell, SendToNothing, Misuse, DropFull, FaultFull, WaitNotFull, TimeoutFull
  <2>3. CASE UNCHANGED <<pc, to>>
    BY <1>0, <2>1, <2>3
  <2>4. CASE ~UNCHANGED <<pc, to>>
    <3>1. PICK p : pc[c] # "idle" /\ pc' = [pc EXCEPT ![c] = p] /\ (to' = to \/ to' = [to EXCEPT ![c] = "NORMAL"])
      BY <2>2, <2>4
    <3>2. to = [to EXCEPT ![c] = to[c]]
      BY <1>t
    <3>3. to[Owner] = "NORMAL"
      BY DEF ControlInv
    <3>4. CASE c = Owner
      BY <1>5, <2>1, <3>1, <3>2, <3>3, <3>4
    <3>5. CASE c # Owner
      BY <1>4, <2>1, <3>1, <3>2, <3>5
    <3> QED
      BY <3>4, <3>5
  <2> QED
    BY <2>3, <2>4
<1>8. ASSUME NEW g \in Gens, WorkerStep(g) PROVE ControlInv'
  <2>1. UNCHANGED <<created, m_thread, gen, op, pc, to, selfExit>>
    BY <1>8 DEF WorkerStep, StartHandlerDone, Receive, ReceiveNormal, Act, HandlerDone, ReceiveTimesOut, ExitNoticed,
       RunIdle, IdleHandlerDone, SignalExit, Leave, ReceiveFromNothing, Misuse, TakeBell, PopNormal
  <2>2. CASE wpc' = wpc
    BY <1>0, <2>1, <2>2
  <2>3. CASE wpc' # wpc
    <3>1. PICK place \in Places \ {"none"} : wpc' = [wpc EXCEPT ![g] = place] /\ wpc[g] # "none"
      BY <1>8, <2>3 DEF WorkerStep, StartHandlerDone, Receive, ReceiveNormal, Act, HandlerDone, ReceiveTimesOut, ExitNoticed,
         RunIdle, IdleHandlerDone, SignalExit, Leave, ReceiveFromNothing, Misuse, Loop, Places
    <3>2. op[g] = "none"
      <4>1. wpc[g] \notin InHandler \/ HandlerFree(g)
        BY <1>8, <2>3 DEF WorkerStep, StartHandlerDone, Receive, ReceiveNormal, Act, HandlerDone, ReceiveTimesOut, ExitNoticed,
           RunIdle, IdleHandlerDone, SignalExit, Leave, ReceiveFromNothing, Misuse, InHandler
      <4> QED
        BY <4>1 DEF ControlInv, HandlerFree
    <3> QED
      BY <2>1, <3>1, <3>2, ControlWorker
  <2> QED
    BY <2>2, <2>3
<1>9. ASSUME NEW e \in Exiters, ExitRequest(e) PROVE ControlInv'
  <2>1. /\ created /\ m_thread # 0 /\ op[m_thread] = "none" /\ UNCHANGED <<created, m_thread, gen, to, wpc>>
    BY <1>9 DEF ExitRequest, MayExit
  <2>2. \A g \in Gens : op[g] = "none"
    BY <2>1 DEF ControlInv
  <2>3. CASE e = Owner
    <3>1. pc' = [pc EXCEPT ![Owner] = "checked"] /\ op' = [op EXCEPT ![Owner] = "join"] /\ UNCHANGED selfExit
      BY <1>9, <2>3 DEF ExitRequest
    <3> QED
      BY <1>k, <1>t, <2>1, <2>2, <3>1 DEF ControlInv
  <2>4. CASE e # Owner
    <3>1. /\ op' = [op EXCEPT ![e] = "drain"] /\ selfExit' = [g \in Gens |-> selfExit[g] \/ g = m_selfExitPtr] /\ UNCHANGED pc
          /\ e = m_thread /\ op[Owner] \in {"none", "started"} /\ wpc[e] \in InHandler
      BY <1>9, <2>4 DEF ExitRequest, MayExit, HandlerFree, InHandler
    <3>2. \A g \in Gens : IF g > gen THEN wpc[g] = "none" /\ ~selfExit'[g] ELSE wpc[g] # "none"
      BY <1>k, <1>t, <3>1 DEF ControlInv
    <3>3. \A g \in Gens : op'[g] # "none" => g = m_thread /\ wpc[g] \in InHandler
      BY <1>k, <1>t, <2>2, <3>1
    <3>4. op'[Owner] \notin Exiting /\ (pc[Owner] = "idle") /\ to[Owner] = "NORMAL"
      BY <1>k, <1>t, <2>4, <3>1 DEF ControlInv, Exiting
    <3>5. (created <=> m_thread # 0) /\ m_thread \in {0, gen}
      BY DEF ControlInv
    <3> QED
      BY <2>1, <3>1, <3>2, <3>3, <3>4, <3>5 DEF ControlInv
  <2> QED
    BY <2>3, <2>4
<1>10. ASSUME NEW e \in Exiters, DrainAndDelete(e) PROVE ControlInv'
  <2>1. op[e] = "drain" /\ op' = [op EXCEPT ![e] = "destroy"] /\ UNCHANGED <<created, m_thread, gen, pc, to, wpc, selfExit>>
    BY <1>10 DEF DrainAndDelete, Empty
  <2>2. e = Owner => op[Owner] \in Exiting
    BY <2>1 DEF Exiting
  <2> QED
    BY <1>k, <1>t, <2>1, <2>2 DEF ControlInv, Exiting
<1>11. ASSUME NEW e \in Exiters, DestroyQueue(e) PROVE ControlInv'
  <2>1. op[e] = "destroy" /\ op' = [op EXCEPT ![e] = "none"] /\ created' = FALSE /\ m_thread' = 0
        /\ UNCHANGED <<gen, pc, to, wpc, selfExit>>
    BY <1>11 DEF DestroyQueue, Destroy
  <2>2. \A g \in Gens : op'[g] = "none"
    BY <1>k, <1>t, <2>1 DEF ControlInv, Exiting
  <2>3. op'[Owner] \notin Exiting
    BY <1>k, <1>t, <2>1 DEF ControlInv, Exiting
  <2>4. pc[Owner] = "idle"
    BY <1>k, <1>t, <2>1 DEF ControlInv, Exiting
  <2> QED
    BY <1>k, <1>t, <2>1, <2>2, <2>3, <2>4 DEF ControlInv
<1> QED
  BY <1>00, <1>1, <1>2, <1>3, <1>6, <1>7, <1>8, <1>9, <1>10, <1>11 DEF Next, ExitStep

\* The constructor starts with nobody anywhere.
LEMMA ControlInit == Init => ControlInv
BY TaskKinds DEF Init, QueueInit, ControlInv, Exiting, Owner

---------------------------------------------------------------------------
(* The doorbell.  Between the push and the ring a send is a ringer, between  *)
(* the token and the NORMAL lane a worker is a looker; the count stands for  *)
(* the rest.  It stays exact until somebody drains the lanes, and nobody     *)
(* adds to it before they have been deleted and created again.              *)

Count ==
  /\ Len(high) + Len(normal) = bell + Cardinality(Ringers) + Cardinality(Lookers)
  /\ Len(normal) >= Cardinality(Lookers)

BellInv ==
  /\ Len(high) <= m_queueSize /\ Len(normal) <= m_queueSize
  /\ ~created => high = <<>> /\ normal = <<>>
  /\ ~created /\ ~misused => Lookers = {}
  /\ created /\ ~misused /\ ~Draining => Count

\* The senders and the workers are finitely many.
LEMMA FiniteTasks ==
  /\ \A S : S \subseteq Tasks => IsFiniteSet(S) /\ Cardinality(S) \in Nat
  /\ \A S : S \subseteq Gens => IsFiniteSet(S) /\ Cardinality(S) \in Nat
<1>1. IsFiniteSet(Gens) /\ IsFiniteSet({Owner})
  <2>1. 1 \in Int /\ MaxStarts \in Int
    BY FreeRTOSThreadAssumption DEF FreeRTOSThreadAssumption
  <2>2. IsFiniteSet(Gens)
    BY <2>1, FS_Interval DEF Gens
  <2> QED
    BY <2>2, FS_Singleton
<1>2. IsFiniteSet(Tasks)
  BY <1>1, FreeRTOSThreadAssumption, FS_Union DEF FreeRTOSThreadAssumption, Tasks, Callers
<1> QED
  BY <1>1, <1>2, FS_Subset, FS_CardinalityType

\* One more, or one less, in a set of them.
LEMMA OneMore ==
  ASSUME NEW S, IsFiniteSet(S), NEW x
  PROVE  /\ x \notin S => Cardinality(S \cup {x}) = Cardinality(S) + 1
         /\ x \in S => Cardinality(S \ {x}) = Cardinality(S) - 1 /\ Cardinality(S) >= 1
<1>1. x \notin S => Cardinality(S \cup {x}) = Cardinality(S) + 1
  BY FS_AddElement
<1>2. x \in S => Cardinality(S \ {x}) = Cardinality(S) - 1
  BY FS_RemoveElement
<1>3. Cardinality(S) \in Nat /\ Cardinality(S \ {x}) \in Nat
  BY FS_RemoveElement, FS_CardinalityType
<1> QED
  BY <1>1, <1>2, <1>3

\* Nothing the doorbell's account is about changes.
LEMMA BellFrame ==
  ASSUME BellInv, UNCHANGED <<created, high, normal, bell>>, Ringers' = Ringers, Lookers' = Lookers,
         misused => misused', Draining => Draining'
  PROVE  BellInv'
BY DEF BellInv, Count

\* A worker goes where it does not look into the NORMAL lane.
LEMMA BellWorker ==
  ASSUME TypeInv, BellInv, NEW g \in Gens, NEW place, wpc' = [wpc EXCEPT ![g] = place],
         wpc[g] # "lookNormal", place # "lookNormal",
         UNCHANGED <<created, high, normal, bell, pc, op, misused>>
  PROVE  BellInv'
<1>1. Lookers' = Lookers /\ Ringers' = Ringers /\ Draining' = Draining
  BY DEF TypeInv, Lookers, Ringers, Draining
<1> QED
  BY <1>1, BellFrame

\* A call comes to a place where it has nothing to ring for.
LEMMA BellSend ==
  ASSUME TypeInv, BellInv, NEW c \in Tasks, NEW place, pc' = [pc EXCEPT ![c] = place],
         pc[c] # "ringing", place # "ringing",
         UNCHANGED <<created, high, normal, bell, wpc, op, misused>>
  PROVE  BellInv'
<1>1. Lookers' = Lookers /\ Ringers' = Ringers /\ Draining' = Draining
  BY DEF TypeInv, Lookers, Ringers, Draining
<1> QED
  BY <1>1, BellFrame

\* An exiter goes on, short of destroying the queue.
LEMMA BellExit ==
  ASSUME TypeInv, BellInv, NEW e \in Exiters, NEW place, op' = [op EXCEPT ![e] = place],
         op[e] # "destroy", UNCHANGED <<created, high, normal, bell, wpc, pc, misused>>
  PROVE  BellInv'
<1>1. Lookers' = Lookers /\ Ringers' = Ringers
  BY DEF Lookers, Ringers
<1>2. Draining => Draining'
  BY DEF TypeInv, Draining
<1> QED
  BY <1>1, <1>2, BellFrame

\* Every step keeps the doorbell's account.
LEMMA BellStep == TypeInv /\ ControlInv /\ BellInv /\ [Next]_vars => BellInv'
<1> SUFFICES ASSUME TypeInv, ControlInv, BellInv, [Next]_vars PROVE BellInv'
  OBVIOUS
<1> USE DEF Goto, WGoto, Return, flagVars, msgVars, callVars, workerVars, queueVars, configVars
<1>k. /\ Owner \in Tasks /\ Owner \notin Gens /\ Owner \in Exiters /\ Owner \notin Callers
      /\ Gens \subseteq Tasks /\ Gens \subseteq Exiters /\ Callers \subseteq Tasks
      /\ m_queueSize \in Nat \ {0}
  BY TaskKinds, QueueAssumption
<1>t. /\ pc \in [Tasks -> {"idle", "checked", "waiting", "ringing"}]
      /\ wpc \in [Gens -> Places]
      /\ op \in [Exiters -> {"none", "started", "join", "drain", "destroy"}]
      /\ high \in Seq(Nat) /\ normal \in Seq(Nat) /\ bell \in Nat
      /\ Len(high) \in Nat /\ Len(normal) \in Nat
  <2>1. high \in Seq(Nat \ {EXIT}) /\ normal \in Seq(Nat)
    BY DEF TypeInv
  <2> QED
    BY <2>1 DEF TypeInv
<1>f. /\ Ringers \subseteq Tasks /\ IsFiniteSet(Ringers) /\ Cardinality(Ringers) \in Nat
      /\ Lookers \subseteq Gens /\ IsFiniteSet(Lookers) /\ Cardinality(Lookers) \in Nat
  BY FiniteTasks DEF Ringers, Lookers
<1>0. ASSUME UNCHANGED <<created, high, normal, bell, pc, wpc, op, misused>> PROVE BellInv'
  BY <1>0, BellFrame DEF Ringers, Lookers, Draining
<1>00. CASE UNCHANGED vars
  BY <1>0, <1>00 DEF vars
<1>m. ASSUME Misuse PROVE BellInv'
  BY <1>m DEF Misuse, BellInv
<1>1. ASSUME Running, CreateThread PROVE BellInv'
  <2>1. /\ ~created /\ ~misused /\ high' = <<>> /\ normal' = <<>> /\ bell' = 0 /\ created' = TRUE
        /\ wpc' = [wpc EXCEPT ![gen + 1] = "starting"] /\ pc' = pc /\ \A c \in Tasks : pc[c] = "idle"
    BY <1>1 DEF CreateThread, Create, Running, ControlInv
  <2>2. Ringers' = {}
    BY <2>1 DEF Ringers
  <2>3. Lookers = {}
    BY <2>1 DEF BellInv
  <2>4. Lookers' = {}
    BY <1>t, <2>1, <2>3 DEF Lookers
  <2>5. Cardinality({}) = 0 /\ Len(<<>>) = 0
    BY FS_EmptySet
  <2>6. Count'
    BY <2>1, <2>2, <2>4, <2>5 DEF Count
  <2> QED
    BY <1>k, <2>1, <2>5, <2>6 DEF BellInv
<1>2. ASSUME CreateThreadReturns \/ Join PROVE BellInv'
  BY <1>2, <1>k, BellExit DEF CreateThreadReturns, Join
<1>3. ASSUME NEW c \in Callers, Dispatch(c) PROVE BellInv'
  BY <1>0, <1>3, <1>k, BellSend DEF Dispatch
<1>4. ASSUME NEW c \in Tasks, Push(c) PROVE BellInv'
  <2>1. /\ pc[c] # "ringing" /\ pc' = [pc EXCEPT ![c] = "ringing"]
        /\ UNCHANGED <<created, bell, wpc, op, misused>> /\ created
    BY <1>4 DEF Push, PushBack
  <2>2. /\ Len(high') <= m_queueSize /\ Len(normal') <= m_queueSize
        /\ Len(normal') >= Len(normal) /\ Len(high') + Len(normal') = Len(high) + Len(normal) + 1
    <3>1. to[c] \in Lanes /\ (c = Owner => to[c] = "NORMAL")
      BY DEF TypeInv, ControlInv
    <3>2. PICK id \in Nat : /\ to[c] = "HIGH" => high' = Append(high, id) /\ normal' = normal
                            /\ to[c] = "NORMAL" => normal' = Append(normal, id) /\ high' = high
      <4>1. EXIT \in Nat /\ NewId \in Nat
        BY DEF EXIT, NewId, TypeInv
      <4> QED
        BY <1>4, <3>1, <4>1 DEF Push, PushBack
    <3>3. Len(Append(high, id)) = Len(high) + 1 /\ Len(Append(normal, id)) = Len(normal) + 1
      BY <1>t
    <3>4. (to[c] = "HIGH" => Len(high) < m_queueSize) /\ (to[c] = "NORMAL" => Len(normal) < m_queueSize)
      BY <1>4 DEF Push, HasRoom
    <3>5. Len(high) <= m_queueSize /\ Len(normal) <= m_queueSize
      BY DEF BellInv
    <3> QED
      <4>1. to[c] = "HIGH" \/ to[c] = "NORMAL"
        BY <3>1 DEF Lanes
      <4>2. CASE to[c] = "HIGH"
        <5>1. Len(high') = Len(high) + 1 /\ Len(normal') = Len(normal) /\ Len(high) < m_queueSize
          BY <3>2, <3>3, <3>4, <4>2
        <5> QED
          BY ONLY <1>k, <1>t, <3>5, <5>1
      <4>3. CASE to[c] = "NORMAL"
        <5>1. Len(normal') = Len(normal) + 1 /\ Len(high') = Len(high) /\ Len(normal) < m_queueSize
          BY <3>2, <3>3, <3>4, <4>3
        <5> QED
          BY ONLY <1>k, <1>t, <3>5, <5>1
      <4> QED
        BY <4>1, <4>2, <4>3
  <2>3. Ringers' = Ringers \cup {c} /\ c \notin Ringers /\ Lookers' = Lookers /\ Draining' = Draining
    BY <1>t, <2>1 DEF Ringers, Lookers, Draining
  <2>4. Cardinality(Ringers') = Cardinality(Ringers) + 1
    BY <1>f, <2>3, OneMore
  <2>5. Count => Count'
    BY <1>t, <1>f, <2>1, <2>2, <2>3, <2>4 DEF Count
  <2> QED
    BY <2>1, <2>2, <2>3, <2>5 DEF BellInv
<1>5. ASSUME NEW c \in Tasks, RingBell(c) PROVE BellInv'
  <2>1. /\ pc[c] = "ringing" /\ pc' = [pc EXCEPT ![c] = "idle"] /\ created
        /\ bell' = (IF bell < 2 * m_queueSize THEN bell + 1 ELSE bell)
        /\ UNCHANGED <<created, high, normal, wpc, op, misused>>
    BY <1>5 DEF RingBell, Ring, MaxBell
  <2>2. Ringers' = Ringers \ {c} /\ c \in Ringers /\ Lookers' = Lookers /\ Draining' = Draining
    BY <1>t, <2>1 DEF Ringers, Lookers, Draining
  <2>3. Cardinality(Ringers') = Cardinality(Ringers) - 1 /\ Cardinality(Ringers) >= 1
    BY <1>f, <2>2, OneMore
  <2>4. Count => Count'
    <3>1. Len(high) <= m_queueSize /\ Len(normal) <= m_queueSize
      BY DEF BellInv
    <3> QED
      BY <1>k, <1>t, <1>f, <2>1, <2>2, <2>3, <3>1 DEF Count
  <2> QED
    BY <2>1, <2>2, <2>4 DEF BellInv
<1>6. ASSUME NEW c \in Tasks, DropFull(c) \/ FaultFull(c) \/ WaitNotFull(c) \/ TimeoutFull(c) PROVE BellInv'
  BY <1>0, <1>6, BellSend DEF DropFull, FaultFull, WaitNotFull, TimeoutFull
<1>7. ASSUME NEW g \in Gens, Receive(g) PROVE BellInv'
  <2>1. /\ wpc[g] = "loop" /\ created /\ bell > 0 /\ bell' = bell - 1
        /\ UNCHANGED <<created, normal, pc, op, misused>>
        /\ \/ high = <<>> /\ high' = high /\ wpc' = [wpc EXCEPT ![g] = "lookNormal"]
           \/ high # <<>> /\ high' = Tail(high) /\ wpc' = [wpc EXCEPT ![g] = "popped"]
    BY <1>7 DEF Receive, TakeBell
  <2>2. Ringers' = Ringers /\ Draining' = Draining
    BY <2>1 DEF Ringers, Draining
  <2>3. CASE high = <<>>
    <3>1. Lookers' = Lookers \cup {g} /\ g \notin Lookers
      BY <1>t, <2>1, <2>3 DEF Lookers
    <3>2. Cardinality(Lookers') = Cardinality(Lookers) + 1
      BY <1>f, <3>1, OneMore
    <3>3. Len(high) = 0 /\ high' = high /\ Len(high) <= m_queueSize /\ Len(normal) <= m_queueSize
      BY <2>1, <2>3 DEF BellInv
    <3>4. ASSUME Count PROVE Count'
      <4>1. /\ Len(high) + Len(normal) = bell + Cardinality(Ringers) + Cardinality(Lookers) /\ bell > 0
            /\ Len(high) \in Nat /\ Len(normal) \in Nat /\ bell \in Nat
            /\ Cardinality(Ringers) \in Nat /\ Cardinality(Lookers) \in Nat
        BY <1>t, <1>f, <2>1, <3>4 DEF Count
      <4>2. Len(high') = Len(high) /\ Len(normal') = Len(normal) /\ bell' = bell - 1 /\ Ringers' = Ringers
        BY <2>1, <2>2, <3>3
      <4>3. /\ Len(high') + Len(normal') = bell' + Cardinality(Ringers') + Cardinality(Lookers')
            /\ Len(normal') >= Cardinality(Lookers')
        BY ONLY <3>2, <3>3, <4>1, <4>2
      <4> QED
        BY <4>3 DEF Count
    <3> QED
      BY <2>1, <2>2, <3>3, <3>4 DEF BellInv
  <2>4. CASE high # <<>>
    <3>1. Lookers' = Lookers
      BY <1>t, <2>1, <2>4 DEF Lookers
    <3>2. high' = Tail(high) /\ Len(high') = Len(high) - 1 /\ Len(high) <= m_queueSize /\ Len(normal) <= m_queueSize
      BY <1>t, <2>1, <2>4 DEF BellInv
    <3>3. ASSUME Count PROVE Count'
      <4>1. /\ Len(high) + Len(normal) = bell + Cardinality(Ringers) + Cardinality(Lookers)
            /\ Len(normal) >= Cardinality(Lookers)
        BY <3>3 DEF Count
      <4>2. /\ Len(high') = Len(high) - 1 /\ bell' = bell - 1 /\ Len(normal') = Len(normal)
            /\ Cardinality(Ringers') = Cardinality(Ringers) /\ Cardinality(Lookers') = Cardinality(Lookers)
        BY <2>1, <2>2, <3>1, <3>2
      <4>0. Len(high) \in Nat /\ Len(normal) \in Nat /\ bell \in Nat
            /\ Cardinality(Ringers) \in Nat /\ Cardinality(Lookers) \in Nat
        BY <1>t, <1>f
      <4>3. /\ Len(high') + Len(normal') = bell' + Cardinality(Ringers') + Cardinality(Lookers')
            /\ Len(normal') >= Cardinality(Lookers')
        BY ONLY <4>0, <4>1, <4>2
      <4> QED
        BY <4>3 DEF Count
    <3>4. Len(high') <= m_queueSize
      BY <1>t, <1>k, <3>2
    <3> QED
      BY <2>1, <2>2, <3>2, <3>3, <3>4 DEF BellInv
  <2> QED
    BY <2>3, <2>4
<1>8. ASSUME NEW g \in Gens, ReceiveNormal(g), Running PROVE BellInv'
  <2>1. /\ wpc[g] = "lookNormal" /\ UNCHANGED <<created, high, bell, pc, op, misused>>
        /\ \/ normal = <<>> /\ normal' = normal /\ wpc' = [wpc EXCEPT ![g] = "timedOut"]
           \/ normal # <<>> /\ normal' = Tail(normal) /\ wpc' = [wpc EXCEPT ![g] = "popped"]
    BY <1>8 DEF ReceiveNormal, PopNormal
  <2>2. Ringers' = Ringers /\ Draining' = Draining
    BY <2>1 DEF Ringers, Draining
  <2>3. Lookers' = Lookers \ {g} /\ g \in Lookers
    BY <1>t, <2>1 DEF Lookers
  <2>4. Cardinality(Lookers') = Cardinality(Lookers) - 1 /\ Cardinality(Lookers) >= 1
    BY <1>f, <2>3, OneMore
  <2>5. created /\ ~misused /\ Len(high) <= m_queueSize /\ Len(normal) <= m_queueSize
    BY <1>8, <2>3 DEF BellInv, Running
  <2>6. CASE normal = <<>>
    <3>1. ~Count
      BY <1>t, <1>f, <2>4, <2>6 DEF Count
    <3>2. Draining
      BY <2>5, <3>1 DEF BellInv
    <3> QED
      BY <2>1, <2>2, <2>5, <2>6, <3>2 DEF BellInv
  <2>7. CASE normal # <<>>
    <3>1. Len(normal') = Len(normal) - 1
      BY <1>t, <2>1, <2>7
    <3>2. ASSUME Count PROVE Count'
      <4>1. /\ Len(high) + Len(normal) = bell + Cardinality(Ringers) + Cardinality(Lookers)
            /\ Len(normal) >= Cardinality(Lookers)
            /\ Len(high) \in Nat /\ Len(normal) \in Nat /\ bell \in Nat
            /\ Cardinality(Ringers) \in Nat /\ Cardinality(Lookers) \in Nat
        BY <1>t, <1>f, <3>2 DEF Count
      <4>2. Len(high') = Len(high) /\ bell' = bell /\ Ringers' = Ringers /\ Len(normal') = Len(normal) - 1
        BY <2>1, <2>2, <2>7, <3>1
      <4>3. /\ Len(high') + Len(normal') = bell' + Cardinality(Ringers') + Cardinality(Lookers')
            /\ Len(normal') >= Cardinality(Lookers')
        <5>1. Len(high') + Len(normal') = Len(high) + (Len(normal) - 1)
          BY ONLY <4>2
        <5>2. bell' + Cardinality(Ringers') + Cardinality(Lookers') = bell + Cardinality(Ringers) + (Cardinality(Lookers) - 1)
          BY ONLY <2>4, <4>2
        <5>3. /\ Len(high) + (Len(normal) - 1) = bell + Cardinality(Ringers) + (Cardinality(Lookers) - 1)
              /\ Len(normal) - 1 >= Cardinality(Lookers) - 1
          BY ONLY <4>1
        <5>4. Len(normal') = Len(normal) - 1 /\ Cardinality(Lookers') = Cardinality(Lookers) - 1
          BY ONLY <2>4, <4>2
        <5> QED
          BY ONLY <5>1, <5>2, <5>3, <5>4
      <4> QED
        BY <4>3 DEF Count
    <3>3. Len(normal') <= m_queueSize
      BY <1>t, <1>k, <2>5, <3>1
    <3> QED
      BY <2>1, <2>2, <2>5, <3>2, <3>3 DEF BellInv
  <2> QED
    BY <2>6, <2>7
<1>9. ASSUME NEW g \in Gens, WorkerStep(g), ~Receive(g), ~ReceiveNormal(g) PROVE BellInv'
  <2>1. CASE ReceiveFromNothing(g)
    BY <1>m, <2>1 DEF ReceiveFromNothing
  <2>2. CASE ~ReceiveFromNothing(g)
    <3>1. UNCHANGED <<created, high, normal, bell, pc, op, misused>>
      BY <1>9, <2>2 DEF WorkerStep, StartHandlerDone, Act, HandlerDone, ReceiveTimesOut, ExitNoticed,
         RunIdle, IdleHandlerDone, SignalExit, Leave
    <3>2. PICK place \in Places \ {"lookNormal"} : wpc' = [wpc EXCEPT ![g] = place] /\ wpc[g] # "lookNormal"
      BY <1>9, <2>2 DEF WorkerStep, StartHandlerDone, Act, HandlerDone, ReceiveTimesOut, ExitNoticed,
         RunIdle, IdleHandlerDone, SignalExit, Leave, Loop, Places
    <3> QED
      BY <3>1, <3>2, BellWorker
  <2> QED
    BY <2>1, <2>2
<1>10. ASSUME NEW e \in Exiters, ExitRequest(e) PROVE BellInv'
  <2>1. /\ UNCHANGED <<created, high, normal, bell, wpc, misused>>
        /\ pc' = pc \/ (pc[Owner] = "idle" /\ pc' = [pc EXCEPT ![Owner] = "checked"])
    <3>1. e = Owner => pc[Owner] = "idle"
      BY <1>10 DEF ExitRequest, MayExit, ControlInv
    <3> QED
      BY <1>10, <3>1 DEF ExitRequest
  <2>2. op[e] \in {"none", "started"} /\ \E place \in {"join", "drain"} : op' = [op EXCEPT ![e] = place]
    BY <1>10 DEF ExitRequest, MayExit, HandlerFree
  <2>3. Ringers' = Ringers /\ Lookers' = Lookers
    BY <1>k, <1>t, <2>1 DEF Ringers, Lookers
  <2>4. Draining => Draining'
    BY <1>t, <2>2 DEF Draining
  <2> QED
    BY <2>1, <2>3, <2>4, BellFrame
<1>11. ASSUME NEW e \in Exiters, DrainAndDelete(e) PROVE BellInv'
  <2>1. high' = <<>> /\ normal' = <<>> /\ op' = [op EXCEPT ![e] = "destroy"]
        /\ UNCHANGED <<created, wpc, misused>>
    BY <1>11 DEF DrainAndDelete, Empty
  <2>2. Draining' /\ Lookers' = Lookers
    BY <1>t, <2>1 DEF Draining, Lookers
  <2>3. Len(high') <= m_queueSize /\ Len(normal') <= m_queueSize
    BY <1>k, <2>1
  <2> QED
    BY <2>1, <2>2, <2>3 DEF BellInv
<1>12. ASSUME NEW e \in Exiters, DestroyQueue(e) PROVE BellInv'
  <2>1. high' = <<>> /\ normal' = <<>> /\ created' = FALSE /\ misused' = Blocked /\ wpc' = wpc
    BY <1>12 DEF DestroyQueue, Destroy
  <2>2. ~misused' => Lookers' = {}
    BY <2>1 DEF Blocked, Lookers
  <2>3. Len(high') <= m_queueSize /\ Len(normal') <= m_queueSize
    BY <1>k, <2>1
  <2> QED
    BY <2>1, <2>2, <2>3 DEF BellInv
<1> QED
  BY <1>00, <1>m, <1>1, <1>2, <1>3, <1>4, <1>5, <1>6, <1>7, <1>8, <1>9, <1>10, <1>11, <1>12
     DEF Next, SendStep, SendToNothing, ExitStep

\* The constructor has no queue, and nobody rings or looks.
LEMMA BellInit == Init => BellInv
BY QueueAssumption DEF Init, QueueInit, BellInv, Lookers

\* What the tasks and the doorbell keep to.
QueueInv == TypeInv /\ ControlInv /\ BellInv

\* They keep to it in every state.
LEMMA QueueInvHolds == Spec => []QueueInv
<1>1. Init => QueueInv
  BY TypeInit, ControlInit, BellInit DEF QueueInv
<1>2. QueueInv /\ [Next]_vars => QueueInv'
  BY TypeStep, ControlStep, BellStep DEF QueueInv
<1> QED
  BY <1>1, <1>2, PTL DEF Spec

(* The doorbell is exact, whoever starts and stops workers in whatever      *)
(* order: while nobody deletes the queue, its count and the sends that have *)
(* not rung yet account for every queued message, a give never finds it at  *)
(* its maximum, and a worker that has its token finds a message.            *)
THEOREM DoorbellIsExact == Spec => []DoorbellExact
<1>1. QueueInv => DoorbellExact
  <2> SUFFICES ASSUME TypeInv, BellInv, created, ~Draining, ~misused
               PROVE  /\ Len(high) + Len(normal) = bell + Cardinality(Ringers) + Cardinality(Lookers)
                      /\ Ringers # {} => bell < MaxBell
                      /\ Lookers # {} => normal # <<>>
    BY DEF QueueInv, DoorbellExact
  <2>1. /\ IsFiniteSet(Ringers) /\ Cardinality(Ringers) \in Nat
        /\ IsFiniteSet(Lookers) /\ Cardinality(Lookers) \in Nat
    BY FiniteTasks DEF Ringers, Lookers
  <2>2. (Ringers # {} => Cardinality(Ringers) >= 1) /\ (Lookers # {} => Cardinality(Lookers) >= 1)
    BY <2>1, OneMore
  <2>3. Count /\ Len(high) <= m_queueSize /\ Len(normal) <= m_queueSize
    BY DEF BellInv
  <2>4. bell \in Nat /\ Len(high) \in Nat /\ Len(normal) \in Nat /\ m_queueSize \in Nat
    BY QueueAssumption DEF TypeInv
  <2>5. normal = <<>> => Len(normal) = 0
    OBVIOUS
  <2> QED
    BY <2>1, <2>2, <2>3, <2>4, <2>5 DEF Count, MaxBell
<1> QED
  BY <1>1, QueueInvHolds, PTL

---------------------------------------------------------------------------
(* A lane q of priority l and the messages M.                               *)

LaneExact(q, l, M) ==
  /\ \A i \in DOMAIN q : q[i] # EXIT => q[i] \in DOMAIN M /\ M[q[i]].lane = l /\ M[q[i]].fate = "queued"
  /\ \A m \in DOMAIN M : M[m].lane = l /\ M[m].fate = "queued" => \E i \in DOMAIN q : q[i] = m
  /\ \A i, j \in DOMAIN q : i < j /\ q[j] # EXIT => q[i] < q[j]

\* N is M with the fates of the messages in ids turned into f.
Turned(M, N, ids, f) ==
  /\ DOMAIN N = DOMAIN M
  /\ \A m \in DOMAIN M : N[m].lane = M[m].lane /\ N[m].fate = IF m \in ids THEN f ELSE M[m].fate

\* Mark turns fates, and nothing else.
LEMMA MarkTurns ==
  ASSUME msgs \in Seq(Message), NEW ids, NEW f
  PROVE  Turned(msgs, Mark(ids, f), ids, f)
<1>1. \A m \in DOMAIN msgs : msgs[m] \in Message
  OBVIOUS
<1> QED
  BY <1>1 DEF Turned, Mark, Message

\* A message that is accepted goes behind the others of its lane.
LEMMA LaneAppend ==
  ASSUME NEW q \in Seq(Nat), NEW l, NEW M \in Seq(Message), LaneExact(q, l, M)
  PROVE  LaneExact(Append(q, Len(M) + 1), l, Append(M, [lane |-> l, fate |-> "queued"]))
<1> DEFINE x == Len(M) + 1
           N == Append(M, [lane |-> l, fate |-> "queued"])
           p == Append(q, x)
<1>1. /\ Len(M) \in Nat /\ DOMAIN M = 1 .. Len(M) /\ DOMAIN N = 1 .. x /\ x \notin DOMAIN M /\ x # EXIT
      /\ N[x] = [lane |-> l, fate |-> "queued"] /\ \A m \in DOMAIN M : N[m] = M[m]
  BY DEF EXIT
<1>2. /\ Len(q) \in Nat /\ DOMAIN q = 1 .. Len(q) /\ DOMAIN p = 1 .. Len(q) + 1
      /\ p[Len(q) + 1] = x /\ \A i \in DOMAIN q : p[i] = q[i] /\ q[i] \in Nat
  OBVIOUS
<1>3. \A i \in DOMAIN q : q[i] \in 0 .. Len(M) /\ (q[i] # EXIT => q[i] \in DOMAIN M)
  BY <1>1, <1>2 DEF LaneExact, EXIT
<1> HIDE DEF x, N, p
<1>4. \A i \in DOMAIN p : i = Len(q) + 1 \/ i \in DOMAIN q
  BY <1>2
<1>5. \A i \in DOMAIN p : p[i] # EXIT => p[i] \in DOMAIN N /\ N[p[i]].lane = l /\ N[p[i]].fate = "queued"
  <2>1. ASSUME NEW i \in DOMAIN q, p[i] # EXIT PROVE p[i] \in DOMAIN N /\ N[p[i]].lane = l /\ N[p[i]].fate = "queued"
    <3>1. p[i] \in DOMAIN M /\ p[i] = q[i]
      BY <1>2, <1>3, <2>1
    <3> QED
      BY <1>1, <2>1, <3>1 DEF LaneExact, x
  <2>2. x \in DOMAIN N /\ N[x].lane = l /\ N[x].fate = "queued"
    BY <1>1 DEF x
  <2> QED
    BY <1>2, <1>4, <2>1, <2>2
<1>6. ASSUME NEW m \in DOMAIN N, N[m].lane = l, N[m].fate = "queued" PROVE \E i \in DOMAIN p : p[i] = m
  <2>1. CASE m = x
    <3>1. Len(q) + 1 \in DOMAIN p /\ p[Len(q) + 1] = m
      BY <1>2, <2>1
    <3> QED
      BY <3>1
  <2>2. CASE m # x
    <3>1. m \in DOMAIN M
      BY <1>1, <2>2 DEF x
    <3>2. PICK i \in DOMAIN q : q[i] = m
      BY <1>1, <1>6, <3>1 DEF LaneExact
    <3>3. i \in DOMAIN p /\ p[i] = m
      BY <1>2, <3>2
    <3> QED
      BY <3>3
  <2> QED
    BY <2>1, <2>2
<1>7. ASSUME NEW i \in DOMAIN p, NEW j \in DOMAIN p, i < j, p[j] # EXIT PROVE p[i] < p[j]
  <2>1. i \in DOMAIN q
    BY <1>2, <1>7
  <2>2. CASE j \in DOMAIN q
    BY <1>2, <1>7, <2>1, <2>2 DEF LaneExact
  <2>3. CASE j = Len(q) + 1
    <3>1. p[i] \in 0 .. Len(M) /\ p[j] = Len(M) + 1
      BY <1>2, <1>3, <2>1, <2>3 DEF x
    <3> QED
      BY <1>1, <3>1
  <2> QED
    BY <1>4, <2>2, <2>3
<1>8. LaneExact(p, l, N)
  BY <1>5, <1>6, <1>7 DEF LaneExact
<1> QED
  BY <1>8 DEF p, N, x

\* A message that is accepted for the other lane changes nothing in this one.
LEMMA LaneOther ==
  ASSUME NEW q \in Seq(Nat), NEW l, NEW M \in Seq(Message), LaneExact(q, l, M), NEW k, k # l
  PROVE  LaneExact(q, l, Append(M, [lane |-> k, fate |-> "queued"]))
<1> DEFINE N == Append(M, [lane |-> k, fate |-> "queued"])
<1>1. /\ Len(M) \in Nat /\ DOMAIN M = 1 .. Len(M) /\ DOMAIN N = 1 .. Len(M) + 1
      /\ N[Len(M) + 1].lane = k /\ \A m \in DOMAIN M : N[m] = M[m]
  OBVIOUS
<1>2. \A m \in DOMAIN N : m \in DOMAIN M \/ m = Len(M) + 1
  BY <1>1
<1>3. \A m \in DOMAIN M : m \in DOMAIN N
  BY <1>1
<1> HIDE DEF N
<1>4. LaneExact(q, l, N)
  BY <1>1, <1>2, <1>3 DEF LaneExact
<1> QED
  BY <1>4 DEF N

\* Receive takes the head: the oldest message of the lane, or the exit message.
LEMMA LaneTail ==
  ASSUME NEW q \in Seq(Nat), q # <<>>, NEW l, NEW M, NEW N, LaneExact(q, l, M),
         Turned(M, N, {Head(q)}, "taken")
  PROVE  LaneExact(Tail(q), l, N)
<1> DEFINE p == Tail(q)
<1>1. /\ p \in Seq(Nat) /\ Len(p) = Len(q) - 1 /\ \A i \in 1 .. Len(p) : p[i] = q[i + 1]
  BY HeadTailProperties
<1>2. /\ Head(q) = q[1] /\ Len(q) \in Nat /\ Len(q) > 0 /\ DOMAIN q = 1 .. Len(q) /\ DOMAIN p = 1 .. Len(p)
      /\ \A i \in DOMAIN q : q[i] \in Nat
  BY <1>1
<1> HIDE DEF p
<1>3. ASSUME NEW i \in DOMAIN p PROVE i + 1 \in DOMAIN q /\ 1 < i + 1 /\ p[i] = q[i + 1]
  <2>1. i \in 1 .. Len(p) /\ Len(p) = Len(q) - 1 /\ Len(q) \in Nat
    BY <1>1, <1>2
  <2>2. i + 1 \in 1 .. Len(q) /\ 1 < i + 1
    BY ONLY <2>1
  <2> QED
    BY <1>1, <1>2, <2>1, <2>2
<1>4. ASSUME NEW i \in DOMAIN p, p[i] # EXIT
      PROVE  p[i] \in DOMAIN N /\ N[p[i]].lane = l /\ N[p[i]].fate = "queued"
  <2>1. q[1] < p[i]
    <3>1. 1 \in DOMAIN q /\ i + 1 \in DOMAIN q /\ 1 < i + 1 /\ q[i + 1] = p[i] /\ q[i + 1] # EXIT
      BY <1>2, <1>3, <1>4
    <3>2. q[1] < q[i + 1]
      BY <3>1 DEF LaneExact
    <3> QED
      BY <3>1, <3>2
  <2>2. p[i] # Head(q)
    BY <1>2, <1>3, <2>1
  <2> QED
    BY <1>3, <1>4, <2>2 DEF LaneExact, Turned
<1>5. ASSUME NEW m \in DOMAIN N, N[m].lane = l, N[m].fate = "queued" PROVE \E i \in DOMAIN p : p[i] = m
  <2>1. m \in DOMAIN M /\ M[m].lane = l /\ M[m].fate = "queued" /\ m # Head(q)
    BY <1>5 DEF Turned
  <2>2. PICK j \in DOMAIN q : q[j] = m
    BY <2>1 DEF LaneExact
  <2>3. j - 1 \in DOMAIN p /\ p[j - 1] = q[j]
    <3>1. j # 1
      BY <1>2, <2>1, <2>2
    <3>2. j \in 1 .. Len(q) /\ Len(p) = Len(q) - 1 /\ Len(q) \in Nat
      BY <1>1, <1>2
    <3>3. j - 1 \in 1 .. Len(p) /\ (j - 1) + 1 = j
      BY ONLY <3>1, <3>2
    <3> QED
      BY <1>1, <1>2, <3>3
  <2> QED
    BY <2>2, <2>3
<1>6. ASSUME NEW i \in DOMAIN p, NEW j \in DOMAIN p, i < j, p[j] # EXIT PROVE p[i] < p[j]
  <2>1. i + 1 < j + 1
    BY <1>2, <1>6
  <2> QED
    BY <1>3, <1>6, <2>1 DEF LaneExact
<1>7. LaneExact(p, l, N)
  BY <1>4, <1>5, <1>6 DEF LaneExact
<1> QED
  BY <1>7 DEF p

\* Fates that are turned elsewhere do not concern the lane.
LEMMA LaneStays ==
  ASSUME NEW q \in Seq(Nat), NEW l, NEW M, NEW N, LaneExact(q, l, M),
         NEW ids, NEW f, f # "queued", Turned(M, N, ids, f),
         \A m \in DOMAIN M : m \in ids => M[m].fate # "queued" \/ M[m].lane # l
  PROVE  LaneExact(q, l, N)
BY DEF LaneExact, Turned

\* An empty lane, when nothing of l is queued.
LEMMA LaneCleared ==
  ASSUME NEW l, NEW N, \A m \in DOMAIN N : ~(N[m].lane = l /\ N[m].fate = "queued")
  PROVE  LaneExact(<<>>, l, N)
BY DEF LaneExact

\* The exit message goes behind everything.
LEMMA LaneExit ==
  ASSUME NEW q \in Seq(Nat), NEW l, NEW M, LaneExact(q, l, M)
  PROVE  LaneExact(Append(q, EXIT), l, M)
<1> DEFINE p == Append(q, EXIT)
<1>1. /\ Len(q) \in Nat /\ DOMAIN q = 1 .. Len(q) /\ DOMAIN p = 1 .. Len(q) + 1
      /\ p[Len(q) + 1] = EXIT /\ \A i \in DOMAIN q : p[i] = q[i]
  BY DEF EXIT
<1>2. \A i \in DOMAIN p : p[i] # EXIT => i \in DOMAIN q
  BY <1>1
<1>3. \A i \in DOMAIN q : i \in DOMAIN p
  BY <1>1
<1>4. \A i, j \in DOMAIN p : i < j /\ p[j] # EXIT => i \in DOMAIN q /\ j \in DOMAIN q
  BY <1>1
<1> HIDE DEF p
<1>5. LaneExact(p, l, M)
  BY <1>1, <1>2, <1>3, <1>4 DEF LaneExact
<1> QED
  BY <1>5 DEF p

---------------------------------------------------------------------------
(* The messages: queued ones are in their lane, one that was taken or runs is *)
(* the message of one worker, which is on its way to it or in its handler.  *)

LanesExact == LaneExact(high, "HIGH", msgs) /\ LaneExact(normal, "NORMAL", msgs)

HeldExact ==
  /\ \A g \in Gens : cur[g] # EXIT =>
       /\ cur[g] \in DOMAIN msgs
       /\ \/ wpc[g] = "popped" /\ msgs[cur[g]].fate = "taken"
          \/ wpc[g] = "handling" /\ msgs[cur[g]].fate = "running"
  /\ \A g \in Gens : wpc[g] = "handling" => cur[g] # EXIT
  /\ \A g, h \in Gens : cur[g] = cur[h] /\ cur[g] # EXIT => g = h
  /\ \A m \in DOMAIN msgs : msgs[m].fate = "taken" => \E g \in Gens : cur[g] = m

\* What TypeInv says of lanes and messages.
LEMMA LaneTypes ==
  ASSUME TypeInv
  PROVE  /\ high \in Seq(Nat \ {EXIT}) /\ high \in Seq(Nat) /\ normal \in Seq(Nat) /\ msgs \in Seq(Message)
         /\ DOMAIN msgs = 1 .. Len(msgs) /\ Len(msgs) \in Nat /\ NewId = Len(msgs) + 1
         /\ \A m \in DOMAIN msgs : msgs[m] \in Message /\ m # EXIT
         /\ \A i \in DOMAIN high : high[i] # EXIT
         /\ cur \in [Gens -> Nat] /\ wpc \in [Gens -> Places]
<1>1. high \in Seq(Nat \ {EXIT}) /\ normal \in Seq(Nat) /\ msgs \in Seq(Message)
      /\ cur \in [Gens -> Nat] /\ wpc \in [Gens -> Places]
  BY DEF TypeInv
<1>2. high \in Seq(Nat)
  BY <1>1 DEF EXIT
<1>3. \A i \in DOMAIN high : high[i] # EXIT
  BY <1>1
<1> QED
  BY <1>1, <1>2, <1>3 DEF NewId, EXIT

\* The head of a lane is the exit message, or queued.
LEMMA HeadQueued ==
  ASSUME NEW q \in Seq(Nat), q # <<>>, NEW l, NEW M, LaneExact(q, l, M)
  PROVE  Head(q) \in Nat /\ (Head(q) # EXIT => Head(q) \in DOMAIN M /\ M[Head(q)].lane = l /\ M[Head(q)].fate = "queued")
<1>1. Head(q) = q[1] /\ 1 \in DOMAIN q /\ q[1] \in Nat
  OBVIOUS
<1> QED
  BY <1>1 DEF LaneExact

\* What the draining and the deletion of the lanes turn are the queued messages.
LEMMA LanedAreQueued ==
  ASSUME TypeInv, LanesExact
  PROVE  LanedIds \ {EXIT} = {m \in DOMAIN msgs : msgs[m].fate = "queued"}
<1>1. \A m \in DOMAIN msgs : m # EXIT /\ msgs[m].lane \in {"HIGH", "NORMAL"}
  BY LaneTypes DEF Message, Lanes
<1>2. \A m \in DOMAIN msgs : msgs[m].fate = "queued" => m \in LanedIds
  BY <1>1 DEF LanesExact, LaneExact, LanedIds
<1>3. \A m \in LanedIds : m # EXIT => m \in DOMAIN msgs /\ msgs[m].fate = "queued"
  BY DEF LanesExact, LaneExact, LanedIds
<1> QED
  BY <1>1, <1>2, <1>3

\* Nothing is known of a worker without a message but that it is in no handler.
LEMMA HeldWorker ==
  ASSUME TypeInv, HeldExact, NEW g \in Gens, NEW place, wpc' = [wpc EXCEPT ![g] = place],
         cur[g] = EXIT, place # "handling", UNCHANGED <<msgs, cur>>
  PROVE  HeldExact'
BY LaneTypes DEF HeldExact

\* A worker without a message takes the exit message or a queued one.
LEMMA HeldTake ==
  ASSUME TypeInv, HeldExact, NEW g \in Gens, cur[g] = EXIT, NEW m \in Nat,
         m # EXIT => m \in DOMAIN msgs /\ msgs[m].fate = "queued",
         Turned(msgs, msgs', {m}, "taken"),
         wpc' = [wpc EXCEPT ![g] = "popped"], cur' = [cur EXCEPT ![g] = m]
  PROVE  HeldExact'
<1>1. /\ \A h \in Gens : h # g => cur'[h] = cur[h] /\ wpc'[h] = wpc[h]
      /\ cur'[g] = m /\ wpc'[g] = "popped" /\ wpc[g] # "handling"
  BY LaneTypes DEF HeldExact
<1>2. \A h \in Gens : cur[h] # EXIT => cur[h] # m
  BY DEF HeldExact
<1>3. /\ DOMAIN msgs' = DOMAIN msgs /\ \A i \in DOMAIN msgs : i # m => msgs'[i].fate = msgs[i].fate
      /\ m # EXIT => m \in DOMAIN msgs /\ msgs'[m].fate = "taken"
  BY DEF Turned
<1>4. ASSUME NEW h \in Gens, cur'[h] # EXIT
      PROVE  /\ cur'[h] \in DOMAIN msgs'
             /\ \/ wpc'[h] = "popped" /\ msgs'[cur'[h]].fate = "taken"
                \/ wpc'[h] = "handling" /\ msgs'[cur'[h]].fate = "running"
  BY <1>1, <1>2, <1>3, <1>4 DEF HeldExact
<1>5. \A h \in Gens : wpc'[h] = "handling" => cur'[h] # EXIT
  BY <1>1 DEF HeldExact
<1>6. \A h, k \in Gens : cur'[h] = cur'[k] /\ cur'[h] # EXIT => h = k
  BY <1>1, <1>2 DEF HeldExact
<1>7. \A i \in DOMAIN msgs' : msgs'[i].fate = "taken" => \E h \in Gens : cur'[h] = i
  <2> SUFFICES ASSUME NEW i \in DOMAIN msgs, msgs'[i].fate = "taken" PROVE \E h \in Gens : cur'[h] = i
    BY <1>3
  <2>1. CASE i = m
    BY <1>1, <2>1
  <2>2. CASE i # m
    <3>1. PICK h \in Gens : cur[h] = i
      BY <1>3, <2>2 DEF HeldExact
    <3>2. h # g
      BY <3>1, LaneTypes
    <3> QED
      BY <1>1, <3>1, <3>2
  <2> QED
    BY <2>1, <2>2
<1> QED
  BY <1>4, <1>5, <1>6, <1>7 DEF HeldExact

\* A worker with a message is done with it, or starts it.
LEMMA HeldMove ==
  ASSUME TypeInv, HeldExact, NEW g \in Gens, cur[g] # EXIT, NEW f, NEW place,
         Turned(msgs, msgs', {cur[g]}, f), wpc' = [wpc EXCEPT ![g] = place],
         \/ f = "running" /\ place = "handling" /\ cur' = cur
         \/ f \in {"invoked", "canceled"} /\ place # "handling" /\ cur' = [cur EXCEPT ![g] = EXIT]
  PROVE  HeldExact'
<1>1. /\ \A h \in Gens : h # g => cur'[h] = cur[h] /\ wpc'[h] = wpc[h]
      /\ wpc'[g] = place /\ (cur'[g] = cur[g] \/ cur'[g] = EXIT)
  BY LaneTypes
<1>2. cur[g] \in DOMAIN msgs /\ \A h \in Gens : h # g => cur[h] # cur[g]
  BY DEF HeldExact
<1>3. \A h \in Gens : h # g => (cur[h] # EXIT => msgs'[cur[h]].fate = msgs[cur[h]].fate)
  BY <1>2 DEF HeldExact, Turned
<1>4. \A m \in DOMAIN msgs : msgs'[m].fate = "taken" => m # cur[g] /\ msgs[m].fate = "taken"
  BY DEF Turned
<1>5. CASE f = "running" /\ place = "handling" /\ cur' = cur
  BY <1>1, <1>2, <1>3, <1>4, <1>5 DEF HeldExact, Turned
<1>6. CASE f \in {"invoked", "canceled"} /\ place # "handling" /\ cur' = [cur EXCEPT ![g] = EXIT]
  <2>1. cur'[g] = EXIT
    BY <1>6, LaneTypes
  <2> QED
    BY <1>1, <1>2, <1>3, <1>4, <1>6, <2>1 DEF HeldExact, Turned
<1> QED
  BY <1>5, <1>6

\* Queued messages that are turned into something final are nobody's.
LEMMA HeldCancel ==
  ASSUME HeldExact, NEW ids, NEW f \in {"canceled", "lost"}, Turned(msgs, msgs', ids, f),
         \A m \in ids : m \in DOMAIN msgs => msgs[m].fate = "queued", UNCHANGED <<cur, wpc>>
  PROVE  HeldExact'
BY DEF HeldExact, Turned

\* A message that is accepted is nobody's.
LEMMA HeldAppend ==
  ASSUME TypeInv, HeldExact, NEW l, msgs' = Append(msgs, [lane |-> l, fate |-> "queued"]), UNCHANGED <<cur, wpc>>
  PROVE  HeldExact'
<1> DEFINE N == Append(msgs, [lane |-> l, fate |-> "queued"])
<1>1. /\ DOMAIN N = 1 .. Len(msgs) + 1 /\ N[Len(msgs) + 1].fate = "queued"
      /\ \A m \in DOMAIN msgs : m \in DOMAIN N /\ N[m] = msgs[m]
  BY LaneTypes
<1>2. \A m \in DOMAIN N : m \in DOMAIN msgs \/ m = Len(msgs) + 1
  BY <1>1, LaneTypes
<1> HIDE DEF N
<1>3. msgs' = N
  BY DEF N
<1> QED
  BY <1>1, <1>2, <1>3 DEF HeldExact

\* What each step that moves a message does to the messages and to the worker.
Unmoved == UNCHANGED <<high, normal, msgs, cur>>

MessageInv == QueueInv /\ LanesExact /\ HeldExact

\* A push: the exit message, or one more message, at the end of its lane.
LEMMA PushMoves ==
  ASSUME MessageInv, NEW c \in Tasks, Push(c)
  PROVE  /\ created /\ pc[c] # "idle" /\ UNCHANGED <<flagVars, promised, workerVars, op, created, misused>>
         /\ \/ c = Owner /\ normal' = Append(normal, EXIT) /\ UNCHANGED <<high, msgs>>
            \/ \E l \in Lanes : /\ c # Owner
                                /\ msgs' = Append(msgs, [lane |-> l, fate |-> "queued"])
                                /\ l = "HIGH" => high' = Append(high, NewId) /\ normal' = normal
                                /\ l # "HIGH" => normal' = Append(normal, NewId) /\ high' = high
<1>1. to[c] \in Lanes /\ (c = Owner => to[c] = "NORMAL")
  BY DEF MessageInv, QueueInv, TypeInv, ControlInv
<1>2. created /\ pc[c] # "idle" /\ UNCHANGED <<flagVars, promised, workerVars, op, created, misused>>
  BY DEF Push, PushBack
<1>3. CASE c = Owner
  <2>1. "NORMAL" # "HIGH" /\ normal' = Append(normal, EXIT) /\ UNCHANGED <<high, msgs>>
    BY <1>3 DEF Push, PushBack
  <2> QED
    BY <1>2, <1>3, <2>1
<1>4. CASE c # Owner
  <2>1. /\ msgs' = Append(msgs, [lane |-> to[c], fate |-> "queued"])
        /\ to[c] = "HIGH" => high' = Append(high, NewId) /\ normal' = normal
        /\ to[c] # "HIGH" => normal' = Append(normal, NewId) /\ high' = high
    BY <1>4 DEF Push, PushBack
  <2> QED
    BY <1>1, <1>2, <1>4, <2>1
<1> QED
  BY <1>3, <1>4

\* A worker that waits for the doorbell, or has nothing, has no message.
LEMMA NoMessage ==
  ASSUME HeldExact, NEW g \in Gens, wpc[g] \notin {"popped", "handling"}
  PROVE  cur[g] = EXIT
BY DEF HeldExact

\* Receive takes the head of the HIGH lane, or looks into the NORMAL one.
LEMMA ReceiveMoves ==
  ASSUME MessageInv, NEW g \in Gens, Receive(g)
  PROVE  /\ wpc[g] = "loop" /\ created /\ bell > 0 /\ cur[g] = EXIT /\ normal' = normal
         /\ UNCHANGED <<flagVars, promised, callVars, selfExit, op, created, misused>>
         /\ \/ high = <<>> /\ Unmoved /\ wpc' = [wpc EXCEPT ![g] = "lookNormal"]
            \/ \E m \in DOMAIN msgs :
                 /\ high # <<>> /\ m = Head(high) /\ high' = Tail(high)
                 /\ msgs[m].lane = "HIGH" /\ msgs[m].fate = "queued" /\ m # EXIT
                 /\ Turned(msgs, msgs', {m}, "taken")
                 /\ cur' = [cur EXCEPT ![g] = m] /\ wpc' = [wpc EXCEPT ![g] = "popped"]
<1>t. TypeInv /\ high \in Seq(Nat) /\ \A i \in DOMAIN high : high[i] # EXIT
  BY LaneTypes DEF MessageInv, QueueInv
<1>1. /\ wpc[g] = "loop" /\ created /\ bell > 0 /\ normal' = normal
      /\ UNCHANGED <<flagVars, promised, callVars, selfExit, op, created, misused>>
  BY DEF Receive, TakeBell
<1>2. cur[g] = EXIT
  BY <1>1, NoMessage DEF MessageInv
<1>3. CASE high = <<>>
  <2>1. Unmoved /\ wpc' = [wpc EXCEPT ![g] = "lookNormal"]
    BY <1>3 DEF Receive, TakeBell, Unmoved, WGoto
  <2> QED
    BY <1>1, <1>2, <1>3, <2>1
<1>4. CASE high # <<>>
  <2>1. /\ high' = Tail(high) /\ msgs' = Mark({Head(high)}, "taken")
        /\ cur' = [cur EXCEPT ![g] = Head(high)] /\ wpc' = [wpc EXCEPT ![g] = "popped"]
    BY <1>4 DEF Receive, TakeBell, WGoto
  <2>2. Turned(msgs, msgs', {Head(high)}, "taken")
    BY <1>t, <2>1, MarkTurns, LaneTypes
  <2>3. Head(high) = high[1] /\ 1 \in DOMAIN high
    BY <1>t, <1>4
  <2>4. Head(high) # EXIT
    BY <1>t, <2>3
  <2>5. Head(high) \in DOMAIN msgs /\ msgs[Head(high)].lane = "HIGH" /\ msgs[Head(high)].fate = "queued"
    BY <1>t, <1>4, <2>4, HeadQueued DEF MessageInv, LanesExact
  <2> QED
    BY <1>1, <1>2, <1>4, <2>1, <2>2, <2>4, <2>5
<1> QED
  BY <1>3, <1>4

\* ReceiveNormal takes the head of the NORMAL lane, or nothing.
LEMMA ReceiveNormalMoves ==
  ASSUME MessageInv, NEW g \in Gens, ReceiveNormal(g)
  PROVE  /\ wpc[g] = "lookNormal" /\ cur[g] = EXIT /\ high' = high
         /\ UNCHANGED <<flagVars, promised, callVars, selfExit, op, created, misused>>
         /\ \/ normal = <<>> /\ Unmoved /\ wpc' = [wpc EXCEPT ![g] = "timedOut"]
            \/ \E m \in Nat :
                 /\ normal # <<>> /\ m = Head(normal) /\ normal' = Tail(normal)
                 /\ m # EXIT => m \in DOMAIN msgs /\ msgs[m].lane = "NORMAL" /\ msgs[m].fate = "queued"
                 /\ Turned(msgs, msgs', {m}, "taken")
                 /\ cur' = [cur EXCEPT ![g] = m] /\ wpc' = [wpc EXCEPT ![g] = "popped"]
<1>t. TypeInv /\ normal \in Seq(Nat)
  BY LaneTypes DEF MessageInv, QueueInv
<1>1. /\ wpc[g] = "lookNormal" /\ high' = high
      /\ UNCHANGED <<flagVars, promised, callVars, selfExit, op, created, misused>>
  BY DEF ReceiveNormal, PopNormal
<1>2. cur[g] = EXIT
  BY <1>1, NoMessage DEF MessageInv
<1>3. CASE normal = <<>>
  <2>1. Unmoved /\ wpc' = [wpc EXCEPT ![g] = "timedOut"]
    BY <1>3 DEF ReceiveNormal, PopNormal, Unmoved, WGoto
  <2> QED
    BY <1>1, <1>2, <1>3, <2>1
<1>4. CASE normal # <<>>
  <2>1. /\ normal' = Tail(normal) /\ msgs' = Mark({Head(normal)}, "taken")
        /\ cur' = [cur EXCEPT ![g] = Head(normal)] /\ wpc' = [wpc EXCEPT ![g] = "popped"]
    BY <1>4 DEF ReceiveNormal, PopNormal, WGoto
  <2>2. Turned(msgs, msgs', {Head(normal)}, "taken")
    BY <1>t, <2>1, MarkTurns, LaneTypes
  <2>3. /\ Head(normal) \in Nat
        /\ Head(normal) # EXIT =>
             Head(normal) \in DOMAIN msgs /\ msgs[Head(normal)].lane = "NORMAL" /\ msgs[Head(normal)].fate = "queued"
    BY <1>t, <1>4, HeadQueued DEF MessageInv, LanesExact
  <2> QED
    BY <1>1, <1>2, <1>4, <2>1, <2>2, <2>3
<1> QED
  BY <1>3, <1>4

\* Act: the exit message, a message that is discarded, or one that is invoked.
LEMMA ActMoves ==
  ASSUME MessageInv, NEW g \in Gens, Act(g)
  PROVE  /\ wpc[g] = "popped" /\ UNCHANGED <<high, normal>>
         /\ UNCHANGED <<flagVars, promised, callVars, selfExit, op, created, misused>>
         /\ \/ cur[g] = EXIT /\ Unmoved /\ wpc' = [wpc EXCEPT ![g] = "exiting"]
            \/ /\ cur[g] # EXIT /\ m_discard /\ Turned(msgs, msgs', {cur[g]}, "canceled")
               /\ cur' = [cur EXCEPT ![g] = EXIT] /\ wpc' = [wpc EXCEPT ![g] = "loop"]
            \/ /\ cur[g] # EXIT /\ ~m_discard /\ Turned(msgs, msgs', {cur[g]}, "running")
               /\ cur' = cur /\ wpc' = [wpc EXCEPT ![g] = "handling"]
<1>1. /\ Turned(msgs, Mark({cur[g]}, "canceled"), {cur[g]}, "canceled")
      /\ Turned(msgs, Mark({cur[g]}, "running"), {cur[g]}, "running")
  BY MarkTurns, LaneTypes DEF MessageInv, QueueInv
<1> QED
  BY <1>1 DEF Act, WGoto, Unmoved, queueVars

\* A handler returns.
LEMMA DoneMoves ==
  ASSUME MessageInv, NEW g \in Gens, HandlerDone(g)
  PROVE  /\ wpc[g] = "handling" /\ op[g] = "none" /\ cur[g] # EXIT /\ UNCHANGED <<high, normal>>
         /\ UNCHANGED <<m_exit, m_discard, m_thread, gen, m_exitSem, promised, callVars, selfExit, op, created, misused>>
         /\ Turned(msgs, msgs', {cur[g]}, "invoked") /\ cur' = [cur EXCEPT ![g] = EXIT]
         /\ \/ selfExit[g] /\ wpc' = [wpc EXCEPT ![g] = "dead"] /\ m_selfExitPtr' = 0
            \/ ~selfExit[g] /\ wpc' = [wpc EXCEPT ![g] = "loop"] /\ m_selfExitPtr' = m_selfExitPtr
<1>1. Turned(msgs, Mark({cur[g]}, "invoked"), {cur[g]}, "invoked")
  BY MarkTurns, LaneTypes DEF MessageInv, QueueInv
<1>2. wpc[g] = "handling" /\ op[g] = "none"
  BY DEF HandlerDone, HandlerFree
<1>3. cur[g] # EXIT
  BY <1>2 DEF MessageInv, HeldExact
<1>4. /\ UNCHANGED <<high, normal>>
      /\ UNCHANGED <<m_exit, m_discard, m_thread, gen, m_exitSem, promised, callVars, selfExit, op, created, misused>>
  BY DEF HandlerDone, queueVars
<1>5. /\ msgs' = Mark({cur[g]}, "invoked") /\ cur' = [cur EXCEPT ![g] = EXIT]
      /\ \/ selfExit[g] /\ wpc' = [wpc EXCEPT ![g] = "dead"] /\ m_selfExitPtr' = 0
         \/ ~selfExit[g] /\ wpc' = [wpc EXCEPT ![g] = "loop"] /\ m_selfExitPtr' = m_selfExitPtr
  BY DEF HandlerDone, WGoto
<1> QED
  BY <1>1, <1>2, <1>3, <1>4, <1>5

QueuedIds == {m \in DOMAIN msgs : msgs[m].fate = "queued"}

\* The lanes are emptied.
LEMMA EmptyMoves ==
  ASSUME MessageInv, NEW e \in Exiters, DrainAndDelete(e) \/ DestroyQueue(e)
  PROVE  /\ high' = <<>> /\ normal' = <<>> /\ UNCHANGED <<cur, wpc, m_exit, m_discard, promised, pc>>
         /\ \E f \in {"canceled", "lost"} : Turned(msgs, msgs', QueuedIds, f)
<1>1. LanedIds \ {EXIT} = QueuedIds /\ \A f : Turned(msgs, Mark(LanedIds \ {EXIT}, f), LanedIds \ {EXIT}, f)
  BY MarkTurns, LaneTypes, LanedAreQueued DEF MessageInv, QueueInv, QueuedIds
<1>2. /\ high' = <<>> /\ normal' = <<>> /\ UNCHANGED <<cur, wpc, m_exit, m_discard, promised, pc>>
      /\ \E f \in {"canceled", "lost"} : msgs' = Mark(LanedIds \ {EXIT}, f)
  BY DEF DrainAndDelete, DestroyQueue, Empty, Destroy, workerVars, callVars, flagVars
<1> QED
  BY <1>1, <1>2

\* All other steps leave the messages where they are.
LEMMA NextMoves ==
  ASSUME MessageInv, [Next]_vars
  PROVE  \/ Unmoved /\ wpc' = wpc
         \/ \E g \in Gens : \E place \in Places \ {"lookNormal", "popped", "handling"} :
              /\ Unmoved /\ wpc' = [wpc EXCEPT ![g] = place] /\ cur[g] = EXIT
              /\ wpc[g] \notin {"lookNormal", "popped", "handling"}
         \/ \E c \in Tasks : Push(c)
         \/ \E g \in Gens : Receive(g) \/ ReceiveNormal(g) \/ Act(g) \/ HandlerDone(g)
         \/ \E e \in Exiters : DrainAndDelete(e) \/ DestroyQueue(e)
<1> USE DEF Unmoved, WGoto, flagVars, msgVars, callVars, workerVars, queueVars, configVars
<1>i. TypeInv /\ ControlInv /\ BellInv /\ HeldExact
  BY DEF MessageInv, QueueInv
<1>1. CASE UNCHANGED vars
  BY <1>1 DEF vars
<1>2. ASSUME CreateThread PROVE Unmoved /\ gen + 1 \in Gens /\ wpc[gen + 1] = "none" /\ wpc' = [wpc EXCEPT ![gen + 1] = "starting"]
  <2>1. gen + 1 \in Gens /\ gen \in Nat /\ gen + 1 > gen
    BY <1>2, <1>i, TaskKinds DEF CreateThread, TypeInv, Gens
  <2>2. wpc[gen + 1] = "none" /\ ~created
    BY <1>2, <1>i, <2>1 DEF CreateThread, ControlInv
  <2>3. high = <<>> /\ normal = <<>>
    BY <1>i, <2>2 DEF BellInv
  <2> QED
    BY <1>2, <2>1, <2>2, <2>3 DEF CreateThread, Create
<1>3. ASSUME CreateThreadReturns \/ Join PROVE Unmoved /\ wpc' = wpc
  BY <1>3 DEF CreateThreadReturns, Join
<1>4. ASSUME NEW c \in Callers, Dispatch(c) PROVE Unmoved /\ wpc' = wpc
  BY <1>4 DEF Dispatch
<1>5. ASSUME NEW c \in Tasks, SendStep(c), ~Push(c) PROVE Unmoved /\ wpc' = wpc
  BY <1>5 DEF SendStep, RingBell, Ring, SendToNothing, Misuse, DropFull, FaultFull, WaitNotFull, TimeoutFull
<1>6. ASSUME NEW g \in Gens, WorkerStep(g), ~(Receive(g) \/ ReceiveNormal(g) \/ Act(g) \/ HandlerDone(g))
      PROVE  \/ Unmoved /\ wpc' = wpc
             \/ \E place \in Places \ {"lookNormal", "popped", "handling"} :
                  /\ Unmoved /\ wpc' = [wpc EXCEPT ![g] = place] /\ cur[g] = EXIT
                  /\ wpc[g] \notin {"lookNormal", "popped", "handling"}
  <2>1. CASE ReceiveFromNothing(g)
    BY <2>1 DEF ReceiveFromNothing, Misuse
  <2>2. CASE ~ReceiveFromNothing(g)
    <3>1. PICK place \in Places \ {"lookNormal", "popped", "handling"} :
            Unmoved /\ wpc' = [wpc EXCEPT ![g] = place] /\ wpc[g] \notin {"lookNormal", "popped", "handling"}
      BY <1>6, <2>2 DEF WorkerStep, StartHandlerDone, ReceiveTimesOut, ExitNoticed, RunIdle, IdleHandlerDone,
         SignalExit, Leave, Loop, Places
    <3> QED
      BY <1>i, <3>1, NoMessage
  <2> QED
    BY <2>1, <2>2
<1>7. ASSUME NEW e \in Exiters, ExitRequest(e) PROVE Unmoved /\ wpc' = wpc
  BY <1>7 DEF ExitRequest
<1>8. CASE CreateThread
  <2>1. cur[gen + 1] = EXIT
    BY <1>i, <1>2, <1>8, NoMessage
  <2> QED
    BY <1>2, <1>8, <2>1 DEF Places
<1> HIDE DEF Unmoved, WGoto, flagVars, msgVars, callVars, workerVars, queueVars, configVars
<1> QED
  BY <1>1, <1>3, <1>4, <1>5, <1>6, <1>7, <1>8 DEF Next, ExitStep

\* Every step keeps the lanes exact.
LEMMA LanesStep ==
  ASSUME MessageInv, [Next]_vars
  PROVE  LanesExact'
<1>t. /\ high \in Seq(Nat) /\ normal \in Seq(Nat) /\ msgs \in Seq(Message) /\ TypeInv
      /\ DOMAIN msgs = 1 .. Len(msgs) /\ NewId = Len(msgs) + 1
      /\ LaneExact(high, "HIGH", msgs) /\ LaneExact(normal, "NORMAL", msgs)
  BY LaneTypes DEF MessageInv, QueueInv, LanesExact
<1>0. ASSUME UNCHANGED <<high, normal, msgs>> PROVE LanesExact'
  BY <1>0, <1>t DEF LanesExact
<1>1. ASSUME NEW c \in Tasks, Push(c) PROVE LanesExact'
  <2>1. CASE normal' = Append(normal, EXIT) /\ UNCHANGED <<high, msgs>>
    BY <1>t, <2>1, LaneExit DEF LanesExact
  <2>2. ASSUME NEW l \in Lanes, msgs' = Append(msgs, [lane |-> l, fate |-> "queued"]),
               l = "HIGH" => high' = Append(high, NewId) /\ normal' = normal,
               l # "HIGH" => normal' = Append(normal, NewId) /\ high' = high
        PROVE  LanesExact'
    <3>1. CASE l = "HIGH"
      <4>1. LaneExact(Append(high, NewId), "HIGH", msgs')
        BY <1>t, <2>2, <3>1, LaneAppend
      <4>2. LaneExact(normal, "NORMAL", msgs')
        BY <1>t, <2>2, <3>1, LaneOther
      <4> QED
        BY <2>2, <3>1, <4>1, <4>2 DEF LanesExact
    <3>2. CASE l = "NORMAL"
      <4>1. LaneExact(Append(normal, NewId), "NORMAL", msgs')
        BY <1>t, <2>2, <3>2, LaneAppend
      <4>2. LaneExact(high, "HIGH", msgs')
        BY <1>t, <2>2, <3>2, LaneOther
      <4> QED
        BY <2>2, <3>2, <4>1, <4>2 DEF LanesExact
    <3> QED
      BY <3>1, <3>2 DEF Lanes
  <2> QED
    BY <1>1, <2>1, <2>2, PushMoves
<1>2. ASSUME NEW g \in Gens, Receive(g) PROVE LanesExact'
  <2>1. CASE UNCHANGED <<high, normal, msgs>>
    BY <1>0, <2>1
  <2>2. CASE ~UNCHANGED <<high, normal, msgs>>
    <3>1. PICK m \in DOMAIN msgs :
            /\ high # <<>> /\ m = Head(high) /\ high' = Tail(high) /\ normal' = normal
            /\ msgs[m].lane = "HIGH" /\ Turned(msgs, msgs', {m}, "taken")
      BY <1>2, <2>2, ReceiveMoves DEF Unmoved
    <3>2. LaneExact(Tail(high), "HIGH", msgs')
      BY <1>t, <3>1, LaneTail
    <3>3. LaneExact(normal, "NORMAL", msgs')
      BY <1>t, <3>1, LaneStays
    <3> QED
      BY <3>1, <3>2, <3>3 DEF LanesExact
  <2> QED
    BY <2>1, <2>2
<1>3. ASSUME NEW g \in Gens, ReceiveNormal(g) PROVE LanesExact'
  <2>1. CASE UNCHANGED <<high, normal, msgs>>
    BY <1>0, <2>1
  <2>2. CASE ~UNCHANGED <<high, normal, msgs>>
    <3>1. PICK m \in Nat :
            /\ normal # <<>> /\ m = Head(normal) /\ normal' = Tail(normal) /\ high' = high
            /\ (m \in DOMAIN msgs => msgs[m].lane = "NORMAL") /\ Turned(msgs, msgs', {m}, "taken")
      BY <1>3, <1>t, <2>2, ReceiveNormalMoves, LaneTypes DEF Unmoved
    <3>2. LaneExact(Tail(normal), "NORMAL", msgs')
      BY <1>t, <3>1, LaneTail
    <3>3. LaneExact(high, "HIGH", msgs')
      BY <1>t, <3>1, LaneStays
    <3> QED
      BY <3>1, <3>2, <3>3 DEF LanesExact
  <2> QED
    BY <2>1, <2>2
<1>4. ASSUME NEW g \in Gens, Act(g) \/ HandlerDone(g) PROVE LanesExact'
  <2>1. CASE UNCHANGED <<high, normal, msgs>>
    BY <1>0, <2>1
  <2>2. CASE ~UNCHANGED <<high, normal, msgs>>
    <3>1. PICK f \in {"canceled", "running", "invoked"} :
            cur[g] # EXIT /\ UNCHANGED <<high, normal>> /\ Turned(msgs, msgs', {cur[g]}, f)
      BY <1>4, <2>2, ActMoves, DoneMoves DEF Unmoved
    <3>2. msgs[cur[g]].fate # "queued"
      BY <3>1 DEF MessageInv, HeldExact
    <3>3. LaneExact(high, "HIGH", msgs') /\ LaneExact(normal, "NORMAL", msgs')
      BY <1>t, <3>1, <3>2, LaneStays
    <3> QED
      BY <3>1, <3>3 DEF LanesExact
  <2> QED
    BY <2>1, <2>2
<1>5. ASSUME NEW e \in Exiters, DrainAndDelete(e) \/ DestroyQueue(e) PROVE LanesExact'
  <2>1. PICK f \in {"canceled", "lost"} : high' = <<>> /\ normal' = <<>> /\ Turned(msgs, msgs', QueuedIds, f)
    BY <1>5, EmptyMoves
  <2>2. \A m \in DOMAIN msgs' : msgs'[m].fate # "queued"
    BY <2>1 DEF Turned, QueuedIds
  <2>3. LaneExact(<<>>, "HIGH", msgs') /\ LaneExact(<<>>, "NORMAL", msgs')
    BY <2>2, LaneCleared
  <2> QED
    BY <2>1, <2>3 DEF LanesExact
<1> QED
  BY <1>0, <1>1, <1>2, <1>3, <1>4, <1>5, NextMoves DEF Unmoved

\* Every step keeps what the workers hold.
LEMMA HeldStep ==
  ASSUME MessageInv, [Next]_vars
  PROVE  HeldExact'
<1>t. TypeInv /\ HeldExact
  BY DEF MessageInv, QueueInv
<1>0. ASSUME UNCHANGED <<msgs, cur, wpc>> PROVE HeldExact'
  BY <1>0, <1>t DEF HeldExact
<1>1. ASSUME NEW c \in Tasks, Push(c) PROVE HeldExact'
  <2>1. UNCHANGED <<cur, wpc>> /\ (UNCHANGED msgs \/ \E l \in Lanes : msgs' = Append(msgs, [lane |-> l, fate |-> "queued"]))
    BY <1>1, PushMoves DEF workerVars
  <2> QED
    BY <1>t, <1>0, <2>1, HeldAppend
<1>2. ASSUME NEW g \in Gens, Receive(g) PROVE HeldExact'
  <2>1. CASE Unmoved /\ wpc' = [wpc EXCEPT ![g] = "lookNormal"]
    BY <1>2, <1>t, <2>1, ReceiveMoves, HeldWorker DEF Unmoved
  <2>2. ASSUME NEW m \in DOMAIN msgs, msgs[m].fate = "queued", Turned(msgs, msgs', {m}, "taken"),
               cur' = [cur EXCEPT ![g] = m], wpc' = [wpc EXCEPT ![g] = "popped"]
        PROVE  HeldExact'
    <3>1. m \in Nat /\ cur[g] = EXIT
      BY <1>2, <1>t, ReceiveMoves, LaneTypes
    <3> QED
      BY <1>t, <2>2, <3>1, HeldTake
  <2> QED
    BY <1>2, <2>1, <2>2, ReceiveMoves
<1>3. ASSUME NEW g \in Gens, ReceiveNormal(g) PROVE HeldExact'
  <2>1. CASE Unmoved /\ wpc' = [wpc EXCEPT ![g] = "timedOut"]
    BY <1>3, <1>t, <2>1, ReceiveNormalMoves, HeldWorker DEF Unmoved
  <2>2. ASSUME NEW m \in Nat, m # EXIT => m \in DOMAIN msgs /\ msgs[m].fate = "queued",
               Turned(msgs, msgs', {m}, "taken"), cur' = [cur EXCEPT ![g] = m], wpc' = [wpc EXCEPT ![g] = "popped"]
        PROVE  HeldExact'
    BY <1>3, <1>t, <2>2, ReceiveNormalMoves, HeldTake
  <2> QED
    BY <1>3, <1>t, <2>1, <2>2, ReceiveNormalMoves
<1>4. ASSUME NEW g \in Gens, Act(g) PROVE HeldExact'
  BY <1>4, <1>t, ActMoves, HeldWorker, HeldMove DEF Unmoved
<1>5. ASSUME NEW g \in Gens, HandlerDone(g) PROVE HeldExact'
  BY <1>5, <1>t, DoneMoves, HeldMove
<1>6. ASSUME NEW e \in Exiters, DrainAndDelete(e) \/ DestroyQueue(e) PROVE HeldExact'
  <2>1. PICK f \in {"canceled", "lost"} : UNCHANGED <<cur, wpc>> /\ Turned(msgs, msgs', QueuedIds, f)
    BY <1>6, EmptyMoves
  <2>2. \A m \in QueuedIds : m \in DOMAIN msgs => msgs[m].fate = "queued"
    BY DEF QueuedIds
  <2> QED
    BY <1>t, <2>1, <2>2, HeldCancel
<1>7. ASSUME NEW g \in Gens, NEW place \in Places \ {"lookNormal", "popped", "handling"},
             Unmoved, wpc' = [wpc EXCEPT ![g] = place], cur[g] = EXIT
      PROVE  HeldExact'
  BY <1>7, <1>t, HeldWorker DEF Unmoved
<1> QED
  BY <1>0, <1>1, <1>2, <1>3, <1>4, <1>5, <1>6, <1>7, NextMoves DEF Unmoved

(* The lanes hold exactly the queued messages, each lane oldest first, and a *)
(* message that has been taken or runs is in the hands of one worker, even   *)
(* when two of them serve the same queue.                                   *)
THEOREM MessageInvHolds == Spec => []MessageInv
<1>1. Init => LanesExact /\ HeldExact
  BY DEF Init, QueueInit, LanesExact, LaneExact, HeldExact
<1>2. QueueInv' /\ MessageInv /\ [Next]_vars => MessageInv'
  BY LanesStep, HeldStep DEF MessageInv
<1>3. Init => QueueInv
  BY TypeInit, ControlInit, BellInit DEF QueueInv
<1>4. QueueInv /\ [Next]_vars => QueueInv'
  BY TypeStep, ControlStep, BellStep DEF QueueInv
<1>5. Init => MessageInv
  BY <1>1, <1>3 DEF MessageInv
<1>6. MessageInv /\ [Next]_vars => MessageInv'
  BY <1>2, <1>4 DEF MessageInv
<1> QED
  BY <1>5, <1>6, PTL DEF Spec

---------------------------------------------------------------------------
(* Who serves.  A worker that m_thread does not hold has left its loop, or is *)
(* in the handler that exited the thread.  Of the latter some were never     *)
(* told: m_selfExitPtr was null, because an earlier worker had cleared it.   *)
(* Such a worker goes on in its loop once its handler returns.  It harms     *)
(* nobody as long as no queue is created for it to receive from, which is    *)
(* what StartsInTurn asks of the owner: a worker is started only when every  *)
(* earlier one has left its loop, or has been told to.                      *)

Left(g)   == wpc[g] \in {"none", "leaving", "dead"}
Told(g)   == wpc[g] = "handling" /\ selfExit[g]
Untold(g) == /\ g = gen /\ ~created /\ SelfExits # {} /\ gen >= 2
             /\ wpc[g] = "handling" \/ (wpc[g] = "loop" /\ ~selfExit[g])

StartsInTurn == CreateThread => \A g \in Gens : Left(g) \/ selfExit[g]

ExitSent == \E k \in DOMAIN normal : normal[k] = EXIT

OneServes == \A g \in Gens : g # m_thread => Left(g) \/ Told(g) \/ Untold(g)

\* A handler inside ExitThread has been told, unless there was an earlier worker.
HandlerExits == \A g \in Gens : op[g] # "none" => wpc[g] = "handling" /\ SelfExits # {} /\ (selfExit[g] \/ gen >= 2)

\* m_exitSem is given for the ExitThread that waits for it, which therefore
\* goes on when its worker has left.
JoinWaits ==
  /\ m_exitSem => op[Owner] = "join" /\ Left(m_thread)
  /\ op[Owner] \in {"drain", "destroy"} => Left(m_thread)

\* The current worker is told, sent the exit message, and gone, for a call of
\* ExitThread that is still under way.
CurrentExits ==
  /\ selfExit[m_thread] => op[m_thread] # "none"
  /\ m_exit => op[Owner] \in Exiting \/ op[m_thread] # "none"
  /\ wpc[m_thread] = "exiting" \/ (wpc[m_thread] = "popped" /\ cur[m_thread] = EXIT) => op[Owner] = "join"
  /\ Left(m_thread) => m_exitSem \/ op[Owner] \in {"drain", "destroy"}
  /\ m_selfExitPtr \in {0, m_thread} /\ (gen = 1 /\ wpc[1] # "dead" => m_selfExitPtr = 1)

ServeInv ==
  /\ OneServes /\ HandlerExits /\ JoinWaits
  /\ created => CurrentExits
  /\ ExitSent => op[Owner] \in {"join", "drain"}

\* The worker in the loop of the existing queue, or anywhere between the loop
\* and the exit signal, is the current one.
LEMMA Current ==
  ASSUME TypeInv, ControlInv, ServeInv, NEW g \in Gens,
         \/ wpc[g] \in {"starting", "lookNormal", "timedOut", "idling", "popped", "exiting"}
         \/ wpc[g] = "loop" /\ created
  PROVE  g = m_thread /\ created /\ CurrentExits
<1>1. g = m_thread
  BY DEF ServeInv, OneServes, Left, Told, Untold
<1> QED
  BY <1>1, TaskKinds DEF ControlInv, ServeInv

\* Nothing that ServeInv is about changes.
LEMMA ServeFrame ==
  ASSUME ServeInv, ExitSent' => ExitSent,
         UNCHANGED <<created, m_exit, m_thread, gen, m_exitSem, m_selfExitPtr, wpc, cur, selfExit, op>>
  PROVE  ServeInv'
BY DEF ServeInv, OneServes, HandlerExits, JoinWaits, CurrentExits, Left, Told, Untold, Exiting

\* The current worker goes on in its loop.
LEMMA ServeWorker ==
  ASSUME TypeInv, ControlInv, ServeInv, NEW g \in Gens, g = m_thread, created, ~Left(g), op[g] = "none",
         NEW place \in {"loop", "lookNormal", "timedOut", "idling", "popped", "handling"},
         wpc' = [wpc EXCEPT ![g] = place], place = "popped" /\ cur'[g] = EXIT => op[Owner] = "join",
         ExitSent' => ExitSent,
         UNCHANGED <<created, m_exit, m_thread, gen, m_exitSem, m_selfExitPtr, selfExit, op>>
  PROVE  ServeInv'
<1>1. /\ wpc \in [Gens -> Places] /\ wpc'[g] = place /\ \A h \in Gens : h # g => wpc'[h] = wpc[h]
      /\ gen \in Nat /\ m_thread \in Nat /\ m_thread = gen
  BY TaskKinds DEF TypeInv, ControlInv
<1>2. OneServes' /\ HandlerExits'
  BY <1>1 DEF ServeInv, OneServes, HandlerExits, Left, Told, Untold
<1>3. ~m_exitSem /\ op[Owner] \notin {"drain", "destroy"}
  BY DEF ServeInv, JoinWaits
<1>4. CurrentExits'
  BY <1>1, <1>3 DEF ServeInv, CurrentExits, Left, Exiting
<1> QED
  BY <1>2, <1>3, <1>4 DEF ServeInv, JoinWaits

\* The exit message enters the NORMAL lane by a push only.
LEMMA ExitSentFrame ==
  ASSUME TypeInv, normal' = normal \/ normal' = <<>> \/ (normal # <<>> /\ normal' = Tail(normal))
                  \/ \E id \in Nat : id # EXIT /\ normal' = Append(normal, id)
  PROVE  ExitSent' => ExitSent
<1>t. normal \in Seq(Nat) /\ DOMAIN normal = 1 .. Len(normal) /\ Len(normal) \in Nat
  BY LaneTypes
<1>1. CASE normal' = normal \/ normal' = <<>>
  BY <1>1 DEF ExitSent
<1>2. CASE normal # <<>> /\ normal' = Tail(normal)
  <2>1. \A k \in DOMAIN Tail(normal) : k + 1 \in DOMAIN normal /\ Tail(normal)[k] = normal[k + 1]
    <3>1. Tail(normal) \in Seq(Nat) /\ Len(Tail(normal)) = Len(normal) - 1
          /\ \A k \in 1 .. Len(Tail(normal)) : Tail(normal)[k] = normal[k + 1]
      BY <1>t, <1>2, HeadTailProperties
    <3> QED
      BY <1>t, <3>1
  <2> QED
    BY <1>2, <2>1 DEF ExitSent
<1>3. ASSUME NEW id \in Nat, id # EXIT, normal' = Append(normal, id) PROVE ExitSent' => ExitSent
  <2>1. \A k \in DOMAIN Append(normal, id) : Append(normal, id)[k] = id \/ (k \in DOMAIN normal /\ Append(normal, id)[k] = normal[k])
    BY <1>t
  <2> QED
    BY <1>3, <2>1 DEF ExitSent
<1> QED
  BY <1>1, <1>2, <1>3

\* Every step in turn keeps the current worker the only one that serves.
LEMMA ServeStep ==
  ASSUME MessageInv, ServeInv, [Next]_vars, [StartsInTurn]_vars, SelfExits \subseteq {"handling"}
  PROVE  ServeInv'
<1> USE DEF Goto, WGoto, Return, flagVars, msgVars, callVars, workerVars, queueVars, configVars
<1>i. TypeInv /\ ControlInv /\ BellInv /\ HeldExact
  BY DEF MessageInv, QueueInv
<1>k. /\ Owner \in Tasks /\ Owner \notin Gens /\ Owner \in Exiters /\ Owner \notin Callers /\ Owner = 0
      /\ Gens \subseteq Exiters /\ \A e \in Exiters : e = Owner \/ e \in Gens
      /\ MaxStarts \in Nat \ {0} /\ Gens = 1 .. MaxStarts
      /\ gen \in Nat /\ gen <= MaxStarts /\ m_thread \in 0 .. gen /\ m_selfExitPtr \in 0 .. gen
  BY <1>i, TaskKinds DEF Gens, TypeInv, Owner
<1>t. /\ wpc \in [Gens -> Places] /\ selfExit \in [Gens -> BOOLEAN] /\ cur \in [Gens -> Nat]
      /\ op \in [Exiters -> {"none", "started", "join", "drain", "destroy"}]
      /\ created \in BOOLEAN
  BY <1>i DEF TypeInv
<1>e. normal' = normal => (ExitSent' => ExitSent)
  BY DEF ExitSent
<1>0. ASSUME UNCHANGED <<normal, created, m_exit, m_thread, gen, m_exitSem, m_selfExitPtr, wpc, cur, selfExit, op>>
      PROVE  ServeInv'
  BY <1>0, <1>e, ServeFrame
<1>00. CASE UNCHANGED vars
  BY <1>0, <1>00 DEF vars
<1>1. ASSUME CreateThread, StartsInTurn PROVE ServeInv'
  <2>1. /\ m_thread = 0 /\ op[Owner] = "none" /\ gen + 1 \in Gens /\ gen' = gen + 1 /\ m_thread' = gen + 1
        /\ m_selfExitPtr' = gen + 1 /\ m_exit' = FALSE /\ m_exitSem' = m_exitSem /\ normal' = <<>> /\ created' = TRUE
        /\ wpc' = [wpc EXCEPT ![gen + 1] = "starting"] /\ op' = [op EXCEPT ![Owner] = "started"]
        /\ UNCHANGED <<cur, selfExit>>
    BY <1>1, <1>k DEF CreateThread, Create
  <2>2. \A g \in Gens : Left(g) \/ selfExit[g]
    BY <1>1 DEF StartsInTurn
  <2>3. /\ \A g \in Gens : g # gen + 1 => wpc'[g] = wpc[g]
        /\ wpc'[gen + 1] = "starting" /\ ~selfExit[gen + 1] /\ op'[Owner] = "started"
        /\ \A g \in Gens : op'[g] = "none"
    BY <1>i, <1>k, <1>t, <2>1 DEF ControlInv
  <2>4. OneServes'
    <3> SUFFICES ASSUME NEW g \in Gens, g # gen + 1 PROVE Left(g)' \/ Told(g)'
      BY <2>1 DEF OneServes
    <3>1. Left(g) \/ Told(g) \/ Untold(g)
      BY <1>k, <2>1 DEF ServeInv, OneServes
    <3>2. Left(g) \/ (wpc[g] = "handling" /\ selfExit[g])
      BY <2>2, <3>1 DEF Told, Untold, Left
    <3> QED
      BY <2>1, <2>3, <3>2 DEF Left, Told
  <2>5. ~m_exitSem
    BY <2>1 DEF ServeInv, JoinWaits
  <2>6. CurrentExits'
    <3>1. gen + 1 = 1 \/ gen + 1 # 1
      OBVIOUS
    <3> QED
      BY <1>k, <2>1, <2>3 DEF CurrentExits, Left
  <2>7. ~ExitSent'
    BY <2>1 DEF ExitSent
  <2> QED
    BY <2>1, <2>3, <2>4, <2>5, <2>6, <2>7 DEF ServeInv, HandlerExits, JoinWaits
<1>2. ASSUME CreateThreadReturns PROVE ServeInv'
  <2>1. /\ op[Owner] = "started" /\ op' = [op EXCEPT ![Owner] = "none"]
        /\ UNCHANGED <<normal, created, m_exit, m_thread, gen, m_exitSem, m_selfExitPtr, wpc, cur, selfExit>>
    BY <1>2 DEF CreateThreadReturns
  <2>2. op'[Owner] = "none" /\ \A g \in Gens : op'[g] = op[g]
    BY <1>k, <1>t, <2>1
  <2>3. created => m_thread \in Gens
    BY <1>i, <1>k DEF ControlInv
  <2> QED
    BY <1>e, <2>1, <2>2, <2>3 DEF ServeInv, OneServes, HandlerExits, JoinWaits, CurrentExits, Left, Told, Untold, Exiting
<1>3. ASSUME Join PROVE ServeInv'
  <2>1. /\ op[Owner] = "join" /\ m_exitSem /\ m_exitSem' = FALSE /\ op' = [op EXCEPT ![Owner] = "drain"]
        /\ UNCHANGED <<normal, created, m_exit, m_thread, gen, m_selfExitPtr, wpc, cur, selfExit>>
    BY <1>3 DEF Join
  <2>2. op'[Owner] = "drain" /\ \A g \in Gens : op'[g] = op[g]
    BY <1>k, <1>t, <2>1
  <2>3. created /\ m_thread \in Gens /\ Left(m_thread)
    BY <1>i, <1>k, <2>1 DEF ControlInv, Exiting, ServeInv, JoinWaits
  <2> QED
    BY <1>e, <2>1, <2>2, <2>3 DEF ServeInv, OneServes, HandlerExits, JoinWaits, CurrentExits, Left, Told, Untold, Exiting
<1>4. ASSUME NEW c \in Callers, Dispatch(c) PROVE ServeInv'
  BY <1>0, <1>4 DEF Dispatch
<1>5. ASSUME NEW c \in Tasks, Push(c) PROVE ServeInv'
  <2>1. UNCHANGED <<created, m_exit, m_thread, gen, m_exitSem, m_selfExitPtr, wpc, cur, selfExit, op>>
        /\ pc[c] # "idle"
    BY <1>5, PushMoves
  <2>2. CASE c = Owner
    <3>1. op[Owner] = "join"
      BY <1>i, <2>1, <2>2 DEF ControlInv
    <3> QED
      BY <2>1, <3>1 DEF ServeInv, OneServes, HandlerExits, JoinWaits, CurrentExits, Left, Told, Untold, Exiting
  <2>3. CASE c # Owner
    <3>1. NewId \in Nat /\ NewId # EXIT
      BY <1>i, LaneTypes DEF EXIT
    <3>2. normal' = normal \/ normal' = Append(normal, NewId)
      BY <1>5, <2>3, PushMoves DEF Lanes
    <3>3. ExitSent' => ExitSent
      BY <1>i, <3>1, <3>2, ExitSentFrame
    <3> QED
      BY <2>1, <3>3, ServeFrame
  <2> QED
    BY <2>2, <2>3
<1>6. ASSUME NEW c \in Tasks, SendStep(c), ~Push(c) PROVE ServeInv'
  BY <1>0, <1>6 DEF SendStep, RingBell, Ring, SendToNothing, Misuse, DropFull, FaultFull, WaitNotFull, TimeoutFull
<1>7. ASSUME NEW g \in Gens, Receive(g) PROVE ServeInv'
  <2>1. /\ wpc[g] = "loop" /\ created
        /\ UNCHANGED <<normal, created, m_exit, m_thread, gen, m_exitSem, m_selfExitPtr, selfExit, op>>
        /\ \E place \in {"lookNormal", "popped"} : wpc' = [wpc EXCEPT ![g] = place] /\ (place = "popped" => cur'[g] # EXIT)
    <3>1. /\ wpc[g] = "loop" /\ created
          /\ UNCHANGED <<normal, created, m_exit, m_thread, gen, m_exitSem, m_selfExitPtr, selfExit, op>>
      BY <1>7, ReceiveMoves
    <3>2. \/ wpc' = [wpc EXCEPT ![g] = "lookNormal"]
          \/ \E m \in DOMAIN msgs : wpc' = [wpc EXCEPT ![g] = "popped"] /\ cur' = [cur EXCEPT ![g] = m] /\ m # EXIT
      BY <1>7, ReceiveMoves
    <3>3. \A m : cur' = [cur EXCEPT ![g] = m] => cur'[g] = m
      BY <1>t
    <3> QED
      BY <3>1, <3>2, <3>3
  <2>2. g = m_thread /\ ~Left(g) /\ op[g] = "none"
    BY <1>i, <2>1, Current DEF Left, ServeInv, HandlerExits
  <2> QED
    BY <1>e, <1>i, <2>1, <2>2, ServeWorker
<1>8. ASSUME NEW g \in Gens, ReceiveNormal(g) PROVE ServeInv'
  <2>1. /\ wpc[g] = "lookNormal"
        /\ UNCHANGED <<created, m_exit, m_thread, gen, m_exitSem, m_selfExitPtr, selfExit, op>>
        /\ \/ normal' = normal /\ wpc' = [wpc EXCEPT ![g] = "timedOut"]
           \/ normal # <<>> /\ normal' = Tail(normal) /\ wpc' = [wpc EXCEPT ![g] = "popped"] /\ cur'[g] = Head(normal)
    <3>1. wpc[g] = "lookNormal" /\ UNCHANGED <<created, m_exit, m_thread, gen, m_exitSem, m_selfExitPtr, selfExit, op>>
      BY <1>8, ReceiveNormalMoves
    <3>2. \/ normal' = normal /\ wpc' = [wpc EXCEPT ![g] = "timedOut"]
          \/ normal # <<>> /\ normal' = Tail(normal) /\ wpc' = [wpc EXCEPT ![g] = "popped"] /\ cur' = [cur EXCEPT ![g] = Head(normal)]
      BY <1>8, ReceiveNormalMoves DEF Unmoved
    <3>3. cur' = [cur EXCEPT ![g] = Head(normal)] => cur'[g] = Head(normal)
      BY <1>t
    <3> QED
      BY <3>1, <3>2, <3>3
  <2>2. g = m_thread /\ created /\ ~Left(g) /\ op[g] = "none"
    BY <1>i, <2>1, Current DEF Left, ServeInv, HandlerExits
  <2>3. op[Owner] \notin {"drain", "destroy"}
    BY <2>2 DEF ServeInv, JoinWaits
  <2>4. normal # <<>> /\ Head(normal) = EXIT => ExitSent
    <3>1. normal # <<>> => Head(normal) = normal[1] /\ 1 \in DOMAIN normal
      BY <1>i, LaneTypes
    <3> QED
      BY <3>1 DEF ExitSent
  <2>5. normal # <<>> /\ Head(normal) = EXIT => op[Owner] = "join"
    BY <2>3, <2>4 DEF ServeInv
  <2>6. ExitSent' => ExitSent
    BY <1>i, <2>1, ExitSentFrame
  <2> QED
    BY <1>i, <2>1, <2>2, <2>5, <2>6, ServeWorker
<1>9. ASSUME NEW g \in Gens, StartHandlerDone(g) \/ ReceiveTimesOut(g) \/ RunIdle(g) \/ IdleHandlerDone(g) PROVE ServeInv'
  <2>1. /\ UNCHANGED <<normal, created, m_exit, m_thread, gen, m_exitSem, m_selfExitPtr, selfExit, op>>
        /\ wpc[g] \in {"starting", "timedOut", "idling"} \/ (wpc[g] = "loop" /\ created)
    BY <1>9 DEF StartHandlerDone, ReceiveTimesOut, RunIdle, IdleHandlerDone
  <2>2. g = m_thread /\ created /\ CurrentExits /\ ~Left(g) /\ op[g] = "none"
    <3>1. g = m_thread /\ created /\ CurrentExits /\ ~Left(g)
      BY <1>i, <2>1, Current DEF Left
    <3>2. op[g] = "none"
      BY <2>1 DEF ServeInv, HandlerExits
    <3> QED
      BY <3>1, <3>2
  <2>3. ~selfExit[g]
    BY <2>2 DEF CurrentExits
  <2>4. \E place \in {"loop", "timedOut", "idling"} : wpc' = [wpc EXCEPT ![g] = place]
    BY <1>9, <2>3 DEF StartHandlerDone, ReceiveTimesOut, RunIdle, IdleHandlerDone, Loop
  <2> QED
    BY <1>e, <1>i, <2>1, <2>2, <2>4, ServeWorker
<1>10. ASSUME NEW g \in Gens, Act(g), cur[g] # EXIT PROVE ServeInv'
  <2>1. /\ wpc[g] = "popped"
        /\ UNCHANGED <<normal, created, m_exit, m_thread, gen, m_exitSem, m_selfExitPtr, selfExit, op>>
        /\ \E place \in {"loop", "handling"} : wpc' = [wpc EXCEPT ![g] = place]
    BY <1>10, ActMoves
  <2>2. g = m_thread /\ created /\ ~Left(g) /\ op[g] = "none"
    BY <1>i, <2>1, Current DEF Left, ServeInv, HandlerExits
  <2> QED
    BY <1>e, <1>i, <2>1, <2>2, ServeWorker
<1>11. ASSUME NEW g \in Gens, (Act(g) /\ cur[g] = EXIT) \/ ExitNoticed(g) \/ SignalExit(g) PROVE ServeInv'
  <2>1. /\ UNCHANGED <<normal, created, m_exit, m_thread, gen, m_selfExitPtr, cur, selfExit, op>>
        /\ \/ wpc[g] = "popped" /\ cur[g] = EXIT /\ wpc' = [wpc EXCEPT ![g] = "exiting"] /\ m_exitSem' = m_exitSem
           \/ wpc[g] = "timedOut" /\ m_exit /\ wpc' = [wpc EXCEPT ![g] = "exiting"] /\ m_exitSem' = m_exitSem
           \/ wpc[g] = "exiting" /\ wpc' = [wpc EXCEPT ![g] = "leaving"] /\ m_exitSem' = TRUE
    BY <1>11 DEF Act, ExitNoticed, SignalExit
  <2>2. g = m_thread /\ created /\ CurrentExits /\ ~Left(g)
    BY <1>i, <2>1, Current DEF Left
  <2>3. op[g] = "none"
    BY <2>1 DEF ServeInv, HandlerExits
  <2>4. op[Owner] = "join" /\ ~m_exitSem
    BY <2>1, <2>2, <2>3 DEF CurrentExits, ServeInv, JoinWaits, Exiting
  <2>5. /\ \A h \in Gens : h # g => wpc'[h] = wpc[h]
        /\ \/ wpc'[g] = "exiting" /\ m_exitSem' = m_exitSem
           \/ wpc'[g] = "leaving" /\ m_exitSem' = TRUE
    BY <1>t, <2>1
  <2>6. OneServes' /\ HandlerExits'
    BY <2>1, <2>2, <2>3, <2>5 DEF ServeInv, OneServes, HandlerExits, Left, Told, Untold
  <2>7. CurrentExits' /\ JoinWaits'
    <3>1. gen # 1 \/ m_selfExitPtr = 1 \/ wpc[1] = "dead"
      BY <2>2 DEF CurrentExits
    <3>2. gen = 1 => g = 1
      BY <1>i, <1>k, <2>2 DEF ControlInv
    <3>3. gen = 1 => wpc[1] # "dead"
      BY <2>2, <3>2 DEF Left
    <3> QED
      BY <2>1, <2>2, <2>3, <2>4, <2>5, <3>1, <3>3 DEF CurrentExits, JoinWaits, Left, Exiting
  <2> QED
    BY <1>e, <2>1, <2>4, <2>6, <2>7 DEF ServeInv
<1>12. ASSUME NEW g \in Gens, HandlerDone(g) PROVE ServeInv'
  <2>1. /\ wpc[g] = "handling" /\ op[g] = "none"
        /\ UNCHANGED <<normal, created, m_exit, m_thread, gen, m_exitSem, selfExit, op>>
        /\ cur' = [cur EXCEPT ![g] = EXIT]
        /\ \/ selfExit[g] /\ wpc' = [wpc EXCEPT ![g] = "dead"] /\ m_selfExitPtr' = 0
           \/ ~selfExit[g] /\ wpc' = [wpc EXCEPT ![g] = "loop"] /\ m_selfExitPtr' = m_selfExitPtr
    BY <1>12, DoneMoves
  <2>2. g <= gen
    BY <1>i, <1>k, <2>1 DEF ControlInv
  <2>3. \A h \in Gens : h # g => wpc'[h] = wpc[h]
    BY <1>t, <2>1
  <2>4. CASE g = m_thread
    <3>1. created /\ ~selfExit[g] /\ ~Left(g)
      BY <1>i, <1>k, <2>1, <2>4 DEF ControlInv, ServeInv, CurrentExits, Left
    <3> QED
      BY <1>e, <1>i, <2>1, <2>4, <3>1, ServeWorker
  <2>5. CASE g # m_thread
    <3>1. Told(g) \/ Untold(g)
      BY <2>1, <2>5 DEF ServeInv, OneServes, Left
    <3>2. selfExit[g] => wpc'[g] = "dead"
      BY <1>t, <2>1
    <3>3. ~selfExit[g] => wpc'[g] = "loop" /\ Untold(g)
      BY <1>t, <2>1, <3>1 DEF Told
    <3>4. OneServes'
      BY <2>1, <2>3, <3>2, <3>3 DEF ServeInv, OneServes, Left, Told, Untold
    <3>5. HandlerExits'
      BY <2>1, <2>3 DEF ServeInv, HandlerExits
    <3>6. created => m_thread = gen /\ gen \in Gens /\ gen # 1
      BY <1>i, <1>k, <2>2, <2>5 DEF ControlInv
    <3>7. created => Left(m_thread)' = Left(m_thread) /\ wpc'[m_thread] = wpc[m_thread] /\ cur'[m_thread] = cur[m_thread]
      BY <1>t, <2>1, <2>3, <2>5, <3>6 DEF Left
    <3>8. created => CurrentExits'
      BY <2>1, <3>6, <3>7 DEF ServeInv, CurrentExits, Exiting
    <3>9. op[Owner] \in Exiting => created
      BY <1>i DEF ControlInv
    <3>10. JoinWaits'
      BY <2>1, <3>7, <3>9 DEF ServeInv, JoinWaits, Exiting
    <3> QED
      BY <1>e, <2>1, <3>4, <3>5, <3>8, <3>10 DEF ServeInv
  <2> QED
    BY <2>4, <2>5
<1>13. ASSUME NEW g \in Gens, Leave(g) PROVE ServeInv'
  <2>1. /\ wpc[g] = "leaving" /\ wpc' = [wpc EXCEPT ![g] = "dead"] /\ m_selfExitPtr' = 0
        /\ UNCHANGED <<normal, created, m_exit, m_thread, gen, m_exitSem, cur, selfExit, op>>
    BY <1>13 DEF Leave
  <2>2. g <= gen
    BY <1>i, <1>k, <2>1 DEF ControlInv
  <2>3. wpc'[g] = "dead" /\ \A h \in Gens : h # g => wpc'[h] = wpc[h]
    BY <1>t, <2>1
  <2>4. \A h \in Gens : Left(h)' <=> Left(h)
    BY <2>1, <2>3 DEF Left
  <2>5. OneServes' /\ HandlerExits'
    BY <2>1, <2>3, <2>4 DEF ServeInv, OneServes, HandlerExits, Told, Untold
  <2>6. created => m_thread \in Gens /\ m_thread = gen
    BY <1>i, <1>k DEF ControlInv
  <2>7. created => CurrentExits'
    <3>1. gen = 1 => g = 1
      BY <1>k, <2>2
    <3> QED
      BY <2>1, <2>3, <2>4, <2>6, <3>1 DEF ServeInv, CurrentExits, Exiting
  <2>8. op[Owner] \in Exiting => created
    BY <1>i DEF ControlInv
  <2>9. JoinWaits'
    BY <2>1, <2>4, <2>6, <2>8 DEF ServeInv, JoinWaits, Exiting
  <2> QED
    BY <1>e, <2>1, <2>5, <2>7, <2>9 DEF ServeInv
<1>14. ASSUME NEW g \in Gens, ReceiveFromNothing(g) PROVE ServeInv'
  BY <1>0, <1>14 DEF ReceiveFromNothing, Misuse
<1>15. ASSUME ExitRequest(Owner) PROVE ServeInv'
  <2>1. /\ created /\ op[Owner] = "none" /\ m_exit' = TRUE /\ op' = [op EXCEPT ![Owner] = "join"]
        /\ UNCHANGED <<normal, created, m_thread, gen, m_exitSem, m_selfExitPtr, wpc, cur, selfExit>>
    BY <1>15, TaskKinds DEF ExitRequest, MayExit, HandlerFree
  <2>2. op'[Owner] = "join" /\ \A g \in Gens : op'[g] = op[g]
    BY <1>k, <1>t, <2>1
  <2>3. m_thread \in Gens /\ ~m_exitSem
    BY <1>i, <1>k, <2>1 DEF ControlInv, ServeInv, JoinWaits
  <2> QED
    BY <1>e, <2>1, <2>2, <2>3 DEF ServeInv, OneServes, HandlerExits, JoinWaits, CurrentExits, Left, Told, Untold, Exiting
<1>16. ASSUME NEW e \in Gens, ExitRequest(e) PROVE ServeInv'
  <2>1. /\ created /\ e = m_thread /\ wpc[e] \in SelfExits /\ m_exit' = TRUE /\ op' = [op EXCEPT ![e] = "drain"]
        /\ selfExit' = [g \in Gens |-> selfExit[g] \/ g = m_selfExitPtr]
        /\ UNCHANGED <<normal, created, m_thread, gen, m_exitSem, m_selfExitPtr, wpc, cur>>
    BY <1>16, <1>k DEF ExitRequest, MayExit
  <2>2. wpc[e] = "handling" /\ SelfExits # {} /\ CurrentExits
    BY <2>1 DEF ServeInv
  <2>3. op'[e] = "drain" /\ op'[Owner] = op[Owner] /\ \A g \in Gens : g # e => op'[g] = op[g]
    BY <1>k, <1>t, <2>1
  <2>4. \A g \in Gens : (g # e => selfExit'[g] = selfExit[g]) /\ (selfExit[g] => selfExit'[g])
    BY <1>k, <1>t, <2>1, <2>2 DEF CurrentExits
  <2>5. gen >= 2 \/ selfExit'[e]
    <3>1. gen = e /\ gen >= 1
      BY <1>i, <1>k, <2>1 DEF ControlInv
    <3>2. gen = 1 => m_selfExitPtr = 1
      BY <2>2, <3>1 DEF CurrentExits
    <3>3. e = m_selfExitPtr => selfExit'[e]
      BY <2>1
    <3> QED
      BY <1>k, <3>1, <3>2, <3>3
  <2>6. OneServes' /\ HandlerExits'
    BY <2>1, <2>2, <2>3, <2>4, <2>5 DEF ServeInv, OneServes, HandlerExits, Left, Told, Untold
  <2>7. CurrentExits' /\ JoinWaits'
    BY <2>1, <2>2, <2>3, <2>4 DEF ServeInv, CurrentExits, JoinWaits, Left
  <2> QED
    BY <1>e, <2>1, <2>3, <2>6, <2>7 DEF ServeInv
<1>17. ASSUME NEW e \in Exiters, DrainAndDelete(e) PROVE ServeInv'
  <2>1. /\ op[e] = "drain" /\ op' = [op EXCEPT ![e] = "destroy"] /\ normal' = <<>>
        /\ UNCHANGED <<created, m_exit, m_thread, gen, m_exitSem, m_selfExitPtr, wpc, cur, selfExit>>
    BY <1>17 DEF DrainAndDelete, Empty
  <2>2. op'[e] = "destroy" /\ \A h \in Exiters : h # e => op'[h] = op[h]
    BY <1>t, <2>1
  <2>3. ~ExitSent'
    BY <2>1 DEF ExitSent
  <2>4. created => m_thread \in Gens
    BY <1>i, <1>k DEF ControlInv
  <2>5. \A g \in Gens : op'[g] # "none" <=> op[g] # "none"
    BY <1>k, <2>1, <2>2
  <2>6. /\ op'[Owner] \in {"drain", "destroy"} <=> op[Owner] \in {"drain", "destroy"}
        /\ op'[Owner] = "join" <=> op[Owner] = "join"
    BY <1>k, <2>1, <2>2
  <2>7. OneServes' /\ HandlerExits' /\ JoinWaits'
    BY <2>1, <2>5, <2>6 DEF ServeInv, OneServes, HandlerExits, JoinWaits, Left, Told, Untold
  <2>8. created => CurrentExits'
    BY <2>1, <2>4, <2>5, <2>6 DEF ServeInv, CurrentExits, Left, Exiting
  <2> QED
    BY <2>1, <2>3, <2>7, <2>8 DEF ServeInv
<1>18. ASSUME NEW e \in Exiters, DestroyQueue(e) PROVE ServeInv'
  <2>1. /\ op[e] = "destroy" /\ op' = [op EXCEPT ![e] = "none"] /\ normal' = <<>> /\ created' = FALSE /\ m_thread' = 0
        /\ UNCHANGED <<m_exit, gen, m_exitSem, m_selfExitPtr, wpc, cur, selfExit>>
    BY <1>18 DEF DestroyQueue, Destroy
  <2>2. /\ \A g \in Gens : op'[g] = "none"
        /\ op'[Owner] \in {"none", "started"}
    <3>1. e = Owner => \A g \in Gens : op[g] = "none"
      BY <1>i, <2>1 DEF ControlInv, Exiting
    <3>2. e # Owner => op[Owner] \notin Exiting /\ \A g \in Gens : op[g] # "none" => g = e
      BY <1>i, <1>k, <2>1 DEF ControlInv
    <3> QED
      BY <1>k, <1>t, <2>1, <3>1, <3>2 DEF Exiting
  <2>3. ~ExitSent'
    BY <2>1 DEF ExitSent
  <2>4. ~m_exitSem
    <3>1. e = Owner => op[Owner] # "join"
      BY <2>1
    <3>2. e # Owner => op[Owner] # "join"
      BY <1>i, <1>k, <2>1 DEF ControlInv, Exiting
    <3> QED
      BY <3>1, <3>2 DEF ServeInv, JoinWaits
  <2>5. OneServes'
    <3>1. m_thread = e \/ e = Owner
      BY <1>i, <1>k, <2>1 DEF ControlInv
    <3>2. e = Owner => Left(m_thread)
      BY <2>1 DEF ServeInv, JoinWaits
    <3>3. e # Owner => m_thread = gen /\ wpc[m_thread] = "handling" /\ SelfExits # {} /\ (selfExit[m_thread] \/ gen >= 2)
      BY <1>i, <1>k, <2>1, <3>1 DEF ControlInv, ServeInv, HandlerExits
    <3>4. \A g \in Gens : Left(g) \/ Told(g) \/ (g = gen /\ SelfExits # {} /\ gen >= 2 /\ (wpc[g] = "handling" \/ (wpc[g] = "loop" /\ ~selfExit[g])))
      BY <3>1, <3>2, <3>3 DEF ServeInv, OneServes, Told, Untold
    <3> QED
      BY <2>1, <3>4 DEF OneServes, Left, Told, Untold
  <2> QED
    BY <2>1, <2>2, <2>3, <2>4, <2>5 DEF ServeInv, HandlerExits, JoinWaits
<1> HIDE DEF Goto, WGoto, Return, flagVars, msgVars, callVars, workerVars, queueVars, configVars
<1>c. CreateThread => StartsInTurn
  <2>1. CASE StartsInTurn
    BY <2>1
  <2>2. CASE UNCHANGED vars
    BY <2>2, <1>k DEF CreateThread, vars, flagVars
  <2> QED
    BY <2>1, <2>2
<1> QED
  BY <1>00, <1>c, <1>k, <1>1, <1>2, <1>3, <1>4, <1>5, <1>6, <1>7, <1>8, <1>9, <1>10, <1>11, <1>12, <1>13, <1>14, <1>15,
     <1>16, <1>17, <1>18 DEF Next, WorkerStep, ExitStep

\* Nobody serves in the beginning.
LEMMA ServeInit == Init => ServeInv
BY TaskKinds DEF Init, QueueInit, ServeInv, OneServes, HandlerExits, JoinWaits, CurrentExits, Left, ExitSent, Exiting, Owner

\* Worker 1 is told of the exit of its thread: nobody is there to clear
\* m_selfExitPtr before.  So a second worker, or any when no handler exits the
\* thread, is started in turn.
LEMMA InTurn ==
  ASSUME MessageInv, ServeInv, SelfExits = {} \/ MaxStarts <= 2
  PROVE  StartsInTurn
<1> SUFFICES ASSUME CreateThread, NEW g \in Gens PROVE Left(g) \/ selfExit[g]
  BY DEF StartsInTurn
<1>1. m_thread = 0 /\ gen < MaxStarts /\ gen \in Nat /\ MaxStarts \in Nat /\ g # 0
  BY TaskKinds DEF CreateThread, MessageInv, QueueInv, TypeInv
<1>2. Left(g) \/ Told(g) \/ Untold(g)
  BY <1>1 DEF ServeInv, OneServes
<1> QED
  BY <1>1, <1>2 DEF Told, Untold

\* The current worker is the only one that serves, when workers are started in turn.
THEOREM ServeInvHolds ==
  ASSUME SelfExits \subseteq {"handling"}
  PROVE  Spec /\ [][StartsInTurn]_vars => []ServeInv
<1>1. MessageInv /\ ServeInv /\ [Next]_vars /\ [StartsInTurn]_vars => ServeInv'
  BY ServeStep
<1> QED
  BY <1>1, ServeInit, MessageInvHolds, PTL DEF Spec

\* Two workers, or no self-exit, are in turn whatever the owner does.
LEMMA SpecInTurn ==
  ASSUME SelfExits = {} \/ (SelfExits \subseteq {"handling"} /\ MaxStarts <= 2)
  PROVE  Spec => [][StartsInTurn]_vars
<1>1. MessageInv /\ ServeInv => StartsInTurn
  BY InTurn
<1>2. MessageInv /\ ServeInv /\ [Next]_vars => ServeInv'
  BY <1>1, ServeStep
<1> QED
  BY <1>1, <1>2, ServeInit, MessageInvHolds, PTL DEF Spec

---------------------------------------------------------------------------
(* ExitThread(DRAIN).  Without wake-ups a worker leaves its loop for the     *)
(* exit message only, and what was promised is taken before it: in the       *)
(* NORMAL lane it lies in front of it, and a worker that has found the HIGH  *)
(* lane empty before the promise was given has a token for a message that    *)
(* lies in front of it, too.                                                *)

ExitTaken == wpc[m_thread] \in {"exiting", "leaving", "dead"} \/ (wpc[m_thread] = "popped" /\ cur[m_thread] = EXIT)

PromisedSafe ==
  \A i \in promised :
    /\ msgs[i].fate \notin {"canceled", "lost"}
    /\ msgs[i].fate \in {"queued", "taken"} => op[Owner] = "join" /\ ~m_discard
    /\ msgs[i].fate = "queued" => ~ExitTaken

ExitBehind == \A j, k \in DOMAIN normal : normal[j] = EXIT /\ normal[k] \in promised => k < j

LookerSafe ==
  \A g \in Gens : wpc[g] = "lookNormal" /\ normal # <<>> /\ Head(normal) = EXIT => \A k \in DOMAIN high : high[k] \notin promised

NeverTimesOut == \A g \in Gens : wpc[g] \notin {"timedOut", "idling"}

DrainInv == ~wakes => PromisedSafe /\ ExitBehind /\ LookerSafe /\ NeverTimesOut

ServingInv == MessageInv /\ ServeInv

\* Promised messages that are not invoked yet have their owner waiting.
LEMMA PromisedWait ==
  ASSUME ServingInv, DrainInv, ~wakes, NEW i \in promised, msgs[i].fate \in {"queued", "taken"}
  PROVE  op[Owner] = "join" /\ created /\ m_thread \in Gens /\ ~m_discard
<1>1. op[Owner] = "join" /\ ~m_discard
  BY DEF DrainInv, PromisedSafe
<1> QED
  BY <1>1, TaskKinds DEF ServingInv, MessageInv, QueueInv, TypeInv, ControlInv, Exiting, Gens

\* Nothing that DrainInv is about changes.
LEMMA DrainFrame ==
  ASSUME DrainInv, UNCHANGED <<wakes, high, normal, msgs, promised, wpc, cur, m_discard, m_thread>>,
         op[Owner] = "join" => op'[Owner] = "join"
  PROVE  DrainInv'
BY DEF DrainInv, PromisedSafe, ExitBehind, LookerSafe, NeverTimesOut, ExitTaken

\* A worker goes on, without looking into the NORMAL lane.
LEMMA DrainWorker ==
  ASSUME ServingInv, DrainInv, NEW g \in Gens, NEW place, wpc' = [wpc EXCEPT ![g] = place],
         place \notin {"lookNormal", "timedOut", "idling"},
         m_thread \in Gens => (ExitTaken' => ExitTaken),
         \A i \in promised : ~wakes => /\ msgs'[i].fate \notin {"canceled", "lost"}
                                       /\ msgs'[i].fate \in {"queued", "taken"} => msgs'[i].fate = msgs[i].fate,
         UNCHANGED <<wakes, high, normal, promised, m_discard, m_thread, op>>
  PROVE  DrainInv'
<1> SUFFICES ASSUME ~wakes PROVE DrainInv'
  BY DEF DrainInv
<1>1. wpc \in [Gens -> Places]
  BY DEF ServingInv, MessageInv, QueueInv, TypeInv
<1>2. PromisedSafe'
  BY PromisedWait DEF DrainInv, PromisedSafe
<1>3. LookerSafe' /\ NeverTimesOut'
  BY <1>1 DEF DrainInv, LookerSafe, NeverTimesOut
<1>4. ExitBehind'
  BY DEF DrainInv, ExitBehind
<1> QED
  BY <1>2, <1>3, <1>4 DEF DrainInv

\* Once no promised message is queued or taken, the promises are kept.
LEMMA DrainKept ==
  ASSUME DrainInv, NEW N, UNCHANGED <<wakes, promised>>, NeverTimesOut',
         msgs' = N, \A i \in promised : ~wakes => N[i].fate = msgs[i].fate /\ msgs[i].fate \notin {"queued", "taken"},
         normal' = normal \/ normal' = <<>>, high' = high \/ high' = <<>>, LookerSafe'
  PROVE  DrainInv'
<1> SUFFICES ASSUME ~wakes PROVE DrainInv'
  BY DEF DrainInv
<1>1. PromisedSafe'
  BY DEF DrainInv, PromisedSafe
<1>2. ExitBehind'
  BY DEF DrainInv, ExitBehind
<1> QED
  BY <1>1, <1>2 DEF DrainInv

\* A worker that looks into the NORMAL lane finds a message there, and is the
\* only one to look.
LEMMA LookerFinds ==
  ASSUME ServingInv, NEW g \in Gens, wpc[g] = "lookNormal", ~misused
  PROVE  normal # <<>> /\ created /\ g = m_thread /\ \A h \in Gens : wpc[h] = "lookNormal" => h = g
<1>t. TypeInv /\ ControlInv /\ BellInv /\ ServeInv
  BY DEF ServingInv, MessageInv, QueueInv
<1>1. g = m_thread /\ created /\ \A h \in Gens : wpc[h] = "lookNormal" => h = m_thread
  BY <1>t, Current
<1>2. op[g] = "none" /\ op[Owner] # "destroy" /\ \A h \in Gens : op[h] # "destroy"
  <2>1. ~Left(g)
    BY DEF Left
  <2>2. \A h \in Gens : op[h] # "none" => h = g
    BY <1>t, <1>1 DEF ControlInv
  <2>3. op[g] = "none"
    BY <1>t DEF ServeInv, HandlerExits
  <2> QED
    BY <1>t, <1>1, <2>1, <2>2, <2>3 DEF ServeInv, JoinWaits
<1>3. Count
  BY <1>t, <1>1, <1>2, TaskKinds DEF BellInv, Draining
<1>4. g \in Lookers /\ IsFiniteSet(Lookers) /\ Cardinality(Lookers) \in Nat
  BY FiniteTasks DEF Lookers
<1>5. Cardinality(Lookers) >= 1 /\ Len(normal) \in Nat
  <2>1. Cardinality(Lookers) >= 1
    BY <1>4, OneMore
  <2>2. Len(normal) \in Nat
    BY <1>t, LaneTypes
  <2> QED
    BY <2>1, <2>2
<1>6. Len(normal) >= 1
  BY <1>3, <1>4, <1>5 DEF Count
<1> QED
  BY <1>1, <1>6

\* A push lies behind what was promised, and a worker that looks into the
\* NORMAL lane finds what it did before.
LEMMA DrainPush ==
  ASSUME ServingInv, DrainInv, NEW c \in Tasks, Push(c), wakes' = wakes, Running
  PROVE  DrainInv'
<1> SUFFICES ASSUME ~wakes PROVE DrainInv'
  BY DEF DrainInv
<1>t. /\ high \in Seq(Nat) /\ normal \in Seq(Nat) /\ msgs \in Seq(Message) /\ DOMAIN msgs = 1 .. Len(msgs)
      /\ NewId = Len(msgs) + 1 /\ Len(msgs) \in Nat /\ promised \subseteq DOMAIN msgs
      /\ Len(normal) \in Nat /\ DOMAIN normal = 1 .. Len(normal) /\ TypeInv /\ ControlInv /\ BellInv
  BY LaneTypes DEF ServingInv, MessageInv, QueueInv, TypeInv
<1>m. /\ created /\ UNCHANGED <<m_thread, m_discard, promised, wpc, cur, op>>
      /\ \/ c = Owner /\ normal' = Append(normal, EXIT) /\ UNCHANGED <<high, msgs>>
         \/ \E l \in Lanes : /\ msgs' = Append(msgs, [lane |-> l, fate |-> "queued"])
                             /\ l = "HIGH" => high' = Append(high, NewId) /\ normal' = normal
                             /\ l # "HIGH" => normal' = Append(normal, NewId) /\ high' = high
  BY PushMoves DEF ServingInv, flagVars, workerVars
<1>1. \A i \in promised : msgs'[i] = msgs[i]
  <2>1. CASE msgs' = msgs
    BY <2>1
  <2>2. ASSUME NEW l \in Lanes, msgs' = Append(msgs, [lane |-> l, fate |-> "queued"]) PROVE \A i \in promised : msgs'[i] = msgs[i]
    <3>1. \A i \in DOMAIN msgs : Append(msgs, [lane |-> l, fate |-> "queued"])[i] = msgs[i]
      BY ONLY <1>t
    <3> QED
      BY <1>t, <2>2, <3>1
  <2> QED
    BY <1>m, <2>1, <2>2
<1>2. PromisedSafe'
  BY <1>m, <1>1 DEF DrainInv, PromisedSafe, ExitTaken
<1>3. EXIT \notin promised /\ NewId \notin promised /\ EXIT \in Nat /\ NewId \in Nat
  BY <1>t DEF EXIT
<1>4. ExitBehind'
  <2>1. CASE normal' = normal
    BY <1>m, <2>1 DEF DrainInv, ExitBehind
  <2>2. ASSUME NEW id \in Nat, id \notin promised, normal' = Append(normal, id) PROVE ExitBehind'
    <3>1. /\ DOMAIN Append(normal, id) = 1 .. Len(normal) + 1 /\ Append(normal, id)[Len(normal) + 1] = id
          /\ \A k \in DOMAIN normal : Append(normal, id)[k] = normal[k]
      BY <1>t
    <3> SUFFICES ASSUME NEW j \in 1 .. Len(normal) + 1, NEW k \in 1 .. Len(normal) + 1,
                        normal'[j] = EXIT, normal'[k] \in promised
                 PROVE  k < j
      BY <1>m, <2>2, <3>1 DEF ExitBehind
    <3>2. k \in DOMAIN normal /\ normal[k] \in promised
      BY <1>t, <2>2, <3>1
    <3>3. CASE j = Len(normal) + 1
      BY <1>t, <3>2, <3>3
    <3>4. CASE j # Len(normal) + 1
      <4>1. j \in DOMAIN normal
        BY <1>t, <3>4
      <4> QED
        BY <2>2, <3>1, <3>2, <4>1 DEF DrainInv, ExitBehind
    <3> QED
      BY <3>3, <3>4
  <2> QED
    BY <1>m, <1>3, <2>1, <2>2 DEF Lanes
<1>5. LookerSafe'
  <2> SUFFICES ASSUME NEW g \in Gens, wpc[g] = "lookNormal", normal' # <<>>, Head(normal') = EXIT, NEW k \in DOMAIN high'
               PROVE  high'[k] \notin promised
    BY <1>m DEF LookerSafe
  <2>1. normal # <<>>
    BY LookerFinds DEF Running
  <2>2. Head(normal) = EXIT
    <3>1. normal' = normal \/ \E id \in Nat : normal' = Append(normal, id)
      BY <1>m, <1>3
    <3>2. \A id \in Nat : Head(Append(normal, id)) = Head(normal)
      BY <1>t, <2>1
    <3> QED
      BY <3>1, <3>2
  <2>3. \A i \in DOMAIN high : high[i] \notin promised
    BY <2>1, <2>2 DEF DrainInv, LookerSafe
  <2>4. \A i \in DOMAIN Append(high, NewId) : Append(high, NewId)[i] = NewId \/ (i \in DOMAIN high /\ Append(high, NewId)[i] = high[i])
    BY <1>t
  <2> QED
    BY <1>m, <1>3, <2>3, <2>4
<1>6. NeverTimesOut'
  BY <1>m DEF DrainInv, NeverTimesOut
<1> QED
  BY <1>2, <1>4, <1>5, <1>6 DEF DrainInv

\* A promised message that is taken is taken for good; the exit message is
\* taken when no promised one is queued any more.
LEMMA DrainReceive ==
  ASSUME ServingInv, DrainInv, NEW g \in Gens, Receive(g) \/ ReceiveNormal(g), wakes' = wakes, Running
  PROVE  DrainInv'
<1> SUFFICES ASSUME ~wakes PROVE DrainInv'
  BY DEF DrainInv
<1>t. /\ high \in Seq(Nat) /\ normal \in Seq(Nat) /\ TypeInv /\ ControlInv /\ MessageInv /\ ServeInv
      /\ promised \subseteq DOMAIN msgs /\ wpc \in [Gens -> Places] /\ cur \in [Gens -> Nat]
      /\ \A m \in DOMAIN msgs : msgs[m] \in Message /\ m # EXIT
  BY LaneTypes DEF ServingInv, MessageInv, QueueInv, TypeInv
<1>g. /\ g = m_thread /\ UNCHANGED <<m_thread, m_discard, promised, op>>
      /\ \A h \in Gens : wpc[h] = "lookNormal" => h = g
  <2>1. wpc[g] = "lookNormal" \/ (wpc[g] = "loop" /\ created)
    BY DEF Receive, ReceiveNormal
  <2>2. UNCHANGED <<m_thread, m_discard, promised, op>>
    BY DEF Receive, ReceiveNormal, flagVars
  <2>3. g = m_thread /\ \A h \in Gens : wpc[h] = "lookNormal" => h = m_thread
    BY <1>t, <2>1, Current
  <2> QED
    BY <2>2, <2>3
<1>1. CASE Unmoved /\ high = <<>> /\ wpc' = [wpc EXCEPT ![g] = "lookNormal"] /\ wpc[g] = "loop"
  <2>1. PromisedSafe' /\ ExitBehind' /\ NeverTimesOut'
    BY <1>t, <1>g, <1>1 DEF DrainInv, PromisedSafe, ExitTaken, ExitBehind, NeverTimesOut, Unmoved
  <2>2. LookerSafe'
    BY <1>1 DEF LookerSafe, Unmoved
  <2> QED
    BY <2>1, <2>2 DEF DrainInv
<1>2. ASSUME NEW m \in Nat, Turned(msgs, msgs', {m}, "taken"), m # EXIT => m \in DOMAIN msgs /\ msgs[m].fate = "queued",
             wpc' = [wpc EXCEPT ![g] = "popped"], cur' = [cur EXCEPT ![g] = m],
             m = EXIT => \A i \in promised : msgs[i].fate # "queued"
      PROVE  PromisedSafe' /\ NeverTimesOut' /\ \A h \in Gens : wpc'[h] # "lookNormal"
  <2>1. wpc'[g] = "popped" /\ cur'[g] = m /\ \A h \in Gens : h # g => wpc'[h] = wpc[h]
    BY <1>t, <1>2
  <2>2. NeverTimesOut' /\ \A h \in Gens : wpc'[h] # "lookNormal"
    BY <1>g, <2>1 DEF DrainInv, NeverTimesOut
  <2>3. ASSUME NEW i \in promised
        PROVE  /\ msgs'[i].fate \notin {"canceled", "lost"}
               /\ msgs'[i].fate \in {"queued", "taken"} => op[Owner] = "join" /\ ~m_discard
               /\ msgs'[i].fate = "queued" => ~ExitTaken'
    <3>1. msgs'[i].fate = IF i = m THEN "taken" ELSE msgs[i].fate
      BY <1>t, <1>2 DEF Turned
    <3>2. msgs[i].fate \notin {"canceled", "lost"} /\ (msgs[i].fate \in {"queued", "taken"} => op[Owner] = "join" /\ ~m_discard)
      BY DEF DrainInv, PromisedSafe
    <3>3. i = m => msgs[i].fate = "queued"
      BY <1>t, <1>2
    <3>4. msgs'[i].fate = "queued" => m # EXIT
      BY <1>2, <3>1
    <3>5. m # EXIT => ~ExitTaken'
      BY <1>g, <2>1 DEF ExitTaken
    <3> QED
      BY <3>1, <3>2, <3>3, <3>4, <3>5
  <2> QED
    BY <1>g, <2>2, <2>3 DEF PromisedSafe
<1>3. ASSUME NEW m \in DOMAIN msgs, high # <<>>, m = Head(high), high' = Tail(high), normal' = normal,
             msgs[m].fate = "queued", m # EXIT,
             Turned(msgs, msgs', {m}, "taken"), cur' = [cur EXCEPT ![g] = m], wpc' = [wpc EXCEPT ![g] = "popped"]
      PROVE  DrainInv'
  <2>1. m \in Nat
    BY <1>3, LaneTypes, <1>t
  <2>2. PromisedSafe' /\ NeverTimesOut' /\ LookerSafe'
    BY <1>2, <1>3, <2>1 DEF LookerSafe
  <2>3. ExitBehind'
    BY <1>g, <1>3 DEF DrainInv, ExitBehind
  <2> QED
    BY <2>2, <2>3 DEF DrainInv
<1>4. ASSUME NEW m \in Nat, wpc[g] = "lookNormal", normal # <<>>, m = Head(normal), normal' = Tail(normal), high' = high,
             m # EXIT => m \in DOMAIN msgs /\ msgs[m].fate = "queued",
             Turned(msgs, msgs', {m}, "taken"), cur' = [cur EXCEPT ![g] = m], wpc' = [wpc EXCEPT ![g] = "popped"]
      PROVE  DrainInv'
  <2>1. Head(normal) = normal[1] /\ 1 \in DOMAIN normal /\ DOMAIN normal = 1 .. Len(normal) /\ Len(normal) \in Nat
    BY <1>t, <1>4
  <2>2. ASSUME m = EXIT, NEW i \in promised PROVE msgs[i].fate # "queued"
    <3> SUFFICES ASSUME msgs[i].fate = "queued" PROVE FALSE
      OBVIOUS
    <3>1. msgs[i].lane \in {"HIGH", "NORMAL"} /\ i \in DOMAIN msgs
      BY <1>t DEF Message, Lanes
    <3>2. CASE msgs[i].lane = "HIGH"
      <4>1. PICK k \in DOMAIN high : high[k] = i
        BY <1>t, <3>1, <3>2 DEF MessageInv, LanesExact, LaneExact
      <4> QED
        BY <1>4, <2>2, <4>1 DEF DrainInv, LookerSafe
    <3>3. CASE msgs[i].lane = "NORMAL"
      <4>1. PICK k \in DOMAIN normal : normal[k] = i
        BY <1>t, <3>1, <3>3 DEF MessageInv, LanesExact, LaneExact
      <4>2. k < 1
        BY <1>4, <2>1, <2>2, <4>1 DEF DrainInv, ExitBehind
      <4> QED
        BY <2>1, <4>1, <4>2
    <3> QED
      BY <3>1, <3>2, <3>3
  <2>3. PromisedSafe' /\ NeverTimesOut' /\ LookerSafe'
    BY <1>2, <1>4, <2>2 DEF LookerSafe
  <2>4. ExitBehind'
    <3>1. /\ Len(Tail(normal)) = Len(normal) - 1 /\ DOMAIN Tail(normal) = 1 .. Len(normal) - 1
          /\ \A k \in 1 .. Len(normal) - 1 : Tail(normal)[k] = normal[k + 1]
      <4>1. Tail(normal) \in Seq(Nat) /\ Len(Tail(normal)) = Len(normal) - 1
            /\ \A k \in 1 .. Len(Tail(normal)) : Tail(normal)[k] = normal[k + 1]
        BY <1>t, <1>4, HeadTailProperties
      <4> QED
        BY <4>1
    <3> SUFFICES ASSUME NEW j \in 1 .. Len(normal) - 1, NEW k \in 1 .. Len(normal) - 1,
                        normal[j + 1] = EXIT, normal[k + 1] \in promised
                 PROVE  k < j
      BY <1>g, <1>4, <3>1 DEF ExitBehind
    <3>2. j + 1 \in DOMAIN normal /\ k + 1 \in DOMAIN normal
      BY <2>1
    <3>3. k + 1 < j + 1
      BY <3>2 DEF DrainInv, ExitBehind
    <3> QED
      BY <2>1, <3>3
  <2> QED
    BY <2>3, <2>4 DEF DrainInv
<1>5. CASE Receive(g)
  BY <1>1, <1>3, <1>5, <1>t, ReceiveMoves
<1>6. CASE ReceiveNormal(g)
  <2>1. wpc[g] = "lookNormal" /\ normal # <<>>
    BY <1>6, <1>t, ReceiveNormalMoves, LookerFinds DEF Running
  <2>2. /\ high' = high
        /\ \/ normal = <<>> /\ Unmoved /\ wpc' = [wpc EXCEPT ![g] = "timedOut"]
           \/ \E m \in Nat :
                /\ normal # <<>> /\ m = Head(normal) /\ normal' = Tail(normal)
                /\ m # EXIT => m \in DOMAIN msgs /\ msgs[m].lane = "NORMAL" /\ msgs[m].fate = "queued"
                /\ Turned(msgs, msgs', {m}, "taken")
                /\ cur' = [cur EXCEPT ![g] = m] /\ wpc' = [wpc EXCEPT ![g] = "popped"]
    BY <1>6, <1>t, ReceiveNormalMoves
  <2>3. PICK m \in Nat :
          /\ m = Head(normal) /\ normal' = Tail(normal)
          /\ m # EXIT => m \in DOMAIN msgs /\ msgs[m].lane = "NORMAL" /\ msgs[m].fate = "queued"
          /\ Turned(msgs, msgs', {m}, "taken")
          /\ cur' = [cur EXCEPT ![g] = m] /\ wpc' = [wpc EXCEPT ![g] = "popped"]
    BY <2>1, <2>2
  <2> QED
    BY <1>4, <2>1, <2>2, <2>3
<1> QED
  BY <1>5, <1>6

\* With no call of ExitThread that waits for Run, no promised message is under way.
LEMMA DrainSettled ==
  ASSUME DrainInv, op[Owner] # "join", UNCHANGED <<wakes, promised>>, NeverTimesOut => NeverTimesOut',
         msgs' = msgs \/ \E f : Turned(msgs, msgs', QueuedIds, f),
         promised \subseteq DOMAIN msgs,
         normal' = normal \/ normal' = <<>>, high' = high \/ high' = <<>>, LookerSafe'
  PROVE  DrainInv'
<1> SUFFICES ASSUME ~wakes PROVE DrainInv'
  BY DEF DrainInv
<1>1. PICK N : msgs' = N
  OBVIOUS
<1>2. \A i \in promised : msgs[i].fate \notin {"queued", "taken"}
  BY DEF DrainInv, PromisedSafe
<1>3. \A i \in promised : N[i].fate = msgs[i].fate
  BY <1>1, <1>2 DEF Turned, QueuedIds
<1>4. NeverTimesOut'
  BY DEF DrainInv
<1> QED
  BY <1>1, <1>2, <1>3, <1>4, DrainKept

\* Join finds the worker gone, with all that was promised taken before it left.
LEMMA DrainJoin ==
  ASSUME ServingInv, DrainInv, Join, wakes' = wakes
  PROVE  DrainInv'
<1> SUFFICES ASSUME ~wakes PROVE DrainInv'
  BY DEF DrainInv
<1>t. TypeInv /\ ControlInv /\ ServeInv /\ HeldExact /\ promised \subseteq DOMAIN msgs
  BY DEF ServingInv, MessageInv, QueueInv, TypeInv
<1>1. m_exitSem /\ op[Owner] = "join" /\ UNCHANGED <<high, normal, msgs, promised, wpc>>
  BY DEF Join, queueVars, msgVars, workerVars
<1>2. m_thread \in Gens /\ wpc[m_thread] \in {"leaving", "dead"}
  <2>1. m_thread = gen /\ m_thread # 0 /\ gen \in 0 .. MaxStarts
    BY <1>t, <1>1 DEF TypeInv, ControlInv, Exiting
  <2>2. m_thread \in Gens /\ Left(m_thread)
    BY <1>t, <1>1, <2>1, TaskKinds DEF ServeInv, JoinWaits, Gens
  <2>3. wpc[m_thread] # "none"
    BY <1>t, <2>1, <2>2, TaskKinds DEF ControlInv, Gens
  <2> QED
    BY <2>2, <2>3 DEF Left
<1>3. ASSUME NEW i \in promised PROVE msgs[i].fate \notin {"queued", "taken"}
  <2>1. msgs[i].fate # "queued"
    BY <1>2 DEF DrainInv, PromisedSafe, ExitTaken
  <2>2. ASSUME msgs[i].fate = "taken" PROVE FALSE
    <3>1. PICK g \in Gens : cur[g] = i
      BY <1>t, <2>2 DEF HeldExact
    <3>2. i # EXIT
      BY <1>t, LaneTypes
    <3>3. wpc[g] = "popped"
      BY <1>t, <2>2, <3>1, <3>2 DEF HeldExact
    <3>4. g = m_thread
      BY <1>t, <3>3, Current
    <3> QED
      BY <1>2, <3>3, <3>4
  <2> QED
    BY <2>1, <2>2
<1>4. LookerSafe' /\ NeverTimesOut'
  BY <1>1 DEF DrainInv, LookerSafe, NeverTimesOut
<1>5. PICK N : msgs' = N
  OBVIOUS
<1> QED
  BY <1>1, <1>3, <1>4, <1>5, DrainKept

\* The promise is given when the worker has not been sent its exit message.
LEMMA DrainRequest ==
  ASSUME ServingInv, DrainInv, ExitRequest(Owner), wakes' = wakes
  PROVE  DrainInv'
<1> SUFFICES ASSUME ~wakes PROVE DrainInv'
  BY DEF DrainInv
<1>t. TypeInv /\ ControlInv /\ ServeInv /\ op \in [Exiters -> {"none", "started", "join", "drain", "destroy"}]
  BY DEF ServingInv, MessageInv, QueueInv, TypeInv
<1>1. /\ created /\ op[Owner] = "none" /\ op' = [op EXCEPT ![Owner] = "join"]
      /\ UNCHANGED <<high, normal, msgs, m_thread, wpc, cur>>
      /\ \E discard \in BOOLEAN : m_discard' = discard /\ promised' = IF discard THEN promised ELSE promised \cup Accepted
  BY DEF ExitRequest, MayExit, queueVars
<1>2. op'[Owner] = "join"
  BY <1>1, <1>t, TaskKinds
<1>3. ~ExitTaken /\ ~ExitSent
  <2>1. ~m_exitSem /\ CurrentExits /\ ~ExitSent
    BY <1>t, <1>1 DEF ServeInv, JoinWaits
  <2>2. wpc[m_thread] # "exiting" /\ ~(wpc[m_thread] = "popped" /\ cur[m_thread] = EXIT) /\ ~Left(m_thread)
    BY <1>1, <2>1 DEF CurrentExits
  <2> QED
    BY <2>1, <2>2 DEF ExitTaken, Left
<1>4. \A i \in promised : msgs[i].fate \notin {"queued", "taken", "canceled", "lost"}
  BY <1>1 DEF DrainInv, PromisedSafe
<1>5. \A i \in Accepted : msgs[i].fate = "queued"
  BY DEF Accepted
<1>6. PromisedSafe'
  <2>1. ~ExitTaken'
    BY <1>1, <1>3 DEF ExitTaken
  <2> QED
    BY <1>1, <1>2, <1>4, <1>5, <2>1 DEF PromisedSafe
<1>7. ExitBehind' /\ LookerSafe' /\ NeverTimesOut'
  <2>1. \A k \in DOMAIN normal : normal[k] # EXIT
    BY <1>3 DEF ExitSent
  <2>2. normal # <<>> => Head(normal) # EXIT
    <3>1. normal # <<>> => Head(normal) = normal[1] /\ 1 \in DOMAIN normal
      BY <1>t, LaneTypes
    <3> QED
      BY <2>1, <3>1
  <2> QED
    BY <1>1, <2>1, <2>2 DEF DrainInv, ExitBehind, LookerSafe, NeverTimesOut
<1> QED
  BY <1>6, <1>7 DEF DrainInv

\* What a worker does besides looking for messages keeps the promises.
LEMMA DrainWork ==
  ASSUME ServingInv, DrainInv, NEW g \in Gens, WorkerStep(g), ~Receive(g), ~ReceiveNormal(g), wakes' = wakes
  PROVE  DrainInv'
<1> SUFFICES ASSUME ~wakes PROVE DrainInv'
  BY DEF DrainInv
<1> USE DEF WGoto, flagVars, msgVars, callVars, workerVars, queueVars
<1>t. /\ TypeInv /\ ControlInv /\ ServeInv /\ HeldExact /\ MessageInv /\ promised \subseteq DOMAIN msgs
      /\ wpc \in [Gens -> Places] /\ cur \in [Gens -> Nat]
      /\ \A m \in DOMAIN msgs : m # EXIT
  BY LaneTypes DEF ServingInv, MessageInv, QueueInv, TypeInv
<1>n. \A h \in Gens : wpc[h] \notin {"timedOut", "idling"}
  BY DEF DrainInv, NeverTimesOut
<1>1. CASE StartHandlerDone(g)
  <2>1. wpc[g] = "starting" /\ op[g] = "none"
    BY <1>1 DEF StartHandlerDone, HandlerFree
  <2>2. ~selfExit[g]
    BY <1>t, <2>1, Current DEF CurrentExits
  <2>3. wpc' = [wpc EXCEPT ![g] = "loop"] /\ UNCHANGED <<msgs, cur, high, normal, promised, m_discard, m_thread, op>>
    BY <1>1, <2>2 DEF StartHandlerDone, Loop
  <2>4. ExitTaken' => ExitTaken
    BY <1>t, <2>1, <2>3 DEF ExitTaken
  <2>5. \A i \in promised : msgs'[i].fate = msgs[i].fate /\ msgs[i].fate \notin {"canceled", "lost"}
    BY <2>3 DEF DrainInv, PromisedSafe
  <2> QED
    BY <2>3, <2>4, <2>5, DrainWorker
<1>2. CASE Act(g)
  <2>1. wpc[g] = "popped" /\ UNCHANGED <<high, normal, promised, m_discard, m_thread, op>>
    BY <1>2, <1>t, ActMoves
  <2>2. \E place \in {"exiting", "loop", "handling"} : wpc' = [wpc EXCEPT ![g] = place] /\ (place = "exiting" => cur[g] = EXIT)
                                                     /\ \A h \in Gens : h # g => cur'[h] = cur[h]
    BY <1>2, <1>t, ActMoves DEF Unmoved
  <2>3. m_thread \in Gens => (ExitTaken' => ExitTaken)
    BY <1>t, <2>1, <2>2 DEF ExitTaken
  <2>4. ASSUME NEW i \in promised
        PROVE  /\ msgs'[i].fate \notin {"canceled", "lost"}
               /\ msgs'[i].fate \in {"queued", "taken"} => msgs'[i].fate = msgs[i].fate
    <3>1. \/ msgs'[i].fate = msgs[i].fate
          \/ msgs'[i].fate = "running"
          \/ i = cur[g] /\ cur[g] # EXIT /\ m_discard
      BY <1>2, <1>t, ActMoves DEF Unmoved, Turned
    <3>2. msgs[i].fate \notin {"canceled", "lost"} /\ (msgs[i].fate = "taken" => ~m_discard)
      BY DEF DrainInv, PromisedSafe
    <3>3. i = cur[g] /\ cur[g] # EXIT => msgs[i].fate = "taken"
      BY <1>t, <2>1 DEF HeldExact
    <3> QED
      BY <3>1, <3>2, <3>3
  <2> QED
    BY <2>1, <2>2, <2>3, <2>4, DrainWorker
<1>3. CASE HandlerDone(g)
  <2>1. /\ wpc[g] = "handling" /\ op[g] = "none" /\ UNCHANGED <<high, normal, promised, m_discard, m_thread, op>>
        /\ Turned(msgs, msgs', {cur[g]}, "invoked") /\ cur' = [cur EXCEPT ![g] = EXIT]
        /\ \/ selfExit[g] /\ wpc' = [wpc EXCEPT ![g] = "dead"]
           \/ ~selfExit[g] /\ wpc' = [wpc EXCEPT ![g] = "loop"]
    BY <1>3, <1>t, DoneMoves
  <2>2. g = m_thread => ~selfExit[g]
    BY <1>t, <2>1, TaskKinds DEF ControlInv, ServeInv, CurrentExits
  <2>3. m_thread \in Gens => (ExitTaken' => ExitTaken)
    BY <1>t, <2>1, <2>2 DEF ExitTaken
  <2>4. \A i \in promised : /\ msgs'[i].fate \notin {"canceled", "lost"}
                            /\ msgs'[i].fate \in {"queued", "taken"} => msgs'[i].fate = msgs[i].fate
    BY <1>t, <2>1 DEF DrainInv, PromisedSafe, Turned
  <2>5. \E place \in {"dead", "loop"} : wpc' = [wpc EXCEPT ![g] = place]
    BY <2>1
  <2> QED
    BY <2>1, <2>3, <2>4, <2>5, DrainWorker
<1>4. CASE SignalExit(g) \/ Leave(g)
  <2>1. /\ UNCHANGED <<msgs, cur, high, normal, promised, m_discard, m_thread, op>>
        /\ \E place \in {"leaving", "dead"} : wpc' = [wpc EXCEPT ![g] = place]
        /\ wpc[g] \in {"exiting", "leaving"}
    BY <1>4 DEF SignalExit, Leave
  <2>2. m_thread \in Gens => (ExitTaken' => ExitTaken)
    BY <1>t, <2>1 DEF ExitTaken
  <2>3. \A i \in promised : msgs'[i].fate = msgs[i].fate /\ msgs[i].fate \notin {"canceled", "lost"}
    BY <2>1 DEF DrainInv, PromisedSafe
  <2> QED
    BY <2>1, <2>2, <2>3, DrainWorker
<1>5. CASE ReceiveFromNothing(g)
  BY <1>5, DrainFrame DEF ReceiveFromNothing, Misuse
<1>6. CASE ReceiveTimesOut(g) \/ ExitNoticed(g) \/ RunIdle(g) \/ IdleHandlerDone(g)
  BY <1>6, <1>n DEF ReceiveTimesOut, ExitNoticed, RunIdle, IdleHandlerDone
<1> QED
  BY <1>1, <1>2, <1>3, <1>4, <1>5, <1>6 DEF WorkerStep

\* Every step keeps the promises, as long as one worker serves.
LEMMA DrainStep ==
  ASSUME ServingInv, DrainInv, [Next]_vars
  PROVE  DrainInv'
<1>t. /\ TypeInv /\ ControlInv /\ ServeInv /\ MessageInv /\ promised \subseteq DOMAIN msgs
      /\ wpc \in [Gens -> Places] /\ op \in [Exiters -> {"none", "started", "join", "drain", "destroy"}]
  BY DEF ServingInv, MessageInv, QueueInv, TypeInv
<1> USE DEF Goto, WGoto, Return, flagVars, msgVars, callVars, workerVars, queueVars
<1>0. CASE UNCHANGED vars
  BY <1>0, DrainFrame DEF vars, configVars
<1> SUFFICES ASSUME Next PROVE DrainInv'
  BY <1>0
<1>r. Running /\ wakes' = wakes
  BY DEF Next, Running, configVars
<1>1. CASE CreateThread
  <2>1. op[Owner] # "join" /\ normal' = <<>> /\ high' = <<>> /\ UNCHANGED <<msgs, promised>>
        /\ wpc' = [wpc EXCEPT ![gen + 1] = "starting"]
    BY <1>1 DEF CreateThread, Create
  <2>2. NeverTimesOut => NeverTimesOut'
    BY <1>t, <2>1 DEF LookerSafe, NeverTimesOut
  <2>3. LookerSafe'
    BY <2>1 DEF LookerSafe
  <2>4. CASE wakes
    BY <1>r, <2>4 DEF DrainInv
  <2>5. CASE ~wakes
    BY <1>r, <1>t, <2>1, <2>2, <2>3, <2>5, DrainSettled
  <2> QED
    BY <2>4, <2>5
<1>2. CASE CreateThreadReturns
  <2>1. op[Owner] # "join" /\ UNCHANGED <<high, normal, msgs, promised, wpc, cur, m_discard, m_thread>>
    BY <1>2 DEF CreateThreadReturns
  <2> QED
    BY <1>r, <2>1, DrainFrame
<1>3. CASE Join
  BY <1>3, <1>r, DrainJoin
<1>4. ASSUME NEW c \in Callers, Dispatch(c) PROVE DrainInv'
  BY <1>4, <1>r, DrainFrame DEF Dispatch
<1>5. ASSUME NEW c \in Tasks, SendStep(c) PROVE DrainInv'
  <2>1. CASE Push(c)
    BY <1>r, <2>1, DrainPush
  <2>2. CASE ~Push(c)
    BY <1>5, <1>r, <2>2, DrainFrame DEF SendStep, RingBell, Ring, SendToNothing, Misuse, DropFull, FaultFull, WaitNotFull, TimeoutFull
  <2> QED
    BY <2>1, <2>2
<1>6. ASSUME NEW g \in Gens, WorkerStep(g) PROVE DrainInv'
  BY <1>6, <1>r, DrainReceive, DrainWork
<1>7. CASE ExitRequest(Owner)
  BY <1>7, <1>r, DrainRequest
<1>8. ASSUME NEW e \in Gens, ExitRequest(e) PROVE DrainInv'
  <2>1. op[Owner] # "join" /\ UNCHANGED <<high, normal, msgs, promised, wpc>>
    BY <1>8, TaskKinds DEF ExitRequest, MayExit
  <2>2. (NeverTimesOut => NeverTimesOut') /\ (LookerSafe => LookerSafe')
    BY <2>1 DEF NeverTimesOut, LookerSafe
  <2>3. CASE wakes
    BY <1>r, <2>3 DEF DrainInv
  <2>4. CASE ~wakes
    <3>1. LookerSafe'
      BY <2>2, <2>4 DEF DrainInv
    <3> QED
      BY <1>r, <1>t, <2>1, <2>2, <2>4, <3>1, DrainSettled
  <2> QED
    BY <2>3, <2>4
<1>9. ASSUME NEW e \in Exiters, ExitStep(e) PROVE DrainInv'
  <2>1. op[Owner] # "join"
    BY <1>9, <1>t, TaskKinds DEF ExitStep, DrainAndDelete, DestroyQueue, ControlInv, Exiting
  <2>2. /\ high' = <<>> /\ normal' = <<>> /\ UNCHANGED <<wpc, promised>>
        /\ \E f \in {"canceled", "lost"} : Turned(msgs, msgs', QueuedIds, f)
    BY <1>9, <1>t, EmptyMoves DEF ExitStep
  <2>3. LookerSafe' /\ (NeverTimesOut => NeverTimesOut')
    BY <2>2 DEF LookerSafe, NeverTimesOut
  <2>4. CASE wakes
    BY <1>r, <2>4 DEF DrainInv
  <2>5. CASE ~wakes
    BY <1>r, <1>t, <2>1, <2>2, <2>3, <2>5, DrainSettled
  <2> QED
    BY <2>4, <2>5
<1> HIDE DEF Goto, WGoto, Return, flagVars, msgVars, callVars, workerVars, queueVars
<1> QED
  BY <1>1, <1>2, <1>3, <1>4, <1>5, <1>6, <1>7, <1>8, <1>9, TaskKinds DEF Next

\* Nothing is promised in the beginning, and every promise is kept by a
\* message that is neither canceled nor lost with the queue.
LEMMA DrainFacts == (Init => DrainInv) /\ (DrainInv => DrainHonouredWhenBlocking)
<1>1. Init => DrainInv
  BY DEF Init, QueueInit, DrainInv, PromisedSafe, ExitBehind, LookerSafe, NeverTimesOut
<1>2. DrainInv => DrainHonouredWhenBlocking
  BY DEF DrainInv, PromisedSafe, DrainHonouredWhenBlocking, DrainHonoured, Honoured
<1> QED
  BY <1>1, <1>2

(* ExitThread(DRAIN) invokes every message queued before the call, whoever   *)
(* sends, starts and exits the thread from wherever, as long as Receive      *)
(* waits for ever, no start or idle handler exits the thread, and the owner  *)
(* starts a worker only when the earlier ones have left or been told to.     *)
THEOREM DrainHolds ==
  ASSUME SelfExits \subseteq {"handling"}
  PROVE  Spec /\ [][StartsInTurn]_vars => []DrainHonouredWhenBlocking
<1>1. MessageInv /\ ServeInv /\ DrainInv /\ [Next]_vars => DrainInv'
  BY DrainStep DEF ServingInv
<1> QED
  BY <1>1, DrainFacts, MessageInvHolds, ServeInvHolds, PTL DEF Spec

(* It does so without that discipline of the owner when no handler exits the *)
(* thread, or no third worker is started.                                   *)
THEOREM DrainHoldsForTwo ==
  ASSUME SelfExits = {} \/ (SelfExits \subseteq {"handling"} /\ MaxStarts <= 2)
  PROVE  Spec => []DrainHonouredWhenBlocking
<1>1. SelfExits \subseteq {"handling"}
  OBVIOUS
<1>2. Spec => [][StartsInTurn]_vars
  BY SpecInTurn
<1>3. Spec /\ [][StartsInTurn]_vars => []DrainHonouredWhenBlocking
  BY <1>1, DrainHolds
<1> QED
  BY <1>2, <1>3, PTL

---------------------------------------------------------------------------
(* The thread implements Executor.  AbsOf(M, L) is what Executor sees of the  *)
(* messages M while the worker looks for those in L: it has settled on them  *)
(* before it takes them off the NORMAL lane, and what goes down with the     *)
(* queue is canceled.                                                       *)

Seen(f, i, L) == IF f = "lost" THEN "canceled" ELSE IF f = "queued" /\ i \in L THEN "taken" ELSE f
AbsOf(M, L)   == [i \in DOMAIN M |-> [M[i] EXCEPT !.fate = Seen(M[i].fate, i, L)]]
LookedIds     == {i \in DOMAIN msgs : Looked(i)}

\* From M and K to N and L the fates that Executor sees of ids become f.
SeenTurned(M, K, N, L, ids, f) ==
  /\ DOMAIN N = DOMAIN M
  /\ \A m \in DOMAIN M : /\ N[m].lane = M[m].lane
                         /\ Seen(N[m].fate, m, L) = IF m \in ids THEN f ELSE Seen(M[m].fate, m, K)

\* What Executor sees of one message.
LEMMA AbsAt ==
  ASSUME NEW M, NEW L, \A m \in DOMAIN M : M[m] \in Message
  PROVE  /\ DOMAIN AbsOf(M, L) = DOMAIN M
         /\ AbsOf(M, L) = [m \in DOMAIN M |-> [lane |-> M[m].lane, fate |-> Seen(M[m].fate, m, L)]]
         /\ \A m \in DOMAIN M : AbsOf(M, L)[m] = [lane |-> M[m].lane, fate |-> Seen(M[m].fate, m, L)]
<1>1. ASSUME NEW m \in DOMAIN M, NEW f PROVE [M[m] EXCEPT !.fate = f] = [lane |-> M[m].lane, fate |-> f]
  BY DEF Message
<1> QED
  BY <1>1 DEF AbsOf

\* The fates that change in M and L change in what Executor sees.
LEMMA AbsMarked ==
  ASSUME NEW M \in Seq(Message), NEW N \in Seq(Message), NEW K, NEW L, NEW ids, NEW f,
         SeenTurned(M, K, N, L, ids, f)
  PROVE  AbsOf(N, L) = [i \in DOMAIN AbsOf(M, K) |->
                         IF i \in ids THEN [AbsOf(M, K)[i] EXCEPT !.fate = f] ELSE AbsOf(M, K)[i]]
<1> DEFINE A == AbsOf(M, K)
<1>1. /\ \A m \in DOMAIN M : M[m] \in Message
      /\ \A m \in DOMAIN N : N[m] \in Message
  OBVIOUS
<1>2. /\ DOMAIN A = DOMAIN M /\ \A m \in DOMAIN M : A[m] = [lane |-> M[m].lane, fate |-> Seen(M[m].fate, m, K)]
      /\ AbsOf(N, L) = [m \in DOMAIN M |-> [lane |-> N[m].lane, fate |-> Seen(N[m].fate, m, L)]]
  BY <1>1, AbsAt DEF SeenTurned
<1> HIDE DEF A
<1>3. ASSUME NEW m \in DOMAIN M
      PROVE  [lane |-> N[m].lane, fate |-> Seen(N[m].fate, m, L)]
               = IF m \in ids THEN [A[m] EXCEPT !.fate = f] ELSE A[m]
  <2>1. [A[m] EXCEPT !.fate = f] = [lane |-> M[m].lane, fate |-> f]
    BY <1>2
  <2> QED
    BY <1>2, <2>1 DEF SeenTurned
<1>4. AbsOf(N, L) = [m \in DOMAIN A |-> IF m \in ids THEN [A[m] EXCEPT !.fate = f] ELSE A[m]]
  BY <1>2, <1>3
<1> QED
  BY <1>4 DEF A

\* What Executor sees is the same when lanes and seen fates are.
LEMMA AbsSame ==
  ASSUME NEW M \in Seq(Message), NEW N \in Seq(Message), NEW K, NEW L, DOMAIN N = DOMAIN M,
         \A m \in DOMAIN M : N[m].lane = M[m].lane /\ Seen(N[m].fate, m, L) = Seen(M[m].fate, m, K)
  PROVE  AbsOf(N, L) = AbsOf(M, K)
<1>1. /\ \A m \in DOMAIN M : M[m] \in Message
      /\ \A m \in DOMAIN N : N[m] \in Message
  OBVIOUS
<1>2. /\ AbsOf(M, K) = [m \in DOMAIN M |-> [lane |-> M[m].lane, fate |-> Seen(M[m].fate, m, K)]]
      /\ AbsOf(N, L) = [m \in DOMAIN M |-> [lane |-> N[m].lane, fate |-> Seen(N[m].fate, m, L)]]
  BY <1>1, AbsAt
<1> QED
  BY <1>2

\* An accepted message is seen as it is.
LEMMA AbsAppends ==
  ASSUME NEW M \in Seq(Message), NEW l \in Lanes, NEW L, Len(M) + 1 \notin L
  PROVE  AbsOf(Append(M, [lane |-> l, fate |-> "queued"]), L) = Append(AbsOf(M, L), [lane |-> l, fate |-> "queued"])
<1> DEFINE r == [lane |-> l, fate |-> "queued"]
           N == Append(M, r)
           A == AbsOf(M, L)
           B == AbsOf(N, L)
<1>1. /\ r \in Message /\ N \in Seq(Message) /\ Len(M) \in Nat /\ DOMAIN M = 1 .. Len(M) /\ DOMAIN N = 1 .. Len(M) + 1
      /\ N[Len(M) + 1] = r /\ \A m \in DOMAIN M : N[m] = M[m] /\ M[m] \in Message
      /\ \A m \in DOMAIN N : N[m] \in Message
  <2>1. r \in Message
    BY DEF Message, Fates
  <2>2. N \in Seq(Message) /\ Len(N) = Len(M) + 1 /\ \A i \in 1 .. Len(M) + 1 : N[i] = IF i = Len(M) + 1 THEN r ELSE M[i]
    BY <2>1, AppendProperties
  <2> HIDE DEF N, r
  <2> QED
    BY <2>1, <2>2
<1> HIDE DEF N
<1>2. /\ DOMAIN A = 1 .. Len(M) /\ \A m \in DOMAIN M : A[m] = [lane |-> M[m].lane, fate |-> Seen(M[m].fate, m, L)]
      /\ DOMAIN B = 1 .. Len(M) + 1 /\ \A m \in DOMAIN N : B[m] = [lane |-> N[m].lane, fate |-> Seen(N[m].fate, m, L)]
  <2>1. /\ DOMAIN A = 1 .. Len(M) /\ \A m \in DOMAIN M : A[m] = [lane |-> M[m].lane, fate |-> Seen(M[m].fate, m, L)]
    BY <1>1, AbsAt
  <2>2. /\ DOMAIN B = 1 .. Len(M) + 1 /\ \A m \in DOMAIN N : B[m] = [lane |-> N[m].lane, fate |-> Seen(N[m].fate, m, L)]
    BY <1>1, AbsAt
  <2> QED
    BY <2>1, <2>2
<1>3. B[Len(M) + 1] = r
  BY <1>1, <1>2 DEF Seen
<1>f. A = [m \in 1 .. Len(M) |-> A[m]] /\ B = [m \in 1 .. Len(M) + 1 |-> B[m]]
  BY <1>2 DEF AbsOf
<1> HIDE DEF A, B
<1>4. \A m \in 1 .. Len(M) : B[m] = A[m] /\ m \in 1 .. Len(M) + 1
  BY <1>1, <1>2
<1>5. A \in Seq(Message) /\ B \in Seq(Message) /\ Len(A) = Len(M) /\ Len(B) = Len(M) + 1
  <2>1. \A x \in Message : \A m : [lane |-> x.lane, fate |-> Seen(x.fate, m, L)] \in Message
    BY DEF Message, Fates, Seen
  <2>2. (\A m \in DOMAIN A : A[m] \in Message) /\ (\A m \in DOMAIN B : B[m] \in Message) /\ Len(M) + 1 \in Nat
    <3>1. ASSUME NEW m \in DOMAIN A PROVE A[m] \in Message
      <4>1. M[m] \in Message /\ A[m] = [lane |-> M[m].lane, fate |-> Seen(M[m].fate, m, L)]
        BY <1>1, <1>2
      <4> QED
        BY <2>1, <4>1
    <3>2. ASSUME NEW m \in DOMAIN B PROVE B[m] \in Message
      <4>1. N[m] \in Message /\ B[m] = [lane |-> N[m].lane, fate |-> Seen(N[m].fate, m, L)]
        BY <1>1, <1>2
      <4> QED
        BY <2>1, <4>1
    <3> QED
      BY <1>1, <3>1, <3>2
  <2>3. A \in [1 .. Len(M) -> Message] /\ B \in [1 .. Len(M) + 1 -> Message]
    BY <1>2, <1>f, <2>2
  <2>4. A \in Seq(Message) /\ B \in Seq(Message)
    <3>1. Seq(Message) = UNION {[1 .. n -> Message] : n \in Nat}
      BY SeqDef
    <3> QED
      BY <1>1, <2>2, <2>3, <3>1
  <2> QED
    BY <1>1, <1>2, <2>2, <2>4
<1>6. B = Append(A, r)
  <2>1. Append(A, r) \in Seq(Message) /\ Len(Append(A, r)) = Len(M) + 1 /\ Append(A, r)[Len(M) + 1] = r
        /\ \A m \in 1 .. Len(M) : Append(A, r)[m] = A[m]
    BY <1>1, <1>5, AppendProperties
  <2>2. \A m \in 1 .. Len(M) + 1 : m \in 1 .. Len(M) \/ m = Len(M) + 1
    BY <1>1
  <2>3. \A m \in 1 .. Len(M) + 1 : B[m] = Append(A, r)[m]
    BY <1>3, <1>4, <2>1, <2>2
  <2> QED
    BY <1>5, <2>1, <2>3, SeqEqual
<1> QED
  BY <1>6 DEF A, B, N

\* What the worker looks for changes with the NORMAL lane and with who looks.
LEMMA LookedMoves ==
  ASSUME TypeInv, TypeInv', ServingInv, ~misused
  PROVE  /\ \A i \in LookedIds : \E g \in Gens : wpc[g] = "lookNormal" /\ normal # <<>> /\ i = Head(normal)
         /\ (\A g \in Gens : wpc[g] # "lookNormal") => LookedIds = {}
         /\ (\A g \in Gens : wpc'[g] # "lookNormal") => LookedIds' = {}
         /\ normal' = <<>> => LookedIds' = {}
         /\ \A g \in Gens : wpc[g] = "lookNormal" => LookedIds = {Head(normal)} \cap DOMAIN msgs
         /\ \A g \in Gens : wpc'[g] = "lookNormal" /\ normal' # <<>> => LookedIds' = {Head(normal')} \cap DOMAIN msgs'
         /\ \A i \in LookedIds : msgs[i].fate = "queued"
<1>1. \A i \in LookedIds : \E g \in Gens : wpc[g] = "lookNormal" /\ normal # <<>> /\ i = Head(normal)
  BY DEF LookedIds, Looked
<1>2. \A i \in LookedIds' : \E g \in Gens : wpc'[g] = "lookNormal" /\ normal' # <<>> /\ i = Head(normal')
  BY DEF LookedIds, Looked
<1>3. \A g \in Gens : wpc[g] = "lookNormal" => normal # <<>>
  BY LookerFinds
<1>4. \A g \in Gens : wpc[g] = "lookNormal" => LookedIds = {Head(normal)} \cap DOMAIN msgs
  BY <1>3 DEF LookedIds, Looked
<1>5. \A g \in Gens : wpc'[g] = "lookNormal" /\ normal' # <<>> => LookedIds' = {Head(normal')} \cap DOMAIN msgs'
  BY DEF LookedIds, Looked
<1>6. ASSUME NEW i \in LookedIds PROVE msgs[i].fate = "queued"
  <2>1. normal # <<>> /\ i = Head(normal) /\ i \in DOMAIN msgs
    BY <1>1 DEF LookedIds
  <2>2. i # EXIT /\ normal \in Seq(Nat) /\ LaneExact(normal, "NORMAL", msgs)
    BY <2>1, LaneTypes DEF ServingInv, MessageInv, LanesExact
  <2> QED
    BY <2>1, <2>2, HeadQueued
<1> QED
  BY <1>1, <1>2, <1>4, <1>5, <1>6

\* The first of a lane is the oldest queued message of that lane.
LEMMA HeadOldest ==
  ASSUME NEW M, \A m \in DOMAIN M : m \in Nat \ {EXIT}, NEW q \in Seq(Nat), NEW l, q # <<>>, LaneExact(q, l, M),
         NEW j \in DOMAIN M, M[j].fate = "queued", M[j].lane = l
  PROVE  Head(q) <= j
<1>1. Head(q) = q[1] /\ 1 \in DOMAIN q /\ \A k \in DOMAIN q : k = 1 \/ 1 < k
  OBVIOUS
<1>2. PICK k \in DOMAIN q : q[k] = j
  BY DEF LaneExact
<1>3. q[1] \in Nat /\ q[k] \in Nat
  BY <1>1
<1>4. CASE k = 1
  BY <1>1, <1>2, <1>3, <1>4
<1>5. CASE 1 < k
  <2>1. q[1] < q[k]
    BY <1>1, <1>2, <1>5 DEF LaneExact
  <2> QED
    BY <1>1, <1>2, <1>3, <2>1
<1> QED
  BY <1>1, <1>4, <1>5

\* A step of Executor from the messages X to the messages Y, or none.
SetTo(X, ids, f) == [i \in DOMAIN X |-> IF i \in ids THEN [X[i] EXCEPT !.fate = f] ELSE X[i]]
ExecutorMove(X, Y) ==
  \/ Y = X
  \/ \E l \in {"HIGH", "NORMAL"} : Y = Append(X, [lane |-> l, fate |-> "queued"])
  \/ \E m \in DOMAIN X :
       /\ X[m].fate = "queued"
       /\ \A j \in DOMAIN X : X[j].fate = "queued" /\ X[j].lane = X[m].lane => m <= j
       /\ X[m].lane = "NORMAL" => \A j \in DOMAIN X : X[j].fate = "queued" => X[j].lane = "NORMAL"
       /\ Y = SetTo(X, {m}, "taken")
  \/ \E m \in DOMAIN X : X[m].fate = "taken" /\ Y = SetTo(X, {m}, "running")
  \/ \E m \in DOMAIN X : X[m].fate = "running" /\ Y = SetTo(X, {m}, "invoked")
  \/ \E ids \in SUBSET {i \in DOMAIN X : X[i].fate \in {"queued", "taken"}} : Y = SetTo(X, ids, "canceled")

\* Every step of the thread is a step of Executor or one it does not see.
LEMMA ExecutorStep ==
  ASSUME ServingInv, TypeInv', [Next]_vars
  PROVE  ExecutorMove(AbsOf(msgs, LookedIds), AbsOf(msgs, LookedIds)')
<1> DEFINE A == AbsOf(msgs, LookedIds)
           Marked(ids, f) == SetTo(A, ids, f)
           Goal == ExecutorMove(A, A')
<1> USE DEF ExecutorMove, SetTo
<1> SUFFICES Goal
  OBVIOUS
<1>t. /\ msgs \in Seq(Message) /\ msgs' \in Seq(Message) /\ DOMAIN A = DOMAIN msgs
      /\ \A m \in DOMAIN msgs : m \in Nat \ {EXIT} /\ msgs[m].lane \in {"HIGH", "NORMAL"}
      /\ \A m \in DOMAIN msgs : A[m].lane = msgs[m].lane /\ A[m].fate = Seen(msgs[m].fate, m, LookedIds)
      /\ high \in Seq(Nat) /\ normal \in Seq(Nat) /\ wpc \in [Gens -> Places] /\ cur \in [Gens -> Nat]
      /\ TypeInv /\ MessageInv /\ HeldExact /\ LaneExact(high, "HIGH", msgs) /\ LaneExact(normal, "NORMAL", msgs)
  <2>1. /\ msgs \in Seq(Message) /\ (\A m \in DOMAIN msgs : msgs[m] \in Message /\ m \in Nat \ {EXIT})
        /\ high \in Seq(Nat) /\ normal \in Seq(Nat) /\ wpc \in [Gens -> Places] /\ cur \in [Gens -> Nat]
        /\ TypeInv /\ MessageInv /\ HeldExact /\ LaneExact(high, "HIGH", msgs) /\ LaneExact(normal, "NORMAL", msgs)
    BY LaneTypes DEF ServingInv, MessageInv, QueueInv, LanesExact
  <2>2. msgs' \in Seq(Message)
    BY DEF TypeInv
  <2>3. DOMAIN A = DOMAIN msgs /\ \A m \in DOMAIN msgs : A[m] = [lane |-> msgs[m].lane, fate |-> Seen(msgs[m].fate, m, LookedIds)]
    BY <2>1, AbsAt
  <2>4. \A m \in DOMAIN msgs : msgs[m].lane \in {"HIGH", "NORMAL"}
    BY <2>1 DEF Message, Lanes
  <2> HIDE DEF A
  <2>5. \A m \in DOMAIN msgs : A[m].lane = msgs[m].lane /\ A[m].fate = Seen(msgs[m].fate, m, LookedIds)
    BY <2>3
  <2> QED
    BY <2>1, <2>2, <2>3, <2>4, <2>5
<1>a. ASSUME NEW ids, NEW f, SeenTurned(msgs, LookedIds, msgs', LookedIds', ids, f) PROVE A' = Marked(ids, f)
  <2>1. msgs \in Seq(Message) /\ msgs' \in Seq(Message)
    BY <1>t
  <2> QED
    BY <1>a, <2>1, AbsMarked
<1>s. ASSUME DOMAIN msgs' = DOMAIN msgs,
             \A m \in DOMAIN msgs : /\ msgs'[m].lane = msgs[m].lane
                                    /\ Seen(msgs'[m].fate, m, LookedIds') = Seen(msgs[m].fate, m, LookedIds)
      PROVE  Goal
  <2>1. A' = A
    BY <1>s, <1>t, AbsSame
  <2> QED
    BY <2>1
<1>i. ASSUME msgs' = msgs, LookedIds' = LookedIds PROVE Goal
  BY <1>i, <1>s
<1>0. CASE UNCHANGED vars
  <2>1. msgs' = msgs /\ wpc' = wpc /\ normal' = normal
    BY <1>0 DEF vars, msgVars, workerVars, queueVars
  <2> QED
    BY <1>i, <2>1 DEF LookedIds, Looked
<1>r. ASSUME ~UNCHANGED vars PROVE ~misused
  BY <1>r DEF Next, Running
<1> SUFFICES ASSUME ~misused PROVE Goal
  BY <1>0, <1>r
<1>m. /\ \A i \in LookedIds : \E g \in Gens : wpc[g] = "lookNormal" /\ normal # <<>> /\ i = Head(normal)
      /\ (\A g \in Gens : wpc[g] # "lookNormal") => LookedIds = {}
      /\ (\A g \in Gens : wpc'[g] # "lookNormal") => LookedIds' = {}
      /\ normal' = <<>> => LookedIds' = {}
      /\ \A g \in Gens : wpc[g] = "lookNormal" => LookedIds = {Head(normal)} \cap DOMAIN msgs
      /\ \A g \in Gens : wpc'[g] = "lookNormal" /\ normal' # <<>> => LookedIds' = {Head(normal')} \cap DOMAIN msgs'
      /\ \A i \in LookedIds : msgs[i].fate = "queued"
  BY <1>t, LookedMoves
<1>1. ASSUME Unmoved, wpc' = wpc PROVE Goal
  BY <1>1, <1>i DEF Unmoved, LookedIds, Looked
<1>2. ASSUME NEW g \in Gens, NEW place \in Places \ {"lookNormal"}, normal' = normal, DOMAIN msgs' = DOMAIN msgs,
             wpc' = [wpc EXCEPT ![g] = place], wpc[g] # "lookNormal"
      PROVE  LookedIds' = LookedIds
  <2>1. \A h \in Gens : wpc'[h] = "lookNormal" <=> wpc[h] = "lookNormal"
    BY <1>2, <1>t
  <2> QED
    BY <1>2, <2>1 DEF LookedIds, Looked
<1>3. ASSUME NEW c \in Tasks, Push(c) PROVE Goal
  <2>1. /\ wpc' = wpc
        /\ \/ normal' = Append(normal, EXIT) /\ msgs' = msgs
           \/ \E l \in Lanes : /\ msgs' = Append(msgs, [lane |-> l, fate |-> "queued"])
                               /\ normal' = normal \/ normal' = Append(normal, NewId)
    BY <1>3, <1>t, PushMoves DEF workerVars
  <2>2. LookedIds' = LookedIds
    <3>1. CASE \A g \in Gens : wpc[g] # "lookNormal"
      BY <1>m, <2>1, <3>1
    <3>2. ASSUME NEW g \in Gens, wpc[g] = "lookNormal" PROVE LookedIds' = LookedIds
      <4>1. normal # <<>>
        BY <3>2, LookerFinds
      <4>2. normal' # <<>> /\ Head(normal') = Head(normal)
        <5>1. \A id \in Nat : Append(normal, id) # <<>> /\ Head(Append(normal, id)) = Head(normal)
          BY <1>t, <4>1
        <5>2. EXIT \in Nat /\ NewId \in Nat
          BY <1>t, LaneTypes DEF EXIT
        <5>3. normal' = normal \/ normal' = Append(normal, EXIT) \/ normal' = Append(normal, NewId)
          BY <2>1
        <5> QED
          BY <4>1, <5>1, <5>2, <5>3
      <4>3. LookedIds' = {Head(normal)} \cap DOMAIN msgs' /\ LookedIds = {Head(normal)} \cap DOMAIN msgs
        BY <1>m, <2>1, <3>2, <4>2
      <4>4. Head(normal) \in DOMAIN msgs' => Head(normal) \in DOMAIN msgs
        <5>1. Head(normal) # EXIT => Head(normal) \in DOMAIN msgs
          BY <1>t, <4>1, HeadQueued
        <5>2. EXIT \notin DOMAIN msgs'
          BY <1>t DEF EXIT
        <5> QED
          BY <5>1, <5>2
      <4>5. DOMAIN msgs \subseteq DOMAIN msgs'
        <5>1. DOMAIN msgs = 1 .. Len(msgs) /\ Len(msgs) \in Nat /\ \A r \in Message : DOMAIN Append(msgs, r) = 1 .. Len(msgs) + 1
          BY ONLY <1>t
        <5>2. msgs' = msgs \/ \E r \in Message : msgs' = Append(msgs, r)
          BY <2>1 DEF Message, Fates
        <5> QED
          BY <5>1, <5>2
      <4> QED
        BY <4>3, <4>4, <4>5
    <3> QED
      BY <3>1, <3>2
  <2>3. CASE msgs' = msgs
    BY <1>i, <2>2, <2>3
  <2>4. ASSUME NEW l \in Lanes, msgs' = Append(msgs, [lane |-> l, fate |-> "queued"]) PROVE Goal
    <3>1. Len(msgs) + 1 \notin LookedIds
      BY <1>t DEF LookedIds
    <3>2. A' = Append(A, [lane |-> l, fate |-> "queued"])
      BY <1>t, <2>2, <2>4, <3>1, AbsAppends
    <3> QED
      BY <3>2 DEF Lanes
  <2> QED
    BY <2>1, <2>3, <2>4
<1>4. ASSUME NEW m \in DOMAIN msgs, msgs[m].fate = "queued", A' = Marked({m}, "taken"), LookedIds = {},
             NEW q \in Seq(Nat), NEW l, q # <<>>, LaneExact(q, l, msgs), m = Head(q), msgs[m].lane = l,
             l = "NORMAL" => high = <<>>
      PROVE  Goal
  <2>1. \A j \in DOMAIN msgs : msgs[j].fate = "queued" /\ msgs[j].lane = msgs[m].lane => m <= j
    BY <1>4, <1>t, HeadOldest
  <2>2. ASSUME msgs[m].lane = "NORMAL", NEW j \in DOMAIN msgs, msgs[j].fate = "queued" PROVE msgs[j].lane = "NORMAL"
    <3>1. msgs[j].lane # "HIGH"
      BY <1>4, <1>t, <2>2 DEF LaneExact
    <3> QED
      BY <1>t, <3>1
  <2> HIDE DEF A
  <2>3. \A j \in DOMAIN A : A[j].fate = "queued" <=> msgs[j].fate = "queued"
    BY <1>4, <1>t DEF Seen
  <2>4. \A j \in DOMAIN A : A[j].fate = "queued" /\ A[j].lane = A[m].lane => m <= j
    BY <1>4, <1>t, <2>1, <2>3
  <2>5. A[m].lane = "NORMAL" => \A j \in DOMAIN A : A[j].fate = "queued" => A[j].lane = "NORMAL"
    BY <1>4, <1>t, <2>2, <2>3
  <2>6. m \in DOMAIN A /\ A[m].fate = "queued"
    BY <1>4, <1>t, <2>3
  <2> QED
    BY <1>4, <2>4, <2>5, <2>6
<1>5. ASSUME NEW g \in Gens, Receive(g) PROVE Goal
  <2>1. wpc[g] = "loop" /\ created /\ normal' = normal
    BY <1>5, <1>t, ReceiveMoves
  <2>2. \A h \in Gens : wpc[h] # "lookNormal"
    BY <1>t, <2>1, Current DEF ServingInv, MessageInv, QueueInv
  <2>3. LookedIds = {}
    BY <1>m, <2>2
  <2>4. CASE high = <<>> /\ Unmoved /\ wpc' = [wpc EXCEPT ![g] = "lookNormal"]
    <3>1. msgs' = msgs /\ wpc'[g] = "lookNormal"
      BY <1>t, <2>4 DEF Unmoved
    <3>2. CASE normal = <<>> \/ Head(normal) = EXIT
      <4>1. LookedIds' = {}
        BY <1>m, <1>t, <2>1, <3>1, <3>2
      <4> QED
        BY <1>i, <2>3, <3>1, <4>1
    <3>3. CASE normal # <<>> /\ Head(normal) # EXIT
      <4>1. Head(normal) \in DOMAIN msgs /\ msgs[Head(normal)].lane = "NORMAL" /\ msgs[Head(normal)].fate = "queued"
        BY <1>t, <3>3, HeadQueued
      <4>2. LookedIds' = {Head(normal)}
        BY <1>m, <2>1, <3>1, <3>3, <4>1
      <4>3. SeenTurned(msgs, {}, msgs, {Head(normal)}, {Head(normal)}, "taken")
        BY <4>1 DEF Seen, SeenTurned
      <4>4. A' = Marked({Head(normal)}, "taken")
        BY <1>a, <2>3, <3>1, <4>2, <4>3
      <4> HIDE DEF Goal, A, Marked
      <4> QED
        BY <1>4, <1>t, <2>3, <2>4, <3>3, <4>1, <4>4
    <3> QED
      BY <3>2, <3>3
  <2>5. ASSUME NEW m \in DOMAIN msgs, high # <<>>, m = Head(high), msgs[m].lane = "HIGH", msgs[m].fate = "queued",
               Turned(msgs, msgs', {m}, "taken"), wpc' = [wpc EXCEPT ![g] = "popped"]
        PROVE  Goal
    <3>1. LookedIds' = {}
      BY <1>m, <1>t, <2>2, <2>5
    <3>2. SeenTurned(msgs, {}, msgs', {}, {m}, "taken")
      BY <2>5 DEF Turned, Seen, SeenTurned
    <3>3. A' = Marked({m}, "taken")
      BY <1>a, <2>3, <3>1, <3>2
    <3> HIDE DEF Goal, A, Marked
    <3> QED
      BY <1>4, <1>t, <2>3, <2>5, <3>3
  <2> HIDE DEF Goal
  <2> QED
    BY <1>5, <1>t, <2>4, <2>5, ReceiveMoves
<1>6. ASSUME NEW g \in Gens, ReceiveNormal(g) PROVE Goal
  <2>1. wpc[g] = "lookNormal" /\ normal # <<>> /\ \A h \in Gens : wpc[h] = "lookNormal" => h = g
    BY <1>6, <1>t, ReceiveNormalMoves, LookerFinds
  <2>2. PICK m \in Nat : /\ m = Head(normal) /\ (m # EXIT => m \in DOMAIN msgs /\ msgs[m].fate = "queued")
                         /\ Turned(msgs, msgs', {m}, "taken") /\ wpc' = [wpc EXCEPT ![g] = "popped"]
    BY <1>6, <1>t, <2>1, ReceiveNormalMoves
  <2>3. LookedIds = {m} \cap DOMAIN msgs
    BY <1>m, <2>1, <2>2
  <2>4. LookedIds' = {}
    BY <1>m, <1>t, <2>1, <2>2
  <2>5. DOMAIN msgs' = DOMAIN msgs
        /\ \A j \in DOMAIN msgs : /\ msgs'[j].lane = msgs[j].lane
                                  /\ Seen(msgs'[j].fate, j, {}) = Seen(msgs[j].fate, j, {m} \cap DOMAIN msgs)
    BY <1>t, <2>2 DEF Turned, Seen
  <2> QED
    BY <1>s, <2>3, <2>4, <2>5
<1>7. ASSUME NEW g \in Gens, Act(g) PROVE Goal
  <2>1. wpc[g] = "popped" /\ normal' = normal
    BY <1>7, <1>t, ActMoves
  <2>2. CASE cur[g] = EXIT
    <3>1. Unmoved /\ wpc' = [wpc EXCEPT ![g] = "exiting"]
      BY <1>7, <1>t, <2>2, ActMoves
    <3>2. LookedIds' = LookedIds
      BY <1>2, <2>1, <3>1 DEF Unmoved, Places
    <3> QED
      BY <1>i, <3>1, <3>2 DEF Unmoved
  <2>3. CASE cur[g] # EXIT
    <3>1. PICK f \in {"canceled", "running"} :
             Turned(msgs, msgs', {cur[g]}, f) /\ \E place \in {"loop", "handling"} : wpc' = [wpc EXCEPT ![g] = place]
      BY <1>7, <1>t, <2>3, ActMoves
    <3>2. LookedIds' = LookedIds
      BY <1>2, <2>1, <3>1 DEF Turned, Places
    <3>3. cur[g] \in DOMAIN msgs /\ msgs[cur[g]].fate = "taken"
      BY <1>t, <2>1, <2>3 DEF HeldExact
    <3>4. SeenTurned(msgs, LookedIds, msgs', LookedIds, {cur[g]}, f)
      BY <3>1 DEF Turned, Seen, SeenTurned
    <3>5. A' = Marked({cur[g]}, f)
      BY <1>a, <3>2, <3>4
    <3> HIDE DEF A
    <3>6. cur[g] \in DOMAIN A /\ A[cur[g]].fate = "taken"
      BY <1>t, <3>3 DEF Seen
    <3>7. CASE f = "running"
      BY <3>5, <3>6, <3>7
    <3>8. CASE f = "canceled"
      <4>1. {cur[g]} \in SUBSET {i \in DOMAIN A : A[i].fate \in {"queued", "taken"}}
        BY <3>6
      <4> QED
        BY <3>5, <3>8, <4>1
    <3> QED
      BY <3>7, <3>8
  <2> QED
    BY <2>2, <2>3
<1>8. ASSUME NEW g \in Gens, HandlerDone(g) PROVE Goal
  <2>1. /\ wpc[g] = "handling" /\ cur[g] # EXIT /\ normal' = normal /\ Turned(msgs, msgs', {cur[g]}, "invoked")
        /\ \E place \in {"loop", "dead"} : wpc' = [wpc EXCEPT ![g] = place]
    BY <1>8, <1>t, DoneMoves
  <2>2. LookedIds' = LookedIds
    BY <1>2, <2>1 DEF Turned, Places
  <2>3. cur[g] \in DOMAIN msgs /\ msgs[cur[g]].fate = "running"
    BY <1>t, <2>1 DEF HeldExact
  <2>4. SeenTurned(msgs, LookedIds, msgs', LookedIds, {cur[g]}, "invoked")
    BY <2>1 DEF Turned, Seen, SeenTurned
  <2>5. A' = Marked({cur[g]}, "invoked")
    BY <1>a, <2>2, <2>4
  <2> HIDE DEF A
  <2>6. cur[g] \in DOMAIN A /\ A[cur[g]].fate = "running"
    BY <1>t, <2>3 DEF Seen
  <2> QED
    BY <2>5, <2>6
<1>9. ASSUME NEW e \in Exiters, DrainAndDelete(e) \/ DestroyQueue(e) PROVE Goal
  <2>1. PICK f \in {"canceled", "lost"} : Turned(msgs, msgs', QueuedIds, f) /\ normal' = <<>>
    BY <1>9, <1>t, EmptyMoves
  <2>2. LookedIds' = {}
    BY <1>m, <2>1
  <2>3. SeenTurned(msgs, LookedIds, msgs', {}, QueuedIds, "canceled")
    BY <1>m, <2>1 DEF Turned, Seen, SeenTurned, QueuedIds
  <2>4. A' = Marked(QueuedIds, "canceled")
    BY <1>a, <2>2, <2>3
  <2> HIDE DEF A
  <2>5. QueuedIds \in SUBSET {i \in DOMAIN A : A[i].fate \in {"queued", "taken"}}
    BY <1>t DEF Seen, QueuedIds
  <2> QED
    BY <2>4, <2>5
<1>10. ASSUME NEW g \in Gens, NEW place \in Places \ {"lookNormal", "popped", "handling"},
              Unmoved, wpc' = [wpc EXCEPT ![g] = place], wpc[g] \notin {"lookNormal", "popped", "handling"}
       PROVE  Goal
  <2>1. LookedIds' = LookedIds
    BY <1>2, <1>10 DEF Unmoved
  <2> QED
    BY <1>i, <1>10, <2>1 DEF Unmoved
<1> HIDE DEF Goal
<1> QED
  BY <1>t, <1>1, <1>3, <1>5, <1>6, <1>7, <1>8, <1>9, <1>10, NextMoves

(* The doorbell, the two lanes, the worker and the shutdown implement one    *)
(* serial executor, when workers are started in turn: every accepted message *)
(* is invoked once or canceled, never both, oldest first in its lane, and    *)
(* no NORMAL message is taken while a HIGH one is queued.                   *)
THEOREM ImplementsInTurn ==
  ASSUME SelfExits \subseteq {"handling"}
  PROVE  Spec /\ [][StartsInTurn]_vars => ImplementsExecutor
<1> DEFINE A == [i \in DOMAIN msgs |-> [msgs[i] EXCEPT !.fate = Abstract(i)]]
<1>1. Init => Executor!Init
  BY DEF Init, Executor!Init
<1>2. ServingInv /\ TypeInv' /\ [Next]_vars => [Executor!Next]_A
  <2> SUFFICES ASSUME ServingInv, TypeInv', [Next]_vars PROVE Executor!Next \/ A' = A
    OBVIOUS
  <2>1. A = AbsOf(msgs, LookedIds)
    BY DEF AbsOf, LookedIds, Seen, Abstract
  <2>2. A' = AbsOf(msgs, LookedIds)'
    BY DEF AbsOf, LookedIds, Seen, Abstract
  <2> HIDE DEF A
  <2>3. ExecutorMove(A, A')
    BY <2>1, <2>2, ExecutorStep
  <2> QED
    BY <2>3 DEF A, ExecutorMove, SetTo, Executor!Next, Executor!Accept, Executor!Take, Executor!Begin, Executor!Finish,
       Executor!Cancel, Executor!MayBegin, Executor!Queued, Executor!SetFate, Executor!Unstarted
<1>3. MessageInv /\ ServeInv => ServingInv
  BY DEF ServingInv
<1> QED
  BY <1>1, <1>2, <1>3, MessageInvHolds, ServeInvHolds, TypeInvHolds, PTL DEF Spec, ImplementsExecutor, Executor!Spec

(* It does so without that discipline of the owner when no handler exits the *)
(* thread, or no third worker is started.                                   *)
THEOREM ImplementsForTwo ==
  ASSUME SelfExits = {} \/ (SelfExits \subseteq {"handling"} /\ MaxStarts <= 2)
  PROVE  Spec => ImplementsExecutor
<1>1. SelfExits \subseteq {"handling"}
  OBVIOUS
<1>2. Spec => [][StartsInTurn]_vars
  BY SpecInTurn
<1>3. Spec /\ [][StartsInTurn]_vars => ImplementsExecutor
  BY <1>1, ImplementsInTurn
<1> QED
  BY <1>2, <1>3, PTL

===========================================================================
