------------------------ MODULE StdlibThreadProofs ------------------------
(***************************************************************************)
(* What TLAPS proves of StdlibThread, for any set of producers, any queue   *)
(* size and any number of calls and workers: the shutdown; then the         *)
(* messages, of which the lanes hold exactly the queued ones, each oldest   *)
(* first; the bound on the lanes; what is left after ExitThread; and that   *)
(* the thread implements Executor.                                          *)
(***************************************************************************)
EXTENDS StdlibThread, SequenceTheorems, FiniteSetTheorems, TLAPS

---------------------------------------------------------------------------
(* Sequences.                                                               *)

Fates == {"queued", "running", "invoked", "removed", "canceled"}

\* Marking messages keeps msgs a sequence of messages.
LEMMA MarkType ==
  ASSUME msgs \in Seq(Message), NEW ids, NEW f \in Fates
  PROVE  Mark(ids, f) \in Seq(Message)
<1>1. \A i \in 1 .. Len(msgs) : msgs[i] \in Message
  OBVIOUS
<1>2. DOMAIN msgs = 1 .. Len(msgs) /\ Len(msgs) \in Nat
  OBVIOUS
<1>3. \A i \in 1 .. Len(msgs) : [msgs[i] EXCEPT !.fate = f] \in Message
  BY <1>1 DEF Message, Fates
<1> QED
  BY <1>1, <1>2, <1>3 DEF Mark

\* The elements of the lanes are ids of messages, or EXIT.
LEMMA ElemsType ==
  ASSUME NEW S, NEW q \in Seq(S)
  PROVE  Elems(q) \subseteq S
BY DEF Elems

\* What an ExitThread takes off the lanes are ids.
LEMMA LaneIds == TypeOK => Discardable \subseteq Nat
<1> SUFFICES ASSUME TypeOK PROVE Discardable \subseteq Nat
  OBVIOUS
<1>1. high \in Seq(Nat) /\ normal \in Seq(Nat)
  BY DEF TypeOK, EXIT
<1>2. high \o normal \in Seq(Nat)
  BY <1>1
<1> QED
  BY <1>2, ElemsType DEF Discardable

---------------------------------------------------------------------------
(* Type correctness.  A worker may only be started while there is a number   *)
(* left for it, which CreateThread has made sure of one step earlier.       *)

TypeInv == TypeOK /\ (op[Owner] = "emplace" => gen < MaxStarts)

\* The constructor establishes the type invariant.
LEMMA TypeInit == Init => TypeInv
<1> SUFFICES ASSUME Init PROVE TypeInv
  OBVIOUS
<1>1. /\ high \in Seq(Nat \ {EXIT}) /\ normal \in Seq(Nat) /\ msgs \in Seq(Message)
  BY DEF Init
<1>2. /\ m_thread \in 0 .. MaxStarts /\ gen \in 0 .. MaxStarts /\ calls \in 0 .. MaxCalls
      /\ op[Owner] = "none"
  BY StdlibThreadAssumption DEF StdlibThreadAssumption, Init, Exiters, Owner
<1>3. cur \in [Gens -> Nat] /\ discarded \in [Exiters -> SUBSET Nat]
  BY DEF Init
<1> QED
  BY <1>1, <1>2, <1>3 DEF Init, TypeInv, TypeOK

\* The end of DispatchDelegate's locked section, which Push and Resume share.
LEMMA PushType ==
  ASSUME TypeInv, NEW c \in Callers, PushOrRefuse(c), Running
  PROVE  TypeInv'
<1> USE StdlibThreadAssumption
    DEF StdlibThreadAssumption, TypeInv, TypeOK, Gens, Owner, Exiters, Callers, Lanes, EXIT,
        Running, configVars, queueVars, callVars, workerVars, ownerVars, exitVars
<1>1. CASE Refused
  BY <1>1 DEF PushOrRefuse, Return
<1>2. CASE ~Refused
  <2>1. Len(msgs) \in Nat /\ NewId \in Nat \ {EXIT}
    BY DEF NewId
  <2>2. \A l \in Lanes : [lane |-> l, fate |-> "queued"] \in Message
    BY DEF Message
  <2>3. msgs' \in Seq(Message)
    <3>1. \E l \in Lanes : msgs' = Append(msgs, [lane |-> l, fate |-> "queued"])
      BY <1>2 DEF PushOrRefuse
    <3>2. msgs \in Seq(Message)
      OBVIOUS
    <3> QED
      BY <2>2, <3>1, <3>2, AppendProperties
  <2>4. high' \in Seq(Nat \ {EXIT}) /\ normal' \in Seq(Nat)
    <3>1. \/ high' = Append(high, NewId) /\ normal' = normal
          \/ normal' = Append(normal, NewId) /\ high' = high
      BY <1>2 DEF PushOrRefuse
    <3>2. high \in Seq(Nat \ {EXIT}) /\ normal \in Seq(Nat)
      OBVIOUS
    <3>3. Append(high, NewId) \in Seq(Nat \ {EXIT})
      BY <2>1, <3>2, AppendProperties
    <3>4. Append(normal, NewId) \in Seq(Nat)
      BY <2>1, <3>2, AppendProperties
    <3> QED
      BY <3>1, <3>2, <3>3, <3>4
  <2> QED
    BY <2>3, <2>4 DEF PushOrRefuse, Return
<1> QED
  BY <1>1, <1>2

\* Every step preserves the type invariant.
LEMMA TypeStep == TypeInv /\ [Next]_vars => TypeInv'
<1> SUFFICES ASSUME TypeInv, [Next]_vars PROVE TypeInv'
  OBVIOUS
<1> USE StdlibThreadAssumption
    DEF StdlibThreadAssumption, TypeInv, TypeOK, Gens, Owner, Exiters, Callers, Lanes, EXIT,
        Running, configVars, queueVars, callVars, workerVars, ownerVars, exitVars
<1>0. CASE UNCHANGED vars
  BY <1>0 DEF vars, configVars
<1>1. ASSUME CreateThread, Running PROVE TypeInv'
  BY <1>1 DEF CreateThread
<1>2. ASSUME EmplaceThread, Running PROVE TypeInv'
  BY <1>2 DEF EmplaceThread
<1>3. ASSUME CreateThreadReturns, Running PROVE TypeInv'
  BY <1>3 DEF CreateThreadReturns
<1>4. ASSUME Join, Running PROVE TypeInv'
  BY <1>4 DEF Join
<1>5. ASSUME NEW c \in Callers, Dispatch(c), Running PROVE TypeInv'
  <2>1. /\ calls < MaxCalls /\ calls' = calls + 1
        /\ pc' = pc \/ pc' = [pc EXCEPT ![c] = "exitChecked"]
        /\ UNCHANGED <<ownerVars, queueVars, workerVars, exitVars, faulted>>
    BY <1>5 DEF Dispatch
  <2>2. calls' \in 0 .. MaxCalls
    BY <2>1
  <2>3. pc' \in [Callers -> {"idle", "exitChecked", "threw", "checked", "waiting", "woken"}]
    BY <2>1
  <2> QED
    BY <1>5, <2>1, <2>2, <2>3
<1>6. ASSUME NEW c \in Callers, CheckThread(c), Running PROVE TypeInv'
  BY <1>6 DEF CheckThread
<1>7. ASSUME NEW c \in Callers, CatchThrow(c), Running PROVE TypeInv'
  BY <1>7 DEF CatchThrow, Return
<1>8. ASSUME NEW c \in Callers, Push(c), Running PROVE TypeInv'
  BY <1>8, PushType DEF Push
<1>9. ASSUME NEW c \in Callers, DropFull(c), Running PROVE TypeInv'
  BY <1>9 DEF DropFull, Return
<1>10. ASSUME NEW c \in Callers, FaultFull(c), Running PROVE TypeInv'
  BY <1>10 DEF FaultFull
<1>11. ASSUME NEW c \in Callers, WaitNotFull(c), Running PROVE TypeInv'
  BY <1>11 DEF WaitNotFull
<1>12. ASSUME NEW c \in Callers, WaitAgain(c), Running PROVE TypeInv'
  BY <1>12 DEF WaitAgain
<1>13. ASSUME NEW c \in Callers, Resume(c), Running PROVE TypeInv'
  BY <1>13, PushType DEF Resume
<1>14. ASSUME NEW c \in Callers, TimeoutFull(c), Running PROVE TypeInv'
  BY <1>14 DEF TimeoutFull, Return
<1>15. ASSUME NEW g \in Gens, StartHandlerDone(g), Running PROVE TypeInv'
  BY <1>15 DEF StartHandlerDone, AfterHandler
<1>16. ASSUME NEW g \in Gens, Take(g), Running PROVE TypeInv'
  <2> DEFINE msg == IF TakesHigh THEN Head(high) ELSE Head(normal)
  <2>1. msg \in Nat
    <3>1. IF TakesHigh THEN high # <<>> ELSE normal # <<>>
      BY <1>16 DEF Take, TakesHigh, Empty
    <3>2. (high # <<>> => Head(high) \in Nat) /\ (normal # <<>> => Head(normal) \in Nat)
      BY HeadTailProperties
    <3> QED
      BY <3>1, <3>2
  <2>2. msgs' \in Seq(Message)
    BY <1>16, MarkType DEF Take, Fates
  <2>3. high' \in Seq(Nat \ {EXIT}) /\ normal' \in Seq(Nat)
    <3>1. \/ high # <<>> /\ high' = Tail(high) /\ normal' = normal
          \/ normal # <<>> /\ normal' = Tail(normal) /\ high' = high
      BY <1>16 DEF Take, TakesHigh, Empty
    <3>2. high \in Seq(Nat \ {EXIT}) /\ normal \in Seq(Nat)
      BY DEF TypeInv, TypeOK
    <3>3. high # <<>> => Tail(high) \in Seq(Nat \ {EXIT})
      BY <3>2, HeadTailProperties
    <3>4. normal # <<>> => Tail(normal) \in Seq(Nat)
      BY <3>2, HeadTailProperties
    <3> QED
      BY <3>1, <3>2, <3>3, <3>4
  <2>4. cur' \in [Gens -> Nat]
    BY <1>16, <2>1 DEF Take
  <2>5. pc' \in [Callers -> {"idle", "exitChecked", "threw", "checked", "waiting", "woken"}]
    BY <1>16 DEF Take, NotifyOne
  <2> HIDE DEF msg
  <2> QED
    BY <1>16, <2>2, <2>3, <2>4, <2>5 DEF Take
<1>17. ASSUME NEW g \in Gens, HandlerDone(g), Running PROVE TypeInv'
  <2>1. msgs' \in Seq(Message)
    BY <1>17, MarkType DEF HandlerDone, Fates
  <2> QED
    BY <1>17, <2>1 DEF HandlerDone, AfterHandler
<1>18. ASSUME NEW g \in Gens, IdleDue(g), Running PROVE TypeInv'
  BY <1>18 DEF IdleDue
<1>19. ASSUME NEW g \in Gens, RunIdle(g), Running PROVE TypeInv'
  BY <1>19 DEF RunIdle
<1>20. ASSUME NEW g \in Gens, IdleHandlerDone(g), Running PROVE TypeInv'
  BY <1>20 DEF IdleHandlerDone, AfterHandler
<1>21. ASSUME NEW g \in Gens, ExitHandlerDone(g), Running PROVE TypeInv'
  BY <1>21 DEF ExitHandlerDone
<1>22. ASSUME NEW g \in Gens, Detach(g), Running PROVE TypeInv'
  BY <1>22 DEF Detach
<1>23. ASSUME NEW e \in Exiters, ExitRequest(e), Running PROVE TypeInv'
  <2>1. msgs' \in Seq(Message)
    BY <1>23, MarkType DEF ExitRequest, Fates
  <2>2. Discardable \in SUBSET Nat
    BY LaneIds
  <2>3. high' \in Seq(Nat \ {EXIT}) /\ normal' \in Seq(Nat)
    <3>1. \/ normal' = Append(normal, EXIT) /\ high' = high
          \/ high' = <<>> /\ normal' = <<EXIT>>
      BY <1>23 DEF ExitRequest
    <3>2. high \in Seq(Nat \ {EXIT}) /\ normal \in Seq(Nat) /\ EXIT \in Nat
      BY DEF TypeInv, TypeOK, EXIT
    <3>3. Append(normal, EXIT) \in Seq(Nat) /\ <<EXIT>> \in Seq(Nat) /\ <<>> \in Seq(Nat \ {EXIT})
      BY <3>2, AppendProperties
    <3> QED
      BY <3>1, <3>2, <3>3
  <2>4. discarded' \in [Exiters -> SUBSET Nat]
    BY <1>23, <2>2 DEF ExitRequest
  <2> QED
    BY <1>23, <2>1, <2>3, <2>4 DEF ExitRequest, NotifyAll
<1>24. ASSUME NEW e \in Exiters, CancelDiscarded(e), Running PROVE TypeInv'
  <2>1. msgs' \in Seq(Message)
    BY <1>24, MarkType DEF CancelDiscarded, Fates
  <2> QED
    BY <1>24, <2>1 DEF CancelDiscarded, AfterHandler
<1>25. ASSUME NEW e \in Exiters, ResetThread(e), Running PROVE TypeInv'
  <2>1. msgs' \in Seq(Message)
    BY <1>25, MarkType DEF ResetThread, Fates
  <2>2. Leftover \in SUBSET Nat
    BY LaneIds DEF Leftover, Discardable
  <2> QED
    BY <1>25, <2>1, <2>2 DEF ResetThread, NotifyAll
<1> QED
  BY <1>0, <1>1, <1>2, <1>3, <1>4, <1>5, <1>6, <1>7, <1>8, <1>9, <1>10, <1>11, <1>12, <1>13,
     <1>14, <1>15, <1>16, <1>17, <1>18, <1>19, <1>20, <1>21, <1>22, <1>23, <1>24, <1>25 DEF
     Next, OwnerStep, DispatchStep, WorkerStep, ExitStep

(* All variables keep their types: what TypeOK says of the instance          *)
(* model-checked holds of every thread.                                     *)
THEOREM TypeCorrect == Safety => []TypeOK
<1>1. Init => TypeInv
  BY TypeInit
<1>2. TypeInv /\ [Next]_vars => TypeInv'
  BY TypeStep
<1>3. TypeInv => TypeOK
  BY DEF TypeInv
<1> QED
  BY <1>1, <1>2, <1>3, PTL DEF Safety

---------------------------------------------------------------------------
(* One worker.  The invariant follows a call of ExitThread: until it has     *)
(* cleared m_thread it is about the worker m_thread holds, at most one call  *)
(* is that far, and when it clears m_thread that worker is dead (joined) or  *)
(* has its selfExit set (detached).                                         *)

Exiting == {"cancel", "join", "reset"}

ExitsCurrent ==
  /\ op[Owner] = "emplace" => m_thread = 0
  /\ \A g \in Gens : op[g] \in Exiting => g = m_thread
  /\ op[Owner] \in Exiting => m_thread \in Gens /\ \A g \in Gens : op[g] \notin Exiting
ResetIsSafe ==
  /\ op[Owner] = "reset" => wpc[m_thread] = "dead"
  /\ \A g \in Gens : op[g] = "reset" => selfExit[g]
InHandler ==
  \A g \in Gens : op[g] # "none" => wpc[g] \in {"starting", "handling", "idling"}

WorkerInv == TypeInv /\ ExitsCurrent /\ ResetIsSafe /\ InHandler /\ OneWorker

\* What WorkerInv says beside the types.
Control == ExitsCurrent /\ ResetIsSafe /\ InHandler /\ OneWorker

\* Callers of DispatchDelegate touch none of the variables it is about.
LEMMA DispatchControl ==
  ASSUME NEW c \in Callers, Dispatch(c) \/ DispatchStep(c)
  PROVE  UNCHANGED <<m_thread, gen, wpc, selfExit, op>>
BY DEF Dispatch, DispatchStep, CheckThread, CatchThrow, Push, DropFull, FaultFull, WaitNotFull,
       WaitAgain, Resume, TimeoutFull, PushOrRefuse, ownerVars, workerVars, exitVars

\* Taking a message leaves the worker in its handler or on its way out.
LEMMA TakeControl ==
  ASSUME WorkerInv, NEW g \in Gens, Take(g)
  PROVE  Control'
<1> USE StdlibThreadAssumption DEF StdlibThreadAssumption
<1>1. /\ wpc[g] = "loop"
      /\ \E to \in {"exiting", "handling"} : wpc' = [wpc EXCEPT ![g] = to]
      /\ UNCHANGED <<m_thread, gen, selfExit, op>>
  BY DEF Take, ownerVars, exitVars
<1>2. ExitsCurrent' /\ InHandler'
  BY <1>1 DEF WorkerInv, ExitsCurrent, InHandler, Exiting, TypeInv, TypeOK, Gens, Owner, Exiters
<1>3. ResetIsSafe'
  BY <1>1 DEF WorkerInv, ResetIsSafe, TypeInv, TypeOK, Gens, Owner, Exiters
<1>4. OneWorker'
  BY <1>1 DEF WorkerInv, OneWorker, Active, TypeInv, TypeOK, Gens
<1> QED
  BY <1>2, <1>3, <1>4 DEF Control

\* A self-exit: the generation stops counting as active before m_thread is cleared.
LEMMA DetachControl ==
  ASSUME WorkerInv, NEW g \in Gens, Detach(g)
  PROVE  Control'
<1> USE StdlibThreadAssumption DEF StdlibThreadAssumption
<1>1. /\ op[g] = "join" /\ UNCHANGED <<m_thread, gen, wpc>>
      /\ selfExit' = [selfExit EXCEPT ![g] = TRUE] /\ op' = [op EXCEPT ![g] = "reset"]
  BY DEF Detach, ownerVars
<1>2. /\ selfExit \in [Gens -> BOOLEAN]
      /\ op'[g] = "reset" /\ \A e \in Exiters : e # g => op'[e] = op[e]
  BY <1>1 DEF WorkerInv, TypeInv, TypeOK, Exiters, Gens, Owner
<1>3. ExitsCurrent' /\ InHandler'
  BY <1>1, <1>2 DEF WorkerInv, ExitsCurrent, InHandler, Exiting, Gens, Owner, Exiters
<1>4. ResetIsSafe'
  BY <1>1, <1>2 DEF WorkerInv, ResetIsSafe, Gens, Owner, Exiters
<1>5. OneWorker'
  BY <1>1, <1>2 DEF WorkerInv, InHandler, OneWorker, Active, Gens, Owner, Exiters
<1> QED
  BY <1>3, <1>4, <1>5 DEF Control

\* A call of ExitThread begins: no other one has got as far, and m_thread is set.
LEMMA ExitControl ==
  ASSUME WorkerInv, NEW e \in Exiters, ExitRequest(e)
  PROVE  Control'
<1> USE StdlibThreadAssumption DEF StdlibThreadAssumption
<1>1. /\ MayExit(e) /\ op' = [op EXCEPT ![e] = "cancel"]
      /\ UNCHANGED <<m_thread, gen, wpc, selfExit>>
  BY DEF ExitRequest, workerVars
<1>2. m_thread \in Gens /\ op'[e] = "cancel" /\ \A f \in Exiters : f # e => op'[f] = op[f]
  BY <1>1 DEF MayExit, WorkerInv, TypeInv, TypeOK, Gens, Exiters, Owner
<1>3. ExitsCurrent'
  BY <1>1, <1>2 DEF MayExit, WorkerInv, ExitsCurrent, Exiting, Gens, Owner, Exiters
<1>4. InHandler'
  BY <1>1, <1>2 DEF MayExit, HandlerFree, WorkerInv, InHandler, Gens, Owner, Exiters
<1>5. ResetIsSafe' /\ OneWorker'
  BY <1>1, <1>2 DEF WorkerInv, ResetIsSafe, OneWorker, Active, Gens, Owner, Exiters
<1> QED
  BY <1>3, <1>4, <1>5 DEF Control

\* A worker whose start, message or idle handler returns goes on or leaves.
LEMMA HandlerControl ==
  ASSUME WorkerInv, NEW g \in Gens, wpc[g] \in {"starting", "handling", "idling"}, HandlerFree(g),
         wpc' = [wpc EXCEPT ![g] = AfterHandler(g)], UNCHANGED <<m_thread, gen, selfExit, op>>
  PROVE  Control'
<1>t. g # Owner /\ op[g] = "none" /\ DOMAIN wpc = Gens
  BY DEF HandlerFree, WorkerInv, TypeInv, TypeOK, Gens, Owner
<1>1. /\ \A h \in Gens : h # g => wpc'[h] = wpc[h]
      /\ wpc'[g] = IF selfExit[g] THEN "exiting" ELSE "loop"
  BY <1>t DEF AfterHandler
<1>2. ExitsCurrent'
  BY DEF WorkerInv, ExitsCurrent, Exiting
<1>3. ResetIsSafe'
  <2>1. op[Owner] = "reset" => m_thread \in Gens /\ wpc[m_thread] = "dead"
    BY DEF WorkerInv, ResetIsSafe, ExitsCurrent, Exiting
  <2> QED
    BY <1>1, <2>1 DEF WorkerInv, ResetIsSafe
<1>4. InHandler'
  BY <1>t, <1>1 DEF WorkerInv, InHandler
<1>5. \A h \in Gens : Active(h)' => Active(h)
  BY <1>1 DEF Active
<1>6. OneWorker'
  <2>1. \A h \in Gens : selfExit[h] => wpc'[h] \notin {"loop", "idleDue"}
    BY <1>1 DEF WorkerInv, OneWorker
  <2> QED
    BY <1>5, <2>1 DEF WorkerInv, OneWorker
<1> QED
  BY <1>2, <1>3, <1>4, <1>6 DEF Control

\* Every step preserves the part of WorkerInv that is not about types.
LEMMA ControlStep ==
  ASSUME WorkerInv, TypeInv', [Next]_vars
  PROVE  Control'
<1> USE StdlibThreadAssumption
    DEF StdlibThreadAssumption, Control, WorkerInv, ExitsCurrent, ResetIsSafe, InHandler,
        OneWorker, Active, Exiting, TypeInv, TypeOK, Gens, Owner, Exiters,
        queueVars, callVars, workerVars, ownerVars, exitVars
<1>0. ASSUME UNCHANGED <<m_thread, gen, wpc, selfExit, op>> PROVE Control'
  BY <1>0
<1>1. CASE UNCHANGED vars
  BY <1>0, <1>1 DEF vars, configVars
<1>2. ASSUME NEW c \in Callers, Dispatch(c) \/ DispatchStep(c) PROVE Control'
  BY <1>0, <1>2, DispatchControl
<1>3. ASSUME CreateThread PROVE Control'
  BY <1>3 DEF CreateThread
<1>4. ASSUME EmplaceThread PROVE Control'
  BY <1>4 DEF EmplaceThread
<1>5. ASSUME CreateThreadReturns PROVE Control'
  BY <1>5 DEF CreateThreadReturns
<1>6. ASSUME Join PROVE Control'
  BY <1>6 DEF Join
<1>7. ASSUME NEW g \in Gens, StartHandlerDone(g) PROVE Control'
  BY ONLY <1>7, WorkerInv, HandlerControl DEF StartHandlerDone, ownerVars, exitVars
<1>8. ASSUME NEW g \in Gens, Take(g) PROVE Control'
  BY <1>8, TakeControl
<1>9. ASSUME NEW g \in Gens, HandlerDone(g) PROVE Control'
  BY ONLY <1>9, WorkerInv, HandlerControl DEF HandlerDone, ownerVars, exitVars
<1>10. ASSUME NEW g \in Gens, IdleDue(g) PROVE Control'
  BY <1>10 DEF IdleDue
<1>11. ASSUME NEW g \in Gens, RunIdle(g) PROVE Control'
  BY <1>11 DEF RunIdle
<1>12. ASSUME NEW g \in Gens, IdleHandlerDone(g) PROVE Control'
  BY ONLY <1>12, WorkerInv, HandlerControl DEF IdleHandlerDone, ownerVars, exitVars
<1>13. ASSUME NEW g \in Gens, ExitHandlerDone(g) PROVE Control'
  BY <1>13 DEF ExitHandlerDone, HandlerFree, AfterHandler
<1>14. ASSUME NEW g \in Gens, Detach(g) PROVE Control'
  BY <1>14, DetachControl
<1>15. ASSUME NEW e \in Exiters, ExitRequest(e) PROVE Control'
  BY <1>15, ExitControl
<1>16. ASSUME NEW e \in Exiters, CancelDiscarded(e) PROVE Control'
  BY <1>16 DEF CancelDiscarded
<1>17. ASSUME NEW e \in Exiters, ResetThread(e) PROVE Control'
  BY <1>17 DEF ResetThread
<1> QED
  BY <1>1, <1>2, <1>3, <1>4, <1>5, <1>6, <1>7, <1>8, <1>9, <1>10, <1>11, <1>12, <1>13, <1>14,
     <1>15, <1>16, <1>17 DEF Next, OwnerStep, WorkerStep, ExitStep

\* A thread that has just been constructed has no worker.
LEMMA WorkerInit == Init => WorkerInv
<1> SUFFICES ASSUME Init PROVE WorkerInv
  OBVIOUS
<1>1. TypeInv
  BY TypeInit
<1> QED
  BY <1>1 DEF Init, WorkerInv, ExitsCurrent, ResetIsSafe, InHandler, OneWorker, Active, Exiting,
              Gens, Owner, Exiters

\* WorkerInv is inductive.
LEMMA WorkerInvStep == WorkerInv /\ [Next]_vars => WorkerInv'
  BY TypeStep, ControlStep DEF WorkerInv, Control

(* At most one worker takes messages: the one m_thread holds.  A worker that *)
(* exited its own thread may still be inside its handler, but takes no more. *)
THEOREM OneWorkerHolds == Safety => []OneWorker
<1>1. Init => WorkerInv
  BY WorkerInit
<1>2. WorkerInv /\ [Next]_vars => WorkerInv'
  BY WorkerInvStep
<1>3. WorkerInv => OneWorker
  BY DEF WorkerInv
<1> QED
  BY <1>1, <1>2, <1>3, PTL DEF Safety

---------------------------------------------------------------------------
(* Shutdown.  While m_exit is set the exit message is the last entry of the  *)
(* NORMAL lane, and the only one of its kind, until the worker takes it; the *)
(* worker takes it last of all, because HIGH goes first and nothing is       *)
(* pushed behind it.  While m_exit is not set there is no exit message, so a *)
(* worker leaves its loop only after ExitThread, or after its own.          *)

NoExit(q)   == \A i \in 1 .. Len(q) : q[i] # EXIT
ExitLast(q) == /\ Len(q) > 0 /\ q[Len(q)] = EXIT
               /\ \A i \in 1 .. Len(q) - 1 : q[i] # EXIT

Gone(g) == wpc[g] \in {"exiting", "dead"}

ExitSent ==
  /\ m_exit /\ m_thread = 0 => Empty
  /\ m_exit /\ m_thread # 0 => /\ op[Owner] \in Exiting \/ op[m_thread] \in Exiting
                              /\ IF Gone(m_thread) THEN Empty ELSE ExitLast(normal)
  /\ ~m_exit => NoExit(normal) /\ (m_thread # 0 => ~Gone(m_thread))
  /\ op[Owner] = "emplace" => ~m_exit
SelfExits ==
  /\ m_thread <= gen
  /\ m_thread # 0 /\ selfExit[m_thread] => op[m_thread] = "reset"
  /\ \A g \in Gens : g > gen => ~selfExit[g]

ShutdownInv == WorkerInv /\ ExitSent /\ SelfExits

\* ExitThread's push puts the exit message last.
LEMMA ExitAppended ==
  ASSUME NEW q \in Seq(Nat), NoExit(q)
  PROVE  ExitLast(Append(q, EXIT))
BY AppendProperties DEF NoExit, ExitLast, EXIT

\* DispatchDelegate's push adds no exit message.
LEMMA OtherAppended ==
  ASSUME NEW q \in Seq(Nat), NoExit(q), NEW x \in Nat \ {EXIT}
  PROVE  NoExit(Append(q, x))
BY AppendProperties DEF NoExit

\* A lane without exit message has none after a pop either.
LEMMA NoExitInTail ==
  ASSUME NEW q \in Seq(Nat), q # <<>>, NoExit(q)
  PROVE  NoExit(Tail(q)) /\ Head(q) # EXIT
<1>1. /\ Tail(q) \in Seq(Nat) /\ Len(Tail(q)) = Len(q) - 1
      /\ \A i \in 1 .. Len(Tail(q)) : Tail(q)[i] = q[i + 1]
  BY HeadTailProperties
<1>2. Head(q) = q[1] /\ Len(q) \in Nat /\ Len(q) > 0
  OBVIOUS
<1> QED
  BY <1>1, <1>2 DEF NoExit

\* Popping either takes the exit message, and nothing is left, or leaves it last.
LEMMA ExitInTail ==
  ASSUME NEW q \in Seq(Nat), q # <<>>, ExitLast(q)
  PROVE  IF Head(q) = EXIT THEN Tail(q) = <<>> ELSE ExitLast(Tail(q))
<1>1. /\ Tail(q) \in Seq(Nat) /\ Len(Tail(q)) = Len(q) - 1
      /\ \A i \in 1 .. Len(Tail(q)) : Tail(q)[i] = q[i + 1]
  BY HeadTailProperties
<1>2. Head(q) = q[1] /\ Len(q) \in Nat /\ Len(q) > 0
  OBVIOUS
<1>3. CASE Head(q) = EXIT
  <2>1. ~(Len(q) > 1)
    <3> SUFFICES ASSUME Len(q) > 1 PROVE FALSE
      OBVIOUS
    <3>1. 1 \in 1 .. Len(q) - 1
      BY <1>2
    <3> QED
      BY <1>2, <1>3, <3>1 DEF ExitLast
  <2>2. \A n \in Nat : n > 0 /\ ~(n > 1) => n = 1
    OBVIOUS
  <2>3. Len(q) = 1
    BY <1>2, <2>1, <2>2
  <2>4. Len(Tail(q)) = 0
    BY <1>1, <2>3
  <2>5. Tail(q) = <<>>
    BY <1>1, <2>4, EmptySeq
  <2> QED
    BY <1>3, <2>5
<1>4. CASE Head(q) # EXIT
  <2>1. Len(q) > 1
    BY <1>2, <1>4 DEF ExitLast
  <2> QED
    BY <1>1, <1>2, <1>4, <2>1 DEF ExitLast
<1> QED
  BY <1>3, <1>4

\* A worker that m_thread still holds has selfExit set only between detach and reset.
LEMMA SelfExitsStep ==
  ASSUME ShutdownInv, WorkerInv', [Next]_vars
  PROVE  SelfExits'
<1> USE StdlibThreadAssumption
    DEF StdlibThreadAssumption, ShutdownInv, SelfExits, WorkerInv, ExitsCurrent, ResetIsSafe,
        Exiting, TypeInv, TypeOK, Gens, Owner, Exiters, workerVars, ownerVars
<1>0. ASSUME UNCHANGED <<m_thread, gen, selfExit, op>> PROVE SelfExits'
  BY <1>0
<1>1. CASE UNCHANGED vars
  BY <1>0, <1>1 DEF vars, configVars, exitVars
<1>2. ASSUME NEW c \in Callers, Dispatch(c) \/ DispatchStep(c) PROVE SelfExits'
  BY <1>0, <1>2, DispatchControl
<1>3. ASSUME NEW g \in Gens, WorkerStep(g) \/ IdleDue(g) PROVE SelfExits'
  BY <1>0, <1>3 DEF WorkerStep, StartHandlerDone, Take, HandlerDone, IdleDue, RunIdle,
                    IdleHandlerDone, ExitHandlerDone, exitVars
<1>4. ASSUME CreateThread PROVE SelfExits'
  BY <1>4 DEF CreateThread
<1>5. ASSUME EmplaceThread PROVE SelfExits'
  BY <1>5 DEF EmplaceThread
<1>6. ASSUME CreateThreadReturns PROVE SelfExits'
  BY <1>6 DEF CreateThreadReturns
<1>7. ASSUME Join PROVE SelfExits'
  BY <1>7 DEF Join
<1>8. ASSUME NEW g \in Gens, Detach(g) PROVE SelfExits'
  BY <1>8 DEF Detach
<1>9. ASSUME NEW e \in Exiters, ExitRequest(e) PROVE SelfExits'
  BY <1>9 DEF ExitRequest, MayExit
<1>10. ASSUME NEW e \in Exiters, CancelDiscarded(e) PROVE SelfExits'
  BY <1>10 DEF CancelDiscarded
<1>11. ASSUME NEW e \in Exiters, ResetThread(e) PROVE SelfExits'
  BY <1>11 DEF ResetThread
<1> QED
  BY <1>1, <1>2, <1>3, <1>4, <1>5, <1>6, <1>7, <1>8, <1>9, <1>10, <1>11 DEF Next, OwnerStep,
     ExitStep

\* A push happens only while m_exit is not set, so it never goes behind the exit message.
LEMMA PushExitSent ==
  ASSUME ShutdownInv, NEW c \in Callers, PushOrRefuse(c)
  PROVE  ExitSent'
<1>1. /\ UNCHANGED <<m_exit, m_thread, wpc, op>>
      /\ \/ UNCHANGED <<high, normal>>
         \/ ~m_exit /\ high' = Append(high, NewId) /\ normal' = normal
         \/ ~m_exit /\ normal' = Append(normal, NewId) /\ high' = high
  BY DEF PushOrRefuse, Refused, queueVars, ownerVars, workerVars, exitVars
<1>2. normal \in Seq(Nat) /\ NewId \in Nat \ {EXIT}
  BY DEF ShutdownInv, WorkerInv, TypeInv, TypeOK, NewId, EXIT
<1>3. NoExit(normal) => NoExit(Append(normal, NewId))
  BY <1>2, OtherAppended
<1> QED
  BY <1>1, <1>3 DEF ShutdownInv, ExitSent, Empty, Gone

\* Every step keeps the exit message where it has to be.
LEMMA ExitSentStep ==
  ASSUME ShutdownInv, WorkerInv', [Next]_vars
  PROVE  ExitSent'
<1> USE StdlibThreadAssumption DEF StdlibThreadAssumption
<1>0. ASSUME UNCHANGED <<m_exit, m_thread, high, normal, wpc, op>> PROVE ExitSent'
  BY <1>0 DEF ShutdownInv, ExitSent, Empty, Gone
<1>g. ASSUME UNCHANGED <<m_exit, m_thread, high, normal, op>>,
             m_thread # 0 => (Gone(m_thread)' <=> Gone(m_thread))
      PROVE  ExitSent'
  BY <1>g DEF ShutdownInv, ExitSent, Empty, Gone
<1>1. CASE UNCHANGED vars
  BY <1>0, <1>1 DEF vars, configVars, workerVars, ownerVars, exitVars, queueVars
<1>2. ASSUME NEW c \in Callers, Dispatch(c) \/ DispatchStep(c) PROVE ExitSent'
  <2>1. CASE Push(c) \/ Resume(c)
    BY <2>1, PushExitSent DEF Push, Resume
  <2>2. CASE ~(Push(c) \/ Resume(c))
    BY <1>0, <1>2, <2>2 DEF Dispatch, DispatchStep, CheckThread, CatchThrow, DropFull, FaultFull,
       WaitNotFull, WaitAgain, TimeoutFull, ownerVars, workerVars, exitVars, queueVars
  <2> QED
    BY <2>1, <2>2
<1>3. ASSUME CreateThread PROVE ExitSent'
  BY <1>3 DEF CreateThread, ShutdownInv, ExitSent, Gone, Exiting, WorkerInv, TypeInv, TypeOK,
     Gens, Owner,
              Exiters, workerVars, ownerVars, queueVars, Empty, NoExit
<1>4. ASSUME EmplaceThread PROVE ExitSent'
  BY <1>4 DEF EmplaceThread, ShutdownInv, ExitSent, Gone, Exiting, WorkerInv, TypeInv, TypeOK,
     Gens, Owner,
              Exiters, workerVars, ownerVars, queueVars, Empty, NoExit
<1>5. ASSUME CreateThreadReturns PROVE ExitSent'
  BY <1>5 DEF CreateThreadReturns, ShutdownInv, ExitSent, Gone, Exiting, WorkerInv, TypeInv,
     TypeOK, Gens, Owner,
              Exiters, workerVars, ownerVars, queueVars, Empty, NoExit
<1>6. ASSUME Join PROVE ExitSent'
  BY <1>6 DEF Join, ShutdownInv, ExitSent, Gone, Exiting, WorkerInv, TypeInv, TypeOK, Gens, Owner,
              Exiters, workerVars, ownerVars, queueVars, Empty, NoExit
<1>7. ASSUME NEW g \in Gens, StartHandlerDone(g) PROVE ExitSent'
  <2>1. m_thread # 0 => (Gone(m_thread)' <=> Gone(m_thread))
    BY <1>7 DEF StartHandlerDone, HandlerFree, AfterHandler, ShutdownInv, SelfExits, WorkerInv,
     TypeInv, TypeOK, Gone, Gens, ownerVars
  <2> QED
    BY <1>7, <2>1, <1>g DEF StartHandlerDone, ownerVars, queueVars, exitVars
<1>8. ASSUME NEW g \in Gens, Take(g) PROVE ExitSent'
  <2>1. /\ wpc[g] = "loop" /\ UNCHANGED <<m_exit, m_thread, op>>
        /\ \/ high # <<>> /\ high' = Tail(high) /\ normal' = normal
              /\ wpc' = [wpc EXCEPT ![g] = IF Head(high) = EXIT THEN "exiting" ELSE "handling"]
           \/ high = <<>> /\ normal # <<>> /\ normal' = Tail(normal) /\ high' = high
              /\ wpc' = [wpc EXCEPT ![g] = IF Head(normal) = EXIT THEN "exiting" ELSE "handling"]
    BY <1>8 DEF Take, TakesHigh, Empty, ownerVars, exitVars
  <2>2. /\ high \in Seq(Nat \ {EXIT}) /\ normal \in Seq(Nat)
        /\ wpc \in [Gens -> {"none", "starting", "loop", "handling", "idleDue", "idling", "exiting", "dead"}]
    BY DEF ShutdownInv, WorkerInv, TypeInv, TypeOK
  <2>3. g = m_thread /\ m_thread # 0 /\ ~Gone(g)
    BY <2>1 DEF ShutdownInv, WorkerInv, OneWorker, Active, Gens, Gone
  <2>4. wpc'[g] = "exiting" \/ wpc'[g] = "handling"
    BY <2>1, <2>2
  <2>5. CASE high # <<>>
    <3>1. Head(high) # EXIT
      BY <2>2, <2>5, HeadTailProperties
    <3>2. ~Gone(g)' /\ normal' = normal
      BY <2>1, <2>2, <2>5, <3>1 DEF Gone
    <3> QED
      BY <2>1, <2>3, <3>2 DEF ShutdownInv, ExitSent, Gone
  <2>6. CASE high = <<>>
    <3>1. normal # <<>> /\ normal' = Tail(normal) /\ high' = <<>> /\ (Gone(g)' <=> Head(normal) = EXIT)
      BY <2>1, <2>2, <2>6 DEF Gone
    <3>2. CASE m_exit
      <4>1. ExitLast(normal) /\ (op[Owner] \in Exiting \/ op[m_thread] \in Exiting)
        BY <2>3, <3>2 DEF ShutdownInv, ExitSent
      <4>2. IF Head(normal) = EXIT THEN Tail(normal) = <<>> ELSE ExitLast(Tail(normal))
        BY <2>2, <3>1, <4>1, ExitInTail
      <4>3. IF Gone(m_thread)' THEN Empty' ELSE ExitLast(normal)'
        BY <2>1, <2>3, <3>1, <4>2 DEF Empty, Gone
      <4> QED
        BY <2>1, <2>3, <3>2, <4>1, <4>3 DEF ShutdownInv, ExitSent, Gone
    <3>3. CASE ~m_exit
      <4>1. NoExit(normal)
        BY <3>3 DEF ShutdownInv, ExitSent
      <4>2. NoExit(Tail(normal)) /\ Head(normal) # EXIT
        BY <2>2, <3>1, <4>1, NoExitInTail
      <4> QED
        BY <2>1, <2>3, <3>1, <3>3, <4>2 DEF ShutdownInv, ExitSent, Gone
    <3> QED
      BY <3>2, <3>3
  <2> QED
    BY <2>5, <2>6
<1>9. ASSUME NEW g \in Gens, HandlerDone(g) PROVE ExitSent'
  <2>1. m_thread # 0 => (Gone(m_thread)' <=> Gone(m_thread))
    BY <1>9 DEF HandlerDone, HandlerFree, AfterHandler, ShutdownInv, SelfExits, WorkerInv,
     TypeInv, TypeOK, Gone, Gens, ownerVars
  <2> QED
    BY <1>9, <2>1, <1>g DEF HandlerDone, ownerVars, queueVars, exitVars
<1>10. ASSUME NEW g \in Gens, IdleDue(g) PROVE ExitSent'
  <2>1. m_thread # 0 => (Gone(m_thread)' <=> Gone(m_thread))
    BY <1>10 DEF IdleDue, ShutdownInv, SelfExits, WorkerInv, TypeInv, TypeOK, Gone, Gens, ownerVars
  <2> QED
    BY <1>10, <2>1, <1>g DEF IdleDue, ownerVars, queueVars, exitVars
<1>11. ASSUME NEW g \in Gens, RunIdle(g) PROVE ExitSent'
  <2>1. m_thread # 0 => (Gone(m_thread)' <=> Gone(m_thread))
    BY <1>11 DEF RunIdle, ShutdownInv, SelfExits, WorkerInv, TypeInv, TypeOK, Gone, Gens, ownerVars
  <2> QED
    BY <1>11, <2>1, <1>g DEF RunIdle, ownerVars, queueVars, exitVars
<1>12. ASSUME NEW g \in Gens, IdleHandlerDone(g) PROVE ExitSent'
  <2>1. m_thread # 0 => (Gone(m_thread)' <=> Gone(m_thread))
    BY <1>12 DEF IdleHandlerDone, HandlerFree, AfterHandler, ShutdownInv, SelfExits, WorkerInv,
     TypeInv, TypeOK, Gone, Gens, ownerVars
  <2> QED
    BY <1>12, <2>1, <1>g DEF IdleHandlerDone, ownerVars, queueVars, exitVars
<1>13. ASSUME NEW g \in Gens, ExitHandlerDone(g) PROVE ExitSent'
  <2>1. m_thread # 0 => (Gone(m_thread)' <=> Gone(m_thread))
    BY <1>13 DEF ExitHandlerDone, ShutdownInv, SelfExits, WorkerInv, TypeInv, TypeOK, Gone,
     Gens, ownerVars
  <2> QED
    BY <1>13, <2>1, <1>g DEF ExitHandlerDone, ownerVars, queueVars, exitVars
<1>14. ASSUME NEW g \in Gens, Detach(g) PROVE ExitSent'
  BY <1>14 DEF Detach, ShutdownInv, ExitSent, Gone, Exiting, WorkerInv, TypeInv, TypeOK, Gens,
     Owner,
              Exiters, workerVars, ownerVars, queueVars, Empty
<1>15. ASSUME NEW e \in Exiters, ExitRequest(e) PROVE ExitSent'
  <2>1. /\ MayExit(e) /\ m_exit' /\ op' = [op EXCEPT ![e] = "cancel"]
        /\ normal' = Append(normal, EXIT) \/ normal' = <<EXIT>>
        /\ UNCHANGED <<m_thread, wpc>>
    BY <1>15 DEF ExitRequest, workerVars
  <2>2. m_thread \in Gens /\ (e = Owner \/ e = m_thread) /\ op[Owner] \notin Exiting \cup {"emplace"} /\ op[m_thread] \notin Exiting
    <3>1. /\ m_thread # 0 /\ op[m_thread] = "none" /\ (e = Owner \/ e = m_thread)
          /\ op[Owner] \in {"none", "started"}
      BY <2>1 DEF MayExit
    <3>2. m_thread \in Gens
      BY <3>1 DEF ShutdownInv, WorkerInv, TypeInv, TypeOK, Gens
    <3> QED
      BY <3>1, <3>2 DEF Exiting
  <2>3. ~m_exit /\ NoExit(normal) /\ ~Gone(m_thread) /\ m_thread # 0 /\ m_thread' # 0
    BY <2>1, <2>2 DEF ShutdownInv, ExitSent, Gens
  <2>4. normal \in Seq(Nat)
    BY DEF ShutdownInv, WorkerInv, TypeInv, TypeOK
  <2>5. ExitLast(Append(normal, EXIT)) /\ ExitLast(<<EXIT>>)
    BY <2>3, <2>4, ExitAppended DEF ExitLast
  <2>6. op'[Owner] # "emplace" /\ (op'[Owner] \in Exiting \/ op'[m_thread] \in Exiting)
    BY <2>1, <2>2 DEF ShutdownInv, WorkerInv, TypeInv, TypeOK, Exiters, Exiting
  <2> QED
    BY <2>1, <2>3, <2>5, <2>6 DEF ExitSent, Gone
<1>16. ASSUME NEW e \in Exiters, CancelDiscarded(e) PROVE ExitSent'
  <2>1. /\ op[e] \in {"cancel", "cancelRest"}
        /\ op' = [op EXCEPT ![e] = IF op[e] = "cancel" THEN "join" ELSE "none"]
        /\ UNCHANGED <<m_exit, m_thread, high, normal, wpc>>
    BY <1>16 DEF CancelDiscarded, ownerVars, workerVars
  <2>2. DOMAIN op = Exiters /\ Owner \in Exiters /\ (m_thread # 0 => m_thread \in Exiters)
    BY DEF ShutdownInv, WorkerInv, TypeInv, TypeOK, Gens, Owner, Exiters
  <2>3. \A x \in Exiters : (op[x] \in Exiting => op'[x] \in Exiting) /\ (op'[x] = "emplace" => op[x] = "emplace")
    BY <2>1, <2>2 DEF Exiting
  <2>4. Gone(m_thread)' <=> Gone(m_thread)
    BY <2>1 DEF Gone
  <2> QED
    BY <2>1, <2>2, <2>3, <2>4 DEF ShutdownInv, ExitSent, Empty
<1>17. ASSUME NEW e \in Exiters, ResetThread(e) PROVE ExitSent'
  <2>1. /\ m_thread' = 0 /\ high' = <<>> /\ normal' = <<>> /\ m_exit' = m_exit
        /\ op' = [op EXCEPT ![e] = "cancelRest"]
    BY <1>17 DEF ResetThread
  <2>2. Empty' /\ NoExit(normal)'
    BY <2>1 DEF Empty, NoExit
  <2>3. op'[Owner] = "emplace" => ~m_exit
    BY <2>1 DEF ShutdownInv, ExitSent, WorkerInv, TypeInv, TypeOK, Exiters
  <2> QED
    BY <2>1, <2>2, <2>3 DEF ExitSent
<1> QED
  BY <1>1, <1>2, <1>3, <1>4, <1>5, <1>6, <1>7, <1>8, <1>9, <1>10, <1>11, <1>12, <1>13, <1>14,
     <1>15, <1>16, <1>17 DEF Next, OwnerStep, WorkerStep, ExitStep

(* The shutdown invariant: the exit message is last until the worker has     *)
(* taken it, and both lanes are empty after that.                           *)
THEOREM ShutdownInvHolds == Safety => []ShutdownInv
<1>1. Init => ShutdownInv
  <2> SUFFICES ASSUME Init PROVE ShutdownInv
    OBVIOUS
  <2>1. WorkerInv
    BY WorkerInit
  <2>2. ExitSent
    BY DEF Init, ExitSent, NoExit, Exiters, Owner
  <2>3. SelfExits
    BY DEF Init, SelfExits
  <2> QED
    BY <2>1, <2>2, <2>3 DEF ShutdownInv
<1>2. ShutdownInv /\ [Next]_vars => ShutdownInv'
  BY WorkerInvStep, SelfExitsStep, ExitSentStep DEF ShutdownInv
<1> QED
  BY <1>1, <1>2, PTL DEF Safety

(* The queues really are empty when the owner has joined its worker: the     *)
(* clearing that follows in ExitThread has nothing to discard.              *)
THEOREM JoinDrains == Safety => []JoinedMeansDrained
<1>1. ShutdownInv => JoinedMeansDrained
  BY DEF ShutdownInv, ExitSent, WorkerInv, ExitsCurrent, ResetIsSafe, JoinedMeansDrained,
         Exiting, Gone, Gens
<1> QED
  BY <1>1, ShutdownInvHolds, PTL

(* A worker in its loop always has the exit message before it once exit has  *)
(* been requested, as the last entry of the NORMAL lane.                    *)
THEOREM ExitMessageStays == Safety => []ExitMessagePending
<1>1. ShutdownInv => ExitMessagePending
  <2> SUFFICES ASSUME ShutdownInv, NEW g \in Gens, wpc[g] \in {"loop", "idleDue"}, m_exit, g = m_thread
               PROVE  EXIT \in Elems(normal) /\ normal[Len(normal)] = EXIT
    BY DEF ExitMessagePending
  <2>1. ExitLast(normal)
    BY DEF ShutdownInv, ExitSent, Gone, Gens
  <2>2. normal \in Seq(Nat)
    BY DEF ShutdownInv, WorkerInv, TypeInv, TypeOK
  <2>3. Len(normal) \in DOMAIN normal
    BY <2>1, <2>2 DEF ExitLast
  <2> QED
    BY <2>1, <2>3 DEF ExitLast, Elems
<1> QED
  BY <1>1, ShutdownInvHolds, PTL
---------------------------------------------------------------------------
(* A lane q of priority l and the messages M.                               *)

LaneExact(q, l, M) ==
  /\ \A i \in DOMAIN q : q[i] # EXIT => q[i] \in DOMAIN M /\ M[q[i]].lane = l /\ M[q[i]].fate = "queued"
  /\ \A m \in DOMAIN M : M[m].lane = l /\ M[m].fate = "queued" => \E i \in DOMAIN q : q[i] = m
  /\ \A i, j \in DOMAIN q : i < j /\ q[j] # EXIT => q[i] < q[j]

\* N is M with the fates of the messages in ids turned into f.
Turned(M, N, ids, f) ==
  /\ DOMAIN N = DOMAIN M
  /\ \A m \in DOMAIN M : N[m].lane = M[m].lane /\ N[m].fate = IF m \in ids THEN f ELSE M[m].fate

\* Mark turns fates, and nothing else.
LEMMA MarkTurns ==
  ASSUME msgs \in Seq(Message), NEW ids, NEW f
  PROVE  Turned(msgs, Mark(ids, f), ids, f)
<1>1. \A m \in DOMAIN msgs : msgs[m] \in Message
  OBVIOUS
<1> QED
  BY <1>1 DEF Turned, Mark, Message

\* A message that is accepted goes behind the others of its lane.
LEMMA LaneAppend ==
  ASSUME NEW q \in Seq(Nat), NEW l, NEW M \in Seq(Message), LaneExact(q, l, M), NoExit(q)
  PROVE  LaneExact(Append(q, Len(M) + 1), l, Append(M, [lane |-> l, fate |-> "queued"]))
<1> DEFINE x == Len(M) + 1
           N == Append(M, [lane |-> l, fate |-> "queued"])
           p == Append(q, x)
<1>1. /\ Len(M) \in Nat /\ DOMAIN M = 1 .. Len(M) /\ DOMAIN N = 1 .. x /\ x \notin DOMAIN M /\ x # EXIT
      /\ N[x] = [lane |-> l, fate |-> "queued"] /\ \A m \in DOMAIN M : N[m] = M[m]
  BY DEF EXIT
<1>2. /\ Len(q) \in Nat /\ DOMAIN q = 1 .. Len(q) /\ DOMAIN p = 1 .. Len(q) + 1
      /\ p[Len(q) + 1] = x /\ \A i \in DOMAIN q : p[i] = q[i] /\ q[i] \in Nat
  OBVIOUS
<1>3. \A i \in DOMAIN q : q[i] \in 1 .. Len(M)
  BY <1>1, <1>2 DEF LaneExact, NoExit
<1> HIDE DEF x, N, p
<1>4. \A i \in DOMAIN p : i = Len(q) + 1 \/ i \in DOMAIN q
  BY <1>2
<1>5. \A i \in DOMAIN p : p[i] \in DOMAIN N /\ N[p[i]].lane = l /\ N[p[i]].fate = "queued"
  <2>1. ASSUME NEW i \in DOMAIN q PROVE p[i] \in DOMAIN N /\ N[p[i]].lane = l /\ N[p[i]].fate = "queued"
    <3>1. p[i] \in DOMAIN M /\ p[i] # EXIT /\ p[i] = q[i]
      BY <1>1, <1>2, <1>3, <2>1 DEF EXIT
    <3> QED
      BY <1>1, <2>1, <3>1 DEF LaneExact, x
  <2>2. x \in DOMAIN N /\ N[x].lane = l /\ N[x].fate = "queued"
    BY <1>1 DEF x
  <2> QED
    BY <1>2, <1>4, <2>1, <2>2
<1>6. ASSUME NEW m \in DOMAIN N, N[m].lane = l, N[m].fate = "queued" PROVE \E i \in DOMAIN p : p[i] = m
  <2>1. CASE m = x
    <3>1. Len(q) + 1 \in DOMAIN p /\ p[Len(q) + 1] = m
      BY <1>2, <2>1
    <3> QED
      BY <3>1
  <2>2. CASE m # x
    <3>1. m \in DOMAIN M
      BY <1>1, <2>2 DEF x
    <3>2. PICK i \in DOMAIN q : q[i] = m
      BY <1>1, <1>6, <3>1 DEF LaneExact
    <3>3. i \in DOMAIN p /\ p[i] = m
      BY <1>2, <3>2
    <3> QED
      BY <3>3
  <2> QED
    BY <2>1, <2>2
<1>7. ASSUME NEW i \in DOMAIN p, NEW j \in DOMAIN p, i < j, p[j] # EXIT PROVE p[i] < p[j]
  <2>1. i \in DOMAIN q
    BY <1>2, <1>7
  <2>2. CASE j \in DOMAIN q
    BY <1>2, <1>7, <2>1, <2>2 DEF LaneExact
  <2>3. CASE j = Len(q) + 1
    <3>1. p[i] \in 1 .. Len(M) /\ p[j] = Len(M) + 1
      BY <1>2, <1>3, <2>1, <2>3 DEF x
    <3> QED
      BY <1>1, <3>1
  <2> QED
    BY <1>4, <2>2, <2>3
<1>8. LaneExact(p, l, N)
  BY <1>5, <1>6, <1>7 DEF LaneExact
<1> QED
  BY <1>8 DEF p, N, x

\* A message that is accepted for the other lane changes nothing in this one.
LEMMA LaneOther ==
  ASSUME NEW q \in Seq(Nat), NEW l, NEW M \in Seq(Message), LaneExact(q, l, M), NEW k, k # l
  PROVE  LaneExact(q, l, Append(M, [lane |-> k, fate |-> "queued"]))
<1> DEFINE N == Append(M, [lane |-> k, fate |-> "queued"])
<1>1. /\ Len(M) \in Nat /\ DOMAIN M = 1 .. Len(M) /\ DOMAIN N = 1 .. Len(M) + 1
      /\ N[Len(M) + 1].lane = k /\ \A m \in DOMAIN M : N[m] = M[m]
  OBVIOUS
<1>2. \A m \in DOMAIN N : m \in DOMAIN M \/ m = Len(M) + 1
  BY <1>1
<1>3. \A m \in DOMAIN M : m \in DOMAIN N
  BY <1>1
<1> HIDE DEF N
<1>4. LaneExact(q, l, N)
  BY <1>1, <1>2, <1>3 DEF LaneExact
<1> QED
  BY <1>4 DEF N

\* Process takes the head: the oldest message of the lane, or the exit message.
LEMMA LaneTail ==
  ASSUME NEW q \in Seq(Nat), q # <<>>, NEW l, NEW M, NEW N, LaneExact(q, l, M),
         Turned(M, N, {Head(q)}, "running")
  PROVE  LaneExact(Tail(q), l, N)
<1> DEFINE p == Tail(q)
<1>1. /\ p \in Seq(Nat) /\ Len(p) = Len(q) - 1 /\ \A i \in 1 .. Len(p) : p[i] = q[i + 1]
  BY HeadTailProperties
<1>2. /\ Head(q) = q[1] /\ Len(q) \in Nat /\ Len(q) > 0 /\ DOMAIN q = 1 .. Len(q) /\ DOMAIN p = 1 .. Len(p)
      /\ \A i \in DOMAIN q : q[i] \in Nat
  BY <1>1
<1> HIDE DEF p
<1>3. ASSUME NEW i \in DOMAIN p PROVE i + 1 \in DOMAIN q /\ 1 < i + 1 /\ p[i] = q[i + 1]
  <2>1. i \in 1 .. Len(p) /\ Len(p) = Len(q) - 1 /\ Len(q) \in Nat
    BY <1>1, <1>2
  <2>2. i + 1 \in 1 .. Len(q) /\ 1 < i + 1
    BY ONLY <2>1
  <2> QED
    BY <1>1, <1>2, <2>1, <2>2
<1>4. ASSUME NEW i \in DOMAIN p, p[i] # EXIT
      PROVE  p[i] \in DOMAIN N /\ N[p[i]].lane = l /\ N[p[i]].fate = "queued"
  <2>1. q[1] < p[i]
    <3>1. 1 \in DOMAIN q /\ i + 1 \in DOMAIN q /\ 1 < i + 1 /\ q[i + 1] = p[i] /\ q[i + 1] # EXIT
      BY <1>2, <1>3, <1>4
    <3>2. q[1] < q[i + 1]
      BY <3>1 DEF LaneExact
    <3> QED
      BY <3>1, <3>2
  <2>2. p[i] # Head(q)
    BY <1>2, <1>3, <2>1
  <2> QED
    BY <1>3, <1>4, <2>2 DEF LaneExact, Turned
<1>5. ASSUME NEW m \in DOMAIN N, N[m].lane = l, N[m].fate = "queued" PROVE \E i \in DOMAIN p : p[i] = m
  <2>1. m \in DOMAIN M /\ M[m].lane = l /\ M[m].fate = "queued" /\ m # Head(q)
    BY <1>5 DEF Turned
  <2>2. PICK j \in DOMAIN q : q[j] = m
    BY <2>1 DEF LaneExact
  <2>3. j - 1 \in DOMAIN p /\ p[j - 1] = q[j]
    <3>1. j # 1
      BY <1>2, <2>1, <2>2
    <3>2. j \in 1 .. Len(q) /\ Len(p) = Len(q) - 1 /\ Len(q) \in Nat
      BY <1>1, <1>2
    <3>3. j - 1 \in 1 .. Len(p) /\ (j - 1) + 1 = j
      BY ONLY <3>1, <3>2
    <3> QED
      BY <1>1, <1>2, <3>3
  <2> QED
    BY <2>2, <2>3
<1>6. ASSUME NEW i \in DOMAIN p, NEW j \in DOMAIN p, i < j, p[j] # EXIT PROVE p[i] < p[j]
  <2>1. i + 1 < j + 1
    BY <1>2, <1>6
  <2> QED
    BY <1>3, <1>6, <2>1 DEF LaneExact
<1>7. LaneExact(p, l, N)
  BY <1>4, <1>5, <1>6 DEF LaneExact
<1> QED
  BY <1>7 DEF p

\* Fates that are turned elsewhere do not concern the lane.
LEMMA LaneStays ==
  ASSUME NEW q \in Seq(Nat), NEW l, NEW M, NEW N, LaneExact(q, l, M),
         NEW ids, NEW f, f # "queued", Turned(M, N, ids, f),
         \A m \in DOMAIN M : m \in ids => M[m].fate # "queued" \/ M[m].lane # l
  PROVE  LaneExact(q, l, N)
BY DEF LaneExact, Turned

\* An empty lane, or one with the exit message only, when nothing of l is queued.
LEMMA LaneCleared ==
  ASSUME NEW l, NEW N, \A m \in DOMAIN N : ~(N[m].lane = l /\ N[m].fate = "queued")
  PROVE  LaneExact(<<>>, l, N) /\ LaneExact(<<EXIT>>, l, N)
BY DEF LaneExact

\* The exit message goes behind everything.
LEMMA LaneExit ==
  ASSUME NEW q \in Seq(Nat), NEW l, NEW M, LaneExact(q, l, M)
  PROVE  LaneExact(Append(q, EXIT), l, M)
<1> DEFINE p == Append(q, EXIT)
<1>1. /\ Len(q) \in Nat /\ DOMAIN q = 1 .. Len(q) /\ DOMAIN p = 1 .. Len(q) + 1
      /\ p[Len(q) + 1] = EXIT /\ \A i \in DOMAIN q : p[i] = q[i]
  BY DEF EXIT
<1>2. \A i \in DOMAIN p : p[i] # EXIT => i \in DOMAIN q
  BY <1>1
<1>3. \A i \in DOMAIN q : i \in DOMAIN p
  BY <1>1
<1>4. \A i, j \in DOMAIN p : i < j /\ p[j] # EXIT => i \in DOMAIN q /\ j \in DOMAIN q
  BY <1>1
<1> HIDE DEF p
<1>5. LaneExact(p, l, M)
  BY <1>1, <1>2, <1>3, <1>4 DEF LaneExact
<1> QED
  BY <1>5 DEF p

\* The elements of two lanes one after the other.
LEMMA ElemsConcat ==
  ASSUME NEW p \in Seq(Nat), NEW q \in Seq(Nat)
  PROVE  Elems(p \o q) = Elems(p) \cup Elems(q)
<1> DEFINE r == p \o q
<1>1. /\ Len(p) \in Nat /\ Len(q) \in Nat /\ DOMAIN p = 1 .. Len(p) /\ DOMAIN q = 1 .. Len(q)
      /\ DOMAIN r = 1 .. Len(p) + Len(q)
      /\ \A i \in 1 .. Len(p) : r[i] = p[i]
      /\ \A i \in Len(p) + 1 .. Len(p) + Len(q) : r[i] = q[i - Len(p)]
  BY ConcatProperties
<1> HIDE DEF r
<1>2. ASSUME NEW i \in DOMAIN p PROVE i \in DOMAIN r /\ r[i] = p[i]
  BY <1>1
<1>3. ASSUME NEW i \in DOMAIN q PROVE i + Len(p) \in DOMAIN r /\ r[i + Len(p)] = q[i]
  <2>1. i + Len(p) \in Len(p) + 1 .. Len(p) + Len(q) /\ (i + Len(p)) - Len(p) = i
    BY <1>1
  <2> QED
    BY <1>1, <2>1
<1>4. ASSUME NEW i \in DOMAIN r PROVE (i \in DOMAIN p /\ r[i] = p[i]) \/ (i - Len(p) \in DOMAIN q /\ r[i] = q[i - Len(p)])
  <2>1. CASE i <= Len(p)
    BY <1>1, <2>1
  <2>2. CASE i > Len(p)
    <3>1. i \in Len(p) + 1 .. Len(p) + Len(q) /\ i - Len(p) \in 1 .. Len(q)
      BY <1>1, <2>2
    <3> QED
      BY <1>1, <3>1
  <2> QED
    BY <1>1, <2>1, <2>2
<1>5. Elems(r) = Elems(p) \cup Elems(q)
  BY <1>2, <1>3, <1>4 DEF Elems
<1> QED
  BY <1>5 DEF r

---------------------------------------------------------------------------
(* The messages of a thread: queued ones are in their lane, a running one is *)
(* the message of one worker that is in its handler, and one that ExitThread *)
(* has taken off the lanes is in the list of one call, until that call       *)
(* cancels it.                                                              *)

LanesExact == LaneExact(high, "HIGH", msgs) /\ LaneExact(normal, "NORMAL", msgs)

RunningExact ==
  /\ \A g \in Gens : cur[g] # 0 => cur[g] \in DOMAIN msgs /\ msgs[cur[g]].fate = "running" /\ wpc[g] = "handling"
  /\ \A g \in Gens : wpc[g] = "handling" => cur[g] # 0
  /\ \A g, h \in Gens : cur[g] = cur[h] /\ cur[g] # 0 => g = h
  /\ \A m \in DOMAIN msgs : msgs[m].fate = "running" => \E g \in Gens : cur[g] = m

DiscardedExact ==
  /\ \A e \in Exiters : \A m \in discarded[e] : m \in DOMAIN msgs /\ msgs[m].fate = "removed"
  /\ \A e \in Exiters : discarded[e] # {} => op[e] \in {"cancel", "cancelRest"}
  /\ \A e, f \in Exiters : \A m \in discarded[e] : m \in discarded[f] => e = f
  /\ \A m \in DOMAIN msgs : msgs[m].fate = "removed" => \E e \in Exiters : m \in discarded[e]

LeavesCurrent == \A g \in Gens : wpc[g] = "exiting" /\ ~selfExit[g] => g = m_thread

\* Only the exit message makes the lanes one longer than the bound.
Room == Size <= MAX_QUEUE_SIZE + 1 /\ (NoExit(normal) => Size <= MAX_QUEUE_SIZE)

MessageInv == ShutdownInv /\ LanesExact /\ RunningExact /\ DiscardedExact /\ LeavesCurrent /\ Room

\* What ShutdownInv says of the types of lanes and messages.
LEMMA LaneTypes ==
  ASSUME ShutdownInv
  PROVE  /\ high \in Seq(Nat \ {EXIT}) /\ high \in Seq(Nat) /\ normal \in Seq(Nat) /\ msgs \in Seq(Message)
         /\ DOMAIN msgs = Ids /\ Len(msgs) \in Nat /\ NewId \in Nat \ {EXIT}
         /\ \A m \in DOMAIN msgs : msgs[m] \in Message /\ m # EXIT
         /\ NoExit(high)
<1>1. /\ high \in Seq(Nat \ {EXIT}) /\ normal \in Seq(Nat) /\ msgs \in Seq(Message)
  BY DEF ShutdownInv, WorkerInv, TypeInv, TypeOK
<1>2. high \in Seq(Nat)
  BY <1>1 DEF EXIT
<1>3. NoExit(high)
  BY <1>1 DEF NoExit
<1> QED
  BY <1>1, <1>2, <1>3 DEF Ids, NewId, EXIT

\* DISCARD, and the clearing at the end of ExitThread, take exactly the queued messages.
LEMMA DiscardTakesQueued ==
  ASSUME ShutdownInv, LanesExact
  PROVE  /\ Leftover = {m \in DOMAIN msgs : msgs[m].fate = "queued"}
         /\ Leftover = Discardable \ {EXIT}
<1>1. Discardable = Elems(high) \cup Elems(normal)
  BY ElemsConcat, LaneTypes DEF Discardable
<1>2. \A m \in DOMAIN msgs : m # EXIT /\ msgs[m].lane \in {"HIGH", "NORMAL"}
  BY LaneTypes DEF Message, Lanes
<1>3. \A m \in DOMAIN msgs : msgs[m].fate = "queued" => m \in Elems(high) \cup Elems(normal)
  BY <1>2 DEF LanesExact, LaneExact, Elems
<1>4. \A m \in (Elems(high) \cup Elems(normal)) \ {EXIT} : m \in DOMAIN msgs /\ msgs[m].fate = "queued"
  BY DEF LanesExact, LaneExact, Elems
<1>5. Leftover = Discardable \ {EXIT}
  BY DEF Leftover, Discardable
<1> QED
  BY <1>1, <1>2, <1>3, <1>4, <1>5

\* When all queued messages are taken off, empty lanes are exact.
LEMMA DiscardLanes ==
  ASSUME ShutdownInv, LanesExact, NEW N, NEW ids, NEW f, f # "queued", Turned(msgs, N, ids, f), Leftover \subseteq ids
  PROVE  \A l \in Lanes : LaneExact(<<>>, l, N) /\ LaneExact(<<EXIT>>, l, N)
<1>1. \A m \in DOMAIN N : N[m].fate # "queued"
  BY DiscardTakesQueued DEF Turned
<1> QED
  BY <1>1, LaneCleared

---------------------------------------------------------------------------
(* The steps that move messages.                                            *)

\* Callers that do not push leave the messages alone.
LEMMA DispatchMoves ==
  ASSUME NEW c \in Callers, Dispatch(c) \/ DispatchStep(c)
  PROVE  PushOrRefuse(c) \/ UNCHANGED queueVars
BY DEF Dispatch, DispatchStep, CheckThread, CatchThrow, Push, DropFull, FaultFull, WaitNotFull,
       WaitAgain, Resume, TimeoutFull, queueVars

\* Callers of DispatchDelegate do not touch what workers and exiters hold.
LEMMA DispatchHolds ==
  ASSUME NEW c \in Callers, Dispatch(c) \/ DispatchStep(c)
  PROVE  UNCHANGED <<cur, discarded, m_exit, m_thread, wpc, selfExit, op>>
BY DEF Dispatch, DispatchStep, CheckThread, CatchThrow, Push, DropFull, FaultFull, WaitNotFull,
       WaitAgain, Resume, TimeoutFull, PushOrRefuse, ownerVars, workerVars, exitVars

\* A push: one more message, at the end of its lane.
LEMMA PushMoves ==
  ASSUME ShutdownInv, NEW c \in Callers, PushOrRefuse(c)
  PROVE  \/ UNCHANGED queueVars
         \/ /\ ~m_exit /\ NoExit(normal)
            /\ \E l \in Lanes : /\ msgs' = Append(msgs, [lane |-> l, fate |-> "queued"])
                                /\ l = "HIGH" => high' = Append(high, NewId) /\ normal' = normal
                                /\ l # "HIGH" => normal' = Append(normal, NewId) /\ high' = high
BY DEF PushOrRefuse, Refused, ShutdownInv, ExitSent

\* What Take does to the messages and to the worker.
LEMMA TakeMoves ==
  ASSUME ShutdownInv, LanesExact, NEW g \in Gens, Take(g)
  PROVE  \E m \in Nat :
           /\ \/ high # <<>> /\ m = Head(high) /\ high' = Tail(high) /\ normal' = normal
                 /\ m # EXIT /\ msgs[m].lane = "HIGH"
              \/ high = <<>> /\ normal # <<>> /\ m = Head(normal) /\ normal' = Tail(normal) /\ high' = high
                 /\ (m # EXIT => msgs[m].lane = "NORMAL")
           /\ m # EXIT => m \in DOMAIN msgs /\ msgs[m].fate = "queued"
           /\ Turned(msgs, msgs', {m}, "running")
           /\ cur' = [cur EXCEPT ![g] = m]
           /\ wpc' = [wpc EXCEPT ![g] = IF m = EXIT THEN "exiting" ELSE "handling"]
           /\ wpc[g] = "loop" /\ g = m_thread /\ UNCHANGED <<discarded, op, m_exit, m_thread, selfExit>>
<1> DEFINE m == IF TakesHigh THEN Head(high) ELSE Head(normal)
<1>1. /\ wpc[g] = "loop" /\ UNCHANGED <<discarded, op, m_exit, m_thread, selfExit>>
      /\ cur' = [cur EXCEPT ![g] = m]
      /\ wpc' = [wpc EXCEPT ![g] = IF m = EXIT THEN "exiting" ELSE "handling"]
      /\ msgs' = Mark({m}, "running")
  BY DEF Take, ownerVars, exitVars
<1>2. g = m_thread
  BY <1>1 DEF ShutdownInv, WorkerInv, OneWorker, Active
<1>3. Turned(msgs, msgs', {m}, "running")
  BY <1>1, LaneTypes, MarkTurns
<1>4. CASE high # <<>>
  <2>1. m = Head(high) /\ high' = Tail(high) /\ normal' = normal
    BY <1>4 DEF Take, TakesHigh
  <2>2. Head(high) = high[1] /\ 1 \in DOMAIN high /\ Head(high) \in Nat \ {EXIT}
    BY <1>4, LaneTypes
  <2>3. m \in Nat /\ m # EXIT /\ m \in DOMAIN msgs /\ msgs[m].lane = "HIGH" /\ msgs[m].fate = "queued"
    BY <2>1, <2>2 DEF LanesExact, LaneExact
  <2> HIDE DEF m
  <2> QED
    BY <1>1, <1>2, <1>3, <1>4, <2>1, <2>3
<1>5. CASE high = <<>>
  <2>1. normal # <<>> /\ m = Head(normal) /\ normal' = Tail(normal) /\ high' = high
    BY <1>5 DEF Take, TakesHigh, Empty
  <2>2. Head(normal) = normal[1] /\ 1 \in DOMAIN normal /\ Head(normal) \in Nat
    BY <2>1, LaneTypes
  <2>3. m \in Nat /\ (m # EXIT => m \in DOMAIN msgs /\ msgs[m].lane = "NORMAL" /\ msgs[m].fate = "queued")
    BY <2>1, <2>2 DEF LanesExact, LaneExact
  <2> HIDE DEF m
  <2> QED
    BY <1>1, <1>2, <1>3, <1>5, <2>1, <2>3
<1> QED
  BY <1>4, <1>5

\* A call of ExitThread starts while no other exit message is under way.
LEMMA ExitMoves ==
  ASSUME ShutdownInv, LanesExact, NEW e \in Exiters, ExitRequest(e)
  PROVE  /\ NoExit(normal) /\ ~m_exit /\ m_exit' /\ m_thread \in Gens /\ m_thread' = m_thread
         /\ op[e] = "none" /\ op' = [op EXCEPT ![e] = "cancel"] /\ UNCHANGED <<cur, wpc, selfExit>>
         /\ \/ normal' = Append(normal, EXIT) /\ UNCHANGED <<high, msgs, discarded>>
            \/ /\ high' = <<>> /\ normal' = <<EXIT>>
               /\ Turned(msgs, msgs', Leftover, "removed")
               /\ discarded' = [discarded EXCEPT ![e] = Leftover]
<1>1. /\ MayExit(e) /\ m_exit' /\ op' = [op EXCEPT ![e] = "cancel"] /\ m_thread' = m_thread
      /\ UNCHANGED <<cur, wpc, selfExit>>
  BY DEF ExitRequest, workerVars
<1>2. /\ m_thread \in Gens /\ (e = Owner \/ e = m_thread) /\ op[Owner] \notin Exiting /\ op[m_thread] \notin Exiting
      /\ op[e] = "none"
  BY <1>1 DEF MayExit, HandlerFree, ShutdownInv, WorkerInv, TypeInv, TypeOK, ExitsCurrent, Exiting, Gens, Owner
<1>3. ~m_exit /\ NoExit(normal)
  BY <1>1, <1>2 DEF ShutdownInv, ExitSent, Gens, MayExit
<1>4. Discardable = Leftover
  <2>1. EXIT \notin Elems(high) \cup Elems(normal)
    BY <1>3, LaneTypes DEF NoExit, Elems
  <2>2. EXIT \notin Discardable
    BY <2>1, ElemsConcat, LaneTypes DEF Discardable
  <2> QED
    BY <2>2, DiscardTakesQueued
<1>5. \/ normal' = Append(normal, EXIT) /\ UNCHANGED <<high, msgs, discarded>>
      \/ /\ high' = <<>> /\ normal' = <<EXIT>>
         /\ msgs' = Mark(Discardable, "removed")
         /\ discarded' = [discarded EXCEPT ![e] = Discardable]
  BY DEF ExitRequest
<1> QED
  BY <1>1, <1>2, <1>3, <1>4, <1>5, MarkTurns, LaneTypes

\* The last locked section of ExitThread.
LEMMA ResetMoves ==
  ASSUME ShutdownInv, NEW e \in Exiters, ResetThread(e)
  PROVE  /\ high' = <<>> /\ normal' = <<>>
         /\ Turned(msgs, msgs', Leftover, "removed")
         /\ discarded' = [discarded EXCEPT ![e] = Leftover]
         /\ op[e] = "reset" /\ op' = [op EXCEPT ![e] = "cancelRest"]
         /\ m_thread' = 0 /\ UNCHANGED <<m_exit, cur, wpc, selfExit>>
BY MarkTurns, LaneTypes DEF ResetThread, workerVars

\* The canceling of what has been taken off the lanes.
LEMMA CancelMoves ==
  ASSUME ShutdownInv, NEW e \in Exiters, CancelDiscarded(e)
  PROVE  /\ Turned(msgs, msgs', discarded[e], "canceled")
         /\ discarded' = [discarded EXCEPT ![e] = {}]
         /\ op[e] \in {"cancel", "cancelRest"}
         /\ \E to \in {"join", "none"} : op' = [op EXCEPT ![e] = to]
         /\ UNCHANGED <<high, normal, m_exit, m_thread, cur, wpc, selfExit>>
BY MarkTurns, LaneTypes DEF CancelDiscarded, workerVars, ownerVars

\* A handler returns.
LEMMA DoneMoves ==
  ASSUME ShutdownInv, NEW g \in Gens, HandlerDone(g)
  PROVE  /\ Turned(msgs, msgs', {cur[g]}, "invoked")
         /\ cur' = [cur EXCEPT ![g] = 0]
         /\ wpc[g] = "handling" /\ wpc' = [wpc EXCEPT ![g] = AfterHandler(g)]
         /\ UNCHANGED <<high, normal, m_exit, m_thread, discarded, op, selfExit>>
BY MarkTurns, LaneTypes DEF HandlerDone, ownerVars, exitVars

\* The owner, a worker between handlers and a self-exit move no message.
Quiet ==
  \/ CreateThread \/ OwnerStep
  \/ \E g \in Gens : \/ StartHandlerDone(g) \/ RunIdle(g) \/ IdleHandlerDone(g) \/ ExitHandlerDone(g)
                     \/ IdleDue(g) \/ Detach(g)

\* What stays where it is in a quiet step.
LEMMA QuietMoves == Quiet => UNCHANGED <<high, normal, msgs, cur, discarded>>
BY DEF Quiet, CreateThread, OwnerStep, EmplaceThread, CreateThreadReturns, Join, StartHandlerDone,
       RunIdle, IdleHandlerDone, ExitHandlerDone, IdleDue, Detach, queueVars, workerVars, exitVars

\* Every step is quiet or one of those above.
LEMMA NextMoves ==
  ASSUME [Next]_vars
  PROVE  \/ UNCHANGED vars
         \/ Quiet
         \/ \E c \in Callers : Dispatch(c) \/ DispatchStep(c)
         \/ \E g \in Gens : Take(g) \/ HandlerDone(g)
         \/ \E e \in Exiters : ExitRequest(e) \/ CancelDiscarded(e) \/ ResetThread(e)
BY DEF Next, Quiet, WorkerStep, ExitStep

\* Every step keeps the lanes exact.
LEMMA LanesStep ==
  ASSUME MessageInv, [Next]_vars
  PROVE  LanesExact'
<1>0. ASSUME UNCHANGED <<high, normal, msgs>> PROVE LanesExact'
  BY <1>0 DEF MessageInv, LanesExact, LaneExact
<1>1. CASE UNCHANGED vars \/ Quiet
  BY <1>0, <1>1, QuietMoves DEF vars, queueVars
<1>2. ASSUME NEW c \in Callers, Dispatch(c) \/ DispatchStep(c) PROVE LanesExact'
  <2>1. CASE UNCHANGED queueVars
    BY <1>0, <2>1 DEF queueVars
  <2>2. CASE ~UNCHANGED queueVars
    <3>1. PICK l \in Lanes : /\ msgs' = Append(msgs, [lane |-> l, fate |-> "queued"]) /\ NoExit(normal)
                             /\ l = "HIGH" => high' = Append(high, NewId) /\ normal' = normal
                             /\ l # "HIGH" => normal' = Append(normal, NewId) /\ high' = high
      BY <1>2, <2>2, DispatchMoves, PushMoves DEF MessageInv
    <3>2. CASE l = "HIGH"
      <4>1. LaneExact(Append(high, NewId), "HIGH", msgs')
        BY <3>1, <3>2, LaneAppend, LaneTypes DEF MessageInv, LanesExact, NewId
      <4>2. LaneExact(normal, "NORMAL", msgs')
        BY <3>1, <3>2, LaneOther, LaneTypes DEF MessageInv, LanesExact
      <4> QED
        BY <3>1, <3>2, <4>1, <4>2 DEF LanesExact
    <3>3. CASE l = "NORMAL"
      <4>1. LaneExact(Append(normal, NewId), "NORMAL", msgs')
        BY <3>1, <3>3, LaneAppend, LaneTypes DEF MessageInv, LanesExact, NewId
      <4>2. LaneExact(high, "HIGH", msgs')
        BY <3>1, <3>3, LaneOther, LaneTypes DEF MessageInv, LanesExact
      <4> QED
        BY <3>1, <3>3, <4>1, <4>2 DEF LanesExact
    <3> QED
      BY <3>2, <3>3 DEF Lanes
  <2> QED
    BY <2>1, <2>2
<1>3. ASSUME NEW g \in Gens, Take(g) PROVE LanesExact'
  <2>1. PICK m \in Nat :
           /\ \/ high # <<>> /\ m = Head(high) /\ high' = Tail(high) /\ normal' = normal
                 /\ m # EXIT /\ msgs[m].lane = "HIGH"
              \/ high = <<>> /\ normal # <<>> /\ m = Head(normal) /\ normal' = Tail(normal) /\ high' = high
                 /\ (m # EXIT => msgs[m].lane = "NORMAL")
           /\ m # EXIT => m \in DOMAIN msgs /\ msgs[m].fate = "queued"
           /\ Turned(msgs, msgs', {m}, "running")
    BY <1>3, TakeMoves DEF MessageInv
  <2>2. CASE high # <<>>
    <3>1. LaneExact(Tail(high), "HIGH", msgs')
      BY <2>1, <2>2, LaneTail, LaneTypes DEF MessageInv, LanesExact
    <3>2. \A i \in DOMAIN msgs : i \in {m} => msgs[i].lane # "NORMAL"
      BY <2>1, <2>2
    <3>3. LaneExact(normal, "NORMAL", msgs')
      BY <2>1, <3>2, LaneStays, LaneTypes DEF MessageInv, LanesExact
    <3> QED
      BY <2>1, <2>2, <3>1, <3>3 DEF LanesExact
  <2>3. CASE high = <<>>
    <3>1. LaneExact(Tail(normal), "NORMAL", msgs')
      BY <2>1, <2>3, LaneTail, LaneTypes DEF MessageInv, LanesExact
    <3>2. \A i \in DOMAIN msgs : i \in {m} => msgs[i].lane # "HIGH"
      BY <2>1, <2>3, LaneTypes DEF MessageInv
    <3>3. LaneExact(high, "HIGH", msgs')
      BY <2>1, <3>2, LaneStays, LaneTypes DEF MessageInv, LanesExact
    <3> QED
      BY <2>1, <2>3, <3>1, <3>3 DEF LanesExact
  <2> QED
    BY <2>2, <2>3
<1>4. ASSUME NEW g \in Gens, HandlerDone(g) PROVE LanesExact'
  <2>1. Turned(msgs, msgs', {cur[g]}, "invoked") /\ UNCHANGED <<high, normal>> /\ wpc[g] = "handling"
    BY <1>4, DoneMoves DEF MessageInv
  <2>2. msgs[cur[g]].fate = "running"
    BY <2>1 DEF MessageInv, RunningExact
  <2>3. \A i \in DOMAIN msgs : i \in {cur[g]} => msgs[i].fate # "queued"
    BY <2>2
  <2>4. LaneExact(high, "HIGH", msgs')
    BY <2>1, <2>3, LaneStays, LaneTypes DEF MessageInv, LanesExact
  <2>5. LaneExact(normal, "NORMAL", msgs')
    BY <2>1, <2>3, LaneStays, LaneTypes DEF MessageInv, LanesExact
  <2> QED
    BY <2>1, <2>4, <2>5 DEF LanesExact
<1>5. ASSUME NEW e \in Exiters, ExitRequest(e) PROVE LanesExact'
  <2>1. CASE normal' = Append(normal, EXIT) /\ UNCHANGED <<high, msgs, discarded>>
    <3>1. LaneExact(Append(normal, EXIT), "NORMAL", msgs)
      BY LaneExit, LaneTypes DEF MessageInv, LanesExact
    <3> QED
      BY <2>1, <3>1 DEF MessageInv, LanesExact, LaneExact
  <2>2. CASE high' = <<>> /\ normal' = <<EXIT>> /\ Turned(msgs, msgs', Leftover, "removed")
    <3>1. LaneExact(<<>>, "HIGH", msgs') /\ LaneExact(<<EXIT>>, "NORMAL", msgs')
      BY <2>2, DiscardLanes DEF MessageInv, Lanes
    <3> QED
      BY <2>2, <3>1 DEF LanesExact
  <2> QED
    BY <1>5, <2>1, <2>2, ExitMoves DEF MessageInv
<1>6. ASSUME NEW e \in Exiters, CancelDiscarded(e) PROVE LanesExact'
  <2>1. Turned(msgs, msgs', discarded[e], "canceled") /\ UNCHANGED <<high, normal>>
    BY <1>6, CancelMoves DEF MessageInv
  <2>2. \A m \in discarded[e] : msgs[m].fate = "removed"
    BY DEF MessageInv, DiscardedExact
  <2>3. LaneExact(high, "HIGH", msgs') /\ LaneExact(normal, "NORMAL", msgs')
    BY <2>1, <2>2, LaneStays, LaneTypes DEF MessageInv, LanesExact
  <2> QED
    BY <2>1, <2>3 DEF LanesExact
<1>7. ASSUME NEW e \in Exiters, ResetThread(e) PROVE LanesExact'
  <2>1. high' = <<>> /\ normal' = <<>> /\ Turned(msgs, msgs', Leftover, "removed")
    BY <1>7, ResetMoves DEF MessageInv
  <2>2. LaneExact(<<>>, "HIGH", msgs') /\ LaneExact(<<>>, "NORMAL", msgs')
    BY <2>1, DiscardLanes DEF MessageInv, Lanes
  <2> QED
    BY <2>1, <2>2 DEF LanesExact
<1> QED
  BY <1>1, <1>2, <1>3, <1>4, <1>5, <1>6, <1>7, NextMoves

\* Every step keeps the running messages exact.
LEMMA RunningStep ==
  ASSUME MessageInv, [Next]_vars
  PROVE  RunningExact'
<1>t. /\ cur \in [Gens -> Nat] /\ DOMAIN wpc = Gens /\ DOMAIN discarded = Exiters /\ EXIT = 0
      /\ msgs \in Seq(Message) /\ 0 \notin DOMAIN msgs
  BY LaneTypes DEF MessageInv, ShutdownInv, WorkerInv, TypeInv, TypeOK, EXIT
<1>0. ASSUME UNCHANGED <<msgs, cur>>, \A g \in Gens : wpc'[g] = "handling" <=> wpc[g] = "handling"
      PROVE  RunningExact'
  BY <1>0 DEF MessageInv, RunningExact
<1>1. CASE UNCHANGED vars
  BY <1>0, <1>1 DEF vars, queueVars, workerVars
<1>2. CASE Quiet
  <2>1. \A g \in Gens : wpc'[g] = "handling" <=> wpc[g] = "handling"
    <3>1. CASE UNCHANGED wpc
      BY <3>1
    <3>2. CASE EmplaceThread
      <4>1. gen + 1 \in Gens /\ op[Owner] = "emplace" /\ wpc' = [wpc EXCEPT ![gen + 1] = "starting"]
        BY <3>2, StdlibThreadAssumption DEF EmplaceThread, MessageInv, ShutdownInv, WorkerInv, TypeInv,
           TypeOK, Gens, StdlibThreadAssumption
      <4>2. m_thread = 0 /\ ~selfExit[gen + 1]
        BY <4>1 DEF MessageInv, ShutdownInv, SelfExits, WorkerInv, ExitsCurrent, TypeInv, TypeOK
      <4>3. wpc[gen + 1] # "handling"
        BY <4>1, <4>2 DEF MessageInv, ShutdownInv, WorkerInv, OneWorker, Active, Gens
      <4> QED
        BY <1>t, <4>1, <4>3
    <3>3. ASSUME NEW g \in Gens, StartHandlerDone(g) \/ RunIdle(g) \/ IdleHandlerDone(g) \/ ExitHandlerDone(g) \/ IdleDue(g)
          PROVE  \A h \in Gens : wpc'[h] = "handling" <=> wpc[h] = "handling"
      BY <1>t, <3>3 DEF StartHandlerDone, RunIdle, IdleHandlerDone, ExitHandlerDone, IdleDue, AfterHandler
    <3> QED
      BY <1>2, <3>1, <3>2, <3>3 DEF Quiet, OwnerStep, CreateThread, CreateThreadReturns, Join, Detach, workerVars
  <2> QED
    BY <1>0, <1>2, <2>1, QuietMoves
<1>3. ASSUME NEW c \in Callers, Dispatch(c) \/ DispatchStep(c) PROVE RunningExact'
  <2>1. UNCHANGED <<cur, wpc>>
    BY <1>3, DispatchHolds
  <2>2. CASE UNCHANGED queueVars
    BY <1>0, <2>1, <2>2 DEF queueVars
  <2>3. CASE ~UNCHANGED queueVars
    <3>1. PICK l \in Lanes : msgs' = Append(msgs, [lane |-> l, fate |-> "queued"])
      BY <1>3, <2>3, DispatchMoves, PushMoves DEF MessageInv
    <3>2. /\ Len(msgs) \in Nat /\ DOMAIN msgs = 1 .. Len(msgs) /\ DOMAIN msgs' = 1 .. Len(msgs) + 1
          /\ msgs'[Len(msgs) + 1].fate = "queued" /\ \A m \in DOMAIN msgs : msgs'[m] = msgs[m]
      BY <1>t, <3>1
    <3>3. \A m \in DOMAIN msgs' : m \in DOMAIN msgs \/ m = Len(msgs) + 1
      BY <3>2
    <3>4. DOMAIN msgs \subseteq DOMAIN msgs'
      BY <3>2
    <3> QED
      BY <2>1, <3>2, <3>3, <3>4 DEF MessageInv, RunningExact
  <2> QED
    BY <2>2, <2>3
<1>4. ASSUME NEW g \in Gens, Take(g) PROVE RunningExact'
  <2>1. PICK m \in Nat :
           /\ m # EXIT => m \in DOMAIN msgs /\ msgs[m].fate = "queued"
           /\ Turned(msgs, msgs', {m}, "running")
           /\ cur' = [cur EXCEPT ![g] = m]
           /\ wpc' = [wpc EXCEPT ![g] = IF m = EXIT THEN "exiting" ELSE "handling"]
           /\ wpc[g] = "loop"
    BY <1>4, TakeMoves DEF MessageInv
  <2>2. cur[g] = 0
    BY <2>1 DEF MessageInv, RunningExact
  <2>3. cur'[g] = m /\ \A h \in Gens : h # g => cur'[h] = cur[h] /\ wpc'[h] = wpc[h]
    BY <1>t, <2>1
  <2>4. wpc'[g] = IF m = 0 THEN "exiting" ELSE "handling"
    BY <1>t, <2>1
  <2>5. \A h \in Gens : cur[h] # 0 => cur[h] # m
    BY <1>t, <2>1 DEF MessageInv, RunningExact
  <2>6. DOMAIN msgs' = DOMAIN msgs /\ \A i \in DOMAIN msgs : msgs'[i].fate = IF i = m THEN "running" ELSE msgs[i].fate
    BY <2>1 DEF Turned
  <2>r. RunningExact
    BY DEF MessageInv
  <2>7. \A h \in Gens : cur'[h] # 0 => cur'[h] \in DOMAIN msgs' /\ msgs'[cur'[h]].fate = "running" /\ wpc'[h] = "handling"
    <3> SUFFICES ASSUME NEW h \in Gens, cur'[h] # 0
                 PROVE  cur'[h] \in DOMAIN msgs' /\ msgs'[cur'[h]].fate = "running" /\ wpc'[h] = "handling"
      OBVIOUS
    <3>1. CASE h = g
      BY <2>1, <2>3, <2>4, <2>6, <3>1 DEF EXIT
    <3>2. CASE h # g
      BY <2>r, <2>3, <2>5, <2>6, <3>2 DEF RunningExact
    <3> QED
      BY <3>1, <3>2
  <2>8. \A h \in Gens : wpc'[h] = "handling" => cur'[h] # 0
    BY <2>r, <2>3, <2>4 DEF RunningExact
  <2>9. \A h, k \in Gens : cur'[h] = cur'[k] /\ cur'[h] # 0 => h = k
    BY <2>r, <2>3, <2>5 DEF RunningExact
  <2>10. ASSUME NEW i \in DOMAIN msgs', msgs'[i].fate = "running" PROVE \E h \in Gens : cur'[h] = i
    <3>1. CASE i = m
      BY <2>3, <3>1
    <3>2. CASE i # m
      <4>1. PICK h \in Gens : cur[h] = i
        BY <2>r, <2>6, <2>10, <3>2 DEF RunningExact
      <4>2. i # 0
        BY <1>t, <2>6, <2>10
      <4>3. h # g /\ cur'[h] = i
        BY <2>2, <2>3, <4>1, <4>2
      <4> QED
        BY <4>3
    <3> QED
      BY <3>1, <3>2
  <2> QED
    BY <2>7, <2>8, <2>9, <2>10 DEF RunningExact
<1>5. ASSUME NEW g \in Gens, HandlerDone(g) PROVE RunningExact'
  <2>1. /\ Turned(msgs, msgs', {cur[g]}, "invoked") /\ cur' = [cur EXCEPT ![g] = 0]
        /\ wpc[g] = "handling" /\ wpc' = [wpc EXCEPT ![g] = AfterHandler(g)]
    BY <1>5, DoneMoves DEF MessageInv
  <2>2. cur'[g] = 0 /\ wpc'[g] # "handling" /\ \A h \in Gens : h # g => cur'[h] = cur[h] /\ wpc'[h] = wpc[h]
    BY <1>t, <2>1 DEF AfterHandler
  <2>3. DOMAIN msgs' = DOMAIN msgs /\ \A i \in DOMAIN msgs : msgs'[i].fate = IF i = cur[g] THEN "invoked" ELSE msgs[i].fate
    BY <2>1 DEF Turned
  <2> QED
    <3>1. \A h \in Gens : cur'[h] # 0 => h # g /\ cur[h] # cur[g] /\ cur'[h] = cur[h]
      BY <1>t, <2>2 DEF MessageInv, RunningExact
    <3>2. \A m \in DOMAIN msgs' : msgs'[m].fate = "running" => \E h \in Gens : cur'[h] = m
      BY <2>2, <2>3 DEF MessageInv, RunningExact
    <3>3. \A h \in Gens : cur'[h] # 0 => cur'[h] \in DOMAIN msgs' /\ msgs'[cur'[h]].fate = "running" /\ wpc'[h] = "handling"
      BY <2>2, <2>3, <3>1 DEF MessageInv, RunningExact
    <3>4. \A h \in Gens : wpc'[h] = "handling" => cur'[h] # 0
      BY <2>2 DEF MessageInv, RunningExact
    <3>5. \A h, k \in Gens : cur'[h] = cur'[k] /\ cur'[h] # 0 => h = k
      BY <3>1 DEF MessageInv, RunningExact
    <3> QED
      BY <3>2, <3>3, <3>4, <3>5 DEF RunningExact
<1>6. ASSUME UNCHANGED <<cur, wpc>>, NEW ids, NEW f, f # "running", Turned(msgs, msgs', ids, f),
             \A m \in DOMAIN msgs : m \in ids => msgs[m].fate # "running"
      PROVE  RunningExact'
  <2>1. DOMAIN msgs' = DOMAIN msgs /\ \A i \in DOMAIN msgs : msgs'[i].fate = "running" <=> msgs[i].fate = "running"
    BY <1>6 DEF Turned
  <2> QED
    BY <1>6, <2>1 DEF MessageInv, RunningExact
<1>7. ASSUME NEW e \in Exiters, ExitRequest(e) PROVE RunningExact'
  <2>1. \A m \in Leftover : msgs[m].fate = "queued"
    BY DiscardTakesQueued DEF MessageInv
  <2>2. CASE UNCHANGED msgs
    BY <1>0, <1>7, <2>2, ExitMoves DEF MessageInv
  <2>3. CASE Turned(msgs, msgs', Leftover, "removed")
    BY <1>6, <1>7, <2>1, <2>3, ExitMoves DEF MessageInv
  <2> QED
    BY <1>7, <2>2, <2>3, ExitMoves DEF MessageInv
<1>8. ASSUME NEW e \in Exiters, CancelDiscarded(e) PROVE RunningExact'
  <2>1. \A m \in discarded[e] : msgs[m].fate = "removed"
    BY DEF MessageInv, DiscardedExact
  <2> QED
    BY <1>6, <1>8, <2>1, CancelMoves DEF MessageInv
<1>9. ASSUME NEW e \in Exiters, ResetThread(e) PROVE RunningExact'
  <2>1. \A m \in Leftover : msgs[m].fate = "queued"
    BY DiscardTakesQueued DEF MessageInv
  <2> QED
    BY <1>6, <1>9, <2>1, ResetMoves DEF MessageInv
<1> QED
  BY <1>1, <1>2, <1>3, <1>4, <1>5, <1>7, <1>8, <1>9, NextMoves

\* Every step keeps the lists of discarded messages exact.
LEMMA DiscardedStep ==
  ASSUME MessageInv, [Next]_vars
  PROVE  DiscardedExact'
<1>t. /\ DOMAIN op = Exiters /\ DOMAIN discarded = Exiters /\ DOMAIN cur = Gens /\ msgs \in Seq(Message)
      /\ Owner \in Exiters /\ \A g \in Gens : g \in Exiters
  BY DEF MessageInv, ShutdownInv, WorkerInv, TypeInv, TypeOK, Exiters
<1>0. ASSUME UNCHANGED <<msgs, discarded>>, \A e \in Exiters : op[e] \in {"cancel", "cancelRest"} => op'[e] = op[e]
      PROVE  DiscardedExact'
  BY <1>0 DEF MessageInv, DiscardedExact
<1>1. CASE UNCHANGED vars
  BY <1>0, <1>1 DEF vars, queueVars, exitVars
<1>2. CASE Quiet
  <2>1. \A e \in Exiters : op[e] \in {"cancel", "cancelRest"} => op'[e] = op[e]
    BY <1>2, <1>t DEF Quiet, CreateThread, OwnerStep, EmplaceThread, CreateThreadReturns, Join,
       StartHandlerDone, RunIdle, IdleHandlerDone, ExitHandlerDone, IdleDue, Detach, exitVars
  <2> QED
    BY <1>0, <1>2, <2>1, QuietMoves
<1>3. ASSUME NEW c \in Callers, Dispatch(c) \/ DispatchStep(c) PROVE DiscardedExact'
  <2>1. UNCHANGED <<discarded, op>>
    BY <1>3, DispatchHolds
  <2>2. CASE UNCHANGED queueVars
    BY <1>0, <2>1, <2>2 DEF queueVars
  <2>3. CASE ~UNCHANGED queueVars
    <3>1. PICK l \in Lanes : msgs' = Append(msgs, [lane |-> l, fate |-> "queued"])
      BY <1>3, <2>3, DispatchMoves, PushMoves DEF MessageInv
    <3>2. /\ Len(msgs) \in Nat /\ DOMAIN msgs = 1 .. Len(msgs) /\ DOMAIN msgs' = 1 .. Len(msgs) + 1
          /\ msgs'[Len(msgs) + 1].fate = "queued" /\ \A m \in DOMAIN msgs : msgs'[m] = msgs[m]
      BY <1>t, <3>1
    <3>3. \A m \in DOMAIN msgs' : m \in DOMAIN msgs \/ m = Len(msgs) + 1
      BY <3>2
    <3>4. DOMAIN msgs \subseteq DOMAIN msgs'
      BY <3>2
    <3> QED
      BY <2>1, <3>2, <3>3, <3>4 DEF MessageInv, DiscardedExact
  <2> QED
    BY <2>2, <2>3
<1>4. ASSUME UNCHANGED <<op, discarded>>, NEW m, NEW f, f # "removed", Turned(msgs, msgs', {m}, f),
             m \in DOMAIN msgs => msgs[m].fate # "removed"
      PROVE  DiscardedExact'
  <2>1. DOMAIN msgs' = DOMAIN msgs /\ \A i \in DOMAIN msgs : msgs'[i].fate = "removed" <=> msgs[i].fate = "removed"
    BY <1>4 DEF Turned
  <2> QED
    BY <1>4, <2>1 DEF MessageInv, DiscardedExact
<1>5. ASSUME NEW g \in Gens, Take(g) PROVE DiscardedExact'
  <2>1. PICK m \in Nat :
           /\ m # EXIT => m \in DOMAIN msgs /\ msgs[m].fate = "queued"
           /\ Turned(msgs, msgs', {m}, "running") /\ UNCHANGED <<discarded, op>>
    BY <1>5, TakeMoves DEF MessageInv
  <2>2. m \in DOMAIN msgs => msgs[m].fate # "removed"
    BY <2>1, LaneTypes DEF MessageInv
  <2> QED
    BY <1>4, <2>1, <2>2
<1>6. ASSUME NEW g \in Gens, HandlerDone(g) PROVE DiscardedExact'
  <2>1. wpc[g] = "handling" /\ Turned(msgs, msgs', {cur[g]}, "invoked") /\ UNCHANGED <<discarded, op>>
    BY <1>6, DoneMoves DEF MessageInv
  <2>2. msgs[cur[g]].fate # "removed"
    BY <2>1 DEF MessageInv, RunningExact
  <2> QED
    BY <1>4, <2>1, <2>2
<1>7. ASSUME NEW e \in Exiters, op[e] \notin {"cancel", "cancelRest"},
             \E to \in {"cancel", "cancelRest"} : op' = [op EXCEPT ![e] = to],
             Turned(msgs, msgs', Leftover, "removed"), discarded' = [discarded EXCEPT ![e] = Leftover]
      PROVE  DiscardedExact'
  <2>1. discarded[e] = {}
    BY <1>7 DEF MessageInv, DiscardedExact
  <2>2. /\ discarded'[e] = Leftover /\ op'[e] \in {"cancel", "cancelRest"}
        /\ \A f \in Exiters : f # e => discarded'[f] = discarded[f] /\ op'[f] = op[f]
    BY <1>7, <1>t
  <2>3. Leftover = {m \in DOMAIN msgs : msgs[m].fate = "queued"}
    BY DiscardTakesQueued DEF MessageInv
  <2>4. DOMAIN msgs' = DOMAIN msgs /\ \A i \in DOMAIN msgs : msgs'[i].fate = IF i \in Leftover THEN "removed" ELSE msgs[i].fate
    BY <1>7 DEF Turned
  <2>5. \A f \in Exiters : f # e => \A m \in discarded[f] : m \notin Leftover
    BY <2>3 DEF MessageInv, DiscardedExact
  <2> HIDE DEF Leftover
  <2>6. \A f \in Exiters : \A m \in discarded'[f] : m \in DOMAIN msgs' /\ msgs'[m].fate = "removed"
    BY <2>2, <2>3, <2>4 DEF MessageInv, DiscardedExact
  <2>7. \A f \in Exiters : discarded'[f] # {} => op'[f] \in {"cancel", "cancelRest"}
    BY <2>2 DEF MessageInv, DiscardedExact
  <2>8. \A f, h \in Exiters : \A m \in discarded'[f] : m \in discarded'[h] => f = h
    BY <2>2, <2>5 DEF MessageInv, DiscardedExact
  <2>9. \A m \in DOMAIN msgs' : msgs'[m].fate = "removed" => \E f \in Exiters : m \in discarded'[f]
    <3> SUFFICES ASSUME NEW m \in DOMAIN msgs', msgs'[m].fate = "removed"
                 PROVE  \E f \in Exiters : m \in discarded'[f]
      OBVIOUS
    <3>1. CASE m \in Leftover
      BY <2>2, <3>1
    <3>2. CASE m \notin Leftover
      <4>1. m \in DOMAIN msgs /\ msgs[m].fate = "removed"
        BY <2>4, <3>2
      <4>2. PICK f \in Exiters : m \in discarded[f]
        BY <4>1 DEF MessageInv, DiscardedExact
      <4> QED
        BY <2>1, <2>2, <4>2
    <3> QED
      BY <3>1, <3>2
  <2> QED
    BY <2>6, <2>7, <2>8, <2>9 DEF DiscardedExact
<1>8. ASSUME NEW e \in Exiters, ExitRequest(e) PROVE DiscardedExact'
  <2>1. op[e] = "none" /\ op' = [op EXCEPT ![e] = "cancel"]
    BY <1>8, ExitMoves DEF MessageInv
  <2>2. CASE UNCHANGED <<msgs, discarded>>
    BY <1>0, <1>t, <2>1, <2>2
  <2>3. CASE Turned(msgs, msgs', Leftover, "removed") /\ discarded' = [discarded EXCEPT ![e] = Leftover]
    BY <1>7, <2>1, <2>3
  <2> QED
    BY <1>8, <2>2, <2>3, ExitMoves DEF MessageInv
<1>9. ASSUME NEW e \in Exiters, ResetThread(e) PROVE DiscardedExact'
  BY <1>7, <1>9, ResetMoves DEF MessageInv
<1>10. ASSUME NEW e \in Exiters, CancelDiscarded(e) PROVE DiscardedExact'
  <2>1. /\ Turned(msgs, msgs', discarded[e], "canceled") /\ discarded' = [discarded EXCEPT ![e] = {}]
        /\ \E to \in {"join", "none"} : op' = [op EXCEPT ![e] = to]
    BY <1>10, CancelMoves DEF MessageInv
  <2>2. discarded'[e] = {} /\ \A f \in Exiters : f # e => discarded'[f] = discarded[f] /\ op'[f] = op[f]
    BY <1>t, <2>1
  <2>3. DOMAIN msgs' = DOMAIN msgs
        /\ \A i \in DOMAIN msgs : msgs'[i].fate = IF i \in discarded[e] THEN "canceled" ELSE msgs[i].fate
    BY <2>1 DEF Turned
  <2>6. \A f \in Exiters : \A m \in discarded'[f] : m \in DOMAIN msgs' /\ msgs'[m].fate = "removed"
    BY <2>2, <2>3 DEF MessageInv, DiscardedExact
  <2>7. \A f \in Exiters : discarded'[f] # {} => op'[f] \in {"cancel", "cancelRest"}
    BY <2>2 DEF MessageInv, DiscardedExact
  <2>8. \A f, h \in Exiters : \A m \in discarded'[f] : m \in discarded'[h] => f = h
    BY <2>2 DEF MessageInv, DiscardedExact
  <2>9. \A m \in DOMAIN msgs' : msgs'[m].fate = "removed" => \E f \in Exiters : m \in discarded'[f]
    BY <2>2, <2>3 DEF MessageInv, DiscardedExact
  <2> QED
    BY <2>6, <2>7, <2>8, <2>9 DEF DiscardedExact
<1> QED
  BY <1>1, <1>2, <1>3, <1>5, <1>6, <1>8, <1>9, <1>10, NextMoves

\* A worker that leaves without having exited itself is the one m_thread holds.
LEMMA LeavesStep ==
  ASSUME MessageInv, [Next]_vars
  PROVE  LeavesCurrent'
<1>t. DOMAIN wpc = Gens /\ DOMAIN selfExit = Gens /\ \A g \in Gens : g # 0
  BY DEF MessageInv, ShutdownInv, WorkerInv, TypeInv, TypeOK, Gens
<1>0. ASSUME m_thread' = m_thread, UNCHANGED selfExit,
             \A g \in Gens : wpc'[g] = "exiting" => wpc[g] = "exiting" \/ selfExit[g] \/ g = m_thread
      PROVE  LeavesCurrent'
  BY <1>0 DEF MessageInv, LeavesCurrent
<1>1. CASE UNCHANGED vars
  BY <1>0, <1>1 DEF vars, ownerVars, workerVars
<1>2. CASE Quiet
  <2>1. CASE EmplaceThread
    <3>1. m_thread = 0 /\ wpc' = [wpc EXCEPT ![gen + 1] = "starting"] /\ UNCHANGED selfExit
      BY <2>1 DEF EmplaceThread, MessageInv, ShutdownInv, WorkerInv, ExitsCurrent
    <3>2. \A g \in Gens : wpc'[g] = "exiting" => wpc[g] = "exiting"
      BY <1>t, <3>1
    <3> QED
      BY <1>t, <3>1, <3>2 DEF MessageInv, LeavesCurrent
  <2>2. ASSUME NEW g \in Gens, Detach(g) PROVE LeavesCurrent'
    BY <1>t, <2>2 DEF Detach, ownerVars, MessageInv, LeavesCurrent
  <2>3. ASSUME NEW g \in Gens, StartHandlerDone(g) \/ RunIdle(g) \/ IdleHandlerDone(g) \/ ExitHandlerDone(g) \/ IdleDue(g)
        PROVE  LeavesCurrent'
    BY <1>0, <1>t, <2>3 DEF StartHandlerDone, RunIdle, IdleHandlerDone, ExitHandlerDone, IdleDue, AfterHandler, ownerVars
  <2> QED
    BY <1>0, <1>2, <2>1, <2>2, <2>3 DEF Quiet, OwnerStep, CreateThread, CreateThreadReturns, Join,
       workerVars, ownerVars
<1>3. ASSUME NEW c \in Callers, Dispatch(c) \/ DispatchStep(c) PROVE LeavesCurrent'
  BY <1>0, <1>3, DispatchHolds
<1>4. ASSUME NEW g \in Gens, Take(g) PROVE LeavesCurrent'
  <2>1. \E to : wpc' = [wpc EXCEPT ![g] = to] /\ g = m_thread /\ UNCHANGED <<m_thread, selfExit>>
    BY <1>4, TakeMoves DEF MessageInv
  <2> QED
    BY <1>0, <1>t, <2>1
<1>5. ASSUME NEW g \in Gens, HandlerDone(g) PROVE LeavesCurrent'
  BY <1>0, <1>t, <1>5, DoneMoves DEF MessageInv, AfterHandler
<1>6. ASSUME NEW e \in Exiters, ExitRequest(e) PROVE LeavesCurrent'
  BY <1>0, <1>6, ExitMoves DEF MessageInv
<1>7. ASSUME NEW e \in Exiters, CancelDiscarded(e) PROVE LeavesCurrent'
  BY <1>0, <1>7, CancelMoves DEF MessageInv
<1>8. ASSUME NEW e \in Exiters, ResetThread(e) PROVE LeavesCurrent'
  <2>1. op[e] = "reset" /\ UNCHANGED <<wpc, selfExit>>
    BY <1>8, ResetMoves DEF MessageInv
  <2>2. \A g \in Gens : wpc[g] = "exiting" => selfExit[g]
    <3> SUFFICES ASSUME NEW g \in Gens, wpc[g] = "exiting", ~selfExit[g] PROVE FALSE
      OBVIOUS
    <3>1. g = m_thread
      BY DEF MessageInv, LeavesCurrent
    <3>2. CASE e = Owner
      BY <2>1, <3>1, <3>2 DEF MessageInv, ShutdownInv, WorkerInv, ResetIsSafe
    <3>3. CASE e \in Gens
      BY <2>1, <3>1, <3>3 DEF MessageInv, ShutdownInv, WorkerInv, ResetIsSafe, ExitsCurrent, Exiting
    <3> QED
      BY <3>2, <3>3 DEF Exiters
  <2> QED
    BY <2>1, <2>2 DEF LeavesCurrent
<1> QED
  BY <1>1, <1>2, <1>3, <1>4, <1>5, <1>6, <1>7, <1>8, NextMoves

\* A caller pushes only where there is room.
LEMMA PushHasRoom ==
  ASSUME NEW c \in Callers, Dispatch(c) \/ DispatchStep(c)
  PROVE  UNCHANGED queueVars \/ ~Full \/ m_exit
BY DEF Dispatch, DispatchStep, CheckThread, CatchThrow, Push, DropFull, FaultFull, WaitNotFull,
       WaitAgain, Resume, TimeoutFull, queueVars

\* The bound and the policy are fixed at construction.
LEMMA ConfigKept == [Next]_vars => UNCHANGED configVars
BY DEF Next, Running, vars

\* Every step keeps the lanes within the bound.
LEMMA RoomStep ==
  ASSUME MessageInv, [Next]_vars
  PROVE  Room'
<1>t. /\ MAX_QUEUE_SIZE \in Nat /\ MAX_QUEUE_SIZE > 0 /\ MAX_QUEUE_SIZE' = MAX_QUEUE_SIZE
      /\ high \in Seq(Nat) /\ normal \in Seq(Nat) /\ Len(high) \in Nat /\ Len(normal) \in Nat
  BY StdlibThreadAssumption, ConfigKept, LaneTypes
     DEF StdlibThreadAssumption, configVars, MessageInv, ShutdownInv, WorkerInv, TypeInv, TypeOK
<1>0. ASSUME UNCHANGED <<high, normal>> PROVE Room'
  BY <1>0, <1>t DEF MessageInv, Room, Size, NoExit
<1>1. CASE UNCHANGED vars \/ Quiet
  BY <1>0, <1>1, QuietMoves DEF vars, queueVars
<1>2. ASSUME NEW c \in Callers, Dispatch(c) \/ DispatchStep(c) PROVE Room'
  <2>1. CASE UNCHANGED queueVars
    BY <1>0, <2>1 DEF queueVars
  <2>2. CASE ~UNCHANGED queueVars
    <3>1. /\ ~m_exit
          /\ \/ high' = Append(high, NewId) /\ normal' = normal
             \/ normal' = Append(normal, NewId) /\ high' = high
      BY <1>2, <2>2, DispatchMoves, PushMoves DEF MessageInv
    <3>2. Len(high') + Len(normal') = Len(high) + Len(normal) + 1
      <4>1. Len(Append(high, NewId)) = Len(high) + 1 /\ Len(Append(normal, NewId)) = Len(normal) + 1
        BY AppendProperties, LaneTypes DEF MessageInv
      <4>2. \/ Len(high') = Len(high) + 1 /\ Len(normal') = Len(normal)
            \/ Len(normal') = Len(normal) + 1 /\ Len(high') = Len(high)
        BY <3>1, <4>1
      <4>3. Len(high) \in Nat /\ Len(normal) \in Nat
        BY <1>t
      <4>4. CASE Len(high') = Len(high) + 1 /\ Len(normal') = Len(normal)
        BY ONLY <4>3, <4>4
      <4>5. CASE Len(normal') = Len(normal) + 1 /\ Len(high') = Len(high)
        BY ONLY <4>3, <4>5
      <4> QED
        BY <4>2, <4>4, <4>5
    <3>3. Len(high) + Len(normal) < MAX_QUEUE_SIZE
      BY <1>2, <1>t, <2>2, <3>1, PushHasRoom DEF Full, Size
    <3>4. Size' <= MAX_QUEUE_SIZE
      BY <1>t, <3>2, <3>3 DEF Size
    <3> QED
      BY <1>t, <3>2, <3>3, <3>4 DEF Room, Size
  <2> QED
    BY <2>1, <2>2
<1>3. ASSUME NEW g \in Gens, Take(g) PROVE Room'
  <2>1. \/ high # <<>> /\ high' = Tail(high) /\ normal' = normal
        \/ normal # <<>> /\ normal' = Tail(normal) /\ high' = high
    BY <1>3, TakeMoves DEF MessageInv
  <2>2. Len(high') + Len(normal') = Len(high) + Len(normal) - 1
    <3>1. (high # <<>> => Len(Tail(high)) = Len(high) - 1) /\ (normal # <<>> => Len(Tail(normal)) = Len(normal) - 1)
      BY <1>t, HeadTailProperties
    <3>2. \/ Len(high') = Len(high) - 1 /\ Len(normal') = Len(normal)
          \/ Len(normal') = Len(normal) - 1 /\ Len(high') = Len(high)
      BY <2>1, <3>1
    <3>3. Len(high) \in Nat /\ Len(normal) \in Nat
      BY <1>t
    <3>4. CASE Len(high') = Len(high) - 1 /\ Len(normal') = Len(normal)
      BY ONLY <3>3, <3>4
    <3>5. CASE Len(normal') = Len(normal) - 1 /\ Len(high') = Len(high)
      BY ONLY <3>3, <3>5
    <3> QED
      BY <3>2, <3>4, <3>5
  <2>3. Len(high) + Len(normal) <= MAX_QUEUE_SIZE + 1
    BY DEF MessageInv, Room, Size
  <2> QED
    BY <1>t, <2>2, <2>3 DEF Room, Size
<1>4. ASSUME NEW g \in Gens, HandlerDone(g) PROVE Room'
  BY <1>0, <1>4, DoneMoves DEF MessageInv
<1>5. ASSUME NEW e \in Exiters, ExitRequest(e) PROVE Room'
  <2>1. Len(high) + Len(normal) <= MAX_QUEUE_SIZE
    BY <1>5, ExitMoves DEF MessageInv, Room, Size
  <2>2. CASE normal' = Append(normal, EXIT) /\ high' = high
    <3>1. Len(normal') = Len(normal) + 1 /\ normal'[Len(normal) + 1] = EXIT /\ Len(normal) + 1 \in DOMAIN normal'
      BY <1>t, <2>2 DEF EXIT
    <3> QED
      BY <1>t, <2>1, <2>2, <3>1 DEF Room, Size, NoExit
  <2>3. CASE normal' = <<EXIT>> /\ high' = <<>>
    <3>1. Len(normal') = 1 /\ normal'[1] = EXIT /\ 1 \in DOMAIN normal' /\ Len(high') = 0
      BY <2>3
    <3> QED
      BY <1>t, <3>1 DEF Room, Size, NoExit
  <2> QED
    BY <1>5, <2>2, <2>3, ExitMoves DEF MessageInv
<1>6. ASSUME NEW e \in Exiters, CancelDiscarded(e) PROVE Room'
  BY <1>0, <1>6, CancelMoves DEF MessageInv
<1>7. ASSUME NEW e \in Exiters, ResetThread(e) PROVE Room'
  <2>1. Len(high') = 0 /\ Len(normal') = 0
    BY <1>7, ResetMoves DEF MessageInv
  <2> QED
    BY <1>t, <2>1 DEF Room, Size
<1> QED
  BY <1>1, <1>2, <1>3, <1>4, <1>5, <1>6, <1>7, NextMoves

\* The constructor establishes the message invariant.
LEMMA MessageInit == Init => LanesExact /\ RunningExact /\ DiscardedExact /\ LeavesCurrent /\ Room
BY StdlibThreadAssumption DEF StdlibThreadAssumption, Init, LanesExact, LaneExact, RunningExact,
   DiscardedExact, LeavesCurrent, Room, Size, Exiters

\* The message invariant holds.
THEOREM MessageInvHolds == Safety => []MessageInv
<1>1. Init /\ ShutdownInv => MessageInv
  BY MessageInit DEF MessageInv
<1>2. MessageInv /\ ShutdownInv' /\ [Next]_vars => MessageInv'
  BY LanesStep, RunningStep, DiscardedStep, LeavesStep, RoomStep DEF MessageInv
<1> QED
  BY <1>1, <1>2, ShutdownInvHolds, PTL DEF Safety

---------------------------------------------------------------------------
(* The bound on the queue.                                                  *)

\* A set listed by n entries of a sequence has at most n elements.
LEMMA ListedBound ==
  ASSUME NEW r, NEW n \in Nat, NEW S, S = {r[i] : i \in 1 .. n}
  PROVE  Cardinality(S) \in Nat /\ Cardinality(S) <= n
<1> DEFINE f == [i \in 1 .. n |-> r[i]]
<1>1. f \in Surjection(1 .. n, S)
  BY DEF Surjection
<1>2. ExistsSurjection(1 .. n, S)
  BY <1>1 DEF ExistsSurjection
<1>3. IsFiniteSet(1 .. n)
  BY FS_Interval
<1>4. IsFiniteSet(S)
  BY <1>1, <1>3, FS_Surjection
<1> QED
  BY <1>2, <1>4, FS_SurjCardinalityBound, FS_CardinalityType

\* The exit message is absent, or last.
LEMMA ExitPlace ==
  ASSUME ShutdownInv
  PROVE  NoExit(normal) \/ ExitLast(normal)
BY DEF ShutdownInv, ExitSent, Empty, NoExit

(* MAX_QUEUE_SIZE bounds the accepted messages, for every size of queue and  *)
(* whatever DispatchDelegate and ExitThread do at the same time; only the    *)
(* exit message goes beyond it.                                             *)
THEOREM QueueIsBounded == Safety => []QueueBounded
<1>1. MessageInv => QueueBounded
  <2> SUFFICES ASSUME MessageInv PROVE QueueBounded
    OBVIOUS
  <2> DEFINE r == high \o normal
             Q == {i \in Ids : msgs[i].fate = "queued"}
  <2>1. /\ Len(high) \in Nat /\ Len(normal) \in Nat /\ Len(r) = Size /\ Size = Len(high) + Len(normal)
        /\ DOMAIN r = 1 .. Size
        /\ \A i \in 1 .. Len(high) : r[i] = high[i]
        /\ \A i \in Len(high) + 1 .. Size : r[i] = normal[i - Len(high)]
    BY LaneTypes, ConcatProperties DEF MessageInv, Size
  <2>2. Q = Elems(r) \ {EXIT}
    BY DiscardTakesQueued, LaneTypes DEF MessageInv, Leftover
  <2>3. Size \in Nat /\ Size <= MAX_QUEUE_SIZE + 1 /\ MAX_QUEUE_SIZE \in Nat
    BY <2>1, StdlibThreadAssumption
       DEF MessageInv, Room, ShutdownInv, WorkerInv, TypeInv, TypeOK, StdlibThreadAssumption
  <2>4. \A i \in 1 .. Len(high) : r[i] # EXIT
    BY <2>1, LaneTypes DEF MessageInv, NoExit
  <2>5. CASE NoExit(normal)
    <3>1. \A i \in 1 .. Size : r[i] # EXIT
      <4> SUFFICES ASSUME NEW i \in 1 .. Size PROVE r[i] # EXIT
        OBVIOUS
      <4>1. CASE i <= Len(high)
        BY <2>1, <2>4, <4>1
      <4>2. CASE i > Len(high)
        <5>1. i \in Len(high) + 1 .. Size /\ i - Len(high) \in 1 .. Len(normal)
          BY <2>1, <4>2
        <5>2. r[i] = normal[i - Len(high)] /\ i - Len(high) \in DOMAIN normal
          BY <2>1, <5>1, LaneTypes DEF MessageInv
        <5> QED
          BY <2>5, <5>2 DEF NoExit
      <4> QED
        BY <2>1, <4>1, <4>2
    <3> HIDE DEF r, Q
    <3>2. Q = {r[i] : i \in 1 .. Size}
      BY <2>1, <2>2, <3>1 DEF Elems
    <3>3. Cardinality(Q) \in Nat /\ Cardinality(Q) <= Size
      BY <2>3, <3>2, ListedBound
    <3>4. Size <= MAX_QUEUE_SIZE
      BY <2>5 DEF MessageInv, Room
    <3>5. \A x : x \in Int /\ x <= Size => x <= MAX_QUEUE_SIZE
      BY <2>3, <3>4
    <3> QED
      BY <2>3, <3>3, <3>5 DEF QueueBounded, Q
  <2>6. CASE ExitLast(normal)
    <3>1. Size - 1 \in Nat /\ r[Size] = EXIT
      <4>1. Len(normal) > 0 /\ normal[Len(normal)] = EXIT
        BY <2>6, LaneTypes DEF MessageInv, ExitLast
      <4>2. Size \in Len(high) + 1 .. Size /\ Size - Len(high) = Len(normal)
        BY <2>1, <4>1
      <4> QED
        BY <2>1, <4>1, <4>2
    <3>2. \A i \in 1 .. Size - 1 : r[i] # EXIT
      <4> SUFFICES ASSUME NEW i \in 1 .. Size - 1 PROVE r[i] # EXIT
        OBVIOUS
      <4>1. CASE i <= Len(high)
        BY <2>1, <2>4, <4>1
      <4>2. CASE i > Len(high)
        <5>1. i \in Len(high) + 1 .. Size /\ i - Len(high) \in 1 .. Len(normal) - 1
          BY <2>1, <4>2
        <5>2. r[i] = normal[i - Len(high)]
          BY <2>1, <5>1
        <5> QED
          BY <2>6, <5>1, <5>2 DEF ExitLast
      <4> QED
        BY <2>1, <4>1, <4>2
    <3> HIDE DEF r, Q
    <3>3. \A i \in 1 .. Size : i \in 1 .. Size - 1 \/ i = Size
      BY <2>3
    <3>4. 1 .. Size - 1 \subseteq 1 .. Size
      BY <2>3
    <3>5. Q = {r[i] : i \in 1 .. Size - 1}
      <4>1. Q = {r[i] : i \in 1 .. Size} \ {EXIT}
        BY <2>1, <2>2 DEF Elems
      <4>2. ASSUME NEW x \in Q PROVE \E i \in 1 .. Size - 1 : r[i] = x
        <5>1. PICK i \in 1 .. Size : r[i] = x /\ x # EXIT
          BY <4>1, <4>2
        <5> QED
          BY <3>1, <3>3, <5>1
      <4>3. ASSUME NEW i \in 1 .. Size - 1 PROVE r[i] \in Q
        BY <3>2, <3>4, <4>1
      <4> QED
        BY <4>2, <4>3
    <3>6. Cardinality(Q) \in Nat /\ Cardinality(Q) <= Size - 1
      BY <3>1, <3>5, ListedBound
    <3>7. \A x \in Nat : x <= Size - 1 => x <= MAX_QUEUE_SIZE
      BY <2>3
    <3> QED
      BY <2>3, <3>6, <3>7 DEF QueueBounded, Q
  <2> QED
    BY <2>5, <2>6, ExitPlace DEF MessageInv
<1> QED
  BY <1>1, MessageInvHolds, PTL

---------------------------------------------------------------------------
(* What is left when ExitThread has returned.                               *)

(* After ExitThread no handler runs but one that exited its own thread, and  *)
(* every message that was ever accepted has been invoked or canceled, or is  *)
(* the one that handler is running.                                         *)
THEOREM StopIsQuiet == Safety => []StoppedMeansQuiet
<1>1. MessageInv => StoppedMeansQuiet
  <2> SUFFICES ASSUME MessageInv, op[Owner] = "none", m_thread = 0, m_exit, \A g \in Gens : op[g] = "none"
               PROVE  /\ \A g \in Gens : wpc[g] \in {"none", "dead"} \/ selfExit[g]
                      /\ \A i \in Ids : \/ msgs[i].fate \in {"invoked", "canceled"}
                                        \/ \E g \in Gens : cur[g] = i /\ selfExit[g]
    BY DEF StoppedMeansQuiet
  <2>1. \A g \in Gens : g # 0 /\ wpc[g] \in {"none", "starting", "loop", "handling", "idleDue", "idling", "exiting", "dead"}
    <3>1. wpc \in [Gens -> {"none", "starting", "loop", "handling", "idleDue", "idling", "exiting", "dead"}]
      BY DEF MessageInv, ShutdownInv, WorkerInv, TypeInv, TypeOK
    <3>2. \A g \in Gens : g # 0
      BY DEF Gens
    <3> QED
      BY <3>1, <3>2
  <2>2. ASSUME NEW g \in Gens PROVE wpc[g] \in {"none", "dead"} \/ selfExit[g]
    <3>1. ~Active(g)
      BY <2>1 DEF MessageInv, ShutdownInv, WorkerInv, OneWorker
    <3>2. ~(wpc[g] = "exiting" /\ ~selfExit[g])
      BY <2>1 DEF MessageInv, LeavesCurrent
    <3> QED
      BY <2>1, <3>1, <3>2 DEF Active
  <2>3. high = <<>> /\ normal = <<>>
    BY DEF MessageInv, ShutdownInv, ExitSent, Empty
  <2>4. ASSUME NEW i \in Ids
        PROVE  msgs[i].fate \in {"invoked", "canceled"} \/ \E g \in Gens : cur[g] = i /\ selfExit[g]
    <3>1. i \in DOMAIN msgs /\ msgs[i].lane \in {"HIGH", "NORMAL"}
          /\ msgs[i].fate \in {"queued", "running", "invoked", "removed", "canceled"}
      BY LaneTypes DEF MessageInv, Message, Lanes
    <3>2. msgs[i].fate # "queued"
      BY <2>3, <3>1 DEF MessageInv, LanesExact, LaneExact
    <3>3. msgs[i].fate # "removed"
      <4> SUFFICES ASSUME msgs[i].fate = "removed" PROVE FALSE
        OBVIOUS
      <4>1. PICK e \in Exiters : i \in discarded[e]
        BY <3>1 DEF MessageInv, DiscardedExact
      <4>2. op[e] \in {"cancel", "cancelRest"}
        BY <4>1 DEF MessageInv, DiscardedExact
      <4>3. e = Owner \/ e \in Gens
        BY DEF Exiters
      <4> QED
        BY <4>2, <4>3
    <3>4. ASSUME msgs[i].fate = "running" PROVE \E g \in Gens : cur[g] = i /\ selfExit[g]
      <4>1. PICK g \in Gens : cur[g] = i
        BY <3>1, <3>4 DEF MessageInv, RunningExact
      <4>2. i # 0
        BY LaneTypes, <3>1 DEF MessageInv, EXIT
      <4>3. wpc[g] = "handling"
        BY <4>1, <4>2 DEF MessageInv, RunningExact
      <4>4. selfExit[g]
        BY <2>2, <4>3
      <4> QED
        BY <4>1, <4>4
    <3> QED
      BY <3>1, <3>2, <3>3, <3>4
  <2> QED
    BY <2>2, <2>4
<1> QED
  BY <1>1, MessageInvHolds, PTL

---------------------------------------------------------------------------
(* Wake-ups.  Only the callers that are inside DispatchDelegate count, and   *)
(* there are finitely many of them however many threads there are.          *)

Dispatching == {c \in Callers : pc[c] # "idle"}

WakeInv == MessageInv /\ IsFiniteSet(Dispatching) /\ NoLostWakeup

\* The notified callers can be counted.
LEMMA WokenCount ==
  ASSUME IsFiniteSet(Dispatching)
  PROVE  IsFiniteSet(Woken) /\ Cardinality(Woken) \in Nat
<1>1. Woken \subseteq Dispatching
  BY DEF Woken, Dispatching
<1> QED
  BY <1>1, FS_Subset, FS_CardinalityType

\* One caller takes one step: at most it joins those that dispatch.
LEMMA OneMoves ==
  ASSUME WakeInv, NEW c \in Callers, NEW to, pc' = [pc EXCEPT ![c] = to]
  PROVE  /\ IsFiniteSet(Dispatching')
         /\ \A d \in Callers : d # c => pc'[d] = pc[d]
         /\ pc'[c] = to
<1>1. DOMAIN pc = Callers
  BY DEF WakeInv, MessageInv, ShutdownInv, WorkerInv, TypeInv, TypeOK
<1>2. Dispatching' \subseteq Dispatching \cup {c}
  BY <1>1 DEF Dispatching
<1>3. IsFiniteSet(Dispatching \cup {c})
  BY FS_AddElement DEF WakeInv
<1>4. IsFiniteSet(Dispatching')
  BY <1>2, <1>3, FS_Subset
<1> QED
  BY <1>1, <1>4

\* Callers of DispatchDelegate lose no wake-up.
LEMMA DispatchWakes ==
  ASSUME WakeInv, NEW c \in Callers, Dispatch(c) \/ DispatchStep(c), Running
  PROVE  IsFiniteSet(Dispatching') /\ NoLostWakeup'
<1>t. /\ MAX_QUEUE_SIZE \in Nat /\ MAX_QUEUE_SIZE' = MAX_QUEUE_SIZE /\ m_exit' = m_exit
      /\ Len(high) \in Nat /\ Len(normal) \in Nat /\ Size = Len(high) + Len(normal) /\ Size \in Nat
      /\ DOMAIN pc = Callers /\ m_exit \in BOOLEAN
  BY StdlibThreadAssumption, DispatchHolds, LaneTypes DEF StdlibThreadAssumption, Running, configVars, Size,
     WakeInv, MessageInv, ShutdownInv, WorkerInv, TypeInv, TypeOK
<1>w. IsFiniteSet(Woken) /\ Cardinality(Woken) \in Nat
  BY WokenCount DEF WakeInv
<1>0. CASE UNCHANGED <<pc, high, normal>>
  BY <1>0, <1>t DEF WakeInv, Dispatching, NoLostWakeup, Waiting, Woken, Size
<1>1. ASSUME NEW to, pc' = [pc EXCEPT ![c] = to], to \notin {"waiting", "woken"}, UNCHANGED <<high, normal>>,
             pc[c] \notin {"waiting", "woken"}
      PROVE  IsFiniteSet(Dispatching') /\ NoLostWakeup'
  <2>1. Waiting' = Waiting /\ Woken' = Woken /\ IsFiniteSet(Dispatching')
    BY <1>1, OneMoves DEF Waiting, Woken
  <2> QED
    BY <1>1, <1>t, <2>1 DEF WakeInv, NoLostWakeup, Size
<1>2. ASSUME NEW to, pc' = [pc EXCEPT ![c] = to], Full, ~m_exit, UNCHANGED <<high, normal>>
      PROVE  IsFiniteSet(Dispatching') /\ NoLostWakeup'
  <2>1. IsFiniteSet(Dispatching')
    BY <1>2, OneMoves
  <2>2. Cardinality(Woken') \in Nat
    <3>1. Woken' \subseteq Dispatching'
      BY DEF Woken, Dispatching
    <3> QED
      BY <2>1, <3>1, FS_Subset, FS_CardinalityType
  <2>3. Size' = Size /\ MAX_QUEUE_SIZE - Size <= 0
    BY <1>2, <1>t DEF Full, Size
  <2> QED
    BY <1>2, <1>t, <2>1, <2>2, <2>3 DEF NoLostWakeup
<1>3. ASSUME PushOrRefuse(c), pc[c] \in {"checked", "waiting", "woken"}, pc[c] = "checked" \/ ~Full \/ m_exit
      PROVE  IsFiniteSet(Dispatching') /\ NoLostWakeup'
  <2>1. pc' = [pc EXCEPT ![c] = "idle"]
    BY <1>3 DEF PushOrRefuse, Return
  <2>2. IsFiniteSet(Dispatching') /\ Waiting' = Waiting \ {c} /\ Woken' = Woken \ {c}
    <3>1. IsFiniteSet(Dispatching') /\ pc'[c] = "idle" /\ \A d \in Callers : d # c => pc'[d] = pc[d]
      BY <2>1, OneMoves
    <3>2. \A d \in Callers : /\ pc'[d] = "waiting" <=> pc[d] = "waiting" /\ d # c
                             /\ pc'[d] = "woken" <=> pc[d] = "woken" /\ d # c
      BY <3>1
    <3> QED
      BY <3>1, <3>2 DEF Waiting, Woken
  <2>3. CASE m_exit
    BY <1>t, <2>2, <2>3 DEF WakeInv, NoLostWakeup
  <2>4. CASE ~m_exit
    <3>1. \/ high' = Append(high, NewId) /\ normal' = normal
          \/ normal' = Append(normal, NewId) /\ high' = high
      BY <1>3, <2>4 DEF PushOrRefuse, Refused
    <3>2. Len(Append(high, NewId)) = Len(high) + 1 /\ Len(Append(normal, NewId)) = Len(normal) + 1
      BY AppendProperties, LaneTypes DEF WakeInv, MessageInv
    <3>3. \/ Len(high') = Len(high) + 1 /\ Len(normal') = Len(normal)
          \/ Len(normal') = Len(normal) + 1 /\ Len(high') = Len(high)
      BY <3>1, <3>2
    <3>4. Size' = Size + 1
      BY <1>t, <3>3 DEF Size
    <3>5. Cardinality(Woken') \in Nat /\ Cardinality(Woken') >= Cardinality(Woken) - 1
      <4>1. Cardinality(Woken \ {c}) = IF c \in Woken THEN Cardinality(Woken) - 1 ELSE Cardinality(Woken)
        BY <1>w, FS_RemoveElement
      <4>2. Cardinality(Woken \ {c}) \in Nat
        BY <1>w, FS_RemoveElement, FS_CardinalityType
      <4> QED
        BY <1>w, <2>2, <4>1, <4>2
    <3>6. Waiting # {} => MAX_QUEUE_SIZE - Size <= Cardinality(Woken)
      BY DEF WakeInv, NoLostWakeup
    <3>7. Waiting # {} => MAX_QUEUE_SIZE - (Size + 1) <= Cardinality(Woken')
      BY <1>t, <1>w, <3>5, <3>6
    <3> QED
      BY <1>t, <2>2, <2>4, <3>4, <3>7 DEF NoLostWakeup
  <2> QED
    BY <2>2, <2>3, <2>4
<1>4. CASE Dispatch(c) \/ CheckThread(c) \/ CatchThrow(c) \/ DropFull(c) \/ FaultFull(c)
  BY <1>0, <1>1, <1>4 DEF Dispatch, CheckThread, CatchThrow, DropFull, FaultFull, Return, callVars, queueVars
<1>5. CASE WaitNotFull(c) \/ WaitAgain(c) \/ TimeoutFull(c)
  BY <1>2, <1>5 DEF WaitNotFull, WaitAgain, TimeoutFull, Return, queueVars
<1>6. CASE Push(c) \/ Resume(c)
  BY <1>3, <1>6 DEF Push, Resume
<1> QED
  BY <1>4, <1>5, <1>6 DEF DispatchStep

\* Taking a message makes room for one and notifies one.
LEMMA TakeWakes ==
  ASSUME WakeInv, NEW g \in Gens, Take(g), Running
  PROVE  IsFiniteSet(Dispatching') /\ NoLostWakeup'
<1>t. /\ MAX_QUEUE_SIZE \in Nat /\ MAX_QUEUE_SIZE' = MAX_QUEUE_SIZE
      /\ high \in Seq(Nat) /\ normal \in Seq(Nat)
      /\ Len(high) \in Nat /\ Len(normal) \in Nat /\ Size = Len(high) + Len(normal) /\ Size \in Nat
      /\ DOMAIN pc = Callers
  BY StdlibThreadAssumption, LaneTypes DEF StdlibThreadAssumption, Running, configVars, Size,
     WakeInv, MessageInv, ShutdownInv, WorkerInv, TypeInv, TypeOK
<1>w. IsFiniteSet(Woken) /\ Cardinality(Woken) \in Nat
  BY WokenCount DEF WakeInv
<1>1. /\ \/ high # <<>> /\ high' = Tail(high) /\ normal' = normal
         \/ normal # <<>> /\ normal' = Tail(normal) /\ high' = high
      /\ m_exit' = m_exit
  BY TakeMoves DEF WakeInv, MessageInv
<1>2. Size' = Size - 1
  <2>1. (high # <<>> => Len(Tail(high)) = Len(high) - 1) /\ (normal # <<>> => Len(Tail(normal)) = Len(normal) - 1)
    BY <1>t, HeadTailProperties
  <2>2. \/ Len(high') = Len(high) - 1 /\ Len(normal') = Len(normal)
        \/ Len(normal') = Len(normal) - 1 /\ Len(high') = Len(high)
    BY <1>1, <2>1
  <2> QED
    BY <1>t, <2>2 DEF Size
<1>3. CASE UNCHANGED pc /\ \A c \in Callers : pc[c] # "waiting"
  BY <1>3 DEF WakeInv, Dispatching, NoLostWakeup, Waiting
<1>4. CASE \E c \in Callers : pc[c] = "waiting" /\ pc' = [pc EXCEPT ![c] = "woken"]
  <2>1. PICK c \in Callers : pc[c] = "waiting" /\ pc' = [pc EXCEPT ![c] = "woken"]
    BY <1>4
  <2>2. IsFiniteSet(Dispatching') /\ Waiting # {} /\ Woken' = Woken \cup {c} /\ c \notin Woken
    BY <2>1, OneMoves DEF Waiting, Woken
  <2>3. Cardinality(Woken') = Cardinality(Woken) + 1
    BY <1>w, <2>2, FS_AddElement
  <2>4. ~m_exit /\ MAX_QUEUE_SIZE - Size <= Cardinality(Woken)
    BY <2>2 DEF WakeInv, NoLostWakeup
  <2>5. MAX_QUEUE_SIZE' - Size' <= Cardinality(Woken')
    BY <1>2, <1>t, <1>w, <2>3, <2>4
  <2> QED
    BY <1>1, <2>2, <2>4, <2>5 DEF NoLostWakeup
<1> QED
  BY <1>3, <1>4 DEF Take, NotifyOne

\* notify_all leaves nobody waiting.
LEMMA AllWake ==
  ASSUME WakeInv, NotifyAll
  PROVE  IsFiniteSet(Dispatching') /\ NoLostWakeup'
<1>1. DOMAIN pc = Callers
  BY DEF WakeInv, MessageInv, ShutdownInv, WorkerInv, TypeInv, TypeOK
<1>2. \A c \in Callers : pc'[c] = IF pc[c] = "waiting" THEN "woken" ELSE pc[c]
  BY DEF NotifyAll
<1>3. Dispatching' = Dispatching /\ Waiting' = {}
  BY <1>2 DEF Dispatching, Waiting
<1> QED
  BY <1>3 DEF WakeInv, NoLostWakeup

(* Wake-ups are not lost: as long as a caller of DispatchDelegate waits for   *)
(* room, each free slot has a notified caller on its way to it.             *)
THEOREM WakeupsKept == Safety => []NoLostWakeup
<1>1. Init /\ MessageInv => WakeInv
  <2> SUFFICES ASSUME Init, MessageInv PROVE WakeInv
    OBVIOUS
  <2>1. Dispatching = {} /\ Waiting = {}
    BY DEF Init, Dispatching, Waiting
  <2> QED
    BY <2>1, FS_EmptySet DEF WakeInv, NoLostWakeup
<1>2. WakeInv /\ MessageInv' /\ [Next]_vars => WakeInv'
  <2> SUFFICES ASSUME WakeInv, MessageInv', [Next]_vars PROVE IsFiniteSet(Dispatching') /\ NoLostWakeup'
    BY DEF WakeInv, Dispatching
  <2>1. ASSUME UNCHANGED <<pc, high, normal, MAX_QUEUE_SIZE>>, m_exit' => m_exit
        PROVE  IsFiniteSet(Dispatching') /\ NoLostWakeup'
    BY <2>1 DEF WakeInv, Dispatching, NoLostWakeup, Waiting, Woken, Size
  <2>2. MAX_QUEUE_SIZE' = MAX_QUEUE_SIZE
    BY ConfigKept DEF configVars
  <2>3. CASE UNCHANGED vars
    BY <2>1, <2>3 DEF vars, callVars, queueVars, configVars, ownerVars
  <2>4. CASE Next
    <3>1. Running
      BY <2>4 DEF Next
    <3>2. CASE Quiet
      <4>1. UNCHANGED pc /\ (m_exit' => m_exit)
        BY <3>2 DEF Quiet, CreateThread, OwnerStep, EmplaceThread, CreateThreadReturns, Join,
           StartHandlerDone, RunIdle, IdleHandlerDone, ExitHandlerDone, IdleDue, Detach, callVars, ownerVars
      <4> QED
        BY <2>1, <2>2, <3>2, <4>1, QuietMoves
    <3>3. ASSUME NEW c \in Callers, Dispatch(c) \/ DispatchStep(c) PROVE IsFiniteSet(Dispatching') /\ NoLostWakeup'
      BY <3>1, <3>3, DispatchWakes
    <3>4. ASSUME NEW g \in Gens, Take(g) PROVE IsFiniteSet(Dispatching') /\ NoLostWakeup'
      BY <3>1, <3>4, TakeWakes
    <3>5. ASSUME NEW g \in Gens, HandlerDone(g) PROVE IsFiniteSet(Dispatching') /\ NoLostWakeup'
      BY <2>1, <2>2, <3>5 DEF HandlerDone, callVars, ownerVars
    <3>6. ASSUME NEW e \in Exiters, ExitRequest(e) \/ ResetThread(e) PROVE IsFiniteSet(Dispatching') /\ NoLostWakeup'
      BY <3>6, AllWake DEF ExitRequest, ResetThread
    <3>7. ASSUME NEW e \in Exiters, CancelDiscarded(e) PROVE IsFiniteSet(Dispatching') /\ NoLostWakeup'
      BY <2>1, <2>2, <3>7 DEF CancelDiscarded, callVars, ownerVars
    <3> QED
      BY <2>4, <3>2, <3>3, <3>4, <3>5, <3>6, <3>7 DEF Next, Quiet, WorkerStep, ExitStep
  <2> QED
    BY <2>3, <2>4
<1>3. WakeInv => NoLostWakeup
  BY DEF WakeInv
<1> QED
  BY <1>1, <1>2, <1>3, MessageInvHolds, PTL DEF Safety

---------------------------------------------------------------------------
(* The thread implements Executor.  AbsOf(M) is what Executor sees of the    *)
(* messages M: one that has been taken off the lanes counts as canceled     *)
(* before ExitThread gets to canceling it.                                  *)

Seen(f)  == IF f = "removed" THEN "canceled" ELSE f
AbsOf(M) == [i \in DOMAIN M |-> [M[i] EXCEPT !.fate = IF @ = "removed" THEN "canceled" ELSE @]]

\* A message is its lane and its fate.
LEMMA MessageShape ==
  ASSUME NEW x \in Message
  PROVE  /\ x = [lane |-> x.lane, fate |-> x.fate]
         /\ \A f : [x EXCEPT !.fate = f] = [lane |-> x.lane, fate |-> f]
BY DEF Message

\* What Executor sees of one message.
LEMMA AbsAt ==
  ASSUME NEW M, \A m \in DOMAIN M : M[m] \in Message
  PROVE  /\ DOMAIN AbsOf(M) = DOMAIN M
         /\ \A m \in DOMAIN M : AbsOf(M)[m] = [lane |-> M[m].lane, fate |-> Seen(M[m].fate)]
<1>1. DOMAIN AbsOf(M) = DOMAIN M
  BY DEF AbsOf
<1>2. ASSUME NEW m \in DOMAIN M PROVE AbsOf(M)[m] = [lane |-> M[m].lane, fate |-> Seen(M[m].fate)]
  <2>1. AbsOf(M)[m] = [M[m] EXCEPT !.fate = Seen(M[m].fate)]
    BY DEF AbsOf, Seen
  <2> QED
    BY <2>1, MessageShape
<1> QED
  BY <1>1, <1>2

\* The fates turned in M are turned in what Executor sees.
LEMMA AbsTurned ==
  ASSUME NEW M \in Seq(Message), NEW N \in Seq(Message), NEW ids, NEW f, Turned(M, N, ids, f)
  PROVE  AbsOf(N) = [i \in DOMAIN AbsOf(M) |-> IF i \in ids THEN [AbsOf(M)[i] EXCEPT !.fate = Seen(f)] ELSE AbsOf(M)[i]]
<1>1. /\ \A m \in DOMAIN M : M[m] \in Message
      /\ \A m \in DOMAIN N : N[m] \in Message
  OBVIOUS
<1>2. DOMAIN N = DOMAIN M /\ DOMAIN AbsOf(M) = DOMAIN M
  BY <1>1, AbsAt DEF Turned
<1>3. ASSUME NEW i \in DOMAIN M
      PROVE  AbsOf(N)[i] = IF i \in ids THEN [AbsOf(M)[i] EXCEPT !.fate = Seen(f)] ELSE AbsOf(M)[i]
  <2>1. AbsOf(N)[i] = [lane |-> M[i].lane, fate |-> Seen(IF i \in ids THEN f ELSE M[i].fate)]
    BY <1>1, <1>2, AbsAt DEF Turned
  <2>2. AbsOf(M)[i] = [lane |-> M[i].lane, fate |-> Seen(M[i].fate)]
    BY <1>1, AbsAt
  <2>3. [AbsOf(M)[i] EXCEPT !.fate = Seen(f)] = [lane |-> M[i].lane, fate |-> Seen(f)]
    BY <2>2
  <2> QED
    BY <2>1, <2>2, <2>3
<1>4. AbsOf(N) = [i \in DOMAIN M |-> AbsOf(N)[i]]
  BY <1>2 DEF AbsOf
<1> QED
  BY <1>2, <1>3, <1>4

\* Turning fates to what Executor sees already changes nothing for it.
LEMMA AbsStutters ==
  ASSUME NEW M \in Seq(Message), NEW N \in Seq(Message), NEW ids, NEW f, Turned(M, N, ids, f),
         \A m \in DOMAIN M : m \in ids => Seen(M[m].fate) = Seen(f)
  PROVE  AbsOf(N) = AbsOf(M)
<1>1. /\ \A m \in DOMAIN M : M[m] \in Message
      /\ \A m \in DOMAIN N : N[m] \in Message
  OBVIOUS
<1>2. DOMAIN N = DOMAIN M
  BY DEF Turned
<1>3. ASSUME NEW i \in DOMAIN M PROVE AbsOf(N)[i] = AbsOf(M)[i]
  <2>1. AbsOf(N)[i] = [lane |-> N[i].lane, fate |-> Seen(N[i].fate)]
    BY <1>1, <1>2, AbsAt
  <2>2. AbsOf(M)[i] = [lane |-> M[i].lane, fate |-> Seen(M[i].fate)]
    BY <1>1, AbsAt
  <2>3. N[i].lane = M[i].lane /\ Seen(N[i].fate) = Seen(M[i].fate)
    BY DEF Turned
  <2> QED
    BY <2>1, <2>2, <2>3
<1>4. AbsOf(N) = [i \in DOMAIN M |-> AbsOf(N)[i]] /\ AbsOf(M) = [i \in DOMAIN M |-> AbsOf(M)[i]]
  BY <1>2 DEF AbsOf
<1> QED
  BY <1>3, <1>4

\* An accepted message is seen as it is.
LEMMA AbsAppends ==
  ASSUME NEW M \in Seq(Message), NEW l \in Lanes
  PROVE  AbsOf(Append(M, [lane |-> l, fate |-> "queued"])) = Append(AbsOf(M), [lane |-> l, fate |-> "queued"])
<1> DEFINE r == [lane |-> l, fate |-> "queued"]
           N == Append(M, r)
           A == AbsOf(M)
           B == AbsOf(N)
<1>1. /\ r \in Message /\ N \in Seq(Message) /\ Len(M) \in Nat /\ DOMAIN M = 1 .. Len(M) /\ DOMAIN N = 1 .. Len(M) + 1
      /\ N[Len(M) + 1] = r /\ \A m \in DOMAIN M : N[m] = M[m] /\ M[m] \in Message
      /\ \A m \in DOMAIN N : N[m] \in Message
  <2>1. r \in Message
    BY DEF Message
  <2>2. N \in Seq(Message) /\ Len(N) = Len(M) + 1 /\ \A i \in 1 .. Len(M) + 1 : N[i] = IF i = Len(M) + 1 THEN r ELSE M[i]
    BY <2>1, AppendProperties
  <2> HIDE DEF N, r
  <2> QED
    BY <2>1, <2>2
<1> HIDE DEF N
<1>2. DOMAIN A = 1 .. Len(M) /\ DOMAIN B = 1 .. Len(M) + 1
  BY <1>1, AbsAt
<1>3. \A m \in DOMAIN M : A[m] = [lane |-> M[m].lane, fate |-> Seen(M[m].fate)]
  BY <1>1, AbsAt
<1>4. \A m \in DOMAIN N : B[m] = [lane |-> N[m].lane, fate |-> Seen(N[m].fate)]
  BY <1>1, AbsAt
<1>5. B[Len(M) + 1] = r
  BY <1>1, <1>4 DEF Seen
<1>6. ASSUME NEW m \in 1 .. Len(M) PROVE B[m] = A[m] /\ m \in 1 .. Len(M) + 1
  <2>1. m \in DOMAIN M /\ m \in DOMAIN N /\ m \in 1 .. Len(M) + 1
    BY <1>1
  <2> HIDE DEF A, B
  <2> QED
    BY <1>1, <1>3, <1>4, <2>1
<1>7. A \in Seq(Message) /\ B \in Seq(Message) /\ Len(A) = Len(M) /\ Len(B) = Len(M) + 1
  <2>1. \A x \in Message : [lane |-> x.lane, fate |-> Seen(x.fate)] \in Message
    BY DEF Message, Seen
  <2>2. (\A m \in DOMAIN A : A[m] \in Message) /\ (\A m \in DOMAIN B : B[m] \in Message)
    BY <1>1, <1>2, <1>3, <1>4, <2>1
  <2>3. A = [m \in 1 .. Len(M) |-> A[m]] /\ B = [m \in 1 .. Len(M) + 1 |-> B[m]]
    BY <1>2 DEF AbsOf
  <2> HIDE DEF A, B
  <2>4. Len(M) + 1 \in Nat
    BY <1>1
  <2>5. A \in [1 .. Len(M) -> Message] /\ B \in [1 .. Len(M) + 1 -> Message]
    BY <1>2, <2>2, <2>3
  <2>6. A \in Seq(Message) /\ B \in Seq(Message)
    <3>1. Seq(Message) = UNION {[1 .. n -> Message] : n \in Nat}
      BY SeqDef
    <3> QED
      BY <1>1, <2>4, <2>5, <3>1
  <2> QED
    BY <1>1, <1>2, <2>4, <2>6
<1> HIDE DEF A, B
<1>8. B = Append(A, r)
  <2>1. Append(A, r) \in Seq(Message) /\ Len(Append(A, r)) = Len(M) + 1 /\ Append(A, r)[Len(M) + 1] = r
        /\ \A m \in 1 .. Len(M) : Append(A, r)[m] = A[m]
    BY <1>1, <1>7, AppendProperties
  <2>2. \A m \in 1 .. Len(M) + 1 : m \in 1 .. Len(M) \/ m = Len(M) + 1
    BY <1>1
  <2>3. \A m \in 1 .. Len(M) + 1 : B[m] = Append(A, r)[m]
    BY <1>5, <1>6, <2>1, <2>2
  <2> QED
    BY <1>7, <2>1, <2>3, SeqEqual
<1> QED
  BY <1>8 DEF A, B, N

\* What Executor's own operators say of AbsOf(msgs).
LEMMA AbsQueued ==
  ASSUME NEW M, \A m \in DOMAIN M : M[m] \in Message
  PROVE  \A m \in DOMAIN M : /\ AbsOf(M)[m].lane = M[m].lane
                             /\ AbsOf(M)[m].fate = Seen(M[m].fate)
                             /\ AbsOf(M)[m].fate = "queued" <=> M[m].fate = "queued"
<1>1. ASSUME NEW m \in DOMAIN M PROVE AbsOf(M)[m].lane = M[m].lane /\ AbsOf(M)[m].fate = Seen(M[m].fate)
  <2>1. AbsOf(M)[m] = [lane |-> M[m].lane, fate |-> Seen(M[m].fate)]
    BY AbsAt
  <2> QED
    BY <2>1
<1> QED
  BY <1>1 DEF Seen

\* Every step of the thread is a step of Executor or one it does not see.
LEMMA ExecutorStep ==
  ASSUME MessageInv, MessageInv', [Next]_vars
  PROVE  \/ AbsOf(msgs)' = AbsOf(msgs)
         \/ \E l \in {"HIGH", "NORMAL"} : AbsOf(msgs)' = Append(AbsOf(msgs), [lane |-> l, fate |-> "queued"])
         \/ \E m \in DOMAIN AbsOf(msgs) :
              /\ AbsOf(msgs)[m].fate = "queued"
              /\ \A j \in DOMAIN AbsOf(msgs) :
                   AbsOf(msgs)[j].fate = "queued" /\ AbsOf(msgs)[j].lane = AbsOf(msgs)[m].lane => m <= j
              /\ AbsOf(msgs)[m].lane = "NORMAL" =>
                   \A j \in DOMAIN AbsOf(msgs) : AbsOf(msgs)[j].fate = "queued" => AbsOf(msgs)[j].lane = "NORMAL"
              /\ AbsOf(msgs)' = [i \in DOMAIN AbsOf(msgs) |->
                                  IF i \in {m} THEN [AbsOf(msgs)[i] EXCEPT !.fate = "running"] ELSE AbsOf(msgs)[i]]
         \/ \E m \in DOMAIN AbsOf(msgs) :
              /\ AbsOf(msgs)[m].fate = "running"
              /\ AbsOf(msgs)' = [i \in DOMAIN AbsOf(msgs) |->
                                  IF i \in {m} THEN [AbsOf(msgs)[i] EXCEPT !.fate = "invoked"] ELSE AbsOf(msgs)[i]]
         \/ \E ids \in SUBSET {i \in DOMAIN AbsOf(msgs) : AbsOf(msgs)[i].fate = "queued"} :
              AbsOf(msgs)' = [i \in DOMAIN AbsOf(msgs) |->
                                  IF i \in ids THEN [AbsOf(msgs)[i] EXCEPT !.fate = "canceled"] ELSE AbsOf(msgs)[i]]
<1> DEFINE A == AbsOf(msgs)
           Marked(ids, f) == [i \in DOMAIN A |-> IF i \in ids THEN [A[i] EXCEPT !.fate = f] ELSE A[i]]
           Goal == \/ A' = A
                   \/ \E l \in {"HIGH", "NORMAL"} : A' = Append(A, [lane |-> l, fate |-> "queued"])
                   \/ \E m \in DOMAIN A :
                        /\ A[m].fate = "queued"
                        /\ \A j \in DOMAIN A : A[j].fate = "queued" /\ A[j].lane = A[m].lane => m <= j
                        /\ A[m].lane = "NORMAL" => \A j \in DOMAIN A : A[j].fate = "queued" => A[j].lane = "NORMAL"
                        /\ A' = Marked({m}, "running")
                   \/ \E m \in DOMAIN A : A[m].fate = "running" /\ A' = Marked({m}, "invoked")
                   \/ \E ids \in SUBSET {i \in DOMAIN A : A[i].fate = "queued"} : A' = Marked(ids, "canceled")
<1> SUFFICES Goal
  OBVIOUS
<1>t. /\ msgs \in Seq(Message) /\ msgs' \in Seq(Message) /\ DOMAIN A = DOMAIN msgs
      /\ \A m \in DOMAIN msgs : msgs[m] \in Message /\ m # EXIT
      /\ \A m \in DOMAIN msgs : /\ A[m].lane = msgs[m].lane /\ A[m].fate = Seen(msgs[m].fate)
                                /\ A[m].fate = "queued" <=> msgs[m].fate = "queued"
      /\ high \in Seq(Nat) /\ normal \in Seq(Nat) /\ NoExit(high)
  <2>1. msgs \in Seq(Message) /\ (\A m \in DOMAIN msgs : msgs[m] \in Message /\ m # EXIT)
        /\ high \in Seq(Nat) /\ normal \in Seq(Nat) /\ NoExit(high)
    BY LaneTypes DEF MessageInv
  <2>2. msgs' \in Seq(Message)
    BY DEF MessageInv, ShutdownInv, WorkerInv, TypeInv, TypeOK
  <2> QED
    BY <2>1, <2>2, AbsQueued, AbsAt
<1>a. ASSUME NEW ids, NEW f, Turned(msgs, msgs', ids, f) PROVE A' = Marked(ids, Seen(f))
  BY <1>a, <1>t, AbsTurned
<1>s. ASSUME UNCHANGED msgs PROVE Goal
  BY <1>s
<1>1. CASE UNCHANGED vars \/ Quiet
  BY <1>1, <1>s, QuietMoves DEF vars, queueVars
<1>2. ASSUME NEW c \in Callers, Dispatch(c) \/ DispatchStep(c) PROVE Goal
  <2>1. CASE UNCHANGED queueVars
    BY <1>s, <2>1 DEF queueVars
  <2>2. CASE ~UNCHANGED queueVars
    <3>1. PICK l \in Lanes : msgs' = Append(msgs, [lane |-> l, fate |-> "queued"])
      BY <1>2, <2>2, DispatchMoves, PushMoves DEF MessageInv
    <3>2. A' = Append(A, [lane |-> l, fate |-> "queued"])
      BY <1>t, <3>1, AbsAppends
    <3> QED
      BY <3>2 DEF Lanes
  <2> QED
    BY <2>1, <2>2
<1>3. ASSUME NEW g \in Gens, Take(g) PROVE Goal
  <2>1. PICK m \in Nat :
           /\ \/ high # <<>> /\ m = Head(high) /\ m # EXIT /\ msgs[m].lane = "HIGH"
              \/ high = <<>> /\ normal # <<>> /\ m = Head(normal) /\ (m # EXIT => msgs[m].lane = "NORMAL")
           /\ m # EXIT => m \in DOMAIN msgs /\ msgs[m].fate = "queued"
           /\ Turned(msgs, msgs', {m}, "running")
    BY <1>3, TakeMoves DEF MessageInv
  <2>2. CASE m = EXIT
    <3>1. \A i \in DOMAIN msgs : i \in {m} => Seen(msgs[i].fate) = Seen("running")
      BY <1>t, <2>2
    <3> QED
      BY <1>t, <2>1, <3>1, AbsStutters
  <2>3. CASE m # EXIT
    <3>1. m \in DOMAIN msgs /\ msgs[m].fate = "queued"
      BY <2>1, <2>3
    <3>2. \A q \in Seq(Nat) : q # <<>> => Head(q) = q[1] /\ 1 \in DOMAIN q /\ \A k \in DOMAIN q : k = 1 \/ 1 < k
      OBVIOUS
    <3>3. ASSUME NEW q \in Seq(Nat), NEW l, q # <<>>, LaneExact(q, l, msgs), m = Head(q),
                 NEW j \in DOMAIN msgs, msgs[j].fate = "queued", msgs[j].lane = l
          PROVE  m <= j
      <4>1. PICK k \in DOMAIN q : q[k] = j
        BY <3>3 DEF LaneExact
      <4>2. q[1] \in Nat /\ q[k] \in Nat
        BY <3>2, <3>3
      <4>3. CASE k = 1
        BY <3>2, <3>3, <4>1, <4>2, <4>3
      <4>4. CASE 1 < k
        <5>1. q[1] < q[k]
          BY <1>t, <3>2, <3>3, <4>1, <4>4 DEF LaneExact
        <5> QED
          BY <3>2, <3>3, <4>1, <4>2, <5>1
      <4> QED
        BY <3>2, <3>3, <4>3, <4>4
    <3>4. \A j \in DOMAIN msgs : msgs[j].fate = "queued" /\ msgs[j].lane = msgs[m].lane => m <= j
      <4>1. CASE high # <<>>
        BY <1>t, <2>1, <3>3, <4>1 DEF MessageInv, LanesExact
      <4>2. CASE high = <<>>
        BY <1>t, <2>1, <2>3, <3>3, <4>2 DEF MessageInv, LanesExact
      <4> QED
        BY <4>1, <4>2
    <3>5. ASSUME msgs[m].lane = "NORMAL", NEW j \in DOMAIN msgs, msgs[j].fate = "queued" PROVE msgs[j].lane = "NORMAL"
      <4>1. high = <<>>
        BY <2>1, <3>5
      <4>2. msgs[j].lane # "HIGH"
        BY <3>5, <4>1 DEF MessageInv, LanesExact, LaneExact
      <4> QED
        BY <1>t, <4>2 DEF Message, Lanes
    <3>6. A' = Marked({m}, "running")
      BY <1>a, <2>1 DEF Seen
    <3> HIDE DEF A, Marked
    <3>7. \A j \in DOMAIN A : A[j].fate = "queued" /\ A[j].lane = A[m].lane => m <= j
      BY <1>t, <3>1, <3>4
    <3>8. A[m].lane = "NORMAL" => \A j \in DOMAIN A : A[j].fate = "queued" => A[j].lane = "NORMAL"
      BY <1>t, <3>1, <3>5
    <3>9. m \in DOMAIN A /\ A[m].fate = "queued"
      BY <1>t, <3>1
    <3> QED
      BY <3>6, <3>7, <3>8, <3>9
  <2> QED
    BY <2>2, <2>3
<1>4. ASSUME NEW g \in Gens, HandlerDone(g) PROVE Goal
  <2>1. Turned(msgs, msgs', {cur[g]}, "invoked") /\ wpc[g] = "handling"
    BY <1>4, DoneMoves DEF MessageInv
  <2>2. cur[g] \in DOMAIN msgs /\ msgs[cur[g]].fate = "running"
    BY <2>1 DEF MessageInv, RunningExact
  <2>3. A' = Marked({cur[g]}, "invoked")
    BY <1>a, <2>1 DEF Seen
  <2> HIDE DEF A, Marked
  <2>4. cur[g] \in DOMAIN A /\ A[cur[g]].fate = "running"
    BY <1>t, <2>2 DEF Seen
  <2> QED
    BY <2>3, <2>4
<1>5. ASSUME Turned(msgs, msgs', Leftover, "removed") PROVE Goal
  <2>1. A' = Marked(Leftover, "canceled")
    BY <1>a, <1>5 DEF Seen
  <2> HIDE DEF A, Marked
  <2>2. Leftover \in SUBSET {i \in DOMAIN A : A[i].fate = "queued"}
    BY <1>t, DiscardTakesQueued DEF MessageInv
  <2> QED
    BY <2>1, <2>2
<1>6. ASSUME NEW e \in Exiters, ExitRequest(e) PROVE Goal
  BY <1>5, <1>6, <1>s, ExitMoves DEF MessageInv
<1>7. ASSUME NEW e \in Exiters, ResetThread(e) PROVE Goal
  BY <1>5, <1>7, ResetMoves DEF MessageInv
<1>8. ASSUME NEW e \in Exiters, CancelDiscarded(e) PROVE Goal
  <2>1. Turned(msgs, msgs', discarded[e], "canceled")
    BY <1>8, CancelMoves DEF MessageInv
  <2>2. \A m \in DOMAIN msgs : m \in discarded[e] => Seen(msgs[m].fate) = Seen("canceled")
    BY DEF MessageInv, DiscardedExact, Seen
  <2> QED
    BY <1>t, <2>1, <2>2, AbsStutters
<1> HIDE DEF Goal
<1> QED
  BY <1>1, <1>2, <1>3, <1>4, <1>6, <1>7, <1>8, NextMoves

(* The two lanes, the worker and the shutdown implement one serial executor: *)
(* whatever the interleaving, every accepted message is invoked once or      *)
(* canceled, never both, oldest first in its lane and HIGH before NORMAL.   *)
THEOREM ThreadImplementsExecutor == Safety => ImplementsExecutor
<1> DEFINE A == [i \in DOMAIN msgs |-> [msgs[i] EXCEPT !.fate = IF @ = "removed" THEN "canceled" ELSE @]]
<1>1. Init => Executor!Init
  BY DEF Init, Executor!Init
<1>2. MessageInv /\ MessageInv' /\ [Next]_vars => [Executor!Next]_A
  <2> SUFFICES ASSUME MessageInv, MessageInv', [Next]_vars PROVE Executor!Next \/ A' = A
    OBVIOUS
  <2>1. A = AbsOf(msgs)
    BY DEF AbsOf
  <2> HIDE DEF A
  <2> QED
    BY <2>1, ExecutorStep DEF A, AbsOf, Executor!Next, Executor!Accept, Executor!Begin, Executor!Finish, Executor!Cancel,
       Executor!MayBegin, Executor!Queued, Executor!SetFate, Executor!Unstarted
<1> QED
  BY <1>1, <1>2, MessageInvHolds, PTL DEF Safety, ImplementsExecutor, Executor!Spec
===========================================================================
