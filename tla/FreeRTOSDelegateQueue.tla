---------------------- MODULE FreeRTOSDelegateQueue ----------------------
(***************************************************************************)
(* FreeRTOSDelegateQueue: a HIGH and a NORMAL FreeRTOS queue of the same     *)
(* capacity, and a counting semaphore, the doorbell, that is given once for  *)
(* every message sent.  No lock covers more than one of the three objects:  *)
(* a Send pushes first and rings later, a Receive takes the doorbell first  *)
(* and looks into the lanes one after the other.                            *)
(***************************************************************************)
EXTENDS Integers, Sequences

CONSTANT m_queueSize     \* capacity of each lane

ASSUME QueueAssumption == m_queueSize \in Nat \ {0}

VARIABLES
  created,   \* the three handles are not null
  high,      \* m_highQueue
  normal,    \* m_normalQueue
  bell       \* m_countSem

queueVars == <<created, high, normal, bell>>
Lanes     == {"HIGH", "NORMAL"}

QueueInit == created = FALSE /\ high = <<>> /\ normal = <<>> /\ bell = 0

\* Both lanes hold m_queueSize messages; the doorbell counts all of them.
SmallBell == m_queueSize                 \* slip: sized for one lane
MaxBell == 2 * m_queueSize

Create  == created' = TRUE /\ high' = <<>> /\ normal' = <<>> /\ bell' = 0
Destroy == created' = FALSE /\ high' = <<>> /\ normal' = <<>> /\ bell' = 0

HasRoom(lane) == Len(IF lane = "HIGH" THEN high ELSE normal) < m_queueSize

\* slip: xQueueSendToFront for HIGH messages
PushFront(lane, id) ==
  /\ IF lane = "HIGH" THEN high' = <<id>> \o high /\ UNCHANGED normal
                      ELSE normal' = Append(normal, id) /\ UNCHANGED high
  /\ UNCHANGED <<created, bell>>

\* xQueueSendToBack, on the lane of the message.
PushBack(lane, id) ==
  /\ IF lane = "HIGH" THEN high' = Append(high, id) /\ UNCHANGED normal
                      ELSE normal' = Append(normal, id) /\ UNCHANGED high
  /\ UNCHANGED <<created, bell>>

\* xSemaphoreGive, which fails without a trace when the count is at its maximum.
Ring ==
  /\ bell' = IF bell < MaxBell THEN bell + 1 ELSE bell
  /\ UNCHANGED <<created, high, normal>>

\* xSemaphoreTake and the look into the HIGH lane.
TakeBell ==
  /\ bell > 0 /\ bell' = bell - 1
  /\ high' = IF high = <<>> THEN <<>> ELSE Tail(high)
  /\ UNCHANGED <<created, normal>>

PopNormal ==
  /\ normal' = IF normal = <<>> THEN <<>> ELSE Tail(normal)
  /\ UNCHANGED <<created, high, bell>>

\* DrainAndDelete empties the lanes and leaves the doorbell alone.
Empty == high' = <<>> /\ normal' = <<>> /\ UNCHANGED <<created, bell>>
===========================================================================
