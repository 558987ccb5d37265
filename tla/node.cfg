SPECIFICATION FairSpec
CONSTANTS
  Timers = {recv, t1}
  Signals = {recv, t1}
  Delegates = {d1, d2}
  Timeouts = {1, 2}
  MAX_TIMER_EXPIRED = 1
  m_recvTimer = recv
  None = None
INVARIANTS ListSound BacklogCleared TickTargetAlive
PROPERTY StopReturns
