SPECIFICATION FairSpec
CONSTANTS
  Capacity = 2
  Ids = {1}
  SEQ_MOD = 4
  MAX_TRANSPORT_MONITOR_PENDING = 1
  MAX_TIMER_EXPIRED = 1
  Callers = {c1, c2}
  MAX_RETRIES = 1
  SendMayFail = TRUE
  MaxInvokes = 2
  MaxReceived = 1
INVARIANTS ArgumentsAlive FirstStatusDecides
PROPERTY CallsReturn
CHECK_DEADLOCK FALSE
