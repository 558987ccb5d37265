SPECIFICATION Spec
CONSTANTS
  Ids = {1, 2}
  SEQ_MOD = 2
  MAX_TRANSPORT_MONITOR_PENDING = 2
  MAX_TIMER_EXPIRED = 1
  Senders = {a}
  MAX_RETRIES = 1
  SEQ_HISTORY_SIZE = 1
  SendMayFail = TRUE
  MaxMessages = 3
  IdsOf <- KeysDiffer
  AtStart = {1}
INVARIANTS AckedWasReceived DuplicatesFarApart NothingForgotten FailsOnce
PROPERTY Resolved
CHECK_DEADLOCK FALSE
