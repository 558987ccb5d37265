SPECIFICATION Safety
CONSTANTS
  Clients = {c1}
  TopSpeed = 2
  MaxCalls = 2
  MaxInbox = 2
  MaxEvents = 24
INVARIANT OneCompletionPerTest
CHECK_DEADLOCK FALSE
