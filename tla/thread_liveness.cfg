SPECIFICATION Spec
CONSTANTS
  Producers = {p1}
  QueueSizes = {1}
  FullPolicies = {"TIMEOUT", "DROP"}
  IdleHandler = TRUE
  HandlersAct = TRUE
  MaxCalls = 2
  MaxStarts = 2
PROPERTIES DispatchReturns ExitReturns MessagesResolved
CHECK_DEADLOCK FALSE
