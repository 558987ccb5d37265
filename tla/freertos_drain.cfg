SPECIFICATION Spec
CONSTANTS
  Producers = {p1}
  m_queueSize = 1
  FullPolicies = {"TIMEOUT"}
  Wakes = {TRUE}
  HandlersAct = FALSE
  SelfExits = {}
  MaxCalls = 3
  MaxStarts = 1
INVARIANT DrainHonoured
CHECK_DEADLOCK FALSE
