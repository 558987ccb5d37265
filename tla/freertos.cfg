SPECIFICATION Spec
CONSTANTS
  Producers = {p1, p2}
  m_queueSize = 2
  FullPolicies = {"TIMEOUT", "DROP", "FAULT"}
  Wakes = {TRUE, FALSE}
  HandlersAct = TRUE
  SelfExits = {"handling"}
  MaxCalls = 4
  MaxStarts = 2
INVARIANTS DoorbellExact DrainHonouredWhenBlocking
PROPERTY ImplementsExecutor
CHECK_DEADLOCK FALSE
SYMMETRY Symmetry
