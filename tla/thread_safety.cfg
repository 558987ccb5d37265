SPECIFICATION Safety
CONSTANTS
  Producers = {p1, p2}
  QueueSizes = {1, 2}
  FullPolicies = {"TIMEOUT", "DROP", "FAULT"}
  IdleHandler = TRUE
  HandlersAct = TRUE
  MaxCalls = 3
  MaxStarts = 2
SYMMETRY Symmetry
INVARIANTS TypeOK QueueBounded JoinedMeansDrained ExitMessagePending OneWorker NoLostWakeup StoppedMeansQuiet
PROPERTY ImplementsExecutor
CHECK_DEADLOCK FALSE
