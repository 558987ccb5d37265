SPECIFICATION Spec
CONSTANTS
  Clients = {c1, c2}
  TopSpeed = 5
  MaxCalls = 4
  MaxInbox = 3
  MaxEvents = 48
INVARIANTS TypeOK NeverCannotHappen TimerMatchesState
PROPERTY TestEnds
CHECK_DEADLOCK FALSE
