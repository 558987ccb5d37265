SPECIFICATION Spec
CONSTANTS
  s1 = s1
  s2 = s2
  s3 = s3
  s4 = s4
  EVENT_IGNORED = EVENT_IGNORED
  CANNOT_HAPPEN = CANNOT_HAPPEN
  PROPAGATE_TO_PARENT = PROPAGATE_TO_PARENT
  NO_PARENT = NO_PARENT
  NoEvent = NoEvent
  States <- FourStates
  InitialState = s1
  Events <- OneOrTwoHandlers
  Transitions <- OneOrTwoHandlersMap
  Hierarchies <- Mixed
  MAX_HSM_DEPTH = 3
  Guarded = {s2, s3, s4}
  Raises <- AnyRaise
  StrayRaises = {"exit", "onEntry"}
  ReenterChoices = {{"action", "raised"}, {"guard"}}
  MaxEvents = 3
INVARIANTS ConfigurationExact ParentsOccupied NoHalfTransition FindLCACorrect InnermostHandler
SYMMETRY Symmetry
PROPERTY ImplementsFlatEngine
CHECK_DEADLOCK FALSE
