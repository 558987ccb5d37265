SPECIFICATION Spec
CONSTANTS
  s1 = s1
  s2 = s2
  s3 = s3
  EVENT_IGNORED = EVENT_IGNORED
  CANNOT_HAPPEN = CANNOT_HAPPEN
  NoEvent = NoEvent
  States <- AnyState
  InitialState = s1
  Events <- AnyEvent
  Transitions <- AnyTransition
  Forms = {TRUE, FALSE}
  Guarded = {s2, s3}
  Raises <- AnyRaise
  StrayRaises = {"exit", "onExit", "entry", "onEntry"}
  ReenterChoices = {{}, {"action"}, {"action", "raised", "onTransition"}, {"guard"}, {"guard", "exit"}}
  MaxEvents = 4
INVARIANTS NoEventLost OccupiedAtRest
PROPERTIES ActionRunsInItsState TransitionsChain
CHECK_DEADLOCK FALSE
