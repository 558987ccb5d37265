SPECIFICATION Spec
CONSTANTS
  s1 = s1
  s2 = s2
  s3 = s3
  EVENT_IGNORED = EVENT_IGNORED
  CANNOT_HAPPEN = CANNOT_HAPPEN
  NoEvent = NoEvent
  States <- AnyState
  InitialState = s1
  Events <- AnyEvent
  Transitions <- AnyTransition
  Forms = {TRUE, FALSE}
  Guarded = {s2, s3}
  Raises <- AnyRaise
  StrayRaises = {}
  ReenterChoices = {{"action"}}
  MaxEvents = 4
INVARIANT RunToCompletion
CHECK_DEADLOCK FALSE
