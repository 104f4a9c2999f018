SPECIFICATION Spec
CONSTANTS
  Controls = {"PAUSE"}
  MaxControls = 1
  TimerIds = {t1}
  NoTimer = NoTimer
  CrossThreadKill = TRUE
  Registered = {}
  Calls = {"State"}
  NewStates = {"RUNNING"}
  MaxCalls = 2
  MaxPosts = 1
CHECK_DEADLOCK FALSE
PROPERTIES ForcedOnlyUnanswered
