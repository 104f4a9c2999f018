SPECIFICATION FairSpec
CONSTANTS
  Controls = {"PAUSE"}
  MaxControls = 1
  TimerIds = {t1}
  NoTimer = NoTimer
  CrossThreadKill = TRUE
  Registered = {"PAUSE", "TIMER"}
  Calls = {"StopService"}
  NewStates = {}
  MaxCalls = 1
  MaxPosts = 1
CHECK_DEADLOCK FALSE
PROPERTIES ControlCalledBack HeartbeatBeats StopReturns StartCompletes
