SPECIFICATION FairSpec
CONSTANTS
  Controls = {"STOP"}
  MaxControls = 1
  TimerIds = {t1, t2}
  NoTimer = NoTimer
  CrossThreadKill = TRUE
  Registered = {}
  Calls = {}
  NewStates = {}
  MaxCalls = 0
  MaxPosts = 1
CHECK_DEADLOCK FALSE
PROPERTIES StopTimesOut
