SPECIFICATION Spec
CONSTANTS
  Controls = {"STOP", "PAUSE", "INTERROGATE"}
  MaxControls = 1
  TimerIds = {t1, t2}
  NoTimer = NoTimer
  CrossThreadKill = FALSE
  Registered = {"START", "PAUSE"}
  Calls = {"Return", "State", "Error", "StopService", "LastControlMessage", "SetServiceBits", "CallbackTimer"}
  NewStates = {"PAUSED"}
  MaxCalls = 1
  MaxPosts = 2
CHECK_DEADLOCK FALSE
SYMMETRY TimerSymmetry
INVARIANTS TypeOK StatusExplained TimerHandleLive HeartbeatKept StoppedStays
