SPECIFICATION Spec
CONSTANTS
  o1 = o1  o2 = o2
  s1 = s1  s2 = s2  s3 = s3
  NULL = NULL
  Objects <- MCObjects
  Sinks <- MCSinks
  MaxDepth = 4
  MaxRefs = 1
  MaxEvents = 3
SYMMETRY MCSymmetry
INVARIANTS SinkCounted CurrentConnected CrashExplained
CHECK_DEADLOCK FALSE
