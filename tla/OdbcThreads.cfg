SPECIFICATION Spec
CONSTANTS
  FREE_ITEM = FREE_ITEM
  NULL = NULL
  Threads = {t1, t2, t3}
  ThreadIds = {i1, i2, i3}
  Loaders = {t1}
  Moms = {m1}
  Daughters = {d1, d2, d3}
  MaxConns = 2
INVARIANTS ListLive ConnectionsFound ThreadsApart DaughtersKept
CHECK_DEADLOCK FALSE
SYMMETRY Symmetry
