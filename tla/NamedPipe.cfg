SPECIFICATION Spec
CONSTANTS
  NULL = NULL
  Servers = {s1}
  Clients = {c1, c2, c3}
  MaxWrites = 3
  Room = 2
INVARIANTS TypeOK StreamKept CloseDelivers
PROPERTIES ClientEnds ServerListens
CHECK_DEADLOCK FALSE
