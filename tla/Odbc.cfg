SPECIFICATION Spec
CONSTANTS
  FREE_ITEM = FREE_ITEM
  NULL = NULL
  Objs = {1, 2, 3}
  Dbcs = {1, 2}
  Sets = {1, 2}
  CloseTypes = {"SQL_DROP", "SQL_CLOSE"}
  MaxNumber = 2
INVARIANTS NumbersAgree CountMatches StatementsOwned BoundBuffersLive ExecuteDelivers
PROPERTIES CallsIsolated Implements
