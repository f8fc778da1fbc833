SPECIFICATION Spec
CONSTANTS
  id = id
  rank = rank
  Keys = {id, rank}
  Numbered = TRUE
  Bases <- NumberedBases
  Clauses <- GoodClauses
  Orders <- NoOrders
  Cursors <- UnsetCursors
  MaxArguments = 2
  MaxWheres = 2
  MaxOrders = 2
INVARIANT ComposeNeverPanics
\* compose() consumes the builder: the system stops when it has returned.
CHECK_DEADLOCK FALSE
