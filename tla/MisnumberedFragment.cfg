SPECIFICATION Spec
CONSTANTS
  id = id
  rank = rank
  Keys = {id, rank}
  Numbered = TRUE
  Bases <- NumberedBases
  Clauses <- CompensatingClauses
  Orders <- NoOrders
  Cursors <- NoCursors
  MaxArguments = 2
  MaxWheres = 2
  MaxOrders = 2
INVARIANT MisnumberedFragmentCaught
\* compose() consumes the builder: the system stops when it has returned.
CHECK_DEADLOCK FALSE
