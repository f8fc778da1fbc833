SPECIFICATION Spec
CONSTANTS
  id = id
  rank = rank
  Keys = {id, rank}
  Numbered = TRUE
  Bases <- NumberedBases
  Clauses <- GoodClauses
  Orders <- MCOrders
  Cursors <- MCCursors
  MaxArguments = 2
  MaxWheres = 2
  MaxOrders = 2
INVARIANT TypeOK
INVARIANT BindFidelity
INVARIANT SpliceCursorOrdering
INVARIANT ConditionsInEverySlot
INVARIANT NoSpuriousError
INVARIANT Sorted
INVARIANT Placed
INVARIANT PromiseKept
PROPERTY ImplementsComposition
\* compose() consumes the builder: the system stops when it has returned.
CHECK_DEADLOCK FALSE
