SPECIFICATION Spec
CONSTANTS
  id = id
  rank = rank
  Keys = {id, rank}
  Numbered = FALSE
  Bases <- QuestionBases
  Clauses <- MixedClauses
  Orders <- MCOrders
  Cursors <- MCCursors
  MaxArguments = 2
  MaxWheres = 2
  MaxOrders = 2
INVARIANT IInv
INVARIANT BindFidelity
INVARIANT BaseArgumentsOnce
INVARIANT OpaqueBoundOnce
INVARIANT TakenOnce
INVARIANT BaseReferenced
INVARIANT LastReferenced
INVARIANT PromiseKept
PROPERTY ImplementsComposition
\* compose() consumes the builder: the system stops when it has returned.
CHECK_DEADLOCK FALSE
