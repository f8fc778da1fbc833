SPECIFICATION Spec
CONSTANTS
  Segments <- MCSegments
  Requests <- MCRequests
  Offers <- MCOffers
  TieBreaks <- MCTieBreaks
  Bases <- MCBases
  Null = Null
  Cells <- MCCells
INVARIANT NoPrecedenceToGetWrong
CHECK_DEADLOCK FALSE
