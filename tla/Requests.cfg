SPECIFICATION Spec
CONSTANTS
  Segments <- MCSegments
  Requests <- MCRequests
  Offers <- MCOffers
  TieBreaks <- MCTieBreaks
  Bases <- MCBases
  Null = Null
  Cells <- MCCells
INVARIANT ReadsAsMeant
INVARIANT OnlyOffered
INVARIANT StatementOffered
INVARIANT NumberedInOrder
INVARIANT NeverPanics
INVARIANT StatementReads
INVARIANT BoundarySelects
CHECK_DEADLOCK FALSE
