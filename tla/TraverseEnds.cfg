SPECIFICATION Spec
CONSTANTS
  Null = Null
  Unset = Unset
  NullsFirst = FALSE
  TypeOf <- ColumnTypes
  Decodes <- DriverDecodes
  Compares <- DatabaseCompares
  UntypedNulls = FALSE
  TicksPerMicro = 2
  RowIds <- Ids
  Cells <- DatedCells
  Shown <- MostColumns
  Builds <- MixedBuilds
  Tables <- FullTables
  Orders <- MCOrders
  Sizes <- MCSizes
  MaxWrites = 1
  MaxFaults = 1
INVARIANT OrderedOnce
INVARIANT StableRowsDelivered
INVARIANT NextPageHasRows
INVARIANT BoundaryAccepted
INVARIANT DeliveriesBounded
PROPERTY TraversalEnds
\* A traversal stops at its last page.
CHECK_DEADLOCK FALSE
