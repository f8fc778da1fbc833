SPECIFICATION Spec
CONSTANTS
  Null = Null
  Unset = Unset
  NullsFirst = FALSE
  TypeOf <- ColumnTypes
  Decodes <- DriverDecodes
  Compares <- DatabaseCompares
  UntypedNulls = FALSE
  TicksPerMicro = 2
  RowIds <- Ids
  Cells <- DatedCells
  Shown <- AllColumns
  Builds <- OneBuild
  Tables <- FullTables
  Orders <- ServedOrders
  Sizes <- MCSizes
  MaxWrites = 2
  MaxFaults = 2
INVARIANT TypeOK
INVARIANT OrderedOnce
INVARIANT StableRowsDelivered
INVARIANT NextPageHasRows
INVARIANT Paged
INVARIANT Thorough
PROPERTY ImplementsScan
\* A traversal stops at its last page.
CHECK_DEADLOCK FALSE
