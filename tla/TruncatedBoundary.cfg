SPECIFICATION Spec
CONSTANTS
  Null = Null
  Unset = Unset
  NullsFirst = TRUE
  TypeOf <- ColumnTypes
  Decodes <- DriverDecodes
  Compares <- DatabaseCompares
  UntypedNulls = TRUE
  TicksPerMicro = 2
  RowIds <- Ids
  Cells <- FineCells
  Shown <- AllColumns
  Builds <- TimeBuild
  Tables <- FineTables
  Orders <- NullableOrders
  Sizes <- MCSizes
  MaxWrites = 0
  MaxFaults = 0
INVARIANT EveryRowOnce
\* A traversal stops at its last page.
CHECK_DEADLOCK FALSE
