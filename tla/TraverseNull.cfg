SPECIFICATION Spec
CONSTANTS
  Null = Null
  Unset = Unset
  NullsFirst = TRUE
  TypeOf <- ColumnTypes
  Decodes <- DriverDecodes
  Compares <- DatabaseCompares
  UntypedNulls = TRUE
  TicksPerMicro = 2
  RowIds <- Ids
  Cells <- NullableCells
  Shown <- AllColumns
  Builds <- OneBuild
  Tables <- NullableTables
  Orders <- NullableOrders
  Sizes <- MCSizes
  MaxWrites = 0
  MaxFaults = 0
INVARIANT AnyColumnIsAKey
\* A traversal stops at its last page.
CHECK_DEADLOCK FALSE
